----------------------------- MODULE StoredFile ------------------------------
(***************************************************************************)
(* What ReadMetadata makes of the file that an Encoder has left: closed, or *)
(* abandoned before or during Close, or with an ID3v2 tag or one more block *)
(* from another tool, or cut off, or on a source that breaks.               *)
(*                                                                          *)
(* truth lists the blocks that the file is meant to hold, by what the       *)
(* encoder was asked to do and not by the headers that it wrote.            *)
(***************************************************************************)
EXTENDS Encoder, Metadata, FiniteSetsExt, SequencesExt

\* a, and what it grows to with every n[i].
SumsFrom(a, n) ==
    LET sum[i \in 0..Len(n)] == IF i = 0 THEN a ELSE sum[i - 1] + n[i]
    IN  sum

\* The bytes of comments with their length fields.
CommentBytes(comments) ==
    SumsFrom(0, [i \in 1..Len(comments) |-> 4 + comments[i]])[Len(comments)]

CONSTANTS
    Leading,    \* what may precede the blocks: a tag or none, a marker or another
    Foreign,     \* blocks that other tools may add
    Vendor,      \* bytes of the vendor string
    Comments     \* bytes of each comment

ASSUME TagsAssumption ==
    /\ Vendor \in Nat /\ Comments \in Seq(Nat)
    /\ TagsLen = 8 + Vendor + CommentBytes(Comments)

\* A tag is of the length that its header says.
ASSUME LeadingAssumption ==
    \A f \in Leading : f.marker \in BOOLEAN /\ f.prefix \in Nat /\ f.prefix = TagBytes(f)

ASSUME ForeignAssumption ==
    \A b \in Foreign :
        /\ b.len \in Nat /\ b.last = FALSE
        /\ b.kind = "info" => b.body.legal \in BOOLEAN
        /\ b.kind = "tags" => b.body.vendor \in Nat /\ b.body.comments \in Seq(Nat)

VARIABLE truth

\* EncodeVorbisComment, and STREAMINFO and SEEKTABLE bodies of this stream.
TagsBody == [vendor |-> Vendor, comments |-> Comments, tags |-> <<"written">>]
InfoOf(i) == [legal |-> TRUE, info |-> <<i>>]
Unused == [sample |-> UnusedSample, offset |-> 0, samples |-> 0]
PointsOf(q, len) ==
    [points |-> [i \in 1..(len \div PointLen) |-> IF i <= Len(q) THEN q[i] ELSE Unused]]

-----------------------------------------------------------------------------
(* The file as it is and as it is meant to be.                              *)

\* The body of header h: what has been patched into it.
SinkBody(h) ==
    CASE h.kind = "info" -> InfoOf(info)
      [] h.kind = "tags" -> TagsBody
      [] h.kind = "seek" -> PointsOf(table, h.len)
      [] OTHER -> <<>>

\* The blocks that the sink holds.
SinkBlocks ==
    [o \in DOMAIN headers |->
        LET h == headers[o] IN
        [kind |-> h.kind, len |-> h.len, last |-> h.last, body |-> SinkBody(h)]]

\* Close has resized the table, or at least written its points.
Resized == pc = "end" \/ verdict = "done"
Pointed == pc = "shrink" \/ Resized

Meant(kind, len, body) == [kind |-> kind, len |-> len, body |-> body]

Intended ==
    LET kept == IF Resized THEN Len(points) ELSE MaxPoints(cfg) IN
    <<Meant("info", InfoLen, InfoOf(info))>>
    \o (IF cfg.tags = "none" THEN <<>> ELSE <<Meant("tags", TagsLen, TagsBody)>>)
    \o (IF cfg.interval = 0 THEN <<>>
        ELSE <<Meant("seek", kept * PointLen, [points |-> IF Pointed THEN points ELSE <<>>]),
               Meant("pad", (MaxPoints(cfg) - kept) * PointLen, <<>>)>>)

\* The offset of the i-th block, counted from the marker, and of what follows the last.
OffsetOf(blocks, i) ==
    SumsFrom(MarkerBytes, [k \in 1..Len(blocks) |-> HeaderBytes + blocks[k].len])[i - 1]
Extent(blocks) == OffsetOf(blocks, Len(blocks) + 1)

\* Another tool puts block b at offset o and moves up what follows.
With(blocks, o, b) ==
    LET moved(x) == IF x < o THEN x ELSE x + HeaderBytes + b.len IN
    [x \in {moved(y) : y \in DOMAIN blocks} \cup {o} |->
        IF x = o THEN b ELSE blocks[CHOOSE y \in DOMAIN blocks : moved(y) = x]]

\* The sink has a header, and Close has not stopped between its last two patches.
Readable == Usable /\ pc # "pad" /\ verdict # "failed"

File(f, blocks, size, ending) ==
    [id3 |-> f.id3, footer |-> f.footer, prefix |-> f.prefix, marker |-> f.marker,
     blocks |-> blocks, size |-> size, end |-> ending]

OpenWhole(f) ==
    /\ Open(File(f, SinkBlocks, f.prefix + AudioStart(cfg) + end, "eof"))
    /\ truth' = Intended

\* The file has been cut off, or cannot be read further: at a boundary or just before.
OpenCut(f) ==
    \E i \in 1..(Len(Intended) + 1), d \in {0, 1, 5}, ending \in {"eof", "broken"} :
        LET size == f.prefix + OffsetOf(Intended, i) - d IN
        /\ size >= 0
        /\ Open(File(f, SinkBlocks, size, ending))
        /\ truth' = Intended

OpenExtended(f) ==
    \E i \in 1..Len(Intended), b \in Foreign :
        LET o == OffsetOf(Intended, i) IN
        /\ Open(File(f, With(SinkBlocks, o, b),
                     f.prefix + AudioStart(cfg) + HeaderBytes + b.len + end, "eof"))
        /\ truth' = InsertAt(Intended, i, b)

OpenStored ==
    /\ Readable /\ result = "none"
    /\ \E f \in Leading : OpenWhole(f) \/ OpenCut(f) \/ (f.id3 = <<>> /\ OpenExtended(f))
    /\ UNCHANGED vars

-----------------------------------------------------------------------------
StoredInit == Init /\ ReadInit /\ truth = <<>>

\* The encoder goes on until its file is read.
Encodes == file = NoFile /\ Next /\ UNCHANGED <<reader, truth>>
Reads   == ReadStep /\ UNCHANGED <<vars, truth>>

StoredNext == Encodes \/ OpenStored \/ Reads
StoredSpec == StoredInit /\ [][StoredNext]_<<vars, reader, truth>>

-----------------------------------------------------------------------------
(* Properties.                                                              *)

Of(kind) == {i \in DOMAIN truth : truth[i].kind = kind}
LastOf(S, none, value(_)) == IF S = {} THEN none ELSE value(Max(S))

\* A VORBIS_COMMENT whose declared lengths are within its body.
Sound(b) == 8 + b.body.vendor + CommentBytes(b.body.comments) <= b.len

\* A reader that accepts the file is at its first frame, with the STREAMINFO, the
\* points written so far but no placeholder, and the last sound tags: of a closed file
\* and of one that was never closed alike (ReadMetadata, Close, writeInitialMetadata).
ReadsWhatWasLeft ==
    result = "ok" =>
        /\ pos = file.prefix + Extent(truth)
        /\ meta.info = truth[1].body.info
        /\ meta.points = LastOf(Of("seek"), <<>>, LAMBDA i : Used(truth[i].body.points))
        /\ meta.tags = LastOf({i \in Of("tags") : Sound(truth[i])}, <<>>, LAMBDA i : truth[i].body.tags)

\* STREAMINFO first and once, of legal values, no block of type 127, whole seek points.
WellFormed ==
    /\ file.marker
    /\ Of("info") = {1} /\ truth[1].len = InfoBytes /\ truth[1].body.legal
    /\ Of("invalid") = {}
    /\ \A i \in Of("seek") : truth[i].len % PointBytes = 0

\* A file is accepted exactly if it is well formed and has all of its metadata; an end
\* in a well-formed one is never a clean end of the stream (ReadMetadata).
AcceptsWellFormed ==
    rc = "idle" /\ result # "none" =>
        IF file.size >= file.prefix + Extent(truth)
        THEN (result = "ok") = WellFormed
        ELSE WellFormed => result = IF file.end = "eof" THEN "unexpected" ELSE "source"
=============================================================================

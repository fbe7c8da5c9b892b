------------------------------ MODULE Metadata ------------------------------
(***************************************************************************)
(* ReadMetadata of internal/meta: an ID3v2 tag, the stream marker, and the  *)
(* metadata blocks up to the one with the last-block flag.                  *)
(*                                                                          *)
(* A file is described by what lies where: id3 holds the four size bytes of *)
(* a leading tag or nothing, footer is the tag's footer flag, prefix is the *)
(* number of bytes before the marker, marker says that it is "fLaC", blocks *)
(* maps the offsets of block headers, from the marker on, to the blocks     *)
(* there, size is the number of bytes that can be read, and end what the    *)
(* source says then, "eof" or "broken".  A block has a kind, a len, a last  *)
(* flag and a body: the values, legal or not, of a STREAMINFO, the points   *)
(* of a SEEKTABLE, or the tags of a VORBIS_COMMENT with the lengths it      *)
(* declares for its vendor string and its comments.                         *)
(***************************************************************************)
EXTENDS Integers, Sequences

VARIABLES
    file,     \* the file being read
    rc,       \* what is read next: "tag", "marker", "header", "body"; "idle" outside the call
    pos,      \* bytes read
    block,    \* the block whose body is next
    first,    \* no block has been read yet
    meta,     \* the StreamMeta built so far
    result    \* "none", "ok" or an error

reader == <<file, rc, pos, block, first, meta, result>>

NoFile  == [size |-> 0]
NoBlock == [kind |-> "none"]
NoMeta  == [info |-> <<>>, points |-> <<>>, tags |-> <<>>]

MarkerBytes  == 4
HeaderBytes  == 4
InfoBytes    == 34
RatesBytes   == 18    \* the part of a STREAMINFO before its MD5
PointBytes   == 18
UnusedSample == -1    \* 0xFFFFFFFFFFFFFFFF, the sample number of a placeholder

-----------------------------------------------------------------------------
\* The size bytes of an ID3v2 tag hold seven bits each.
SyncSafe(b) ==
    (b[1] % 128) * 128 ^ 3 + (b[2] % 128) * 128 ^ 2 + (b[3] % 128) * 128 + (b[4] % 128)

\* The bytes of the tag: its header, its body and the footer its size leaves out.
TagBytes(f) ==
    IF f.id3 = <<>> THEN 0 ELSE 10 + SyncSafe(f.id3) + (IF f.footer THEN 10 ELSE 0)

\* Where no block starts, the frames' sync code reads as a last block of type 127.
Frames == [kind |-> "invalid", len |-> 0, last |-> TRUE, body |-> <<>>]
BlockAt(f, at) ==
    LET o == at - f.prefix IN IF o \in DOMAIN f.blocks THEN f.blocks[o] ELSE Frames

\* Mutant of TagsFit: a comment may end where its own length field ends.
TagsFit_Short(b) ==
    LET left[i \in 0..Len(b.body.comments)] ==
            IF i = 0 THEN b.len - 8 - b.body.vendor ELSE left[i - 1] - b.body.comments[i]
    IN  b.len >= 4 /\ \A i \in DOMAIN left : left[i] >= 0

\* parseVorbisComment succeeds: every declared length is within the bytes left, and
\* the count is not more than the length fields the bytes left can hold.
TagsFit(b) ==
    LET left[i \in 0..Len(b.body.comments)] ==
            IF i = 0 THEN b.len - 8 - b.body.vendor ELSE left[i - 1] - 4 - b.body.comments[i]
    IN  /\ b.len >= 4 /\ \A i \in DOMAIN left : left[i] >= 0
        /\ Len(b.body.comments) <= left[0] \div 4

\* parseSeekTable drops the placeholders.
Used(points) ==
    LET used[i \in 0..Len(points)] ==
            IF i = 0 THEN <<>>
            ELSE IF points[i].sample = UnusedSample THEN used[i - 1]
            ELSE Append(used[i - 1], points[i])
    IN  used[Len(points)]

-----------------------------------------------------------------------------
\* An error leaves no StreamMeta.
Refuse(error) ==
    /\ result' = error /\ rc' = "idle" /\ meta' = NoMeta
    /\ UNCHANGED <<file, pos, block, first>>

\* ReadMetadata is called on f.
Open(f) ==
    /\ rc = "idle"
    /\ file' = f /\ rc' = "tag" /\ pos' = 0
    /\ block' = NoBlock /\ first' = TRUE /\ meta' = NoMeta /\ result' = "none"

\* The bytes that the next step reads before it decides anything.
Wanted ==
    CASE rc = "tag"    -> TagBytes(file)
      [] rc = "marker" -> MarkerBytes
      [] rc = "header" -> HeaderBytes
      [] rc = "body"   -> IF block.kind = "info" /\ ~block.body.legal THEN RatesBytes ELSE block.len

Enough == pos + Wanted <= file.size

\* Mutant of SourceEnds: an end before a block header counts as a clean end.
SourceEnds_Clean ==
    /\ rc # "idle" /\ ~Enough
    /\ Refuse(IF file.end # "eof" THEN "source"
              ELSE IF rc = "header" /\ pos = file.size THEN "eof" ELSE "unexpected")

\* The source ends before they are read; here any EOF is an unexpected one.
SourceEnds ==
    /\ rc # "idle" /\ ~Enough
    /\ Refuse(IF file.end = "eof" THEN "unexpected" ELSE "source")

SkipTag ==
    /\ rc = "tag" /\ Enough
    /\ pos' = pos + Wanted
    /\ rc' = "marker"
    /\ UNCHANGED <<file, block, first, meta, result>>

ReadMarker ==
    /\ rc = "marker" /\ Enough
    /\ IF file.marker /\ pos = file.prefix
       THEN /\ pos' = pos + Wanted /\ rc' = "header"
            /\ UNCHANGED <<file, block, first, meta, result>>
       ELSE Refuse("unsupported")

\* STREAMINFO comes first and only first.
Misplaced(b) == first # (b.kind = "info")

ReadBlockHeader ==
    /\ rc = "header" /\ Enough
    /\ LET b == BlockAt(file, pos) IN
       CASE b.kind = "invalid" -> Refuse("unsupported")
         [] b.kind # "invalid" /\ Misplaced(b) -> Refuse("missing")
         [] b.kind = "info" /\ ~Misplaced(b) /\ b.len # InfoBytes -> Refuse("unsupported")
         [] OTHER -> /\ pos' = pos + Wanted
                     /\ block' = b
                     /\ rc' = "body"
                     /\ UNCHANGED <<file, first, meta, result>>

\* The body is illegal: a STREAMINFO's rate or depth, or a SEEKTABLE's length.
Illegal ==
    \/ block.kind = "info" /\ ~block.body.legal
    \/ block.kind = "seek" /\ block.len % PointBytes # 0

\* A body is read, or skipped by its length; the last table and the last tags whose
\* lengths are right are kept.
ReadBody ==
    /\ rc = "body" /\ Enough
    /\ IF Illegal THEN Refuse("unsupported")
       ELSE /\ pos' = pos + Wanted
            /\ meta' = CASE block.kind = "info" -> [meta EXCEPT !.info = block.body.info]
                         [] block.kind = "seek" -> [meta EXCEPT !.points = Used(block.body.points)]
                         [] block.kind = "tags" /\ TagsFit(block) ->
                                [meta EXCEPT !.tags = block.body.tags]
                         [] OTHER -> meta
            /\ first' = FALSE
            /\ IF block.last THEN result' = "ok" /\ rc' = "idle"
               ELSE rc' = "header" /\ UNCHANGED result
            /\ UNCHANGED <<file, block>>

ReadInit ==
    /\ file = NoFile /\ rc = "idle" /\ pos = 0
    /\ block = NoBlock /\ first = TRUE /\ meta = NoMeta /\ result = "none"

ReadStep == SourceEnds \/ SkipTag \/ ReadMarker \/ ReadBlockHeader \/ ReadBody
=============================================================================

------------------------------ MODULE RoundTrip -------------------------------
(***************************************************************************)
(* The file that an Encoder has left is decoded in one call: pcm's           *)
(* DecodeInterleavedLimit, which reads the metadata, runs a Decoder's        *)
(* WriteTo into memory with a limit, and returns all of the audio or an      *)
(* error.  The file may be closed or abandoned at any step, hold bytes of a  *)
(* frame whose write failed, be cut anywhere, or break while it is read.     *)
(*                                                                          *)
(* A sample is FrameLen bytes at its own depth, and twice as many converted. *)
(***************************************************************************)
EXTENDS StoredFile

CONSTANT Limits     \* values of maxBytes; 0 is none

\* What failed writes leave of a frame is never the whole of it.
ASSUME LimitsAssumption == Limits \subseteq Nat /\ \A size \in FrameSizes : MaxJunk < size

\* The digest that EncodeInterleaved supplies is one of audio known beforehand, which an
\* encoder that is written to piece by piece does not know (that call is in EncodePool).
ASSUME DigestAssumption == \A c \in Configs : c.md5 # "supplied"

VARIABLES
    limit,          \* maxBytes
    ret,            \* what DecodeInterleavedLimit returned
    \* The Decoder.
    src, dInfo, seekable, br, pending, dHashed, decoded, seeked, skipMD5, done, err, width, writing,
    calls, dCall, dResult, failed, moved, origin, delivered

D == INSTANCE Decoder WITH
        Sources <- {}, Targets <- {}, ReadSizes <- {}, MaxCalls <- 1,
        info <- dInfo, hashed <- dHashed, call <- dCall, result <- dResult

decoder  == <<src, dInfo, seekable, br, pending, dHashed, decoded, seeked, skipMD5, done, err, width,
              writing, calls, dCall, dResult, failed, moved, origin, delivered>>
encoded  == <<vars, reader, truth>>
tripVars == <<encoded, limit, ret, decoder>>

NotYet == [err |-> "pending", pcm |-> <<>>]

-----------------------------------------------------------------------------
(* The source, as a Decoder finds it behind the metadata.                    *)

\* The bytes behind the metadata that can be read.
AudioLeft == file.size - (file.prefix + Extent(truth))

SizeUpTo(i) == SumsFrom(0, [k \in 1..Len(frames) |-> frames[k].size])[i]

\* The i-th frame that a decoder meets.  Where a failed write left bytes it meets the
\* start of another frame, which what follows, if anything does, makes unreadable.
FrameAt(i) ==
    LET found == i <= Len(frames) /\ frames[i].at = SizeUpTo(i - 1)
        whole == found /\ SizeUpTo(i) <= AudioLeft
    IN  [first |-> IF found THEN frames[i].first ELSE total,
         block |-> IF found THEN frames[i].samples ELSE BlockSize,
         state |-> IF whole THEN "ok" ELSE IF found \/ i > Len(frames) THEN "cut" ELSE "bad"]

\* The frames from the first on, to one that cannot be decoded or to the file's end.
FramesLeft ==
    LET met == {i \in 1..(Len(frames) + 1) : SizeUpTo(i - 1) < AudioLeft
                   /\ \A j \in 1..(i - 1) : FrameAt(j).state = "ok"}
    IN  [i \in met |-> FrameAt(i)]

\* The digest of bytes as the digest of samples.
Digest(md5) ==
    IF md5 = NoDigest THEN <<>>
    ELSE IF md5 = Bytes(0, Len(md5)) THEN D!Audio(0, Len(md5) \div FrameLen, D!Native)
    ELSE <<<<-1, D!Native>>>>

Source ==
    [header |-> TRUE,
     info   |-> [total |-> meta.info[1].total, md5 |-> Digest(meta.info[1].md5)],
     frames |-> FramesLeft]

-----------------------------------------------------------------------------
(* The call.                                                                 *)

\* The file is cut off inside its frames, or cannot be read further there.
OpenCutAudio ==
    /\ Readable /\ result = "none" /\ UNCHANGED <<vars, limit, ret, decoder>>
    /\ \E f \in {g \in Leading : g.marker}, k \in 0..(end - 1), ending \in {"eof", "broken"} :
          Open(File(f, SinkBlocks, f.prefix + AudioStart(cfg) + k, ending))
    /\ truth' = Intended

\* NewDecoder, when ReadMetadata has accepted the file.  Nothing here seeks, so the
\* source is taken to be one that cannot.
NewDecoder ==
    /\ ret = NotYet /\ src = D!NoSource
    /\ result = "ok"
    /\ D!Reset(Source) /\ ~seekable'
    /\ limit' \in Limits
    /\ UNCHANGED <<encoded, ret>>

WriteTo ==
    /\ ret = NotYet /\ dCall = "reset" /\ err = D!NoErr /\ D!WriteTo
    /\ UNCHANGED <<encoded, limit, ret>>

\* The decoder's source ends, or breaks, as the file does.
DecodeFrame ==
    /\ D!WriteToDecode
    /\ IF file.end = "eof" THEN err' # "io" ELSE ~done' /\ err' # "truncated"
    /\ UNCHANGED <<encoded, limit, ret>>

SampleBytes == IF width = D!Native THEN FrameLen ELSE 2 * FrameLen

\* Mutant of Room: the limit itself is too much.
Room_Strict(n) == limit <= 0 \/ (Len(delivered) + n) * SampleBytes < limit

\* cappedWriter takes all of a frame or nothing.
Room(n) == limit <= 0 \/ (Len(delivered) + n) * SampleBytes <= limit

CappedWrite ==
    /\ D!WriteToWrite
    /\ pending' = IF Room(Len(pending)) THEN <<>> ELSE pending
    /\ UNCHANGED <<encoded, limit, ret>>

\* NewDecoder has failed, or WriteTo has returned, and its io.EOF is no error.
DecodeReturns ==
    /\ ret = NotYet /\ ~writing
    /\ dCall = "writeto" \/ (dCall = "reset" /\ err # D!NoErr)
    /\ ret' = IF dResult = "eof" THEN [err |-> D!NoErr, pcm |-> delivered]
              ELSE [err |-> dResult, pcm |-> <<>>]
    /\ UNCHANGED <<encoded, limit, decoder>>

-----------------------------------------------------------------------------
TripInit == StoredInit /\ D!Init /\ limit = 0 /\ ret = NotYet

Stored == StoredNext /\ UNCHANGED <<limit, ret, decoder>>

TripNext == Stored \/ OpenCutAudio \/ NewDecoder \/ WriteTo \/ DecodeFrame \/ CappedWrite \/ DecodeReturns

TripSpec == TripInit /\ [][TripNext]_tripVars

-----------------------------------------------------------------------------
(* Properties.                                                              *)

Returned == ret # NotYet
Samples == accepted \div FrameLen
Whole == file.end = "eof" /\ AudioLeft = end /\ junk = 0

\* A file whose Close returned nil decodes to every byte that Write accepted, in one
\* call, at either depth and with or without the MD5 check; a limit below that is
\* reported, and a limit of just that is enough (Encoder, DecodeInterleavedLimit,
\* cappedWriter).
DecodesWhatWasEncoded ==
    Returned /\ verdict = "done" /\ Whole /\ dCall = "writeto" =>
        ret = IF limit = 0 \/ Samples * SampleBytes <= limit
              THEN [err |-> D!NoErr, pcm |-> D!Audio(0, Samples, width)]
              ELSE [err |-> "write", pcm |-> <<>>]

\* A call that succeeds returns whole frames from the first on, not more than the limit,
\* and not less than the file is known to have held: all of it if Close has patched its
\* STREAMINFO, the total if one was declared.  A source that broke, or one that ends in
\* what a failed write left, is never a success (finish, decodeNextFrame, Close, WriteTo).
PartialIsNoSuccess ==
    Returned =>
        IF ret.err # D!NoErr THEN ret.pcm = <<>>
        ELSE /\ ret.pcm = D!Audio(0, Len(ret.pcm), width)
             /\ Len(ret.pcm) \in {0} \cup {frames[i].first + frames[i].samples : i \in DOMAIN frames}
             /\ limit = 0 \/ Len(ret.pcm) * SampleBytes <= limit
             /\ verdict = "done" /\ cfg.seekable => Len(ret.pcm) = Samples
             /\ Len(ret.pcm) >= cfg.declared
             /\ file.end = "eof"
             /\ AudioLeft = end => junk = 0
=============================================================================

----------------------------- MODULE FrameDecoder -----------------------------
(***************************************************************************)
(* FrameDecoder of pcm/frameio.go, a demuxer's decoder: one STREAMINFO, then *)
(* one call of DecodeInterleaved for each packet, in any order and whatever  *)
(* became of the packets before.  From call to call it reuses a Frame, its   *)
(* channel buffers and the memory of the CRC tap (Decode, ensureChannels).   *)
(*                                                                          *)
(* The header of a packet is read by FrameHeader.  Its body is abstract:     *)
(* body.fate says what is wrong with it, with its subframe body.sub, and     *)
(* body.pieces how many of its subframes, its CRC-16, and bytes after it     *)
(* have arrived.  A channel buffer is known by its capacity, its length and  *)
(* the call whose samples fill it, 0 when they are mixed.                    *)
(***************************************************************************)
EXTENDS FrameHeader, FiniteSetsExt

CONSTANTS
    Infos,       \* STREAMINFO bodies: [len, rate, depth, channels]
    Packets,     \* [sent, stream, condition, body]
    MaxCalls     \* bound on the calls of a decoder

(***************************************************************************)
(* A packet holds a frame of any encoder, whole, cut off in its header, or  *)
(* with a header that is damaged in any way; its body has a subframe that   *)
(* fails, a CRC-16 that does not match, or nothing wrong with it.           *)
(***************************************************************************)
PacketOK(p) ==
    /\ HeaderOK(p.sent)
    /\ p.condition \in {"whole", "cut", "damaged"}
    /\ p.stream \in Seq(Bytes)
    /\ LET w == Written(p.sent) IN
       /\ p.condition = "whole" =>
              Len(p.stream) >= Len(w) /\ \A i \in 1..Len(w) : p.stream[i] = w[i]
       /\ p.condition = "cut" =>
              Len(p.stream) < Len(w) /\ \A i \in 1..Len(p.stream) : p.stream[i] = w[i]
    /\ p.body.fate \in {"sound", "range", "unsupported", "crc"}
    /\ p.body.sub \in 1..Channels(p.sent.channels) /\ p.body.pieces \in Nat

ASSUME PacketsAssumption == \A p \in Packets : PacketOK(p)
ASSUME CallsAssumption == MaxCalls \in Nat \ {0}

VARIABLES
    stage,       \* "new", "failed", "idle", "header", "subframes", "crc", "decoded"
    body,        \* of the packet
    calls,       \* calls made
    channels,    \* frame.Channels, up to its capacity
    shown,       \* its length
    frame,       \* the fields that Decode sets last
    recorded,    \* the calls whose bytes are in the memory of the CRC tap
    ch, bad,     \* subframes read; one was out of range
    ret          \* what the last call returned

kept    == <<channels, shown, frame, recorded>>
current == <<ch, bad>>
decoderVars == <<stage, body, calls, kept, current, ret>>
allVars == <<vars, decoderVars>>

NoFrame == [blockSize |-> 0, rate |-> 0, depth |-> 0]
NoAudio == [err |-> "none", blockSize |-> 0, audio |-> <<>>]
Whole(assignment) == [fate |-> "sound", sub |-> 1, pieces |-> Channels(assignment) + 1]

-----------------------------------------------------------------------------
\* NewFrameDecoder takes a body of 34 bytes with a rate and a depth that exist.
NewFrameDecoder(b) ==
    /\ stage = "new"
    /\ info' = [rate |-> b.rate, depth |-> b.depth, channels |-> b.channels]
    /\ stage' = IF b.len = 34 /\ b.rate # 0 /\ b.depth >= 4 THEN "idle" ELSE "failed"
    /\ UNCHANGED <<sent, stream, condition, at, step, codes, left, hdr, outcome,
                   body, calls, kept, current, ret>>

\* Mutant of Recorded: the tap's memory is not emptied.
Recorded_Kept == recorded \cup {calls + 1}

\* The tap records the packet into memory that reset has emptied.
Recorded == {calls + 1}

DecodeInterleaved(p) ==
    /\ stage = "idle" /\ calls < MaxCalls
    /\ stage' = "header" /\ calls' = calls + 1
    /\ sent' = p.sent /\ stream' = p.stream /\ condition' = p.condition /\ body' = p.body
    /\ at' = 0 /\ step' = "sync" /\ codes' = <<0, 0>> /\ left' = 0
    /\ hdr' = NoHeader /\ outcome' = "none"
    /\ recorded' = Recorded
    /\ ch' = 0 /\ bad' = FALSE /\ ret' = NoAudio
    /\ UNCHANGED <<info, channels, shown, frame>>

\* The end of the packet is never a clean one.
Error(e) == IF e \in {"eof", "unexpected"} THEN "truncated" ELSE e

Returns(r) ==
    /\ ret' = r /\ stage' = "idle"
    /\ UNCHANGED <<vars, body, calls, channels, shown, recorded, current>>
Fails(e) == Returns([NoAudio EXCEPT !.err = Error(e)]) /\ UNCHANGED frame

HeaderFails == stage = "header" /\ step = "done" /\ outcome # "ok" /\ Fails(outcome)

\* Buffers that are long enough are kept, and cut to the block's size; a row with too few
\* channels is replaced, buffers and all.
ensureChannels(n, size) ==
    [c \in 1..Max({n, Len(channels)}) |->
        LET old == IF n <= Len(channels) THEN channels[c] ELSE [cap |-> 0, len |-> 0, from |-> 0]
        IN  IF c > n THEN old
            ELSE IF old.cap < size THEN [cap |-> size, len |-> size, from |-> 0]
            ELSE [old EXCEPT !.len = size, !.from = IF size > old.len THEN 0 ELSE @]]

EnterBody ==
    /\ stage = "header" /\ step = "done" /\ outcome = "ok"
    /\ stage' = "subframes"
    /\ channels' = ensureChannels(Channels(hdr.channels), hdr.blockSize)
    /\ shown' = Channels(hdr.channels)
    /\ UNCHANGED <<vars, body, calls, frame, recorded, current, ret>>

BodyEnds == stage \in {"subframes", "crc"} /\ ch >= body.pieces /\ Fails("unexpected")

SubframeFails ==
    /\ stage = "subframes" /\ ch < body.pieces
    /\ body.fate = "unsupported" /\ body.sub = ch + 1
    /\ Fails("unsupported")

\* Subframes of independent channels go to the channels as they are read; those of a pair
\* wait for each other, and are not put together when one was out of range.
DecodeSubframe ==
    /\ stage = "subframes" /\ ch < body.pieces
    /\ ~(body.fate = "unsupported" /\ body.sub = ch + 1)
    /\ LET out == body.fate = "range" /\ body.sub = ch + 1
           fills == IF hdr.channels >= 8 THEN (IF ch = 1 /\ ~bad /\ ~out THEN {1, 2} ELSE {})
                    ELSE {ch + 1}
       IN  /\ bad' = (bad \/ out)
           /\ channels' = [c \in DOMAIN channels |->
                  IF c \in fills THEN [channels[c] EXCEPT !.from = IF out THEN 0 ELSE calls]
                  ELSE channels[c]]
    /\ ch' = ch + 1
    /\ stage' = IF ch' = shown THEN "crc" ELSE stage
    /\ UNCHANGED <<vars, body, calls, shown, frame, recorded, ret>>

\* The CRC-16 is that of what the tap recorded, and is judged before the samples are.
CrcMatches == recorded = {calls} /\ condition # "damaged" /\ body.fate # "crc"

Check ==
    /\ stage = "crc" /\ ch < body.pieces
    /\ IF ~CrcMatches THEN Fails("mismatch")
       ELSE IF bad THEN Fails("range")
       ELSE /\ frame' = [blockSize |-> hdr.blockSize, rate |-> hdr.rate, depth |-> hdr.depth]
            /\ stage' = "decoded"
            /\ UNCHANGED <<vars, body, calls, channels, shown, recorded, current, ret>>

\* A frame of another stream is refused rather than packed by the wrong width.
Pack ==
    /\ stage = "decoded"
    /\ IF [rate |-> frame.rate, depth |-> frame.depth, channels |-> shown] # info
       THEN Fails("disagrees")
       ELSE /\ Returns([err |-> "none", blockSize |-> frame.blockSize,
                        audio |-> [c \in 1..shown |-> [from |-> channels[c].from, len |-> channels[c].len]]])
            /\ UNCHANGED frame

-----------------------------------------------------------------------------
\* A decoder made for one frame of its own stream, or one yet to be made.
DecoderInit ==
    /\ \/ Init /\ stage = "header" /\ calls = MaxCalls /\ body = Whole(sent.channels)
       \/ /\ info = [rate |-> 0, depth |-> 0, channels |-> 0]
          /\ sent = NoHeader /\ stream = <<>> /\ condition = "whole"
          /\ at = 0 /\ step = "sync" /\ codes = <<0, 0>> /\ left = 0
          /\ hdr = NoHeader /\ outcome = "none"
          /\ stage = "new" /\ calls = 0 /\ body = Whole(0)
    /\ channels = <<>> /\ shown = 0 /\ frame = NoFrame /\ recorded = {calls}
    /\ ch = 0 /\ bad = FALSE /\ ret = NoAudio

DecoderNext ==
    \/ stage = "header" /\ Next /\ UNCHANGED decoderVars
    \/ \E b \in Infos : NewFrameDecoder(b)
    \/ \E p \in Packets : DecodeInterleaved(p)
    \/ HeaderFails \/ EnterBody \/ BodyEnds \/ SubframeFails \/ DecodeSubframe \/ Check \/ Pack

DecoderSpec == DecoderInit /\ [][DecoderNext]_allVars

-----------------------------------------------------------------------------
(* Properties.                                                              *)

\* The reference: what a packet comes to by itself.  A rate or a depth without a code in
\* the header is the STREAMINFO's.
Mine ==
    /\ SampleRateCode(sent.rate).code = 0 \/ sent.rate = info.rate
    /\ BitDepthCode(sent.depth) = 0 \/ sent.depth = info.depth
    /\ Channels(sent.channels) = info.channels
Verdict ==
    LET n == Channels(sent.channels)
        upTo == IF body.fate = "unsupported" THEN body.sub ELSE n + 1
    IN  CASE body.pieces < upTo -> "truncated"
          [] body.pieces >= upTo /\ body.fate = "unsupported" -> "unsupported"
          [] body.pieces >= upTo /\ body.fate = "crc" -> "mismatch"
          [] body.pieces >= upTo /\ body.fate = "range" -> "range"
          [] body.pieces >= upTo /\ body.fate = "sound" -> IF Mine THEN "none" ELSE "disagrees"

\* A call's result is that of its packet and the STREAMINFO alone, whatever packets came
\* before and however they failed: a sound packet of the stream gives all its samples
\* and none of an earlier one, another a verdict that its own damage accounts for, an
\* empty or cut one truncation (FrameDecoder.DecodeInterleaved, Decode, ensureChannels).
CallsStandAlone ==
    stage = "idle" /\ calls > 0 =>
        CASE condition = "whole" ->
                /\ ret.err = Verdict
                /\ Verdict = "none" =>
                       /\ ret.blockSize = sent.blockSize
                       /\ ret.audio = [c \in 1..info.channels |-> [from |-> calls, len |-> sent.blockSize]]
          [] condition = "cut" -> ret.err = "truncated" /\ ret.audio = <<>>
          [] condition = "damaged" -> ret.err \in {"unsupported", "truncated", "mismatch"} /\ ret.audio = <<>>
=============================================================================

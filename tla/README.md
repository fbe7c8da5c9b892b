# go-flac in TLA+

Specifications, model-checking runs and machine-checked proofs for
[go-flac](../src), a FLAC encoder and decoder library in Go. They are about the
control of the library: which bytes, samples and errors reach the caller over every
order of calls, every damaged or ending source, every failing sink. What a CRC, an
MD5 or a predictor computes is kept only as far as the properties tell it apart.

All modules are in this directory. `MCx.tla` and `MCx.cfg` check module `x` on small
instances with TLC; the modules `xProof` hold proofs for TLAPS, and `SequenceFacts` the
lemmas on sequences and numbers that several of them need. `PROJECT.json` lists every
component, run, mutated definition, hazard and theorem, and maps every definition to the
lines it stands for.

## 1. The system

| Component | State it keeps | Operations | Interacts with |
|---|---|---|---|
| Streaming decoder, `pcm/decoder.go` | `br`, `pending`, running MD5, `decoded`, the flags `seeked` `skipMD5` `done`, the sticky `err`, `outBits`, `info`, `seekPoints` | `NewDecoder`, `Reset`, `Read`, `WriteTo`, `SeekToSample` | pulls bits from the bit reader, headers from the metadata parser, frames from `internal/frame`; the caller's reader, seeker and writer |
| Seek search, `pcm/decoder.go:342-610`, `internal/frame/resync.go` | `nominalBlock`, the probe buffer | `searchFrame`, `probe`, `narrowBySeekTable`, `ensureNominalBlock`, `land`, `FindNextFrame` | part of the decoder; reads the source out of order |
| Streaming encoder, `pcm/encoder.go` | `leftover`, `carry`, counters, measured bounds, running MD5, `points`, `nextBoundary`, `closed` | `NewEncoder`, `Reset`, `Write`, `Close` | `frame.EncodeFrame`, the metadata writer, the caller's writer, which may seek |
| Frame encoder for containers, `pcm/frameio.go` | the same without metadata, `started`, `done` | `EncodeInterleaved`, `Write`, `Finalize`, `StreamInfo`, `StreamInfoBytes` | calls back `emit` for every frame |
| Frame decoder for containers, `pcm/frameio.go` | STREAMINFO; a `Frame` with its channel buffers and the memory of its CRC tap, reused from call to call | `DecodeInterleaved` | `frame.Decode` |
| One-shot encode, `pcm/encode_oneshot.go` | the shared `encoderPool` | `EncodeInterleaved` | `Encoder.init`, `Write`, `Close` from any goroutine |
| One-shot decode, `pcm/decode_oneshot.go` | a capped buffer | `DecodeInterleaved`, `DecodeInterleavedLimit` | `Decoder.WriteTo` |
| Bit reader, `internal/bitio/reader.go` | buffer and its cursors, accumulator, sticky error, tap | `ReadBits`, `ReadUnary`, `SkipToByteBoundary`, `SetTapper`, `SwitchTapToDeferred`, `FlushTap`, `Reset` | the source; the tap is the frame CRC |
| Bit writer, `internal/bitio/writer.go` | accumulator, bytes | `WriteBits`, `WriteSignedBits`, `WriteUnary`, `AlignByte`, `Bytes`, `Reset` | frame encoding; the CRC-8 takes the bytes in the middle of a frame |
| Metadata, `internal/meta` | none between calls | block walk, STREAMINFO, SEEKTABLE and VORBIS_COMMENT codecs | decoder and encoder |
| Frames and subframes, `internal/frame` | reused workspace | header codec, `Decode`, `EncodeFrame`, subframe coding, stereo decorrelation | bit reader and writer, Rice, prediction |
| Rice coding, `internal/rice` | none | partition planning, residual coding | subframes |
| Prediction, `internal/lpc`, kernels `internal/i32`, checksums `internal/crc` | none | pure functions, in int64 and int32, in Go and in assembly | subframes, frames |
| Packing and conversion, `pcm/pack.go`, `pcm/convert.go` | none | sample layout, bit-depth conversion | decoder and encoder |
| Command `cmd/wav2flac`, lint rules `rules/` | none | file conversion; patterns for a linter | `Encoder` |

### What is hard in it

Nothing blocks and only the encoder pool is shared between goroutines; the
difficulty is in the order of calls and in failing half-way.

- *Sticky and cleared state.* The decoder's `err`, `done`, `seeked`, `pending` and
  `br` are set and cleared by five operations; a seek clears an error that a read set,
  and a failed seek drops `br`, which a later seek to the end does not rebuild.
- *A search over untrusted bytes.* A probe skips what does not decode, so it may miss
  whole frames; `searchFrame` narrows its bounds from what it found and from what it
  did not find.
- *Failures between two writes.* Every frame, patch and header write of the encoder
  may fail and may have left bytes in the sink; `Write` is retried from the count it
  returned, `Close` is not retried.
- *Reuse.* Decoders and encoders are reset for another stream, encoders by a pool as
  well, and a container's decoder reuses its frame after packets that failed half-way; a
  field that survives corrupts what comes next.
- *Files nobody finished.* An encoder may be abandoned at any step, its file cut, and the
  reader must still tell a whole stream from a part of one.
- *Refills.* A value straddles two words of the accumulator and two reads of the
  source; the tap must see each byte exactly once although the buffer is compacted.
- *Widths.* Samples, residuals and side channels are one bit apart in width, and computed
  in an int32 whose wrapped results are told from true ones after the fact; signals share
  the buffers they are planned in. The same samples go through routines that differ by
  width, order and sample size and must not differ in what they compute.

The hazards, each at its line and with the properties that would catch it, are in
`PROJECT.json`.

### What makes each component correct

- decoder: what is delivered is the stream's audio from the position last reported;
  a clean `io.EOF` means the stream was whole as far as its header can tell; a
  failure is final until a reset or a successful seek.
- seek search: it lands on the first decodable frame that ends after the target, stays
  inside the stream, and ends.
- encoders: every byte taken reaches the sink once and in order; the header and the
  seek table are true of the frames; an error is never followed by a claim of success.
- pool: a call sees no trace of another.
- bit reader and writer: every bit once and in order, every byte to the tap once, every
  field read back as it was written.
- one-shot decode: all of the audio or an error, and no success for a part.
- frame decoder for containers: a call's result is its packet's, whatever came before.
- frames: what was priced is what is written, what was written is what is read, and what
  does not fit its width is refused and never wrapped.

## 2. The models

### SeekSearch

`SeekToSample` past its argument checks. A stream is its sync candidates in byte
order with what `Decode` makes of each; damage is `ok = FALSE`, truncation is
`physEnd` before the measured `streamEnd`, a false sync is a candidate inside another.
Each window a probe reads is a step (`ProbeOn`, `NominalProbed`, `BinaryProbed`,
`LinearProbed`), an I/O error may come at any of them (`SourceFails`), and a new seek
may follow any outcome with the `nominalBlock` the earlier ones left.

### Decoder

`Reset` (with the failures of `init` and of the options), `Read`, the loop of
`WriteTo` in two steps (`WriteToWrite`, `WriteToDecode`) and `SeekToSample`. Audio is
a sequence of pairs of sample index and width, so a gap, a repeat and a rescaled
sample all show; an MD5 is the audio that was hashed. Where a seek lands is what
SeekSearch establishes: the first frame that decodes and ends after the target.

### Encoder and PcmStream

`init` in its three outcomes, `Write` and `Close` cut at every write to the sink. The
metadata region is kept as block headers at byte offsets, so that following the block
lengths can be checked; frames carry number, first sample, size and offset. A failed
write may leave bytes (`junk`), and a failed patch of `Close` all of what it writes over
the header, nothing, or the first bytes of it (`PatchCutOff`): numbers and points up to
one that is cut. A file is not read back after a failed `Close`. A second `Close`, and a `Write` after `Close`, change
nothing and are no steps. `PcmStream` is the promise made to the caller; `Encoder`
implements it (`KeepsPromise`) with the bytes consumed as `taken`, the PCM of the
sink's frames as `stored` and the result of the first `Close` as `status`.

### FrameEncoder

The same promise, by two protocols that exclude each other, with `emit` instead of a
sink and no count of bytes: after a failed `Write` the model's caller works out where
to continue from `framesEmitted` alone. `StreamInfo` is the state function of
`streamInfoParams`; the state before an emit step is the one the callback sees. A nil
callback, which `Write` and `Finalize` reject, is not passed to `EncodeInterleaved`, which
does not look.

### EncodePool

Concurrent `EncodeInterleaved` calls. An encoder keeps what one stream can leave to
the next: leftover, counters, closed flag, sink, and buffers with their shape, reused
as `init` decides. `sync.Pool` is external: `Get` returns any pooled encoder or a new
one, and a pooled encoder may vanish. How one encoder behaves in every other respect
is Encoder's subject.

### BitReader

Buffer, accumulator and tap, with bytes and bits known by their positions in the
source. A source gives its bytes in pieces of any size and its end with the last of
them or after. `fill` is a word load followed by byte loads and refills, one step
each; `ReadBits` and `ReadUnary` run over several of them.

### BitWriter and BitIO

`BitWriter` has the accumulator as a number, a word of `AccBytes` bytes, so that masking,
shifting and the split of a field over two words are computed and not assumed. `BitIO`
composes it with BitReader: a caller writes fields of every kind, asks for the whole
bytes now and then, aligns, and reads the same fields back from a source that delivers
the bytes in any pieces. In mode `free` the reader is used alone, by any mix of calls.

### Metadata, StoredFile and RoundTrip

`ReadMetadata` step by step: the ID3v2 tag, the marker, and for each block its header
and its body (`SkipTag`, `ReadMarker`, `ReadBlockHeader`, `ReadBody`), with the end of
the source possible in front of each (`SourceEnds`). A file says what lies at which
offset; a body is the values its fields hold, and of a VORBIS_COMMENT also the lengths
it declares. `StoredFile` composes this with Encoder: at any moment at which the sink
can be read (`Readable`), also of an encoder that was never closed or stopped within
`Close`, the file is opened as it is, cut, or with a tag in front or a block of another
tool in it. `Intended` lists the blocks the file should hold from what the encoder was
asked to do, not from the headers it wrote, and the properties compare the reader's
result with that list.

`RoundTrip` goes on to the audio: `DecodeInterleavedLimit` on the file that Encoder has
left, with Metadata for its header and an INSTANCE of Decoder for the rest, up to the
limit of `cappedWriter`. The frames the decoder meets are computed from the bytes in the
sink (`FrameAt`): those written, whole or cut by the end of the file, and where a failed
write left bytes a frame that cannot be decoded. A digest is compared byte for byte with
the audio. So the properties relate what `Write` accepted to what comes out of the other
end, over failures of the sink, abandoned encoders, cuts and broken sources.

### FrameHeader and Crc

`Written` is `writeFrameHeader`, byte by byte; the actions are `readHeaderBody` field by
field over those bytes, whole, cut off, or with one byte damaged. The frame number has
36 bits, more than TLC's integers, and is kept as six base-64 digits, of which the
coded number's bytes are made. `Crc` is the CRC-8 by its table, bit by bit.

### FrameDecoder

`NewFrameDecoder` and `DecodeInterleaved` over any sequence of packets: each starts with
FrameHeader's reading of its header, then its subframes, its CRC-16 and the comparison
with the STREAMINFO (`EnterBody`, `DecodeSubframe`, `Check`, `Pack`), and may stop at
every point with what the `Frame` then holds. Channel buffers are known by capacity,
length and the call that filled them, the tap's memory by the calls whose bytes are in
it. A body says only what is wrong with it; what is in one is FrameBody's subject.

### Rice

The residual of one subframe from plan to reader: `EvaluateOrder` is one round of
`planFromTables` with its `mergeUpward`, `WritePartition` one of `WritePlanned`, and the
reading actions are `DecodeResidual` parameter by parameter and value by value. Streams
are bits, since what is checked is their number and meaning. The widths of the format
are constants with the ratios of FLAC's (a parameter field of `WideBits` bits, residuals
of `2 ^ WideBits`), so that the limits at 32 bits can be met with small numbers. The
int32 and int64 planners differ in the range of their residuals only. The module has
actions and no behaviour of its own: FrameBody starts them and goes on when they are
done.

### Kernels and Pcm

Operators only, used by FrameBody. `Kernels` has the arithmetic of prediction as the Go
code computes it: residuals and restoration in int64, taken as exact, and the routines
in int32, which wrap: differences by binomials, fixed prediction undone by repeated sums,
linear prediction with the sum in int64 or in int32, the test that chooses
(`LPCRestoreNarrowSafe`), the decorrelation of pairs, and the quantization of
coefficients with its carried rounding error. `Pcm` has bytes to samples and back, by
words of eight bytes and sample by sample, the sign of three-byte samples, and the
rescaling of `WithConvertTo`.

### FrameBody

The samples of one frame, from the caller's bytes through `EncodeFrame` and `Decode` to
bytes again and to the digest. Planning, choice and writing go signal by signal through
the workspace as in the code: a slot for each signal of a pair that may be decorrelated
and one for all signals otherwise (`Slot`), and one residual buffer, `costRes`, which the
pricing of fixed predictors, the pricing of linear prediction and the chosen plan share.
Linear prediction is whatever the floating-point analysis may return, one of the input's
`predictors` or none, quantized as the code does. An input is PCM for this encoder, or a
frame made of subframes that another encoder chose, whose samples and residuals may be
anything that can be written down. The bits reach the reader whole, without their last
ones, with a CRC-16 that does not match, or with another method or partition order on the
residual (`Deliver`).

An int32 has `Width` bits and the code computes in it up to `Narrow` bits per sample,
24 in FLAC; where it wraps, `Stored` wraps. The properties compare the verdict and the
samples with unbounded arithmetic (`Exact`, `ExactOut`). One case is exempt, and by the
code's own comment on its kernels: a linear prediction from samples in range that itself
leaves int32 (`Predicted`). `RouteDoesNotShow` compares the two routes of linear
restoration with each other. The header in front is FrameHeader's.

## 3. The runs

| Run | Module | States | What it shows |
|---|---|---|---|
| `seek_search` | MCSeekSearch | 246 k | seeks land right, stay inside, say "end" only where no audio is left, and end |
| `seek_past_end` | MCSeekSearch | - | finding 1 |
| `decoder` | MCDecoder | 100 k | delivery, verdicts, sticky failures, final failed resets, no nil reader, a draining caller gets to an end |
| `encoder` | MCEncoder | 134 k | retries, frames, seek points, metadata chain and header, and the refinement of PcmStream |
| `frame_encoder` | MCFrameEncoder | 12 k | both protocols, retries from the frame count, the codec box, the refinement of PcmStream |
| `frame_info_in_callback` | MCFrameEncoder | - | finding 2 |
| `encode_pool` | MCEncodePool | 251 k | isolation, free pooled encoders, buffers of the right shape |
| `bit_io` | MCBitIO | 476 k | fields are read back as written; order of bits, failures only at the end, the tap, termination |
| `bit_reader_long` | MCBitReader | - | finding 3 |
| `round_trip` | MCRoundTrip | 990 k | what an encoder leaves, closed or not, is accepted or refused as it should be, and decodes to all that was written or to an error |
| `frame_decoder` | MCFrameDecoder | 313 k | headers are read back, cut and damaged ones refused; packets do not disturb one another |
| `frame_body` | MCFrameBody | 550 k | Rice plans are those of a rescan; subframes take the bits they were chosen for; frames are read back to the byte; foreign ones are judged as exact arithmetic judges them; int32 and int64 routes agree |

### Bounds

- *MCSeekSearch*: up to three frames of two or five bytes in windows of 3 to 12 bytes and
  a linear window of 3. A frame may then be longer than the first window, so windows grow
  and advance; the bounds are far apart at first, so the binary search runs for several
  rounds; any one frame, or the first two, is damaged; a false sync in the second frame
  runs to the middle of it or past its end; the source has lost its last byte or not; the
  SEEKTABLE is absent, honest or corrupt (offsets past the end, negative, between
  frames). Targets are the first and the last sample of frames and one past the end.
- *MCDecoder*: eight sources: intact with and without total and MD5, cut between frames
  with either, a wrong MD5, a damaged middle frame, a frame cut off, a header that does
  not parse. `MaxCalls = 4` bounds `Reset` and `SeekToSample` together, which is a reset,
  a failing seek, a succeeding one and a reset; reads and `WriteTo`s are not bounded.
- *MCEncoder*: blocks of 3 samples of 2 bytes, `MaxBytes = 25` for four blocks and a
  remainder, slices that are short of, equal to and above a block, with and without an
  odd byte; eleven configurations for both kinds of sink, tables that overflow, fit or
  stay short, tags, every way to the MD5, right and wrong declared totals, and those
  `init` rejects before and after it has reset the encoder. `MaxJunk = 1`.
- *MCFrameEncoder*: the same blocks, `MaxBytes = 22`, totals undeclared, below and above
  a block.
- *MCEncodePool*: two callers, two encoders, four jobs of three shapes; a caller may call
  again for ever.
- *MCBitIO* and *MCBitReader*: bytes of 2 bits, an accumulator of 3 bytes, a buffer of 6,
  sources of 0 to 7 bytes with every end. A refill happens with bytes kept, a word is
  loaded whole, values straddle two words, and a unary run is longer than the
  accumulator. Written are up to three fields and the padding: values that end before, at
  and behind the end of a word, with bits above their width, negative ones at both ends
  of their range, runs up to and over a word.
- *MCRoundTrip*: blocks of 2 one-byte samples and 6 bytes, so three frames; no table, one
  that overflows, one that stays short with tags, and a sink that cannot seek with a
  declared total; limits of none and of 6 bytes, which is the whole at its own depth and
  half of it converted; `MaxJunk = 1`; ends and breaks at every byte of the audio; an
  ID3v2 tag of one size byte, and one of two with reserved bits and a footer; thirteen
  foreign blocks of every kind at every position (in files without an ID3v2 tag), with
  lengths that are right, one short and one long, and tags whose last length runs out
  inside or at the end; cuts at every boundary and 1 and 5 bytes before it.
- *MCFrameDecoder*, the headers: every pair of a block size and a rate at the limits of
  their codes (1, 255 to 257, each end of a table, 65535; kilohertz of 255 and 256, 65535
  Hz, odd and tenfold rates above); numbers on both sides of every change of length;
  every depth with a code and one without; cuts at every byte; every byte replaced by
  each of eight values, among them other lead bytes, codes and reserved bits.
- *MCFrameDecoder*, the packets: up to three to one decoder, of two streams, one with two
  channels and one with one, in blocks that shrink and grow; each subframe out of range
  or unsupported, a CRC-16 that does not match, an end before every piece, bytes after
  the last, a damaged header; packets whose rate, depth or channels disagree with the
  STREAMINFO, and ones that leave them to it.
- *MCFrameBody*: an int32 of 8 bits that serves up to 3 bits per sample, parameter fields
  of 2 and 3 bits, coefficients of 3; blocks of 2 to 16 samples, partition orders up to
  3, fixed predictors up to order 4, linear ones of order 1 and 2. PCM of every mixture
  of loud, quiet and extreme values in short blocks, of a loud sample or a change of
  signal in longer ones, so that each kind of subframe, each channel assignment, escapes,
  wasted bits, both fallbacks to verbatim and both routes of linear restoration occur.
  Samples take 1 to 4 bytes and are converted to 2, 4 and 8 bits. Foreign residuals in
  every mixture of quiet, loud, least and too large; samples that leave their width when
  restored, shifted or decorrelated; every malformed subframe header. Cuts of 1, 17 and
  30 bits end in the CRC-16, in a value, in a residual's fields or in a subframe header.

### Fairness

All calls are synchronous, so once a call is under way its own goroutine takes the
next step; that is weak fairness of the steps of a call, provided every read or write
of the source or sink returns, if only an error.

- SeekSearch: weak fairness of `Step`, for `SeekEnds`. `SourceFails` is not fair.
- BitIO: weak fairness of BitReader's `Step`, for `ReadsEnd`.
- Decoder: weak fairness of WriteTo's steps, and strong fairness of `Read` for
  `DrainEnds`, which is about a caller that keeps reading: a `WriteTo` in between
  disables `Read` again and again. The property does not hold of a caller that stops.

No safety property or refinement is checked under fairness.

### Findings

1. *Seeking past the end of a stream of unknown length* (`pcm/decoder.go:447`). The
   documentation promises the stream's total sample count. When the binary search has
   already moved `lo` past the last frame, because a probe found that frame while more
   than the linear window was left, the linear scan meets no frame and 0 is returned.
   `PastEndReportsTotal` is violated on an intact stream.
2. *STREAMINFO asked for from the emit callback* (`pcm/frameio.go:307`). During the
   first frame of `EncodeInterleaved`, or of `Finalize` when it is the only one, the
   encoder is `done` but has not folded in a frame, and reports the block size of an
   empty stream, 16, with a total of 0. `InfoValidInCallback` is violated.
3. *Wide reads at the end of the source* (`internal/bitio/reader.go:318`).
   `readBitsSlow` takes a recorded end of the source to mean that no bytes are left,
   but they may still be in the buffer. Reads of 58 to 64 bits can fail although the
   bits are there; the repository reads at most 36. `ReadBitsServesAnyLength` is
   violated; `BitsComeInOrder` states what holds up to 57 bits.

Other behaviour worth knowing, which contradicts nothing written: a failed frame write
that left bytes in the sink shifts the seek points (`PointsLeadToFrames` is stated for
`junk = 0`); a `Close` that fails between rewriting the SEEKTABLE header and the
PADDING header leaves a broken chain; and a second `Close` returns nil after a first
one that failed. PCM whose samples exceed the declared depth but fit their bytes is
encoded without an error and may give a frame that this package's own decoder refuses
with `ErrSampleOutOfRange`; `TestEncodeOutOfRangePCMNoPanic` (`pcm/encoder_test.go:312`)
covers one such input, which is accepted, and `ReadsBack` says what holds of all. A frame
whose rate or depth has no code in the header takes STREAMINFO's, so that a packet of
another stream can be told by it only where there is a code. `cmd/wav2flac` says that
IEEE-float WAV is rejected (`main.go:11`), but accepts WAVE_FORMAT_EXTENSIBLE without a
look at its subformat (`main.go:70`), and takes a float one for integer PCM.

One comment is not true to the letter, by calculation and not by a run: the window in
which `bestParam` (`rice/encode.go:136`, "minimizing payload bits") and
`choosePartition` look for a Rice parameter does not always hold the cheapest one. For
folded residuals 5, 5, 5, 5, 0 it starts at 2, with 19 bits, where 1 needs 18. That
costs a little space and nothing else; the reference of `PlanIsRescan` has the window.

## 4. The proofs

TLAPS checks eight modules of proofs: seven about components and `SequenceFacts`. Each of
the seven names an inductive invariant (`IInv` in most, and where a property needs more,
others on top of it), shows that the initial states satisfy it and that every action keeps it, one
lemma or step per action, and concludes the properties from it. All that is assumed are the
`ASSUME`s of the component's module, which TLC evaluates in its runs.

| Module | Theorems |
|---|---|
| `SeekSearchProof` | `SeekCorrect`, `SeekBounds`, `EndIsTheEnd`, `SeekTypes` |
| `DecoderProof` | `AudioIsInPlace`, `VerdictsHold`, `CleanEndIsWhole`, `ReaderIsThere`, `FailuresLast` |
| `RoundTripProof` | of Encoder: `BytesAccounted`, `KeepsItsPromise`, `FramesAreFixed`, `StreamInfoIsTrue`, `HeadersReachAudio`, `PointsAreTrue`; of StoredFile and Metadata: `LeftIsRead`, `AcceptanceIsExact`; of RoundTrip: `EncodedIsDecoded`, `SuccessIsNotPartial` |
| `FrameEncoderProof` | `SameFrames`, `InfoStaysTrue`, `KeepsItsPromise` |
| `EncodePoolProof` | `SinksAreApart`, `PoolIsSafe`, `ReuseIsSafe` |
| `BitIOProof` | `BitsAreInOrder`, `TapIsComplete`, `BitsAreKept`, `FieldsAreReadBack` |
| `FrameDecoderProof` | `HeadersAreReadBack`, `OneByteIsCaught`, `CallsAreAlone` |

### SequenceFacts

Cutting a sequence in two, runs of consecutive numbers (`Run`: the models number bytes
and bits by their positions, so most of what is kept is a run), division and remainder as
shifts use them, and `FlattenSeq` of the community modules, which puts together what frames hold.
`FlattenSeq` is a recursive function; that it exists, is unique and grows by the last
element (`FlattenAppend`) is shown by induction over the length. The library's induction
theorems take an operator as a parameter and cannot be used, but `WFMin` takes a set, and
from it follow least elements (`NatMin`) and induction for a set (`NatInd`).
`BuildExists` shows the same way that a function defined by recursion on an interval
exists, for RoundTripProof and FrameDecoderProof.

### SeekSearch

`SeekSearchProof` assumes of the constants what SeekSearch states:
`StreamsAssumption` (a stream's frames follow one another and its extents are ordered;
nothing is assumed of its SEEKTABLE or of what is damaged), `TargetsAssumption` and
`WindowAssumption`. `LandsOnFirstSurvivor` says nothing of a search under way, so
`IInv` adds what the search relies on:

- `BehindInv`: no decodable frame that starts before `lo`, or before the base of the
  linear scan, reaches past the target. A binary probe may miss frames between its
  base and the one it finds; what it finds is still the first decodable frame at or
  after the base, and that is all that `lo` needs.
- `NominalInv`: by the time frames are compared with the target, a fixed-blocksize
  stream's nominal block size is the one its frame numbers count in, or its first
  frame is whole and is about to show it.
- `ProbeInv`: a window under search has room to grow, and the nominal size is only
  sought while it is unknown.
- `SearchBoundsInStream` and the types.

From it follow `SeekCorrect` (`LandsOnFirstSurvivor`), `SeekBounds`
(`SearchBoundsInStream`) and `SeekTypes` (`TypeOK`). Where a seek lands is stated for
streams whose seek points are honest and whose nominal block size can be known
(`HonestPoints`, `NominalOK`); with a lying table the frame may be a later one, but the
bounds and the probes stay inside the audio whatever the table says. The lemmas on least
and greatest elements rest on the well-foundedness of the naturals.

`EndIsTheEnd` (`EndMeansNoAudio`) is about a search that gives up. `BehindInv` says what
the scan has passed; what is needed as well is that it has passed everything. If one
window covers the audio bytes, a window that stops at no frame leaves none ahead
(`NothingAhead`). A longer stream is assumed intact, and then the scan never leaves the
frame boundaries: `AtFrames` says that the base of a linear probe, and every `lo` from
which a scan may start, is the first byte of a frame or the end of the stream, and from
there a probe finds that frame or grows its window (`FrameHere`). A target at or past the
total that STREAMINFO records ends the call at once, so a stream whose frames reach past
that total is exempt (`HonestTotal`).

### Encoder

The first part of `RoundTripProof` assumes `SizesAssumption`: block and sample sizes are positive and slices
have lengths. `IInv` says where the bytes of a running call are: the frames hold the
first of them, the leftover those that follow, the rest of the slice those after what
the call has placed (`Placed`), and which steps have a leftover at all (`Staged`).
Without the last two a join could start in the wrong place, or a `Close` return nil with
audio left over. From it follow `BytesAccounted` (`NothingLostOrRepeated`) and, with the
map of every step to a step of PcmStream or none, `KeepsItsPromise`
(`Spec => KeepsPromise`): the streaming encoder implements PcmStream for every
configuration, block size and number of bytes.

What `Close` leaves in front of the frames needs more than `IInv`, in four parts.

- `Blocks`, for `FramesAreFixed` (`FixedBlocks`): the number and first sample of the next
  frame come from counters, so it ties the counters to the frames while nothing but full
  blocks has been written, and says that a flush starts with less than a block in whole
  samples. The short frame is then the last, and not empty.
- `Measured` and `Headed`, for `StreamInfoIsTrue` (`HeaderTellsTruth`): total, bounds and
  digest are those of the frames in the sink at every moment, and STREAMINFO is the
  placeholder of `init` until the step of `Close` that patches it and what the counters
  say afterwards; a sink that cannot seek keeps the placeholder, and then `Close` returns
  nil only if it was true.
- `Fitted` and `Chained`, for `HeadersReachAudio` (`ChainReachesAudio`): at each step of
  `Close` the block headers are those of `init`, those with the SEEKTABLE shrunk, or
  those with padding in the room that is left. The proof follows the chain header by
  header through the at most five blocks of each of these layouts.
- `Counted` and `PointsDue`, for `PointsAreTrue` (`PointsLeadToFrames`): `nextBoundary` is
  the start of the interval after the last frame's, and there are points exactly at the
  frames that start a new interval. That `emitBlock` finds the boundary by adding to the
  old one, over any number of intervals a frame may skip, is `BoundaryReached`.

### FrameEncoder

`FrameEncoderProof` proves all that is checked of FrameEncoder: `SameFrames`
(`FramesOfOneShot`), `InfoStaysTrue` (`InfoIsTrue`) and `KeepsItsPromise`
(`Spec => KeepsPromise`), the refinement of PcmStream. The argument is that an encoder
that may yet emit a frame (`Going`) holds full blocks only (`Full`): the frame number,
the samples counted and the place of the next byte are then one number, and a caller that
is told of frames and not of bytes can still work out where to continue (`Counted`).
`Placed` says where the bytes of a running call are, `Staged` what each of its steps
relies on, `Summed` and `Bounded` what `StreamInfo` is computed from.

### EncodePool

`EncodePoolProof` proves `PoolIsSafe` (`PooledEncodersAreFree`) and `ReuseIsSafe`
(`BuffersFit`) for any number of callers, encoders and jobs. `Holding` says that a call
has an encoder exactly between `Get` and its deferred `Put`. `Shaped` says that an
encoder's buffers, where it has any, have the shape its cfg records, also in the pool and
after a failure; that is what makes init's comparison with the previous stream's shape
sound, and `Fitting` what init makes of it.

`SinksAreApart` (`SinkGetsItsOwnAudio`) needs `DInv` as well. While a call encodes, the
frames in its sink, its encoder's leftover and what `Write` has yet to encode are
together the caller's buffer, and the encoder writes to this sink with counters that are
those of these frames (`Streaming`); what a call that is over has left does not change
(`Told`). Since no two calls hold one encoder, a step of one call leaves all this true of
the others (`LocalKeeps`).

### Decoder

`DecoderProof` proves `ReaderIsThere` (`NoNilReader`) and `FailuresLast`
(`FailureIsSticky`, as an action property) for all sources that Decoder's
`SourcesAssumption` admits, however damaged. `WritesOnlySound` says that no `WriteTo` is
in its loop while there is an error, and `FailedIsInert` that a decoder whose `Reset`
failed cannot seek, has delivered nothing and, once it has a source, has an error: without
the latter a seek could clear the error of options that were rejected.

On top of that, `AInv` says where the audio is. `Delivering`: what was delivered since
the position last reported, then the pending samples, then the frame at the reader follow
one another, as long as there is neither an error nor an end. `Counting`: a stream that is
read from its start is hashed and counted in full. `Ending`: an error or an end says what
the source is. From it follow `AudioIsInPlace` (`DeliversFromReportedPosition`),
`VerdictsHold` (`VerdictsAreJust`) and `CleanEndIsWhole` (`CleanEOFMeansWhole`). These
three assume also `FramesFollowAssumption`: the frames of a source follow one another from
sample 0, and none starts after a total that STREAMINFO records. The decoder takes that
from the encoder and checks neither; a frame that does not continue the one before is
delivered as it is, so without it nothing could be said of positions. Frames may be
damaged or cut, totals too large, and digests wrong.

### BitReader and BitIO

`BitIOProof` proves of the reader `BitsAreInOrder` (`BitsComeInOrder`) and `TapIsComplete`
(`TapSeesEveryByte`) for every width of a byte, of the accumulator and of the buffer. A
position in the buffer is one in the source less what compactions dropped, `loaded - r`;
in these terms the buffer, the accumulator, the bits consumed and the bytes tapped are
runs (`Placed`, `Tapping`), and every step moves a place where one ends and another
begins. A compaction may drop the bytes before the load cursor because the accumulator
never holds more bits than they have. `Fetching` says what a running `fill` relies on and
`Answered` what the last call returned; both speak of reads up to `Whole` bits, 57 in the
code, which is where finding 3 begins.

Of the writer it proves `BitsAreKept` (`WriterKeepsBits`), for every set of fields that keep
to what the writer's documentation asks, no more than 57 bits (`Widest`) and signed values
that fit theirs (`FieldsAssumption`), and a word of more than one bit (`WordAssumption`). `Holds(w, bits)` says that the bits of `w`'s bytes, followed by the
digits at the top of its accumulator, are `bits`, and that the accumulator has nothing below
them. Each call on a writer puts digits behind what it holds: `WriteHolds` for a field that
fits or spills over into the next word, with bits above its width or a sign; `UnaryHolds` by
induction over the half words of zeros; `FlushHolds` and `AlignHolds` for whole bytes and
padding. `Encoded` is a recursive function, and `EncodedAppend` that one more field puts
its digits behind the rest. The invariant `WInv` is then that the writer holds `Encoded` of
the fields. Under it lie the digits of a number, cut and joined (`DigitsSplit`,
`DigitsBehind`), the bytes of a word (`TopBits`), and powers of two: that `2 ^ k` is a
number at all follows from the subsets of a set of `k` elements (`PowType`).

The two together give `FieldsAreReadBack` (`FieldsReadBack`): whatever fields were written,
in whatever pieces the source hands out the bytes, each field is read back as it was and
nothing of the frame is left after the last. `Bound` says that the source's one bits are those
of `Encoded`, `Rested` that between calls the bits consumed are those of the fields asked
for, and `Running` what a call is after. A field's bits lie within the source
(`FieldPlaced`), so a `ReadBits` for it cannot fail: that is `Answered`. A `ReadUnary`
cannot run past its one into the next field's zeros, nor stop at an earlier one
(`ScanFinds`), and the bits that `SkipToByteBoundary` drops are those `AlignByte` put there
(`PaddingAhead`). What was read are then the digits of the value, which put together are
its low bits (`ValueOfDigits`), and these tell a signed value (`SignExtends`).

### Crc, FrameHeader and FrameDecoder

`FrameDecoderProof` is about all three, since a FrameDecoder reads its packets' headers with
the actions of FrameHeader, and these compute the CRC-8. It assumes that headers are those of
the format (`HeadersAssumption`), that packets hold one, whole, cut off in the header or
damaged in any way, followed by anything (`PacketsAssumption`), and that damage leaves bytes
bytes (`NoiseAssumption`).

`HeadersAreReadBack` (`HeadersReadBack`) goes over every code of the format: what the
encoder makes of a block size, a rate, a depth or a number is taken apart by the decoder's
own tables (`SizeCodes`, `RateCodes`, `DepthCodes`, `LeadSays`), also where two codes could
be used and where the lead bytes of numbers of different lengths lie next to each other
(`LeadsApart`). `LaidOut` gives every field its place, and `ReadingInv` says of the reader
that it stands at the place of the next field (`InPlace`), that what it has of a number are
the upper digits (`AsSent`), and how it ends (`Ended`). A header that is cut off is never
read past its end, and is `io.EOF` only when nothing of it is there.

`OneByteIsCaught` (`DamageIsCaught`) is that a header with any one byte altered is never
accepted at its own length. A byte is the number with its bits (`BitsOfByte`, `SameBits`), so
an exclusive or with one byte tells another two apart (`XorApart`). The polynomial is odd: a
shift that is reduced by it gives an odd byte, one that is not an even one, so shifts of
different bytes differ (`ShiftApart`), eight of them as well, and the table has every byte
once (`EntryApart`). A register that differs therefore stays different, and one altered byte
alters the checksum wherever it is and however many follow (`ChecksumApart`, by induction over
the length). `CheckedInv` says of every header, damaged ones included, that if it was accepted
its last byte is the checksum of those before it. Damage that changes a code or the lead byte
can make a header end elsewhere; then the CRC-8 is one of other bytes, and nothing is claimed.

`CallsAreAlone` (`CallsStandAlone`) adds `CallInv`. When a call enters a body its buffers
may hold samples of any earlier packet, of another number of channels and another block
size; `Decoding` says that they have this block's length, that those of the subframes read
so far are this call's, those of a pair only when the second has been read, and that
neither a fault that has been met nor one that is yet to come can be told wrongly. Of a
damaged header nothing is known but that it has some number of channels; its call cannot
pass `Check`, because the tap has recorded this packet alone and its CRC-16 does not match,
so it ends in one of three errors and with no audio.

### Metadata and StoredFile

The rest of `RoundTripProof` composes the components, and so has their assumptions:
`ConfigsAssumption` and `SizesAssumption` of Encoder; `TagsAssumption`, that the length that
`init` computes for VORBIS_COMMENT is that of what it writes; `LeadingAssumption` and
`ForeignAssumption`, that an ID3v2 tag is as long as its header says and that foreign blocks
have lengths and bodies. Nothing is assumed of what is in them or of whether the length of a
foreign block fits its body.

`Left` is what a file relies on of the encoder: the invariants above, and four small facts on
tags, verdicts and the places of frames. It holds at every moment, so of abandoned encoders
too. `Stands` relates the bytes in the sink with `truth`, the list of blocks that the encoder
was asked for: the file holds these blocks one behind the other, each with the body that was
meant and the last flag on the last (`Laid`). `IntendedLaid` shows it of each layout that
`Chained` allows, in the middle of `Close` as well; `InsertedLaid` of a foreign block put
anywhere behind STREAMINFO or in front of it. `Filed` says that a file is either not there
or stands.

`Walked` is the reader's invariant: between blocks it is at the header of one of those meant
and has of the `k` before it exactly what they hold (`Passed`): the STREAMINFO, the points of
the last SEEKTABLE without its placeholders (`UsedIs`), the comments of the last
VORBIS_COMMENT that is sound (`MetaTo`). `FitIsSound` says that the length checks of
`parseVorbisComment`, which run along the comments, accept a body just when all its parts
lie within it; the sums on both sides are recursive functions that are shown to exist and
to grow by one element at a time (`SumsFrom`, `SumsGrow`). A refusal then comes from a block
that is not acceptable or from an end before the audio. So follow `LeftIsRead`
(`ReadsWhatWasLeft`), what is read is what was meant, and `AcceptanceIsExact`
(`AcceptsWellFormed`): a file that has all of its metadata is accepted if and only if it is
well-formed, and a well-formed one that ends before is never taken for an ended stream.

### RoundTrip

Two more assumptions. `LimitsAssumption`: a failed write leaves less in the sink than a
frame, which is what makes it a failed one. `DigestAssumption`: no digest is supplied from outside. Only
`EncodeInterleaved` supplies one, of the buffer it is about to write, and it writes all of it
in one call; that is EncodePool's subject. `FramesFollowAssumption`, which `DecoderProof` has
to make, is not needed: that the frames follow one another is a fact about this encoder
(`FramesFollow`, from `Blocks`).

`SourceIs` says which frames the decoder meets: those that were written, up to the first that
is cut by the end of the file or spoilt by what a failed write left (`Meets`, `GoodFrame`,
`WholeFrame`). `InfoSays` says what the STREAMINFO it read can contain: what `init` knew, if
the encoder was abandoned before its header was patched (`Foretold`), or what the sink holds
(`Recorded`). Once the file is accepted it does not change (`Settled`).

The invariant is `Decodes`. While `WriteTo` runs, some `k` frames are decoded and hashed, all
but perhaps the last of them delivered, from sample 0 on and in order (`Decoded`), and no more
than the limit (`Within`). A call that stops says why (`Stopped`): the end, with all frames
met and a verdict on total and digest that is clean (`AtEnd`); the limit (`OverLimit`); or a
source that breaks, a frame that is not whole or a verdict that is not clean (`Faulty`). What
is returned is that (`Answered`).

`EncodedIsDecoded` (`DecodesWhatWasEncoded`) follows by going through the files that can be
decoded: the frames of an encoder that has been closed are all met and whole (`WholeIsMet`),
the total and the digest are theirs, so the verdict is clean and what comes out is all that
`Write` accepted. `SuccessIsNotPartial` (`PartialIsNoSuccess`) is the other direction: from a
clean end (`CleanEnd`) it follows that what is returned is whole frames from the first on,
within the limit, all of them if `Close` has recorded the total and no less than a total that
was declared, and that the source did not break and does not end in what a failed write left.
Only a file without a total can lose its last frames unnoticed, by a cut between two of them.
An error returns no audio at all.

### Not proved

Liveness and fairness (`SeekEnds`, `DrainEnds`, `ReadsEnd`) are out of the prover's reach.

Left to TLC for their size, not for a limit of the prover: what computes on the data itself,
the residuals of a plan and the bits and samples of a body, so `PlanIsRescan` of Rice and
`WrittenAsPriced`, `ReadsBack`, `VerdictIsExact` and `RouteDoesNotShow` of FrameBody. A
proof of the first needs the sums of the tables split along the partitions, the bounds of
`BitLen` and of the window of parameters, and the type of every residual from the bytes of
an input through each predictor; the others need that and the bits of every field read
back as written.

Induction over the length of a sequence is
possible for one function at a time, as `SequenceFacts` does for `FlattenSeq`, `BitIOProof` for `Encoded`, `ValueOf` and the zeros of
`WriteUnary`, `RoundTripProof` for the sums of lengths and sizes and for the points kept, and
`FrameDecoderProof` for the register of the CRC-8.

## 5. What is not modelled

- The windows, autocorrelation and recursion of `internal/lpc/analyze.go`: floating point.
  FrameBody takes any outcome of it and quantizes that as the code does.
- The assembly of `internal/i32` and the dispatch to it: the package's tests hold it to
  the Go routines, which Kernels has.
- The CRC-16 and the MD5: a CRC-16 matches or does not, a digest is what it digests.
- `rules/`, patterns for a linter; and `cmd/wav2flac`, an example command that reads the
  chunks of a WAV file in one pass and calls `NewEncoder`, `Write` and `Close`. It keeps
  no state and meets every failure by ending.
- Scratch memory (`carry`, probe buffers, `presizeHint`, `Grow`, the capacity of
  `frame/workspace.go`). The slots of the workspace and its shared residual buffer are in
  FrameBody, the reuse of buffers by shape in EncodePool, by length in FrameDecoder.
- The bit layout of STREAMINFO, SEEKTABLE and VORBIS_COMMENT fields; message texts.

## 6. Plan

Written so far, in this order: SeekSearch, Decoder, Encoder, FrameEncoder, EncodePool,
BitReader, Metadata with StoredFile, FrameHeader, FrameBody on Rice, Kernels and Pcm,
BitWriter with BitIO, FrameDecoder on FrameHeader, RoundTrip on Encoder, Metadata and
Decoder. Proved, in this order: SeekSearch's landing and bounds, Encoder's refinement and
frames, the pool's safety, the decoder's reader and failures; then the decoder's audio and
verdicts, FrameEncoder and its refinement, the order of BitReader, the audio of pooled
calls, the encoder's header, chain and seek points, the end of a seek, the headers that are
read back and the calls of FrameDecoder, the bits of BitWriter, and that BitReader reads
back what BitWriter wrote. Last came the parts together: that ReadMetadata gets what the
encoder left and accepts exactly what is well-formed, and that a decoder gets what the encoder
was given, or an error; and that the CRC-8 catches every altered byte.

What is left is the data inside a frame: a proof about FrameBody would start from Kernels,
where decorrelation and fixed prediction undo themselves, and need plans as recursive
functions first.

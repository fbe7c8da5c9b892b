--------------------------- MODULE EncodePoolProof ----------------------------
(***************************************************************************)
(* Proofs about EncodePool for every number of callers, encoders and jobs:  *)
(* an encoder is in one call's hands or in the pool, the buffers it is used *)
(* with have the shape of its call, and a sink gets its caller's audio.     *)
(*                                                                          *)
(* BuffersFit is not inductive.  init reuses buffers by comparing with the  *)
(* shape of the stream before; what makes that sound is that an encoder's   *)
(* buffers, once there, always have the shape its cfg says, in the pool and *)
(* after failures too.  The audio is right because the frames of a call,    *)
(* the leftover of its encoder and what Write has yet to encode are always  *)
(* together the caller's buffer (DInv).                                     *)
(***************************************************************************)
EXTENDS EncodePool, SequenceFacts

Labels == {"idle", "get", "init", "write", "blocks", "close", "flush", "finish", "defer"}
Fields == {"w", "cfg", "ch", "work", "leftover", "frameNum", "total", "closed"}

\* Every encoder is a record of its fields.
EncodersTyped ==
    /\ DOMAIN enc = Encoders /\ enc = [e \in Encoders |-> enc[e]]
    /\ \A e \in Encoders : /\ DOMAIN enc[e] = Fields
                           /\ enc[e] = [x \in Fields |-> enc[e][x]]

\* The shape of the state, as far as the argument needs it.
Typed ==
    /\ pool \subseteq Encoders
    /\ pc \in [Callers -> Labels]
    /\ job \in [Callers -> Jobs]
    /\ held \in [Callers -> Encoders \cup {NoEncoder}]
    /\ EncodersTyped

\* A call has an encoder from Get to its return.
Holding ==
    /\ \A c \in Callers : held[c] = NoEncoder <=> pc[c] \in {"idle", "get"}
    /\ PooledEncodersAreFree

\* An encoder's buffers, if it has any, have the shape of its cfg.
Shaped ==
    \A e \in Encoders :
        /\ enc[e].ch # 0 => enc[e].ch = enc[e].cfg.channels
        /\ enc[e].work # NoShape => enc[e].work = enc[e].cfg

\* After init they have that of the call.
Used(c) == enc[held[c]].ch = job[c].channels /\ enc[held[c]].work = Shape(job[c])
Fitting == \A c \in Callers : pc[c] \in {"write", "blocks", "close", "flush", "finish"} => Used(c)

IInv == Typed /\ Holding /\ Shaped /\ Fitting

-----------------------------------------------------------------------------
\* No encoder exists at first.
LEMMA Initially == Init => IInv
<1> SUFFICES ASSUME Init PROVE IInv
  OBVIOUS
<1>1. Typed
  BY DEF Init, Typed, EncodersTyped, Blank, Labels, Fields
<1>2. Holding
  BY DEF Init, Holding, PooledEncodersAreFree
<1>3. Shaped
  BY DEF Init, Shaped, Blank
<1>4. Fitting
  BY DEF Init, Fitting
<1>5. QED
  BY <1>1, <1>2, <1>3, <1>4 DEF IInv

\* Changes of encoder e that keep the buffers and the shape in its cfg.
Same(e) ==
    /\ DOMAIN enc' = Encoders /\ enc' = [d \in Encoders |-> enc'[d]]
    /\ \A d \in Encoders : d # e => enc'[d] = enc[d]
    /\ DOMAIN enc'[e] = Fields /\ enc'[e] = [x \in Fields |-> enc'[e][x]]
    /\ enc'[e].ch = enc[e].ch /\ enc'[e].cfg = enc[e].cfg /\ enc'[e].work = enc[e].work
    /\ enc'[e].w = enc[e].w

\* A step within a call, on its own encoder, that leaves buffers alone.
LEMMA CallKeeps ==
    ASSUME IInv, NEW c \in Callers, held[c] \in Encoders,
           pool' = pool, job' = job, held' = held,
           NEW l \in {"write", "blocks", "close", "flush", "finish", "defer"},
           pc' = [pc EXCEPT ![c] = l],
           pc[c] \in {"write", "blocks", "close", "flush", "finish"} \/ l = "defer",
           pc[c] \notin {"idle", "get"},
           Same(held[c])
    PROVE  IInv'
<1>1. Typed'
  <2>1. pool' \subseteq Encoders /\ job' \in [Callers -> Jobs]
        /\ held' \in [Callers -> Encoders \cup {NoEncoder}]
    BY DEF IInv, Typed
  <2>2. pc' \in [Callers -> Labels]
    BY DEF IInv, Typed, Labels
  <2>3. EncodersTyped'
    BY DEF IInv, Typed, EncodersTyped, Same
  <2>4. QED
    BY <2>1, <2>2, <2>3 DEF Typed
<1>2. pc'[c] = l /\ \A d \in Callers : d # c => pc'[d] = pc[d]
  BY DEF IInv, Typed
<1>3. \A e \in Encoders : /\ enc'[e].ch = enc[e].ch /\ enc'[e].cfg = enc[e].cfg
                          /\ enc'[e].work = enc[e].work /\ enc'[e].w = enc[e].w
  BY DEF Same
<1>4. Holding'
  <2>1. pc[c] \notin {"idle", "get"} /\ pc'[c] \notin {"idle", "get"}
    BY <1>2
  <2>2. \A d \in Callers : held'[d] = NoEncoder <=> pc'[d] \in {"idle", "get"}
    BY <1>2, <2>1 DEF IInv, Holding
  <2>3. PooledEncodersAreFree'
    BY <1>3 DEF IInv, Typed, Holding, PooledEncodersAreFree
  <2>4. QED
    BY <2>2, <2>3 DEF Holding
<1>5. Shaped'
  BY <1>3 DEF IInv, Shaped
<1>6. Fitting'
  <2>1. SUFFICES ASSUME NEW d \in Callers,
                        pc'[d] \in {"write", "blocks", "close", "flush", "finish"}
                 PROVE  Used(d)'
    BY DEF Fitting
  <2>2. pc[d] \in {"write", "blocks", "close", "flush", "finish"}
    BY <1>2, <2>1
  <2>3. Used(d) /\ held[d] \in Encoders
    BY <2>2 DEF IInv, Fitting, Holding, Typed
  <2>4. QED
    BY <2>3, <1>3 DEF Used
<1>7. QED
  BY <1>1, <1>4, <1>5, <1>6 DEF IInv

\* A call that has an encoder has one of Encoders.
LEMMA CallHolds ==
    ASSUME IInv, NEW c \in Callers, pc[c] \notin {"idle", "get"}
    PROVE  held[c] \in Encoders
BY DEF IInv, Typed, Holding

\* Leaving the encoders alone is a change of none.
LEMMA UnchangedSame == ASSUME IInv, NEW e \in Encoders, enc' = enc PROVE Same(e)
BY DEF IInv, Typed, EncodersTyped, Same

\* A frame changes an encoder's leftover and counters only.
LEMMA EmitSame ==
    ASSUME IInv, NEW e \in Encoders, NEW chunk, Emit(e, chunk)
    PROVE  Same(e)
<1>1. enc' = [enc EXCEPT ![e].leftover = <<>>, ![e].frameNum = @ + 1, ![e].total = @ + Len(chunk)]
  BY DEF Emit
<1>2. /\ DOMAIN enc = Encoders /\ enc = [d \in Encoders |-> enc[d]]
      /\ DOMAIN enc[e] = Fields /\ enc[e] = [x \in Fields |-> enc[e][x]]
  BY DEF IInv, Typed, EncodersTyped
<1>3. QED
  BY <1>1, <1>2 DEF Same, Fields

\* The steps between init and the return of a call (Write, Close).
LEMMA CallSteps ==
    ASSUME IInv, NEW c \in Callers,
           Write(c) \/ WriteBlock(c) \/ WriteStash(c) \/ Close(c) \/ Flush(c) \/ Finish(c)
    PROVE  IInv'
<1> DEFINE e == held[c]
<1>0. /\ pc[c] \in {"write", "blocks", "close", "flush", "finish"}
      /\ pool' = pool /\ job' = job /\ held' = held
  BY DEF Write, WriteBlock, WriteStash, Close, Flush, Finish
<1>1. e \in Encoders
  BY <1>0, CallHolds
<1>2. /\ DOMAIN enc = Encoders /\ enc = [d \in Encoders |-> enc[d]]
      /\ DOMAIN enc[e] = Fields /\ enc[e] = [x \in Fields |-> enc[e][x]]
  BY <1>1 DEF IInv, Typed, EncodersTyped
<1>3. pc' = [pc EXCEPT ![c] = pc[c]] <=> pc' = pc
  BY <1>1 DEF IInv, Typed
<1>4. CASE Write(c)
  <2>1. /\ enc' = enc
        /\ pc' = [pc EXCEPT ![c] = "defer"] \/ pc' = [pc EXCEPT ![c] = "blocks"]
    BY <1>4 DEF Write, Returns, Goto
  <2>2. QED
    BY <2>1, <1>0, <1>1, UnchangedSame, CallKeeps
<1>5. CASE WriteBlock(c)
  <2>1. \/ Emit(e, enc[e].leftover \o Take(rest[c], BlockSize - Len(enc[e].leftover)))
           /\ pc' = pc
        \/ enc' = enc /\ pc' = [pc EXCEPT ![c] = "defer"]
    BY <1>5 DEF WriteBlock, Returns, Goto
  <2>2. Same(e)
    BY <2>1, <1>1, UnchangedSame, EmitSame
  <2>3. QED
    BY <2>1, <2>2, <1>0, <1>1, <1>3, CallKeeps
<1>6. CASE WriteStash(c)
  <2>1. /\ enc' = [enc EXCEPT ![e].leftover = @ \o rest[c]]
        /\ pc' = [pc EXCEPT ![c] = "close"]
    BY <1>6 DEF WriteStash, Goto
  <2>2. Same(e)
    BY <2>1, <1>1, <1>2 DEF Same, Fields
  <2>3. QED
    BY <2>1, <2>2, <1>0, <1>1, CallKeeps
<1>7. CASE Close(c)
  <2>1. /\ enc' = enc \/ enc' = [enc EXCEPT ![e].closed = TRUE]
        /\ \E l \in {"flush", "finish", "defer"} : pc' = [pc EXCEPT ![c] = l]
    BY <1>7 DEF Close, Returns, Goto
  <2>2. Same(e)
    BY <2>1, <1>1, <1>2 DEF Same, Fields
  <2>3. QED
    BY <2>1, <2>2, <1>0, <1>1, CallKeeps
<1>8. CASE Flush(c)
  <2>1. \/ Emit(e, enc[e].leftover) /\ pc' = [pc EXCEPT ![c] = "finish"]
        \/ enc' = enc /\ pc' = [pc EXCEPT ![c] = "defer"]
    BY <1>8 DEF Flush, Returns, Goto
  <2>2. Same(e)
    BY <2>1, <1>1, UnchangedSame, EmitSame
  <2>3. QED
    BY <2>1, <2>2, <1>0, <1>1, CallKeeps
<1>9. CASE Finish(c)
  <2>1. enc' = enc /\ pc' = [pc EXCEPT ![c] = "defer"]
    BY <1>9 DEF Finish, Returns, Goto
  <2>2. QED
    BY <2>1, <1>0, <1>1, UnchangedSame, CallKeeps
<1>10. QED
  BY <1>4, <1>5, <1>6, <1>7, <1>8, <1>9

\* init reuses buffers that fit, and makes others (init's reuse of ch and work).
LEMMA InitSteps == ASSUME IInv, NEW c \in Callers, InitEncoder(c) PROVE IInv'
<1> DEFINE e == held[c]
<1>0. pc[c] = "init" /\ pool' = pool /\ job' = job /\ held' = held
  BY DEF InitEncoder
<1>1. e \in Encoders /\ e \notin pool /\ \A d \in Callers : held[d] = e => d = c
  BY <1>0, CallHolds DEF IInv, Holding, PooledEncodersAreFree
<1>2. CASE enc' = enc /\ pc' = [pc EXCEPT ![c] = "defer"]
  BY <1>0, <1>1, <1>2, UnchangedSame, CallKeeps
<1>3. CASE /\ enc' = [enc EXCEPT ![e] = Bound(@, c)]
           /\ \E l \in {"write", "defer"} : pc' = [pc EXCEPT ![c] = l]
  <2>1. /\ DOMAIN enc = Encoders /\ enc = [d \in Encoders |-> enc[d]]
        /\ DOMAIN enc[e] = Fields /\ enc[e] = [x \in Fields |-> enc[e][x]]
    BY <1>1 DEF IInv, Typed, EncodersTyped
  <2>2. /\ DOMAIN enc' = Encoders /\ enc' = [d \in Encoders |-> enc'[d]]
        /\ enc'[e] = Bound(enc[e], c)
        /\ \A d \in Encoders : d # e => enc'[d] = enc[d]
    BY <1>3, <1>1, <2>1
  <2> DEFINE b == Bound(enc[e], c)
  <2>3. /\ DOMAIN b = Fields /\ b = [x \in Fields |-> b[x]]
        /\ b.cfg = Shape(job[c])
        /\ b.ch = IF enc[e].ch # 0 /\ enc[e].cfg.channels = Shape(job[c]).channels
                  THEN enc[e].ch ELSE Shape(job[c]).channels
        /\ b.work = IF enc[e].work # NoShape /\ enc[e].cfg = Shape(job[c])
                    THEN enc[e].work ELSE Shape(job[c])
    BY <2>1 DEF Bound, Fields
  <2>4. Shape(job[c]).channels = job[c].channels
    BY DEF Shape
  <2> HIDE DEF b
  <2>5. b.ch = job[c].channels /\ b.work = Shape(job[c]) /\ b.cfg = Shape(job[c])
    BY <2>3, <2>4, <1>1 DEF IInv, Shaped
  <2>6. enc'[e] = b
    BY <2>2 DEF b
  <2>7. \E l \in {"write", "defer"} :
            /\ pc' = [pc EXCEPT ![c] = l] /\ pc'[c] = l
            /\ \A d \in Callers : d # c => pc'[d] = pc[d]
    BY <1>3 DEF IInv, Typed
  <2>8. Typed'
    <3>1. pool' \subseteq Encoders /\ job' \in [Callers -> Jobs]
          /\ held' \in [Callers -> Encoders \cup {NoEncoder}]
      BY <1>0 DEF IInv, Typed
    <3>2. pc' \in [Callers -> Labels]
      BY <2>7 DEF IInv, Typed, Labels
    <3>3. \A d \in Encoders : /\ DOMAIN enc'[d] = Fields
                              /\ enc'[d] = [x \in Fields |-> enc'[d][x]]
      <4>1. TAKE d \in Encoders
      <4>2. CASE d = e
        BY <4>2, <2>3, <2>6
      <4>3. CASE d # e
        BY <4>3, <2>2 DEF IInv, Typed, EncodersTyped
      <4>4. QED
        BY <4>2, <4>3
    <3>4. QED
      BY <3>1, <3>2, <3>3, <2>2 DEF Typed, EncodersTyped
  <2>9. Holding'
    BY <1>0, <1>1, <2>2, <2>7 DEF IInv, Typed, Holding, PooledEncodersAreFree
  <2>10. Shaped'
    BY <2>2, <2>4, <2>5, <2>6 DEF IInv, Shaped
  <2>11. Fitting'
    <3>1. SUFFICES ASSUME NEW d \in Callers,
                          pc'[d] \in {"write", "blocks", "close", "flush", "finish"}
                   PROVE  Used(d)'
      BY DEF Fitting
    <3>2. CASE d = c
      BY <3>2, <1>0, <2>5, <2>6 DEF Used
    <3>3. CASE d # c
      <4>1. Used(d) /\ held[d] \in Encoders /\ held[d] # e
        BY <3>1, <3>3, <2>7, <1>1 DEF IInv, Fitting, Holding, Typed
      <4>2. QED
        BY <4>1, <1>0, <2>2 DEF Used
    <3>4. QED
      BY <3>2, <3>3
  <2>12. QED
    BY <2>8, <2>9, <2>10, <2>11 DEF IInv
<1>4. QED
  BY <1>2, <1>3 DEF InitEncoder, Returns, Goto

\* A call starts without an encoder.
LEMMA CallStarts ==
    ASSUME IInv, NEW c \in Callers, NEW j \in Jobs, EncodeInterleaved(c, j)
    PROVE  IInv'
<1>1. /\ pc[c] = "idle" /\ pc' = [pc EXCEPT ![c] = "get"] /\ job' = [job EXCEPT ![c] = j]
      /\ UNCHANGED <<pool, enc, held>>
  BY DEF EncodeInterleaved, Goto
<1>2. /\ pc'[c] = "get" /\ \A d \in Callers : d # c => pc'[d] = pc[d] /\ job'[d] = job[d]
  BY <1>1 DEF IInv, Typed
<1>3. Typed'
  BY <1>1 DEF IInv, Typed, EncodersTyped, Labels
<1>4. Holding' /\ Shaped'
  BY <1>1, <1>2 DEF IInv, Holding, PooledEncodersAreFree, Shaped
<1>5. Fitting'
  BY <1>1, <1>2 DEF IInv, Fitting, Used
<1>6. QED
  BY <1>3, <1>4, <1>5 DEF IInv

\* Nobody else has the encoder that Get returns (sync.Pool).
LEMMA GetKeeps == ASSUME IInv, NEW c \in Callers, Get(c) PROVE IInv'
<1>1. PICK e \in Encoders :
          /\ \A d \in Callers : held[d] # e
          /\ held' = [held EXCEPT ![c] = e]
          /\ \/ e \in pool /\ pool' = pool \ {e} /\ enc' = enc
             \/ e \notin pool /\ pool' = pool /\ enc' = [enc EXCEPT ![e] = Blank]
  BY DEF Get, IInv, Typed, Holding, PooledEncodersAreFree
<1>2. pc[c] = "get" /\ pc' = [pc EXCEPT ![c] = "init"] /\ job' = job
  BY DEF Get, Goto
<1>3. /\ pc'[c] = "init" /\ held'[c] = e
      /\ \A d \in Callers : d # c => pc'[d] = pc[d] /\ held'[d] = held[d]
  BY <1>1, <1>2 DEF IInv, Typed
<1>4. /\ DOMAIN enc' = Encoders /\ enc' = [d \in Encoders |-> enc'[d]]
      /\ \A d \in Encoders : d # e => enc'[d] = enc[d]
      /\ enc'[e] = enc[e] \/ enc'[e] = Blank
  BY <1>1 DEF IInv, Typed, EncodersTyped
<1>5. /\ DOMAIN Blank = Fields /\ Blank = [x \in Fields |-> Blank[x]]
      /\ Blank.ch = 0 /\ Blank.work = NoShape
  BY DEF Blank, Fields
<1>6. Typed'
  <2>1. pool' \subseteq Encoders /\ job' \in [Callers -> Jobs]
        /\ held' \in [Callers -> Encoders \cup {NoEncoder}]
    BY <1>1, <1>2 DEF IInv, Typed
  <2>2. pc' \in [Callers -> Labels]
    BY <1>2 DEF IInv, Typed, Labels
  <2>3. EncodersTyped'
    BY <1>4, <1>5 DEF IInv, Typed, EncodersTyped
  <2>4. QED
    BY <2>1, <2>2, <2>3 DEF Typed
<1>7. Holding'
  <2>1. \A d \in Callers : held'[d] = NoEncoder <=> pc'[d] \in {"idle", "get"}
    BY <1>1, <1>3, PoolAssumption DEF IInv, Holding
  <2>2. \A d, f \in Callers : held'[d] = held'[f] /\ held'[d] # NoEncoder => d = f
    BY <1>1, <1>3 DEF IInv, Holding, PooledEncodersAreFree
  <2>3. \A d \in pool' : d \in pool /\ d # e /\ d \in Encoders
    BY <1>1 DEF IInv, Typed
  <2>4. \A d \in pool' : enc'[d].w = NoCaller /\ \A f \in Callers : held'[f] # d
    BY <2>3, <1>3, <1>4 DEF IInv, Holding, PooledEncodersAreFree
  <2>5. QED
    BY <2>1, <2>2, <2>4 DEF Holding, PooledEncodersAreFree
<1>8. Shaped'
  BY <1>4, <1>5 DEF IInv, Shaped
<1>9. Fitting'
  <2>1. SUFFICES ASSUME NEW d \in Callers,
                        pc'[d] \in {"write", "blocks", "close", "flush", "finish"}
                 PROVE  Used(d)'
    BY DEF Fitting
  <2>2. d # c /\ Used(d) /\ held[d] \in Encoders /\ held[d] # e /\ held'[d] = held[d]
    BY <2>1, <1>1, <1>3 DEF IInv, Fitting, Holding, Typed
  <2>3. QED
    BY <2>2, <1>2, <1>4 DEF Used
<1>10. QED
  BY <1>6, <1>7, <1>8, <1>9 DEF IInv

\* A dropped encoder is gone (sync.Pool).
LEMMA DropKeeps == ASSUME IInv, Drops PROVE IInv'
<1>1. pool' \subseteq pool /\ UNCHANGED <<enc, pc, job, held>>
  BY DEF Drops
<1>2. Typed' /\ Shaped'
  BY <1>1 DEF IInv, Typed, EncodersTyped, Shaped
<1>3. Holding' /\ Fitting'
  BY <1>1 DEF IInv, Holding, PooledEncodersAreFree, Fitting, Used
<1>4. QED
  BY <1>2, <1>3 DEF IInv

\* The deferred function puts back an encoder that has dropped its sink.
LEMMA ReleaseKeeps == ASSUME IInv, NEW c \in Callers, Release(c) PROVE IInv'
<1> DEFINE e == held[c]
<1>1. /\ pc[c] = "defer" /\ pc' = [pc EXCEPT ![c] = "idle"] /\ job' = job
      /\ enc' = [enc EXCEPT ![e] = Deferred(@)] /\ pool' = pool \cup {e}
      /\ held' = [held EXCEPT ![c] = NoEncoder]
  BY DEF Release, Goto
<1>2. e \in Encoders /\ \A d \in Callers : held[d] = e => d = c
  BY <1>1, CallHolds, PoolAssumption DEF IInv, Holding, PooledEncodersAreFree
<1>3. /\ pc'[c] = "idle" /\ held'[c] = NoEncoder
      /\ \A d \in Callers : d # c => pc'[d] = pc[d] /\ held'[d] = held[d]
  BY <1>1 DEF IInv, Typed
<1>4. /\ DOMAIN enc = Encoders /\ enc = [d \in Encoders |-> enc[d]]
      /\ DOMAIN enc[e] = Fields /\ enc[e] = [x \in Fields |-> enc[e][x]]
  BY <1>2 DEF IInv, Typed, EncodersTyped
<1>5. /\ DOMAIN enc' = Encoders /\ enc' = [d \in Encoders |-> enc'[d]]
      /\ \A d \in Encoders : d # e => enc'[d] = enc[d]
      /\ enc'[e] = [enc[e] EXCEPT !.w = NoCaller]
  BY <1>1, <1>2, <1>4 DEF Deferred
<1>6. /\ DOMAIN enc'[e] = Fields /\ enc'[e] = [x \in Fields |-> enc'[e][x]]
      /\ enc'[e].w = NoCaller /\ enc'[e].ch = enc[e].ch
      /\ enc'[e].cfg = enc[e].cfg /\ enc'[e].work = enc[e].work
  BY <1>4, <1>5 DEF Fields
<1>7. Typed'
  <2>1. pool' \subseteq Encoders /\ job' \in [Callers -> Jobs]
        /\ held' \in [Callers -> Encoders \cup {NoEncoder}]
    BY <1>1, <1>2 DEF IInv, Typed
  <2>2. pc' \in [Callers -> Labels]
    BY <1>1 DEF IInv, Typed, Labels
  <2>3. EncodersTyped'
    BY <1>5, <1>6 DEF IInv, Typed, EncodersTyped
  <2>4. QED
    BY <2>1, <2>2, <2>3 DEF Typed
<1>8. Holding'
  <2>1. \A d \in Callers : held'[d] = NoEncoder <=> pc'[d] \in {"idle", "get"}
    BY <1>3 DEF IInv, Holding
  <2>2. \A d, f \in Callers : held'[d] = held'[f] /\ held'[d] # NoEncoder => d = f
    BY <1>3 DEF IInv, Holding, PooledEncodersAreFree
  <2>3. NoEncoder # e
    BY <1>2, PoolAssumption
  <2>4. \A d \in pool' : d = e \/ (d \in pool /\ d # e /\ d \in Encoders)
    BY <1>1 DEF IInv, Typed
  <2>5. \A d \in pool' : enc'[d].w = NoCaller /\ \A f \in Callers : held'[f] # d
    <3>1. TAKE d \in pool'
    <3>2. CASE d = e
      BY <3>2, <1>2, <1>3, <1>6, <2>3
    <3>3. CASE d \in pool /\ d # e /\ d \in Encoders
      BY <3>3, <1>3, <1>5, PoolAssumption DEF IInv, Holding, PooledEncodersAreFree
    <3>4. QED
      BY <2>4, <3>2, <3>3
  <2>6. QED
    BY <2>1, <2>2, <2>5 DEF Holding, PooledEncodersAreFree
<1>9. Shaped'
  <2>1. \A d \in Encoders : /\ enc'[d].ch = enc[d].ch /\ enc'[d].cfg = enc[d].cfg
                            /\ enc'[d].work = enc[d].work
    BY <1>5, <1>6, Zenon
  <2>2. QED
    BY <2>1 DEF IInv, Shaped
<1>10. Fitting'
  <2>1. SUFFICES ASSUME NEW d \in Callers,
                        pc'[d] \in {"write", "blocks", "close", "flush", "finish"}
                 PROVE  Used(d)'
    BY DEF Fitting
  <2>2. d # c /\ Used(d) /\ held[d] \in Encoders /\ held[d] # e /\ held'[d] = held[d]
    BY <2>1, <1>2, <1>3 DEF IInv, Fitting, Holding, Typed
  <2>3. QED
    BY <2>2, <1>1, <1>5 DEF Used
<1>11. QED
  BY <1>7, <1>8, <1>9, <1>10 DEF IInv

\* Every step of every call keeps the invariant.
LEMMA Inductive == IInv /\ [Next]_vars => IInv'
<1> SUFFICES ASSUME IInv, [Next]_vars PROVE IInv'
  OBVIOUS
<1>1. CASE UNCHANGED vars
  <2>1. UNCHANGED <<pool, enc, pc, job, held>>
    BY <1>1 DEF vars
  <2>2. QED
    BY <2>1 DEF IInv, Typed, EncodersTyped, Holding, PooledEncodersAreFree, Shaped, Fitting, Used
<1>2. CASE Drops
  BY <1>2, DropKeeps
<1>3. ASSUME NEW c \in Callers,
             \/ \E j \in Jobs : EncodeInterleaved(c, j)
             \/ Get(c) \/ InitEncoder(c) \/ Write(c) \/ WriteBlock(c) \/ WriteStash(c)
             \/ Close(c) \/ Flush(c) \/ Finish(c) \/ Release(c)
      PROVE  IInv'
  BY <1>3, CallStarts, GetKeeps, InitSteps, CallSteps, ReleaseKeeps
<1>4. QED
  BY <1>1, <1>2, <1>3 DEF Next

\* An encoder is never in two hands, nor in the pool with a hand or a sink on it,
\* however many calls run at once and wherever they fail (EncodeInterleaved's defer).
THEOREM PoolIsSafe == Spec => []PooledEncodersAreFree
<1>1. Spec => []IInv
  BY Initially, Inductive, PTL DEF Spec
<1>2. IInv => PooledEncodersAreFree
  BY DEF IInv, Holding
<1>3. QED
  BY <1>1, <1>2, PTL

\* Every call encodes with buffers of its own shape (init's reuse of ch and work).
THEOREM ReuseIsSafe == Spec => []BuffersFit
<1>1. Spec => []IInv
  BY Initially, Inductive, PTL DEF Spec
<1>2. IInv => BuffersFit
  BY DEF IInv, Fitting, Used, BuffersFit
<1>3. QED
  BY <1>1, <1>2, PTL

-----------------------------------------------------------------------------
(* What the sinks get.                                                      *)

Sample == Callers \X Nat
Frame  == [num : Nat, samples : Seq(Sample)]

Encoding == {"write", "blocks", "close", "flush", "finish"}

TrueHeader(c) == [total |-> job[c].n, md5 |-> Input(c)]

\* What caller c's sink has, and what it knows of the call.
Told(c) ==
    /\ out[c] \in Seq(Frame)
    /\ \A i \in 1..Len(out[c]) : out[c][i].num = i - 1
    /\ IsPrefix(SamplesOf(out[c]), Input(c))
    /\ result[c] = "ok" => SamplesOf(out[c]) = Input(c) /\ header[c] = TrueHeader(c)
    /\ pc[c] \in {"get", "init"} => out[c] = <<>> /\ rest[c] = <<>> /\ result[c] = "none"

\* While it encodes, the frames, the leftover and what Write has yet to encode are
\* its buffer, and the encoder's counters are those of its own frames.
Streaming(c) ==
    LET e == enc[held[c]] IN
    /\ e.w = c /\ header[c] = TrueHeader(c) /\ result[c] = "none"
    /\ e.frameNum = Len(out[c]) /\ e.total = Len(SamplesOf(out[c]))
    /\ e.closed <=> pc[c] \in {"flush", "finish"}
    /\ e.leftover \in Seq(Sample) /\ rest[c] \in Seq(Sample)
    /\ pc[c] \in {"write", "blocks", "finish"} => e.leftover = <<>>
    /\ pc[c] # "blocks" => rest[c] = <<>>
    /\ IF pc[c] = "write" THEN out[c] = <<>>
       ELSE (SamplesOf(out[c]) \o e.leftover) \o rest[c] = Input(c)

OfCallers ==
    /\ DOMAIN out = Callers /\ DOMAIN rest = Callers
    /\ DOMAIN header = Callers /\ DOMAIN result = Callers

DInv ==
    /\ OfCallers
    /\ \A c \in Callers : Told(c) /\ (pc[c] \in Encoding => Streaming(c))

\* A caller's buffer is a sequence of as many samples as its job has.
LEMMA InputType ==
    ASSUME IInv, NEW c \in Callers
    PROVE  Input(c) \in Seq(Sample) /\ Len(Input(c)) = job[c].n
<1>1. job[c].n \in Nat
  BY JobsAssumption DEF IInv, Typed, JobOK
<1>2. PICK n \in Nat : n = job[c].n
  BY <1>1
<1>3. PICK s : s = [i \in 1..n |-> <<c, i>>]
  OBVIOUS
<1>4. \A i \in 1..n : <<c, i>> \in Sample
  BY DEF Sample
<1>5. s \in [1..n -> Sample]
  BY <1>3, <1>4
<1>6. s \in Seq(Sample) /\ Len(s) = n
  BY <1>5
<1>7. Input(c) = s
  BY <1>2, <1>3 DEF Input
<1>8. QED
  BY <1>2, <1>6, <1>7

\* The samples of no frames.
LEMMA SamplesNone == SamplesOf(<<>>) = <<>>
<1>1. [i \in DOMAIN <<>> |-> <<>>[i].samples] = <<>>
  OBVIOUS
<1>2. QED
  BY <1>1, FlattenNone DEF SamplesOf

\* The samples of each frame.
LEMMA SamplesType ==
    ASSUME NEW fs \in Seq(Frame)
    PROVE  /\ [i \in DOMAIN fs |-> fs[i].samples] \in Seq(Seq(Sample))
           /\ Len([i \in DOMAIN fs |-> fs[i].samples]) = Len(fs)
<1>1. PICK n \in Nat : n = Len(fs)
  OBVIOUS
<1>2. DOMAIN fs = 1..n
  BY <1>1
<1>3. \A i \in 1..n : fs[i].samples \in Seq(Sample)
  <2>1. \A f \in Frame : f.samples \in Seq(Sample)
    BY DEF Frame
  <2>2. \A i \in 1..n : fs[i] \in Frame
    BY <1>1, ElementOfSeq
  <2>3. QED
    BY <2>1, <2>2
<1>4. PICK ss : ss = [i \in 1..n |-> fs[i].samples]
  OBVIOUS
<1>5. ss \in [1..n -> Seq(Sample)]
  BY <1>3, <1>4
<1>6. ss \in Seq(Seq(Sample)) /\ Len(ss) = n
  BY <1>5
<1>7. QED
  BY <1>1, <1>2, <1>4, <1>6

\* A further frame adds its samples.
LEMMA SamplesAppend ==
    ASSUME NEW fs \in Seq(Frame), NEW f \in Frame
    PROVE  /\ SamplesOf(fs) \in Seq(Sample)
           /\ SamplesOf(Append(fs, f)) = SamplesOf(fs) \o f.samples
<1> DEFINE ss == [i \in DOMAIN fs |-> fs[i].samples]
           tt == [i \in DOMAIN Append(fs, f) |-> Append(fs, f)[i].samples]
<1>1. ss \in Seq(Seq(Sample)) /\ Len(ss) = Len(fs)
  BY SamplesType
<1>2. f.samples \in Seq(Sample)
  BY DEF Frame
<1>3. tt \in Seq(Seq(Sample)) /\ Len(tt) = Len(fs) + 1
  <2>1. Append(fs, f) \in Seq(Frame) /\ Len(Append(fs, f)) = Len(fs) + 1
    OBVIOUS
  <2>2. QED
    BY <2>1, SamplesType
<1>4. \A i \in 1..Len(tt) : tt[i] = Append(ss, f.samples)[i]
  BY <1>1, <1>2, <1>3
<1>5. Append(ss, f.samples) \in Seq(Seq(Sample)) /\ Len(Append(ss, f.samples)) = Len(fs) + 1
  BY <1>1, <1>2
<1> HIDE DEF ss, tt
<1>6. tt = Append(ss, f.samples)
  BY <1>3, <1>4, <1>5, SeqEqual
<1>7. FlattenSeq(tt) = FlattenSeq(ss) \o f.samples /\ FlattenSeq(ss) \in Seq(Sample)
  BY <1>1, <1>2, <1>6, FlattenAppend, FlattenType
<1>8. QED
  BY <1>7 DEF SamplesOf, ss, tt

\* What a step of caller c leaves to the others.
Local(c) ==
    \A d \in Callers \ {c} :
        /\ pc'[d] = pc[d] /\ job'[d] = job[d] /\ held'[d] = held[d]
        /\ out'[d] = out[d] /\ rest'[d] = rest[d]
        /\ header'[d] = header[d] /\ result'[d] = result[d]
        /\ pc[d] \in Encoding => enc'[held[d]] = enc[held[d]]

\* So the others keep what they were told.
LEMMA LocalKeeps ==
    ASSUME DInv, OfCallers', NEW c \in Callers, Local(c), Told(c)',
           pc'[c] \in Encoding => Streaming(c)'
    PROVE  DInv'
<1>1. ASSUME NEW d \in Callers \ {c}
      PROVE  Told(d)' /\ (pc'[d] \in Encoding => Streaming(d)')
  <2>1. /\ pc'[d] = pc[d] /\ job'[d] = job[d] /\ held'[d] = held[d]
        /\ out'[d] = out[d] /\ rest'[d] = rest[d]
        /\ header'[d] = header[d] /\ result'[d] = result[d]
        /\ pc[d] \in Encoding => enc'[held[d]] = enc[held[d]]
    BY DEF Local
  <2>2. Told(d) /\ (pc[d] \in Encoding => Streaming(d))
    BY DEF DInv
  <2>3. Input(d)' = Input(d) /\ TrueHeader(d)' = TrueHeader(d)
    BY <2>1 DEF Input, TrueHeader
  <2>4. Told(d)'
    BY <2>1, <2>2, <2>3 DEF Told
  <2>5. ASSUME pc'[d] \in Encoding PROVE Streaming(d)'
    <3>1. Streaming(d) /\ enc'[held[d]] = enc[held[d]]
      BY <2>1, <2>2, <2>5
    <3>2. /\ pc'[d] = pc[d] /\ held'[d] = held[d] /\ out'[d] = out[d] /\ rest'[d] = rest[d]
          /\ header'[d] = header[d] /\ result'[d] = result[d]
      BY <2>1
    <3>3. PICK e, S : e = enc[held[d]] /\ S = SamplesOf(out[d])
      OBVIOUS
    <3>4. enc'[held'[d]] = e /\ SamplesOf(out'[d]) = S
      BY <3>1, <3>2, <3>3
    <3>5. /\ e.w = d /\ header[d] = TrueHeader(d) /\ result[d] = "none"
          /\ e.frameNum = Len(out[d]) /\ e.total = Len(S)
          /\ e.closed <=> pc[d] \in {"flush", "finish"}
      BY <3>1, <3>3 DEF Streaming
    <3>6. /\ e.leftover \in Seq(Sample) /\ rest[d] \in Seq(Sample)
          /\ pc[d] \in {"write", "blocks", "finish"} => e.leftover = <<>>
          /\ pc[d] # "blocks" => rest[d] = <<>>
          /\ IF pc[d] = "write" THEN out[d] = <<>>
             ELSE (S \o e.leftover) \o rest[d] = Input(d)
      BY <3>1, <3>3 DEF Streaming
    <3>7. QED
      BY <2>3, <3>2, <3>4, <3>5, <3>6 DEF Streaming
  <2>6. QED
    BY <2>4, <2>5
<1>2. QED
  BY <1>1 DEF DInv

\* Nobody else encodes with a caller's encoder.
LEMMA OwnEncoder ==
    ASSUME IInv, NEW c \in Callers, NEW d \in Callers, d # c, held[c] \in Encoders
    PROVE  held[d] # held[c]
BY PoolAssumption DEF IInv, Holding, PooledEncodersAreFree

\* A frame that a call's encoder emits goes to its own sink, next in number, and its
\* samples are the next of its buffer (Emit).
LEMMA EmitTold ==
    ASSUME IInv, DInv, NEW c \in Callers, pc[c] \in Encoding, job' = job, held' = held,
           NEW chunk \in Seq(Sample), NEW after \in Seq(Sample),
           (SamplesOf(out[c]) \o chunk) \o after = Input(c), Emit(held[c], chunk)
    PROVE  /\ out'[c] \in Seq(Frame)
           /\ \A i \in 1..Len(out'[c]) : out'[c][i].num = i - 1
           /\ SamplesOf(out'[c]) = SamplesOf(out[c]) \o chunk
           /\ IsPrefix(SamplesOf(out'[c]), Input(c))
           /\ enc'[held[c]].w = c /\ enc'[held[c]].leftover = <<>>
           /\ enc'[held[c]].frameNum = Len(out'[c])
           /\ enc'[held[c]].total = Len(SamplesOf(out'[c]))
           /\ enc'[held[c]].closed = enc[held[c]].closed
           /\ DOMAIN out' = Callers
           /\ \A d \in Callers \ {c} :
                  out'[d] = out[d] /\ (held[d] \in Encoders => enc'[held[d]] = enc[held[d]])
<1>1. Streaming(c) /\ Told(c) /\ OfCallers
  BY DEF DInv
<1>2. PICK e : e = held[c]
  OBVIOUS
<1>3. e \in Encoders /\ \A d \in Callers \ {c} : held[d] # e
  BY <1>2, CallHolds, OwnEncoder DEF Encoding
<1>4. /\ DOMAIN enc = Encoders /\ DOMAIN enc[e] = Fields /\ enc[e] = [x \in Fields |-> enc[e][x]]
  BY <1>3 DEF IInv, Typed, EncodersTyped
<1>5. PICK fs, S : fs = out[c] /\ S = SamplesOf(fs)
  OBVIOUS
<1>6. /\ fs \in Seq(Frame) /\ enc[e].w = c /\ enc[e].frameNum = Len(fs)
      /\ enc[e].total = Len(S)
  BY <1>1, <1>2, <1>5 DEF Told, Streaming
<1>7. PICK f : f = [num |-> enc[e].frameNum, samples |-> chunk]
  OBVIOUS
<1>8. f \in Frame /\ f.samples = chunk /\ f.num = Len(fs)
  BY <1>6, <1>7 DEF Frame
<1>9. /\ out' = [out EXCEPT ![c] = Append(@, f)]
      /\ enc' = [enc EXCEPT ![e].leftover = <<>>, ![e].frameNum = @ + 1,
                            ![e].total = @ + Len(chunk)]
  BY <1>2, <1>6, <1>7 DEF Emit
<1>10. out'[c] = Append(fs, f) /\ DOMAIN out' = Callers
       /\ \A d \in Callers \ {c} : out'[d] = out[d]
  BY <1>1, <1>5, <1>9 DEF OfCallers
<1>11. S \in Seq(Sample) /\ SamplesOf(out'[c]) = S \o chunk
  BY <1>5, <1>6, <1>8, <1>10, SamplesAppend
<1>12. Append(fs, f) \in Seq(Frame) /\ Len(Append(fs, f)) = Len(fs) + 1
  BY <1>6, <1>8
<1>13. \A i \in 1..Len(out'[c]) : out'[c][i].num = i - 1
  <2>1. TAKE i \in 1..Len(out'[c])
  <2>2. CASE i \in 1..Len(fs)
    <3>1. out'[c][i] = fs[i]
      BY <2>2, <1>6, <1>10
    <3>2. QED
      BY <3>1, <2>2, <1>1, <1>5 DEF Told
  <2>3. CASE i = Len(fs) + 1
    <3>1. out'[c][i] = f
      BY <2>3, <1>6, <1>10
    <3>2. QED
      BY <3>1, <2>3, <1>6, <1>8
  <2>4. QED
    BY <2>1, <2>2, <2>3, <1>6, <1>10, <1>12
<1>14. IsPrefix(S \o chunk, Input(c))
  <2>1. S \o chunk \in Seq(Sample) /\ (S \o chunk) \o after = Input(c)
    BY <1>5, <1>11
  <2>2. IsPrefix(S \o chunk, (S \o chunk) \o after)
    BY <2>1, PrefixOfConcat
  <2>3. QED
    BY <2>1, <2>2
<1>15. Len(S \o chunk) = Len(S) + Len(chunk)
  BY <1>11
<1>16. /\ enc'[e].w = c /\ enc'[e].leftover = <<>>
       /\ enc'[e].frameNum = Len(fs) + 1 /\ enc'[e].total = Len(S) + Len(chunk)
       /\ enc'[e].closed = enc[e].closed
       /\ \A d \in Encoders \ {e} : enc'[d] = enc[d]
  BY <1>3, <1>4, <1>6, <1>9 DEF Fields
<1>17. \A d \in Callers \ {c} : held[d] \in Encoders => enc'[held[d]] = enc[held[d]]
  BY <1>3, <1>16
<1>18. QED
  BY <1>2, <1>5, <1>10, <1>11, <1>12, <1>13, <1>14, <1>15, <1>16, <1>17

\* A buffer starts with nothing.
LEMMA NothingYet ==
    ASSUME NEW c \in Callers, NEW n \in Nat
    PROVE  IsPrefix(<<>>, [i \in 1..n |-> <<c, i>>])
<1>1. PICK s : s = [i \in 1..n |-> <<c, i>>]
  OBVIOUS
<1>2. \A i \in 1..n : <<c, i>> \in Sample
  BY DEF Sample
<1>3. s \in Seq(Sample)
  BY <1>1, <1>2
<1>4. <<>> \in Seq(Sample) /\ <<>> \o s = s
  BY <1>3
<1>5. IsPrefix(<<>>, <<>> \o s)
  BY <1>3, <1>4, PrefixOfConcat
<1>6. QED
  BY <1>1, <1>4, <1>5

\* Before the first call nothing has been emitted.
LEMMA NothingAtFirst == Init => DInv
<1> SUFFICES ASSUME Init PROVE DInv
  OBVIOUS
<1>1. OfCallers
  BY DEF Init, OfCallers
<1>2. ASSUME NEW c \in Callers PROVE Told(c) /\ pc[c] \notin Encoding
  <2>1. /\ out[c] = <<>> /\ rest[c] = <<>> /\ result[c] = "none" /\ pc[c] = "idle"
        /\ job[c].n \in Nat
    BY JobsAssumption DEF Init, JobOK
  <2>2. IsPrefix(SamplesOf(out[c]), Input(c))
    BY <2>1, SamplesNone, NothingYet DEF Input
  <2>3. out[c] \in Seq(Frame) /\ Len(out[c]) = 0
    BY <2>1
  <2>4. QED
    BY <2>1, <2>2, <2>3 DEF Told, Encoding
<1>3. QED
  BY <1>1, <1>2 DEF DInv

\* A call that fails leaves its sink as it is.
LEMMA FailTold ==
    ASSUME IInv, DInv, NEW c \in Callers, pc[c] # "idle", Returns(c, "failed"),
           UNCHANGED <<job, held, rest, header, out>>,
           \A d \in Callers \ {c} : pc[d] \in Encoding => enc'[held[d]] = enc[held[d]]
    PROVE  DInv'
<1>1. OfCallers /\ Told(c)
  BY DEF DInv
<1>2. /\ pc'[c] = "defer" /\ result'[c] = "failed" /\ DOMAIN result' = Callers
      /\ \A d \in Callers \ {c} : pc'[d] = pc[d] /\ result'[d] = result[d]
  BY <1>1 DEF Returns, Goto, IInv, Typed, OfCallers
<1>3. OfCallers'
  BY <1>1, <1>2 DEF OfCallers
<1>4. Local(c)
  BY <1>2 DEF Local
<1>5. Told(c)'
  BY <1>1, <1>2 DEF Told, Input, TrueHeader
<1>6. QED
  BY <1>2, <1>3, <1>4, <1>5, LocalKeeps DEF Encoding

\* A new call has a new sink (EncodeInterleaved).
LEMMA CallTold ==
    ASSUME IInv, DInv, NEW c \in Callers, NEW j \in Jobs, EncodeInterleaved(c, j)
    PROVE  DInv'
<1>1. OfCallers /\ j.n \in Nat
  BY JobsAssumption DEF DInv, JobOK
<1>2. /\ pc'[c] = "get" /\ job'[c] = j /\ out'[c] = <<>> /\ rest'[c] = <<>>
      /\ result'[c] = "none" /\ enc' = enc /\ held' = held
  BY <1>1 DEF EncodeInterleaved, Goto, IInv, Typed, OfCallers
<1>3. Local(c) /\ OfCallers'
  BY <1>1 DEF EncodeInterleaved, Goto, IInv, Typed, OfCallers, Local
<1>4. Told(c)'
  <2>1. IsPrefix(SamplesOf(out[c])', Input(c)')
    BY <1>1, <1>2, SamplesNone, NothingYet DEF Input
  <2>2. out'[c] \in Seq(Frame) /\ Len(out'[c]) = 0
    BY <1>2
  <2>3. QED
    BY <1>2, <2>1, <2>2 DEF Told
<1>5. QED
  BY <1>2, <1>3, <1>4, LocalKeeps DEF Encoding

\* The encoder a call draws is nobody else's (Get).
LEMMA GetTold == ASSUME IInv, DInv, NEW c \in Callers, Get(c) PROVE DInv'
<1>1. OfCallers /\ Told(c) /\ pc[c] = "get"
  BY DEF DInv, Get
<1>2. /\ pc'[c] = "init" /\ \A d \in Callers \ {c} : pc'[d] = pc[d] /\ held'[d] = held[d]
      /\ UNCHANGED <<job, rest, header, out, result>>
  BY DEF Get, Goto, IInv, Typed
<1>3. \A d \in Callers \ {c} : pc[d] \in Encoding => enc'[held[d]] = enc[held[d]]
  <2>1. TAKE d \in Callers \ {c}
  <2>2. CASE enc' = enc
    BY <2>2
  <2>3. CASE \E e \in Encoders : held[d] # e /\ enc' = [enc EXCEPT ![e] = Blank]
    <3>1. ASSUME pc[d] \in Encoding PROVE held[d] \in Encoders /\ DOMAIN enc = Encoders
      BY <3>1, CallHolds DEF Encoding, IInv, Typed, EncodersTyped
    <3>2. QED
      BY <2>3, <3>1
  <2>4. QED
    BY <2>2, <2>3 DEF Get
<1>4. Local(c) /\ OfCallers'
  BY <1>1, <1>2, <1>3 DEF Local, OfCallers
<1>5. Told(c)'
  BY <1>1, <1>2 DEF Told, Input, TrueHeader
<1>6. QED
  BY <1>2, <1>4, <1>5, LocalKeeps DEF Encoding

\* An encoder is bound to the sink with nothing left of its last stream (init).
LEMMA InitTold == ASSUME IInv, DInv, NEW c \in Callers, InitEncoder(c) PROVE DInv'
<1>1. OfCallers /\ Told(c) /\ pc[c] = "init"
  BY DEF DInv, InitEncoder
<1>2. PICK e : e = held[c]
  OBVIOUS
<1>3. e \in Encoders /\ \A d \in Callers \ {c} : held[d] # e
  BY <1>1, <1>2, CallHolds, OwnEncoder
<1>4. UNCHANGED <<job, held, rest, out>>
  BY DEF InitEncoder
<1>5. enc' = enc \/ enc' = [enc EXCEPT ![e] = Bound(@, c)]
  BY <1>2 DEF InitEncoder
<1>6. \A d \in Callers \ {c} : pc[d] \in Encoding => enc'[held[d]] = enc[held[d]]
  <2>1. \A d \in Callers \ {c} : pc[d] \in Encoding => held[d] \in Encoders
    BY CallHolds DEF Encoding
  <2>2. DOMAIN enc = Encoders
    BY DEF IInv, Typed, EncodersTyped
  <2>3. QED
    BY <1>3, <1>5, <2>1, <2>2
<1>7. CASE Returns(c, "failed") /\ UNCHANGED header
  BY <1>1, <1>4, <1>6, <1>7, FailTold
<1>8. CASE /\ enc' = [enc EXCEPT ![e] = Bound(@, c)]
           /\ header' = [header EXCEPT ![c] = TrueHeader(c)]
           /\ Goto(c, "write") /\ UNCHANGED result
  <2>1. /\ pc'[c] = "write" /\ header'[c] = TrueHeader(c) /\ DOMAIN header' = Callers
        /\ \A d \in Callers \ {c} : pc'[d] = pc[d] /\ header'[d] = header[d]
    BY <1>1, <1>8 DEF Goto, IInv, Typed, OfCallers
  <2>2. Local(c) /\ OfCallers'
    BY <1>1, <1>4, <1>6, <1>8, <2>1 DEF Local, OfCallers
  <2>3. Told(c)'
    BY <1>1, <1>4, <1>8, <2>1 DEF Told, Input, TrueHeader
  <2>4. /\ enc'[e].w = c /\ enc'[e].leftover = <<>> /\ enc'[e].frameNum = 0
        /\ enc'[e].total = 0 /\ enc'[e].closed = FALSE
    <3>1. DOMAIN enc = Encoders /\ DOMAIN enc[e] = Fields
      BY <1>3 DEF IInv, Typed, EncodersTyped
    <3>2. enc'[e] = Bound(enc[e], c)
      BY <1>3, <1>8, <3>1
    <3>3. QED
      BY <3>1, <3>2 DEF Bound, Fields
  <2>5. out'[c] = <<>> /\ rest'[c] = <<>> /\ result'[c] = "none" /\ held'[c] = e
    BY <1>1, <1>2, <1>4, <1>8 DEF Told
  <2>6. Len(out'[c]) = 0 /\ Len(SamplesOf(out'[c])) = 0 /\ <<>> \in Seq(Sample)
    BY <2>5, SamplesNone
  <2>7. header'[c] = TrueHeader(c)'
    BY <1>4, <2>1 DEF TrueHeader, Input
  <2>8. Streaming(c)'
    BY <2>1, <2>4, <2>5, <2>6, <2>7 DEF Streaming
  <2>9. QED
    BY <2>2, <2>3, <2>8, LocalKeeps
<1>9. QED
  BY <1>2, <1>7, <1>8 DEF InitEncoder, TrueHeader

\* What the changes of a call's own encoder leave to the others.
LEMMA OwnChange ==
    ASSUME IInv, NEW c \in Callers, held[c] \in Encoders, NEW v, enc' = [enc EXCEPT ![held[c]] = v]
    PROVE  /\ \A d \in Callers \ {c} : pc[d] \in Encoding => enc'[held[d]] = enc[held[d]]
           /\ enc'[held[c]] = v
<1>1. \A d \in Callers \ {c} : held[d] # held[c]
  BY OwnEncoder
<1>2. \A d \in Callers \ {c} : pc[d] \in Encoding => held[d] \in Encoders
  BY CallHolds DEF Encoding
<1>3. DOMAIN enc = Encoders
  BY DEF IInv, Typed, EncodersTyped
<1>4. QED
  BY <1>1, <1>2, <1>3

\* Write starts with the whole buffer.
LEMMA WriteTold == ASSUME IInv, DInv, NEW c \in Callers, Write(c) PROVE DInv'
<1>1. pc[c] = "write" /\ OfCallers /\ Told(c) /\ Streaming(c)
  BY DEF DInv, Write, Encoding
<1>2. ~enc[held[c]].closed
  BY <1>1 DEF Streaming
<1>3. /\ rest' = [rest EXCEPT ![c] = Input(c)] /\ pc' = [pc EXCEPT ![c] = "blocks"]
      /\ UNCHANGED <<result, enc, job, held, header, out>>
  BY <1>2 DEF Write, Goto
<1>4. /\ pc'[c] = "blocks" /\ rest'[c] = Input(c) /\ DOMAIN rest' = Callers
      /\ \A d \in Callers \ {c} : pc'[d] = pc[d] /\ rest'[d] = rest[d]
  BY <1>1, <1>3 DEF IInv, Typed, OfCallers
<1>5. Local(c) /\ OfCallers'
  BY <1>1, <1>3, <1>4 DEF Local, OfCallers
<1>6. Told(c)'
  BY <1>1, <1>3, <1>4 DEF Told, Input, TrueHeader
<1>7. (SamplesOf(out[c]) \o enc[held[c]].leftover) \o Input(c) = Input(c)
  <2>1. SamplesOf(out[c]) = <<>> /\ enc[held[c]].leftover = <<>>
    BY <1>1, SamplesNone DEF Streaming
  <2>2. <<>> \o <<>> = <<>> /\ <<>> \o Input(c) = Input(c)
    BY InputType
  <2>3. QED
    BY <2>1, <2>2
<1>8. Input(c)' = Input(c) /\ TrueHeader(c)' = TrueHeader(c)
  BY <1>3 DEF Input, TrueHeader
<1>9. Input(c) \in Seq(Sample)
  BY InputType
<1>10. Streaming(c)'
  BY <1>1, <1>3, <1>4, <1>7, <1>8, <1>9 DEF Streaming
<1>11. QED
  BY <1>5, <1>6, <1>10, LocalKeeps

\* A frame on the way moves samples from what is left to the sink.
LEMMA EmitStreams ==
    ASSUME IInv, DInv, NEW c \in Callers, pc[c] \in Encoding,
           NEW chunk \in Seq(Sample), NEW after \in Seq(Sample),
           (SamplesOf(out[c]) \o chunk) \o after = Input(c), Emit(held[c], chunk),
           UNCHANGED <<job, held, header, result>>,
           NEW l \in {"blocks", "finish"}, pc' = [pc EXCEPT ![c] = l],
           enc[held[c]].closed <=> l = "finish", l = "finish" => after = <<>>,
           rest'[c] = after, DOMAIN rest' = Callers,
           \A d \in Callers \ {c} : rest'[d] = rest[d]
    PROVE  DInv'
<1>1. OfCallers /\ Told(c) /\ Streaming(c)
  BY DEF DInv
<1>2. /\ out'[c] \in Seq(Frame)
      /\ \A i \in 1..Len(out'[c]) : out'[c][i].num = i - 1
      /\ SamplesOf(out'[c]) = SamplesOf(out[c]) \o chunk
      /\ IsPrefix(SamplesOf(out'[c]), Input(c))
      /\ enc'[held[c]].w = c /\ enc'[held[c]].leftover = <<>>
      /\ enc'[held[c]].frameNum = Len(out'[c])
      /\ enc'[held[c]].total = Len(SamplesOf(out'[c]))
      /\ enc'[held[c]].closed = enc[held[c]].closed
      /\ DOMAIN out' = Callers
      /\ \A d \in Callers \ {c} :
             out'[d] = out[d] /\ (held[d] \in Encoders => enc'[held[d]] = enc[held[d]])
  BY EmitTold
<1>3. pc'[c] = l /\ \A d \in Callers \ {c} : pc'[d] = pc[d]
  BY DEF IInv, Typed
<1>4. \A d \in Callers \ {c} : pc[d] \in Encoding => held[d] \in Encoders
  BY CallHolds DEF Encoding
<1>5. Local(c) /\ OfCallers'
  BY <1>1, <1>2, <1>3, <1>4 DEF Local, OfCallers
<1>6. Input(c)' = Input(c) /\ TrueHeader(c)' = TrueHeader(c)
  BY DEF Input, TrueHeader
<1>7. result'[c] = "none" /\ header'[c] = TrueHeader(c)
  BY <1>1 DEF Streaming
<1>8. Told(c)'
  BY <1>2, <1>3, <1>6, <1>7 DEF Told
<1>9. (SamplesOf(out'[c]) \o <<>>) \o rest'[c] = Input(c)
  <2>1. SamplesOf(out'[c]) \in Seq(Sample)
    <3>1. SamplesOf(out[c]) \in Seq(Sample)
      BY <1>1, SamplesType, FlattenType DEF Told, SamplesOf
    <3>2. QED
      BY <3>1, <1>2
  <2>2. SamplesOf(out'[c]) \o <<>> = SamplesOf(out'[c])
    BY <2>1
  <2>3. QED
    BY <2>2, <1>2, <1>3
<1>10. Streaming(c)'
  BY <1>2, <1>3, <1>6, <1>7, <1>9, EmptySeq DEF Streaming
<1>11. QED
  BY <1>5, <1>8, <1>10, LocalKeeps

\* Write's next block is the next of the buffer.
LEMMA BlockTold == ASSUME IInv, DInv, NEW c \in Callers, WriteBlock(c) PROVE DInv'
<1>1. pc[c] = "blocks" /\ OfCallers /\ Told(c) /\ Streaming(c)
  BY DEF DInv, WriteBlock, Encoding
<1>2. UNCHANGED <<job, held, header>>
  BY DEF WriteBlock
<1>3. CASE Returns(c, "failed") /\ UNCHANGED <<enc, out, rest>>
  BY <1>1, <1>2, <1>3, FailTold
<1>4. enc[held[c]].leftover = <<>> /\ rest[c] \in Seq(Sample) /\ Len(<<>>) = 0
  BY <1>1 DEF Streaming
<1>5. PICK need : need = BlockSize - Len(enc[held[c]].leftover)
  OBVIOUS
<1>6. need \in Nat /\ need = BlockSize
  BY <1>4, <1>5, PoolAssumption
<1>7. CASE /\ Emit(held[c], enc[held[c]].leftover \o Take(rest[c], need))
           /\ rest' = [rest EXCEPT ![c] = Drop(@, need)]
           /\ UNCHANGED <<pc, result>>
  <2>1. need \in 0..Len(rest[c])
    <3>1. Len(rest[c]) >= need /\ Len(rest[c]) \in Nat
      BY <1>4, <1>5 DEF WriteBlock
    <3>2. QED
      BY <3>1, <1>6
  <2>2. PICK chunk, after : chunk = Take(rest[c], need) /\ after = Drop(rest[c], need)
    OBVIOUS
  <2>3. chunk \in Seq(Sample) /\ after \in Seq(Sample) /\ chunk \o after = rest[c]
    BY <2>1, <2>2, <1>4, CutInTwo DEF Take, Drop
  <2>4. Emit(held[c], chunk)
    <3>1. <<>> \o chunk = chunk
      BY <2>3
    <3>2. QED
      BY <3>1, <2>2, <1>4, <1>7
  <2>5. PICK S : S = SamplesOf(out[c])
    OBVIOUS
  <2>6. S \in Seq(Sample)
    BY <2>5, <1>1, SamplesType, FlattenType DEF Told, SamplesOf
  <2>7. (S \o <<>>) \o rest[c] = Input(c)
    BY <1>1, <1>4, <2>5 DEF Streaming
  <2>8. S \o <<>> = S /\ (S \o chunk) \o after = S \o (chunk \o after)
    <3>1. S \o <<>> = S
      BY <2>6
    <3>2. (S \o chunk) \o after = S \o (chunk \o after)
      <4>1. chunk \in Seq(Sample) /\ after \in Seq(Sample)
        BY <2>3
      <4>2. QED
        BY <4>1, <2>6, ConcatAssociative
    <3>3. QED
      BY <3>1, <3>2
  <2>9. (S \o chunk) \o after = Input(c)
    BY <2>3, <2>7, <2>8
  <2>10. /\ rest'[c] = after /\ DOMAIN rest' = Callers
         /\ \A d \in Callers \ {c} : rest'[d] = rest[d]
    BY <1>1, <1>7, <2>2 DEF OfCallers
  <2>11. pc' = [pc EXCEPT ![c] = "blocks"]
    BY <1>1, <1>7 DEF IInv, Typed
  <2>12. ~enc[held[c]].closed
    BY <1>1 DEF Streaming
  <2>13. QED
    BY <1>1, <1>2, <1>7, <2>3, <2>4, <2>5, <2>9, <2>10, <2>11, <2>12, EmitStreams DEF Encoding
<1>8. QED
  BY <1>3, <1>5, <1>7 DEF WriteBlock

\* What makes no block is left over (Write).
LEMMA StashTold == ASSUME IInv, DInv, NEW c \in Callers, WriteStash(c) PROVE DInv'
<1>1. pc[c] = "blocks" /\ OfCallers /\ Told(c) /\ Streaming(c)
  BY DEF DInv, WriteStash, Encoding
<1>2. PICK e : e = held[c]
  OBVIOUS
<1>3. e \in Encoders /\ DOMAIN enc = Encoders /\ DOMAIN enc[e] = Fields
  BY <1>1, <1>2, CallHolds DEF IInv, Typed, EncodersTyped
<1>4. enc[e].leftover = <<>> /\ rest[c] \in Seq(Sample)
  BY <1>1, <1>2 DEF Streaming
<1>5. <<>> \o rest[c] = rest[c]
  BY <1>4
<1>6. PICK v : v = [enc[e] EXCEPT !.leftover = rest[c]]
  OBVIOUS
<1>7. /\ enc' = [enc EXCEPT ![e] = v] /\ rest' = [rest EXCEPT ![c] = <<>>]
      /\ pc' = [pc EXCEPT ![c] = "close"] /\ UNCHANGED <<job, held, header, out, result>>
  BY <1>2, <1>3, <1>4, <1>5, <1>6 DEF WriteStash, Goto
<1>8. /\ pc'[c] = "close" /\ rest'[c] = <<>> /\ DOMAIN rest' = Callers
      /\ \A d \in Callers \ {c} : pc'[d] = pc[d] /\ rest'[d] = rest[d]
  BY <1>1, <1>7 DEF IInv, Typed, OfCallers
<1>9. /\ \A d \in Callers \ {c} : pc[d] \in Encoding => enc'[held[d]] = enc[held[d]]
      /\ enc'[e] = v
  BY <1>2, <1>3, <1>7, OwnChange
<1>10. Local(c) /\ OfCallers'
  BY <1>1, <1>7, <1>8, <1>9 DEF Local, OfCallers
<1>11. Told(c)'
  BY <1>1, <1>7, <1>8 DEF Told, Input, TrueHeader
<1>12. /\ v.w = enc[e].w /\ v.leftover = rest[c] /\ v.frameNum = enc[e].frameNum
       /\ v.total = enc[e].total /\ v.closed = enc[e].closed
  BY <1>3, <1>6 DEF Fields
<1>13. (SamplesOf(out[c]) \o rest[c]) \o <<>> = Input(c)
  <2>1. SamplesOf(out[c]) \in Seq(Sample)
    BY <1>1, SamplesType, FlattenType DEF Told, SamplesOf
  <2>2. PICK S, t : S = SamplesOf(out[c]) /\ t = rest[c]
    OBVIOUS
  <2>3. S \in Seq(Sample) /\ t \in Seq(Sample)
    BY <2>1, <2>2, <1>4
  <2>4. S \o <<>> = S /\ (S \o t) \o <<>> = S \o t
    BY <2>3
  <2>5. (S \o <<>>) \o t = Input(c)
    BY <1>1, <1>2, <1>4, <2>2 DEF Streaming
  <2>6. QED
    BY <2>2, <2>4, <2>5
<1>14. Input(c)' = Input(c) /\ TrueHeader(c)' = TrueHeader(c)
  BY <1>7 DEF Input, TrueHeader
<1>15. Streaming(c)'
  <2>1. /\ enc[e].w = c /\ header[c] = TrueHeader(c) /\ result[c] = "none" /\ ~enc[e].closed
        /\ enc[e].frameNum = Len(out[c]) /\ enc[e].total = Len(SamplesOf(out[c]))
    BY <1>1, <1>2 DEF Streaming
  <2>2. /\ held'[c] = e /\ header'[c] = TrueHeader(c)' /\ result'[c] = "none"
        /\ out'[c] = out[c] /\ enc'[e].leftover = rest[c] /\ ~enc'[e].closed
        /\ enc'[e].w = c /\ enc'[e].frameNum = Len(out'[c])
        /\ enc'[e].total = Len(SamplesOf(out'[c]))
    BY <2>1, <1>2, <1>7, <1>9, <1>12, <1>14
  <2>3. (SamplesOf(out'[c]) \o enc'[e].leftover) \o rest'[c] = Input(c)'
    BY <2>2, <1>8, <1>13, <1>14
  <2>4. QED
    BY <2>2, <2>3, <1>4, <1>8, EmptySeq DEF Streaming
<1>16. QED
  BY <1>10, <1>11, <1>15, LocalKeeps

\* Close marks the encoder closed, which it was not.
LEMMA CloseTold == ASSUME IInv, DInv, NEW c \in Callers, Close(c) PROVE DInv'
<1>1. pc[c] = "close" /\ OfCallers /\ Told(c) /\ Streaming(c)
  BY DEF DInv, Close, Encoding
<1>2. PICK e : e = held[c]
  OBVIOUS
<1>3. e \in Encoders /\ DOMAIN enc = Encoders /\ DOMAIN enc[e] = Fields
  BY <1>1, <1>2, CallHolds DEF IInv, Typed, EncodersTyped
<1>4. ~enc[e].closed
  BY <1>1, <1>2 DEF Streaming
<1>5. PICK v, l : /\ v = [enc[e] EXCEPT !.closed = TRUE]
                  /\ l = IF enc[e].leftover # <<>> THEN "flush" ELSE "finish"
  OBVIOUS
<1>6. /\ enc' = [enc EXCEPT ![e] = v] /\ pc' = [pc EXCEPT ![c] = l]
      /\ UNCHANGED <<job, held, rest, header, out, result>>
  BY <1>2, <1>3, <1>4, <1>5 DEF Close, Goto
<1>7. pc'[c] = l /\ \A d \in Callers \ {c} : pc'[d] = pc[d]
  BY <1>6 DEF IInv, Typed
<1>8. /\ \A d \in Callers \ {c} : pc[d] \in Encoding => enc'[held[d]] = enc[held[d]]
      /\ enc'[e] = v
  BY <1>2, <1>3, <1>6, OwnChange
<1>9. Local(c) /\ OfCallers'
  BY <1>1, <1>6, <1>7, <1>8 DEF Local, OfCallers
<1>10. Told(c)'
  BY <1>1, <1>5, <1>6, <1>7 DEF Told, Input, TrueHeader
<1>11. /\ v.w = enc[e].w /\ v.leftover = enc[e].leftover /\ v.frameNum = enc[e].frameNum
       /\ v.total = enc[e].total /\ v.closed
  BY <1>3, <1>5 DEF Fields
<1>12. Input(c)' = Input(c) /\ TrueHeader(c)' = TrueHeader(c)
  BY <1>6 DEF Input, TrueHeader
<1>13. Streaming(c)'
  <2>1. /\ enc[e].w = c /\ header[c] = TrueHeader(c) /\ result[c] = "none"
        /\ enc[e].frameNum = Len(out[c]) /\ enc[e].total = Len(SamplesOf(out[c]))
        /\ enc[e].leftover \in Seq(Sample) /\ rest[c] = <<>> /\ rest[c] \in Seq(Sample)
        /\ (SamplesOf(out[c]) \o enc[e].leftover) \o rest[c] = Input(c)
    BY <1>1, <1>2 DEF Streaming
  <2>2. /\ held'[c] = e /\ header'[c] = TrueHeader(c)' /\ result'[c] = "none"
        /\ out'[c] = out[c] /\ rest'[c] = rest[c] /\ enc'[e].closed
        /\ enc'[e].w = c /\ enc'[e].frameNum = Len(out'[c])
        /\ enc'[e].total = Len(SamplesOf(out'[c])) /\ enc'[e].leftover = enc[e].leftover
    BY <2>1, <1>2, <1>6, <1>8, <1>11, <1>12
  <2>3. pc'[c] \in {"flush", "finish"} /\ (pc'[c] = "finish" => enc'[e].leftover = <<>>)
    BY <2>2, <1>5, <1>7
  <2>4. (SamplesOf(out'[c]) \o enc'[e].leftover) \o rest'[c] = Input(c)'
    BY <2>1, <2>2, <1>12
  <2>5. QED
    BY <2>1, <2>2, <2>3, <2>4 DEF Streaming
<1>14. QED
  BY <1>9, <1>10, <1>13, LocalKeeps

\* Close flushes the leftover, the last of the buffer.
LEMMA FlushTold == ASSUME IInv, DInv, NEW c \in Callers, Flush(c) PROVE DInv'
<1>1. pc[c] = "flush" /\ OfCallers /\ Told(c) /\ Streaming(c)
  BY DEF DInv, Flush, Encoding
<1>2. UNCHANGED <<job, held, rest, header>>
  BY DEF Flush
<1>3. CASE Returns(c, "failed") /\ UNCHANGED <<enc, out>>
  BY <1>1, <1>2, <1>3, FailTold
<1>4. CASE Emit(held[c], enc[held[c]].leftover) /\ Goto(c, "finish") /\ UNCHANGED result
  <2>1. /\ enc[held[c]].leftover \in Seq(Sample) /\ rest[c] = <<>> /\ enc[held[c]].closed
        /\ (SamplesOf(out[c]) \o enc[held[c]].leftover) \o <<>> = Input(c)
    BY <1>1 DEF Streaming
  <2>2. /\ rest'[c] = <<>> /\ DOMAIN rest' = Callers
        /\ \A d \in Callers \ {c} : rest'[d] = rest[d]
    BY <1>1, <1>2, <2>1 DEF OfCallers
  <2>3. QED
    BY <1>1, <1>2, <1>4, <2>1, <2>2, EmptySeq, EmitStreams DEF Goto, Encoding
<1>5. QED
  BY <1>3, <1>4 DEF Flush

\* Close returns nil with all of the buffer in the sink.
LEMMA FinishTold == ASSUME IInv, DInv, NEW c \in Callers, Finish(c) PROVE DInv'
<1>1. pc[c] = "finish" /\ OfCallers /\ Told(c) /\ Streaming(c)
  BY DEF DInv, Finish, Encoding
<1>2. UNCHANGED <<enc, job, held, rest, header, out>>
  BY DEF Finish
<1>3. CASE Returns(c, "failed")
  BY <1>1, <1>2, <1>3, FailTold
<1>4. CASE Returns(c, "ok")
  <2>1. /\ pc'[c] = "defer" /\ result'[c] = "ok" /\ DOMAIN result' = Callers
        /\ \A d \in Callers \ {c} : pc'[d] = pc[d] /\ result'[d] = result[d]
    BY <1>1, <1>4 DEF Returns, Goto, IInv, Typed, OfCallers
  <2>2. Local(c) /\ OfCallers'
    BY <1>1, <1>2, <2>1 DEF Local, OfCallers
  <2>3. SamplesOf(out[c]) = Input(c)
    <3>1. SamplesOf(out[c]) \in Seq(Sample)
      BY <1>1, SamplesType, FlattenType DEF Told, SamplesOf
    <3>2. SamplesOf(out[c]) \o <<>> = SamplesOf(out[c])
      BY <3>1
    <3>3. (SamplesOf(out[c]) \o <<>>) \o <<>> = Input(c)
      BY <1>1 DEF Streaming
    <3>4. QED
      BY <3>2, <3>3
  <2>4. header[c] = TrueHeader(c)
    BY <1>1 DEF Streaming
  <2>5. Told(c)'
    BY <1>1, <1>2, <2>1, <2>3, <2>4 DEF Told, Input, TrueHeader
  <2>6. QED
    BY <2>1, <2>2, <2>5, LocalKeeps DEF Encoding
<1>5. QED
  BY <1>3, <1>4 DEF Finish

\* The deferred function takes nothing back.
LEMMA ReleaseTold == ASSUME IInv, DInv, NEW c \in Callers, Release(c) PROVE DInv'
<1>1. /\ pc[c] = "defer" /\ OfCallers /\ Told(c)
      /\ UNCHANGED <<job, rest, header, out, result>>
  BY DEF DInv, Release
<1>2. /\ pc'[c] = "idle"
      /\ \A d \in Callers \ {c} : pc'[d] = pc[d] /\ held'[d] = held[d]
  BY DEF Release, Goto, IInv, Typed
<1>3. \A d \in Callers \ {c} : pc[d] \in Encoding => enc'[held[d]] = enc[held[d]]
  <2>1. held[c] \in Encoders
    BY <1>1, CallHolds
  <2>2. enc' = [enc EXCEPT ![held[c]] = Deferred(enc[held[c]])]
    BY DEF Release
  <2>3. QED
    BY <2>1, <2>2, OwnChange
<1>4. Local(c) /\ OfCallers'
  BY <1>1, <1>2, <1>3 DEF Local, OfCallers
<1>5. Told(c)'
  BY <1>1, <1>2 DEF Told, Input, TrueHeader
<1>6. QED
  BY <1>2, <1>4, <1>5, LocalKeeps DEF Encoding

\* Every step of every call keeps what the sinks have in order.
LEMMA DeliveryKept == IInv /\ DInv /\ [Next]_vars => DInv'
<1> SUFFICES ASSUME IInv, DInv, [Next]_vars PROVE DInv'
  OBVIOUS
<1>1. CASE UNCHANGED vars \/ Drops
  <2>1. UNCHANGED <<enc, pc, job, held, rest, header, out, result>>
    BY <1>1 DEF vars, Drops
  <2>2. \A c \in Callers : Input(c)' = Input(c) /\ TrueHeader(c)' = TrueHeader(c)
    BY <2>1 DEF Input, TrueHeader
  <2>3. ASSUME NEW c \in Callers PROVE Told(c)' /\ (pc'[c] \in Encoding => Streaming(c)')
    <3>1. Told(c)'
      BY <2>1, <2>2 DEF DInv, Told
    <3>2. ASSUME pc'[c] \in Encoding PROVE Streaming(c)'
      <4>1. Streaming(c)
        BY <2>1, <3>2 DEF DInv
      <4>2. /\ pc'[c] = pc[c] /\ held'[c] = held[c] /\ out'[c] = out[c] /\ rest'[c] = rest[c]
            /\ header'[c] = header[c] /\ result'[c] = result[c]
            /\ enc'[held[c]] = enc[held[c]]
        BY <2>1
      <4>3. QED
        BY <2>2, <4>1, <4>2 DEF Streaming
    <3>3. QED
      BY <3>1, <3>2
  <2>4. OfCallers'
    BY <2>1 DEF DInv, OfCallers
  <2>5. QED
    BY <2>3, <2>4 DEF DInv
<1>2. ASSUME NEW c \in Callers,
             \/ \E j \in Jobs : EncodeInterleaved(c, j)
             \/ Get(c) \/ InitEncoder(c) \/ Write(c) \/ WriteBlock(c) \/ WriteStash(c)
             \/ Close(c) \/ Flush(c) \/ Finish(c) \/ Release(c)
      PROVE  DInv'
  BY <1>2, CallTold, GetTold, InitTold, WriteTold, BlockTold, StashTold, CloseTold,
     FlushTold, FinishTold, ReleaseTold
<1>3. QED
  BY <1>1, <1>2 DEF Next

\* However calls on shared encoders interleave and fail, a sink gets its own call's
\* buffer in order, and all of it when the call returns nil (EncodeInterleaved).
THEOREM SinksAreApart == Spec => []SinkGetsItsOwnAudio
<1>1. Spec => []IInv
  BY Initially, Inductive, PTL DEF Spec
<1>2. Spec => []DInv
  BY <1>1, NothingAtFirst, DeliveryKept, PTL DEF Spec
<1>3. DInv => SinkGetsItsOwnAudio
  <2> SUFFICES ASSUME DInv, NEW c \in Callers
               PROVE  /\ \A i \in DOMAIN out[c] : out[c][i].num = i - 1
                      /\ IsPrefix(SamplesOf(out[c]), Input(c))
                      /\ result[c] = "ok" =>
                             /\ SamplesOf(out[c]) = Input(c)
                             /\ header[c] = [total |-> job[c].n, md5 |-> Input(c)]
    BY DEF SinkGetsItsOwnAudio
  <2>1. Told(c)
    BY DEF DInv
  <2>2. DOMAIN out[c] = 1..Len(out[c])
    BY <2>1 DEF Told
  <2>3. QED
    BY <2>1, <2>2 DEF Told, TrueHeader
<1>4. QED
  BY <1>2, <1>3, PTL
=============================================================================

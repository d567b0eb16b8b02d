---------------------------- MODULE Fx5ApiProofs ----------------------------
(***************************************************************************)
(* Proofs about the context pool and its public calls, for every pool      *)
(* size, every set of callers, every value store and any arguments.        *)
(***************************************************************************)
EXTENDS Fx5Api, Fx5FrameProofs

Fields == {"in_use", "settings", "next_serial", "serial", "device", "command",
           "address", "count", "code", "values", "rx"}

\* A context whose value count the value store can hold; before the first
\* request of its life it has no device and counts nothing.
Sound(c) ==
  /\ c = [f \in Fields |-> c[f]]
  /\ c.in_use \in BOOLEAN
  /\ c.count \in Nat
  /\ c.device \in Devices => c.count <= MaxCount(c.device)
  /\ c.device \notin Devices => c.count = 0

\* What every call does to a context: it stays sound and in the same hands.
Keeps(c, d) == Sound(d) /\ d.in_use = c.in_use

\* What every call but fx5_set_request does: the count does not grow either.
KeepsCount(c, d) == Keeps(c, d) /\ d.count \in {0, c.count}

\* The inductive invariant: handles point into the pool, contexts are sound,
\* and each context in use has one owner.
IInv ==
  /\ handle \in [Callers -> PoolSlots \cup {NULL}]
  /\ pool = [k \in PoolSlots |-> pool[k]]
  /\ \A k \in PoolSlots : Sound(pool[k])
  /\ OneOwner

-----------------------------------------------------------------------------
\* The value store holds a natural number of values, whatever the device.
LEMMA StoreNotEmpty ==
  ASSUME NEW dev
  PROVE  MaxCount(dev) \in Nat /\ 0 <= MaxCount(dev)
  BY ContextAssumption DEF MaxCount, MaxBitValueCount, BitsPerWord

\* One lemma per call on a context: what it gives keeps a sound context, and a
\* call that fails gives the context it took.

LEMMA ResetKeeps ==
  ASSUME NEW c, Sound(c)
  PROVE  KeepsCount(c, ResetContext(c))
  <1> DEFINE d == ResetContext(c)
  <1>1. d = [f \in Fields |-> d[f]] /\ d.in_use = c.in_use /\ d.count = 0 /\ d.device = "D"
    BY DEF Sound, ResetContext, Fields
  <1>2. 0 <= MaxCount("D") /\ "D" \in Devices
    BY StoreNotEmpty DEF Devices, WordDevices
  <1> HIDE DEF d
  <1>3. KeepsCount(c, d)
    BY <1>1, <1>2 DEF Sound, Keeps, KeepsCount
  <1>4. QED  BY <1>3 DEF d

LEMMA SettingsKeep ==
  ASSUME NEW c, Sound(c), NEW r, NEW s,
         \/ r = SetNetworkSettings(c, s)
         \/ r = SetHeaderMode(c, s)
         \/ r = SetMonitoringTimer(c, s)
  PROVE  KeepsCount(c, r.ctx) /\ (r.st # "OK" => r.ctx = c)
  BY DEF Sound, Keeps, KeepsCount, SetNetworkSettings, SetHeaderMode, SetMonitoringTimer, Ok, Fail, Fields

LEMMA SetRequestKeeps ==
  ASSUME NEW c, Sound(c), NEW cmd, NEW dev, NEW addr, NEW n \in Nat
  PROVE  LET r == SetRequest(c, cmd, dev, addr, n)
         IN  Keeps(c, r.ctx) /\ (r.st # "OK" => r.ctx = c)
  <1>1. CASE SetRequestStatus(cmd, dev, addr, n) # "OK"
    BY <1>1 DEF SetRequest, Keeps, Fail
  <1>2. CASE SetRequestStatus(cmd, dev, addr, n) = "OK"
    <2>1. dev \in Devices /\ ~(n > MaxCount(dev))
      BY <1>2 DEF SetRequestStatus
    <2>2. n <= MaxCount(dev)
      BY <2>1, ContextAssumption DEF MaxCount, MaxBitValueCount, BitsPerWord
    <2>3. QED
      BY <1>2, <2>1, <2>2 DEF SetRequest, Sound, Keeps, Ok, Fields
  <1>3. QED  BY <1>1, <1>2

LEMMA SetWriteValueKeeps ==
  ASSUME NEW c, Sound(c), NEW i, NEW v
  PROVE  LET r == SetWriteValue(c, i, v)
         IN  KeepsCount(c, r.ctx) /\ (r.st # "OK" => r.ctx = c)
  BY DEF SetWriteValue, Sound, Keeps, KeepsCount, Ok, Fail, Fields

LEMMA StampKeeps ==
  ASSUME NEW c, Sound(c)
  PROVE  KeepsCount(c, Stamp(c))
  BY DEF Stamp, Sound, Keeps, KeepsCount, Fields

LEMMA BuildKeeps ==
  ASSUME NEW c, Sound(c), NEW size
  PROVE  LET r == BuildRequest(c, size)
         IN  KeepsCount(c, r.ctx) /\ (r.st # "OK" => r.ctx = c)
  BY StampKeeps DEF BuildRequest, Keeps, KeepsCount, Ok, Fail

LEMMA FeedKeeps ==
  ASSUME NEW c, Sound(c), NEW bytes
  PROVE  LET r == FeedResponseBytes(c, bytes)
         IN  KeepsCount(c, r.ctx) /\ (r.st # "OK" => r.ctx = c)
  BY DEF FeedResponseBytes, Sound, Keeps, KeepsCount, Ok, Fail, Fields

\* Parsing changes the buffer, the response code, the values, and the count
\* only to 0; none of the frames it can meet makes the count grow.
LEMMA PduKeeps ==
  ASSUME NEW c, Sound(c), NEW size
  PROVE  KeepsCount(c, ParsePdu(c, size).ctx)
  <1> DEFINE body  == After(c.rx, PduHeaderSize)
             coded == [c EXCEPT !.code = WordAt(c.rx, 0), !.rx = body]
             taken == [coded EXCEPT !.rx = After(body, size - PduHeaderSize)]
             kept  == ReadValues(c, body)
  <1>1. KeepsCount(c, coded)
    BY DEF Sound, Keeps, KeepsCount, Fields
  <1>2. KeepsCount(c, taken)
    BY <1>1 DEF Sound, Keeps, KeepsCount, Fields
  <1>3. KeepsCount(c, [taken EXCEPT !.count = 0])
    <2> DEFINE d == [taken EXCEPT !.count = 0]
    <2>1. 0 <= MaxCount(taken.device)
      BY StoreNotEmpty
    <2> HIDE DEF taken
    <2>2. /\ d = [f \in Fields |-> d[f]] /\ d.in_use = c.in_use
          /\ d.count = 0 /\ d.device = taken.device
      BY <1>2 DEF Sound, Keeps, KeepsCount, Fields
    <2> HIDE DEF d
    <2>3. KeepsCount(c, d)
      BY <1>2, <2>1, <2>2 DEF Sound, Keeps, KeepsCount
    <2>4. QED  BY <2>3 DEF d
  <1>4. KeepsCount(c, [taken EXCEPT !.values = kept])
    <2> HIDE DEF taken, kept
    <2>1. QED
      BY <1>2 DEF Sound, Keeps, KeepsCount, Fields
  <1>5. ParsePdu(c, size).ctx \in {coded, taken, [taken EXCEPT !.count = 0],
                                   [taken EXCEPT !.values = kept]}
    BY DEF ParsePdu, Ok, Fail
  <1>6. QED
    <2> HIDE DEF coded, taken, kept
    <2>1. QED  BY <1>1, <1>2, <1>3, <1>4, <1>5

LEMMA ParseKeeps ==
  ASSUME NEW c, Sound(c)
  PROVE  KeepsCount(c, ParseResponse(c).ctx)
  <1> DEFINE p      == StopAt(c.rx, c.serial)
             rest   == [c EXCEPT !.rx = After(@, p)]
             opened == [c EXCEPT !.rx = After(@, p + HeaderSize(HeaderAt(@, p)))]
  <1>1. KeepsCount(c, rest)
    BY DEF Sound, Keeps, KeepsCount, Fields
  <1>2. KeepsCount(c, opened)
    BY DEF Sound, Keeps, KeepsCount, Fields
  <1>3. KeepsCount(c, ParsePdu(opened, PacketSize(c.rx, p)).ctx)
    <2> HIDE DEF opened
    <2>1. QED  BY <1>2, PduKeeps DEF Keeps, KeepsCount
  <1>4. ParseResponse(c).ctx \in {rest, ParsePdu(opened, PacketSize(c.rx, p)).ctx}
    BY DEF ParseResponse, ParseAt, Fail
  <1>5. QED
    <2> HIDE DEF rest, opened, p
    <2>1. QED  BY <1>1, <1>3, <1>4

-----------------------------------------------------------------------------
\* What the calls need to know of who owns what.

\* A handle that is not null names a slot of the pool that is in use.
LEMMA HandleInUse ==
  ASSUME IInv, NEW t \in Callers, handle[t] # NULL
  PROVE  handle[t] \in PoolSlots /\ Sound(Ctx(t)) /\ Ctx(t).in_use
  BY DEF IInv, OneOwner, Ctx

\* A call that replaces the caller's context with one it keeps, or changes
\* nothing, keeps the invariant.
LEMMA KeptByUpdate ==
  ASSUME IInv, handle' = handle,
         \/ pool' = pool
         \/ \E d : \E k \in PoolSlots : /\ pool' = [pool EXCEPT ![k] = d]
                                         /\ Keeps(pool[k], d)
  PROVE  IInv'
  <1>1. CASE pool' = pool
    BY <1>1 DEF IInv, OneOwner
  <1>2. CASE \E d : \E k \in PoolSlots : pool' = [pool EXCEPT ![k] = d] /\ Keeps(pool[k], d)
    <2>0. PICK d : \E k \in PoolSlots : pool' = [pool EXCEPT ![k] = d] /\ Keeps(pool[k], d)
      BY <1>2
    <2>1. PICK k \in PoolSlots : pool' = [pool EXCEPT ![k] = d] /\ Keeps(pool[k], d)
      BY <2>0
    <2>2. pool' = [j \in PoolSlots |-> IF j = k THEN d ELSE pool[j]]
      BY <2>1 DEF IInv
    <2>3. \A j \in PoolSlots : Sound(pool'[j]) /\ pool'[j].in_use = pool[j].in_use
      BY <2>1, <2>2 DEF IInv, Keeps
    <2>4. OneOwner'
      BY <2>3 DEF IInv, OneOwner
    <2>5. QED  BY <2>2, <2>3, <2>4 DEF IInv
  <1>3. QED  BY <1>1, <1>2

\* Every call that goes through fx5_require_acquired.
LEMMA KeptByCall ==
  ASSUME IInv, NEW t \in Callers, NEW op, NEW r,
         handle[t] # NULL => Keeps(Ctx(t), r.ctx),
         Call(op, t, r)
  PROVE  IInv'
  <1>1. handle' = handle
    BY DEF Call
  <1>2. CASE pool' = pool
    BY <1>1, <1>2, KeptByUpdate
  <1>3. CASE handle[t] # NULL /\ pool' = [pool EXCEPT ![handle[t]] = r.ctx]
    <2>1. handle[t] \in PoolSlots
      BY <1>3, HandleInUse
    <2>2. Keeps(pool[handle[t]], r.ctx)
      BY <1>3 DEF Ctx
    <2>3. QED  BY <1>1, <1>3, <2>1, <2>2, KeptByUpdate
  <1>4. QED  BY <1>2, <1>3 DEF Call

-----------------------------------------------------------------------------
\* The pool starts zeroed, with every slot free.
LEMMA Initially == Init => IInv
  <1> SUFFICES ASSUME Init PROVE IInv
    OBVIOUS
  <1>1. Sound(ZeroContext) /\ ~ZeroContext.in_use
    BY DEF Sound, ZeroContext, Fields, Devices, WordDevices, BitDevices
  <1>2. OneOwner
    BY <1>1, ApiAssumption DEF Init, OneOwner, PoolSlots
  <1>3. QED  BY <1>1, <1>2 DEF Init, IInv

\* fx5_acquire marks a free slot and nobody else's handle names it.
LEMMA KeptByAcquire ==
  ASSUME IInv, NEW t \in Callers, Acquire(t)
  PROVE  IInv'
  <1>1. CASE UNCHANGED <<pool, handle>>
    BY <1>1, KeptByUpdate
  <1>2. CASE \E k \in Free : /\ pool' = [pool EXCEPT ![k] = [ResetContext(@) EXCEPT !.in_use = TRUE]]
                             /\ handle' = [handle EXCEPT ![t] = k]
    <2>1. PICK k \in Free :
            /\ pool' = [pool EXCEPT ![k] = [ResetContext(@) EXCEPT !.in_use = TRUE]]
            /\ handle' = [handle EXCEPT ![t] = k]
      BY <1>2
    <2> DEFINE d == [ResetContext(pool[k]) EXCEPT !.in_use = TRUE]
    <2>2. k \in PoolSlots /\ ~pool[k].in_use /\ k # NULL
      BY ApiAssumption DEF Free, PoolSlots
    <2>3. pool' = [j \in PoolSlots |-> IF j = k THEN d ELSE pool[j]]
      BY <2>1, <2>2 DEF IInv
    <2>4. Sound(d) /\ d.in_use
      <3>1. Sound(ResetContext(pool[k]))
        BY <2>2, ResetKeeps DEF IInv, Keeps, KeepsCount
      <3>2. QED  BY <3>1 DEF Sound, Fields
    <2> HIDE DEF d
    <2>5. handle[t] = NULL
      BY DEF Acquire
    <2>6. /\ \A j \in PoolSlots : pool'[j].in_use <=> j = k \/ pool[j].in_use
          /\ \A u \in Callers : handle'[u] = IF u = t THEN k ELSE handle[u]
          /\ \A u \in Callers : handle[u] # k
      BY <2>1, <2>2, <2>3, <2>4 DEF IInv, OneOwner
    <2>7. OneOwner'
      <3>1. ASSUME NEW j \in PoolSlots
            PROVE  pool'[j].in_use <=> \E u \in Callers : handle'[u] = j
        <4>1. j # NULL
          BY ApiAssumption DEF PoolSlots
        <4>2. pool[j].in_use <=> \E u \in Callers : handle[u] = j
          BY DEF IInv, OneOwner
        <4>3. QED  BY <2>5, <2>6, <4>1, <4>2
      <3>2. \A u, v \in Callers : handle'[u] = handle'[v] /\ handle'[u] # NULL => u = v
        BY <2>6 DEF IInv, OneOwner
      <3>3. QED  BY <3>1, <3>2 DEF OneOwner
    <2>8. handle' \in [Callers -> PoolSlots \cup {NULL}]
      BY <2>1, <2>2 DEF IInv
    <2>9. QED  BY <2>3, <2>4, <2>7, <2>8 DEF IInv
  <1>3. QED  BY <1>1, <1>2 DEF Acquire

\* fx5_release frees the slot and takes the caller's pointer away with it.
LEMMA KeptByRelease ==
  ASSUME IInv, NEW t \in Callers, Release(t)
  PROVE  IInv'
  <1>1. CASE UNCHANGED <<pool, handle>>
    BY <1>1, KeptByUpdate
  <1>2. CASE /\ handle[t] # NULL
             /\ pool' = [pool EXCEPT ![handle[t]] =
                           IF @.in_use THEN [ResetContext(@) EXCEPT !.in_use = FALSE] ELSE @]
             /\ handle' = [handle EXCEPT ![t] = NULL]
    <2> DEFINE k == handle[t]
               d == [ResetContext(pool[k]) EXCEPT !.in_use = FALSE]
    <2>1. k \in PoolSlots /\ pool[k].in_use /\ k # NULL
      BY <1>2, HandleInUse DEF Ctx
    <2>2. pool' = [j \in PoolSlots |-> IF j = k THEN d ELSE pool[j]]
      BY <1>2, <2>1 DEF IInv
    <2>3. Sound(d) /\ ~d.in_use
      <3>1. Sound(ResetContext(pool[k]))
        BY <2>1, ResetKeeps DEF IInv, Keeps, KeepsCount
      <3>2. QED  BY <3>1 DEF Sound, Fields
    <2> HIDE DEF d
    <2>4. /\ \A j \in PoolSlots : pool'[j].in_use <=> j # k /\ pool[j].in_use
          /\ \A u \in Callers : handle'[u] = IF u = t THEN NULL ELSE handle[u]
      BY <1>2, <2>1, <2>2, <2>3 DEF IInv
    <2>5. OneOwner'
      <3> HIDE DEF k
      <3>1. \A u \in Callers : handle[u] = k <=> u = t
        BY <2>1 DEF k, IInv, OneOwner
      <3>2. ASSUME NEW j \in PoolSlots
            PROVE  pool'[j].in_use <=> \E u \in Callers : handle'[u] = j
        <4>1. j # NULL
          BY ApiAssumption DEF PoolSlots
        <4>2. pool[j].in_use <=> \E u \in Callers : handle[u] = j
          BY DEF IInv, OneOwner
        <4>3. QED  BY <2>4, <3>1, <4>1, <4>2
      <3>3. \A u, v \in Callers : handle'[u] = handle'[v] /\ handle'[u] # NULL => u = v
        BY <2>4 DEF IInv, OneOwner
      <3>4. QED  BY <3>2, <3>3 DEF OneOwner
    <2>6. handle' \in [Callers -> PoolSlots \cup {NULL}]
      BY <1>2 DEF IInv
    <2>7. QED  BY <2>2, <2>3, <2>5, <2>6 DEF IInv
  <1>3. QED  BY <1>1, <1>2 DEF Release

-----------------------------------------------------------------------------
\* Each step, whoever takes it, keeps the invariant.
LEMMA Inductive == IInv /\ [Next]_vars => IInv'
  <1> SUFFICES ASSUME IInv, [Next]_vars PROVE IInv'
    OBVIOUS
  <1>1. CASE UNCHANGED vars
    BY <1>1, KeptByUpdate DEF vars
  <1>2. CASE Next
    <2>1. PICK t \in Callers :
            \/ Acquire(t) \/ Release(t) \/ CallReset(t) \/ CallSettings(t)
            \/ CallSetRequest(t) \/ CallSetWriteValue(t)
            \/ CallBuild(t) \/ CallFeed(t) \/ CallParse(t)
      BY <1>2 DEF Next
    <2>2. handle[t] # NULL => Sound(Ctx(t))
      BY HandleInUse
    <2>3. CASE Acquire(t)
      BY <2>3, KeptByAcquire
    <2>4. CASE Release(t)
      BY <2>4, KeptByRelease
    <2>5. CASE CallReset(t)
      <3>1. handle[t] # NULL => Keeps(Ctx(t), Reset(Ctx(t)).ctx)
        BY <2>2, ResetKeeps DEF Reset, Ok, KeepsCount
      <3>2. QED  BY <2>5, <3>1, KeptByCall DEF CallReset
    <2>6. CASE CallSettings(t)
      <3>1. PICK op, r, s : /\ Call(op, t, r)
                            /\ \/ r = SetNetworkSettings(Ctx(t), s)
                               \/ r = SetHeaderMode(Ctx(t), s)
                               \/ r = SetMonitoringTimer(Ctx(t), s)
        BY <2>6 DEF CallSettings
      <3>2. handle[t] # NULL => Keeps(Ctx(t), r.ctx)
        BY <2>2, <3>1, SettingsKeep DEF KeepsCount
      <3>3. QED  BY <3>1, <3>2, KeptByCall
    <2>7. CASE CallSetRequest(t)
      <3>1. PICK cmd \in SomeCommands, dev \in SomeDevices, addr \in SomeAddresses, n \in SomeCounts :
              Call("set_request", t, SetRequest(Ctx(t), cmd, dev, addr, n))
        BY <2>7 DEF CallSetRequest
      <3>2. handle[t] # NULL => Keeps(Ctx(t), SetRequest(Ctx(t), cmd, dev, addr, n).ctx)
        BY <2>2, SetRequestKeeps, ApiAssumption
      <3>3. QED  BY <3>1, <3>2, KeptByCall
    <2>8. CASE CallSetWriteValue(t)
      <3>1. PICK i, v : Call("set_write_value", t, SetWriteValue(Ctx(t), i, v))
        BY <2>8 DEF CallSetWriteValue
      <3>2. handle[t] # NULL => Keeps(Ctx(t), SetWriteValue(Ctx(t), i, v).ctx)
        BY <2>2, SetWriteValueKeeps DEF KeepsCount
      <3>3. QED  BY <3>1, <3>2, KeptByCall
    <2>9. CASE CallBuild(t)
      <3>1. PICK size : Call("build", t, BuildRequest(Ctx(t), size))
        BY <2>9 DEF CallBuild
      <3>2. handle[t] # NULL => Keeps(Ctx(t), BuildRequest(Ctx(t), size).ctx)
        BY <2>2, BuildKeeps DEF KeepsCount
      <3>3. QED  BY <3>1, <3>2, KeptByCall
    <2>10. CASE CallFeed(t)
      <3>1. PICK bytes : Call("feed", t, FeedResponseBytes(Ctx(t), bytes))
        BY <2>10 DEF CallFeed
      <3>2. handle[t] # NULL => Keeps(Ctx(t), FeedResponseBytes(Ctx(t), bytes).ctx)
        BY <2>2, FeedKeeps DEF KeepsCount
      <3>3. QED  BY <3>1, <3>2, KeptByCall
    <2>11. CASE CallParse(t)
      <3>1. handle[t] # NULL => Keeps(Ctx(t), ParseResponse(Ctx(t)).ctx)
        BY <2>2, ParseKeeps DEF KeepsCount
      <3>2. QED  BY <2>11, <3>1, KeptByCall DEF CallParse
    <2>12. QED
      BY <2>1, <2>3, <2>4, <2>5, <2>6, <2>7, <2>8, <2>9, <2>10, <2>11
  <1>3. QED  BY <1>1, <1>2

LEMMA Invariance == Spec => []IInv
  BY Initially, Inductive, PTL DEF Spec

\* No two callers ever share a context, none is lost to the pool, and no
\* handle names a free one, whatever calls are made in whatever order
\* (fx5_acquire, fx5_release).
THEOREM Ownership == Spec => []OneOwner
  <1>1. IInv => OneOwner
    BY DEF IInv
  <1>2. QED  BY <1>1, Invariance, PTL

\* Every index below the value count of a context is one values[] has, for any
\* FX5_MAX_VALUE_COUNT, device and order of calls (fx5_set_request and the
\* users of value_count).
THEOREM IndexesInStore == Spec => []CountWithinStore
  <1>1. ASSUME IInv, NEW k \in PoolSlots, NEW i \in 0 .. pool[k].count - 1
        PROVE  (IF IsBitDevice(pool[k].device) THEN SlotOf(i) ELSE i) \in Slots
    <2>1. pool[k].count \in Nat /\ i \in Nat /\ i < pool[k].count
      BY <1>1 DEF IInv, Sound
    <2>2. pool[k].device \in Devices /\ i < MaxCount(pool[k].device)
      BY <1>1, <2>1, StoreNotEmpty DEF IInv, Sound
    <2>3. CASE IsBitDevice(pool[k].device)
      <3>1. i < 16 * MaxValueCount
        BY <2>2, <2>3 DEF MaxCount, MaxBitValueCount, BitsPerWord
      <3>2. i \div 16 \in 0 .. MaxValueCount - 1
        BY <2>1, <3>1, ContextAssumption
      <3>3. QED  BY <2>3, <3>2 DEF SlotOf, Slots, BitsPerWord
    <2>4. CASE ~IsBitDevice(pool[k].device)
      BY <2>1, <2>2, <2>4, ContextAssumption DEF MaxCount, Slots
    <2>5. QED  BY <2>3, <2>4
  <1>2. IInv => CountWithinStore
    BY <1>1 DEF CountWithinStore
  <1>3. QED  BY <1>2, Invariance, PTL

-----------------------------------------------------------------------------
\* A request that passes validation is no longer than the header, the PDU
\* header and a full value store of bits (fx5_build_request).
LEMMA SizeBound ==
  ASSUME NEW c, Sound(c), ValidateStatus(c) = "OK"
  PROVE  BuildStatus(c, MaxRequestSize) = "OK"
  <1>1. c.count \in Nat /\ c.count <= MaxCount(c.device)
    BY StoreNotEmpty DEF Sound
  <1>2. PayloadSize(c.device, c.count) \in 0 .. MaxBitPayload
    <2>1. CASE IsBitDevice(c.device)
      <3>1. c.count <= 16 * MaxValueCount
        BY <1>1, <2>1 DEF MaxCount, MaxBitValueCount, BitsPerWord
      <3>2. (c.count + 1) \div 2 \in 0 .. (16 * MaxValueCount + 1) \div 2
        BY <1>1, <3>1, ContextAssumption
      <3>3. QED
        BY <2>1, <3>2 DEF PayloadSize, MaxBitPayload, MaxBitValueCount, BitsPerWord
    <2>2. CASE ~IsBitDevice(c.device)
      <3>1. c.count <= MaxValueCount
        BY <1>1, <2>2 DEF MaxCount
      <3>2. 2 * c.count \in 0 .. (16 * MaxValueCount + 1) \div 2
        BY <1>1, <3>1, ContextAssumption
      <3>3. QED
        BY <2>2, <3>2 DEF PayloadSize, MaxBitPayload, MaxBitValueCount, BitsPerWord
    <2>3. QED  BY <2>1, <2>2
  <1>3. MaxBitPayload \in Nat
    BY ContextAssumption DEF MaxBitPayload, MaxBitValueCount, BitsPerWord
  <1>4. /\ MaxRequestSize = 41 + MaxBitPayload
        /\ RequestSize(c) \in 0 .. 25 + MaxBitPayload
    BY <1>2, <1>3
    DEF MaxRequestSize, RequestSize, ReqHeaderSize, ReqHeaderSize4E, ReqHeaderSize3E,
        ReqPduHeaderSize, IoBufGuard
  <1>5. ~(MaxRequestSize < RequestSize(c))
    BY <1>3, <1>4
  <1>6. QED  BY <1>5 DEF BuildStatus

\* A buffer of FX5_MAX_REQUEST_SIZE bytes takes every request that validates,
\* for any FX5_MAX_VALUE_COUNT, header mode, device and count.
THEOREM RequestsAlwaysFit == Spec => []RequestsFit
  <1>1. IInv => RequestsFit
    BY SizeBound DEF IInv, RequestsFit
  <1>2. QED  BY <1>1, Invariance, PTL

\* A call that turns the caller down, or gives back the context it took.
LEMMA FailedCall ==
  ASSUME IInv, NEW t \in Callers, NEW op, NEW r,
         handle[t] # NULL => (r.st # "OK" => r.ctx = Ctx(t)),
         Call(op, t, r), last'.st # "OK"
  PROVE  UNCHANGED <<pool, handle>>
  <1>1. handle' = handle
    BY DEF Call
  <1>2. CASE handle[t] # NULL /\ Ctx(t).in_use
    <2>1. pool' = [pool EXCEPT ![handle[t]] = r.ctx] /\ last'.st = r.st
      BY <1>2 DEF Call, Done
    <2>2. r.ctx = pool[handle[t]]
      BY <1>2, <2>1 DEF Ctx
    <2>3. pool' = pool
      BY <2>1, <2>2, <1>2, HandleInUse DEF IInv
    <2>4. QED  BY <1>1, <2>3
  <1>3. CASE ~(handle[t] # NULL /\ Ctx(t).in_use)
    BY <1>1, <1>3 DEF Call
  <1>4. QED  BY <1>2, <1>3

\* A call other than parse that returns an error leaves every context and every
\* handle as it was: a failed build uses up no serial, a refused chunk leaves
\* no byte, a refused request leaves the one before it.
THEOREM ErrorsChangeNothing == Spec => FailuresChangeNothing
  <1> DEFINE Failed == last'.st \notin {"OK", "none"} /\ last'.op # "parse"
  <1>1. ASSUME IInv, [Next]_vars
        PROVE  [Failed => UNCHANGED <<pool, handle>>]_vars
    <2> SUFFICES ASSUME Next, Failed PROVE UNCHANGED <<pool, handle>>
      BY <1>1 DEF vars
    <2>1. PICK t \in Callers :
            \/ Acquire(t) \/ Release(t) \/ CallReset(t) \/ CallSettings(t)
            \/ CallSetRequest(t) \/ CallSetWriteValue(t)
            \/ CallBuild(t) \/ CallFeed(t) \/ CallParse(t)
      BY DEF Next
    <2>2. handle[t] # NULL => Sound(Ctx(t))
      BY <1>1, HandleInUse
    <2>3. CASE Acquire(t)
      BY <2>3 DEF Acquire, Done
    <2>4. CASE Release(t)
      BY <2>4 DEF Release, Done
    <2>5. CASE CallReset(t)
      <3>1. Call("reset", t, Reset(Ctx(t)))
        BY <2>5 DEF CallReset
      <3>2. Reset(Ctx(t)).st = "OK"
        BY DEF Reset, Ok
      <3>3. QED  BY <1>1, <3>1, <3>2, FailedCall
    <2>6. CASE CallSettings(t)
      <3>1. PICK op, r, s : /\ Call(op, t, r)
                            /\ \/ r = SetNetworkSettings(Ctx(t), s)
                               \/ r = SetHeaderMode(Ctx(t), s)
                               \/ r = SetMonitoringTimer(Ctx(t), s)
        BY <2>6 DEF CallSettings
      <3>2. handle[t] # NULL => (r.st # "OK" => r.ctx = Ctx(t))
        BY <2>2, <3>1, SettingsKeep DEF KeepsCount
      <3>3. QED  BY <1>1, <3>1, <3>2, FailedCall
    <2>7. CASE CallSetRequest(t)
      <3>1. PICK cmd \in SomeCommands, dev \in SomeDevices, addr \in SomeAddresses, n \in SomeCounts :
              Call("set_request", t, SetRequest(Ctx(t), cmd, dev, addr, n))
        BY <2>7 DEF CallSetRequest
      <3> DEFINE r == SetRequest(Ctx(t), cmd, dev, addr, n)
      <3>2. handle[t] # NULL => (r.st # "OK" => r.ctx = Ctx(t))
        BY <2>2, SetRequestKeeps, ApiAssumption
      <3>3. QED  BY <1>1, <3>1, <3>2, FailedCall
    <2>8. CASE CallSetWriteValue(t)
      <3>1. PICK i, v : Call("set_write_value", t, SetWriteValue(Ctx(t), i, v))
        BY <2>8 DEF CallSetWriteValue
      <3> DEFINE r == SetWriteValue(Ctx(t), i, v)
      <3>2. handle[t] # NULL => (r.st # "OK" => r.ctx = Ctx(t))
        BY <2>2, SetWriteValueKeeps DEF KeepsCount
      <3>3. QED  BY <1>1, <3>1, <3>2, FailedCall
    <2>9. CASE CallBuild(t)
      <3>1. PICK size : Call("build", t, BuildRequest(Ctx(t), size))
        BY <2>9 DEF CallBuild
      <3> DEFINE r == BuildRequest(Ctx(t), size)
      <3>2. handle[t] # NULL => (r.st # "OK" => r.ctx = Ctx(t))
        BY <2>2, BuildKeeps DEF KeepsCount
      <3>3. QED  BY <1>1, <3>1, <3>2, FailedCall
    <2>10. CASE CallFeed(t)
      <3>1. PICK bytes : Call("feed", t, FeedResponseBytes(Ctx(t), bytes))
        BY <2>10 DEF CallFeed
      <3> DEFINE r == FeedResponseBytes(Ctx(t), bytes)
      <3>2. handle[t] # NULL => (r.st # "OK" => r.ctx = Ctx(t))
        BY <2>2, FeedKeeps DEF KeepsCount
      <3>3. QED  BY <1>1, <3>1, <3>2, FailedCall
    <2>11. CASE CallParse(t)
      BY <2>11 DEF CallParse, Call, Done
    <2>12. QED
      BY <2>1, <2>3, <2>4, <2>5, <2>6, <2>7, <2>8, <2>9, <2>10, <2>11
  <1>2. QED  BY <1>1, Invariance, PTL DEF Spec, FailuresChangeNothing

-----------------------------------------------------------------------------
\* A context with a request holds nothing of an earlier owner: what is left of
\* one lies behind a count of zero.
Clean ==
  /\ residue \in [PoolSlots -> SUBSET Slots]
  /\ \A k \in PoolSlots : residue[k] = {} \/ pool[k].count = 0

\* A call that neither adds residue nor makes the count grow.
LEMMA CleanAfterCall ==
  ASSUME IInv, Clean, NEW t \in Callers, NEW op, NEW r,
         handle[t] # NULL => KeepsCount(Ctx(t), r.ctx),
         Call(op, t, r),
         \/ residue' = residue
         \/ \E S : residue' = [residue EXCEPT ![handle[t]] = @ \ S]
  PROVE  Clean'
  <1>1. residue' \in [PoolSlots -> SUBSET Slots] /\ \A k \in PoolSlots : residue'[k] \subseteq residue[k]
    BY DEF Clean
  <1>2. \A k \in PoolSlots : pool[k].count = 0 => pool'[k].count = 0
    <2>1. CASE pool' = pool
      BY <2>1
    <2>2. CASE handle[t] # NULL /\ pool' = [pool EXCEPT ![handle[t]] = r.ctx]
      BY <2>2, HandleInUse DEF IInv, KeepsCount, Ctx
    <2>3. QED  BY <2>1, <2>2 DEF Call
  <1>3. QED  BY <1>1, <1>2 DEF Clean

\* A request that is accepted clears every slot, those that held residue too.
LEMMA CleanAfterSetRequest ==
  ASSUME ClearValuesOnSetRequest, IInv, Clean, NEW t \in Callers, CallSetRequest(t)
  PROVE  Clean'
  <1>1. PICK cmd \in SomeCommands, dev \in SomeDevices, addr \in SomeAddresses, n \in SomeCounts :
          Call("set_request", t, SetRequest(Ctx(t), cmd, dev, addr, n))
    BY DEF CallSetRequest
  <1> DEFINE r == SetRequest(Ctx(t), cmd, dev, addr, n)
  <1>2. CASE last'.st # "OK"
    <2>1. pool' = pool
      <3>1. handle[t] # NULL => (r.st # "OK" => r.ctx = Ctx(t))
        BY HandleInUse, SetRequestKeeps, ApiAssumption
      <3>2. QED  BY <1>1, <1>2, <3>1, FailedCall
    <2>2. residue' = residue
      BY <1>2 DEF CallSetRequest
    <2>3. QED  BY <2>1, <2>2 DEF Clean
  <1>3. CASE last'.st = "OK"
    <2>1. /\ handle[t] # NULL
          /\ pool' = [pool EXCEPT ![handle[t]] = r.ctx]
          /\ r.st = "OK"
      BY <1>1, <1>3 DEF Call, Done
    <2>2. handle[t] \in PoolSlots /\ Sound(Ctx(t))
      BY <2>1, HandleInUse
    <2>3. \A v \in Slots : r.ctx.values[v] = {}
      BY <2>1, <2>2 DEF SetRequest, Ok, Fail, Sound, Fields
    <2>4. residue' = [residue EXCEPT ![handle[t]] = {v \in @ : pool'[handle[t]].values[v] # {}}]
      BY <1>3 DEF CallSetRequest
    <2> HIDE DEF r
    <2>5. pool'[handle[t]] = r.ctx /\ \A k \in PoolSlots \ {handle[t]} : pool'[k] = pool[k]
      BY <2>1, <2>2 DEF IInv
    <2>6. residue'[handle[t]] = {}
      BY <2>2, <2>3, <2>4, <2>5 DEF Clean
    <2>7. QED  BY <2>2, <2>4, <2>5, <2>6 DEF Clean
  <1>4. QED  BY <1>2, <1>3

\* What an earlier owner left becomes residue when the slot is acquired again,
\* with a count of zero in front of it.
LEMMA CleanAfterAcquire ==
  ASSUME IInv, Clean, NEW t \in Callers, Acquire(t)
  PROVE  Clean'
  <1>1. CASE UNCHANGED <<pool, residue>>
    BY <1>1 DEF Clean
  <1>2. CASE \E k \in Free :
               /\ pool' = [pool EXCEPT ![k] = [ResetContext(@) EXCEPT !.in_use = TRUE]]
               /\ residue' = [residue EXCEPT ![k] = {v \in Slots : pool[k].values[v] # {}}]
    <2>1. PICK k \in PoolSlots :
            /\ pool' = [pool EXCEPT ![k] = [ResetContext(@) EXCEPT !.in_use = TRUE]]
            /\ residue' = [residue EXCEPT ![k] = {v \in Slots : pool[k].values[v] # {}}]
      BY <1>2 DEF Free
    <2> DEFINE d == [ResetContext(pool[k]) EXCEPT !.in_use = TRUE]
    <2>2. d.count = 0
      BY <2>1 DEF IInv, Sound, ResetContext, Fields
    <2> HIDE DEF d
    <2>3. pool' = [j \in PoolSlots |-> IF j = k THEN d ELSE pool[j]]
      BY <2>1 DEF IInv, d
    <2>4. QED  BY <2>1, <2>2, <2>3 DEF Clean
  <1>3. QED  BY <1>1, <1>2 DEF Acquire

LEMMA CleanAfterRelease ==
  ASSUME IInv, Clean, NEW t \in Callers, Release(t)
  PROVE  Clean'
  <1>1. residue' = residue
    BY DEF Release
  <1>2. CASE pool' = pool
    BY <1>1, <1>2 DEF Clean
  <1>3. CASE /\ handle[t] # NULL
             /\ pool' = [pool EXCEPT ![handle[t]] =
                           IF @.in_use THEN [ResetContext(@) EXCEPT !.in_use = FALSE] ELSE @]
    <2> DEFINE k == handle[t]
               d == [ResetContext(pool[k]) EXCEPT !.in_use = FALSE]
    <2>1. k \in PoolSlots /\ pool[k].in_use
      BY <1>3, HandleInUse DEF Ctx
    <2>2. d.count = 0
      BY <2>1 DEF IInv, Sound, ResetContext, Fields
    <2> HIDE DEF d
    <2>3. pool' = [j \in PoolSlots |-> IF j = k THEN d ELSE pool[j]]
      BY <1>3, <2>1 DEF IInv, d
    <2>4. QED  BY <1>1, <2>2, <2>3 DEF Clean
  <1>4. QED  BY <1>2, <1>3 DEF Release

LEMMA CleanInductive == ClearValuesOnSetRequest /\ IInv /\ Clean /\ [Next]_vars => Clean'
  <1> SUFFICES ASSUME ClearValuesOnSetRequest, IInv, Clean, [Next]_vars PROVE Clean'
    OBVIOUS
  <1>1. CASE UNCHANGED vars
    BY <1>1 DEF vars, Clean
  <1>2. CASE Next
    <2>1. PICK t \in Callers :
            \/ Acquire(t) \/ Release(t) \/ CallReset(t) \/ CallSettings(t)
            \/ CallSetRequest(t) \/ CallSetWriteValue(t)
            \/ CallBuild(t) \/ CallFeed(t) \/ CallParse(t)
      BY <1>2 DEF Next
    <2>2. handle[t] # NULL => Sound(Ctx(t))
      BY HandleInUse
    <2>3. CASE Acquire(t)
      BY <2>3, CleanAfterAcquire
    <2>4. CASE Release(t)
      BY <2>4, CleanAfterRelease
    <2>5. CASE CallReset(t)
      <3>1. handle[t] # NULL => KeepsCount(Ctx(t), Reset(Ctx(t)).ctx)
        BY <2>2, ResetKeeps DEF Reset, Ok
      <3>2. QED  BY <2>5, <3>1, CleanAfterCall DEF CallReset
    <2>6. CASE CallSettings(t)
      <3>1. PICK op, r, s : /\ Call(op, t, r)
                            /\ \/ r = SetNetworkSettings(Ctx(t), s)
                               \/ r = SetHeaderMode(Ctx(t), s)
                               \/ r = SetMonitoringTimer(Ctx(t), s)
        BY <2>6 DEF CallSettings
      <3>2. handle[t] # NULL => KeepsCount(Ctx(t), r.ctx)
        BY <2>2, <3>1, SettingsKeep
      <3>3. residue' = residue
        BY <2>6 DEF CallSettings
      <3>4. QED  BY <3>1, <3>2, <3>3, CleanAfterCall
    <2>7. CASE CallSetRequest(t)
      BY <2>7, CleanAfterSetRequest
    <2>8. CASE CallSetWriteValue(t)
      <3>1. PICK i, v :
              /\ Call("set_write_value", t, SetWriteValue(Ctx(t), i, v))
              /\ residue' = IF last'.st = "OK" /\ ~IsBitDevice(Ctx(t).device)
                            THEN [residue EXCEPT ![handle[t]] = @ \ {i}] ELSE residue
        BY <2>8 DEF CallSetWriteValue
      <3>2. handle[t] # NULL => KeepsCount(Ctx(t), SetWriteValue(Ctx(t), i, v).ctx)
        BY <2>2, SetWriteValueKeeps
      <3>3. QED  BY <3>1, <3>2, CleanAfterCall
    <2>9. CASE CallBuild(t)
      <3>1. PICK size : Call("build", t, BuildRequest(Ctx(t), size))
        BY <2>9 DEF CallBuild
      <3>2. handle[t] # NULL => KeepsCount(Ctx(t), BuildRequest(Ctx(t), size).ctx)
        BY <2>2, BuildKeeps
      <3>3. QED  BY <2>9, <3>1, <3>2, CleanAfterCall DEF CallBuild
    <2>10. CASE CallFeed(t)
      <3>1. PICK bytes : Call("feed", t, FeedResponseBytes(Ctx(t), bytes))
        BY <2>10 DEF CallFeed
      <3>2. handle[t] # NULL => KeepsCount(Ctx(t), FeedResponseBytes(Ctx(t), bytes).ctx)
        BY <2>2, FeedKeeps
      <3>3. QED  BY <2>10, <3>1, <3>2, CleanAfterCall DEF CallFeed
    <2>11. CASE CallParse(t)
      <3>1. handle[t] # NULL => KeepsCount(Ctx(t), ParseResponse(Ctx(t)).ctx)
        BY <2>2, ParseKeeps
      <3>2. QED  BY <2>11, <3>1, CleanAfterCall DEF CallParse
    <2>12. QED
      BY <2>1, <2>3, <2>4, <2>5, <2>6, <2>7, <2>8, <2>9, <2>10, <2>11
  <1>3. QED  BY <1>1, <1>2

\* Built with FX5_CLEAR_VALUES_ON_SET_REQUEST, the library shows no owner of a
\* context what an earlier one left in it; without that setting it does (the
\* value store survives fx5_release and fx5_context_reset).
THEOREM NothingInherited == ClearValuesOnSetRequest => (Spec => []NoResidue)
  <1> SUFFICES ASSUME ClearValuesOnSetRequest PROVE Spec => []NoResidue
    OBVIOUS
  <1>1. Init => Clean
    BY DEF Init, Clean
  <1>2. IInv /\ Clean /\ [Next]_vars => Clean'
    BY CleanInductive
  <1>3. IInv /\ Clean => NoResidue
    <2> SUFFICES ASSUME IInv, Clean, NEW k \in PoolSlots, NEW i \in 0 .. pool[k].count - 1
                 PROVE  (IF IsBitDevice(pool[k].device) THEN SlotOf(i) ELSE i) \notin residue[k]
      BY DEF NoResidue
    <2>1. pool[k].count # 0
      BY DEF IInv, Sound
    <2>2. residue[k] = {}
      BY <2>1 DEF Clean
    <2>3. QED  BY <2>2
  <1>4. QED  BY <1>1, <1>2, <1>3, Invariance, PTL DEF Spec

-----------------------------------------------------------------------------
(***************************************************************************)
(* The types of the contexts, and parsing: what a parse takes from the     *)
(* buffer, what it leaves of a request that is not answered, and that      *)
(* waiting for more bytes is stable.  For every layout of the header,      *)
(* every limit, and buffers of every size; on the facts about the search.  *)
(***************************************************************************)

\* A context as fx5_core.c keeps it.
Typed(c) == c \in ContextType /\ Len(c.rx) <= IoBufSize

\* What every call gives: such a context again, and a status of the API.
Fits(r) == Typed(r.ctx) /\ r.st \in Statuses

LEMMA TypedMeans ==
  ASSUME NEW c, Typed(c)
  PROVE  /\ c = [f \in Fields |-> c[f]]
         /\ c.rx \in Seq(Bytes) /\ Len(c.rx) \in Nat /\ Len(c.rx) <= IoBufSize
         /\ IoBufSize \in Nat
  <1>1. c.rx \in Seq(0 .. 255) /\ c = [f \in Fields |-> c[f]]
    BY DEF Typed, ContextType, Fields
  <1>2. QED  BY <1>1, LayoutAssumption DEF Typed, Bytes

-----------------------------------------------------------------------------
\* One lemma per call on a context: its type is kept.

LEMMA ResetFits ==
  ASSUME NEW c, Typed(c)
  PROVE  Fits(Reset(c)) /\ Typed(ResetContext(c))
  <1>1. 0 \in Serials /\ 0 \in Addresses /\ 0 \in Codes /\ 0 <= IoBufSize
    <2>1. 0 <= MaxAddress /\ MaxAddress \in Int
      BY DEF MaxAddress
    <2>2. 0 \in Addresses
      BY <2>1 DEF Addresses
    <2>3. 0 \in Codes
      BY DEF Codes
    <2>4. QED  BY <2>2, <2>3, ContextAssumption, LayoutAssumption DEF Serials
  <1>2. <<>> \in Seq(0 .. 255) /\ Len(<<>>) = 0
    BY EmptySeq
  <1>3. DefaultSettings \in SettingsType
    BY DEF DefaultSettings, SettingsType, Headers
  <1>4. "D" \in Devices \cup {"none"} /\ "READ" \in Commands \cup {"none"}
    BY DEF Devices, WordDevices, Commands
  <1>5. ResetContext(c) \in ContextType
    BY <1>1, <1>2, <1>3, <1>4 DEF Typed, ContextType, ResetContext
  <1>6. ResetContext(c).rx = <<>>
    BY TypedMeans DEF ResetContext, Fields
  <1>7. Typed(ResetContext(c))
    BY <1>1, <1>2, <1>5, <1>6 DEF Typed
  <1>8. QED  BY <1>7 DEF Fits, Reset, Ok, Statuses

LEMMA SettingsFit ==
  ASSUME NEW c, Typed(c)
  PROVE  /\ \A s \in SomeSettings : Fits(SetNetworkSettings(c, s))
         /\ \A h \in SomeHeaders : Fits(SetHeaderMode(c, h))
         /\ \A m \in SomeTimers : Fits(SetMonitoringTimer(c, m))
  <1>1. ASSUME NEW set \in SettingsType PROVE Typed([c EXCEPT !.settings = set])
    BY DEF Typed, ContextType
  <1>2. c.settings \in SettingsType
    BY DEF Typed, ContextType
  <1>3. ASSUME NEW s \in SomeSettings PROVE Fits(SetNetworkSettings(c, s))
    <2>1. s.header \in Headers => s \in SettingsType
      BY ApiAssumption DEF SettingsType
    <2>2. QED  BY <1>1, <2>1 DEF SetNetworkSettings, Fits, Ok, Fail, Statuses
  <1>4. ASSUME NEW h \in SomeHeaders PROVE Fits(SetHeaderMode(c, h))
    <2> DEFINE set == [c.settings EXCEPT !.header = h]
    <2>1. h \in Headers => set \in SettingsType
      BY <1>2 DEF SettingsType
    <2>2. SetHeaderMode(c, h) = IF h \in Headers THEN Ok([c EXCEPT !.settings = set])
                                ELSE Fail("UNSUPPORTED", c)
      BY DEF SetHeaderMode
    <2> HIDE DEF set
    <2>3. QED  BY <1>1, <2>1, <2>2 DEF Fits, Ok, Fail, Statuses
  <1>5. ASSUME NEW m \in SomeTimers PROVE Fits(SetMonitoringTimer(c, m))
    <2> DEFINE set == [c.settings EXCEPT !.timer = m]
    <2>1. set \in SettingsType
      BY <1>2 DEF SettingsType
    <2>2. SetMonitoringTimer(c, m) = Ok([c EXCEPT !.settings = set])
      BY DEF SetMonitoringTimer
    <2> HIDE DEF set
    <2>3. QED  BY <1>1, <2>1, <2>2 DEF Fits, Ok, Statuses
  <1>6. QED  BY <1>3, <1>4, <1>5

LEMMA SetRequestFits ==
  ASSUME NEW c, Typed(c), NEW cmd, NEW dev, NEW addr \in Nat, NEW n \in Nat
  PROVE  Fits(SetRequest(c, cmd, dev, addr, n))
  <1> DEFINE st == SetRequestStatus(cmd, dev, addr, n)
             kept == IF ClearValuesOnSetRequest THEN [k \in Slots |-> {}] ELSE c.values
             d == [c EXCEPT !.command = cmd, !.device = dev, !.address = addr, !.count = n,
                            !.code = 0, !.values = kept]
  <1>1. st \in {"OK", "INVALID_COUNT", "INVALID_ADDRESS", "UNSUPPORTED"}
    BY DEF SetRequestStatus
  <1>2. SetRequest(c, cmd, dev, addr, n) = IF st # "OK" THEN Fail(st, c) ELSE Ok(d)
    BY DEF SetRequest
  <1>3. ASSUME st = "OK" PROVE Typed(d)
    <2>1. addr \in Addresses /\ cmd \in Commands /\ dev \in Devices
      <3>1. ~(addr > MaxAddress) /\ cmd \in Commands /\ dev \in Devices
        BY <1>3 DEF SetRequestStatus
      <3>2. MaxAddress \in Int
        BY DEF MaxAddress
      <3>3. QED  BY <3>1, <3>2 DEF Addresses
    <2>2. kept \in [Slots -> Words]
      BY DEF Words, Typed, ContextType
    <2>3. 0 \in Codes
      BY DEF Codes
    <2> HIDE DEF kept
    <2>4. d \in ContextType /\ d.rx = c.rx
      BY <2>1, <2>2, <2>3 DEF Typed, ContextType
    <2> HIDE DEF d
    <2>5. QED  BY <2>4 DEF Typed
  <1> HIDE DEF st, d
  <1>4. QED  BY <1>1, <1>2, <1>3 DEF Fits, Ok, Fail, Statuses

LEMMA SetWriteValueFits ==
  ASSUME NEW c, Typed(c), NEW i \in Nat, NEW v \in Words
  PROVE  Fits(SetWriteValue(c, i, v))
  <1> DEFINE word == c.values[SlotOf(i)]
             bits == [c.values EXCEPT ![SlotOf(i)] =
                        IF v # {} THEN @ \cup {BitOf(i)} ELSE @ \ {BitOf(i)}]
             one  == [c.values EXCEPT ![i] = v]
  <1>1. BitOf(i) \in 0 .. BitsPerWord - 1
    BY DEF BitOf, BitsPerWord
  <1>2. c.values \in [Slots -> Words]
    BY DEF Typed, ContextType
  <1>3. bits \in [Slots -> Words] /\ one \in [Slots -> Words]
    <2>1. SlotOf(i) \in Slots => word \cup {BitOf(i)} \in Words /\ word \ {BitOf(i)} \in Words
      BY <1>1, <1>2 DEF Words
    <2>2. QED  BY <1>2, <2>1
  <1>4. SetWriteValue(c, i, v) \in {Fail("STATE", c), Fail("INVALID_INDEX", c),
                                     Ok([c EXCEPT !.values = bits]), Ok([c EXCEPT !.values = one])}
    BY DEF SetWriteValue
  <1>5. ASSUME NEW kept \in [Slots -> Words] PROVE Typed([c EXCEPT !.values = kept])
    BY DEF Typed, ContextType
  <1> HIDE DEF bits, one
  <1>6. QED  BY <1>3, <1>4, <1>5 DEF Fits, Ok, Fail, Statuses

LEMMA BuildFits ==
  ASSUME NEW c, Typed(c), NEW size
  PROVE  Fits(BuildRequest(c, size))
  <1>1. c.next_serial \in Serials /\ 0 \in Serials /\ (c.next_serial + 1) % SerialRange \in Serials
    <2>1. c.next_serial \in Serials
      BY DEF Typed, ContextType
    <2>2. SerialRange \in Nat /\ SerialRange > 0
      BY ContextAssumption
    <2>3. QED  BY <2>1, <2>2 DEF Serials
  <1>2. ASSUME NEW now \in Serials, NEW next \in Serials
        PROVE  /\ Typed([c EXCEPT !.serial = now, !.next_serial = next])
               /\ Typed([c EXCEPT !.serial = now])
    BY DEF Typed, ContextType
  <1>3. Typed(Stamp(c))
    <2> DEFINE next == (c.next_serial + 1) % SerialRange
    <2>1. Stamp(c) \in {[c EXCEPT !.serial = c.next_serial, !.next_serial = next],
                        [c EXCEPT !.serial = 0]}
      BY DEF Stamp, Typed, ContextType
    <2> HIDE DEF next
    <2>2. QED  BY <1>1, <1>2, <2>1 DEF next
  <1>4. BuildStatus(c, size) \in Statuses
    BY DEF BuildStatus, ValidateStatus, Statuses
  <1>5. QED  BY <1>3, <1>4 DEF BuildRequest, Fits, Ok, Fail, Statuses

\* Bytes taken off or put behind leave a buffer.
LEMMA BufferFits ==
  ASSUME NEW c, Typed(c), NEW rx \in Seq(0 .. 255), Len(rx) <= IoBufSize
  PROVE  Typed([c EXCEPT !.rx = rx])
  BY DEF Typed, ContextType

LEMMA FeedFits ==
  ASSUME NEW c, Typed(c), NEW bytes \in Seq(0 .. 255)
  PROVE  Fits(FeedResponseBytes(c, bytes))
  <1>1. CASE Len(c.rx) + Len(bytes) > IoBufSize
    BY <1>1 DEF FeedResponseBytes, Fits, Fail, Statuses
  <1>2. CASE ~(Len(c.rx) + Len(bytes) > IoBufSize)
    <2> DEFINE more == c.rx \o bytes
    <2>1. more \in Seq(0 .. 255) /\ Len(more) = Len(c.rx) + Len(bytes) /\ Len(bytes) \in Nat
      BY TypedMeans, ConcatProperties, LenProperties DEF Bytes
    <2>2. Len(more) <= IoBufSize
      BY <1>2, <2>1, TypedMeans
    <2>3. FeedResponseBytes(c, bytes) = Ok([c EXCEPT !.rx = more])
      BY <1>2 DEF FeedResponseBytes
    <2> HIDE DEF more
    <2>4. Typed([c EXCEPT !.rx = more])
      BY <2>1, <2>2, BufferFits
    <2>5. QED  BY <2>3, <2>4 DEF Fits, Ok, Statuses
  <1>3. QED  BY <1>1, <1>2

-----------------------------------------------------------------------------
\* What a parse reads and takes.

LEMMA AfterFacts ==
  ASSUME NEW buf \in Seq(Bytes), NEW n \in 0 .. Len(buf)
  PROVE  /\ After(buf, n) = Piece(buf, n, Len(buf))
         /\ After(buf, n) \in Seq(Bytes) /\ Len(After(buf, n)) = Len(buf) - n
  <1>1. Len(buf) \in 0 .. Len(buf)
    BY LenProperties
  <1>2. Piece(buf, n, Len(buf)) \in Seq(Bytes) /\ Len(Piece(buf, n, Len(buf))) = Len(buf) - n
    BY <1>1, PieceFacts
  <1>3. QED  BY <1>2 DEF After, Piece

LEMMA WordIsCode ==
  ASSUME NEW buf \in Seq(Bytes), 2 <= Len(buf)
  PROVE  WordAt(buf, 0) \in Codes
  <1>1. 1 \in 1 .. Len(buf) /\ 2 \in 1 .. Len(buf)
    BY LenProperties
  <1>2. buf[0 + 1] \in Bytes /\ buf[0 + 2] \in Bytes
    BY <1>1, ElementOfSeq
  <1>3. ASSUME NEW lo \in 0 .. 255, NEW hi \in 0 .. 255
        PROVE  lo + 256 * hi \in 0 .. 255 + 256 * 255
    <2>1. \A x, top \in Int : 0 <= x /\ x <= top => x \in 0 .. top
      OBVIOUS
    <2>2. lo + 256 * hi \in Int /\ 255 + 256 * 255 \in Int
      OBVIOUS
    <2>3. 0 <= lo + 256 * hi /\ lo + 256 * hi <= 255 + 256 * 255
      OBVIOUS
    <2>4. QED  BY <2>1, <2>2, <2>3, Zenon
  <1>4. QED  BY <1>2, <1>3 DEF WordAt, Codes, Bytes

LEMMA ReadValuesFit ==
  ASSUME NEW c, Typed(c), NEW body
  PROVE  ReadValues(c, body) \in [Slots -> Words]
  <1>1. c.values \in [Slots -> Words]
    BY DEF Typed, ContextType
  <1>2. \A n : WordOf(n) \in Words
    BY DEF WordOf, Words
  <1>3. CASE IsBitDevice(c.device)
    <2>1. ReadValues(c, body) =
            [k \in Slots |-> {b \in 0 .. BitsPerWord - 1 :
               IF BitsPerWord * k + b < c.count
               THEN NibbleOf(body, BitsPerWord * k + b) = 1 ELSE b \in c.values[k]}]
      BY <1>3 DEF ReadValues
    <2>2. QED  BY <2>1 DEF Words
  <1>4. CASE ~IsBitDevice(c.device)
    <2>1. ReadValues(c, body) =
            [k \in Slots |-> IF k < c.count THEN WordOf(WordAt(body, 2 * k)) ELSE c.values[k]]
      BY <1>4 DEF ReadValues
    <2>2. QED  BY <1>1, <1>2, <2>1
  <1>5. QED  BY <1>3, <1>4

\* The PDU of a response takes its two header bytes at least; one that does not
\* answer the request leaves count and values as they were.
LEMMA PduTakes ==
  ASSUME NEW c, Typed(c), NEW size \in Nat, 2 <= size, size <= Len(c.rx)
  PROVE  LET r == ParsePdu(c, size) IN
         /\ Fits(r) /\ Len(r.ctx.rx) < Len(c.rx)
         /\ r.st \in {"OK", "INVALID_COUNT", "RESPONSE_ERROR"}
         /\ r.st = "INVALID_COUNT" => r.ctx.values = c.values /\ r.ctx.count = c.count
  <1> DEFINE code  == WordAt(c.rx, 0)
             body  == After(c.rx, PduHeaderSize)
             rest  == After(body, size - PduHeaderSize)
             coded == [c EXCEPT !.code = code, !.rx = body]
             taken == [coded EXCEPT !.rx = rest]
             none  == [taken EXCEPT !.count = 0]
             kept  == ReadValues(c, body)
             read  == [taken EXCEPT !.values = kept]
  <1>1. c.rx \in Seq(Bytes) /\ Len(c.rx) \in Nat /\ Len(c.rx) <= IoBufSize /\ IoBufSize \in Nat
    BY TypedMeans
  <1>2. body \in Seq(Bytes) /\ Len(body) = Len(c.rx) - 2
    <2>1. 2 \in 0 .. Len(c.rx)
      BY <1>1
    <2>2. QED  BY <1>1, <2>1, AfterFacts DEF PduHeaderSize
  <1>3. rest \in Seq(Bytes) /\ Len(rest) = Len(c.rx) - size
    <2> HIDE DEF body
    <2>1. size - PduHeaderSize \in 0 .. Len(body)
      BY <1>1, <1>2 DEF PduHeaderSize
    <2>2. rest \in Seq(Bytes) /\ Len(rest) = Len(body) - (size - PduHeaderSize)
      BY <1>2, <2>1, AfterFacts
    <2> HIDE DEF rest
    <2>3. QED  BY <1>1, <1>2, <2>2 DEF PduHeaderSize
  <1>4. code \in Codes
    BY <1>1, WordIsCode
  <1>5. kept \in [Slots -> Words]
    BY ReadValuesFit
  <1> HIDE DEF code, body, rest, kept
  <1>6. ASSUME NEW rx \in Seq(Bytes), Len(rx) <= Len(c.rx)
        PROVE  /\ Typed([c EXCEPT !.code = code, !.rx = rx])
               /\ [c EXCEPT !.code = code, !.rx = rx].rx = rx
               /\ [c EXCEPT !.code = code, !.rx = rx].values = c.values
               /\ [c EXCEPT !.code = code, !.rx = rx].count = c.count
    <2>1. Len(rx) \in Nat /\ Len(rx) <= IoBufSize
      BY <1>1, <1>6, LenProperties
    <2>2. QED  BY <1>4, <2>1 DEF Typed, ContextType, Bytes
  <1>7. Typed(coded) /\ coded.rx = body /\ coded.values = c.values /\ coded.count = c.count
    <2>1. Len(body) <= Len(c.rx)
      BY <1>1, <1>2
    <2>2. QED  BY <1>2, <1>6, <2>1
  <1>8. Typed(taken) /\ taken.rx = rest /\ taken.values = c.values /\ taken.count = c.count
    <2> HIDE DEF coded
    <2>1. Len(rest) <= IoBufSize
      BY <1>1, <1>3
    <2>2. QED  BY ZenonT(40), <1>3, <1>7, <2>1 DEF Typed, ContextType, Bytes
  <1> HIDE DEF coded, taken
  <1>9. Typed(none) /\ none.rx = rest
    BY <1>8 DEF Typed, ContextType
  <1>10. Typed(read) /\ read.rx = rest
    BY <1>5, <1>8 DEF Typed, ContextType
  <1> HIDE DEF none, read
  <1>11. ParsePdu(c, size) \in {Fail("RESPONSE_ERROR", none), Fail("INVALID_COUNT", taken),
                                Ok(none), Fail("INVALID_COUNT", coded), Ok(read)}
    BY DEF ParsePdu, code, body, rest, coded, taken, none, kept, read
  <1>12. Len(body) < Len(c.rx) /\ Len(rest) < Len(c.rx)
    BY <1>1, <1>2, <1>3
  <1>13. QED
    BY <1>7, <1>8, <1>9, <1>10, <1>11, <1>12 DEF Fits, Ok, Fail, Statuses

\* fx5_parse_response.  What it gives, what it takes from the buffer, what it
\* leaves of the request, and that asking for more bytes once is asking always.
LEMMA ParseGives ==
  ASSUME NEW c, Typed(c)
  PROVE  LET r == ParseResponse(c) IN
         /\ Fits(r)
         /\ r.st \in {"OK", "INVALID_COUNT", "RESPONSE_ERROR", "RESYNC"} =>
              Len(r.ctx.rx) < Len(c.rx)
         /\ r.st \in {"NEED_MORE", "RESYNC", "INVALID_COUNT"} =>
              r.ctx.values = c.values /\ r.ctx.count = c.count
         /\ r.st = "NEED_MORE" => ParseResponse(r.ctx) = Fail("NEED_MORE", r.ctx)
  <1> DEFINE p    == StopAt(c.rx, c.serial)
             rest == [c EXCEPT !.rx = After(@, p)]
             n    == p + HeaderSize(HeaderAt(c.rx, p))
             opened == [c EXCEPT !.rx = After(@, n)]
             size == PacketSize(c.rx, p)
  <1>1. c.rx \in Seq(Bytes) /\ Len(c.rx) \in Nat /\ Len(c.rx) <= IoBufSize /\ IoBufSize \in Nat
        /\ c = [f \in Fields |-> c[f]]
    BY TypedMeans
  <1>2. p \in 0 .. Len(c.rx)
    <2> HIDE DEF p
    <2>1. p \in Nat /\ p <= Remainder(c.rx)
      BY <1>1, StopProperties DEF p
    <2>2. QED  BY <1>1, <2>1, Places
  <1>3. VerdictAt(c.rx, p) = Verdict(c.rx, c.serial)
    BY DEF Verdict
  <1>4. /\ rest.serial = c.serial /\ rest.values = c.values /\ rest.count = c.count
        /\ rest.rx = After(c.rx, p) /\ rest.rx \in Seq(Bytes) /\ Len(rest.rx) = Len(c.rx) - p
        /\ rest = [f \in Fields |-> rest[f]]
    <2>1. After(c.rx, p) \in Seq(Bytes) /\ Len(After(c.rx, p)) = Len(c.rx) - p
      BY <1>1, <1>2, AfterFacts
    <2> HIDE DEF p
    <2>2. QED  BY <1>1, <2>1 DEF Fields
  <1>5. Typed(rest)
    <2> HIDE DEF p
    <2>1. After(c.rx, p) \in Seq(0 .. 255) /\ Len(After(c.rx, p)) <= IoBufSize
      <3> HIDE DEF rest
      <3>1. QED  BY <1>1, <1>2, <1>4 DEF Bytes
    <2>2. QED  BY <2>1, BufferFits
  <1> HIDE DEF p, rest, n, opened
  <1>6. CASE Verdict(c.rx, c.serial) = "frame"
    <2>1. /\ FrameComplete(c.rx, p) /\ ~Mismatch(c.rx, p, c.serial)
      BY <1>1, <1>6, FrameFound DEF p
    <2>2. HeaderSize(HeaderAt(c.rx, p)) \in Nat
      BY LayoutAssumption DEF HeaderSize
    <2>3. size \in Nat /\ 2 <= size /\ n + size <= Len(c.rx) /\ n \in 0 .. Len(c.rx)
      <3>1. size \in 2 .. IoBufSize
        BY <2>1 DEF Mismatch, FrameComplete, PduHeaderSize
      <3>2. Len(c.rx) - p >= HeaderSize(HeaderAt(c.rx, p)) + size
        BY <2>1 DEF FrameComplete, FrameSize
      <3> HIDE DEF size
      <3>3. QED  BY <1>1, <1>2, <2>2, <3>1, <3>2 DEF n
    <2>4. /\ Typed(opened) /\ opened.values = c.values /\ opened.count = c.count
          /\ Len(opened.rx) = Len(c.rx) - n
      <3>1. After(c.rx, n) \in Seq(Bytes) /\ Len(After(c.rx, n)) = Len(c.rx) - n
        BY <1>1, <2>3, AfterFacts
      <3>2. Typed([c EXCEPT !.rx = After(c.rx, n)])
        <4>1. Len(After(c.rx, n)) <= IoBufSize
          BY <1>1, <2>3, <3>1
        <4>2. QED  BY <3>1, <4>1, BufferFits DEF Bytes
      <3>3. QED  BY <1>1, <3>1, <3>2 DEF opened, Fields
    <2>5. ParseResponse(c) = ParsePdu(opened, size)
      BY <1>3, <1>6 DEF ParseResponse, ParseAt, p, n, opened
    <2> HIDE DEF size
    <2>6. size <= Len(opened.rx) /\ Len(opened.rx) <= Len(c.rx) /\ Len(opened.rx) \in Nat
      BY <1>1, <2>3, <2>4
    <2> DEFINE r == ParsePdu(opened, size)
    <2>7. /\ Fits(r) /\ Len(r.ctx.rx) < Len(opened.rx)
          /\ r.st \in {"OK", "INVALID_COUNT", "RESPONSE_ERROR"}
          /\ r.st = "INVALID_COUNT" => r.ctx.values = opened.values /\ r.ctx.count = opened.count
      BY <2>3, <2>4, <2>6, PduTakes
    <2> HIDE DEF r
    <2>8. Len(r.ctx.rx) \in Nat
      BY <2>7, TypedMeans DEF Fits
    <2>9. Len(r.ctx.rx) < Len(c.rx)
      BY <1>1, <2>6, <2>7, <2>8
    <2>10. QED  BY <2>4, <2>5, <2>7, <2>9 DEF r
  <1>7. CASE Verdict(c.rx, c.serial) = "resync"
    <2>1. p > ResyncLimit
      BY <1>3, <1>7 DEF VerdictAt
    <2>2. Len(rest.rx) < Len(c.rx)
      BY SMTT(30), <1>1, <1>2, <1>4, <2>1, LayoutAssumption
    <2>3. ParseResponse(c) = Fail("RESYNC", rest)
      BY <1>3, <1>7 DEF ParseResponse, ParseAt, p, rest
    <2>4. QED  BY <1>4, <1>5, <2>2, <2>3 DEF Fits, Fail, Statuses
  <1>8. CASE Verdict(c.rx, c.serial) = "need_more"
    <2>1. ParseResponse(c) = Fail("NEED_MORE", rest)
      BY <1>3, <1>8 DEF ParseResponse, ParseAt, p, rest
    <2>2. StopAt(rest.rx, rest.serial) = 0 /\ Verdict(rest.rx, rest.serial) = "need_more"
      BY <1>1, <1>2, <1>4, <1>8, AfterFacts, StaysPut DEF p
    <2>3. VerdictAt(rest.rx, 0) = "need_more"
      BY <2>2 DEF Verdict
    <2>4. [rest EXCEPT !.rx = After(@, 0)] = rest
      <3>1. After(rest.rx, 0) = rest.rx
        <4>1. After(rest.rx, 0) = SubSeq(rest.rx, 1, Len(rest.rx))
          BY DEF After
        <4>2. QED  BY <1>4, <4>1, SubSeqFull
      <3>2. QED  BY <1>4, <3>1 DEF Fields
    <2>5. ParseResponse(rest) = Fail("NEED_MORE", rest)
      BY <2>2, <2>3, <2>4 DEF ParseResponse, ParseAt
    <2>6. QED  BY <1>4, <1>5, <2>1, <2>5 DEF Fits, Fail, Statuses
  <1>9. Verdict(c.rx, c.serial) \in {"frame", "resync", "need_more"}
    BY DEF Verdict, VerdictAt
  <1>10. QED  BY <1>6, <1>7, <1>8, <1>9

-----------------------------------------------------------------------------
\* The pool keeps its type.

\* A call that gives back a context of the type, or turns the caller down.
LEMMA TypeKeptByCall ==
  ASSUME TypeOK, NEW t \in Callers, NEW op, NEW r,
         handle[t] # NULL => Fits(r),
         Call(op, t, r), residue' \in [PoolSlots -> SUBSET Slots]
  PROVE  TypeOK'
  <1>1. handle' = handle
    BY DEF Call
  <1>2. CASE pool' = pool /\ last'.st \in {"NULL", "NOT_ACQUIRED"}
    BY <1>1, <1>2 DEF TypeOK, Statuses
  <1>3. CASE handle[t] # NULL /\ pool' = [pool EXCEPT ![handle[t]] = r.ctx] /\ last'.st = r.st
    <2>1. r.ctx \in ContextType /\ Len(r.ctx.rx) <= IoBufSize /\ r.st \in Statuses
      BY <1>3 DEF Fits, Typed
    <2>2. pool' \in [PoolSlots -> ContextType] /\ \A k \in PoolSlots : Len(pool'[k].rx) <= IoBufSize
      BY <1>3, <2>1 DEF TypeOK
    <2>3. QED  BY <1>1, <1>3, <2>1, <2>2 DEF TypeOK
  <1>4. QED  BY <1>2, <1>3 DEF Call, Done

LEMMA HandleTyped ==
  ASSUME TypeOK, NEW t \in Callers, handle[t] # NULL
  PROVE  handle[t] \in PoolSlots /\ Typed(Ctx(t))
  BY DEF TypeOK, Ctx, Typed

LEMMA TypeKeptByAcquire ==
  ASSUME TypeOK, NEW t \in Callers, Acquire(t)
  PROVE  TypeOK'
  <1>1. CASE UNCHANGED <<pool, handle, residue>> /\ last'.st = "NO_CONTEXT"
    BY <1>1 DEF TypeOK, Statuses
  <1>2. CASE \E k \in Free : /\ pool' = [pool EXCEPT ![k] = [ResetContext(@) EXCEPT !.in_use = TRUE]]
                             /\ handle' = [handle EXCEPT ![t] = k]
                             /\ residue' = [residue EXCEPT ![k] = {v \in Slots : pool[k].values[v] # {}}]
                             /\ last'.st = "OK"
    <2>1. PICK k \in PoolSlots :
            /\ pool' = [pool EXCEPT ![k] = [ResetContext(@) EXCEPT !.in_use = TRUE]]
            /\ handle' = [handle EXCEPT ![t] = k]
            /\ residue' = [residue EXCEPT ![k] = {v \in Slots : pool[k].values[v] # {}}]
            /\ last'.st = "OK"
      BY <1>2 DEF Free
    <2> DEFINE d == [ResetContext(pool[k]) EXCEPT !.in_use = TRUE]
    <2>2. Typed(d)
      <3>1. Typed(ResetContext(pool[k]))
        BY ResetFits DEF TypeOK, Typed
      <3>2. \A c : Typed(c) => Typed([c EXCEPT !.in_use = TRUE])
        BY DEF Typed, ContextType
      <3>3. QED  BY <3>1, <3>2
    <2> HIDE DEF d
    <2>3. pool' = [pool EXCEPT ![k] = d]
      BY <2>1 DEF d
    <2>4. pool' \in [PoolSlots -> ContextType] /\ \A j \in PoolSlots : Len(pool'[j].rx) <= IoBufSize
      BY <2>2, <2>3 DEF TypeOK, Typed
    <2>5. QED  BY <2>1, <2>4 DEF TypeOK, Statuses
  <1>3. QED  BY <1>1, <1>2 DEF Acquire, Done

LEMMA TypeKeptByRelease ==
  ASSUME TypeOK, NEW t \in Callers, Release(t)
  PROVE  TypeOK'
  <1>1. residue' = residue /\ last'.st = "none"
    BY DEF Release, Done
  <1>2. CASE UNCHANGED <<pool, handle>>
    BY <1>1, <1>2 DEF TypeOK
  <1>3. CASE /\ handle[t] # NULL
             /\ pool' = [pool EXCEPT ![handle[t]] =
                           IF @.in_use THEN [ResetContext(@) EXCEPT !.in_use = FALSE] ELSE @]
             /\ handle' = [handle EXCEPT ![t] = NULL]
    <2> DEFINE k == handle[t]
               d == IF pool[k].in_use THEN [ResetContext(pool[k]) EXCEPT !.in_use = FALSE] ELSE pool[k]
    <2>1. k \in PoolSlots /\ Typed(pool[k])
      BY <1>3, HandleTyped DEF Ctx
    <2>2. Typed(d)
      <3>1. Typed(ResetContext(pool[k]))
        BY <2>1, ResetFits
      <3>2. \A c : Typed(c) => Typed([c EXCEPT !.in_use = FALSE])
        BY DEF Typed, ContextType
      <3>3. QED  BY <2>1, <3>1, <3>2
    <2> HIDE DEF d
    <2>3. pool' = [pool EXCEPT ![k] = d]
      BY <1>3 DEF d
    <2>4. pool' \in [PoolSlots -> ContextType] /\ \A j \in PoolSlots : Len(pool'[j].rx) <= IoBufSize
      BY <2>2, <2>3 DEF TypeOK, Typed
    <2>5. QED  BY <1>1, <1>3, <2>4 DEF TypeOK
  <1>4. QED  BY <1>2, <1>3 DEF Release

LEMMA TypeInductive == TypeOK /\ [Next]_vars => TypeOK'
  <1> SUFFICES ASSUME TypeOK, [Next]_vars PROVE TypeOK'
    OBVIOUS
  <1>1. CASE UNCHANGED vars
    BY <1>1 DEF vars, TypeOK
  <1>2. CASE Next
    <2>1. PICK t \in Callers :
            \/ Acquire(t) \/ Release(t) \/ CallReset(t) \/ CallSettings(t)
            \/ CallSetRequest(t) \/ CallSetWriteValue(t)
            \/ CallBuild(t) \/ CallFeed(t) \/ CallParse(t)
      BY <1>2 DEF Next
    <2>2. handle[t] # NULL => Typed(Ctx(t))
      BY HandleTyped
    <2>3. residue \in [PoolSlots -> SUBSET Slots]
      BY DEF TypeOK
    <2>4. CASE Acquire(t)
      BY <2>4, TypeKeptByAcquire
    <2>5. CASE Release(t)
      BY <2>5, TypeKeptByRelease
    <2>6. CASE CallReset(t)
      <3>1. handle[t] # NULL => Fits(Reset(Ctx(t)))
        BY <2>2, ResetFits
      <3>2. QED  BY <2>3, <2>6, <3>1, TypeKeptByCall DEF CallReset
    <2>7. CASE CallSettings(t)
      <3>1. residue' \in [PoolSlots -> SUBSET Slots]
        BY <2>3, <2>7 DEF CallSettings
      <3>2. PICK op, r : /\ Call(op, t, r)
                         /\ \/ \E s \in SomeSettings : r = SetNetworkSettings(Ctx(t), s)
                            \/ \E h \in SomeHeaders : r = SetHeaderMode(Ctx(t), h)
                            \/ \E m \in SomeTimers : r = SetMonitoringTimer(Ctx(t), m)
        BY <2>7 DEF CallSettings
      <3>3. handle[t] # NULL => Fits(r)
        BY <2>2, <3>2, SettingsFit
      <3>4. QED  BY <3>1, <3>2, <3>3, TypeKeptByCall
    <2>8. CASE CallSetRequest(t)
      <3>1. PICK cmd \in SomeCommands, dev \in SomeDevices, addr \in SomeAddresses, n \in SomeCounts :
              Call("set_request", t, SetRequest(Ctx(t), cmd, dev, addr, n))
        BY <2>8 DEF CallSetRequest
      <3> DEFINE r == SetRequest(Ctx(t), cmd, dev, addr, n)
      <3>2. handle[t] # NULL => Fits(r)
        BY <2>2, SetRequestFits, ApiAssumption
      <3>3. residue' \in [PoolSlots -> SUBSET Slots]
        BY <2>3, <2>8 DEF CallSetRequest
      <3> HIDE DEF r
      <3>4. Call("set_request", t, r)
        BY <3>1 DEF r
      <3>5. QED  BY <3>2, <3>3, <3>4, TypeKeptByCall
    <2>9. CASE CallSetWriteValue(t)
      <3>1. PICK i \in SomeIndexes, v \in SomeWords :
              /\ Call("set_write_value", t, SetWriteValue(Ctx(t), i, v))
              /\ residue' = IF last'.st = "OK" /\ ~IsBitDevice(Ctx(t).device)
                            THEN [residue EXCEPT ![handle[t]] = @ \ {i}] ELSE residue
        BY <2>9 DEF CallSetWriteValue
      <3> DEFINE r == SetWriteValue(Ctx(t), i, v)
      <3>2. handle[t] # NULL => Fits(r)
        BY <2>2, SetWriteValueFits, ApiAssumption
      <3>3. residue' \in [PoolSlots -> SUBSET Slots]
        BY <2>3, <3>1
      <3> HIDE DEF r
      <3>4. Call("set_write_value", t, r)
        BY <3>1 DEF r
      <3>5. QED  BY <3>2, <3>3, <3>4, TypeKeptByCall
    <2>10. CASE CallBuild(t)
      <3>1. PICK size : Call("build", t, BuildRequest(Ctx(t), size))
        BY <2>10 DEF CallBuild
      <3>2. handle[t] # NULL => Fits(BuildRequest(Ctx(t), size))
        BY <2>2, BuildFits
      <3>3. QED  BY <2>3, <2>10, <3>1, <3>2, TypeKeptByCall DEF CallBuild
    <2>11. CASE CallFeed(t)
      <3>1. PICK bytes \in SomeChunks : Call("feed", t, FeedResponseBytes(Ctx(t), bytes))
        BY <2>11 DEF CallFeed
      <3>2. handle[t] # NULL => Fits(FeedResponseBytes(Ctx(t), bytes))
        BY <2>2, FeedFits, ApiAssumption
      <3>3. QED  BY <2>3, <2>11, <3>1, <3>2, TypeKeptByCall DEF CallFeed
    <2>12. CASE CallParse(t)
      <3>1. handle[t] # NULL => Fits(ParseResponse(Ctx(t)))
        BY <2>2, ParseGives
      <3>2. residue' \in [PoolSlots -> SUBSET Slots] /\ Call("parse", t, ParseResponse(Ctx(t)))
        BY <2>3, <2>12 DEF CallParse
      <3>3. QED  BY <3>1, <3>2, TypeKeptByCall
    <2>13. QED
      BY <2>1, <2>4, <2>5, <2>6, <2>7, <2>8, <2>9, <2>10, <2>11, <2>12
  <1>3. QED  BY <1>1, <1>2

\* Whatever is called in whatever order, every context of the pool stays one:
\* the buffer holds bytes and no more than it has room for, serials stay within
\* their sixteen bits, and every call returns a status of the API.
THEOREM ApiTypeCorrect == Spec => []TypeOK
  <1>1. Init => TypeOK
    <2> SUFFICES ASSUME Init PROVE TypeOK
      OBVIOUS
    <2>1. 0 \in Serials /\ 0 \in Addresses /\ 0 \in Codes /\ 0 <= IoBufSize
      <3>1. 0 <= MaxAddress /\ MaxAddress \in Int
        BY DEF MaxAddress
      <3>2. 0 \in Addresses
        BY <3>1 DEF Addresses
      <3>3. 0 \in Codes
        BY DEF Codes
      <3>4. QED  BY <3>2, <3>3, ContextAssumption, LayoutAssumption DEF Serials
    <2>2. <<>> \in Seq(0 .. 255) /\ Len(<<>>) = 0
      BY EmptySeq
    <2>3. [header |-> "3E", timer |-> "zero"] \in SettingsType
      BY DEF SettingsType, Headers
    <2>4. [v \in Slots |-> {}] \in [Slots -> Words]
      BY DEF Words
    <2>5. ZeroContext \in ContextType /\ Len(ZeroContext.rx) <= IoBufSize
      BY <2>1, <2>2, <2>3, <2>4 DEF ZeroContext, ContextType
    <2>6. QED  BY <2>5 DEF Init, TypeOK, Statuses
  <1>2. QED  BY <1>1, TypeInductive, PTL DEF Spec

-----------------------------------------------------------------------------
\* What a step of the pool that parses does.
LEMMA ParseStep ==
  ASSUME TypeOK, Next, last'.op = "parse", last'.st \notin {"NULL", "NOT_ACQUIRED"}
  PROVE  \E k \in PoolSlots : \E r :
           /\ Typed(pool[k]) /\ r = ParseResponse(pool[k])
           /\ last' = [op |-> "parse", on |-> k, st |-> r.st]
           /\ pool' = [pool EXCEPT ![k] = r.ctx]
  <1>1. PICK t \in Callers : Call("parse", t, ParseResponse(Ctx(t)))
    BY DEF Next, Acquire, Release, CallReset, CallSettings, CallSetRequest, CallSetWriteValue,
           CallBuild, CallFeed, CallParse, Call, Done
  <1> DEFINE r == ParseResponse(Ctx(t))
  <1> HIDE DEF r
  <1>2. Call("parse", t, r)
    BY <1>1 DEF r
  <1>3. /\ handle[t] # NULL /\ pool' = [pool EXCEPT ![handle[t]] = r.ctx]
        /\ last' = [op |-> "parse", on |-> handle[t], st |-> r.st]
    BY <1>2 DEF Call, Done
  <1>4. handle[t] \in PoolSlots /\ Typed(pool[handle[t]])
    BY <1>3, HandleTyped DEF Ctx
  <1>5. QED  BY <1>3, <1>4 DEF r, Ctx

\* Unless it asks for more bytes, fx5_parse_response takes some, so a program
\* that parses until more are needed stops, whatever was received.
THEOREM ParsingEnds == Spec => ParseTakesBytes
  <1>1. ASSUME TypeOK, Next,
               last'.op = "parse", last'.st \in {"OK", "INVALID_COUNT", "RESPONSE_ERROR", "RESYNC"},
               NEW k \in PoolSlots, k = last'.on
        PROVE  Len(pool'[k].rx) < Len(pool[k].rx)
    <2>0. PICK j \in PoolSlots : \E r :
               /\ Typed(pool[j]) /\ r = ParseResponse(pool[j])
               /\ last' = [op |-> "parse", on |-> j, st |-> r.st]
               /\ pool' = [pool EXCEPT ![j] = r.ctx]
      BY <1>1, ParseStep
    <2>1. PICK r :
            /\ Typed(pool[j]) /\ r = ParseResponse(pool[j])
            /\ last' = [op |-> "parse", on |-> j, st |-> r.st]
            /\ pool' = [pool EXCEPT ![j] = r.ctx]
      BY <2>0
    <2>2. k = j /\ r.st = last'.st /\ pool'[j] = r.ctx
      BY <1>1, <2>1 DEF TypeOK
    <2>3. Len(r.ctx.rx) < Len(pool[j].rx)
      BY <1>1, <2>1, <2>2, ParseGives
    <2>4. QED  BY <2>2, <2>3
  <1>2. TypeOK /\ [Next]_vars =>
          [\A k \in PoolSlots :
             last'.op = "parse" /\ last'.st \in {"OK", "INVALID_COUNT", "RESPONSE_ERROR", "RESYNC"}
               /\ k = last'.on
             => Len(pool'[k].rx) < Len(pool[k].rx)]_vars
    BY <1>1
  <1>3. QED  BY <1>2, ApiTypeCorrect, PTL DEF Spec, ParseTakesBytes

\* A frame that is not the answer to the request, a search given up and a wait
\* for more bytes leave count and values of every context as they were.
THEOREM RefusalsKeepValues == Spec => RefusedParseKeepsValues
  <1>1. ASSUME TypeOK, Next,
               last'.op = "parse", last'.st \in {"NEED_MORE", "RESYNC", "INVALID_COUNT"},
               NEW k \in PoolSlots
        PROVE  pool'[k].values = pool[k].values /\ pool'[k].count = pool[k].count
    <2>0. PICK j \in PoolSlots : \E r :
               /\ Typed(pool[j]) /\ r = ParseResponse(pool[j])
               /\ last' = [op |-> "parse", on |-> j, st |-> r.st]
               /\ pool' = [pool EXCEPT ![j] = r.ctx]
      BY <1>1, ParseStep
    <2>1. PICK r :
            /\ Typed(pool[j]) /\ r = ParseResponse(pool[j])
            /\ last' = [op |-> "parse", on |-> j, st |-> r.st]
            /\ pool' = [pool EXCEPT ![j] = r.ctx]
      BY <2>0
    <2>2. r.st = last'.st
      BY <2>1
    <2>3. (k = j => pool'[k] = r.ctx) /\ (k # j => pool'[k] = pool[k])
      BY <1>1, <2>1 DEF TypeOK
    <2>4. r.ctx.values = pool[j].values /\ r.ctx.count = pool[j].count
      BY <1>1, <2>1, <2>2, ParseGives
    <2>5. QED  BY <2>3, <2>4
  <1>2. TypeOK /\ [Next]_vars =>
          [last'.op = "parse" /\ last'.st \in {"NEED_MORE", "RESYNC", "INVALID_COUNT"}
           => \A k \in PoolSlots : /\ pool'[k].values = pool[k].values
                                   /\ pool'[k].count = pool[k].count]_vars
    BY <1>1
  <1>3. QED  BY <1>2, ApiTypeCorrect, PTL DEF Spec, RefusedParseKeepsValues

\* A parse that asks for more bytes would ask again and change nothing, however
\* often it is repeated before bytes come.
THEOREM WaitingIsStable == Spec => []NeedMoreIsStable
  <1>1. Init => NeedMoreIsStable
    BY DEF Init, NeedMoreIsStable
  <1>2. ASSUME TypeOK, NeedMoreIsStable, [Next]_vars PROVE NeedMoreIsStable'
    <2>1. CASE UNCHANGED vars
      BY <1>2, <2>1 DEF vars, NeedMoreIsStable
    <2>2. CASE Next /\ last'.op = "parse" /\ last'.st = "NEED_MORE"
      <3>0. PICK j \in PoolSlots : \E r :
                 /\ Typed(pool[j]) /\ r = ParseResponse(pool[j])
                 /\ last' = [op |-> "parse", on |-> j, st |-> r.st]
                 /\ pool' = [pool EXCEPT ![j] = r.ctx]
        BY <1>2, <2>2, ParseStep
      <3>1. PICK r :
              /\ Typed(pool[j]) /\ r = ParseResponse(pool[j])
              /\ last' = [op |-> "parse", on |-> j, st |-> r.st]
              /\ pool' = [pool EXCEPT ![j] = r.ctx]
        BY <3>0
      <3>2. last'.on = j /\ r.st = "NEED_MORE" /\ pool'[j] = r.ctx
        BY <1>2, <2>2, <3>1 DEF TypeOK
      <3>3. ParseResponse(r.ctx) = Fail("NEED_MORE", r.ctx)
        BY <3>1, <3>2, ParseGives
      <3>4. QED  BY <3>2, <3>3 DEF NeedMoreIsStable
    <2>3. CASE ~(last'.op = "parse" /\ last'.st = "NEED_MORE")
      BY <2>3 DEF NeedMoreIsStable
    <2>4. QED  BY <1>2, <2>1, <2>2, <2>3
  <1>3. QED  BY <1>1, <1>2, ApiTypeCorrect, PTL DEF Spec
=============================================================================

------------------------------- MODULE Fx5Api -------------------------------
(***************************************************************************)
(* The public API over the static pool of contexts (fx5_core.c).  Several  *)
(* parts of a program, the callers, share the pool; each owns one pointer  *)
(* variable, its handle, and passes only that to the library.  The library *)
(* is not reentrant, so a call is one step; any caller may make any call   *)
(* at any time, in any order, with good and bad arguments.                 *)
(***************************************************************************)
EXTENDS Fx5Context

CONSTANTS
  PoolSize,   \* FX5_CONTEXT_POOL_SIZE
  Callers,    \* the parts of the program that use the library
  NULL,       \* the null pointer
  \* the arguments callers try
  SomeSettings, SomeHeaders, SomeTimers, SomeCommands, SomeDevices, SomeAddresses,
  SomeCounts, SomeIndexes, SomeWords, SomeBufSizes, SomeChunks

ASSUME ApiAssumption ==
  /\ PoolSize \in Nat \ {0}
  /\ NULL \notin 0 .. PoolSize - 1
  /\ SomeIndexes \subseteq Nat /\ SomeCounts \subseteq Nat /\ SomeAddresses \subseteq Nat
  /\ SomeWords \subseteq Words /\ SomeBufSizes \subseteq Nat
  /\ SomeChunks \subseteq Seq(0 .. 255)
  /\ \A s \in SomeSettings : s.header \in Headers =>
       s \in [header : Headers, timer : {"zero", "default"} \cup SomeTimers]

VARIABLES
  pool,    \* s_context_pool
  handle,  \* the pointer variable of each caller
  last,    \* the last call: what it was, on which context, and the status it returned
  residue  \* history: value slots that hold what an earlier owner left there

vars == <<pool, handle, last, residue>>

PoolSlots == 0 .. PoolSize - 1

Free == {k \in PoolSlots : ~pool[k].in_use}

Init ==
  /\ pool = [k \in PoolSlots |-> ZeroContext]
  /\ handle = [t \in Callers |-> NULL]
  /\ last = [op |-> "none", on |-> NULL, st |-> "none"]
  /\ residue = [k \in PoolSlots |-> {}]

Done(op, k, st) == last' = [op |-> op, on |-> k, st |-> st]

\* A caller acquires into a handle that is NULL: it does not throw a context away.
Acquire(t) ==
  /\ handle[t] = NULL
  /\ \/ /\ Free = {}
        /\ Done("acquire", NULL, "NO_CONTEXT")
        /\ UNCHANGED <<pool, handle, residue>>
     \/ \E k \in Free :
          /\ \A j \in Free : k <= j
          /\ pool' = [pool EXCEPT ![k] = [ResetContext(@) EXCEPT !.in_use = TRUE]]
          /\ handle' = [handle EXCEPT ![t] = k]
          /\ residue' = [residue EXCEPT ![k] = {v \in Slots : pool[k].values[v] # {}}]
          /\ Done("acquire", k, "OK")

\* Mutant of Release: the slot is freed and the pointer kept.
ReleaseKeep(t) ==
  /\ Done("release", handle[t], "none")
  /\ UNCHANGED <<residue, handle>>
  /\ IF handle[t] # NULL THEN pool' = [pool EXCEPT ![handle[t]] = [ResetContext(@) EXCEPT !.in_use = FALSE]]
     ELSE UNCHANGED pool

\* fx5_release returns nothing; a null handle is left alone.
Release(t) ==
  /\ Done("release", handle[t], "none")
  /\ UNCHANGED residue
  /\ \/ handle[t] = NULL /\ UNCHANGED <<pool, handle>>
     \/ /\ handle[t] # NULL
        /\ pool' = [pool EXCEPT ![handle[t]] =
                      IF @.in_use THEN [ResetContext(@) EXCEPT !.in_use = FALSE] ELSE @]
        /\ handle' = [handle EXCEPT ![t] = NULL]

\* The context a caller's handle points to.
Ctx(t) == pool[handle[t]]

\* Every other call: a null handle or a context not acquired is turned down
\* (fx5_require_acquired); else r is what the call gives.
Call(op, t, r) ==
  /\ UNCHANGED handle
  /\ IF handle[t] = NULL
     THEN Done(op, NULL, "NULL") /\ UNCHANGED pool
     ELSE IF ~Ctx(t).in_use
     THEN Done(op, handle[t], "NOT_ACQUIRED") /\ UNCHANGED pool
     ELSE /\ pool' = [pool EXCEPT ![handle[t]] = r.ctx]
          /\ Done(op, handle[t], r.st)

CallReset(t) == Call("reset", t, Reset(Ctx(t))) /\ UNCHANGED residue

CallSettings(t) ==
  /\ \/ \E s \in SomeSettings : Call("settings", t, SetNetworkSettings(Ctx(t), s))
     \/ \E h \in SomeHeaders : Call("header", t, SetHeaderMode(Ctx(t), h))
     \/ \E m \in SomeTimers : Call("timer", t, SetMonitoringTimer(Ctx(t), m))
  /\ UNCHANGED residue

\* A slot the call cleared holds nothing from before it.
CallSetRequest(t) ==
  /\ \E cmd \in SomeCommands, dev \in SomeDevices, addr \in SomeAddresses, n \in SomeCounts :
       Call("set_request", t, SetRequest(Ctx(t), cmd, dev, addr, n))
  /\ residue' = IF last'.st = "OK"
                THEN [residue EXCEPT ![handle[t]] = {v \in @ : pool'[handle[t]].values[v] # {}}]
                ELSE residue

\* A word write puts the owner's value over what was there; a bit write leaves
\* the fifteen bits beside it.
CallSetWriteValue(t) ==
  \E i \in SomeIndexes, v \in SomeWords :
    /\ Call("set_write_value", t, SetWriteValue(Ctx(t), i, v))
    /\ residue' = IF last'.st = "OK" /\ ~IsBitDevice(Ctx(t).device)
                  THEN [residue EXCEPT ![handle[t]] = @ \ {i}] ELSE residue

CallBuild(t) ==
  /\ \E size \in SomeBufSizes : Call("build", t, BuildRequest(Ctx(t), size))
  /\ UNCHANGED residue

CallFeed(t) ==
  /\ \E bytes \in SomeChunks : Call("feed", t, FeedResponseBytes(Ctx(t), bytes))
  /\ UNCHANGED residue

CallParse(t) ==
  /\ Call("parse", t, ParseResponse(Ctx(t)))
  /\ residue' = IF last'.st = "OK" /\ Ctx(t).command = "READ" /\ ~IsBitDevice(Ctx(t).device)
                THEN [residue EXCEPT ![handle[t]] = @ \ (0 .. Ctx(t).count - 1)]
                ELSE residue

Next ==
  \E t \in Callers :
    \/ Acquire(t) \/ Release(t) \/ CallReset(t) \/ CallSettings(t)
    \/ CallSetRequest(t) \/ CallSetWriteValue(t)
    \/ CallBuild(t) \/ CallFeed(t) \/ CallParse(t)

Spec == Init /\ [][Next]_vars
-----------------------------------------------------------------------------
Statuses == {"OK", "NULL", "TOO_SMALL", "NEED_MORE", "INVALID_ADDRESS", "INVALID_COUNT",
             "INVALID_INDEX", "UNSUPPORTED", "RESYNC", "NO_CONTEXT", "NOT_ACQUIRED",
             "STATE", "RESPONSE_ERROR"}

Serials      == 0 .. SerialRange - 1
Addresses    == 0 .. MaxAddress
Codes        == 0 .. 255 + 256 * 255
SettingsType == [header : Headers, timer : {"zero", "default"} \cup SomeTimers]

ContextType ==
  [in_use : BOOLEAN, settings : SettingsType, next_serial : Serials, serial : Serials,
   device : Devices \cup {"none"}, command : Commands \cup {"none"}, address : Addresses,
   count : Nat, code : Codes, values : [Slots -> Words], rx : Seq(0 .. 255)]

TypeOK ==
  /\ pool \in [PoolSlots -> ContextType]
  /\ \A k \in PoolSlots : Len(pool[k].rx) <= IoBufSize
  /\ handle \in [Callers -> PoolSlots \cup {NULL}]
  /\ last.st \in Statuses \cup {"none"}
  /\ residue \in [PoolSlots -> SUBSET Slots]

\* A context has exactly one owner while it is in use and none while it is
\* free: no two callers share one, none is lost to the pool, and no call finds
\* its context not acquired.
OneOwner ==
  /\ \A k \in PoolSlots : pool[k].in_use <=> \E t \in Callers : handle[t] = k
  /\ \A t, u \in Callers : handle[t] = handle[u] /\ handle[t] # NULL => t = u

\* Whatever calls came before, on whatever device, the value count stays within
\* what the value store holds for the device: every index below the count that
\* fx5_set_write_value, fx5_get_response_value, the builder and the parser use
\* names a word inside values[].
CountWithinStore ==
  \A k \in PoolSlots : \A i \in 0 .. pool[k].count - 1 :
    (IF IsBitDevice(pool[k].device) THEN SlotOf(i) ELSE i) \in Slots

\* Every request the library would build fits the size the header file tells
\* callers to allocate, FX5_MAX_REQUEST_SIZE: with it no build is TOO_SMALL.
RequestsFit ==
  \A k \in PoolSlots :
    ValidateStatus(pool[k]) = "OK" => BuildStatus(pool[k], MaxRequestSize) = "OK"

\* What an owner can read or send holds nothing an earlier owner left: "no
\* residual state is visible to the next user" (fx5_release, fx5.h:267).
NoResidue ==
  \A k \in PoolSlots : \A i \in 0 .. pool[k].count - 1 :
    (IF IsBitDevice(pool[k].device) THEN SlotOf(i) ELSE i) \notin residue[k]

\* A call other than parse that fails changes nothing: a refused request leaves
\* the one before it, bytes that do not all fit are all refused, and a request
\* too big for the buffer does not use up a serial.
FailuresChangeNothing ==
  [][last'.st \notin {"OK", "none"} /\ last'.op # "parse" => UNCHANGED <<pool, handle>>]_vars

\* Parsing makes progress: unless it asks for more bytes it takes some, so a
\* caller that parses until more are needed stops, after errors too.
ParseTakesBytes ==
  [][\A k \in PoolSlots :
       last'.op = "parse" /\ last'.st \in {"OK", "INVALID_COUNT", "RESPONSE_ERROR", "RESYNC"}
         /\ k = last'.on
       => Len(pool'[k].rx) < Len(pool[k].rx)]_vars

\* Only an answer that is accepted changes what was asked or read: after more
\* bytes are needed, or after a frame is refused, count and values are as before.
RefusedParseKeepsValues ==
  [][last'.op = "parse" /\ last'.st \in {"NEED_MORE", "RESYNC", "INVALID_COUNT"}
     => \A k \in PoolSlots : /\ pool'[k].values = pool[k].values
                             /\ pool'[k].count = pool[k].count]_vars

\* An answer "more bytes are needed" is final until bytes come: the same call
\* again returns the same and leaves the buffer as it is.
NeedMoreIsStable ==
  last.op = "parse" /\ last.st = "NEED_MORE"
    => LET c == pool[last.on] IN ParseResponse(c) = Fail("NEED_MORE", c)
=============================================================================

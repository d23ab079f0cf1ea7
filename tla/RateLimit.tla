----------------------------- MODULE RateLimit -----------------------------
(***************************************************************************)
(* The sliding-window limiter of the API (server/rateLimit.ts              *)
(* keyedRateLimit): a map from client to the times of its hits, of bounded *)
(* size.  A live entry is never evicted; a full map refuses new clients    *)
(* until a sweep, which is throttled, frees room.                          *)
(***************************************************************************)
EXTENDS Integers, Sequences, FiniteSets

CONSTANTS
  Key,       \* clients
  Limit,     \* hits a client may have in a window
  WindowMs,  \* length of the window
  MaxKeys,   \* entries the map may hold
  MinSweep,  \* MIN_SWEEP_INTERVAL_MS
  MaxTime    \* bound

VARIABLES
  now,
  hits,               \* hits[k]: times of k's recorded hits, <<>> for no entry
  sweepBlockedUntil,
  allowed,            \* history: the times k was let through, in this window
  futile               \* history: the time of the last sweep that freed nothing

vars == <<now, hits, sweepBlockedUntil, allowed, futile>>

Entries == {k \in Key : hits[k] # <<>>}

ExpiresAt(k) == hits[k][Len(hits[k])] + WindowMs
Expired      == {k \in Entries : ExpiresAt(k) <= now}

(* Times leave from the front, up to the first that is in the window of t. *)
First(times, t) ==
  CHOOSE i \in 1 .. Len(times) + 1 :
    /\ \A j \in 1 .. i - 1 : t - times[j] >= WindowMs
    /\ i <= Len(times) => t - times[i] < WindowMs
Shifted(times, t) == SubSeq(times, First(times, t), Len(times))

(* sweep: whether it freed room, and what it leaves.                       *)
MaySweep == now >= sweepBlockedUntil
Kept     == [k \in Key |-> IF k \in Expired THEN <<>> ELSE hits[k]]
Freed    == Cardinality(Entries \ Expired) < MaxKeys

Soonest == CHOOSE t \in {ExpiresAt(k) : k \in Entries \ Expired} :
             \A k \in Entries \ Expired : t <= ExpiresAt(k)

Later(t, u) == IF t < u THEN u ELSE t

(* Mutant of BlockSweep: wait until every entry is sure to have expired.   *)
BlockSweepLong == Later(Soonest, now + WindowMs) + MinSweep

BlockSweep == Later(Soonest, now + MinSweep)

(* Mutants of Judge: only what is on record is counted, and old hits stay. *)
JudgeForgetful(k, record) ==
  /\ hits' = [record EXCEPT ![k] = <<now>>]
  /\ allowed' = [allowed EXCEPT ![k] = Append(@, now)]

(* The rest of hit: expired hits are shifted out, and the client is served *)
(* unless its budget is spent.                                             *)
Judge(k, record) ==
  LET mine == Shifted(record[k], now)
  IN  IF Len(mine) >= Limit
      THEN hits' = [record EXCEPT ![k] = mine] /\ UNCHANGED allowed
      ELSE /\ hits' = [record EXCEPT ![k] = Append(mine, now)]
           /\ allowed' = [allowed EXCEPT ![k] = Append(@, now)]

(* hit(k) for a client on record, or while the map has room.               *)
Hit(k) ==
  /\ k \in Entries \/ Cardinality(Entries) < MaxKeys
  /\ Judge(k, hits)
  /\ UNCHANGED <<now, sweepBlockedUntil, futile>>

(* hit(k) of a new client that finds the map full, and a sweep makes room. *)
HitAfterSweep(k) ==
  /\ k \notin Entries /\ Cardinality(Entries) >= MaxKeys
  /\ MaySweep /\ Freed
  /\ sweepBlockedUntil' = 0
  /\ Judge(k, Kept)
  /\ UNCHANGED <<now, futile>>

(* The sweep frees nothing: at-capacity, and no sweep for a while.         *)
HitAtCapacity(k) ==
  /\ k \notin Entries /\ Cardinality(Entries) >= MaxKeys
  /\ MaySweep /\ ~Freed
  /\ hits' = Kept
  /\ sweepBlockedUntil' = BlockSweep
  /\ futile' = now
  /\ UNCHANGED <<now, allowed>>

(* While sweeps are blocked a new client is refused, and nothing changes.  *)

Advance ==
  /\ now < MaxTime
  /\ now' = now + 1
  /\ allowed' = [k \in Key |-> Shifted(allowed[k], now + 1)]
  /\ UNCHANGED <<hits, sweepBlockedUntil, futile>>

Init ==
  /\ now = 0
  /\ hits = [k \in Key |-> <<>>]
  /\ sweepBlockedUntil = 0
  /\ allowed = [k \in Key |-> <<>>]
  /\ futile = -MinSweep

Next ==
  \/ \E k \in Key : Hit(k) \/ HitAfterSweep(k) \/ HitAtCapacity(k)
  \/ Advance

----------------------------------------------------------------------------
TypeOK ==
  /\ now \in 0 .. MaxTime
  /\ \A k \in Key : \A i \in 1 .. Len(hits[k]) : hits[k][i] \in 0 .. MaxTime
  /\ sweepBlockedUntil \in Nat
  /\ Cardinality(Entries) <= MaxKeys
  /\ DOMAIN allowed = Key

(* No window of a client holds more than Limit requests, whatever the map  *)
(* forgets to make room: flooding it with other clients resets nobody.     *)
BudgetHolds == \A k \in Key : Len(allowed[k]) <= Limit

(* A full map takes new clients again once an entry has expired, no later  *)
(* than a throttled sweep allows: sweeps are never blocked past the first  *)
(* moment at which they can free room.                                     *)
CapacityRecovers ==
  Expired # {} /\ now >= futile + MinSweep => now >= sweepBlockedUntil
============================================================================

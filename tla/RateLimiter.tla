----------------------------- MODULE RateLimiter -----------------------------
(***************************************************************************)
(* RateLimitMiddleware (src/src/modules/middleware/rate-limit.middleware.ts)*)
(* in every process: a map from addresses to the times of the requests it   *)
(* let through.  use() does not await, so it is one step.  A time is the     *)
(* place of its request in `admitted`, which lets the properties speak of    *)
(* requests the middleware has forgotten; the code only filters and counts   *)
(* its list, so a set of places stands for it.  Date.now() is taken never to *)
(* run backwards.                                                            *)
(***************************************************************************)
EXTENDS Integers, Sequences, FiniteSets

CONSTANTS
  Process,  \* API processes, each with its own map
  Address,  \* client addresses
  Limit,    \* requests let through per window (100)
  Window,   \* its length (60 s)
  MaxTime   \* bound: when a run's clock stops

ASSUME LimiterAssumption ==
  Limit \in Nat \ {0} /\ Window \in Nat \ {0} /\ MaxTime \in Nat

VARIABLES
  now,       \* Date.now()
  admitted,  \* [p][a]: times of the requests let through, oldest first
  requests   \* [p][a]: the places of those in the middleware's list

limiter == <<now, admitted, requests>>

LimiterInit ==
  /\ now = 0
  /\ admitted = [p \in Process |-> [a \in Address |-> <<>>]]
  /\ requests = [p \in Process |-> [a \in Address |-> {}]]

\* timestamps.filter((time) => now - time < this.windowMs).  Mutant: <=.
TimestampsAtWindow(p, a) == {i \in requests[p][a] : now - admitted[p][a][i] <= Window}
Timestamps(p, a) == {i \in requests[p][a] : now - admitted[p][a][i] < Window}

\* timestamps.length >= this.limit throws.  Mutant: >.
FullAfterLimit(p, a) == Cardinality(Timestamps(p, a)) > Limit
Full(p, a) == Cardinality(Timestamps(p, a)) >= Limit

\* The filtered list with the new time replaces the stored one.
Admit(p, a) ==
  /\ ~Full(p, a)
  /\ admitted' = [admitted EXCEPT ![p][a] = Append(@, now)]
  /\ requests' = [requests EXCEPT ![p][a] = Timestamps(p, a) \cup {Len(admitted[p][a]) + 1}]
  /\ UNCHANGED now

\* A refused request is not stored, and neither is the filtered list.
Refuse(p, a) == Full(p, a) /\ UNCHANGED limiter

Tick ==
  /\ now < MaxTime
  /\ now' \in (now + 1)..MaxTime
  /\ UNCHANGED <<admitted, requests>>

LimiterNext == Tick \/ \E p \in Process, a \in Address : Admit(p, a) \/ Refuse(p, a)
LimiterSpec == LimiterInit /\ [][LimiterNext]_limiter

----------------------------------------------------------------------------
\* In one process no window of the limit's length, wherever it begins, sees more
\* than Limit requests of an address, although the middleware forgets old times
\* and rewrites its list at every request (rate-limit.middleware.ts:28-35).
WindowBound ==
  \A p \in Process, a \in Address : \A i, j \in DOMAIN admitted[p][a] :
    j = i + Limit => admitted[p][a][j] - admitted[p][a][i] >= Window

=============================================================================

---------------------------- MODULE RateLimiter -----------------------------
(***************************************************************************)
(* middleware.RateLimiter: a sliding window of request times for each key,  *)
(* shared by the handlers and the cleanup, under one mutex.  A call of      *)
(* Allow reads the clock twice.  The times of a key are a set of numbered   *)
(* requests: the code never looks at their order.                           *)
(***************************************************************************)
EXTENDS Naturals, FiniteSets

CONSTANTS Callers, Limit, Window,
          MaxRequests,   \* bound: requests that are let through
          MaxTicks        \* bound: ticks

ASSUME LimiterAssumption == Limit \in Nat /\ Window \in Nat \ {0}
ASSUME LimiterBounds == MaxRequests \in Nat /\ MaxTicks \in Nat

VARIABLES
  times,     \* RateLimiter.requests; an absent key has no times
  clock,
  count,     \* the requests let through so far, to number them
  allowed    \* history: the requests let through for each key, at the recorded time

limiterVars == <<times, clock, count, allowed>>

LimiterInit ==
  /\ times = [k \in Callers |-> {}] /\ allowed = [k \in Callers |-> {}]
  /\ clock = 0 /\ count = 0

-----------------------------------------------------------------------------
(* Faulty: the oldest instant of the window is pruned too. *)
PruneBeforeEarly(s) == {r \in s : r.at + Window > clock + 1}

(* pruneBefore, with the cutoff one window before the clock. *)
PruneBefore(s) == {r \in s : r.at + Window > clock}

(* Allow lets a request through and records it, at the clock's next reading. *)
Allow(k) ==
  /\ count < MaxRequests
  /\ Cardinality(PruneBefore(times[k])) < Limit
  /\ \E later \in clock..MaxTicks :
       /\ clock' = later
       /\ count' = count + 1
       /\ LET r == [id |-> count + 1, at |-> later]
          IN /\ times' = [times EXCEPT ![k] = PruneBefore(@) \union {r}]
             /\ allowed' = [allowed EXCEPT ![k] = @ \union {r}]

(* Allow refuses: 429. *)
Reject(k) ==
  /\ Cardinality(PruneBefore(times[k])) >= Limit
  /\ times' = [times EXCEPT ![k] = PruneBefore(@)]
  /\ UNCHANGED <<clock, count, allowed>>

(* A tick of StartCleanup; a key without times is deleted. *)
Cleanup ==
  /\ times' = [k \in Callers |-> PruneBefore(times[k])]
  /\ UNCHANGED <<clock, count, allowed>>

ClockTicks ==
  /\ clock < MaxTicks
  /\ clock' = clock + 1
  /\ UNCHANGED <<times, count, allowed>>

LimiterNext == ClockTicks \/ Cleanup \/ \E k \in Callers : Allow(k) \/ Reject(k)

LimiterSpec == LimiterInit /\ [][LimiterNext]_limiterVars

-----------------------------------------------------------------------------
Timed == [id : Nat, at : Nat]

LimiterTypeOK ==
  /\ times \in [Callers -> SUBSET Timed] /\ allowed \in [Callers -> SUBSET Timed]
  /\ clock \in Nat /\ count \in Nat

(* What a key was let through in the window that ends with r. *)
WindowOf(k, r) == {s \in allowed[k] : s.at <= r.at /\ s.at + Window > r.at}

(* No window of time, wherever it ends, holds more than Limit requests of one key, *)
(* whatever the cleanup and the refusals have pruned in between.                   *)
NeverOverLimit == \A k \in Callers : \A r \in allowed[k] : Cardinality(WindowOf(k, r)) <= Limit

(* What makes it inductive: all that can still count against a key is kept. *)
StillKept ==
  \A k \in Callers : \A r \in allowed[k] :
    /\ r.at <= clock /\ r.id <= count
    /\ r.at + Window > clock => r \in times[k]

KeptWereAllowed == \A k \in Callers : times[k] \subseteq allowed[k] /\ IsFiniteSet(allowed[k])

LimiterInv == LimiterTypeOK /\ StillKept /\ KeptWereAllowed /\ NeverOverLimit

=============================================================================

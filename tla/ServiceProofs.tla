--------------------------- MODULE ServiceProofs ---------------------------
(***************************************************************************)
(* What is proved of four small services, each on its own: the rate         *)
(* limiter, for every limit, window and set of keys; donations, for any      *)
(* number of sessions and deliveries; the tool server, for any number of     *)
(* connectors, logins and requests, and for any lifetimes that keep the      *)
(* assumption; who is a member, for every set of users and any number of     *)
(* requests.                                                                *)
(***************************************************************************)
EXTENDS RateLimiter, Donations, ToolServer, Membership, FiniteSetTheorems, TLAPS

-----------------------------------------------------------------------------
(* The rate limiter. *)

(* What Allow prunes is no part of a window that is still open. *)
LEMMA PrunedAreOver ==
  ASSUME LimiterInv, NEW k \in Callers
  PROVE  /\ PruneBefore(times[k]) \subseteq allowed[k]
         /\ PruneBefore(times[k]) = {r \in allowed[k] : r.at + Window > clock}
         /\ IsFiniteSet(PruneBefore(times[k]))
<1>1. times[k] \subseteq allowed[k] /\ IsFiniteSet(allowed[k])
  BY DEF LimiterInv, KeptWereAllowed
<1>2. \A r \in allowed[k] : r.at + Window > clock => r \in times[k]
  BY DEF LimiterInv, StillKept
<1>3. PruneBefore(times[k]) = {r \in allowed[k] : r.at + Window > clock}
  BY <1>1, <1>2 DEF PruneBefore
<1>4. PruneBefore(times[k]) \subseteq allowed[k]
  BY <1>3
<1>5. QED
  BY <1>1, <1>3, <1>4, FS_Subset

(* Adding an element makes a set larger by one at most. *)
LEMMA OneMore ==
  ASSUME NEW S, NEW x, NEW T, IsFiniteSet(S), T \subseteq S \union {x},
         Cardinality(S) < Limit
  PROVE  Cardinality(T) <= Limit
<1>1. IsFiniteSet(S \union {x}) /\ Cardinality(S) \in Nat
      /\ Cardinality(S \union {x}) <= Cardinality(S) + 1
  <2>1. Cardinality(S) \in Nat
    BY FS_CardinalityType
  <2>2. /\ IsFiniteSet(S \union {x})
        /\ \/ Cardinality(S \union {x}) = Cardinality(S)
           \/ Cardinality(S \union {x}) = Cardinality(S) + 1
    BY FS_AddElement, Zenon
  <2>3. QED
    BY <2>1, <2>2
<1>2. IsFiniteSet(T) /\ Cardinality(T) \in Nat /\ Cardinality(T) <= Cardinality(S \union {x})
  BY <1>1, FS_Subset, FS_CardinalityType
<1>3. Cardinality(S \union {x}) \in Nat
  BY <1>1, FS_CardinalityType
<1>4. QED
  BY <1>1, <1>2, <1>3, LimiterAssumption

LEMMA InitInv == LimiterInit => LimiterInv
<1> SUFFICES ASSUME LimiterInit PROVE LimiterInv
  OBVIOUS
<1>1. LimiterTypeOK
  BY DEF LimiterInit, LimiterTypeOK
<1>2. StillKept /\ NeverOverLimit
  BY DEF LimiterInit, StillKept, NeverOverLimit
<1>3. KeptWereAllowed
  BY FS_EmptySet DEF LimiterInit, KeptWereAllowed
<1>4. QED
  BY <1>1, <1>2, <1>3 DEF LimiterInv

(* A step that only prunes keeps the invariant. *)
LEMMA PruningStep ==
  ASSUME LimiterInv, allowed' = allowed, count' = count, clock' = clock,
         times' \in [Callers -> SUBSET Timed],
         \A k \in Callers : times'[k] \in {times[k], PruneBefore(times[k])}
  PROVE  LimiterInv'
<1>1. LimiterTypeOK'
  BY DEF LimiterInv, LimiterTypeOK
<1>2. StillKept'
  BY DEF LimiterInv, StillKept, PruneBefore
<1>3. KeptWereAllowed'
  BY DEF LimiterInv, KeptWereAllowed, PruneBefore
<1>4. NeverOverLimit'
  BY DEF LimiterInv, NeverOverLimit, WindowOf
<1>5. QED
  BY <1>1, <1>2, <1>3, <1>4 DEF LimiterInv

LEMMA AllowStep ==
  ASSUME LimiterInv, NEW k \in Callers, Allow(k)
  PROVE  LimiterInv'
<1> PICK later \in clock..MaxTicks :
       /\ clock' = later
       /\ times' = [times EXCEPT ![k] = PruneBefore(@) \union {[id |-> count + 1, at |-> later]}]
       /\ allowed' = [allowed EXCEPT ![k] = @ \union {[id |-> count + 1, at |-> later]}]
  BY DEF Allow
<1> DEFINE r == [id |-> count + 1, at |-> later]
<1>0. LimiterTypeOK /\ clock \in Nat /\ later \in Nat /\ later >= clock /\ count \in Nat
      /\ count' = count + 1 /\ Window \in Nat /\ MaxTicks \in Nat
  BY LimiterAssumption, LimiterBounds DEF LimiterInv, LimiterTypeOK, Allow
<1>1. /\ r \in Timed /\ r.at = later /\ r.id = count + 1
      /\ times' \in [Callers -> SUBSET Timed] /\ times'[k] = PruneBefore(times[k]) \union {r}
      /\ allowed' \in [Callers -> SUBSET Timed] /\ allowed'[k] = allowed[k] \union {r}
      /\ \A j \in Callers : j # k => times'[j] = times[j] /\ allowed'[j] = allowed[j]
  <2>1. r \in Timed /\ r.at = later /\ r.id = count + 1
    BY <1>0 DEF Timed
  <2>2. times \in [Callers -> SUBSET Timed] /\ allowed \in [Callers -> SUBSET Timed]
    BY <1>0 DEF LimiterTypeOK
  <2>3. PruneBefore(times[k]) \subseteq Timed
    BY <2>2 DEF PruneBefore
  <2>4. QED
    BY <2>1, <2>2, <2>3
<1> HIDE DEF r
<1>2. LimiterTypeOK'
  BY <1>0, <1>1 DEF LimiterTypeOK
<1>3. StillKept'
  <2> SUFFICES ASSUME NEW j \in Callers, NEW s \in allowed'[j]
               PROVE  /\ s.at <= clock' /\ s.id <= count'
                      /\ s.at + Window > clock' => s \in times'[j]
    BY DEF StillKept
  <2>1. CASE j = k /\ s = r
    BY <2>1, <1>0, <1>1
  <2>2. CASE ~(j = k /\ s = r)
    <3>1. s \in allowed[j] /\ s \in Timed
      BY <2>2, <1>0, <1>1 DEF LimiterTypeOK
    <3>2. s.at \in Nat /\ s.id \in Nat /\ s.at <= clock /\ s.id <= count
          /\ (s.at + Window > clock => s \in times[j])
      BY <3>1 DEF LimiterInv, StillKept, Timed
    <3>3. s.at + Window > later => s \in times[j] /\ s.at + Window > clock
      BY <3>2, <1>0
    <3>4. s.at + Window > later => s \in times'[j]
      BY <3>3, <1>1 DEF PruneBefore
    <3>5. QED
      BY <3>2, <3>4, <1>0
  <2>3. QED
    BY <2>1, <2>2
<1>4. KeptWereAllowed'
  <2> SUFFICES ASSUME NEW j \in Callers
               PROVE  times'[j] \subseteq allowed'[j] /\ IsFiniteSet(allowed'[j])
    BY DEF KeptWereAllowed
  <2>1. times[j] \subseteq allowed[j] /\ IsFiniteSet(allowed[j])
    BY DEF LimiterInv, KeptWereAllowed
  <2>2. CASE j = k
    BY <2>1, <2>2, <1>1, PrunedAreOver, FS_AddElement
  <2>3. CASE j # k
    BY <2>1, <2>3, <1>1
  <2>4. QED
    BY <2>2, <2>3
<1>5. NeverOverLimit'
  <2> SUFFICES ASSUME NEW j \in Callers, NEW s \in allowed'[j]
               PROVE  Cardinality(WindowOf(j, s)') <= Limit
    BY DEF NeverOverLimit, WindowOf
  <2>1. CASE j # k \/ s.at < later
    <3>1. s \in allowed[j] /\ s \in Timed
      BY <2>1, <1>0, <1>1 DEF LimiterTypeOK
    <3>2. WindowOf(j, s)' = WindowOf(j, s)
      BY <2>1, <3>1, <1>0, <1>1 DEF WindowOf, Timed
    <3>3. QED
      BY <3>1, <3>2 DEF LimiterInv, NeverOverLimit
  <2>2. CASE j = k /\ ~(s.at < later)
    <3>1. s.at \in Nat /\ s.at = later
      BY <2>2, <1>0, <1>1, <1>2, <1>3 DEF LimiterTypeOK, StillKept, Timed
    <3>2. WindowOf(k, s)' \subseteq PruneBefore(times[k]) \union {r}
      <4> SUFFICES ASSUME NEW q \in allowed'[k], q.at + Window > later, q # r
                   PROVE  q \in PruneBefore(times[k])
        BY <3>1 DEF WindowOf
      <4>1. q \in allowed[k] /\ q.at \in Nat
        BY <1>0, <1>1 DEF LimiterTypeOK, Timed
      <4>2. q.at + Window > clock
        BY <4>1, <1>0
      <4>3. QED
        BY <4>1, <4>2, PrunedAreOver
    <3>3. Cardinality(PruneBefore(times[k])) < Limit
      BY DEF Allow
    <3>4. IsFiniteSet(PruneBefore(times[k]))
      BY PrunedAreOver
    <3>5. QED
      BY <2>2, <3>2, <3>3, <3>4, OneMore
  <2>3. QED
    BY <2>1, <2>2
<1>6. QED
  BY <1>2, <1>3, <1>4, <1>5 DEF LimiterInv

LEMMA NextInv == LimiterInv /\ [LimiterNext]_limiterVars => LimiterInv'
<1> SUFFICES ASSUME LimiterInv, [LimiterNext]_limiterVars PROVE LimiterInv'
  OBVIOUS
<1>0. times \in [Callers -> SUBSET Timed]
  BY DEF LimiterInv, LimiterTypeOK
<1>1. CASE ClockTicks
  <2>1. clock \in Nat /\ clock' = clock + 1 /\ Window \in Nat
        /\ times' = times /\ allowed' = allowed /\ count' = count
    BY <1>1, LimiterAssumption DEF ClockTicks, LimiterInv, LimiterTypeOK
  <2>2. LimiterTypeOK'
    BY <2>1 DEF LimiterInv, LimiterTypeOK
  <2>3. StillKept'
    BY <2>1 DEF LimiterInv, LimiterTypeOK, StillKept, Timed
  <2>4. KeptWereAllowed' /\ NeverOverLimit'
    BY <2>1 DEF LimiterInv, KeptWereAllowed, NeverOverLimit, WindowOf
  <2>5. QED
    BY <2>2, <2>3, <2>4 DEF LimiterInv
<1>2. CASE Cleanup
  <2>1. times' \in [Callers -> SUBSET Timed]
    BY <1>0, <1>2 DEF Cleanup, PruneBefore
  <2>2. QED
    BY <2>1, <1>2, PruningStep DEF Cleanup
<1>3. ASSUME NEW k \in Callers, Reject(k) PROVE LimiterInv'
  <2>1. times' \in [Callers -> SUBSET Timed]
    BY <1>0, <1>3 DEF Reject, PruneBefore
  <2>2. \A j \in Callers : times'[j] \in {times[j], PruneBefore(times[j])}
    BY <1>0, <1>3 DEF Reject
  <2>3. QED
    BY <2>1, <2>2, <1>3, PruningStep DEF Reject
<1>4. CASE UNCHANGED limiterVars
  BY <1>0, <1>4, PruningStep DEF limiterVars
<1>5. QED
  BY <1>1, <1>2, <1>3, <1>4, AllowStep DEF LimiterNext

(* The types of the limiter's state. *)
THEOREM LimiterTypes == LimiterSpec => []LimiterTypeOK
<1>1. LimiterInv => LimiterTypeOK
  BY DEF LimiterInv
<1>2. QED
  BY InitInv, NextInv, <1>1, PTL DEF LimiterSpec

(* No key ever gets more than Limit requests through in any window of time, *)
(* however refusals, cleanups and the passing of time interleave.           *)
THEOREM WindowsHold == LimiterSpec => []NeverOverLimit
<1>1. LimiterInv => NeverOverLimit
  BY DEF LimiterInv
<1>2. QED
  BY InitInv, NextInv, <1>1, PTL DEF LimiterSpec

-----------------------------------------------------------------------------
(* Donations. *)

Delivery == [id : Nat, session : Sessions, status : {"paid", "unpaid"}, answer : {0, 200, 400, 500}]
Recorded(s) == \E r \in donations : r.session = s

ServiceInv ==
  /\ checkout \in [Sessions -> {"none", "open", "paid", "unpaid"}]
  /\ delivered \in Nat

(* A delivery carries what its session ended with, and its number is an old one. *)
DeliveriesInv ==
  \A d \in deliveries : d \in Delivery /\ checkout[d.session] = d.status /\ d.id \in 1..delivered

(* The table's key, and that its rows are for sessions that were paid. *)
RowsInv ==
  /\ \A r \in donations : r.session \in Sessions /\ checkout[r.session] = "paid"
  /\ \A r, q \in donations : r.session = q.session => r = q

(* A 2xx, under way or seen, says that there is nothing left to record. *)
AnswersInv ==
  /\ \A d \in deliveries : d.answer = 200 /\ d.status = "paid" => Recorded(d.session)
  /\ \A s \in acked : /\ s \in Sessions /\ checkout[s] \in {"paid", "unpaid"}
                      /\ checkout[s] = "paid" => Recorded(s)

DonationsInv == ServiceInv /\ DeliveriesInv /\ RowsInv /\ AnswersInv

-----------------------------------------------------------------------------
LEMMA DonationsStart == DonationsInit => DonationsInv
  BY DEF DonationsInit, DonationsInv, ServiceInv, DeliveriesInv, RowsInv, AnswersInv, Recorded

(* A session that moves on was not over, so no delivery, row or answer is about it. *)
LEMMA CheckoutStep ==
  ASSUME DonationsInv, NEW s \in Sessions, CreateCheckoutSession(s) \/ Complete(s)
  PROVE  DonationsInv'
<1>1. PICK status \in {"open", "paid", "unpaid"} :
        checkout[s] \in {"none", "open"} /\ checkout' = [checkout EXCEPT ![s] = status]
  BY DEF CreateCheckoutSession, Complete
<1>2. UNCHANGED <<deliveries, delivered, donations, acked>>
  BY DEF CreateCheckoutSession, Complete
<1>3. \A t \in Sessions : checkout[t] \in {"paid", "unpaid"} => checkout'[t] = checkout[t]
  BY <1>1 DEF DonationsInv, ServiceInv
<1>4. ServiceInv'
  BY <1>1, <1>2 DEF DonationsInv, ServiceInv
<1>5. DeliveriesInv'
  BY <1>2, <1>3 DEF DonationsInv, DeliveriesInv, Delivery
<1>6. RowsInv'
  BY <1>2, <1>3 DEF DonationsInv, RowsInv
<1>7. AnswersInv'
  BY <1>2, <1>3 DEF DonationsInv, AnswersInv, Recorded
<1>8. QED
  BY <1>4, <1>5, <1>6, <1>7 DEF DonationsInv

LEMMA DeliverStep ==
  ASSUME DonationsInv, NEW s \in Sessions, Deliver(s)
  PROVE  DonationsInv'
<1>1. PICK new : new = [id |-> delivered + 1, session |-> s, status |-> checkout[s], answer |-> 0]
  OBVIOUS
<1>2. deliveries' = deliveries \union {new} /\ delivered' = delivered + 1
  BY <1>1 DEF Deliver
<1>3. UNCHANGED <<checkout, donations, acked>>
  BY DEF Deliver
<1>4. /\ new \in Delivery /\ checkout[new.session] = new.status
      /\ new.id \in 1..(delivered + 1) /\ new.answer # 200
  BY <1>1 DEF Deliver, DonationsInv, ServiceInv, Delivery
<1>5. ServiceInv' /\ RowsInv'
  BY <1>2, <1>3 DEF DonationsInv, ServiceInv, RowsInv
<1>6. DeliveriesInv'
  BY <1>2, <1>3, <1>4 DEF DonationsInv, ServiceInv, DeliveriesInv
<1>7. AnswersInv'
  BY <1>2, <1>3, <1>4 DEF DonationsInv, AnswersInv, Recorded
<1>8. QED
  BY <1>5, <1>6, <1>7 DEF DonationsInv

(* An answer that promises no more than the table holds keeps the invariant. *)
LEMMA AnsweredStep ==
  ASSUME DonationsInv, RowsInv', NEW d \in deliveries, NEW code \in {200, 400, 500},
         Answered(d, code), UNCHANGED <<checkout, delivered, acked>>,
         donations \subseteq donations',
         code = 200 /\ d.status = "paid" => Recorded(d.session)'
  PROVE  DonationsInv'
<1>1. PICK new : new = [d EXCEPT !.answer = code]
  OBVIOUS
<1>2. deliveries' = (deliveries \ {d}) \union {new}
  BY <1>1 DEF Answered
<1>3. d \in Delivery /\ checkout[d.session] = d.status /\ d.id \in 1..delivered
  BY DEF DonationsInv, DeliveriesInv
<1>4. /\ new \in Delivery /\ new.answer = code
      /\ new.id = d.id /\ new.session = d.session /\ new.status = d.status
  BY <1>1, <1>3 DEF Delivery
<1>5. ASSUME NEW s, Recorded(s) PROVE Recorded(s)'
  BY <1>5 DEF Recorded
<1>6. ServiceInv'
  BY DEF DonationsInv, ServiceInv
<1>7. DeliveriesInv'
  BY <1>2, <1>3, <1>4 DEF DonationsInv, DeliveriesInv
<1>8. AnswersInv'
  <2>1. ASSUME NEW e \in deliveries', e.answer = 200, e.status = "paid"
        PROVE  Recorded(e.session)'
    <3>1. CASE e = new
      <4>1. Recorded(d.session)'
        BY <1>4, <2>1, <3>1
      <4>2. QED
        BY <1>4, <3>1, <4>1 DEF Recorded
    <3>2. CASE e \in deliveries
      BY <2>1, <3>2 DEF DonationsInv, AnswersInv, Recorded
    <3>3. QED
      BY <1>2, <3>1, <3>2
  <2>2. ASSUME NEW s \in acked'
        PROVE  /\ s \in Sessions /\ checkout'[s] \in {"paid", "unpaid"}
               /\ checkout'[s] = "paid" => Recorded(s)'
    BY <2>2 DEF DonationsInv, AnswersInv, Recorded
  <2>3. QED
    BY <2>1, <2>2 DEF AnswersInv
<1>9. QED
  BY <1>6, <1>7, <1>8 DEF DonationsInv

LEMMA NothingToRecordStep ==
  ASSUME DonationsInv, NEW d \in deliveries, NothingToRecord(d)
  PROVE  DonationsInv'
<1>1. UNCHANGED <<checkout, delivered, donations, acked>>
  BY DEF NothingToRecord
<1>2. RowsInv'
  BY <1>1 DEF DonationsInv, RowsInv
<1>3. CASE d.status # "paid" /\ Answered(d, 200)
  BY <1>1, <1>2, <1>3, AnsweredStep
<1>4. CASE Answered(d, 400)
  BY <1>1, <1>2, <1>4, AnsweredStep
<1>5. QED
  BY <1>3, <1>4 DEF NothingToRecord

(* The conflict clause keeps a session to one row; a 200 is sent with the row there. *)
LEMMA RecordStep ==
  ASSUME DonationsInv, NEW d \in deliveries, RecordCompleted(d)
  PROVE  DonationsInv'
<1>1. UNCHANGED <<checkout, delivered, acked>> /\ d.status = "paid"
  BY DEF RecordCompleted
<1>2. d \in Delivery /\ checkout[d.session] = "paid"
  BY <1>1 DEF DonationsInv, DeliveriesInv
<1>3. CASE Answered(d, 500) /\ UNCHANGED donations
  <2>1. RowsInv'
    BY <1>1, <1>3 DEF DonationsInv, RowsInv
  <2>2. QED
    BY <1>1, <1>3, <2>1, AnsweredStep
<1>4. CASE Answered(d, 200) /\ Recorded(d.session) /\ UNCHANGED donations
  <2>1. RowsInv'
    BY <1>1, <1>4 DEF DonationsInv, RowsInv
  <2>2. Recorded(d.session)'
    BY <1>4 DEF Recorded
  <2>3. QED
    BY <1>1, <1>4, <2>1, <2>2, AnsweredStep
<1>5. CASE /\ Answered(d, 200) /\ ~Recorded(d.session)
           /\ donations' = donations \union {[id |-> d.id, session |-> d.session]}
  <2>1. PICK row : row = [id |-> d.id, session |-> d.session]
    OBVIOUS
  <2>2. donations' = donations \union {row} /\ row.session = d.session
    BY <1>5, <2>1
  <2>3. RowsInv'
    BY <1>1, <1>2, <1>5, <2>2 DEF DonationsInv, RowsInv, Recorded, Delivery
  <2>4. Recorded(d.session)'
    BY <2>2 DEF Recorded
  <2>5. QED
    BY <1>1, <1>5, <2>2, <2>3, <2>4, AnsweredStep
<1>6. QED
  BY <1>3, <1>4, <1>5 DEF RecordCompleted, Recorded

LEMMA AnswerStep ==
  ASSUME DonationsInv, NEW d \in deliveries, Answer(d) \/ AnswerLost(d)
  PROVE  DonationsInv'
<1>1. deliveries' = deliveries \ {d} /\ UNCHANGED <<checkout, delivered, donations>>
  BY DEF Answer, AnswerLost
<1>2. acked' \subseteq acked \/ (d.answer = 200 /\ acked' = acked \union {d.session})
  BY DEF Answer, AnswerLost
<1>3. d \in Delivery /\ checkout[d.session] = d.status
  BY DEF DonationsInv, DeliveriesInv
<1>4. d.answer = 200 /\ d.status = "paid" => Recorded(d.session)
  BY DEF DonationsInv, AnswersInv
<1>5. ServiceInv' /\ DeliveriesInv' /\ RowsInv'
  BY <1>1 DEF DonationsInv, ServiceInv, DeliveriesInv, RowsInv
<1>6. AnswersInv'
  <2>1. \A s \in acked' : s \in acked \/ (s = d.session /\ d.answer = 200)
    BY <1>2
  <2>2. QED
    BY <1>1, <1>3, <1>4, <2>1 DEF DonationsInv, AnswersInv, Recorded, Delivery
<1>7. QED
  BY <1>5, <1>6 DEF DonationsInv

LEMMA DonationsStep == DonationsInv /\ [DonationsNext]_donationVars => DonationsInv'
<1> SUFFICES ASSUME DonationsInv, [DonationsNext]_donationVars PROVE DonationsInv'
  OBVIOUS
<1>1. CASE UNCHANGED donationVars
  BY <1>1 DEF donationVars, DonationsInv, ServiceInv, DeliveriesInv, RowsInv, AnswersInv, Recorded
<1>2. ASSUME NEW s \in Sessions, CreateCheckoutSession(s) \/ Complete(s) \/ Deliver(s)
      PROVE  DonationsInv'
  BY <1>2, CheckoutStep, DeliverStep
<1>3. ASSUME NEW d \in deliveries,
             NothingToRecord(d) \/ RecordCompleted(d) \/ Answer(d) \/ AnswerLost(d)
      PROVE  DonationsInv'
  BY <1>3, NothingToRecordStep, RecordStep, AnswerStep
<1>4. QED
  BY <1>1, <1>2, <1>3 DEF DonationsNext

-----------------------------------------------------------------------------
(* One row at most, as the table's key says, for a session that was paid, and a *)
(* row for each paid session that the service has seen a 2xx for.               *)
LEMMA CountedOnce == DonationsInv => PaidIsCountedOnce
<1> SUFFICES ASSUME DonationsInv, NEW s \in Sessions
             PROVE  /\ Cardinality(Rows(s)) <= 1
                    /\ Rows(s) # {} => checkout[s] = "paid"
                    /\ checkout[s] = "paid" /\ s \in acked => Rows(s) # {}
  BY DEF PaidIsCountedOnce
<1>1. Cardinality(Rows(s)) <= 1
  <2>1. CASE Rows(s) = {}
    BY <2>1, FS_EmptySet
  <2>2. ASSUME NEW r \in Rows(s) PROVE Cardinality(Rows(s)) <= 1
    <3>1. Rows(s) = {r}
      BY <2>2 DEF Rows, DonationsInv, RowsInv
    <3>2. Cardinality({r}) = 1
      BY FS_Singleton
    <3>3. QED
      BY <3>1, <3>2
  <2>3. QED
    BY <2>1, <2>2
<1>2. Rows(s) # {} => checkout[s] = "paid"
  BY DEF Rows, DonationsInv, RowsInv
<1>3. checkout[s] = "paid" /\ s \in acked => Rows(s) # {}
  BY DEF Rows, DonationsInv, AnswersInv, Recorded
<1>4. QED
  BY <1>1, <1>2, <1>3

LEMMA DonationsInductive == DonationsSpec => []DonationsInv
  BY DonationsStart, DonationsStep, PTL DEF DonationsSpec

(* The table, the deliveries and what the service has seen are well typed. *)
THEOREM DonationsTypeCorrect == DonationsSpec => []DonationsTypeOK
<1>1. DonationsInv => DonationsTypeOK
  BY DEF DonationsInv, ServiceInv, DeliveriesInv, AnswersInv, Delivery, DonationsTypeOK
<1>2. QED
  BY <1>1, DonationsInductive, PTL

(* However the deliveries of a payment repeat, overlap, fail or lose their answers, *)
(* the webhook records the payment once, and says so only when it has.             *)
THEOREM DonationsAreCountedOnce == DonationsSpec => []PaidIsCountedOnce
  BY CountedOnce, DonationsInductive, PTL

-----------------------------------------------------------------------------
(* The tool server.  Its two inductive invariants share nothing. *)

Codes == [login : 1..MaxLogins, client : Connectors, expiresAt : Nat]
RefreshTokens == [id : Nat, client : Connectors, login : 1..MaxLogins]

(* A login has a code and has not been exchanged, or has been exchanged once   *)
(* and may have a refresh token, or has neither.                             *)
GrantInv ==
  /\ now \in Nat /\ logins \in Nat /\ issued \in Nat
  /\ codes \subseteq Codes /\ refreshTokens \subseteq RefreshTokens
  /\ exchanged \in [1..MaxLogins -> 0..1]
  /\ \A k \in codes : k.login <= logins /\ exchanged[k.login] = 0
  /\ \A t \in refreshTokens : exchanged[t.login] = 1
  /\ \A l \in 1..MaxLogins : l > logins => exchanged[l] = 0
  /\ \A s, t \in codes : s.login = t.login => s = t
  /\ \A s, t \in refreshTokens : s.login = t.login => s = t

(* What GrantInv is about. *)
grantVars == <<now, logins, issued, codes, refreshTokens, exchanged>>

-----------------------------------------------------------------------------
(* At the start there is nothing. *)
LEMMA GrantInit == Init => GrantInv
  BY BoundsAssumption DEF Init, GrantInv, Codes, RefreshTokens

(* A new login has no code, no token and no exchange. *)
LEMMA GrantAuthorize ==
  ASSUME GrantInv, NEW c \in Connectors, Authorize(c)
  PROVE  GrantInv'
<1> USE BoundsAssumption, LifetimesAssumption
<1>1. logins + 1 \in 1..MaxLogins /\ exchanged[logins + 1] = 0
  BY DEF GrantInv, Authorize
<1>2. [login |-> logins + 1, client |-> c, expiresAt |-> now + CodeTTL] \in Codes
  BY <1>1 DEF GrantInv, Codes
<1>3. \A k \in codes : k.login # logins + 1
  BY DEF GrantInv, Codes
<1> DEFINE new == [login |-> logins + 1, client |-> c, expiresAt |-> now + CodeTTL]
<1>4. codes' = codes \union {new} /\ logins' = logins + 1
      /\ UNCHANGED <<now, issued, refreshTokens, exchanged>>
  BY DEF Authorize
<1>5. new.login = logins + 1 /\ new \in Codes
  BY <1>2
<1> HIDE DEF new
<1>6. codes' \subseteq Codes /\ now' \in Nat /\ logins' \in Nat /\ issued' \in Nat
      /\ refreshTokens' \subseteq RefreshTokens /\ exchanged' \in [1..MaxLogins -> 0..1]
  BY <1>4, <1>5 DEF GrantInv
<1>7. \A k \in codes' : k.login <= logins' /\ exchanged'[k.login] = 0
  BY <1>1, <1>4, <1>5 DEF GrantInv, Codes
<1>8. \A s, t \in codes' : s.login = t.login => s = t
  BY <1>3, <1>4, <1>5 DEF GrantInv
<1>9. \A l \in 1..MaxLogins : l > logins' => exchanged'[l] = 0
  BY <1>4 DEF GrantInv
<1>10. /\ \A t \in refreshTokens' : exchanged'[t.login] = 1
       /\ \A s, t \in refreshTokens' : s.login = t.login => s = t
  BY <1>4 DEF GrantInv
<1> QED
  BY <1>6, <1>7, <1>8, <1>9, <1>10 DEF GrantInv

(* The code that is exchanged is the login's only one, so it is gone, and no   *)
(* refresh token of the login was there.                                     *)
LEMMA GrantExchange ==
  ASSUME GrantInv, NEW q \in grants, ExchangeAuthorizationCode(q)
  PROVE  GrantInv'
<1> USE BoundsAssumption, LifetimesAssumption
<1>1. PICK k \in codes : k.login = q.of /\ k.client = q.client
  BY DEF ExchangeAuthorizationCode, Stored
<1>2. q.of \in 1..MaxLogins /\ q.client \in Connectors /\ q.of <= logins /\ exchanged[q.of] = 0
  BY <1>1 DEF GrantInv, Codes
<1>3. codes' \subseteq codes /\ \A j \in codes' : j.login # q.of
  BY <1>1 DEF GrantInv, ExchangeAuthorizationCode, Stored
<1>4. NewRefreshToken(q.client, q.of) \in RefreshTokens /\ NewRefreshToken(q.client, q.of).login = q.of
  BY <1>2 DEF GrantInv, NewRefreshToken, RefreshTokens
<1>5. exchanged' \in [1..MaxLogins -> 0..1] /\ exchanged'[q.of] = 1
      /\ \A l \in 1..MaxLogins : l # q.of => exchanged'[l] = exchanged[l]
  BY <1>2 DEF GrantInv, ExchangeAuthorizationCode
<1>6. \A t \in refreshTokens : t.login # q.of
  BY <1>2 DEF GrantInv
<1>7. refreshTokens' = refreshTokens \union {NewRefreshToken(q.client, q.of)}
      /\ issued' = issued + 1 /\ UNCHANGED <<now, logins>>
  BY DEF ExchangeAuthorizationCode, IssueTokens
<1>8. refreshTokens' \subseteq RefreshTokens /\ codes' \subseteq Codes
      /\ now' \in Nat /\ logins' \in Nat /\ issued' \in Nat
  BY <1>3, <1>4, <1>7 DEF GrantInv
<1>9. \A j \in codes' : j.login <= logins' /\ exchanged'[j.login] = 0
  BY <1>3, <1>5, <1>7 DEF GrantInv, Codes
<1>10. \A t \in refreshTokens' : exchanged'[t.login] = 1
  BY <1>4, <1>5, <1>6, <1>7 DEF GrantInv, RefreshTokens
<1>11. \A s, t \in refreshTokens' : s.login = t.login => s = t
  BY <1>4, <1>6, <1>7 DEF GrantInv
<1>12. \A l \in 1..MaxLogins : l > logins' => exchanged'[l] = 0
  BY <1>2, <1>5, <1>7 DEF GrantInv
<1> QED
  BY <1>3, <1>5, <1>8, <1>9, <1>10, <1>11, <1>12 DEF GrantInv

(* A rotation replaces the login's only refresh token. *)
LEMMA GrantRotate ==
  ASSUME GrantInv, NEW q \in grants, ExchangeRefreshToken(q)
  PROVE  GrantInv'
<1> USE BoundsAssumption, LifetimesAssumption
<1>1. PICK t \in refreshTokens :
        /\ t.client = q.client
        /\ refreshTokens' = (refreshTokens \ {t}) \union {NewRefreshToken(q.client, t.login)}
        /\ issued' = issued + 1 /\ UNCHANGED <<now, logins, codes, exchanged>>
  BY DEF ExchangeRefreshToken, IssueTokens
<1>2. NewRefreshToken(q.client, t.login) \in RefreshTokens
      /\ NewRefreshToken(q.client, t.login).login = t.login
  BY <1>1 DEF GrantInv, NewRefreshToken, RefreshTokens
<1>3. \A s \in refreshTokens \ {t} : s.login # t.login
  BY DEF GrantInv
<1>4. \A r, s \in refreshTokens' : r.login = s.login => r = s
  BY <1>1, <1>2, <1>3 DEF GrantInv
<1> QED
  BY <1>1, <1>2, <1>4 DEF GrantInv

(* The invariant is kept. *)
LEMMA GrantNext == GrantInv /\ [Next]_vars => GrantInv'
<1> SUFFICES ASSUME GrantInv, [Next]_vars PROVE GrantInv'
  OBVIOUS
<1>1. CASE UNCHANGED grantVars
  BY <1>1 DEF GrantInv, grantVars
<1>2. CASE Tick
  BY <1>2 DEF GrantInv, Tick, oauth, bounded
<1>3. CASE Restart
  BY <1>3 DEF GrantInv, Restart
<1>4. ASSUME NEW c \in Connectors,
             RegisterClient(c) \/ Authorize(c) \/ AskTokens(c) \/ CallTool(c)
      PROVE  GrantInv'
  <2>1. CASE Authorize(c)
    BY <2>1, GrantAuthorize
  <2>2. CASE RegisterClient(c) \/ AskTokens(c) \/ CallTool(c)
    BY <1>1, <2>2 DEF grantVars, RegisterClient, AskTokens, CallTool, oauth, bounded
  <2> QED
    BY <1>4, <2>1, <2>2
<1>5. ASSUME NEW q \in grants,
             Refuse(q) \/ Challenge(q) \/ ExchangeAuthorizationCode(q) \/ ExchangeRefreshToken(q)
      PROVE  GrantInv'
  <2>1. CASE Refuse(q) \/ Challenge(q)
    BY <1>1, <2>1 DEF grantVars, Refuse, Challenge, oauth, bounded
  <2> QED
    BY <1>5, <2>1, GrantExchange, GrantRotate
<1>6. ASSUME NEW c \in calls, Mint(c) \/ GetFreshToken(c) \/ CallFailed(c) \/ CallApi(c)
      PROVE  GrantInv'
  BY <1>1, <1>6 DEF grantVars, Mint, GetFreshToken, CallFailed, CallApi, oauth, bounded
<1>7. CASE UNCHANGED vars
  BY <1>1, <1>7 DEF grantVars, vars, oauth, bounded
<1> QED
  BY <1>2, <1>3, <1>4, <1>5, <1>6, <1>7 DEF Next

(* It says that a login is good for one grant. *)
LEMMA GrantProperty == GrantInv => OneGrantPerLogin
  BY DEF GrantInv, OneGrantPerLogin, Codes, RefreshTokens

(* A login is good for one grant (exchangeAuthorizationCode looks the code up    *)
(* and deletes it in one step, exchangeRefreshToken rotates in one step).        *)
THEOREM GrantsAreSingle == Spec => []OneGrantPerLogin
<1>1. Spec => []GrantInv
  BY GrantInit, GrantNext, PTL DEF Spec
<1> QED
  BY <1>1, GrantProperty, PTL

-----------------------------------------------------------------------------
Calls == [id : Nat, stage : {"mint", "minted", "sent"}, born : Nat, since : Nat, started : Nat]

(* What a call knows of time: Clerk answers in Slack, and a JWT leaves the tool *)
(* server younger than CacheTTL.                                               *)
Timely(c) ==
  /\ c.started <= c.since /\ c.since <= now /\ now <= c.since + Slack
  /\ c.stage = "minted" => c.started <= c.born /\ c.born = c.since
  /\ c.stage = "sent" => c.born <= c.since /\ c.since - c.born < CacheTTL

(* The cache's age is that of the question, so it says too much rather than too little. *)
JwtInv ==
  /\ now \in Nat /\ made \in Nat /\ refused = 0
  /\ cached \in [born : Nat, at : Nat, set : BOOLEAN]
  /\ cached.set => cached.at <= cached.born /\ cached.born <= now
  /\ calls \subseteq Calls
  /\ \A c \in calls : Timely(c)

jwtVars == <<now, made, refused, cached, calls>>

(* The cache outlives an exchange, and an exchange and the cache fit in a JWT's life. *)
LEMMA SlackFits == CacheTTL \in Nat /\ JwtTTL \in Nat /\ Slack \in Nat
                   /\ 0 < Slack /\ Slack < CacheTTL /\ CacheTTL + Slack = JwtTTL
  BY LifetimesAssumption DEF Slack

(* At the start nothing is cached or called. *)
LEMMA JwtInit == Init => JwtInv
  BY BoundsAssumption DEF Init, JwtInv, NoToken

(* A call that leaves: what Send gives. *)
SentAs(c, born) ==
  LET d == Send(c, born) IN
  d \in Calls /\ d.stage = "sent" /\ d.born = born /\ d.since = now /\ d.started = c.started

LEMMA SentIs ==
  ASSUME now \in Nat, NEW c \in Calls, NEW born \in Nat
  PROVE  SentAs(c, born)
BY DEF SentAs, Send, Calls

(* A call that finds a young JWT in the cache leaves with it at once. *)
LEMMA JwtCallTool ==
  ASSUME JwtInv, NEW c \in Connectors, CallTool(c)
  PROVE  JwtInv'
<1> USE SlackFits
<1> DEFINE call == [id |-> made + 1, stage |-> "mint", born |-> 0, since |-> now, started |-> now]
           young == cached.set /\ now - cached.at < CacheTTL
           added == IF young THEN Send(call, cached.born) ELSE call
<1>1. UNCHANGED <<now, refused, cached>> /\ made' = made + 1 /\ calls' \subseteq calls \union {added}
  BY DEF CallTool
<1>2. call \in Calls /\ Timely(call)
  BY DEF JwtInv, Calls, Timely
<1>3. young => SentAs(call, cached.born)
  BY <1>2, SentIs DEF JwtInv
<1>4. young => Send(call, cached.born) \in Calls /\ Timely(Send(call, cached.born))
  BY <1>3 DEF JwtInv, SentAs, Timely
<1>5. added \in Calls /\ Timely(added)
  BY <1>2, <1>4
<1> HIDE DEF added
<1>6. \A d \in calls' : d \in Calls /\ Timely(d)
  BY <1>1, <1>5 DEF JwtInv
<1>7. \A d \in calls' : Timely(d)'
  BY <1>1, <1>6 DEF Timely
<1> QED
  BY <1>1, <1>6, <1>7 DEF JwtInv

(* A call that is replaced by one as timely, with the cache as sound as before. *)
LEMMA JwtAdvance ==
  ASSUME JwtInv, NEW c \in calls, NEW d \in Calls, Timely(d),
         calls' = (calls \ {c}) \union {d}, UNCHANGED <<now, made, refused>>,
         cached' \in [born : Nat, at : Nat, set : BOOLEAN],
         cached'.set => cached'.at <= cached'.born /\ cached'.born <= now
  PROVE  JwtInv'
<1>1. \A e \in calls' : e \in Calls /\ Timely(e)
  BY DEF JwtInv
<1>2. \A e \in calls' : Timely(e)'
  BY <1>1 DEF Timely
<1> QED
  BY <1>1, <1>2 DEF JwtInv

(* Clerk makes a JWT as the request arrives. *)
LEMMA JwtMint ==
  ASSUME JwtInv, NEW c \in calls, Mint(c)
  PROVE  JwtInv'
<1> DEFINE d == [c EXCEPT !.stage = "minted", !.born = now, !.since = now]
<1>1. c \in Calls /\ Timely(c) /\ now \in Nat
  BY DEF JwtInv
<1>2. d \in Calls /\ d.stage = "minted" /\ d.born = now /\ d.since = now /\ d.started = c.started
  BY <1>1 DEF Calls
<1>3. d \in Calls /\ Timely(d)
  BY <1>1, <1>2, SlackFits DEF Calls, Timely
<1>4. calls' = (calls \ {c}) \union {d} /\ UNCHANGED <<now, made, refused, cached>>
  BY DEF Mint, bounded
<1> HIDE DEF d
<1> QED
  BY <1>3, <1>4, JwtAdvance DEF JwtInv

(* The answer is at most Slack old as it is cached and used. *)
LEMMA JwtFresh ==
  ASSUME JwtInv, NEW c \in calls, GetFreshToken(c)
  PROVE  JwtInv'
<1> DEFINE d == Send(c, c.born)
<1>1. c \in Calls /\ Timely(c) /\ c.stage = "minted"
  BY DEF JwtInv, GetFreshToken
<1>2. d \in Calls /\ d.stage = "sent" /\ d.born = c.born /\ d.since = now /\ d.started = c.started
  BY <1>1, SentIs DEF SentAs, Calls, JwtInv
<1>3. d \in Calls /\ Timely(d)
  BY <1>1, <1>2, SlackFits DEF Calls, Timely, JwtInv
<1>4. calls' = (calls \ {c}) \union {d} /\ UNCHANGED <<now, made, refused>>
      /\ cached' = [born |-> c.born, at |-> c.started, set |-> TRUE]
  BY DEF GetFreshToken, bounded
<1>5. c.started <= c.born /\ c.born <= now /\ c.born \in Nat /\ c.started \in Nat
  BY <1>1 DEF Calls, Timely
<1> HIDE DEF d
<1> QED
  BY <1>3, <1>4, <1>5, JwtAdvance

(* The API is asked with a JWT of age below CacheTTL + Slack. *)
LEMMA JwtCallApi ==
  ASSUME JwtInv, NEW c \in calls, CallApi(c)
  PROVE  JwtInv'
<1>1. c \in Calls /\ Timely(c) /\ c.stage = "sent"
  BY DEF JwtInv, CallApi
<1>2. now - c.born < JwtTTL
  BY <1>1, SlackFits DEF Calls, Timely, JwtInv
<1>3. refused' = refused /\ calls' = calls \ {c} /\ UNCHANGED <<now, made, cached>>
  BY <1>2 DEF CallApi, bounded
<1> QED
  BY <1>3 DEF JwtInv, Timely

(* Time does not pass an answer that is due. *)
LEMMA JwtTick ==
  ASSUME JwtInv, Tick
  PROVE  JwtInv'
<1>1. now' = now + 1 /\ UNCHANGED <<calls, made, refused, cached>>
  BY DEF Tick, bounded
<1>2. \A c \in calls : c \in Calls /\ Timely(c) /\ now < c.since + Slack
  BY DEF JwtInv, Tick
<1>3. \A c \in calls' : Timely(c)'
  BY <1>1, <1>2, SlackFits DEF Timely, Calls, JwtInv
<1> QED
  BY <1>1, <1>3 DEF JwtInv

(* The invariant is kept. *)
LEMMA JwtNext == JwtInv /\ [Next]_vars => JwtInv'
<1> SUFFICES ASSUME JwtInv, [Next]_vars PROVE JwtInv'
  OBVIOUS
<1>1. CASE UNCHANGED jwtVars
  BY <1>1 DEF JwtInv, jwtVars, Timely
<1>2. CASE Restart
  BY <1>2 DEF Restart, JwtInv, NoToken
<1>3. ASSUME NEW c \in Connectors,
             RegisterClient(c) \/ Authorize(c) \/ AskTokens(c) \/ CallTool(c)
      PROVE  JwtInv'
  <2>1. CASE RegisterClient(c) \/ Authorize(c) \/ AskTokens(c)
    BY <1>1, <2>1 DEF jwtVars, RegisterClient, Authorize, AskTokens, oauth, bounded
  <2> QED
    BY <1>3, <2>1, JwtCallTool
<1>4. ASSUME NEW q \in grants,
             Refuse(q) \/ Challenge(q) \/ ExchangeAuthorizationCode(q) \/ ExchangeRefreshToken(q)
      PROVE  JwtInv'
  BY <1>1, <1>4 DEF jwtVars, Refuse, Challenge, ExchangeAuthorizationCode, ExchangeRefreshToken,
     IssueTokens, oauth, bounded
<1>5. ASSUME NEW c \in calls, CallFailed(c)
      PROVE  JwtInv'
  BY <1>5 DEF CallFailed, JwtInv, Timely, bounded
<1>6. ASSUME NEW c \in calls, Mint(c) \/ GetFreshToken(c) \/ CallFailed(c) \/ CallApi(c)
      PROVE  JwtInv'
  BY <1>5, <1>6, JwtMint, JwtFresh, JwtCallApi
<1>7. CASE UNCHANGED vars
  BY <1>1, <1>7 DEF jwtVars, vars, oauth, bounded
<1> QED
  BY <1>2, <1>3, <1>4, <1>6, <1>7, JwtTick DEF Next

(* No call is refused for its JWT: getFreshToken counts the cache's age from    *)
(* before it asks Clerk, whatever calls overlap and overwrite the cache.         *)
THEOREM JwtStaysAlive == Spec => []JwtAliveWhenUsed
<1>1. JwtInv => JwtAliveWhenUsed
  BY DEF JwtInv, JwtAliveWhenUsed
<1> QED
  BY <1>1, JwtInit, JwtNext, PTL DEF Spec

-----------------------------------------------------------------------------
(* What the type invariant needs beside the two: tokens are numbered as they are *)
(* issued, and a cache that is not set, or a call that has no JWT yet, is blank.  *)
Numbered(t) == t.id \in 1..issued /\ t.client \in Connectors

RestTypes ==
  /\ clients \subseteq Connectors
  /\ \A t \in accessTokens \union refreshTokens : Numbered(t)
  /\ \A q \in grants : q.kind \in {"code", "verified", "refresh"} /\ q.client \in Connectors
  /\ cached.set \/ cached = NoToken
  /\ \A c \in calls : c.stage = "mint" => c.born = 0

restVars == <<clients, accessTokens, refreshTokens, issued, grants, cached, calls>>

LEMMA RestInit == Init => RestTypes
  BY DEF Init, RestTypes

(* Two tokens are issued with the next number, and old tokens keep theirs. *)
LEMMA RestIssue ==
  ASSUME GrantInv, RestTypes, NEW q \in grants,
         ExchangeAuthorizationCode(q) \/ ExchangeRefreshToken(q)
  PROVE  RestTypes'
<1>1. q.client \in Connectors /\ issued \in Nat
  BY DEF GrantInv, RestTypes
<1>2. PICK access : access = [id |-> issued + 1, client |-> q.client, expiresAt |-> now + AccessTTL]
  OBVIOUS
<1>3. issued' = issued + 1 /\ accessTokens' = accessTokens \union {access}
  BY <1>2 DEF ExchangeAuthorizationCode, ExchangeRefreshToken, IssueTokens
<1>4. PICK login : refreshTokens' \subseteq refreshTokens \union {NewRefreshToken(q.client, login)}
  BY DEF ExchangeAuthorizationCode, ExchangeRefreshToken
<1>5. PICK new : new = NewRefreshToken(q.client, login)
  OBVIOUS
<1>6. /\ new.id = issued + 1 /\ new.client = q.client
      /\ access.id = issued + 1 /\ access.client = q.client
  BY <1>2, <1>5 DEF NewRefreshToken
<1>7. 1..issued \subseteq 1..(issued + 1) /\ issued + 1 \in 1..(issued + 1)
  BY <1>1
<1>8. \A t \in accessTokens' \union refreshTokens' :
        t \in accessTokens \union refreshTokens \/ t = access \/ t = new
  BY <1>3, <1>4, <1>5
<1>9. \A t \in accessTokens' \union refreshTokens' : t.id \in 1..(issued + 1) /\ t.client \in Connectors
  BY <1>1, <1>6, <1>7, <1>8 DEF RestTypes, Numbered
<1>10. \A t \in accessTokens' \union refreshTokens' : Numbered(t)'
  BY <1>3, <1>9 DEF Numbered
<1>11. UNCHANGED <<clients, cached, calls>> /\ grants' \subseteq grants
  BY DEF ExchangeAuthorizationCode, ExchangeRefreshToken
<1>12. QED
  BY <1>10, <1>11 DEF RestTypes

(* A call that misses the cache has no JWT; one that has it is on its way. *)
LEMMA RestCallTool ==
  ASSUME JwtInv, RestTypes, NEW c \in Connectors, CallTool(c)
  PROVE  RestTypes'
<1>1. PICK call : call = [id |-> made + 1, stage |-> "mint", born |-> 0, since |-> now, started |-> now]
  OBVIOUS
<1>2. calls' \subseteq calls \union {call, Send(call, cached.born)}
  BY <1>1 DEF CallTool
<1>3. Send(call, cached.born).stage = "sent" /\ call.born = 0
  BY <1>1 DEF Send
<1>4. \A d \in calls' : d.stage = "mint" => d.born = 0
  BY <1>2, <1>3 DEF RestTypes
<1>5. accessTokens' \subseteq accessTokens /\ UNCHANGED <<clients, refreshTokens, issued, grants, cached>>
  BY DEF CallTool
<1>6. QED
  BY <1>4, <1>5 DEF RestTypes, Numbered

(* A call that goes on has a JWT, and so has the cache that keeps it. *)
LEMMA RestCall ==
  ASSUME JwtInv, RestTypes, NEW c \in calls,
         Mint(c) \/ GetFreshToken(c) \/ CallFailed(c) \/ CallApi(c)
  PROVE  RestTypes'
<1>1. UNCHANGED <<clients, accessTokens, refreshTokens, issued, grants>>
  BY DEF Mint, GetFreshToken, CallFailed, CallApi, oauth, bounded
<1>2. c \in Calls
  BY DEF JwtInv
<1>3. \A d \in calls' : d \in calls \/ d.stage # "mint"
  BY <1>2 DEF Mint, GetFreshToken, CallFailed, CallApi, Send, Calls
<1>4. cached'.set \/ cached' = NoToken
  BY DEF Mint, GetFreshToken, CallFailed, CallApi, RestTypes
<1>5. QED
  BY <1>1, <1>3, <1>4 DEF RestTypes, Numbered

LEMMA RestNext == GrantInv /\ JwtInv /\ RestTypes /\ [Next]_vars => RestTypes'
<1> SUFFICES ASSUME GrantInv, JwtInv, RestTypes, [Next]_vars PROVE RestTypes'
  OBVIOUS
<1>1. CASE UNCHANGED restVars
  BY <1>1 DEF restVars, RestTypes, Numbered
<1>2. CASE Restart
  BY <1>2 DEF Restart, RestTypes
<1>3. ASSUME NEW c \in Connectors,
             RegisterClient(c) \/ Authorize(c) \/ AskTokens(c) \/ CallTool(c)
      PROVE  RestTypes'
  <2>1. CASE RegisterClient(c)
    BY <2>1 DEF RegisterClient, RestTypes, Numbered, bounded
  <2>2. CASE AskTokens(c)
    <3>1. PICK kind \in {"code", "refresh"} : \E x :
            grants' = grants \union {[id |-> asked + 1, client |-> c, kind |-> kind, of |-> x]}
      BY <2>2 DEF AskTokens
    <3>2. UNCHANGED <<clients, accessTokens, refreshTokens, issued, cached, calls>>
      BY <2>2 DEF AskTokens, oauth
    <3>3. PICK x : grants' = grants \union {[id |-> asked + 1, client |-> c, kind |-> kind, of |-> x]}
      BY <3>1
    <3>4. QED
      BY <3>2, <3>3 DEF RestTypes, Numbered
  <2>3. CASE Authorize(c)
    BY <1>1, <2>3 DEF restVars, Authorize
  <2>4. QED
    BY <1>3, <2>1, <2>2, <2>3, RestCallTool
<1>4. ASSUME NEW q \in grants,
             Refuse(q) \/ Challenge(q) \/ ExchangeAuthorizationCode(q) \/ ExchangeRefreshToken(q)
      PROVE  RestTypes'
  <2>1. CASE Refuse(q)
    BY <2>1 DEF Refuse, RestTypes, Numbered, oauth, bounded
  <2>2. CASE Challenge(q)
    <3>1. PICK new : new = [q EXCEPT !.kind = "verified"]
      OBVIOUS
    <3>2. grants' = (grants \ {q}) \union {new}
      BY <2>2, <3>1 DEF Challenge
    <3>3. new.kind = "verified" /\ new.client = q.client
      <4>1. q.kind = "code"
        BY <2>2 DEF Challenge
      <4>2. QED
        BY <3>1, <4>1
    <3>4. QED
      BY <2>2, <3>2, <3>3 DEF Challenge, RestTypes, Numbered, oauth, bounded
  <2>3. QED
    BY <1>4, <2>1, <2>2, RestIssue
<1>5. CASE Tick \/ UNCHANGED vars
  BY <1>1, <1>5 DEF restVars, Tick, vars, oauth, bounded
<1>6. QED
  BY <1>2, <1>3, <1>4, <1>5, RestCall DEF Next

(* The server's maps, the requests on their way and the cache are well typed, and *)
(* no JWT is dated from the future.                                              *)
THEOREM ToolServerTypeCorrect == Spec => []TypeOK
<1>1. ASSUME GrantInv, JwtInv, RestTypes PROVE TypeOK
  <2>1. \A k \in codes : k.login \in 1..logins /\ k.client \in Connectors
    BY <1>1 DEF GrantInv, Codes
  <2>2. \A t \in accessTokens \union refreshTokens : t.id \in 1..issued /\ t.client \in Connectors
    BY <1>1 DEF RestTypes, Numbered
  <2>3. \A c \in calls :
          c.stage \in {"mint", "minted", "sent"} /\ c.born <= now /\ c.started <= now
    <3> SUFFICES ASSUME NEW c \in calls
                 PROVE  c.stage \in {"mint", "minted", "sent"} /\ c.born <= now /\ c.started <= now
      OBVIOUS
    <3>1. c \in Calls /\ Timely(c) /\ now \in Nat /\ (c.stage = "mint" => c.born = 0)
      BY <1>1 DEF JwtInv, RestTypes
    <3>2. QED
      BY <3>1 DEF Calls, Timely
  <2>4. cached.at <= now /\ cached.born <= now
    <3>1. now \in Nat /\ cached \in [born : Nat, at : Nat, set : BOOLEAN]
      BY <1>1 DEF JwtInv
    <3>2. CASE cached.set
      BY <1>1, <3>1, <3>2 DEF JwtInv
    <3>3. CASE cached = NoToken
      BY <3>1, <3>3 DEF NoToken
    <3>4. QED
      BY <1>1, <3>2, <3>3 DEF RestTypes
  <2>5. exchanged \in [1..MaxLogins -> Nat] /\ refused \in Nat
    BY <1>1 DEF GrantInv, JwtInv
  <2>6. QED
    BY <1>1, <2>1, <2>2, <2>3, <2>4, <2>5 DEF RestTypes, TypeOK
<1>2. QED
  BY <1>1, GrantInit, GrantNext, JwtInit, JwtNext, RestInit, RestNext, PTL DEF Spec

-----------------------------------------------------------------------------
(* Membership. *)

InviteRow == [id : Nat, to : Users, role : Roles, saw : SUBSET Nat,
              status : {"pending", "accepted", "declined"}]
RequestRow == [id : Nat, op : {"create", "accept"}, to : Users, role : Roles, of : Nat,
               saw : SUBSET Nat, stage : {"member", "list", "insert", "add", "mark"}]

Shape ==
  /\ members \in [Users -> Roles \union {"none", "owner"}]
  /\ invites \subseteq InviteRow /\ inviting \subseteq RequestRow /\ arrived \in Nat
  /\ \A q \in inviting : q.stage \in {"add", "mark"} <=> q.op = "accept"

(* Invites take their numbers from the requests that make them. *)
Numbering ==
  /\ \A i \in invites : i.id \in 1..arrived
  /\ \A q \in inviting : q.id \in 1..arrived
  /\ \A i, j \in invites : i.id = j.id => i = j
  /\ \A p, q \in inviting : p.id = q.id => p = q
  /\ \A q \in inviting, i \in invites : q.op = "create" => q.id # i.id

(* An accept is of an invite to its sender, which stays until the purge. *)
Accepting ==
  purge # "done" => \A q \in inviting : q.op = "accept" =>
    /\ \E i \in invites : i.id = q.of /\ i.to = q.to /\ i.role = q.role
    /\ q.stage = "mark" => IsMember(q.to)

MembershipInv == Shape /\ Numbering /\ Accepting /\ MembersComeFromInvites

LEMMA MembersInit == MembershipInit => MembershipInv
<1> SUFFICES ASSUME MembershipInit PROVE MembershipInv
  OBVIOUS
<1>1. Shape
  BY OwnerAssumption DEF MembershipInit, Shape
<1>2. Numbering /\ Accepting
  BY DEF MembershipInit, Numbering, Accepting
<1>3. MembersComeFromInvites
  BY DEF MembershipInit, MembersComeFromInvites, IsMember
<1>4. QED
  BY <1>1, <1>2, <1>3 DEF MembershipInv

(* A request that arrives, before it has done anything. *)
LEMMA ArriveStep ==
  ASSUME MembershipInv, NEW r \in RequestRow, Arrive(r), r.id = arrived + 1, r.stage # "mark",
         r.stage \in {"add", "mark"} <=> r.op = "accept",
         r.op = "accept" => \E i \in invites : i.id = r.of /\ i.to = r.to /\ i.role = r.role,
         members' = members, invites' = invites, purge' = purge, halfway' = halfway
  PROVE  MembershipInv'
<1>0. inviting' = inviting \union {r} /\ arrived' = arrived + 1 /\ arrived \in Nat
  BY DEF Arrive, MembershipInv, Shape
<1>1. Shape'
  BY <1>0 DEF MembershipInv, Shape
<1>2. Numbering'
  <2>1. /\ \A i \in invites : i.id \in Nat /\ i.id <= arrived
        /\ \A q \in inviting : q.id \in Nat /\ q.id <= arrived
    BY DEF MembershipInv, Shape, Numbering, InviteRow, RequestRow
  <2>2. \A i \in invites : i.id # r.id /\ i.id <= arrived'
    BY <2>1, <1>0
  <2>3. \A q \in inviting : q.id # r.id /\ q.id <= arrived'
    BY <2>1, <1>0
  <2>4. QED
    BY <2>2, <2>3, <1>0 DEF MembershipInv, Numbering
<1>3. Accepting'
  BY <1>0 DEF MembershipInv, Accepting, IsMember
<1>4. MembersComeFromInvites'
  BY <1>0 DEF MembershipInv, MembersComeFromInvites, IsMember
<1>5. QED
  BY <1>1, <1>2, <1>3, <1>4 DEF MembershipInv

(* A create that goes on to its next read: nothing stored changes. *)
LEMMA ReadStep ==
  ASSUME MembershipInv, NEW q \in inviting, NEW r \in RequestRow,
         inviting' = (inviting \ {q}) \union {r},
         r.id = q.id, r.op = "create", q.op = "create", r.stage \notin {"add", "mark"},
         members' = members, invites' = invites, purge' = purge, arrived' = arrived,
         halfway' = halfway
  PROVE  MembershipInv'
<1>0. q.stage # "mark"
  BY DEF MembershipInv, Shape
<1>1. Shape'
  BY DEF MembershipInv, Shape
<1>2. Numbering'
  BY DEF MembershipInv, Numbering
<1>3. Accepting'
  BY DEF MembershipInv, Accepting, IsMember
<1>4. MembersComeFromInvites'
  BY <1>0 DEF MembershipInv, MembersComeFromInvites, IsMember
<1>5. QED
  BY <1>1, <1>2, <1>3, <1>4 DEF MembershipInv

(* A request that ends. *)
LEMMA DoneStep ==
  ASSUME MembershipInv, NEW q \in inviting, Finish(q), q.stage = "mark" => q.of \in halfway',
         halfway \subseteq halfway',
         members' = members, invites' = invites, purge' = purge, arrived' = arrived
  PROVE  MembershipInv'
<1>0. inviting' = inviting \ {q}
  BY DEF Finish
<1>1. Shape' /\ Numbering'
  BY <1>0 DEF MembershipInv, Shape, Numbering
<1>2. Accepting'
  BY <1>0 DEF MembershipInv, Accepting, IsMember
<1>3. MembersComeFromInvites'
  BY <1>0 DEF MembershipInv, MembersComeFromInvites, IsMember
<1>4. QED
  BY <1>1, <1>2, <1>3 DEF MembershipInv

LEMMA CreateStep ==
  ASSUME MembershipInv, NEW by \in Users, NEW to \in Users, NEW role \in Roles,
         CreateInvite(by, to, role)
  PROVE  MembershipInv'
<1> DEFINE r == [id |-> arrived + 1, op |-> "create", stage |-> "member",
                 to |-> to, role |-> role, of |-> 0, saw |-> {}]
<1>1. r \in RequestRow
  BY DEF MembershipInv, Shape, RequestRow
<1>2. r.id = arrived + 1 /\ r.op = "create" /\ r.stage = "member" /\ Arrive(r)
      /\ members' = members /\ invites' = invites /\ purge' = purge /\ halfway' = halfway
  BY DEF CreateInvite
<1> HIDE DEF r
<1>3. QED
  BY <1>1, <1>2, ArriveStep

LEMMA AcceptStep ==
  ASSUME MembershipInv, NEW u \in Users, NEW i \in invites, Accept(u, i)
  PROVE  MembershipInv'
<1> DEFINE r == [id |-> arrived + 1, op |-> "accept", stage |-> "add",
                 to |-> u, role |-> i.role, of |-> i.id, saw |-> {}]
<1>1. r \in RequestRow
  BY DEF MembershipInv, Shape, RequestRow, InviteRow
<1>2. r.id = arrived + 1 /\ r.op = "accept" /\ r.stage = "add" /\ Arrive(r)
      /\ i.id = r.of /\ i.to = r.to /\ i.role = r.role
      /\ members' = members /\ invites' = invites /\ purge' = purge /\ halfway' = halfway
  BY DEF Accept
<1> HIDE DEF r
<1>3. QED
  BY <1>1, <1>2, ArriveStep

LEMMA CheckStep ==
  ASSUME MembershipInv, NEW q \in inviting, CheckMember(q) \/ CheckPending(q)
  PROVE  MembershipInv'
<1>0. /\ q \in RequestRow /\ q.op = "create" /\ q.stage \in {"member", "list"}
      /\ members' = members /\ invites' = invites /\ purge' = purge /\ arrived' = arrived
      /\ halfway' = halfway
      /\ \A i \in invites : i.id \in Nat
  BY DEF CheckMember, CheckPending, MembershipInv, Shape, InviteRow
<1>1. CASE Finish(q)
  BY <1>0, <1>1, DoneStep
<1>2. ASSUME NEW r, inviting' = (inviting \ {q}) \union {r}, r \in RequestRow,
             r.id = q.id, r.op = q.op, r.stage \notin {"add", "mark"}
      PROVE  MembershipInv'
  BY <1>0, <1>2, ReadStep
<1>3. CASE GoOn(q, "list")
  <2> DEFINE r == [q EXCEPT !.stage = "list"]
  <2>1. r \in RequestRow /\ r.id = q.id /\ r.op = q.op /\ r.stage = "list"
    BY <1>0 DEF RequestRow
  <2>2. inviting' = (inviting \ {q}) \union {r}
    BY <1>3 DEF GoOn
  <2> HIDE DEF r
  <2>3. QED
    BY <1>2, <2>1, <2>2
<1>4. ASSUME NEW seen \in SUBSET Nat, Listed(q, seen) PROVE MembershipInv'
  <2> DEFINE r == [q EXCEPT !.stage = "insert", !.saw = seen]
  <2>1. r \in RequestRow /\ r.id = q.id /\ r.op = q.op /\ r.stage = "insert"
    BY <1>0, <1>4 DEF RequestRow
  <2>2. inviting' = (inviting \ {q}) \union {r}
    BY <1>4 DEF Listed
  <2> HIDE DEF r
  <2>3. QED
    BY <1>2, <2>1, <2>2
<1>5. {i.id : i \in invites} \in SUBSET Nat /\ {} \in SUBSET Nat
  BY <1>0
<1>6. CASE CheckMember(q)
  BY <1>1, <1>3, <1>6 DEF CheckMember
<1>7. CASE CheckPending(q)
  BY <1>1, <1>4, <1>5, <1>7 DEF CheckPending
<1>8. QED
  BY <1>6, <1>7

LEMMA InsertStep ==
  ASSUME MembershipInv, NEW q \in inviting, InsertInvite(q)
  PROVE  MembershipInv'
<1> DEFINE n == [id |-> q.id, to |-> q.to, role |-> q.role, status |-> "pending", saw |-> q.saw]
<1>1. n \in InviteRow /\ n.id = q.id /\ n.status = "pending" /\ q.op = "create"
  BY DEF InsertInvite, MembershipInv, Shape, InviteRow, RequestRow
<1>2. /\ invites' = invites \union {n} /\ inviting' = inviting \ {q}
      /\ members' = members /\ purge' = purge /\ arrived' = arrived /\ halfway' = halfway
  BY DEF InsertInvite, Finish
<1> HIDE DEF n
<1>3. Shape'
  BY <1>1, <1>2 DEF MembershipInv, Shape
<1>4. Numbering'
  BY <1>1, <1>2 DEF MembershipInv, Numbering
<1>5. Accepting'
  BY <1>2 DEF MembershipInv, Accepting, IsMember
<1>6. MembersComeFromInvites'
  <2>1. q.stage # "mark"
    BY <1>1 DEF InsertInvite
  <2>2. QED
    BY <1>1, <1>2, <2>1 DEF MembershipInv, MembersComeFromInvites, IsMember
<1>7. QED
  BY <1>3, <1>4, <1>5, <1>6 DEF MembershipInv

LEMMA AddStep ==
  ASSUME MembershipInv, NEW q \in inviting, AddMember(q)
  PROVE  MembershipInv'
<1> DEFINE r == [q EXCEPT !.stage = "mark"]
<1>0. q \in RequestRow /\ q.to \in Users /\ q.role \in Roles /\ q.op = "accept" /\ q.stage = "add"
  BY DEF AddMember, MembershipInv, Shape, RequestRow
<1>1. /\ r \in RequestRow /\ r.id = q.id /\ r.op = "accept" /\ r.to = q.to /\ r.role = q.role
      /\ r.of = q.of /\ r.stage = "mark"
  BY <1>0 DEF RequestRow
<1>2. /\ inviting' = (inviting \ {q}) \union {r}
      /\ invites' = invites /\ purge' = purge /\ arrived' = arrived /\ halfway' = halfway
  BY DEF AddMember, GoOn
<1> HIDE DEF r
<1>3. /\ members' \in [Users -> Roles \union {"none", "owner"}]
      /\ members'[q.to] # "none"
      /\ \A u \in Users : members[u] # "none" => members'[u] = members[u]
      /\ \A u \in Users : u # q.to => members'[u] = members[u]
      /\ members[q.to] = "none" => members'[q.to] = q.role
  BY <1>0, RolesAssumption DEF AddMember, MembershipInv, Shape, IsMember
<1>4. Shape'
  BY <1>1, <1>2, <1>3 DEF MembershipInv, Shape
<1>5. Numbering'
  BY <1>0, <1>1, <1>2 DEF MembershipInv, Numbering
<1>6. \A p \in inviting : p.to \in Users
  BY DEF MembershipInv, Shape, RequestRow
<1>7. Accepting'
  BY <1>0, <1>1, <1>2, <1>3, <1>6 DEF MembershipInv, Accepting, IsMember
<1>8. MembersComeFromInvites'
  <2> SUFFICES ASSUME purge # "done" PROVE MembersComeFromInvites'
    BY <1>2 DEF MembersComeFromInvites
  <2>1. \A i \in invites : i.status = "accepted" => members'[i.to] # "none"
    BY <1>3 DEF MembershipInv, Shape, InviteRow, MembersComeFromInvites, IsMember
  <2>2. ASSUME NEW u \in Users \ {Owner}, members'[u] # "none"
        PROVE  \E i \in invites : /\ i.to = u /\ i.role = members'[u]
                                  /\ \/ i.status = "accepted" \/ i.id \in halfway
                                     \/ \E p \in inviting' : p.of = i.id /\ p.stage = "mark"
    <3>1. CASE members[u] # "none"
      BY <2>2, <3>1, <1>0, <1>2, <1>3 DEF MembershipInv, MembersComeFromInvites, IsMember
    <3>2. CASE members[u] = "none"
      <4>1. u = q.to /\ members'[u] = q.role
        BY <2>2, <3>2, <1>3
      <4>2. QED
        BY <4>1, <1>0, <1>1, <1>2 DEF MembershipInv, Accepting
    <3>3. QED
      BY <3>1, <3>2
  <2>3. QED
    BY <2>1, <2>2, <1>2 DEF MembersComeFromInvites, IsMember
<1>9. QED
  BY <1>4, <1>5, <1>7, <1>8 DEF MembershipInv

(* An update of one invite's status. *)
LEMMA Resolved ==
  ASSUME Shape, Numbering, NEW id \in Nat, NEW status \in {"accepted", "declined"},
         Resolve(id, status)
  PROVE  /\ invites' \subseteq InviteRow
         /\ \A j \in invites' : \E i \in invites :
              /\ j.id = i.id /\ j.to = i.to /\ j.role = i.role
              /\ j = IF i.id = id THEN [i EXCEPT !.status = status] ELSE i
              /\ j.status = IF i.id = id THEN status ELSE i.status
         /\ \A i \in invites : \E j \in invites' :
              /\ j.id = i.id /\ j.to = i.to /\ j.role = i.role
              /\ j.status = IF i.id = id THEN status ELSE i.status
         /\ \A j, k \in invites' : j.id = k.id => j = k
<1> DEFINE F(i) == IF i.id = id THEN [i EXCEPT !.status = status] ELSE i
<1>1. invites' = {F(i) : i \in invites}
  BY DEF Resolve
<1>2. ASSUME NEW i \in invites
      PROVE  /\ F(i) \in InviteRow /\ F(i).id = i.id /\ F(i).to = i.to /\ F(i).role = i.role
             /\ F(i).status = IF i.id = id THEN status ELSE i.status
  <2>1. i \in InviteRow
    BY DEF Shape
  <2>2. QED
    BY <2>1 DEF InviteRow
<1>3. \A i, j \in invites : F(i).id = F(j).id => i = j
  BY <1>2 DEF Numbering
<1>4. invites' \subseteq InviteRow
  BY <1>1, <1>2
<1>5. \A j \in invites' : \E i \in invites : j = F(i)
  BY <1>1
<1>6. \A i \in invites : F(i) \in invites'
  BY <1>1
<1>7. \A j, k \in invites' : j.id = k.id => j = k
  <2> SUFFICES ASSUME NEW j \in invites', NEW k \in invites', j.id = k.id
               PROVE  j = k
    OBVIOUS
  <2>1. PICK a \in invites : j = F(a)
    BY <1>5
  <2>2. PICK b \in invites : k = F(b)
    BY <1>5
  <2> HIDE DEF F
  <2>3. a = b
    BY <1>3, <2>1, <2>2
  <2>4. QED
    BY <2>1, <2>2, <2>3
<1>8. \A j \in invites' : \E i \in invites :
         /\ j.id = i.id /\ j.to = i.to /\ j.role = i.role /\ j = F(i)
         /\ j.status = IF i.id = id THEN status ELSE i.status
  <2> HIDE DEF F
  <2>1. QED
    BY <1>2, <1>5
<1>9. \A i \in invites : \E j \in invites' :
         /\ j.id = i.id /\ j.to = i.to /\ j.role = i.role
         /\ j.status = IF i.id = id THEN status ELSE i.status
  <2> HIDE DEF F
  <2>1. QED
    BY <1>2, <1>6
<1>10. QED
  BY <1>4, <1>7, <1>8, <1>9

LEMMA MarkStep ==
  ASSUME MembershipInv, NEW q \in inviting, MarkAccepted(q)
  PROVE  MembershipInv'
<1>0. /\ q \in RequestRow /\ q.of \in Nat /\ q.op = "accept" /\ q.stage = "mark"
      /\ inviting' = inviting \ {q} /\ members' = members /\ purge' = purge
      /\ arrived' = arrived /\ halfway' = halfway /\ Resolve(q.of, "accepted")
      /\ Shape /\ Numbering
  BY DEF MarkAccepted, Finish, MembershipInv, Shape, RequestRow
<1>1. /\ invites' \subseteq InviteRow
      /\ \A j \in invites' : \E i \in invites :
           /\ j.id = i.id /\ j.to = i.to /\ j.role = i.role
           /\ j.status = IF i.id = q.of THEN "accepted" ELSE i.status
      /\ \A i \in invites : \E j \in invites' :
           /\ j.id = i.id /\ j.to = i.to /\ j.role = i.role
           /\ j.status = IF i.id = q.of THEN "accepted" ELSE i.status
      /\ \A j, k \in invites' : j.id = k.id => j = k
  BY <1>0, Resolved
<1>2. Shape'
  BY <1>0, <1>1 DEF Shape
<1>3. Numbering'
  BY <1>0, <1>1 DEF Numbering
<1>4. Accepting'
  BY <1>0, <1>1 DEF MembershipInv, Accepting, IsMember
<1>5. MembersComeFromInvites'
  <2> SUFFICES ASSUME purge # "done" PROVE MembersComeFromInvites'
    BY <1>0 DEF MembersComeFromInvites
  <2>1. \A i \in invites : i.id = q.of => members[i.to] # "none"
    BY <1>0 DEF MembershipInv, Accepting, Numbering, IsMember
  <2>2. \A j \in invites' : j.status = "accepted" => members'[j.to] # "none"
    BY <2>1, <1>0, <1>1 DEF MembershipInv, MembersComeFromInvites, IsMember
  <2>3. ASSUME NEW u \in Users \ {Owner}, members'[u] # "none"
        PROVE  \E j \in invites' : /\ j.to = u /\ j.role = members'[u]
                                   /\ \/ j.status = "accepted" \/ j.id \in halfway
                                      \/ \E p \in inviting' : p.of = j.id /\ p.stage = "mark"
    <3>1. PICK i \in invites :
             /\ i.to = u /\ i.role = members[u]
             /\ \/ i.status = "accepted" \/ i.id \in halfway
                \/ \E p \in inviting : p.of = i.id /\ p.stage = "mark"
      BY <2>3, <1>0 DEF MembershipInv, MembersComeFromInvites, IsMember
    <3>2. PICK j \in invites' : /\ j.id = i.id /\ j.to = i.to /\ j.role = i.role
                                /\ j.status = IF i.id = q.of THEN "accepted" ELSE i.status
      BY <1>1
    <3>3. QED
      BY <3>1, <3>2, <1>0
  <2>4. QED
    BY <2>2, <2>3, <1>0 DEF MembersComeFromInvites, IsMember
<1>6. QED
  BY <1>2, <1>3, <1>4, <1>5 DEF MembershipInv

LEMMA DeclineStep ==
  ASSUME MembershipInv, NEW u \in Users, NEW d \in invites, DeclineInvite(u, d)
  PROVE  MembershipInv'
<1>0. /\ d \in InviteRow /\ d.id \in Nat /\ d.status = "pending"
      /\ inviting' = inviting /\ members' = members /\ purge' = purge
      /\ arrived' = arrived /\ halfway' = halfway /\ Resolve(d.id, "declined")
      /\ Shape /\ Numbering
  BY DEF DeclineInvite, IsPending, MembershipInv, Shape, InviteRow
<1>1. /\ invites' \subseteq InviteRow
      /\ \A j \in invites' : \E i \in invites :
           /\ j.id = i.id /\ j.to = i.to /\ j.role = i.role
           /\ j.status = IF i.id = d.id THEN "declined" ELSE i.status
      /\ \A i \in invites : \E j \in invites' :
           /\ j.id = i.id /\ j.to = i.to /\ j.role = i.role
           /\ j.status = IF i.id = d.id THEN "declined" ELSE i.status
      /\ \A j, k \in invites' : j.id = k.id => j = k
  BY <1>0, Resolved
<1>2. Shape'
  BY <1>0, <1>1 DEF Shape
<1>3. Numbering'
  BY <1>0, <1>1 DEF Numbering
<1>4. Accepting'
  BY <1>0, <1>1 DEF MembershipInv, Accepting, IsMember
<1>5. MembersComeFromInvites'
  <2> SUFFICES ASSUME purge # "done" PROVE MembersComeFromInvites'
    BY <1>0 DEF MembersComeFromInvites
  <2>1. \A j \in invites' : j.status = "accepted" => members'[j.to] # "none"
    BY <1>0, <1>1 DEF MembershipInv, MembersComeFromInvites, IsMember
  <2>2. \A i \in invites : i.status = "accepted" => i.id # d.id
    BY <1>0 DEF Numbering
  <2>3. ASSUME NEW v \in Users \ {Owner}, members'[v] # "none"
        PROVE  \E j \in invites' : /\ j.to = v /\ j.role = members'[v]
                                   /\ \/ j.status = "accepted" \/ j.id \in halfway
                                      \/ \E p \in inviting' : p.of = j.id /\ p.stage = "mark"
    <3>1. PICK i \in invites :
             /\ i.to = v /\ i.role = members[v]
             /\ \/ i.status = "accepted" \/ i.id \in halfway
                \/ \E p \in inviting : p.of = i.id /\ p.stage = "mark"
      BY <2>3, <1>0 DEF MembershipInv, MembersComeFromInvites, IsMember
    <3>2. PICK j \in invites' : /\ j.id = i.id /\ j.to = i.to /\ j.role = i.role
                                /\ j.status = IF i.id = d.id THEN "declined" ELSE i.status
      BY <1>1
    <3>3. QED
      BY <2>2, <3>1, <3>2, <1>0
  <2>4. QED
    BY <2>1, <2>3, <1>0 DEF MembersComeFromInvites, IsMember
<1>6. QED
  BY <1>2, <1>3, <1>4, <1>5 DEF MembershipInv

LEMMA FailStep ==
  ASSUME MembershipInv, NEW q \in inviting, RequestFails(q)
  PROVE  MembershipInv'
<1>1. /\ Finish(q) /\ halfway \subseteq halfway' /\ (q.stage = "mark" => q.of \in halfway')
      /\ members' = members /\ invites' = invites /\ purge' = purge /\ arrived' = arrived
  BY DEF RequestFails
<1>2. QED
  BY <1>1, DoneStep

LEMMA PurgeStep ==
  ASSUME MembershipInv, Purge
  PROVE  MembershipInv'
<1>0. inviting' = inviting /\ arrived' = arrived /\ halfway' = halfway
  BY DEF Purge, PurgeMembers, PurgeInvites, PurgeCommit
<1>1. CASE PurgeMembers \/ PurgeInvites
  <2>1. members' = members /\ invites' = invites /\ purge # "done"
    BY <1>1 DEF PurgeMembers, PurgeInvites
  <2>2. Shape' /\ Numbering'
    BY <2>1, <1>0 DEF MembershipInv, Shape, Numbering
  <2>3. Accepting' /\ MembersComeFromInvites'
    BY <2>1, <1>0 DEF MembershipInv, Accepting, MembersComeFromInvites, IsMember
  <2>4. QED
    BY <2>2, <2>3 DEF MembershipInv
<1>2. CASE PurgeCommit
  <2>1. purge' = "done" /\ invites' \subseteq invites
        /\ members' = [u \in Users |-> IF u \in doomed.users THEN "none" ELSE members[u]]
    BY <1>2 DEF PurgeCommit
  <2>2. Shape' /\ Numbering'
    BY <2>1, <1>0 DEF MembershipInv, Shape, Numbering
  <2>3. Accepting' /\ MembersComeFromInvites'
    BY <2>1 DEF Accepting, MembersComeFromInvites
  <2>4. QED
    BY <2>2, <2>3 DEF MembershipInv
<1>3. QED
  BY <1>1, <1>2 DEF Purge

LEMMA MembersNext == MembershipInv /\ [MembershipNext]_membershipVars => MembershipInv'
<1> SUFFICES ASSUME MembershipInv, [MembershipNext]_membershipVars PROVE MembershipInv'
  OBVIOUS
<1>1. CASE UNCHANGED membershipVars
  BY <1>1 DEF membershipVars, MembershipInv, Shape, Numbering, Accepting, MembersComeFromInvites, IsMember
<1>2. CASE MembershipNext
  BY <1>2, CreateStep, AcceptStep, DeclineStep, CheckStep, InsertStep, AddStep, MarkStep,
     FailStep, PurgeStep DEF MembershipNext
<1>3. QED
  BY <1>1, <1>2

(* Accepting an invite makes its addressee a member, and nothing else makes one: *)
(* whatever overlaps, fails half way or is declined meanwhile.                   *)
THEOREM MembersAreInvited == MembershipSpec => []MembersComeFromInvites
<1>1. MembershipInv => MembersComeFromInvites
  BY DEF MembershipInv
<1>2. QED
  BY MembersInit, MembersNext, <1>1, PTL DEF MembershipSpec

(* A step that touches members leaves the role of whoever stays one. *)
LEMMA RoleStep ==
  ASSUME Shape, [MembershipNext]_membershipVars
  PROVE  \A u \in Users : IsMember(u) /\ members'[u] # "none" => members'[u] = members[u]
<1>1. CASE UNCHANGED membershipVars
  BY <1>1 DEF membershipVars
<1>2. CASE members' = members
  BY <1>2
<1>3. ASSUME NEW q \in inviting, AddMember(q)
      PROVE  \A u \in Users : IsMember(u) => members'[u] = members[u]
  BY <1>3 DEF AddMember, Shape, IsMember
<1>4. CASE PurgeCommit
  BY <1>4 DEF PurgeCommit
<1>5. QED
  BY <1>1, <1>2, <1>3, <1>4
  DEF MembershipNext, Purge, CreateInvite, Accept, DeclineInvite, CheckMember, CheckPending,
      InsertInvite, MarkAccepted, RequestFails, PurgeMembers, PurgeInvites

(* No step changes a member's role, the owner's included. *)
THEOREM RolesStay == MembershipSpec => RolesAreKept
<1>1. MembershipInv => Shape
  BY DEF MembershipInv
<1>2. Shape /\ [MembershipNext]_membershipVars =>
        [\A u \in Users : IsMember(u) /\ members'[u] # "none" => members'[u] = members[u]]_membershipVars
  BY RoleStep
<1>3. QED
  BY MembersInit, MembersNext, <1>1, <1>2, PTL DEF MembershipSpec, RolesAreKept

(* What keeps the answers: no invite with a final answer gets another one, or an   *)
(* accept.                                                                         *)
LEMMA AnswersKept ==
  ASSUME \A i \in invites, j \in invites' : i.id = j.id /\ IsFinal(i) => j.status = i.status,
         \A r \in inviting' : \/ \E p \in inviting : p.of = r.of
                             \/ \A i \in invites : IsFinal(i) => i.id # r.of
  PROVE  \A i \in invites, j \in invites' : i.id = j.id /\ IsFinal(i) => j.status = i.status /\ IsFinal(j)'
<1> SUFFICES ASSUME NEW i \in invites, NEW j \in invites', i.id = j.id, IsFinal(i)
             PROVE  j.status = i.status /\ IsFinal(j)'
  OBVIOUS
<1>1. j.status = i.status
  OBVIOUS
<1>2. CASE i.status = "accepted"
  BY <1>1, <1>2 DEF IsFinal
<1>3. CASE i.status = "declined" /\ \A q \in inviting : q.of # i.id
  <2>1. \A r \in inviting' : r.of # j.id
    BY <1>3
  <2>2. QED
    BY <1>1, <1>3, <2>1 DEF IsFinal
<1>4. QED
  BY <1>2, <1>3 DEF IsFinal

(* A step of a request that is under way, which may end it or take it on. *)
LEMMA SameInvites ==
  ASSUME Shape, NEW q \in inviting,
         CheckMember(q) \/ CheckPending(q) \/ AddMember(q) \/ RequestFails(q)
  PROVE  invites' = invites /\ \A r \in inviting' : \E p \in inviting : p.of = r.of
<1>1. q \in RequestRow
  BY DEF Shape
<1>2. \A stage : [q EXCEPT !.stage = stage].of = q.of
  BY <1>1 DEF RequestRow
<1>3. \A seen : [q EXCEPT !.stage = "insert", !.saw = seen].of = q.of
  BY <1>1 DEF RequestRow
<1>4. invites' = invites
  BY DEF CheckMember, CheckPending, AddMember, RequestFails
<1>5. \/ Finish(q) \/ (\E stage : GoOn(q, stage)) \/ \E seen : Listed(q, seen)
  BY DEF CheckMember, CheckPending, AddMember, RequestFails
<1>6. CASE Finish(q)
  BY <1>4, <1>6 DEF Finish
<1>7. ASSUME NEW stage, GoOn(q, stage) PROVE \A r \in inviting' : \E p \in inviting : p.of = r.of
  BY <1>2, <1>7 DEF GoOn
<1>8. ASSUME NEW seen, Listed(q, seen) PROVE \A r \in inviting' : \E p \in inviting : p.of = r.of
  BY <1>3, <1>8 DEF Listed
<1>9. QED
  BY <1>4, <1>5, <1>6, <1>7, <1>8

(* A status is written by an accept that read the invite pending, or over "pending". *)
LEMMA OverwrittenStep ==
  ASSUME Shape, Numbering, NEW id \in Nat, NEW status \in {"accepted", "declined"}, Resolve(id, status),
         \A i \in invites : i.id = id /\ IsFinal(i) => i.status = status,
         inviting' \subseteq inviting
  PROVE  \A i \in invites, j \in invites' : i.id = j.id /\ IsFinal(i) => j.status = i.status /\ IsFinal(j)'
<1>1. \A i \in invites, j \in invites' : i.id = j.id /\ IsFinal(i) => j.status = i.status
  <2> SUFFICES ASSUME NEW i \in invites, NEW j \in invites', i.id = j.id, IsFinal(i)
               PROVE  j.status = i.status
    OBVIOUS
  <2>1. PICK k \in invites : j.id = k.id /\ j.status = IF k.id = id THEN status ELSE k.status
    BY Resolved
  <2>2. k = i
    BY <2>1 DEF Numbering
  <2>3. QED
    BY <2>1, <2>2
<1>2. QED
  BY <1>1, AnswersKept

LEMMA AnswersStep ==
  ASSUME Shape, Numbering, [MembershipNext]_membershipVars
  PROVE  \A i \in invites, j \in invites' : i.id = j.id /\ IsFinal(i) => j.status = i.status /\ IsFinal(j)'
<1> DEFINE Goal == \A i \in invites, j \in invites' : i.id = j.id /\ IsFinal(i) => j.status = i.status /\ IsFinal(j)'
<1>0. \A i, j \in invites : i.id = j.id => i = j
  BY DEF Numbering
<1>1. CASE invites' \subseteq invites /\ inviting' = inviting
  <2>1. \A i \in invites, j \in invites' : i.id = j.id /\ IsFinal(i) => j.status = i.status
    BY <1>0, <1>1
  <2>2. \A r \in inviting' : \E p \in inviting : p.of = r.of
    BY <1>1
  <2>3. QED
    BY <2>1, <2>2, AnswersKept
<1>2. ASSUME NEW by \in Users, NEW to \in Users, NEW role \in Roles, CreateInvite(by, to, role)
      PROVE  Goal
  <2>1. PICK r : Arrive(r) /\ r.of = 0 /\ invites' = invites
    BY <1>2 DEF CreateInvite
  <2>2. \A i \in invites : i.id # 0
    BY DEF Numbering, Shape
  <2>3. \A x \in inviting' : \/ \E p \in inviting : p.of = x.of
                            \/ \A i \in invites : IsFinal(i) => i.id # x.of
    BY <2>1, <2>2 DEF Arrive
  <2>4. \A i \in invites, j \in invites' : i.id = j.id /\ IsFinal(i) => j.status = i.status
    BY <1>0, <2>1
  <2>5. QED
    BY <2>3, <2>4, AnswersKept
<1>3. ASSUME NEW u \in Users, NEW v \in invites, Accept(u, v) PROVE Goal
  <2>1. PICK r : Arrive(r) /\ r.of = v.id /\ invites' = invites
    BY <1>3 DEF Accept
  <2>2. \A i \in invites : IsFinal(i) => i.id # v.id
    BY <1>0, <1>3 DEF Accept, IsPending, IsFinal
  <2>3. \A x \in inviting' : \/ \E p \in inviting : p.of = x.of
                            \/ \A i \in invites : IsFinal(i) => i.id # x.of
    BY <2>1, <2>2 DEF Arrive
  <2>4. \A i \in invites, j \in invites' : i.id = j.id /\ IsFinal(i) => j.status = i.status
    BY <1>0, <2>1
  <2>5. QED
    BY <2>3, <2>4, AnswersKept
<1>4. ASSUME NEW u \in Users, NEW v \in invites, DeclineInvite(u, v) PROVE Goal
  <2>1. v.id \in Nat /\ Resolve(v.id, "declined") /\ inviting' = inviting
    BY <1>4 DEF DeclineInvite, Shape, InviteRow
  <2>2. \A i \in invites : i.id = v.id => ~IsFinal(i)
    BY <1>0, <1>4 DEF DeclineInvite, IsPending, IsFinal
  <2>3. QED
    BY <2>1, <2>2, OverwrittenStep
<1>5. ASSUME NEW q \in inviting, CheckMember(q) \/ CheckPending(q) \/ AddMember(q) \/ RequestFails(q)
      PROVE  Goal
  <2>1. \A i \in invites, j \in invites' : i.id = j.id /\ IsFinal(i) => j.status = i.status
    BY <1>0, <1>5, SameInvites
  <2>2. QED
    BY <1>5, <2>1, SameInvites, AnswersKept
<1>6. ASSUME NEW q \in inviting, InsertInvite(q) PROVE Goal
  <2>1. PICK n : n.id = q.id /\ invites' = invites \union {n}
    BY <1>6 DEF InsertInvite
  <2>2. q.op = "create" /\ inviting' \subseteq inviting
    BY <1>6 DEF InsertInvite, Finish
  <2>3. \A i \in invites : i.id # n.id
    BY <2>1, <2>2 DEF Numbering
  <2>4. \A i \in invites, j \in invites' : i.id = j.id /\ IsFinal(i) => j.status = i.status
    BY <1>0, <2>1, <2>3
  <2>5. QED
    BY <2>2, <2>4, AnswersKept
<1>7. ASSUME NEW q \in inviting, MarkAccepted(q) PROVE Goal
  <2>1. q.of \in Nat /\ Resolve(q.of, "accepted") /\ inviting' \subseteq inviting
    BY <1>7 DEF MarkAccepted, Finish, Shape, RequestRow
  <2>2. \A i \in invites : i.id = q.of /\ IsFinal(i) => i.status = "accepted"
    BY DEF IsFinal
  <2>3. QED
    BY <2>1, <2>2, OverwrittenStep
<1>8. CASE Purge
  BY <1>1, <1>8 DEF Purge, PurgeMembers, PurgeInvites, PurgeCommit
<1>9. CASE UNCHANGED membershipVars
  BY <1>1, <1>9 DEF membershipVars
<1>10. QED
  BY <1>2, <1>3, <1>4, <1>5, <1>6, <1>7, <1>8, <1>9 DEF MembershipNext

(* However requests overlap and fail, an accepted invite stays accepted, and a     *)
(* decline that no accept was in the way of stays what it is.                      *)
THEOREM AnswersAreFinal == MembershipSpec => AnswersStand
<1>1. MembershipInv => Shape /\ Numbering
  BY DEF MembershipInv
<1>2. Shape /\ Numbering /\ [MembershipNext]_membershipVars =>
        [\A i \in invites, j \in invites' :
           i.id = j.id /\ IsFinal(i) => j.status = i.status /\ IsFinal(j)']_membershipVars
  BY AnswersStep
<1>3. QED
  BY MembersInit, MembersNext, <1>1, <1>2, PTL DEF MembershipSpec, AnswersStand

-----------------------------------------------------------------------------
(* An invite that a request has listed is an older one; and while it is pending, *)
(* the request, and the invite it makes, are for somebody else.                  *)
SawOlder(x) == \A n \in x.saw : /\ n \in Nat /\ n <= arrived
                                /\ \A q \in inviting : q.op = "create" => q.id # n
SawOthers(x) == \A i \in invites : IsPending(i) /\ i.id \in x.saw => i.to # x.to

Sightings ==
  /\ \A j \in invites : SawOlder(j) /\ SawOthers(j)
  /\ \A q \in inviting : SawOlder(q) /\ (q.op = "create" => SawOthers(q))

(* A purge that no request overlaps deletes all there is, and nothing follows it. *)
PurgedAlone ==
  /\ doomed \in [users : SUBSET Users, ids : SUBSET Nat]
  /\ ~overlapped =>
       /\ purge # "not yet" => inviting = {}
       /\ purge \in {"members", "invites"} => doomed.users = {u \in Users : IsMember(u)}
       /\ purge = "invites" => doomed.ids = {i.id : i \in invites}
       /\ purge = "done" => invites = {} /\ \A u \in Users : ~IsMember(u)

(* A request arrives, having seen nothing. *)
LEMMA ArriveSightings ==
  ASSUME MembershipInv, Sightings, NEW r \in RequestRow, Arrive(r),
         r.id = arrived + 1, r.saw = {}, invites' = invites
  PROVE  Sightings'
<1>1. inviting' = inviting \union {r} /\ arrived' = arrived + 1 /\ arrived \in Nat
  BY DEF Arrive, MembershipInv, Shape
<1>2. ASSUME NEW x, SawOlder(x) PROVE SawOlder(x)'
  BY <1>1, <1>2 DEF SawOlder
<1>3. SawOlder(r)' /\ SawOthers(r)'
  BY DEF SawOlder, SawOthers
<1>4. \A x : SawOthers(x) => SawOthers(x)'
  BY DEF SawOthers, IsPending
<1>5. QED
  BY <1>1, <1>2, <1>3, <1>4 DEF Sightings

(* A request that ends, or goes on with what it had seen. *)
LEMMA GoOnSightings ==
  ASSUME Sightings, NEW q \in inviting, invites' = invites, arrived' = arrived,
         \A r \in inviting' : \E p \in inviting :
           r.id = p.id /\ r.op = p.op /\ r.to = p.to /\ r.saw = p.saw
  PROVE  Sightings'
<1>1. \A x : SawOlder(x) => SawOlder(x)'
  BY DEF SawOlder
<1>2. \A x : SawOthers(x) => SawOthers(x)'
  BY DEF SawOthers, IsPending
<1>3. ASSUME NEW r \in inviting' PROVE SawOlder(r)' /\ (r.op = "create" => SawOthers(r)')
  <2>1. PICK p \in inviting : r.id = p.id /\ r.op = p.op /\ r.to = p.to /\ r.saw = p.saw
    OBVIOUS
  <2>2. SawOlder(r) /\ (r.op = "create" => SawOthers(r))
    BY <2>1 DEF Sightings, SawOlder, SawOthers
  <2>3. QED
    BY <1>1, <1>2, <2>2
<1>4. QED
  BY <1>1, <1>2, <1>3 DEF Sightings

(* The list that a request compares with: nothing pending for its addressee, or *)
(* nothing seen.                                                                *)
LEMMA ListedSightings ==
  ASSUME MembershipInv, Sightings, NEW q \in inviting, q.op = "create",
         NEW seen \in {{}, {i.id : i \in invites}}, Listed(q, seen),
         seen # {} => ~\E i \in invites : IsPending(i) /\ i.to = q.to,
         invites' = invites, arrived' = arrived
  PROVE  Sightings'
<1> DEFINE r == [q EXCEPT !.stage = "insert", !.saw = seen]
<1>1. q \in RequestRow /\ arrived \in Nat /\ \A i \in invites : i.id \in Nat
  BY DEF MembershipInv, Shape, InviteRow
<1>2. r.id = q.id /\ r.op = "create" /\ r.to = q.to /\ r.saw = seen
  BY <1>1 DEF RequestRow
<1>3. inviting' = (inviting \ {q}) \union {r}
  BY DEF Listed
<1> HIDE DEF r
<1>4. \A x : SawOlder(x) => SawOlder(x)'
  BY <1>2, <1>3 DEF SawOlder
<1>5. \A x : SawOthers(x) => SawOthers(x)'
  BY DEF SawOthers, IsPending
<1>6. SawOlder(r)
  BY <1>1, <1>2 DEF SawOlder, MembershipInv, Numbering
<1>7. SawOthers(r)
  BY <1>2 DEF SawOthers
<1>8. QED
  BY <1>3, <1>4, <1>5, <1>6, <1>7 DEF Sightings

LEMMA CheckSightings ==
  ASSUME MembershipInv, Sightings, NEW q \in inviting, CheckMember(q) \/ CheckPending(q)
  PROVE  Sightings'
<1>1. invites' = invites /\ arrived' = arrived /\ q \in RequestRow /\ q.op = "create"
  BY DEF CheckMember, CheckPending, MembershipInv, Shape
<1>2. CASE Finish(q)
  BY <1>1, <1>2, GoOnSightings DEF Finish
<1>3. CASE GoOn(q, "list")
  <2> DEFINE r == [q EXCEPT !.stage = "list"]
  <2>1. r.id = q.id /\ r.op = q.op /\ r.to = q.to /\ r.saw = q.saw
    BY <1>1 DEF RequestRow
  <2>2. inviting' = (inviting \ {q}) \union {r}
    BY <1>3 DEF GoOn
  <2> HIDE DEF r
  <2>3. QED
    BY <1>1, <2>1, <2>2, GoOnSightings
<1>4. CASE CheckMember(q)
  BY <1>2, <1>3, <1>4 DEF CheckMember
<1>5. CASE CheckPending(q)
  <2>1. CASE Listed(q, {})
    BY <1>1, <2>1, ListedSightings
  <2>2. CASE /\ ~\E i \in invites : IsPending(i) /\ i.to = q.to
             /\ Listed(q, {i.id : i \in invites})
    BY <1>1, <2>2, ListedSightings
  <2>3. QED
    BY <1>2, <1>5, <2>1, <2>2 DEF CheckPending
<1>6. QED
  BY <1>4, <1>5

(* The invite that a request makes has seen what the request saw, and nobody has *)
(* seen it.                                                                      *)
LEMMA InsertSightings ==
  ASSUME MembershipInv, Sightings, NEW q \in inviting, InsertInvite(q)
  PROVE  Sightings'
<1> DEFINE n == [id |-> q.id, to |-> q.to, role |-> q.role, status |-> "pending", saw |-> q.saw]
<1>1. n.id = q.id /\ n.to = q.to /\ n.saw = q.saw /\ q.op = "create"
  BY DEF InsertInvite
<1>2. /\ invites' = invites \union {n} /\ inviting' = inviting \ {q} /\ arrived' = arrived
  BY DEF InsertInvite, Finish
<1> HIDE DEF n
<1>3. \A x : SawOlder(x) => SawOlder(x)'
  BY <1>2 DEF SawOlder
<1>4. ASSUME NEW x, SawOlder(x), SawOthers(x) PROVE SawOthers(x)'
  BY <1>1, <1>2, <1>4 DEF SawOlder, SawOthers, IsPending
<1>5. SawOlder(n) /\ SawOthers(n)
  BY <1>1 DEF Sightings, SawOlder, SawOthers
<1>6. QED
  BY <1>2, <1>3, <1>4, <1>5 DEF Sightings

(* No update makes an invite pending again. *)
LEMMA ResolvedSightings ==
  ASSUME MembershipInv, Sightings, NEW id \in Nat, NEW status \in {"accepted", "declined"},
         Resolve(id, status), inviting' \subseteq inviting, arrived' = arrived
  PROVE  Sightings'
<1>1. Shape /\ Numbering
  BY DEF MembershipInv
<1>2. \A j \in invites' : \E i \in invites :
        /\ j.id = i.id /\ j.to = i.to
        /\ j = IF i.id = id THEN [i EXCEPT !.status = status] ELSE i
        /\ j.status = IF i.id = id THEN status ELSE i.status
  BY <1>1, Resolved
<1>3. \A j \in invites' : \E i \in invites :
        /\ j.id = i.id /\ j.to = i.to /\ j.saw = i.saw
        /\ j.status = "pending" => i.status = "pending"
  <2> SUFFICES ASSUME NEW j \in invites'
               PROVE  \E i \in invites : /\ j.id = i.id /\ j.to = i.to /\ j.saw = i.saw
                                         /\ j.status = "pending" => i.status = "pending"
    OBVIOUS
  <2>1. PICK i \in invites : /\ j.id = i.id /\ j.to = i.to
                             /\ j = IF i.id = id THEN [i EXCEPT !.status = status] ELSE i
                             /\ j.status = IF i.id = id THEN status ELSE i.status
    BY <1>2
  <2>2. i \in InviteRow
    BY <1>1 DEF Shape
  <2>3. j.saw = i.saw
    BY <2>1, <2>2 DEF InviteRow
  <2>4. QED
    BY <2>1, <2>3
<1>4. \A x : SawOlder(x) => SawOlder(x)'
  BY DEF SawOlder
<1>5. ASSUME NEW x, SawOthers(x) PROVE SawOthers(x)'
  BY <1>3, <1>5 DEF SawOthers, IsPending
<1>6. ASSUME NEW j \in invites' PROVE SawOlder(j) /\ SawOthers(j)
  <2>1. PICK i \in invites : j.to = i.to /\ j.saw = i.saw
    BY <1>3
  <2>2. SawOlder(i) /\ SawOthers(i)
    BY DEF Sightings
  <2>3. QED
    BY <2>1, <2>2 DEF SawOlder, SawOthers
<1>7. QED
  BY <1>4, <1>5, <1>6 DEF Sightings

LEMMA SightingsStep ==
  MembershipInv /\ Sightings /\ [MembershipNext]_membershipVars => Sightings'
<1> SUFFICES ASSUME MembershipInv, Sightings, [MembershipNext]_membershipVars PROVE Sightings'
  OBVIOUS
<1>1. CASE UNCHANGED membershipVars
  BY <1>1 DEF membershipVars, Sightings, SawOlder, SawOthers, IsPending
<1>2. ASSUME NEW by \in Users, NEW to \in Users, NEW role \in Roles, CreateInvite(by, to, role)
      PROVE  Sightings'
  <2> DEFINE r == [id |-> arrived + 1, op |-> "create", stage |-> "member",
                   to |-> to, role |-> role, of |-> 0, saw |-> {}]
  <2>1. r \in RequestRow /\ r.id = arrived + 1 /\ r.saw = {}
    BY DEF MembershipInv, Shape, RequestRow
  <2>2. Arrive(r) /\ invites' = invites
    BY <1>2 DEF CreateInvite
  <2> HIDE DEF r
  <2>3. QED
    BY <2>1, <2>2, ArriveSightings
<1>3. ASSUME NEW u \in Users, NEW i \in invites, Accept(u, i) PROVE Sightings'
  <2> DEFINE r == [id |-> arrived + 1, op |-> "accept", stage |-> "add",
                   to |-> u, role |-> i.role, of |-> i.id, saw |-> {}]
  <2>1. r \in RequestRow /\ r.id = arrived + 1 /\ r.saw = {}
    BY DEF MembershipInv, Shape, RequestRow, InviteRow
  <2>2. Arrive(r) /\ invites' = invites
    BY <1>3 DEF Accept
  <2> HIDE DEF r
  <2>3. QED
    BY <2>1, <2>2, ArriveSightings
<1>4. ASSUME NEW u \in Users, NEW i \in invites, DeclineInvite(u, i) PROVE Sightings'
  <2>1. i.id \in Nat
    BY DEF MembershipInv, Shape, InviteRow
  <2>2. QED
    BY <1>4, <2>1, ResolvedSightings DEF DeclineInvite
<1>5. ASSUME NEW q \in inviting, AddMember(q) PROVE Sightings'
  <2> DEFINE r == [q EXCEPT !.stage = "mark"]
  <2>1. r.id = q.id /\ r.op = q.op /\ r.to = q.to /\ r.saw = q.saw
    BY DEF MembershipInv, Shape, RequestRow
  <2>2. inviting' = (inviting \ {q}) \union {r} /\ invites' = invites /\ arrived' = arrived
    BY <1>5 DEF AddMember, GoOn
  <2> HIDE DEF r
  <2>3. QED
    BY <2>1, <2>2, GoOnSightings
<1>6. ASSUME NEW q \in inviting, MarkAccepted(q) PROVE Sightings'
  <2>1. q.of \in Nat
    BY DEF MembershipInv, Shape, RequestRow
  <2>2. QED
    BY <1>6, <2>1, ResolvedSightings DEF MarkAccepted, Finish
<1>7. ASSUME NEW q \in inviting, RequestFails(q) PROVE Sightings'
  BY <1>7, GoOnSightings DEF RequestFails, Finish
<1>8. CASE Purge
  <2>1. inviting' = inviting /\ arrived' = arrived /\ invites' \subseteq invites
    BY <1>8 DEF Purge, PurgeMembers, PurgeInvites, PurgeCommit
  <2>2. QED
    BY <2>1 DEF Sightings, SawOlder, SawOthers, IsPending
<1>9. QED
  BY <1>1, <1>2, <1>3, <1>4, <1>5, <1>6, <1>7, <1>8, CheckSightings, InsertSightings
  DEF MembershipNext

(* createInvite's look at the pending invites lets two of them stack up only when *)
(* it did not see the other one: the list came before it, or failed.              *)
THEOREM StacksComeFromRaces == MembershipSpec => []StacksAreRaces
<1>1. MembershipInit => Sightings
  BY DEF MembershipInit, Sightings
<1>2. Sightings => StacksAreRaces
  BY DEF Sightings, SawOthers, StacksAreRaces
<1>3. QED
  BY MembersInit, MembersNext, SightingsStep, <1>1, <1>2, PTL DEF MembershipSpec

-----------------------------------------------------------------------------
(* An update of a status leaves the invites' numbers as they are. *)
LEMMA ResolvedIds ==
  ASSUME Shape, Numbering, NEW id \in Nat, NEW status \in {"accepted", "declined"},
         Resolve(id, status)
  PROVE  {i.id : i \in invites'} = {i.id : i \in invites}
<1>1. /\ \A j \in invites' : \E i \in invites : j.id = i.id
      /\ \A i \in invites : \E j \in invites' : j.id = i.id
  BY Resolved
<1>2. QED
  BY <1>1

(* A request beside the purge is noted; before the purge it does not matter, and *)
(* after it nobody is left to make one.                                          *)
LEMMA RequestsAlone ==
  ASSUME MembershipInv, PurgedAlone,
         NEW r, Arrive(r), purge = "done" => ~(invites = {} /\ \A u \in Users : ~IsMember(u)),
         members' = members, invites' = invites, purge' = purge, doomed' = doomed
  PROVE  PurgedAlone'
<1>1. overlapped' = (overlapped \/ purge \notin {"not yet", "done"})
  BY DEF Arrive
<1>2. overlapped' \/ purge = "not yet"
  BY <1>1 DEF PurgedAlone
<1>3. QED
  BY <1>1, <1>2 DEF PurgedAlone, IsMember

(* A step of a request that is under way: the purge has not begun, or is not alone. *)
LEMMA OthersAlone ==
  ASSUME PurgedAlone, NEW q \in inviting,
         purge' = purge, doomed' = doomed, overlapped' = overlapped
  PROVE  PurgedAlone'
<1>1. overlapped \/ purge = "not yet"
  BY DEF PurgedAlone
<1>2. QED
  BY <1>1 DEF PurgedAlone

LEMMA DeclineAlone ==
  ASSUME MembershipInv, PurgedAlone, NEW u \in Users, NEW i \in invites, DeclineInvite(u, i)
  PROVE  PurgedAlone'
<1>1. /\ i.id \in Nat /\ Shape /\ Numbering /\ Resolve(i.id, "declined") /\ i.id \notin doomed.ids
      /\ members' = members /\ purge' = purge /\ doomed' = doomed /\ inviting' = inviting
      /\ overlapped' = overlapped
  BY DEF DeclineInvite, MembershipInv, Shape, InviteRow
<1>2. {j.id : j \in invites'} = {j.id : j \in invites}
  BY <1>1, ResolvedIds
<1>3. ~overlapped => purge # "done"
  BY DEF PurgedAlone
<1>4. QED
  BY <1>1, <1>2, <1>3 DEF PurgedAlone, IsMember

LEMMA PurgeAlone ==
  ASSUME MembershipInv, PurgedAlone, Purge
  PROVE  PurgedAlone'
<1>0. /\ \A i \in invites : i.id \in Nat
      /\ overlapped' = (overlapped \/ inviting # {}) /\ inviting' = inviting
  BY DEF MembershipInv, Shape, InviteRow, Purge, PurgeMembers, PurgeInvites, PurgeCommit, Overlap
<1>1. CASE PurgeMembers
  <2>1. /\ doomed' \in [users : SUBSET Users, ids : SUBSET Nat]
        /\ doomed'.users = {u \in Users : IsMember(u)}
    BY <1>1 DEF PurgeMembers, PurgedAlone
  <2>2. purge' = "members" /\ members' = members
    BY <1>1 DEF PurgeMembers
  <2>3. QED
    BY <1>0, <2>1, <2>2 DEF PurgedAlone, IsMember
<1>2. CASE PurgeInvites
  <2>1. /\ doomed' \in [users : SUBSET Users, ids : SUBSET Nat]
        /\ doomed'.users = doomed.users /\ doomed'.ids = {i.id : i \in invites}
    BY <1>0, <1>2 DEF PurgeInvites, PurgedAlone
  <2>2. purge = "members" /\ purge' = "invites" /\ members' = members /\ invites' = invites
    BY <1>2 DEF PurgeInvites
  <2>3. QED
    BY <1>0, <2>1, <2>2 DEF PurgedAlone, IsMember
<1>3. CASE PurgeCommit
  <2>1. /\ purge = "invites" /\ purge' = "done" /\ doomed' = [users |-> {}, ids |-> {}]
        /\ members' = [u \in Users |-> IF u \in doomed.users THEN "none" ELSE members[u]]
        /\ invites' = {i \in invites : i.id \notin doomed.ids}
    BY <1>3 DEF PurgeCommit
  <2>2. ~overlapped => invites' = {} /\ \A u \in Users : members'[u] = "none"
    BY <2>1 DEF PurgedAlone, IsMember
  <2>3. QED
    BY <1>0, <2>1, <2>2 DEF PurgedAlone, IsMember
<1>4. QED
  BY <1>1, <1>2, <1>3 DEF Purge

LEMMA AloneStep ==
  MembershipInv /\ PurgedAlone /\ [MembershipNext]_membershipVars => PurgedAlone'
<1> SUFFICES ASSUME MembershipInv, PurgedAlone, [MembershipNext]_membershipVars
             PROVE  PurgedAlone'
  OBVIOUS
<1>1. CASE UNCHANGED membershipVars
  BY <1>1 DEF membershipVars, PurgedAlone, IsMember
<1>2. ASSUME NEW by \in Users, NEW to \in Users, NEW role \in Roles, CreateInvite(by, to, role)
      PROVE  PurgedAlone'
  <2>1. IsMember(by)
    BY <1>2 DEF CreateInvite, IsMember
  <2>2. QED
    BY <1>2, <2>1, RequestsAlone DEF CreateInvite
<1>3. ASSUME NEW u \in Users, NEW i \in invites, Accept(u, i) PROVE PurgedAlone'
  BY <1>3, RequestsAlone DEF Accept
<1>4. ASSUME NEW q \in inviting,
             \/ CheckMember(q) \/ CheckPending(q) \/ InsertInvite(q)
             \/ AddMember(q) \/ MarkAccepted(q) \/ RequestFails(q)
      PROVE  PurgedAlone'
  <2>1. purge' = purge /\ doomed' = doomed /\ overlapped' = overlapped
    BY <1>4 DEF CheckMember, CheckPending, InsertInvite, AddMember, MarkAccepted, RequestFails
  <2>2. QED
    BY <2>1, OthersAlone
<1>5. QED
  BY <1>1, <1>2, <1>3, <1>4, DeclineAlone, PurgeAlone DEF MembershipNext

(* purgeProject leaves no member and no invite, unless a request was under way *)
(* beside it: nobody is left who could make either.                            *)
THEOREM PurgeIsComplete == MembershipSpec => []PurgeLeavesNobody
<1>1. MembershipInit => PurgedAlone
  <2>1. [users |-> {}, ids |-> {}] \in [users : SUBSET Users, ids : SUBSET Nat]
    OBVIOUS
  <2>2. QED
    BY <2>1 DEF MembershipInit, PurgedAlone
<1>2. PurgedAlone => PurgeLeavesNobody
  BY DEF PurgedAlone, PurgeLeavesNobody
<1>3. QED
  BY MembersInit, MembersNext, AloneStep, <1>1, <1>2, PTL DEF MembershipSpec

-----------------------------------------------------------------------------
(* How far the purge is and what overlapped it keep their types. *)
Progress == purge \in {"not yet", "members", "invites", "done"} /\ overlapped \in BOOLEAN

LEMMA ProgressStep == Progress /\ [MembershipNext]_membershipVars => Progress'
<1> SUFFICES ASSUME Progress, [MembershipNext]_membershipVars PROVE Progress'
  OBVIOUS
<1>1. CASE UNCHANGED <<purge, overlapped>>
  BY <1>1 DEF Progress
<1>2. CASE purge' = purge /\ overlapped' \in BOOLEAN
  BY <1>2 DEF Progress
<1>3. CASE purge' \in {"members", "invites", "done"} /\ overlapped' \in BOOLEAN
  BY <1>3 DEF Progress
<1>4. CASE Purge
  BY <1>3, <1>4 DEF Purge, PurgeMembers, PurgeInvites, PurgeCommit, Overlap
<1>5. ASSUME NEW by \in Users, NEW to \in Users, NEW role \in Roles, CreateInvite(by, to, role)
      PROVE  Progress'
  BY <1>2, <1>5 DEF CreateInvite, Arrive
<1>6. ASSUME NEW u \in Users, NEW i \in invites, Accept(u, i) \/ DeclineInvite(u, i)
      PROVE  Progress'
  BY <1>1, <1>2, <1>6 DEF Accept, Arrive, DeclineInvite
<1>7. ASSUME NEW q \in inviting,
             \/ CheckMember(q) \/ CheckPending(q) \/ InsertInvite(q)
             \/ AddMember(q) \/ MarkAccepted(q) \/ RequestFails(q)
      PROVE  Progress'
  BY <1>1, <1>7 DEF CheckMember, CheckPending, InsertInvite, AddMember, MarkAccepted, RequestFails
<1>8. QED
  BY <1>1, <1>4, <1>5, <1>6, <1>7 DEF MembershipNext, membershipVars

(* The types of the collaborators' rows, of the requests' stages and of the purge. *)
THEOREM MembershipTypeCorrect == MembershipSpec => []MembershipTypeOK
<1>1. MembershipInit => Progress
  BY DEF MembershipInit, Progress
<1>2. MembershipInv /\ Progress => MembershipTypeOK
  BY DEF MembershipInv, Shape, Numbering, Progress, MembershipTypeOK, InviteRow, RequestRow
<1>3. QED
  BY MembersInit, MembersNext, ProgressStep, <1>1, <1>2, PTL DEF MembershipSpec

=============================================================================

----------------------------- MODULE Donations ------------------------------
(***************************************************************************)
(* Donations: the checkout sessions of the payment service, its webhook     *)
(* deliveries, and stripeWebhook with donation.Store.  The service is       *)
(* external: a session completes once, paid or with the payment still to    *)
(* come, and its event is delivered at least until one delivery is answered *)
(* with a 2xx.  Deliveries overlap, and an answer may be lost.              *)
(***************************************************************************)
EXTENDS Naturals, FiniteSets

CONSTANTS Sessions,
          MaxDeliveries    \* bound: deliveries

ASSUME DonationBoundsAssumption == MaxDeliveries \in Nat

VARIABLES
  checkout,     \* the service's sessions: "none", "open", "paid" or "unpaid"
  deliveries,   \* webhook requests under way
  delivered,    \* how many there have been
  donations,    \* the table donations: rows with the session they are for
  acked         \* the sessions whose event the service has seen a 2xx for

donationVars == <<checkout, deliveries, delivered, donations, acked>>

DonationsInit ==
  /\ checkout = [s \in Sessions |-> "none"]
  /\ deliveries = {} /\ delivered = 0
  /\ donations = {} /\ acked = {}

-----------------------------------------------------------------------------
(* CreateCheckoutSession. *)
CreateCheckoutSession(s) ==
  /\ checkout[s] = "none"
  /\ checkout' = [checkout EXCEPT ![s] = "open"]
  /\ UNCHANGED <<deliveries, delivered, donations, acked>>

(* The donor leaves the service's page. *)
Complete(s) ==
  /\ checkout[s] = "open"
  /\ \E status \in {"paid", "unpaid"} : checkout' = [checkout EXCEPT ![s] = status]
  /\ UNCHANGED <<deliveries, delivered, donations, acked>>

(* A delivery of checkout.session.completed, the first or another. *)
Deliver(s) ==
  /\ checkout[s] \in {"paid", "unpaid"}
  /\ delivered < MaxDeliveries
  /\ delivered' = delivered + 1
  /\ deliveries' = deliveries \union
       {[id |-> delivered + 1, session |-> s, status |-> checkout[s], answer |-> 0]}
  /\ UNCHANGED <<checkout, donations, acked>>

Answered(d, code) == deliveries' = (deliveries \ {d}) \union {[d EXCEPT !.answer = code]}

(* ParseCompletedCheckout: not paid, so nothing to record; or it arrived too late *)
(* for its signature.                                                             *)
NothingToRecord(d) ==
  /\ d.answer = 0
  /\ \/ d.status # "paid" /\ Answered(d, 200)
     \/ Answered(d, 400)
  /\ UNCHANGED <<checkout, delivered, donations, acked>>

(* Faulty: an error of the database is logged and the delivery answered with 200. *)
RecordCompletedOrLog(d) ==
  /\ d.answer = 0 /\ d.status = "paid"
  /\ \/ donations' = donations \union {[id |-> d.id, session |-> d.session]}
     \/ UNCHANGED donations
  /\ Answered(d, 200)
  /\ UNCHANGED <<checkout, delivered, acked>>

(* RecordCompleted: ON CONFLICT (stripe_session_id) DO NOTHING, or an error. *)
RecordCompleted(d) ==
  /\ d.answer = 0 /\ d.status = "paid"
  /\ \/ /\ donations' = IF \E r \in donations : r.session = d.session
                        THEN donations
                        ELSE donations \union {[id |-> d.id, session |-> d.session]}
        /\ Answered(d, 200)
     \/ Answered(d, 500) /\ UNCHANGED donations
  /\ UNCHANGED <<checkout, delivered, acked>>

(* The answer reaches the service, or is lost: so may the request be, before it. *)
Answer(d) ==
  /\ deliveries' = deliveries \ {d}
  /\ acked' = IF d.answer = 200 THEN acked \union {d.session} ELSE acked
  /\ UNCHANGED <<checkout, delivered, donations>>

AnswerLost(d) ==
  /\ deliveries' = deliveries \ {d}
  /\ UNCHANGED <<checkout, delivered, donations, acked>>

DonationsNext ==
  \/ \E s \in Sessions : CreateCheckoutSession(s) \/ Complete(s) \/ Deliver(s)
  \/ \E d \in deliveries : NothingToRecord(d) \/ RecordCompleted(d) \/ Answer(d) \/ AnswerLost(d)

DonationsSpec == DonationsInit /\ [][DonationsNext]_donationVars

-----------------------------------------------------------------------------
DonationsTypeOK ==
  /\ checkout \in [Sessions -> {"none", "open", "paid", "unpaid"}]
  /\ \A d \in deliveries : d.id \in 1..delivered /\ d.answer \in {0, 200, 400, 500}
  /\ acked \subseteq Sessions

Rows(s) == {r \in donations : r.session = s}

(* A donation whose event the service need not send again is counted exactly once, *)
(* and nothing else is counted, however the deliveries repeat, overlap and fail.   *)
PaidIsCountedOnce ==
  \A s \in Sessions :
    /\ Cardinality(Rows(s)) <= 1
    /\ Rows(s) # {} => checkout[s] = "paid"
    /\ checkout[s] = "paid" /\ s \in acked => Rows(s) # {}

=============================================================================

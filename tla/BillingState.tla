----------------------------- MODULE BillingState -----------------------------
(***************************************************************************)
(* The billing projection of one account: BillingStateStore                *)
(* (vertical_apps/industrial_claims/billing_state.py), fed with verified   *)
(* payment-provider events that arrive in any order, any number of times.  *)
(*                                                                         *)
(* The provider is external.  It runs one subscription of the account at a *)
(* time, stamps events with a clock of its own and repeats a delivery that *)
(* was refused.  apply_verified_event is one transaction (BEGIN IMMEDIATE),*)
(* so a call is one action.  Rows of other accounts are independent.       *)
(*                                                                         *)
(* Definitions named Faulty... are not part of the specification: each is  *)
(* the definition after it with one plausible bug, which some property has *)
(* to detect.                                                              *)
(***************************************************************************)
EXTENDS Naturals, FiniteSets

CONSTANTS
  Subscription,   \* the subscriptions the account takes out, one by one
  Customer,       \* customer ids the provider may open for the account
  None,           \* SQL NULL, an absent id
  MaxClock,       \* bound: the provider's clock
  MaxEvents,      \* bound: events the provider sends
  MaxLate         \* bound: checkout events created late

Revoking == {"payment_failed", "deleted", "refunded"}

EventType == {"checkout", "paid"} \cup Revoking

Event ==
  [type : EventType, sub : Subscription \cup {None}, cust : Customer \cup {None},
   created : Nat, n : Nat]

VARIABLES
  clock,        \* the provider's clock
  plan,         \* the provider's view of each subscription
  sent,         \* the events it has created so far
  receipts,     \* vindorum_billing_events: the events on file
  projection,   \* the account's vindorum_billing_state row
  faults        \* the late checkouts

vars == <<clock, plan, sent, receipts, projection, faults>>

Plan ==
  [status : {"none", "open", "paid", "unpaid", "ended"},
   refunded : BOOLEAN, checkout : BOOLEAN, cust : Customer \cup {None}]

State == {"PENDING_PAYMENT_CONFIRMATION", "ACTIVE", "PAST_DUE", "CANCELLED", "REFUNDED"}

TerminalState == {"CANCELLED", "REFUNDED"}

Projection ==
  [cust : Customer \cup {None}, sub : Subscription \cup {None}, state : State,
   created : Nat]     \* last_event_created

ASSUME BillingAssumption ==
  /\ None \notin Subscription \cup Customer \cup Projection
  /\ MaxClock \in Nat /\ MaxEvents \in Nat /\ MaxLate \in Nat

TypeOK ==
  /\ clock \in Nat
  /\ plan \in [Subscription -> Plan]
  /\ sent \subseteq Event
  /\ receipts \subseteq sent
  /\ projection \in Projection \cup {None}
  /\ faults \in [checkouts : Nat]

Init ==
  /\ clock = 0
  /\ plan = [s \in Subscription |-> [status |-> "none", refunded |-> FALSE,
                                     checkout |-> FALSE, cust |-> None]]
  /\ sent = {} /\ receipts = {}
  /\ projection = None
  /\ faults = [checkouts |-> 0]

-----------------------------------------------------------------------------
(* The provider (external).                                                 *)

Tick ==
  /\ clock < MaxClock
  /\ clock' = clock + 1
  /\ UNCHANGED <<plan, sent, receipts, projection, faults>>

Live(s) == plan[s].status \in {"open", "paid", "unpaid"}

(* Event e, but for its serial number and time, is created.                 *)
Send(type, s, c) ==
  /\ Cardinality(sent) < MaxEvents
  /\ sent' = sent \cup {[type |-> type, sub |-> s, cust |-> c, created |-> clock,
                         n |-> Cardinality(sent)]}
  /\ UNCHANGED <<clock, receipts, projection>>

(* A subscription starts when no other one runs, and not within a second of *)
(* the last event.                                                          *)
Subscribe(s) ==
  /\ plan[s].status = "none"
  /\ \A o \in Subscription : ~Live(o)
  /\ \A e \in sent : e.created < clock
  /\ \E c \in Customer :
       plan' = [plan EXCEPT ![s] = [@ EXCEPT !.status = "open", !.cust = c]]
  /\ UNCHANGED <<clock, sent, receipts, projection, faults>>

(* The checkout event is late when an event of the subscription precedes it.*)
CompleteCheckout(s) ==
  /\ Live(s) /\ ~plan[s].checkout
  /\ LET late == IF \E e \in sent : e.sub = s /\ e.created < clock THEN 1 ELSE 0 IN
       /\ faults.checkouts + late <= MaxLate
       /\ faults' = [faults EXCEPT !.checkouts = @ + late]
  /\ Send("checkout", s, plan[s].cust)
  /\ plan' = [plan EXCEPT ![s] = [@ EXCEPT !.checkout = TRUE]]

Pay(s) ==
  /\ Live(s) /\ ~plan[s].refunded
  /\ Send("paid", s, plan[s].cust)
  /\ plan' = [plan EXCEPT ![s] = [@ EXCEPT !.status = "paid"]]
  /\ UNCHANGED faults

FailPayment(s) ==
  /\ Live(s) /\ ~plan[s].refunded
  /\ Send("payment_failed", s, plan[s].cust)
  /\ plan' = [plan EXCEPT ![s] = [@ EXCEPT !.status = "unpaid"]]
  /\ UNCHANGED faults

Cancel(s) ==
  /\ Live(s)
  /\ Send("deleted", s, plan[s].cust)
  /\ plan' = [plan EXCEPT ![s] = [@ EXCEPT !.status = "ended"]]
  /\ UNCHANGED faults

(* A charge names the customer and no subscription.                         *)
Refund(s) ==
  /\ ~plan[s].refunded
  /\ \E e \in sent : e.type = "paid" /\ e.sub = s
  /\ Send("refunded", None, plan[s].cust)
  /\ plan' = [plan EXCEPT ![s] = [@ EXCEPT !.refunded = TRUE]]
  /\ UNCHANGED faults

-----------------------------------------------------------------------------
(* apply_verified_event.                                                    *)

NextState(e) ==
  CASE e.type = "checkout" -> "PENDING_PAYMENT_CONFIRMATION"
    [] e.type = "paid" -> "ACTIVE"
    [] e.type = "payment_failed" -> "PAST_DUE"
    [] e.type = "deleted" -> "CANCELLED"
    [] e.type = "refunded" -> "REFUNDED"

Rebinds(p, e) == p.sub # None /\ e.sub # None /\ e.sub # p.sub

(* _ignore_without_regression.                                              *)
Ignored(p, e) ==
  LET next == NextState(e) IN
  \/ p.state = "REFUNDED" /\ ~Rebinds(p, e) /\ next # "REFUNDED"
  \/ p.state = "CANCELLED" /\ ~Rebinds(p, e)
       /\ next \in {"PENDING_PAYMENT_CONFIRMATION", "ACTIVE", "PAST_DUE"}
  \/ p.state \in {"ACTIVE", "PAST_DUE"} /\ next = "PENDING_PAYMENT_CONFIRMATION"

FaultySafeTie(p, e) == TRUE    \* a tie is applied whatever it changes

(* _same_timestamp_transition_is_safe.                                      *)
SafeTie(p, e) ==
  LET next == NextState(e) IN
  \/ p.state = next
  \/ IF Rebinds(p, e) /\ p.state \in TerminalState
     THEN next \in {"PENDING_PAYMENT_CONFIRMATION", "ACTIVE"}
     ELSE \/ p.state = "PENDING_PAYMENT_CONFIRMATION"
          \/ p.state \in {"ACTIVE", "PAST_DUE"} /\ next \in TerminalState
          \/ p.state = "CANCELLED" /\ next = "REFUNDED"

FaultyStale(p, e) == FALSE     \* deliveries are applied as they come

Stale(p, e) == e.created < p.created

(* The calls that raise: the transaction rolls back and the provider will   *)
(* deliver the event again.                                                 *)
FaultyRefused(p, e) ==         \* a subscription replaces another at any time
  \/ p.cust # None /\ e.cust # None /\ e.cust # p.cust
  \/ ~Ignored(p, e) /\ e.created = p.created /\ ~SafeTie(p, e)

Refused(p, e) ==
  \/ p.cust # None /\ e.cust # None /\ e.cust # p.cust
  \/ Rebinds(p, e) /\ ~(p.state \in TerminalState /\ e.type \in {"checkout", "paid"})
  \/ ~Ignored(p, e) /\ e.created = p.created /\ ~SafeTie(p, e)

Coalesce(new, old) == IF new # None THEN new ELSE old

Projected(p, e) ==
  [cust |-> Coalesce(e.cust, IF p = None THEN None ELSE p.cust),
   sub |-> Coalesce(e.sub, IF p = None THEN None ELSE p.sub),
   state |-> NextState(e), created |-> e.created]

(* An event on file is answered from the projection and changes nothing.    *)
Deliver(e) ==
  /\ e \notin receipts
  /\ IF projection = None THEN projection' = Projected(projection, e)
     ELSE IF Stale(projection, e) THEN UNCHANGED projection
     ELSE /\ ~Refused(projection, e)
          /\ projection' = IF Ignored(projection, e) THEN projection
                           ELSE Projected(projection, e)
  /\ receipts' = receipts \cup {e}
  /\ UNCHANGED <<clock, plan, sent, faults>>

-----------------------------------------------------------------------------
Next ==
  \/ Tick
  \/ \E s \in Subscription :
       \/ Subscribe(s) \/ CompleteCheckout(s) \/ Pay(s) \/ FailPayment(s)
       \/ Cancel(s) \/ Refund(s)
  \/ \E e \in sent : Deliver(e)

Spec == Init /\ [][Next]_vars

-----------------------------------------------------------------------------
(* Paid access follows the provider's order, not the order of delivery:     *)
(* while the account is ACTIVE, no event on file that takes access away is  *)
(* newer than the one that granted it (billing_state.py:26-29, 247-257).    *)
AccessIsPaid ==
  projection # None /\ projection.state = "ACTIVE" =>
    \A e \in receipts : e.type \in Revoking => e.created <= projection.created

(* Every event the provider created is on file.                             *)
Settled == sent # {} /\ receipts = sent

PaidUp == \E s \in Subscription : plan[s].status = "paid"

Refunded == \E s \in Subscription : plan[s].refunded

(* Events may come in any order: once all of them are on file, the account  *)
(* is ACTIVE exactly when its subscription is paid (billing_state.py:26-29).*)
(* Holds while nothing is refunded (a refund names no subscription, so it   *)
(* hits whichever one it finds) and no checkout event is newer than a       *)
(* payment.                                                                 *)
OrderIndependent ==
  Settled /\ ~Refunded /\ faults.checkouts = 0 =>
    (projection.state = "ACTIVE" <=> PaidUp)

(* Verified events never move the account between customers, between live   *)
(* subscriptions or back in time (billing_state.py:259-270).                *)
NoSilentRebind ==
  [][projection # None /\ projection' # projection =>
       /\ projection'.created >= projection.created
       /\ projection.cust # None => projection'.cust = projection.cust
       /\ projection.sub \notin {None, projection'.sub} =>
            /\ projection.state \in TerminalState
            /\ projection'.state \notin TerminalState \cup {"PAST_DUE"}]_vars
=============================================================================

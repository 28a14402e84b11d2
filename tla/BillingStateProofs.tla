-------------------------- MODULE BillingStateProofs --------------------------
(***************************************************************************)
(* Proofs about BillingState: types, NoSilentRebind, AccessIsPaid and, in  *)
(* the last section, OrderIndependent.                                     *)
(*                                                                         *)
(* AccessIsPaid is not inductive.  A revoking event may be put on file as  *)
(* ignored although it is newer than the event the projection shows, and   *)
(* an older payment could then bring the access back.  It cannot, because  *)
(* such an event leaves the account in a terminal state, which only        *)
(* another subscription's payment ends; and the provider's subscriptions   *)
(* follow one another, so that this payment is newer than everything that  *)
(* was said of the first.                                                  *)
(***************************************************************************)
EXTENDS BillingState, FiniteSetTheorems, TLAPS

(* What the provider has sent is finite and in the past.                    *)
SentInOrder ==
  /\ IsFiniteSet(sent)
  /\ \A e \in sent :
       /\ e.created <= clock
       /\ (e.sub = None) <=> (e.type = "refunded")
       /\ e.sub # None => plan[e.sub].status # "none"

(* One subscription runs at a time, after all that was sent of the others.  *)
OneRuns ==
  /\ \A s, t \in Subscription : Live(s) /\ Live(t) => s = t
  /\ \A s \in Subscription : Live(s) =>
       \A e \in sent : e.sub \notin {None, s} =>
         /\ e.created < clock
         /\ \A f \in sent : f.sub = s => e.created < f.created

(* What was sent of one subscription lies wholly before or wholly after     *)
(* what was sent of another.                                                *)
Apart ==
  \A e, f, g \in sent :
    /\ e.sub # None /\ f.sub # None /\ f.sub # e.sub /\ g.sub = f.sub
    /\ f.created <= e.created
    => g.created < e.created

(* Where the projection's subscription came from.                           *)
Bound ==
  /\ projection = None => receipts = {}
  /\ projection # None =>
       IF projection.sub = None THEN projection.state = "REFUNDED"
       ELSE \E g \in receipts : g.sub = projection.sub /\ g.created <= projection.created

(* A revoking event newer than the projection has found a terminal state.   *)
Overtaken ==
  projection # None =>
    \A r \in receipts : r.type \in Revoking /\ r.created > projection.created =>
      projection.state \in TerminalState /\ projection.sub \in {None, r.sub}

IInv == TypeOK /\ SentInOrder /\ OneRuns /\ Apart /\ Bound /\ Overtaken
-----------------------------------------------------------------------------
(* The provider's steps.                                                    *)

Provider ==
  \/ Tick
  \/ \E s \in Subscription :
       Subscribe(s) \/ CompleteCheckout(s) \/ Pay(s) \/ FailPayment(s) \/ Cancel(s) \/ Refund(s)

(* What each of its events has in common: a new event of the present about  *)
(* a subscription that runs, or about none.                                 *)
Sends(e) ==
  /\ sent' = sent \cup {e} /\ e \in Event /\ e.created = clock
  /\ (e.sub = None) <=> (e.type = "refunded")
  /\ e.sub # None => e.sub \in Subscription /\ Live(e.sub)
  /\ UNCHANGED <<clock, receipts, projection>>
  /\ plan' \in [Subscription -> Plan]
  /\ \A t \in Subscription : plan'[t].status # plan[t].status => Live(t)
  /\ \A t \in Subscription : plan'[t].status # "none" <=> plan[t].status # "none"
  /\ faults' \in [checkouts : Nat]

(* A type no other definition has to be unfolded for.                       *)
LEMMA EventFields ==
  ASSUME NEW e \in Event
  PROVE  /\ e.type \in EventType /\ e.sub \in Subscription \cup {None}
         /\ e.cust \in Customer \cup {None} /\ e.created \in Nat
BY DEF Event

LEMMA NextStateTyped ==
  ASSUME NEW e \in Event
  PROVE  /\ NextState(e) \in State
         /\ NextState(e) = "ACTIVE" => e.type = "paid"
         /\ NextState(e) = "REFUNDED" <=> e.type = "refunded"
BY DEF Event, EventType, Revoking, NextState, State

(* Each of the provider's events is one of those Sends describes.           *)
LEMMA SendsOne ==
  ASSUME BillingAssumption, IInv, NEW s \in Subscription,
         CompleteCheckout(s) \/ Pay(s) \/ FailPayment(s) \/ Cancel(s) \/ Refund(s)
  PROVE  \E e \in Event : Sends(e)
<1> DEFINE new(type, sub) ==
      [type |-> type, sub |-> sub, cust |-> plan[s].cust, created |-> clock,
       n |-> Cardinality(sent)]
<1>0. /\ plan \in [Subscription -> Plan] /\ clock \in Nat /\ faults \in [checkouts : Nat]
      /\ Cardinality(sent) \in Nat /\ plan[s].cust \in Customer \cup {None}
      /\ None \notin Subscription
  BY FS_CardinalityType DEF IInv, TypeOK, SentInOrder, Plan, BillingAssumption
<1>1. CASE CompleteCheckout(s)
  <2>1. new("checkout", s) \in Event
    BY <1>0 DEF Event, EventType
  <2>2. faults' \in [checkouts : Nat]
    <3>1. PICK late \in {0, 1} : faults' = [faults EXCEPT !.checkouts = @ + late]
      BY <1>1 DEF CompleteCheckout
    <3> QED  BY <1>0, <3>1
  <2>3. plan[s] \in Plan /\ plan' = [plan EXCEPT ![s] = [plan[s] EXCEPT !.checkout = TRUE]]
    BY <1>0, <1>1 DEF CompleteCheckout
  <2>4. /\ plan' \in [Subscription -> Plan]
        /\ \A t \in Subscription : plan'[t].status = plan[t].status
    BY <1>0, <2>3 DEF Plan
  <2>5. Live(s) /\ Send("checkout", s, plan[s].cust)
    BY <1>1 DEF CompleteCheckout
  <2>6. Sends(new("checkout", s))
    BY <1>0, <2>1, <2>2, <2>4, <2>5 DEF Sends, Send
  <2> QED  BY <2>1, <2>6
<1>2. CASE Pay(s)
  <2>1. new("paid", s) \in Event
    BY <1>0 DEF Event, EventType
  <2>2. Sends(new("paid", s))
    BY <1>0, <1>2, <2>1 DEF Sends, Pay, Send, Live, Plan
  <2> QED  BY <2>1, <2>2
<1>3. CASE FailPayment(s)
  <2>1. new("payment_failed", s) \in Event
    BY <1>0 DEF Event, EventType, Revoking
  <2>2. Sends(new("payment_failed", s))
    BY <1>0, <1>3, <2>1 DEF Sends, FailPayment, Send, Live, Plan
  <2> QED  BY <2>1, <2>2
<1>4. CASE Cancel(s)
  <2>1. new("deleted", s) \in Event
    BY <1>0 DEF Event, EventType, Revoking
  <2>2. Sends(new("deleted", s))
    BY <1>0, <1>4, <2>1 DEF Sends, Cancel, Send, Live, Plan
  <2> QED  BY <2>1, <2>2
<1>5. CASE Refund(s)
  <2>1. new("refunded", None) \in Event
    BY <1>0 DEF Event, EventType, Revoking
  <2>2. plan[s] \in Plan /\ plan' = [plan EXCEPT ![s] = [plan[s] EXCEPT !.refunded = TRUE]]
    BY <1>0, <1>5 DEF Refund
  <2>3. /\ plan' \in [Subscription -> Plan]
        /\ \A t \in Subscription : plan'[t].status = plan[t].status
    BY <1>0, <2>2 DEF Plan
  <2>4. Send("refunded", None, plan[s].cust) /\ UNCHANGED faults
    BY <1>5 DEF Refund
  <2>5. Sends(new("refunded", None))
    BY <1>0, <2>1, <2>3, <2>4 DEF Sends, Send
  <2> QED  BY <2>1, <2>5
<1> QED  BY <1>1, <1>2, <1>3, <1>4, <1>5

LEMMA SendsKeeps ==
  ASSUME BillingAssumption, IInv, NEW x \in Event, Sends(x)
  PROVE  IInv'
<1> USE DEF Sends
<1>1. TypeOK'
  BY DEF IInv, TypeOK
<1>2. SentInOrder'
  BY EventFields, FS_AddElement DEF IInv, TypeOK, SentInOrder, Live
<1>3. OneRuns'
  <2>1. \A s \in Subscription : Live(s)' => Live(s)
    BY DEF Live, IInv, TypeOK, Plan
  <2>2. \A s, t \in Subscription : Live(s)' /\ Live(t)' => s = t
    BY <2>1 DEF IInv, OneRuns
  <2>3. ASSUME NEW s \in Subscription, Live(s)', NEW e \in sent', e.sub \notin {None, s}
        PROVE  e.created < clock /\ \A f \in sent' : f.sub = s => e.created < f.created
    <3>1. e \in sent
      BY <2>1, <2>3 DEF IInv, OneRuns
    <3> QED  BY <2>1, <2>3, <3>1 DEF IInv, OneRuns
  <2> QED  BY <2>2, <2>3 DEF OneRuns
<1>4. Apart'
  <2> SUFFICES ASSUME NEW e \in sent', NEW f \in sent', NEW g \in sent',
                      e.sub # None, f.sub # None, f.sub # e.sub, g.sub = f.sub,
                      f.created <= e.created
               PROVE  g.created < e.created
    BY DEF Apart
  <2>0. /\ sent \subseteq Event /\ e \in Event /\ f \in Event /\ g \in Event
        /\ e.created \in Nat /\ f.created \in Nat /\ g.created \in Nat
        /\ e.sub \in Subscription /\ f.sub \in Subscription
    BY EventFields DEF IInv, TypeOK
  <2>1. CASE e = x
    <3>1. g \in sent /\ f \in sent
      BY <2>1
    <3> QED  BY <2>0, <2>1, <3>1 DEF IInv, OneRuns
  <2>2. CASE e # x /\ (f = x \/ g = x)
    <3>1. e \in sent /\ Live(x.sub) /\ x.sub = f.sub
      BY <2>2, <2>0
    <3>2. e.created < clock /\ \A h \in sent : h.sub = f.sub => e.created < h.created
      BY <2>0, <3>1 DEF IInv, OneRuns
    <3> QED  BY <2>0, <3>1, <3>2
  <2>3. CASE e # x /\ f # x /\ g # x
    BY <2>3 DEF IInv, Apart
  <2> QED  BY <2>1, <2>2, <2>3
<1>5. Bound' /\ Overtaken'
  BY DEF IInv, Bound, Overtaken
<1> QED  BY <1>1, <1>2, <1>3, <1>4, <1>5 DEF IInv

LEMMA ProviderKeeps ==
  ASSUME BillingAssumption, IInv, Provider
  PROVE  IInv' /\ projection' = projection
<1>1. CASE Tick
  <2>1. TypeOK' /\ SentInOrder' /\ OneRuns'
    BY <1>1, EventFields
    DEF Tick, IInv, TypeOK, SentInOrder, OneRuns, Live
  <2>2. Apart' /\ Bound' /\ Overtaken' /\ projection' = projection
    BY <1>1 DEF Tick, IInv, Apart, Bound, Overtaken
  <2> QED  BY <2>1, <2>2 DEF IInv
<1>2. ASSUME NEW s \in Subscription, Subscribe(s)
      PROVE  IInv' /\ projection' = projection
  <2>0. /\ plan' \in [Subscription -> Plan]
        /\ \A t \in Subscription : t # s => plan'[t] = plan[t]
        /\ plan[s].status = "none" /\ plan'[s].status = "open"
        /\ \A t \in Subscription : ~Live(t)
        /\ \A e \in sent : e.created < clock
        /\ UNCHANGED <<clock, sent, receipts, projection, faults>>
    <3>1. PICK c \in Customer :
            plan' = [plan EXCEPT ![s] = [@ EXCEPT !.status = "open", !.cust = c]]
      BY <1>2 DEF Subscribe
    <3> DEFINE q == [plan[s] EXCEPT !.status = "open", !.cust = c]
    <3>2. plan \in [Subscription -> Plan] /\ plan[s] \in Plan
      BY DEF IInv, TypeOK
    <3>3. q \in Plan /\ q.status = "open"
      BY <3>2 DEF Plan
    <3>4. plan' = [plan EXCEPT ![s] = q]
      BY <3>1
    <3> HIDE DEF q
    <3>5. /\ plan' \in [Subscription -> Plan] /\ plan'[s].status = "open"
          /\ \A t \in Subscription : t # s => plan'[t] = plan[t]
      BY <3>2, <3>3, <3>4
    <3> QED  BY <1>2, <3>5 DEF Subscribe
  <2>1. TypeOK' /\ SentInOrder'
    <3>1. \A e \in sent : e.sub # None => e.sub \in Subscription
      BY EventFields DEF IInv, TypeOK
    <3> QED  BY <2>0, <3>1 DEF IInv, TypeOK, SentInOrder
  <2>2. OneRuns'
    <3>1. \A t \in Subscription : Live(t)' => t = s
      BY <2>0 DEF Live
    <3>2. \A e \in sent : e.sub # s
      BY <2>0, BillingAssumption DEF IInv, SentInOrder, BillingAssumption
    <3> QED  BY <2>0, <3>1, <3>2 DEF OneRuns
  <2>3. Apart' /\ Bound' /\ Overtaken'
    BY <2>0 DEF IInv, Apart, Bound, Overtaken
  <2> QED  BY <2>0, <2>1, <2>2, <2>3 DEF IInv
<1>3. ASSUME NEW s \in Subscription,
             CompleteCheckout(s) \/ Pay(s) \/ FailPayment(s) \/ Cancel(s) \/ Refund(s)
      PROVE  IInv' /\ projection' = projection
  BY <1>3, SendsOne, SendsKeeps DEF Sends
<1> QED  BY <1>1, <1>2, <1>3 DEF Provider

-----------------------------------------------------------------------------
(* A delivery.                                                              *)

(* The event decides the row it is projected to.                            *)
LEMMA ProjectedFields ==
  ASSUME BillingAssumption, NEW e \in Event, NEW p \in Projection \cup {None}
  PROVE  /\ Projected(p, e) \in Projection
         /\ Projected(p, e).created = e.created
         /\ Projected(p, e).state = NextState(e)
         /\ Projected(p, e).sub = Coalesce(e.sub, IF p = None THEN None ELSE p.sub)
         /\ Projected(p, e).cust = Coalesce(e.cust, IF p = None THEN None ELSE p.cust)
BY EventFields, NextStateTyped DEF Projected, Projection, Coalesce

(* The account moves to a subscription only from a terminal state and by a  *)
(* purchase, and otherwise keeps the one it has.                            *)
LEMMA Moves ==
  ASSUME BillingAssumption, IInv, NEW e \in Event, projection # None,
         ~Refused(projection, e)
  PROVE  \/ /\ Rebinds(projection, e) /\ projection.state \in TerminalState
            /\ e.type \in {"checkout", "paid"}
         \/ /\ ~Rebinds(projection, e)
            /\ projection.sub # None => Coalesce(e.sub, projection.sub) = projection.sub
BY DEF Refused, Rebinds, Coalesce

LEMMA DeliverKeeps ==
  ASSUME BillingAssumption, IInv, NEW e \in sent, Deliver(e)
  PROVE  IInv'
<1> DEFINE p == projection
<1>0. /\ sent \subseteq Event /\ e \in Event /\ receipts \subseteq sent
      /\ p \in Projection \cup {None} /\ (p # None => p \in Projection)
      /\ e.created \in Nat /\ (p # None => p.created \in Nat)
      /\ receipts' = receipts \cup {e} /\ UNCHANGED <<clock, plan, sent, faults>>
      /\ (e.sub = None) <=> (e.type = "refunded")
      /\ \A r \in receipts : r.created \in Nat
  BY EventFields DEF IInv, TypeOK, Deliver, Projection, SentInOrder
<1>1. SentInOrder' /\ OneRuns' /\ Apart'
  BY <1>0 DEF IInv, SentInOrder, OneRuns, Apart, Live
<1>2. CASE p = None
  <2>1. projection' = Projected(p, e) /\ receipts = {}
    BY <1>2 DEF Deliver, IInv, Bound
  <2>2. projection' \in Projection /\ projection' # None
    BY <2>1, <1>0, ProjectedFields DEF BillingAssumption
  <2>3. TypeOK'
    BY <1>0, <2>2 DEF IInv, TypeOK
  <2>4. Bound'
    BY <1>0, <1>2, <2>1, <2>2, ProjectedFields, NextStateTyped DEF Bound, Coalesce
  <2>5. Overtaken'
    BY <1>0, <2>1, ProjectedFields DEF Overtaken
  <2> QED  BY <1>1, <2>3, <2>4, <2>5 DEF IInv
<1>3. CASE p # None /\ projection' = projection
  <2>1. TypeOK' /\ Bound'
    BY <1>0, <1>3 DEF IInv, TypeOK, Bound
  <2>2. Stale(p, e) \/ (~Refused(p, e) /\ Ignored(p, e)) \/ projection' = Projected(p, e)
    BY <1>3 DEF Deliver
  <2>3. e.type \in Revoking /\ e.created > p.created =>
          p.state \in TerminalState /\ p.sub \in {None, e.sub}
    <3>1. CASE Stale(p, e)
      BY <1>0, <1>3, <3>1 DEF Stale
    <3>2. CASE ~Refused(p, e) /\ Ignored(p, e)
      BY <1>0, <1>3, <3>2, Moves
      DEF Ignored, Rebinds, NextState, Revoking, TerminalState
    <3>3. CASE projection' = Projected(p, e)
      <4>1. Projected(p, e).created = e.created
        BY <1>0, ProjectedFields
      <4>2. p.created = e.created
        BY <1>3, <3>3, <4>1
      <4> QED  BY <1>0, <1>3, <4>2
    <3> QED  BY <2>2, <3>1, <3>2, <3>3
  <2>4. Overtaken'
    BY <1>0, <1>3, <2>3 DEF IInv, Overtaken
  <2> QED  BY <1>1, <2>1, <2>4 DEF IInv
<1>4. CASE p # None /\ projection' # projection
  <2>1. /\ ~Stale(p, e) /\ ~Refused(p, e) /\ ~Ignored(p, e)
        /\ projection' = Projected(p, e)
    BY <1>4 DEF Deliver
  <2>2. /\ projection' \in Projection /\ projection' # None
        /\ projection'.created = e.created /\ e.created >= p.created
        /\ projection'.state = NextState(e) /\ projection'.sub = Coalesce(e.sub, p.sub)
    BY <1>0, <1>4, <2>1, ProjectedFields DEF Stale, BillingAssumption
  <2>3. TypeOK'
    BY <1>0, <2>2 DEF IInv, TypeOK
  <2>4. Bound'
    <3>1. CASE e.sub # None
      BY <1>0, <2>2, <3>1 DEF Bound, Coalesce
    <3>2. CASE e.sub = None
      <4>1. projection'.sub = p.sub /\ projection'.state = "REFUNDED"
        BY <1>0, <2>2, <3>2, NextStateTyped DEF Coalesce
      <4>2. p.sub # None => \E g \in receipts : g.sub = p.sub /\ g.created <= p.created
        BY <1>4 DEF IInv, Bound
      <4> QED  BY <1>0, <1>4, <2>2, <4>1, <4>2 DEF Bound
    <3> QED  BY <3>1, <3>2
  <2>5. Overtaken'
    <3> SUFFICES ASSUME NEW r \in receipts, r.type \in Revoking, r.created > e.created
                 PROVE  /\ projection'.state \in TerminalState
                        /\ projection'.sub \in {None, r.sub}
      BY <1>0, <2>2 DEF Overtaken
    <3>1. p.state \in TerminalState /\ p.sub \in {None, r.sub}
      BY <1>0, <1>4, <2>2 DEF IInv, Overtaken
    <3>2. ~Rebinds(p, e)
      <4> SUFFICES ASSUME Rebinds(p, e) PROVE FALSE
        OBVIOUS
      <4>1. PICK g \in receipts : g.sub = p.sub /\ g.created <= p.created
        BY <1>4 DEF Rebinds, IInv, Bound
      <4>2. g.created <= e.created
        BY <1>0, <1>4, <2>2, <4>1
      <4>3. r.created < e.created
        BY <1>0, <3>1, <4>1, <4>2 DEF Rebinds, IInv, Apart
      <4> QED  BY <1>0, <4>3
    <3>3. NextState(e) \in TerminalState
      BY <1>0, <2>1, <3>1, <3>2
      DEF Ignored, NextState, TerminalState, Event, EventType, Revoking
    <3>4. p.sub = None => e.type = "refunded"
      BY <1>0, <1>4, <2>1, <3>2, NextStateTyped DEF IInv, Bound, Ignored
    <3>5. projection'.sub = p.sub
      BY <1>0, <2>2, <3>2, <3>4 DEF Rebinds, Coalesce
    <3> QED  BY <2>2, <3>1, <3>3, <3>5
  <2> QED  BY <1>1, <2>3, <2>4, <2>5 DEF IInv
<1> QED  BY <1>2, <1>3, <1>4

-----------------------------------------------------------------------------
LEMMA InitHolds == ASSUME BillingAssumption, Init PROVE IInv
BY FS_EmptySet
DEF Init, IInv, TypeOK, Plan, SentInOrder, OneRuns, Apart, Bound, Overtaken, Live

LEMMA StutterKeeps == ASSUME IInv, UNCHANGED vars PROVE IInv'
BY DEF IInv, TypeOK, SentInOrder, OneRuns, Apart, Bound, Overtaken, Live, vars

(* The inductive invariant: the types, the provider's order and what it     *)
(* leaves behind in the projection.                                         *)
THEOREM InvariantHolds == Spec => []IInv
<1>1. Init => IInv
  BY InitHolds, BillingAssumption
<1>2. IInv /\ [Next]_vars => IInv'
  <2>1. ASSUME IInv, Next PROVE IInv'
    <3>1. CASE Provider
      BY <2>1, <3>1, ProviderKeeps, BillingAssumption
    <3>2. CASE \E e \in sent : Deliver(e)
      BY <2>1, <3>2, DeliverKeeps, BillingAssumption
    <3> QED  BY <2>1, <3>1, <3>2 DEF Next, Provider
  <2> QED  BY <2>1, StutterKeeps
<1> QED  BY <1>1, <1>2, PTL DEF Spec

(* The row, the receipts and the provider's books keep their types.         *)
THEOREM TypeCorrect == Spec => []TypeOK
<1>1. IInv => TypeOK
  BY DEF IInv
<1> QED  BY <1>1, InvariantHolds, PTL

(* While the account is ACTIVE nothing newer on file takes access away, for *)
(* any number of subscriptions, customers, events and deliveries.           *)
THEOREM AccessIsPaidHolds == Spec => []AccessIsPaid
<1>1. IInv => AccessIsPaid
  <2> SUFFICES ASSUME IInv, projection # None, projection.state = "ACTIVE",
                      NEW e \in receipts, e.type \in Revoking
               PROVE  e.created <= projection.created
    BY DEF AccessIsPaid
  <2>1. e.created \in Nat /\ projection.created \in Nat
    BY EventFields DEF IInv, TypeOK, Projection
  <2>2. ~(e.created > projection.created)
    BY DEF IInv, Overtaken, TerminalState
  <2> QED  BY <2>1, <2>2
<1> QED  BY <1>1, InvariantHolds, PTL

(* Events never move the account between customers, between subscriptions   *)
(* that run, or back in time.                                               *)
THEOREM NoSilentRebindHolds == Spec => NoSilentRebind
<1> DEFINE Kept ==
      projection # None /\ projection' # projection =>
        /\ projection'.created >= projection.created
        /\ projection.cust # None => projection'.cust = projection.cust
        /\ projection.sub \notin {None, projection'.sub} =>
             /\ projection.state \in TerminalState
             /\ projection'.state \notin TerminalState \cup {"PAST_DUE"}
<1>1. IInv /\ [Next]_vars => [Kept]_vars
  <2> SUFFICES ASSUME IInv, Next, projection # None, projection' # projection
               PROVE  Kept
    BY DEF vars
  <2>1. PICK e \in sent : Deliver(e)
    BY ProviderKeeps, BillingAssumption DEF Next, Provider
  <2>2. /\ e \in Event /\ projection \in Projection
        /\ e.created \in Nat /\ projection.created \in Nat
    BY EventFields DEF IInv, TypeOK, Projection
  <2>3. /\ ~Stale(projection, e) /\ ~Refused(projection, e)
        /\ projection' = Projected(projection, e)
    BY <2>1 DEF Deliver
  <2>4. /\ projection'.created = e.created /\ projection'.state = NextState(e)
        /\ projection'.sub = Coalesce(e.sub, projection.sub)
        /\ projection'.cust = Coalesce(e.cust, projection.cust)
    BY <2>2, <2>3, ProjectedFields, BillingAssumption
  <2>5. projection'.created >= projection.created
    BY <2>2, <2>3, <2>4 DEF Stale
  <2>6. projection.cust # None => projection'.cust = projection.cust
    BY <2>3, <2>4 DEF Refused, Coalesce
  <2>7. ASSUME projection.sub \notin {None, projection'.sub}
        PROVE  /\ projection.state \in TerminalState
               /\ projection'.state \notin TerminalState \cup {"PAST_DUE"}
    <3>1. projection.state \in TerminalState /\ e.type \in {"checkout", "paid"}
      BY <2>2, <2>3, <2>4, <2>7, Moves, BillingAssumption
    <3> QED  BY <2>4, <3>1 DEF NextState, TerminalState
  <2> QED  BY <2>5, <2>6, <2>7
<1> QED  BY <1>1, InvariantHolds, PTL DEF Spec, NoSilentRebind

-----------------------------------------------------------------------------
(* The order of delivery.  The projection follows the newest events on file *)
(* (Shown), the provider's books the last one it sent (Payments): once all  *)
(* are on file these are the same event, unless it was refused.             *)

(* Nothing was refunded so far.                                             *)
Unrefunded == \A e \in sent : e.type # "refunded"

(* A refund is on the provider's books.                                     *)
Booked == \A e \in sent : e.type = "refunded" => Refunded

(* A payment is what the provider holds of its subscription, unless         *)
(* something later revoked it.  Nothing follows an end but a refund, and a  *)
(* checkout that is not late adds nothing later.                            *)
Payments ==
  /\ \A g \in sent : g.type = "paid" =>
       \/ plan[g.sub].status = "paid"
       \/ \E r \in sent : r.type \in {"payment_failed", "deleted"} /\ r.sub = g.sub
                            /\ r.created >= g.created
  /\ \A e \in sent : e.type = "deleted" => plan[e.sub].status = "ended"
  /\ faults.checkouts = 0 => \A s \in Subscription : plan[s].status = "paid" =>
       \E g \in sent : g.type = "paid" /\ g.sub = s
                         /\ \A e \in sent : e.sub = s => e.created <= g.created

(* The projection shows an event on file; another one as new as it, or      *)
(* newer, says the same or has found its subscription cancelled.            *)
Shown ==
  Unrefunded /\ projection # None =>
    /\ \E g \in receipts : /\ g.sub = projection.sub /\ g.created = projection.created
                           /\ NextState(g) = projection.state
    /\ \A e \in receipts : e.type # "checkout" /\ e.created >= projection.created =>
         /\ projection.sub = e.sub
         /\ \/ projection.state = "CANCELLED"
            \/ projection.created = e.created /\ projection.state = NextState(e)

Order == Booked /\ Payments /\ Shown

LEMMA SentFields ==
  ASSUME BillingAssumption, IInv, NEW e \in sent
  PROVE  /\ e \in Event /\ e.created \in Nat /\ e.created <= clock /\ clock \in Nat
         /\ e.type # "refunded" => e.sub \in Subscription
         /\ e.type = "refunded" => e.sub = None
         /\ e.sub \in Subscription => plan[e.sub].status # "none"
BY EventFields DEF IInv, TypeOK, SentInOrder, BillingAssumption

(* Event x about s, and the status of s after it.                           *)
Changes(x, s, status) ==
  /\ sent' = sent \cup {x} /\ x.created = clock
  /\ plan'[s].status = status
  /\ \A t \in Subscription : t # s => plan'[t].status = plan[t].status
  /\ \A t \in Subscription : plan[t].refunded => plan'[t].refunded
  /\ UNCHANGED <<receipts, projection>>

LEMMA SendChanges ==
  ASSUME BillingAssumption, IInv, NEW s \in Subscription
  PROVE  /\ CompleteCheckout(s) => \E x : Changes(x, s, plan[s].status) /\ x.type = "checkout"
                                             /\ x.sub = s
         /\ Pay(s) => \E x : Changes(x, s, "paid") /\ x.type = "paid" /\ x.sub = s
         /\ FailPayment(s) => \E x : Changes(x, s, "unpaid") /\ x.type = "payment_failed"
                                        /\ x.sub = s
         /\ Cancel(s) => \E x : Changes(x, s, "ended") /\ x.type = "deleted" /\ x.sub = s
         /\ Refund(s) => /\ \E x : Changes(x, s, plan[s].status) /\ x.type = "refunded"
                                      /\ x.sub = None
                         /\ plan'[s].refunded
<1>1. plan \in [Subscription -> Plan] /\ plan[s] \in Plan
  BY DEF IInv, TypeOK
<1>2. ASSUME NEW type, NEW sub, NEW c, Send(type, sub, c)
      PROVE  \E x : /\ x.type = type /\ x.sub = sub /\ x.created = clock
                    /\ sent' = sent \cup {x} /\ UNCHANGED <<receipts, projection>>
  <2>1. PICK x : x = [type |-> type, sub |-> sub, cust |-> c, created |-> clock,
                      n |-> Cardinality(sent)]
    OBVIOUS
  <2>2. x.type = type /\ x.sub = sub /\ x.created = clock
    BY <2>1
  <2> QED  BY <1>2, <2>1, <2>2 DEF Send
<1>3. ASSUME CompleteCheckout(s)
      PROVE  \E x : Changes(x, s, plan[s].status) /\ x.type = "checkout" /\ x.sub = s
  <2>1. plan' = [plan EXCEPT ![s] = [plan[s] EXCEPT !.checkout = TRUE]]
        /\ Send("checkout", s, plan[s].cust)
    BY <1>3 DEF CompleteCheckout
  <2>2. /\ plan'[s].status = plan[s].status /\ plan'[s].refunded = plan[s].refunded
        /\ \A t \in Subscription : t # s => plan'[t] = plan[t]
    BY <1>1, <2>1 DEF Plan
  <2> QED  BY <1>2, <2>1, <2>2 DEF Changes
<1>4. ASSUME NEW type, NEW status,
             /\ plan' = [plan EXCEPT ![s] = [plan[s] EXCEPT !.status = status]]
             /\ Send(type, s, plan[s].cust)
      PROVE  \E x : Changes(x, s, status) /\ x.type = type /\ x.sub = s
  <2>1. /\ plan'[s].status = status /\ plan'[s].refunded = plan[s].refunded
        /\ \A t \in Subscription : t # s => plan'[t] = plan[t]
    BY <1>1, <1>4 DEF Plan
  <2> QED  BY <1>2, <1>4, <2>1 DEF Changes
<1>5. ASSUME Refund(s)
      PROVE  /\ \E x : Changes(x, s, plan[s].status) /\ x.type = "refunded" /\ x.sub = None
             /\ plan'[s].refunded
  <2>1. plan' = [plan EXCEPT ![s] = [plan[s] EXCEPT !.refunded = TRUE]]
        /\ Send("refunded", None, plan[s].cust)
    BY <1>5 DEF Refund
  <2>2. /\ plan'[s].status = plan[s].status /\ plan'[s].refunded
        /\ \A t \in Subscription : t # s => plan'[t] = plan[t]
    BY <1>1, <2>1 DEF Plan
  <2> QED  BY <1>2, <2>1, <2>2 DEF Changes
<1> QED  BY <1>3, <1>4, <1>5 DEF Pay, FailPayment, Cancel

(* The payments, when something is sent about s.                            *)
LEMMA PaymentsSent ==
  ASSUME BillingAssumption, IInv, Payments, NEW s \in Subscription, NEW status, NEW x,
         Changes(x, s, status), x.sub \in {s, None},
         x.type = "paid" => x.sub = s /\ status = "paid",
         x.type = "deleted" => x.sub = s /\ status = "ended",
         plan[s].status = "paid" /\ status # "paid" =>
           x.sub = s /\ x.type \in {"payment_failed", "deleted"},
         plan[s].status = "ended" => status = "ended",
         faults'.checkouts = 0 => faults.checkouts = 0,
         faults'.checkouts = 0 /\ status = "paid" =>
           \/ x.type = "paid"
           \/ /\ plan[s].status = "paid"
              /\ x.sub = s => \A e \in sent : e.sub = s => e.created >= clock
  PROVE  Payments'
<1>1. /\ sent' = sent \cup {x} /\ x.created = clock /\ clock \in Nat
      /\ plan'[s].status = status
      /\ \A t \in Subscription : t # s => plan'[t].status = plan[t].status
      /\ None \notin Subscription
  BY DEF Changes, IInv, TypeOK, BillingAssumption
<1>2. \A e \in sent : /\ e.created \in Nat /\ e.created <= clock
                      /\ e.type # "refunded" => e.sub \in Subscription
  BY SentFields
<1>3. ASSUME NEW g \in sent', g.type = "paid"
      PROVE  \/ plan'[g.sub].status = "paid"
             \/ \E r \in sent' : r.type \in {"payment_failed", "deleted"} /\ r.sub = g.sub
                                  /\ r.created >= g.created
  <2>1. CASE g = x
    BY <1>1, <1>3, <2>1
  <2>2. CASE g \in sent /\ g.sub # s
    <3>1. g.sub \in Subscription
      BY <1>2, <1>3, <2>2
    <3> QED  BY <1>1, <1>3, <2>2, <3>1 DEF Payments
  <2>3. CASE g \in sent /\ g.sub = s
    <3>1. CASE plan[s].status = "paid"
      BY <1>1, <1>2, <2>3, <3>1
    <3>2. CASE plan[s].status # "paid"
      BY <1>1, <1>3, <2>3, <3>2 DEF Payments
    <3> QED  BY <3>1, <3>2
  <2> QED  BY <1>1, <2>1, <2>2, <2>3
<1>4. ASSUME NEW e \in sent', e.type = "deleted" PROVE plan'[e.sub].status = "ended"
  <2>1. CASE e = x
    BY <1>1, <1>4, <2>1
  <2>2. CASE e \in sent
    <3>1. e.sub \in Subscription /\ plan[e.sub].status = "ended"
      BY <1>2, <1>4, <2>2 DEF Payments
    <3> QED  BY <1>1, <3>1
  <2> QED  BY <1>1, <2>1, <2>2
<1>5. ASSUME faults'.checkouts = 0, NEW t \in Subscription, plan'[t].status = "paid"
      PROVE  \E g \in sent' : g.type = "paid" /\ g.sub = t
                              /\ \A e \in sent' : e.sub = t => e.created <= g.created
  <2>1. CASE x.type = "paid" /\ t = s
    BY <1>1, <1>2, <2>1
  <2>2. CASE plan[t].status = "paid" /\ (x.sub = t => \A e \in sent : e.sub = t => e.created >= clock)
    <3>1. PICK g \in sent : g.type = "paid" /\ g.sub = t
                             /\ \A e \in sent : e.sub = t => e.created <= g.created
      BY <1>5, <2>2 DEF Payments
    <3>2. x.sub = t => x.created <= g.created
      BY <1>1, <2>2, <3>1
    <3> QED  BY <1>1, <3>1, <3>2
  <2> QED  BY <1>1, <1>5, <2>1, <2>2
<1> QED  BY <1>3, <1>4, <1>5 DEF Payments

LEMMA PaymentsStep ==
  ASSUME BillingAssumption, IInv, Payments, Provider
  PROVE  Payments'
<1>0. /\ plan \in [Subscription -> Plan] /\ faults \in [checkouts : Nat]
      /\ None \notin Subscription
  BY DEF IInv, TypeOK, BillingAssumption
<1>1. CASE Tick
  BY <1>1 DEF Tick, Payments
<1>2. ASSUME NEW s \in Subscription, Subscribe(s) PROVE Payments'
  <2>1. /\ UNCHANGED <<sent, faults>> /\ plan[s].status = "none" /\ plan'[s].status = "open"
        /\ \A t \in Subscription : t # s => plan'[t].status = plan[t].status
    <3>1. PICK c \in Customer :
            plan' = [plan EXCEPT ![s] = [@ EXCEPT !.status = "open", !.cust = c]]
      BY <1>2 DEF Subscribe
    <3>2. plan[s] \in Plan
      BY <1>0
    <3>3. plan'[s].status = "open" /\ \A t \in Subscription : t # s => plan'[t] = plan[t]
      BY <1>0, <3>1, <3>2 DEF Plan
    <3> QED  BY <1>2, <3>3 DEF Subscribe
  <2>2. \A e \in sent : e.sub # s /\ (e.type # "refunded" => e.sub \in Subscription)
    BY <2>1, SentFields
  <2> QED  BY <2>1, <2>2 DEF Payments
<1>3. ASSUME NEW s \in Subscription, CompleteCheckout(s) PROVE Payments'
  <2>1. PICK x : Changes(x, s, plan[s].status) /\ x.type = "checkout" /\ x.sub = s
    BY <1>3, SendChanges
  <2>2. PICK late \in {0, 1} :
          /\ late = 0 => ~\E e \in sent : e.sub = s /\ e.created < clock
          /\ faults' = [faults EXCEPT !.checkouts = @ + late]
    <3> DEFINE late == IF \E e \in sent : e.sub = s /\ e.created < clock THEN 1 ELSE 0
    <3>1. late \in {0, 1} /\ (late = 0 => ~\E e \in sent : e.sub = s /\ e.created < clock)
      OBVIOUS
    <3>2. faults' = [faults EXCEPT !.checkouts = @ + late]
      BY <1>3 DEF CompleteCheckout
    <3> QED  BY <3>1, <3>2
  <2>3. faults'.checkouts = faults.checkouts + late /\ faults.checkouts \in Nat
    BY <1>0, <2>2
  <2>4. faults'.checkouts = 0 => faults.checkouts = 0 /\ late = 0
    BY <2>3
  <2>5. clock \in Nat /\ \A e \in sent : e.created \in Nat
    BY SentFields DEF IInv, TypeOK
  <2>6. faults'.checkouts = 0 => \A e \in sent : e.sub = s => e.created >= clock
    BY <2>2, <2>4, <2>5
  <2> QED  BY <2>1, <2>4, <2>6, PaymentsSent
<1>4. ASSUME NEW s \in Subscription, Pay(s) PROVE Payments'
  <2>1. PICK x : Changes(x, s, "paid") /\ x.type = "paid" /\ x.sub = s
    BY <1>4, SendChanges
  <2>2. plan[s].status # "ended" /\ faults' = faults
    BY <1>4 DEF Pay, Live
  <2> QED  BY <2>1, <2>2, PaymentsSent
<1>5. ASSUME NEW s \in Subscription, FailPayment(s) PROVE Payments'
  <2>1. PICK x : Changes(x, s, "unpaid") /\ x.type = "payment_failed" /\ x.sub = s
    BY <1>5, SendChanges
  <2>2. plan[s].status # "ended" /\ faults' = faults
    BY <1>5 DEF FailPayment, Live
  <2> QED  BY <2>1, <2>2, PaymentsSent
<1>6. ASSUME NEW s \in Subscription, Cancel(s) PROVE Payments'
  <2>1. PICK x : Changes(x, s, "ended") /\ x.type = "deleted" /\ x.sub = s
    BY <1>6, SendChanges
  <2>2. faults' = faults
    BY <1>6 DEF Cancel
  <2> QED  BY <2>1, <2>2, PaymentsSent
<1>7. ASSUME NEW s \in Subscription, Refund(s) PROVE Payments'
  <2>1. PICK x : Changes(x, s, plan[s].status) /\ x.type = "refunded" /\ x.sub = None
    BY <1>7, SendChanges
  <2>2. faults' = faults
    BY <1>7 DEF Refund
  <2> QED  BY <1>0, <2>1, <2>2, PaymentsSent
<1> QED  BY <1>1, <1>2, <1>3, <1>4, <1>5, <1>6, <1>7 DEF Provider

(* Only a refund is booked as one, and it stays booked.                     *)
LEMMA BookedStep ==
  ASSUME BillingAssumption, IInv, Booked, Provider
  PROVE  Booked' /\ (Unrefunded' => Unrefunded)
<1>1. CASE Tick
  BY <1>1 DEF Tick, Booked, Refunded, Unrefunded
<1>2. ASSUME NEW s \in Subscription, Subscribe(s)
      PROVE  Booked' /\ (Unrefunded' => Unrefunded)
  <2>0. plan \in [Subscription -> Plan] /\ plan[s] \in Plan
    BY DEF IInv, TypeOK
  <2>1. PICK c \in Customer :
          plan' = [plan EXCEPT ![s] = [@ EXCEPT !.status = "open", !.cust = c]]
    BY <1>2 DEF Subscribe
  <2>2. \A t \in Subscription : plan'[t].refunded = plan[t].refunded
    BY <2>0, <2>1 DEF Plan
  <2>3. sent' = sent
    BY <1>2 DEF Subscribe
  <2> QED  BY <2>2, <2>3 DEF Booked, Refunded, Unrefunded
<1>3. ASSUME NEW s \in Subscription, NEW x, NEW status, Changes(x, s, status),
             x.type = "refunded" => plan'[s].refunded
      PROVE  Booked' /\ (Unrefunded' => Unrefunded)
  BY <1>3 DEF Changes, Booked, Refunded, Unrefunded
<1>4. ASSUME NEW s \in Subscription,
             CompleteCheckout(s) \/ Pay(s) \/ FailPayment(s) \/ Cancel(s)
      PROVE  Booked' /\ (Unrefunded' => Unrefunded)
  <2>1. PICK x, status : Changes(x, s, status) /\ x.type # "refunded"
    BY <1>4, SendChanges
  <2> QED  BY <1>3, <2>1
<1>5. ASSUME NEW s \in Subscription, Refund(s)
      PROVE  Booked' /\ (Unrefunded' => Unrefunded)
  BY <1>3, <1>5, SendChanges
<1> QED  BY <1>1, <1>2, <1>4, <1>5 DEF Provider

(* The second part of Shown, of one event.                                  *)
Agrees(p, x) ==
  /\ p.sub = x.sub
  /\ \/ p.state = "CANCELLED"
     \/ p.created = x.created /\ p.state = NextState(x)

LEMMA ShownStep ==
  ASSUME BillingAssumption, IInv, Shown, NEW e \in sent, Deliver(e)
  PROVE  Shown'
<1> DEFINE p == projection
<1> SUFFICES ASSUME Unrefunded, projection' # None
             PROVE  /\ \E g \in receipts' :
                         /\ g.sub = projection'.sub /\ g.created = projection'.created
                         /\ NextState(g) = projection'.state
                    /\ \A x \in receipts' :
                         x.type # "checkout" /\ x.created >= projection'.created =>
                           Agrees(projection', x)
  <2>1. sent' = sent
    BY DEF Deliver
  <2> QED  BY <2>1 DEF Shown, Unrefunded, Agrees
<1>0. /\ receipts' = receipts \cup {e} /\ receipts \subseteq sent /\ e \in Event
      /\ p \in Projection \cup {None} /\ (p # None => p \in Projection /\ p.created \in Nat)
      /\ None \notin Subscription
      /\ \A x \in sent : /\ x \in Event /\ x.created \in Nat /\ x.sub \in Subscription
                         /\ x.type \in {"checkout", "paid", "payment_failed", "deleted"}
  BY EventFields, SentFields
  DEF Deliver, IInv, TypeOK, Projection, BillingAssumption, Unrefunded, EventType, Revoking
<1>1. CASE p = None
  <2>1. projection' = Projected(p, e) /\ receipts = {}
    BY <1>1 DEF Deliver, IInv, Bound
  <2>2. /\ projection'.sub = e.sub /\ projection'.created = e.created
        /\ projection'.state = NextState(e)
    BY <1>0, <2>1, ProjectedFields DEF Coalesce
  <2> QED  BY <1>0, <2>1, <2>2 DEF Agrees
<1>2. CASE p # None
  <2>1. PICK g \in receipts : g.sub = p.sub /\ g.created = p.created /\ NextState(g) = p.state
    BY <1>2 DEF Shown
  <2>2. \A x \in receipts : x.type # "checkout" /\ x.created >= p.created => Agrees(p, x)
    BY <1>2 DEF Shown, Agrees
  <2>3. /\ p.sub \in Subscription /\ p.sub # None
        /\ p.state \in {"PENDING_PAYMENT_CONFIRMATION", "ACTIVE", "PAST_DUE", "CANCELLED"}
    BY <1>0, <2>1 DEF NextState
  <2>4. Rebinds(p, e) <=> e.sub # p.sub
    BY <1>0, <2>3 DEF Rebinds
  <2>5. CASE Stale(p, e)
    <3>1. projection' = p /\ ~(e.created >= p.created)
      BY <1>0, <1>2, <2>5 DEF Deliver, Stale
    <3> QED  BY <1>0, <2>1, <2>2, <3>1
  <2>6. CASE ~Stale(p, e) /\ Ignored(p, e)
    <3>1. projection' = p
      BY <1>2, <2>6 DEF Deliver
    <3>2. e.type # "checkout" => Agrees(p, e)
      BY <1>0, <2>3, <2>4, <2>6 DEF Ignored, NextState, Agrees
    <3> QED  BY <1>0, <2>1, <2>2, <3>1, <3>2
  <2>7. CASE ~Stale(p, e) /\ ~Ignored(p, e)
    <3>1. ~Refused(p, e) /\ projection' = Projected(p, e) /\ e.created >= p.created
      BY <1>0, <1>2, <2>7 DEF Deliver, Stale
    <3>2. /\ projection'.sub = e.sub /\ projection'.created = e.created
          /\ projection'.state = NextState(e)
      BY <1>0, <3>1, ProjectedFields DEF Coalesce
    <3>3. ASSUME NEW x \in receipts, x.type # "checkout", x.created >= e.created
          PROVE  Agrees(projection', x)
      <4>1. Agrees(p, x)
        BY <1>0, <1>2, <2>2, <3>1, <3>3
      <4>2. CASE p.state = "CANCELLED"
        <5>1. e.sub = p.sub
          <6> SUFFICES ASSUME e.sub # p.sub PROVE FALSE
            OBVIOUS
          <6>1. x.created < e.created
            BY <1>0, <2>1, <2>3, <3>1, <4>1 DEF Agrees, IInv, Apart
          <6> QED  BY <1>0, <3>3, <6>1
        <5>2. NextState(e) = "CANCELLED"
          BY <1>0, <2>4, <2>7, <4>2, <5>1 DEF Ignored, NextState
        <5> QED  BY <3>2, <4>1, <5>1, <5>2 DEF Agrees
      <4>3. CASE p.state # "CANCELLED"
        <5>1. p.created = x.created /\ p.created = e.created /\ p.state = NextState(x)
          BY <1>0, <1>2, <3>1, <3>3, <4>1, <4>3 DEF Agrees
        <5>2. p.state \in {"ACTIVE", "PAST_DUE"} /\ ~(p.state \in TerminalState)
          BY <1>0, <3>3, <4>3, <5>1 DEF NextState, TerminalState
        <5>3. e.sub = p.sub /\ SafeTie(p, e)
          BY <2>4, <2>7, <3>1, <5>1, <5>2 DEF Refused
        <5>4. NextState(e) = p.state \/ NextState(e) = "CANCELLED"
          BY <1>0, <2>4, <5>2, <5>3 DEF SafeTie, TerminalState, NextState
        <5> QED  BY <3>2, <4>1, <5>1, <5>3, <5>4 DEF Agrees
      <4> QED  BY <4>2, <4>3
    <3> QED  BY <1>0, <3>2, <3>3 DEF Agrees
  <2> QED  BY <2>5, <2>6, <2>7
<1> QED  BY <1>1, <1>2

LEMMA OrderStep ==
  ASSUME BillingAssumption, IInv, Order, [Next]_vars
  PROVE  Order'
<1>1. CASE Provider
  <2>1. UNCHANGED <<receipts, projection>>
    BY <1>1
    DEF Provider, Tick, Subscribe, CompleteCheckout, Pay, FailPayment, Cancel, Refund, Send
  <2>2. Unrefunded' => Unrefunded
    BY <1>1, BookedStep DEF Order
  <2>3. Shown'
    BY <2>1, <2>2 DEF Order, Shown
  <2> QED  BY <1>1, <2>3, BookedStep, PaymentsStep DEF Order
<1>2. ASSUME NEW e \in sent, Deliver(e) PROVE Order'
  <2>1. UNCHANGED <<plan, sent, faults>>
    BY <1>2 DEF Deliver
  <2>2. Booked' /\ Payments'
    BY <2>1 DEF Order, Booked, Refunded, Payments
  <2> QED  BY <1>2, <2>2, ShownStep DEF Order
<1>3. CASE UNCHANGED vars
  BY <1>3 DEF vars, Order, Booked, Refunded, Payments, Shown, Unrefunded
<1> QED  BY <1>1, <1>2, <1>3 DEF Next, Provider

(* Whoever is ACTIVE is paid for: the event shown is a payment, and one that*)
(* ended it would show itself.                                              *)
LEMMA ActiveIsPaid ==
  ASSUME BillingAssumption, IInv, Order, Settled, Unrefunded, projection # None,
         projection.state = "ACTIVE"
  PROVE  PaidUp
<1>1. PICK g \in receipts : /\ g.sub = projection.sub /\ g.created = projection.created
                            /\ NextState(g) = "ACTIVE"
  BY DEF Order, Shown
<1>2. g \in sent /\ g \in Event /\ g.type = "paid" /\ g.sub \in Subscription
  BY <1>1, SentFields, NextStateTyped DEF IInv, TypeOK
<1>3. ASSUME NEW r \in sent, r.type \in {"payment_failed", "deleted"}, r.created >= g.created
      PROVE  FALSE
  <2>1. r \in receipts /\ r.type # "checkout" /\ r.created >= projection.created
    BY <1>1, <1>3 DEF Settled
  <2>2. projection.state = "CANCELLED" \/ projection.state = NextState(r)
    BY <2>1 DEF Order, Shown
  <2> QED  BY <1>3, <2>2 DEF NextState
<1>4. plan[g.sub].status = "paid"
  BY <1>2, <1>3 DEF Order, Payments
<1> QED  BY <1>2, <1>4 DEF PaidUp

(* Whoever is paid for is ACTIVE: no event is newer than the last payment   *)
(* of the subscription that runs.                                           *)
LEMMA PaidIsActive ==
  ASSUME BillingAssumption, IInv, Order, Settled, Unrefunded, faults.checkouts = 0, PaidUp
  PROVE  projection # None /\ projection.state = "ACTIVE"
<1>1. PICK s \in Subscription : plan[s].status = "paid"
  BY DEF PaidUp
<1>2. PICK g \in sent : g.type = "paid" /\ g.sub = s
                         /\ \A e \in sent : e.sub = s => e.created <= g.created
  BY <1>1 DEF Order, Payments
<1>3. projection # None /\ g \in receipts /\ Live(s) /\ receipts = sent
  BY <1>1, <1>2 DEF Settled, IInv, Bound, Live
<1>4. ASSUME NEW e \in sent PROVE e.created <= g.created
  <2>1. /\ e.sub \in Subscription /\ e.created \in Nat /\ g.created \in Nat
        /\ None \notin Subscription
    BY <1>2, SentFields DEF Unrefunded, BillingAssumption
  <2>2. CASE e.sub = s
    BY <1>2, <2>2
  <2>3. CASE e.sub # s
    BY <1>2, <1>3, <2>1, <2>3 DEF IInv, OneRuns
  <2> QED  BY <2>2, <2>3
<1>5. PICK h \in receipts : /\ h.sub = projection.sub /\ h.created = projection.created
                            /\ NextState(h) = projection.state
  BY <1>3 DEF Order, Shown
<1>6. g.created >= projection.created
  <2>1. h \in sent /\ h.created \in Nat /\ g.created \in Nat
    BY <1>3, <1>5, <1>2, SentFields
  <2> QED  BY <1>4, <1>5, <2>1
<1>7. /\ projection.sub = s
      /\ projection.state \in {"CANCELLED", NextState(g)}
  BY <1>2, <1>3, <1>6 DEF Order, Shown
<1>8. projection.state # "CANCELLED"
  <2> SUFFICES ASSUME projection.state = "CANCELLED" PROVE FALSE
    OBVIOUS
  <2>1. h \in sent /\ h \in Event /\ h.type = "deleted"
    BY <1>3, <1>5, SentFields DEF NextState, Event, EventType, Revoking
  <2>2. plan[s].status = "ended"
    BY <1>5, <1>7, <2>1 DEF Order, Payments
  <2> QED  BY <1>1, <2>2
<1>9. NextState(g) = "ACTIVE"
  BY <1>2 DEF NextState
<1> QED  BY <1>3, <1>7, <1>8, <1>9

(* Whatever the order of delivery, once every event is on file the account  *)
(* is ACTIVE exactly when its subscription is paid                          *)
(* (billing_state.py:26-29): for any number of subscriptions, events and    *)
(* repeated deliveries, while nothing is refunded and no checkout is late.  *)
THEOREM OrderIndependentHolds == Spec => []OrderIndependent
<1>1. Init => Order
  BY DEF Init, Order, Booked, Payments, Shown
<1>2. IInv /\ Order /\ [Next]_vars => Order'
  BY OrderStep, BillingAssumption
<1>3. IInv /\ Order => OrderIndependent
  <2> SUFFICES ASSUME IInv, Order, Settled, ~Refunded, faults.checkouts = 0
               PROVE  projection.state = "ACTIVE" <=> PaidUp
    BY DEF OrderIndependent
  <2>1. Unrefunded
    BY DEF Order, Booked, Unrefunded
  <2>2. projection # None
    BY DEF Settled, IInv, Bound
  <2> QED  BY <2>1, <2>2, ActiveIsPaid, PaidIsActive, BillingAssumption
<1> QED  BY <1>1, <1>2, <1>3, InvariantHolds, PTL DEF Spec
=============================================================================

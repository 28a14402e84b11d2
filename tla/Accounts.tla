------------------------------- MODULE Accounts -------------------------------
(***************************************************************************)
(* One customer account: its row and its private tables                    *)
(* (account_registry.py, account_privacy.py), the evaluation               *)
(* (evaluation_policy.py), the subscription kept by webhooks and polls of  *)
(* the provider, and the background work done for it (decisions, alerts,   *)
(* push digests).                                                          *)
(*                                                                         *)
(* Requests and background threads are callers; every transaction of a     *)
(* call is one action, so calls interleave between their commits and a     *)
(* crash leaves what was committed.  The provider is external: it repeats, *)
(* loses and reorders its webhooks, and dates every entitlement.           *)
(*                                                                         *)
(* Definitions named Faulty... are not part of the specification: each is  *)
(* the definition after it with one plausible bug, which some property has *)
(* to detect.                                                              *)
(***************************************************************************)
EXTENDS Naturals

CONSTANTS
  Caller,       \* requests and background threads that may run at once
  None,         \* SQL NULL, an absent row
  MaxTime,      \* bound: the last expiry date
  Budget        \* bounds: what the environment may do in one behaviour

(* Private writes and deletions that start, webhook events, hours that pass,*)
(* and killed calls, failed reads and failed deletions.                     *)
Environment == [writes : Nat, events : Nat, hours : Nat, faults : Nat]

(* The tables a deletion empties.                                           *)
DEPENDENT_TABLES ==
  {"company_profiles", "opportunity_decisions", "opportunity_decision_inputs",
   "opportunity_events", "opportunity_workflow", "evaluation_events",
   "push_devices", "push_preferences", "push_digest_deliveries"}

DELETION_LOCKED_STATUSES ==
  {"deletion_pending", "deletion_failed", "deleted_pending_revocation", "deleted"}

(* What the handlers that commit once write: a workflow state, a registered *)
(* device with its preference, a preference; and what the threads of the    *)
(* source worker write for an active account.                               *)
Workflow == {"opportunity_workflow"}
Device == {"push_devices", "push_preferences"}
Preference == {"push_preferences"}
Decisions == {"opportunity_decisions", "opportunity_decision_inputs"}
Alerts == {"opportunity_events"}

PrivateWrites == {Workflow, Device, Preference, Decisions, Alerts}

(* The webhook types told apart: all purchases and renewals act alike, as   *)
(* do cancellations and billing issues.                                     *)
EventType == {"RENEWAL", "CANCELLATION", "SUBSCRIPTION_PAUSED", "EXPIRATION"}

Event == [type : EventType, expires : Nat, id : Nat]

VARIABLES
  account,      \* the accounts row
  rows,         \* the private tables with rows of this account
  receipts,     \* billing_webhook_events: the ids on file
  call,         \* what each caller is doing
  now,          \* hours
  entitled,     \* the provider's expiry date of the pro entitlement
  sent,         \* the webhook events the provider has created
  left,         \* what is left of the environment's budget
  straddled     \* was a private write under way at the last deletion?

vars == <<account, rows, receipts, call, now, entitled, sent, left, straddled>>
provider == <<now, entitled, sent>>

AccountStatus ==
  {"active", "deletion_pending", "deletion_failed", "deleted_pending_revocation"}

Account ==
  [status : AccountStatus,
   plan : {"evaluation", "pro", "expired"},
   expires : Nat \cup {None},
   synced : {"never", "recent", "old"},
   evaluation : {None, "ONBOARDING", "PROFILE_READY", "PAID"}]

ASSUME AccountsAssumption ==
  /\ MaxTime \in Nat /\ Budget \subseteq Environment
  /\ None \notin Nat \cup AccountStatus \cup Account

New ==
  [status |-> "active", plan |-> "evaluation", expires |-> None, synced |-> "never",
   evaluation |-> "ONBOARDING"]

Tombstone ==
  [status |-> "deleted_pending_revocation", plan |-> "expired", expires |-> None,
   synced |-> "never", evaluation |-> None]

(* Where a call stands: the transaction it is about to run.                 *)
Place ==
  {"idle", "profile", "read evaluation", "record evaluation", "bootstrap", "emit events",
   "write", "fetch", "store", "apply", "receipt", "mark deletion", "delete",
   "read tokens", "record digest"}

Idle == [at |-> "idle", got |-> None]

(* The places from which a call still writes private rows.                  *)
Writing ==
  Place \ {"idle", "fetch", "store", "apply", "receipt", "mark deletion", "delete"}

CallOK(k) ==
  /\ k = [at |-> k.at, got |-> k.got]
  /\ k.at \in Place
  /\ k.at = "write" => k.got \in PrivateWrites
  /\ k.at = "store" => k.got \in Nat \cup {None}
  /\ k.at \in {"apply", "receipt"} => k.got \in sent
  /\ k.at \notin {"idle", "write", "apply"} => account # None

TypeOK ==
  /\ account \in Account \cup {None}
  /\ rows \subseteq DEPENDENT_TABLES
  /\ receipts \subseteq {e.id : e \in sent}
  /\ call = [c \in Caller |-> call[c]] /\ \A c \in Caller : CallOK(call[c])
  /\ now \in Nat
  /\ entitled \in Nat \cup {None}
  /\ sent \subseteq Event
  /\ left \in Environment
  /\ straddled \in BOOLEAN

Init ==
  /\ account = None /\ rows = {} /\ receipts = {}
  /\ call = [c \in Caller |-> Idle]
  /\ now = 0 /\ entitled = None /\ sent = {}
  /\ left \in Budget /\ straddled = FALSE

(* The environment spends what it has left.                                 *)
Spend(what) == left[what] > 0 /\ left' = [left EXCEPT ![what] = @ - 1]

-----------------------------------------------------------------------------
(* The row.                                                                 *)

Status == IF account = None THEN None ELSE account.status

Active == Status = "active"      \* list_active_accounts

Locked == Status \in DELETION_LOCKED_STATUSES

Ensured == IF account = None THEN New ELSE account

(* subscription_state: the paid plan, and access by it or by the evaluation,*)
(* which nothing ends (see the README).                                     *)
Paid(a) == a # None /\ a.plan = "pro" /\ (a.expires = None \/ a.expires > now)
Access(a) == Paid(a) \/ a.evaluation \notin {None, "PAID"}

(* update_subscription with mark_evaluation_paid.                           *)
Subscribed(a, plan, expires, marks) ==
  [a EXCEPT !.plan = plan,
            !.expires = IF expires = None THEN @ ELSE expires,
            !.synced = "recent",
            !.evaluation = IF marks /\ @ # None THEN "PAID" ELSE @]

FaultyMarkRows(a, marks) ==
  IF marks /\ a.evaluation # "PAID" THEN {"evaluation_events"} ELSE {}

MarkRows(a, marks) ==
  IF marks /\ a.evaluation \notin {None, "PAID"} THEN {"evaluation_events"} ELSE {}

-----------------------------------------------------------------------------
(* Requests.  All but those under /account/ and the webhook are refused     *)
(* while the account is locked; api.py's ensure the account first.          *)

Goto(c, place, got) == call' = [call EXCEPT ![c] = [at |-> place, got |-> got]]

Admitted(c) == call[c].at = "idle" /\ ~Locked

StartProfile(c) ==
  /\ Admitted(c)
  /\ account' = Ensured
  /\ Goto(c, "profile", None)
  /\ Spend("writes")
  /\ UNCHANGED <<rows, receipts, straddled, provider>>

(* A workflow state is also refused without access; the push endpoints do   *)
(* not ensure the account.                                                  *)
StartWrite(c) ==
  /\ Admitted(c)
  /\ \E w \in {Workflow, Device, Preference} :
       /\ IF w = Workflow
          THEN Access(Ensured) /\ account' = Ensured
          ELSE UNCHANGED account
       /\ Goto(c, "write", w)
  /\ Spend("writes")
  /\ UNCHANGED <<rows, receipts, straddled, provider>>

(* Also a thread of the source worker: the accounts it works through are    *)
(* those that were active when it listed them.                              *)
StartBackground(c) ==
  /\ call[c].at = "idle" /\ Active
  /\ \E w \in {Decisions, Alerts} :
       /\ w = Alerts => "opportunity_decisions" \in rows
       /\ Goto(c, "write", w)
  /\ Spend("writes")
  /\ UNCHANGED <<account, rows, receipts, straddled, provider>>

Write(c) ==
  /\ call[c].at = "write"
  /\ rows' = rows \cup call[c].got
  /\ Goto(c, "idle", None)
  /\ UNCHANGED <<account, receipts, left, straddled, provider>>

(* save_profile, then bootstrap_account.                                    *)
SaveProfile(c) ==
  /\ call[c].at = "profile"
  /\ rows' = rows \cup {"company_profiles"}
  /\ Goto(c, "read evaluation", None)
  /\ UNCHANGED <<account, receipts, left, straddled, provider>>

ReadEvaluation(c) ==
  /\ call[c].at = "read evaluation"
  /\ Goto(c, "record evaluation", account.evaluation)
  /\ UNCHANGED <<account, rows, receipts, left, straddled, provider>>

(* The status is replaced by what follows from the events, unless the row   *)
(* was PAID, or had no evaluation, when it was read.                        *)
RecordEvaluation(c) ==
  /\ call[c].at = "record evaluation"
  /\ rows' = rows \cup {"evaluation_events"}
  /\ account' = [account EXCEPT !.evaluation =
                   IF call[c].got \in {None, "PAID"} THEN @ ELSE "PROFILE_READY"]
  /\ Goto(c, "bootstrap", None)
  /\ UNCHANGED <<receipts, left, straddled, provider>>

(* A profile may match no tender.                                           *)
Bootstrap(c) ==
  /\ call[c].at = "bootstrap"
  /\ \/ rows' = rows \cup {"opportunity_decisions"}
     \/ UNCHANGED rows
  /\ Goto(c, "emit events", None)
  /\ UNCHANGED <<account, receipts, left, straddled, provider>>

EmitEvents(c) ==
  /\ call[c].at = "emit events"
  /\ \/ "opportunity_decisions" \in rows /\ rows' = rows \cup {"opportunity_events"}
     \/ UNCHANGED rows
  /\ Goto(c, "idle", None)
  /\ UNCHANGED <<account, receipts, left, straddled, provider>>

-----------------------------------------------------------------------------
(* Deletion.                                                                *)

StartDelete(c) ==
  /\ call[c].at = "idle"
  /\ Status # "deleted_pending_revocation"
  /\ account' = Ensured
  /\ Goto(c, "mark deletion", None)
  /\ Spend("writes")
  /\ UNCHANGED <<rows, receipts, straddled, provider>>

MarkDeletion(c) ==
  /\ call[c].at = "mark deletion"
  /\ account' = [account EXCEPT !.status = "deletion_pending"]
  /\ Goto(c, "delete", None)
  /\ UNCHANGED <<rows, receipts, left, straddled, provider>>

Delete(c) ==
  /\ call[c].at = "delete"
  /\ rows' = rows \ DEPENDENT_TABLES
  /\ account' = Tombstone
  /\ straddled' = \E d \in Caller : call[d].at \in Writing
  /\ Goto(c, "idle", None)
  /\ UNCHANGED <<receipts, left, provider>>

FailDelete(c) ==
  /\ call[c].at = "delete"
  /\ Spend("faults")
  /\ account' = [account EXCEPT !.status = "deletion_failed"]
  /\ Goto(c, "idle", None)
  /\ UNCHANGED <<rows, receipts, straddled, provider>>

-----------------------------------------------------------------------------
(* The morning digest.                                                      *)

StartDigest(c) ==
  /\ call[c].at = "idle"
  /\ "push_preferences" \in rows /\ Active
  /\ Goto(c, "read tokens", None)
  /\ Spend("writes")
  /\ UNCHANGED <<account, rows, receipts, straddled, provider>>

(* Sent already today, or no device: nothing to do.                         *)
ReadTokens(c) ==
  /\ call[c].at = "read tokens"
  /\ \/ Goto(c, "idle", None)
     \/ "push_devices" \in rows /\ Goto(c, "record digest", None)
  /\ UNCHANGED <<account, rows, receipts, left, straddled, provider>>

(* The row says sent or failed.                                             *)
RecordDigest(c) ==
  /\ call[c].at = "record digest"
  /\ rows' = rows \cup {"push_digest_deliveries"}
  /\ Goto(c, "idle", None)
  /\ UNCHANGED <<account, receipts, left, straddled, provider>>

-----------------------------------------------------------------------------
(* The subscription: polls by billing/status, webhooks by the provider.     *)

FaultyDue(a) ==
  ~(a.synced # "never" /\ a.expires # None /\ a.expires > now + 1)

(* _sync_revenuecat_if_due                                                  *)
Due(a) ==
  ~(a.synced = "recent" /\ a.expires # None /\ a.expires > now + 1)

StartPoll(c) ==
  /\ Admitted(c)
  /\ account' = Ensured
  /\ IF Due(Ensured) THEN Goto(c, "fetch", None) ELSE UNCHANGED call
  /\ UNCHANGED <<rows, receipts, left, straddled, provider>>

Fetch(c) ==
  /\ call[c].at = "fetch"
  /\ Goto(c, "store", entitled)
  /\ UNCHANGED <<account, rows, receipts, left, straddled, provider>>

FailFetch(c) ==
  /\ call[c].at = "fetch"
  /\ Spend("faults")
  /\ Goto(c, "idle", None)
  /\ UNCHANGED <<account, rows, receipts, straddled, provider>>

Store(c) ==
  /\ call[c].at = "store"
  /\ LET active == call[c].got # None /\ call[c].got > now IN
       IF call[c].got = None
       THEN account' = [account EXCEPT !.synced = "recent"] /\ UNCHANGED rows
       ELSE /\ account' = Subscribed(account, IF active THEN "pro" ELSE "expired",
                                     call[c].got, active)
            /\ rows' = rows \cup MarkRows(account, active)
  /\ Goto(c, "idle", None)
  /\ UNCHANGED <<receipts, left, straddled, provider>>

(* Any event, at any time, as often as the provider or the network likes.   *)
StartWebhook(c) ==
  /\ call[c].at = "idle"
  /\ \E e \in sent : e.id \notin receipts /\ Goto(c, "apply", e)
  /\ UNCHANGED <<account, rows, receipts, left, straddled, provider>>

ApplyWebhook(c) ==
  /\ call[c].at = "apply"
  /\ LET e == call[c].got
         plan == IF e.type = "EXPIRATION" THEN "expired" ELSE "pro"
         marks == e.type \in {"RENEWAL", "CANCELLATION"} IN
       /\ account' = Subscribed(Ensured, plan, e.expires, marks)
       /\ rows' = rows \cup MarkRows(Ensured, marks)
  /\ Goto(c, "receipt", call[c].got)
  /\ UNCHANGED <<receipts, left, straddled, provider>>

(* A second insert of the same id raises and is answered with an error.     *)
RecordReceipt(c) ==
  /\ call[c].at = "receipt"
  /\ receipts' = receipts \cup {call[c].got.id}
  /\ Goto(c, "idle", None)
  /\ UNCHANGED <<account, rows, left, straddled, provider>>

-----------------------------------------------------------------------------
(* The environment.                                                         *)

Crash(c) ==
  /\ call[c].at # "idle"
  /\ Spend("faults")
  /\ Goto(c, "idle", None)
  /\ UNCHANGED <<account, rows, receipts, straddled, provider>>

(* Five minutes pass since the last write of the subscription.              *)
Age ==
  /\ account # None /\ account.synced = "recent"
  /\ account' = [account EXCEPT !.synced = "old"]
  /\ UNCHANGED <<rows, receipts, call, left, straddled, provider>>

Tick ==
  /\ Spend("hours") /\ now' = now + 1
  /\ account' = IF account # None /\ account.synced = "recent"
                THEN [account EXCEPT !.synced = "old"] ELSE account
  /\ UNCHANGED <<rows, receipts, call, entitled, sent, straddled>>

(* The provider (external) sets a new expiry date, or none, and tells.      *)
Announce(type, expires) ==
  /\ Spend("events")
  /\ entitled' = expires
  /\ sent' = sent \cup {[type |-> type, expires |-> expires, id |-> left.events]}
  /\ UNCHANGED <<account, rows, receipts, call, now, straddled>>

Entitled == entitled # None /\ entitled > now

ProviderStep ==
  \/ \E t \in now + 1 .. MaxTime :
       (Entitled => t > entitled) /\ Announce("RENEWAL", t)
  \/ Entitled /\ Announce("CANCELLATION", entitled)
  \/ Entitled /\ Announce("CANCELLATION", now)               \* refunded
  \/ Entitled /\ Announce("SUBSCRIPTION_PAUSED", entitled)
  \/ entitled # None /\ ~Entitled /\ Announce("EXPIRATION", entitled)

Start(c) ==
  \/ StartProfile(c) \/ StartWrite(c) \/ StartBackground(c) \/ StartDelete(c)
  \/ StartDigest(c) \/ StartPoll(c) \/ StartWebhook(c)

(* The rest of a call, in the order of its transactions.                    *)
Continue(c) ==
  \/ Write(c) \/ SaveProfile(c) \/ ReadEvaluation(c) \/ RecordEvaluation(c)
  \/ Bootstrap(c) \/ EmitEvents(c) \/ MarkDeletion(c) \/ Delete(c)
  \/ ReadTokens(c) \/ RecordDigest(c) \/ Fetch(c) \/ Store(c)
  \/ ApplyWebhook(c) \/ RecordReceipt(c)

Next ==
  \/ \E c \in Caller : Start(c) \/ Continue(c) \/ FailFetch(c) \/ FailDelete(c) \/ Crash(c)
  \/ Age \/ Tick \/ ProviderStep

Spec == Init /\ [][Next]_vars

(* The app of a customer asks for billing/status again and again, calls     *)
(* end, and five minutes pass.                                              *)
Fairness ==
  /\ \A c \in Caller : WF_vars(Continue(c))
  /\ SF_vars(\E c \in Caller : StartPoll(c))
  /\ WF_vars(Age)

FairSpec == Spec /\ Fairness

-----------------------------------------------------------------------------
(* Properties.                                                              *)

(* A deleted account keeps no private row (account_privacy.py:307): what    *)
(* starts after the marker of account_privacy.py:279 finds the request lock *)
(* (cors_app.py:144), an account that is not listed as active               *)
(* (account_registry.py:331, push_runtime.py:335) or no evaluation to mark  *)
(* (evaluation_policy.py:240).  Excepted is a call that was admitted before *)
(* the deletion and writes after it, see the README.                        *)
Purged ==
  Status = "deleted_pending_revocation" /\ ~straddled => rows = {}

(* Whatever webhooks are lost, repeated, reordered or overtaken by polls,   *)
(* the polls bring the paid plan to what the provider says                  *)
(* (account_registry.py:179-210) and keep it there, unless the account is   *)
(* in deletion.                                                             *)
AccessFollowsProvider ==
  <>[](Locked \/ (account # None /\ (Paid(account) <=> Entitled)))
=============================================================================

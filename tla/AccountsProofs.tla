---------------------------- MODULE AccountsProofs ----------------------------
(***************************************************************************)
(* Types and the completeness of deletion for any number of callers, any   *)
(* budget of the environment and any expiry dates.                         *)
(***************************************************************************)
EXTENDS Accounts, TLAPS

(* Why a deletion lasts: the tombstone has no evaluation left that a        *)
(* payment could mark, and no call that was admitted writes any more.       *)
Sealed ==
  Status = "deleted_pending_revocation" /\ ~straddled =>
    /\ rows = {}
    /\ account.evaluation = None
    /\ \A c \in Caller : call[c].at \notin Writing

IInv == TypeOK /\ Sealed

Calls == call = [c \in Caller |-> call[c]] /\ \A c \in Caller : CallOK(call[c])

(* One caller moves to a place that suits what it holds, or none does; no   *)
(* event is forgotten, and the account is never dropped.                    *)
Moves ==
  /\ sent \subseteq sent'
  /\ account # None => account' # None
  /\ \/ UNCHANGED call
     \/ \E c \in Caller : \E k : CallOK(k)' /\ call' = [call EXCEPT ![c] = k]

(* A move keeps every call well formed.                                     *)
LEMMA MovesKeepCalls ==
  ASSUME Calls, Moves
  PROVE  Calls'
<1>1. \A k : CallOK(k) => CallOK(k)'
  BY DEF Moves, CallOK
<1>2. CASE UNCHANGED call
  BY <1>1, <1>2 DEF Calls
<1>3. ASSUME NEW c \in Caller, NEW k, CallOK(k)', call' = [call EXCEPT ![c] = k]
      PROVE  Calls'
  BY <1>1, <1>3 DEF Calls
<1>. QED BY <1>2, <1>3 DEF Moves

(* The rest of the type invariant.                                          *)
Tables ==
  /\ account \in Account \cup {None}
  /\ rows \subseteq DEPENDENT_TABLES
  /\ receipts \subseteq {e.id : e \in sent}
  /\ now \in Nat
  /\ entitled \in Nat \cup {None}
  /\ sent \subseteq Event
  /\ left \in Environment
  /\ straddled \in BOOLEAN

LEMMA TypeOKParts == TypeOK <=> Tables /\ Calls
  BY DEF TypeOK, Tables, Calls

LEMMA AccountValues ==
  /\ New \in Account /\ Tombstone \in Account
  /\ None \notin Account
  BY AccountsAssumption DEF New, Tombstone, Account, AccountStatus

LEMMA InitOK == Init => IInv
<1>. SUFFICES ASSUME Init PROVE IInv
  OBVIOUS
<1>1. Calls
  BY DEF Init, Calls, CallOK, Idle, Place
<1>2. Tables
  BY AccountsAssumption DEF Init, Tables
<1>3. Sealed
  BY AccountsAssumption DEF Init, Sealed, Status, AccountStatus
<1>. QED BY <1>1, <1>2, <1>3, TypeOKParts DEF IInv

-----------------------------------------------------------------------------
(* Every action keeps the tables and moves at most one call.                *)

Safe == Tables' /\ Moves /\ Sealed'

LEMMA SafeSuffices == IInv /\ Safe => IInv'
<1>. SUFFICES ASSUME IInv, Safe PROVE IInv'
  OBVIOUS
<1>1. Calls'
  BY MovesKeepCalls, TypeOKParts DEF IInv, Safe
<1>2. TypeOK' <=> Tables' /\ Calls'
  BY DEF TypeOK, Tables, Calls
<1>. QED BY <1>1, <1>2 DEF IInv, Safe

USE DEF Goto, Idle

LEMMA EnsuredOK == Tables => Ensured \in Account /\ Ensured # None
  BY AccountValues DEF Tables, Ensured

LEMMA SpendOK ==
  ASSUME left \in Environment, NEW w \in {"writes", "events", "hours", "faults"}, Spend(w)
  PROVE  left' \in Environment
  BY DEF Environment, Spend

(* Starting a call, but for a webhook: the account becomes the ensured one  *)
(* or stays, and a call that writes starts only when nothing is sealed.     *)
LEMMA StartSafe ==
  ASSUME IInv, NEW c \in Caller,
         \/ StartProfile(c) \/ StartWrite(c) \/ StartBackground(c)
         \/ StartDelete(c) \/ StartDigest(c)
  PROVE  Safe
<1>. USE EnsuredOK, TypeOKParts DEF IInv
<1>1. left' \in Environment
  BY SpendOK DEF Tables, StartProfile, StartWrite, StartBackground, StartDelete, StartDigest
<1>2. account' \in {account, Ensured} /\ (account # None => account' = account)
  BY DEF StartProfile, StartWrite, StartBackground, StartDelete, StartDigest, Ensured
<1>3. UNCHANGED <<rows, receipts, straddled, provider>>
  BY DEF StartProfile, StartWrite, StartBackground, StartDelete, StartDigest
<1>4. Tables'
  BY <1>1, <1>2, <1>3 DEF Tables, provider
<1>5. Status # "deleted_pending_revocation"
  BY DEF StartProfile, StartWrite, StartBackground, StartDelete, StartDigest, Admitted, Active,
         Locked, DELETION_LOCKED_STATUSES
<1>6. Status' # "deleted_pending_revocation"
  BY <1>2, <1>5, AccountsAssumption DEF Status, Ensured, New
<1>7. \E k : CallOK(k)' /\ call' = [call EXCEPT ![c] = k]
  <2>1. CASE StartProfile(c)
    BY <2>1, <1>2 DEF StartProfile, CallOK, Place
  <2>2. CASE StartWrite(c)
    BY <2>2 DEF StartWrite, CallOK, Place, PrivateWrites
  <2>3. CASE StartBackground(c)
    BY <2>3 DEF StartBackground, CallOK, Place, PrivateWrites
  <2>4. CASE StartDelete(c)
    BY <2>4 DEF StartDelete, CallOK, Place
  <2>5. CASE StartDigest(c)
    BY <2>5, AccountsAssumption DEF StartDigest, CallOK, Place, Active, Status, AccountStatus
  <2>. QED BY <2>1, <2>2, <2>3, <2>4, <2>5
<1>8. Moves
  BY <1>2, <1>3, <1>7 DEF Moves, provider
<1>. QED BY <1>4, <1>6, <1>8 DEF Safe, Sealed

(* The steps that write private rows: none of them can run once sealed.     *)
LEMMA WritingSafe ==
  ASSUME IInv, NEW c \in Caller,
         \/ Write(c) \/ SaveProfile(c) \/ ReadEvaluation(c) \/ RecordEvaluation(c)
         \/ Bootstrap(c) \/ EmitEvents(c) \/ ReadTokens(c) \/ RecordDigest(c)
  PROVE  Safe
<1>. USE TypeOKParts DEF IInv
<1>0. CallOK(call[c])
  BY DEF Calls
<1>1. call[c].at \in Writing
  BY DEF Write, SaveProfile, ReadEvaluation, RecordEvaluation, Bootstrap, EmitEvents,
         ReadTokens, RecordDigest, Writing, Place
<1>2. UNCHANGED <<receipts, left, straddled, provider>>
  BY DEF Write, SaveProfile, ReadEvaluation, RecordEvaluation, Bootstrap, EmitEvents,
         ReadTokens, RecordDigest
<1>3. rows' \subseteq DEPENDENT_TABLES
  BY <1>0 DEF Tables, DEPENDENT_TABLES, PrivateWrites, Workflow, Device,
         Preference, Decisions, Alerts, CallOK,
         Write, SaveProfile, ReadEvaluation, RecordEvaluation, Bootstrap, EmitEvents,
         ReadTokens, RecordDigest
<1>4. CASE ~RecordEvaluation(c)
  <2>1. UNCHANGED account
    BY <1>4 DEF Write, SaveProfile, ReadEvaluation, Bootstrap, EmitEvents, ReadTokens,
           RecordDigest
  <2>2. Tables'
    BY <2>1, <1>2, <1>3 DEF Tables, provider
  <2>3. \E k : CallOK(k)' /\ call' = [call EXCEPT ![c] = k]
    BY <1>0, <1>4, <2>1 DEF CallOK, Place, Write, SaveProfile, ReadEvaluation, Bootstrap,
           EmitEvents, ReadTokens, RecordDigest
  <2>4. Moves
    BY <2>1, <2>3, <1>2 DEF Moves, provider
  <2>5. Sealed'
    BY <1>1, <1>2, <2>1 DEF Sealed, Status
  <2>. QED BY <2>2, <2>4, <2>5 DEF Safe
<1>5. CASE RecordEvaluation(c)
  <2>1. account # None
    BY <1>0, <1>5 DEF RecordEvaluation, CallOK
  <2>2. account' \in Account /\ account'.status = account.status
    BY <2>1, <1>5 DEF RecordEvaluation, Tables, Account
  <2>3. Tables'
    BY <2>2, <1>2, <1>3 DEF Tables, provider
  <2>4. \E k : CallOK(k)' /\ call' = [call EXCEPT ![c] = k]
    BY <2>2, <1>5, AccountsAssumption DEF RecordEvaluation, CallOK, Place
  <2>5. Moves
    BY <2>2, <2>4, <1>2, AccountsAssumption DEF Moves, provider
  <2>6. Status' = Status
    BY <2>1, <2>2, AccountsAssumption DEF Status
  <2>7. Sealed'
    BY <1>1, <1>2, <2>6 DEF Sealed
  <2>. QED BY <2>3, <2>5, <2>7 DEF Safe
<1>. QED BY <1>4, <1>5

(* The deletion: at its commit no private row is left, and the seal holds   *)
(* unless a call that writes is under way.                                  *)
LEMMA DeletionSafe ==
  ASSUME IInv, NEW c \in Caller, MarkDeletion(c) \/ Delete(c) \/ FailDelete(c)
  PROVE  Safe
<1>. USE TypeOKParts DEF IInv
<1>1. CallOK(call[c])
  BY DEF Calls
<1>2. account \in Account /\ account # None
  BY <1>1 DEF MarkDeletion, Delete, FailDelete, CallOK, Tables
<1>3. account' \in Account /\ account' # None
  <2>1. \A s \in AccountStatus : [account EXCEPT !.status = s] \in Account
    BY <1>2 DEF Account
  <2>2. account' \in Account
    BY <2>1, AccountValues DEF MarkDeletion, Delete, FailDelete, AccountStatus
  <2>. QED BY <2>2, AccountsAssumption
<1>4. left' \in Environment
  BY SpendOK DEF MarkDeletion, Delete, FailDelete, Tables
<1>5. Tables'
  BY <1>3, <1>4 DEF MarkDeletion, Delete, FailDelete, Tables, provider
<1>6. \E k : CallOK(k)' /\ call' = [call EXCEPT ![c] = k]
  BY <1>3 DEF MarkDeletion, Delete, FailDelete, CallOK, Place
<1>7. Moves
  BY <1>3, <1>6 DEF MarkDeletion, Delete, FailDelete, Moves, provider
<1>8. CASE Delete(c)
  <2>1. rows' = {} /\ account'.evaluation = None
    BY <1>8 DEF Delete, Tombstone, Tables
  <2>2. ASSUME ~straddled', NEW d \in Caller PROVE call'[d].at \notin Writing
    BY <1>8, <2>2 DEF Delete, Calls, Writing
  <2>. QED BY <1>5, <1>7, <2>1, <2>2 DEF Safe, Sealed
<1>9. CASE ~Delete(c)
  <2>1. Status' \in {"deletion_pending", "deletion_failed"}
    BY <1>2, <1>3, <1>9 DEF MarkDeletion, FailDelete, Status, Account
  <2>. QED BY <1>5, <1>7, <2>1 DEF Safe, Sealed
<1>. QED BY <1>8, <1>9

(* The subscription: what a poll or a webhook writes leaves the status, and *)
(* marks nothing where there is no evaluation.                              *)
LEMMA StoreSafe ==
  ASSUME IInv, NEW c \in Caller, Store(c)
  PROVE  Safe
<1>. USE TypeOKParts DEF IInv
<1>1. CallOK(call[c])
  BY DEF Calls
<1>2. account \in Account /\ account # None /\ call[c].got \in Nat \cup {None}
  BY <1>1 DEF Store, CallOK, Tables
<1>3. /\ account' \in Account /\ account'.status = account.status
      /\ account.evaluation = None => account'.evaluation = None /\ rows' = rows
      /\ rows' \subseteq DEPENDENT_TABLES
  <2>1. CASE call[c].got = None
    BY <1>2, <2>1 DEF Store, Account, Tables
  <2>2. CASE call[c].got # None
    <3>. DEFINE active == call[c].got # None /\ call[c].got > now
                plan == IF active THEN "pro" ELSE "expired"
    <3>1. /\ account' = Subscribed(account, plan, call[c].got, active)
          /\ rows' = rows \cup MarkRows(account, active)
      BY <2>2 DEF Store
    <3>2. active \in BOOLEAN /\ plan \in {"pro", "expired"}
      OBVIOUS
    <3>. HIDE DEF active, plan
    <3>3. /\ Subscribed(account, plan, call[c].got, active) \in Account
          /\ Subscribed(account, plan, call[c].got, active).status = account.status
          /\ account.evaluation = None =>
               /\ Subscribed(account, plan, call[c].got, active).evaluation = None
               /\ MarkRows(account, active) = {}
          /\ MarkRows(account, active) \subseteq DEPENDENT_TABLES
      BY <1>2, <3>2 DEF Account, Subscribed, MarkRows, DEPENDENT_TABLES
    <3>. QED BY <3>1, <3>3 DEF Tables
  <2>. QED BY <2>1, <2>2
<1>4. account' # None
  BY <1>3, AccountsAssumption
<1>5. UNCHANGED <<receipts, left, straddled, provider>>
  BY DEF Store
<1>6. Tables'
  BY <1>3, <1>5 DEF Tables, provider
<1>7. CallOK([at |-> "idle", got |-> None])' /\ call' = [call EXCEPT ![c] = [at |-> "idle", got |-> None]]
  BY DEF Store, CallOK, Place
<1>8. Moves
  BY <1>4, <1>5, <1>7 DEF Moves, provider
<1>9. Sealed'
  <2>1. \A d \in Caller : call'[d].at \in {call[d].at, "idle"}
    BY <1>7 DEF Calls
  <2>. QED BY <1>2, <1>3, <1>4, <1>5, <2>1 DEF Sealed, Status, Writing
<1>. QED BY <1>6, <1>8, <1>9 DEF Safe

LEMMA ApplyWebhookSafe ==
  ASSUME IInv, NEW c \in Caller, ApplyWebhook(c)
  PROVE  Safe
<1>. USE TypeOKParts, EnsuredOK DEF IInv
<1>1. CallOK(call[c])
  BY DEF Calls
<1>2. call[c].got \in sent /\ call[c].got.expires \in Nat
  BY <1>1 DEF ApplyWebhook, CallOK, Tables, Event
<1>3. /\ account' \in Account /\ account'.status = Ensured.status
      /\ Ensured.evaluation = None => account'.evaluation = None /\ rows' = rows
      /\ rows' \subseteq DEPENDENT_TABLES
  <2>. DEFINE e == call[c].got
              plan == IF e.type = "EXPIRATION" THEN "expired" ELSE "pro"
              marks == e.type \in {"RENEWAL", "CANCELLATION"}
  <2>1. /\ account' = Subscribed(Ensured, plan, e.expires, marks)
        /\ rows' = rows \cup MarkRows(Ensured, marks)
    BY DEF ApplyWebhook
  <2>2. marks \in BOOLEAN /\ plan \in {"pro", "expired"} /\ e.expires \in Nat \cup {None}
    BY <1>2
  <2>. HIDE DEF e, marks, plan
  <2>3. /\ Subscribed(Ensured, plan, e.expires, marks) \in Account
        /\ Subscribed(Ensured, plan, e.expires, marks).status = Ensured.status
        /\ Ensured.evaluation = None =>
             /\ Subscribed(Ensured, plan, e.expires, marks).evaluation = None
             /\ MarkRows(Ensured, marks) = {}
        /\ MarkRows(Ensured, marks) \subseteq DEPENDENT_TABLES
    BY <2>2 DEF Account, Subscribed, MarkRows, DEPENDENT_TABLES
  <2>. QED BY <2>1, <2>3 DEF Tables
<1>5. account' # None
  BY <1>3, AccountsAssumption
<1>6. UNCHANGED <<receipts, left, straddled, provider>>
  BY DEF ApplyWebhook
<1>7. Tables'
  BY <1>3, <1>6 DEF Tables, provider
<1>8. /\ CallOK([at |-> "receipt", got |-> call[c].got])'
      /\ call' = [call EXCEPT ![c] = [at |-> "receipt", got |-> call[c].got]]
  BY <1>2, <1>5, <1>6 DEF ApplyWebhook, CallOK, Place, provider
<1>9. Moves
  BY <1>5, <1>6, <1>8 DEF Moves, provider
<1>10. Sealed'
  <2>1. \A d \in Caller : call'[d].at \in {call[d].at, "receipt"}
    BY <1>8 DEF Calls
  <2>2. CASE account = None
    BY <1>3, <1>5, <2>2 DEF Sealed, Status, Ensured, New
  <2>3. CASE account # None
    BY <1>3, <1>5, <1>6, <2>1, <2>3 DEF Sealed, Status, Ensured, Writing
  <2>. QED BY <2>2, <2>3
<1>. QED BY <1>7, <1>9, <1>10 DEF Safe

(* The rest moves one call, or only time and the provider.                  *)
LEMMA OtherSafe ==
  ASSUME IInv,
         \/ \E c \in Caller : \/ StartPoll(c) \/ Fetch(c) \/ FailFetch(c)
                              \/ StartWebhook(c) \/ RecordReceipt(c) \/ Crash(c)
         \/ Age \/ Tick \/ ProviderStep
  PROVE  Safe
<1>. USE TypeOKParts, EnsuredOK DEF IInv
<1>1. ASSUME NEW c \in Caller, StartPoll(c) PROVE Safe
  <2>1. Tables'
    BY <1>1 DEF StartPoll, Tables, provider
  <2>2. UNCHANGED call \/ \E k : CallOK(k)' /\ call' = [call EXCEPT ![c] = k]
    BY <1>1 DEF StartPoll, CallOK, Place
  <2>3. Moves
    BY <1>1, <2>2 DEF StartPoll, Moves, provider
  <2>4. Status' \notin {"deleted_pending_revocation"}
    BY <1>1 DEF StartPoll, Admitted, Locked, Status, Ensured, New, DELETION_LOCKED_STATUSES
  <2>. QED BY <2>1, <2>3, <2>4 DEF Safe, Sealed
<1>2. ASSUME NEW c \in Caller,
             \/ Fetch(c) \/ FailFetch(c) \/ StartWebhook(c) \/ RecordReceipt(c) \/ Crash(c)
      PROVE  Safe
  <2>0. CallOK(call[c])
    BY DEF Calls
  <2>1. UNCHANGED <<account, rows, straddled, provider>>
    BY <1>2 DEF Fetch, FailFetch, StartWebhook, RecordReceipt, Crash
  <2>2. left' \in Environment
    BY <1>2, SpendOK DEF Fetch, FailFetch, StartWebhook, RecordReceipt, Crash, Tables
  <2>3. receipts' \subseteq {e.id : e \in sent}
    BY <1>2, <2>0 DEF Fetch, FailFetch, StartWebhook, RecordReceipt, Crash, Tables, CallOK
  <2>4. Tables'
    BY <2>1, <2>2, <2>3 DEF Tables, provider
  <2>5. PICK k : CallOK(k)' /\ k.at \notin Writing /\ call' = [call EXCEPT ![c] = k]
    BY <1>2, <2>0, <2>1 DEF Fetch, FailFetch, StartWebhook, RecordReceipt, Crash, Tables,
           CallOK, Place, Writing, provider
  <2>6. Moves
    BY <2>1, <2>5 DEF Moves, provider
  <2>7. Sealed'
    BY <2>1, <2>5 DEF Sealed, Status, Calls
  <2>. QED BY <2>4, <2>6, <2>7 DEF Safe
<1>3. CASE Age \/ Tick \/ ProviderStep
  <2>0. ASSUME ProviderStep
        PROVE  \E type \in EventType, t \in Nat : Announce(type, t)
    BY <2>0, AccountsAssumption DEF ProviderStep, Entitled, Tables, EventType
  <2>1. /\ rows' = rows /\ receipts' = receipts /\ call' = call
        /\ straddled' = straddled /\ sent \subseteq sent'
    BY <1>3, <2>0 DEF Age, Tick, Announce, provider
  <2>2. left' \in Environment
    BY <1>3, <2>0, SpendOK DEF Age, Tick, Announce, Tables
  <2>3. /\ account = None => account' = None
        /\ account # None => /\ account' \in Account
                             /\ account'.status = account.status
                             /\ account'.evaluation = account.evaluation
    BY <1>3, <2>0 DEF Age, Tick, Announce, Tables, Account
  <2>4. now' \in Nat
    BY <1>3, <2>0 DEF Age, Tick, Announce, Tables, provider
  <2>5. entitled' \in Nat \cup {None} /\ sent' \subseteq Event
    <3>1. CASE ProviderStep
      <4>. PICK type \in EventType, t \in Nat : Announce(type, t)
        BY <3>1, <2>0
      <4>. QED BY DEF Announce, Tables, Event, Environment
    <3>2. CASE Age \/ Tick
      BY <3>2 DEF Age, Tick, Tables, provider
    <3>. QED BY <1>3, <3>1, <3>2
  <2>6. Tables'
    BY <2>1, <2>2, <2>3, <2>4, <2>5 DEF Tables
  <2>7. Moves /\ Sealed'
    BY <2>1, <2>3, AccountsAssumption DEF Moves, Sealed, Status
  <2>. QED BY <2>6, <2>7 DEF Safe
<1>. QED BY <1>1, <1>2, <1>3

LEMMA Inductive == IInv /\ [Next]_vars => IInv'
<1>. SUFFICES ASSUME IInv, [Next]_vars PROVE IInv'
  OBVIOUS
<1>1. CASE Next
  BY <1>1, SafeSuffices, StartSafe, WritingSafe, DeletionSafe, StoreSafe,
     ApplyWebhookSafe, OtherSafe DEF Next, Start, Continue
<1>2. CASE UNCHANGED vars
  BY <1>2 DEF vars, provider, IInv, TypeOK, CallOK, Sealed, Status
<1>. QED BY <1>1, <1>2

(* The inductive invariant.                                                 *)
THEOREM InvariantHolds == Spec => []IInv
BY InitOK, Inductive, PTL DEF Spec

(* The account, its tables and every call keep their types.                 *)
THEOREM TypeCorrect == Spec => []TypeOK
<1>1. IInv => TypeOK
  BY DEF IInv
<1>. QED BY <1>1, InvariantHolds, PTL

(* A deleted account keeps no private row, unless a call admitted before    *)
(* the deletion was under way at its commit (account_privacy.py:279-312).   *)
THEOREM PurgedHolds == Spec => []Purged
<1>1. IInv => Purged
  BY DEF IInv, Sealed, Purged
<1>. QED BY <1>1, InvariantHolds, PTL
=============================================================================

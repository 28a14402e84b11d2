--------------------------- MODULE ConnectorPolls ---------------------------
(***************************************************************************)
(* What one poll of a connector does, for any register, limits, outages    *)
(* and order of publication: here the first fourteen connectors, the other *)
(* three in ConnectorsProofs.                                              *)
(*                                                                         *)
(* Register, Orderly and ClosedLast are what the register keeps; Screen is *)
(* what the screen does whatever the connector.  For each connector        *)
(* XKept says what its cursor knows between two polls, in terms of the     *)
(* notices; XPoll, that a poll keeps it and leaves Complete and Sound      *)
(* true; XRest, that publications and passing time keep it.                *)
(***************************************************************************)
EXTENDS Connectors, TLAPS, FiniteSetTheorems, WellFoundedInduction

(* A nonempty set of naturals has a least element.                          *)
LEMMA LeastNatural ==
  ASSUME NEW T \in SUBSET Nat, T # {}
  PROVE  \E x \in T : \A y \in T : x <= y
<1> DEFINE R == OpToRel(<, Nat)
<1>1. IsWellFoundedOn(R, Nat)
  BY NatLessThanWellFounded
<1>2. \A x, y \in Nat : y < x => <<y, x>> \in R
  BY DEF OpToRel
<1> HIDE DEF R
<1>3. PICK x \in T : \A y \in T : ~(<<y, x>> \in R)
  BY <1>1, WFMin
<1>4. ASSUME NEW y \in T PROVE x <= y
  <2>1. ~(y < x)
    BY <1>2, <1>3
  <2> QED
    BY <2>1
<1> QED
  BY <1>4

(***************************************************************************)
(* Replay.  A recursive function over the subsets of a finite set exists,  *)
(* and what holds of it for no notice and is kept by one more holds for    *)
(* all of them.  The step is a function f here, and the property a set J.  *)
(***************************************************************************)
Replays(N, S, s0, f, last) ==
  /\ IsFiniteSet(N) /\ s0 \in S /\ f \in [S \X N -> S]
  /\ \A k \in SUBSET N : k # {} => last[k] \in k

Replayed(g, N, s0, f, last) ==
  g = [k \in SUBSET N |-> IF k = {} THEN s0 ELSE f[g[k \ {last[k]}], last[k]]]

Inductive(N, S, J, h, last) ==
  /\ IsFiniteSet(N)
  /\ \A k \in SUBSET N : k # {} => last[k] \in k
  /\ h[{}] \in S /\ <<{}, h[{}]>> \in J
  /\ \A k \in SUBSET N : k # {} /\ h[k \ {last[k]}] \in S
                          /\ <<k \ {last[k]}, h[k \ {last[k]}]>> \in J
       => h[k] \in S /\ <<k, h[k]>> \in J

(* Replay is well defined: over a finite set, the function that applies the *)
(* notices of each part of it from the first to the last exists (least      *)
(* counterexample by cardinality).                                          *)
LEMMA ReplayExists ==
  ASSUME NEW N, NEW S, NEW s0, NEW f, NEW last, Replays(N, S, s0, f, last)
  PROVE  \E g \in [SUBSET N -> S] : Replayed(g, N, s0, f, last)
<1> USE DEF Replays
<1> DEFINE C(n) == {k \in SUBSET N : Cardinality(k) <= n}
           Value(g, k) == IF k = {} THEN s0 ELSE f[g[k \ {last[k]}], last[k]]
           Good(g, n) == \A k \in C(n) : g[k] = Value(g, k)
           Bad == {n \in Nat : ~\E g \in [C(n) -> S] : Good(g, n)}
<1>1. \A k \in SUBSET N : /\ IsFiniteSet(k) /\ Cardinality(k) \in Nat
                          /\ (Cardinality(k) = 0 <=> k = {})
                          /\ Cardinality(k) <= Cardinality(N)
  BY FS_Subset, FS_CardinalityType, FS_EmptySet
<1>2. \A k \in SUBSET N : k # {} => /\ k \ {last[k]} \in SUBSET N
                                   /\ Cardinality(k \ {last[k]}) = Cardinality(k) - 1
  BY <1>1, FS_RemoveElement
<1>3. 0 \notin Bad
  <2> DEFINE g == [k \in C(0) |-> s0]
  <2>1. \A k \in C(0) : k = {}
    BY <1>1
  <2>2. g \in [C(0) -> S] /\ \A k \in C(0) : g[k] = Value(g, k)
    BY <2>1
  <2> QED
    BY <2>2
<1>4. ASSUME NEW n \in Nat, n \notin Bad PROVE n + 1 \notin Bad
  <2>1. PICK g \in [C(n) -> S] : Good(g, n)
    BY <1>4
  <2> DEFINE h == [k \in C(n + 1) |-> IF k \in C(n) THEN g[k] ELSE Value(g, k)]
  <2>2. ASSUME NEW k \in C(n + 1), k # {} PROVE k \ {last[k]} \in C(n) /\ k \ {last[k]} \in C(n + 1)
    BY <1>1, <1>2, <2>2
  <2>3. ASSUME NEW k \in C(n + 1) PROVE h[k] \in S
    <3>1. CASE k \in C(n)
      BY <2>1, <3>1
    <3>2. CASE k \notin C(n) /\ k # {}
      <4>1. g[k \ {last[k]}] \in S
        BY <2>1, <2>2, <3>2
      <4>2. last[k] \in N
        BY <3>2
      <4>3. Value(g, k) \in S
        BY <4>1, <4>2, <3>2
      <4> QED
        BY <4>3, <3>2
    <3>3. {} \in C(n)
      BY <1>1
    <3> QED
      BY <3>1, <3>2, <3>3
  <2>4. ASSUME NEW k \in C(n + 1) PROVE h[k] = Value(h, k)
    <3>1. CASE k # {}
      <4>1. h[k \ {last[k]}] = g[k \ {last[k]}]
        BY <2>2, <3>1
      <4>2. Value(h, k) = f[h[k \ {last[k]}], last[k]]
        BY <3>1
      <4>4. Value(g, k) = f[g[k \ {last[k]}], last[k]]
        BY <3>1
      <4>3. k \in C(n) => g[k] = Value(g, k)
        BY <2>1
      <4> QED
        BY <4>1, <4>2, <4>3, <4>4
    <3>2. CASE k = {}
      <4>1. k \in C(n)
        BY <1>1, <3>2
      <4>2. g[k] = Value(g, k)
        BY <2>1, <4>1
      <4>3. g[k] = s0
        BY <4>2, <3>2
      <4> QED
        BY <4>1, <4>3, <3>2
    <3> QED
      BY <3>1, <3>2
  <2>5. h \in [C(n + 1) -> S]
    BY <2>3
  <2>6. Good(h, n + 1)
    <3> HIDE DEF h
    <3> QED
      BY <2>4
  <2> HIDE DEF h, Good
  <2> QED
    BY <2>5, <2>6
<1>5. Bad = {}
  <2> SUFFICES ASSUME Bad # {} PROVE FALSE
    OBVIOUS
  <2>1. Bad \in SUBSET Nat
    OBVIOUS
  <2> HIDE DEF Bad
  <2>2. PICK n \in Bad : \A m \in Bad : n <= m
    BY <2>1, LeastNatural
  <2>3. n \in Nat /\ n # 0
    BY <2>1, <1>3
  <2>4. n - 1 \in Nat /\ n - 1 \notin Bad
    BY <2>1, <2>2, <2>3
  <2>5. (n - 1) + 1 \notin Bad
    BY <1>4, <2>4
  <2> QED
    BY <2>3, <2>5
<1>6. Cardinality(N) \in Nat /\ C(Cardinality(N)) = SUBSET N
  BY <1>1
<1>7. PICK g \in [SUBSET N -> S] : \A k \in SUBSET N : g[k] = Value(g, k)
  <2>1. Cardinality(N) \notin Bad
    BY <1>5
  <2>2. PICK g \in [C(Cardinality(N)) -> S] : Good(g, Cardinality(N))
    BY <2>1, <1>6
  <2> QED
    BY <2>2, <1>6
<1>8. g = [k \in SUBSET N |-> Value(g, k)]
  BY <1>7
<1> QED
  BY <1>8 DEF Replayed

(* What holds before any notice and is kept by one more holds once all are  *)
(* applied.                                                                 *)
LEMMA ReplayInduction ==
  ASSUME NEW N, NEW S, NEW J, NEW h, NEW last, Inductive(N, S, J, h, last)
  PROVE  h[N] \in S /\ <<N, h[N]>> \in J
<1> USE DEF Inductive
<1> DEFINE Bad == {k \in SUBSET N : ~(h[k] \in S /\ <<k, h[k]>> \in J)}
           R == StrictSubsetOrdering(N)
<1>1. IsWellFoundedOn(R, SUBSET N)
  BY FS_StrictSubsetOrderingWellFounded, FS_FiniteSubsetsOfFinite
<1>2. \A t, u \in SUBSET N : t \subseteq u /\ t # u => <<t, u>> \in R
  BY DEF StrictSubsetOrdering
<1>3. Bad = {}
  <2> SUFFICES ASSUME Bad # {} PROVE FALSE
    OBVIOUS
  <2>1. Bad \subseteq SUBSET N
    OBVIOUS
  <2>2. PICK k \in Bad : \A u \in Bad : ~(<<u, k>> \in R)
    <3> HIDE DEF Bad, R
    <3> QED
      BY <1>1, <2>1, WFMin
  <2>3. k # {}
    OBVIOUS
  <2>4. k \ {last[k]} \in SUBSET N /\ k \ {last[k]} # k /\ last[k] \in k
    BY <2>3
  <2>5. <<k \ {last[k]}, k>> \in R
    <3> HIDE DEF R
    <3> QED
      BY <1>2, <2>4
  <2>6. k \ {last[k]} \notin Bad
    <3> HIDE DEF Bad, R
    <3> QED
      BY <2>2, <2>5
  <2> QED
    BY <2>3, <2>4, <2>6
<1> QED
  BY <1>3

(* The newest and the oldest of some notices.                               *)
LEMMA NewestIs ==
  ASSUME NEW ns \in SUBSET Notice, IsFiniteSet(ns), ns # {}
  PROVE  Newest(ns) \in ns /\ \A o \in ns : o.at <= Newest(ns).at
<1> DEFINE later(x) == {y \in ns : y.at > x.at}
           T == {later(x) : x \in ns}
           R == StrictSubsetOrdering(ns)
<1>1. IsWellFoundedOn(R, SUBSET ns)
  BY FS_StrictSubsetOrderingWellFounded, FS_FiniteSubsetsOfFinite
<1>2. T \subseteq SUBSET ns /\ T # {}
  OBVIOUS
<1>3. \A t, u \in SUBSET ns : t \subseteq u /\ t # u => <<t, u>> \in R
  BY DEF StrictSubsetOrdering
<1> HIDE DEF R
<1>4. PICK t \in T : \A u \in T : ~(<<u, t>> \in R)
  <2> HIDE DEF T
  <2> QED  BY <1>1, <1>2, WFMin
<1>5. PICK x \in ns : t = later(x)
  OBVIOUS
<1>6. \A y \in ns : y.at \in Nat
  BY DEF Notice
<1>7. ASSUME NEW y \in ns PROVE y.at <= x.at
  <2> SUFFICES ASSUME y.at > x.at PROVE FALSE
    BY <1>6
  <2>1. later(y) \subseteq later(x)
    BY <1>6
  <2>2. y \in later(x) /\ y \notin later(y)
    BY <1>6
  <2>3. <<later(y), later(x)>> \in R
    BY <1>3, <2>1, <2>2
  <2> QED
    BY <1>4, <1>5, <2>3
<1>8. \E n \in ns : \A o \in ns : o.at <= n.at
  BY <1>7
<1> QED
  BY <1>8 DEF Newest

(* The same of the oldest.                                                  *)
LEMMA OldestIs ==
  ASSUME NEW ns \in SUBSET Notice, ns # {}
  PROVE  Oldest(ns) \in ns /\ \A o \in ns : Oldest(ns).at <= o.at
<1> DEFINE T == {n.at : n \in ns}
<1>1. T \in SUBSET Nat /\ T # {}
  BY DEF Notice
<1>2. PICK x \in T : \A y \in T : x <= y
  <2> HIDE DEF T
  <2> QED  BY <1>1, LeastNatural
<1>3. PICK n \in ns : x = n.at
  OBVIOUS
<1>4. \A o \in ns : n.at <= o.at
  BY <1>2, <1>3
<1> QED
  BY <1>4 DEF Oldest

-----------------------------------------------------------------------------
(* The register: notices have different times, by day and then in the order *)
(* of publication; a lot has a tender before anything else, and in most     *)
(* registers one only; nothing is published before a correction.            *)
Serial(n) == n.at - n.day * (MaxNotices + 1)

Terms ==
  /\ \A n \in notices : n.kind \in Kinds
  /\ \A n \in notices : n.kind = "tender" => n.deadline \in Deadlines[connector]
  /\ \A n \in notices : n.kind = "correct" => n.deadline # None
  /\ \A n \in notices : n.kind \notin {"tender", "correct"} => n.deadline = None

Register ==
  /\ connector \in Connector
  /\ today \in 0 .. MaxDay
  /\ notices \subseteq Notice /\ IsFiniteSet(notices)
  /\ Cardinality(notices) <= MaxNotices
  /\ \A n \in notices : n.day <= today /\ Serial(n) \in 0 .. Cardinality(notices) - 1
  /\ \A n, o \in notices : Serial(n) = Serial(o) => n = o
  /\ Terms
  /\ \A n \in notices : n.kind # "tender" =>
       \E t \in notices : t.lot = n.lot /\ t.kind = "tender"
  /\ \A n \in notices : n.kind \notin {"tender", "correct"} =>
       \E t \in notices : t.lot = n.lot /\ t.kind = "tender" /\ t.at < n.at
  /\ connector \notin Republishes =>
       \A n, o \in notices : n.lot = o.lot /\ n.kind = "tender" /\ o.kind = "tender" => n = o
  /\ \A n, c \in notices : c.kind = "correct" /\ Serial(c) < Serial(n) => c.day <= n.day

(* A day counts more than a serial number.                                  *)
LEMMA Dates ==
  ASSUME NEW d \in Nat, NEW e \in Nat, d < e,
         NEW i \in 0 .. MaxNotices, NEW j \in 0 .. MaxNotices
  PROVE  d * (MaxNotices + 1) + i < e * (MaxNotices + 1) + j
<1>1. MaxNotices \in Nat
  BY ConnectorsAssumption
<1> DEFINE M == MaxNotices + 1
<1>2. M \in Nat /\ i < M
  BY <1>1
<1>3. PICK k \in Nat : e = d + 1 + k
  <2>1. e - d - 1 \in Nat /\ e = d + 1 + (e - d - 1)
    OBVIOUS
  <2> QED  BY <2>1
<1> HIDE DEF M
<1>4. e * M = d * M + M + k * M
  BY <1>2, <1>3
<1>5. k * M \in Nat /\ d * M \in Nat
  BY <1>2
<1> QED
  BY <1>1, <1>2, <1>4, <1>5 DEF M

(* The time of a notice orders it by its day, then by when it was           *)
(* published.                                                               *)
LEMMA Times ==
  ASSUME Register
  PROVE  /\ \A n \in notices : /\ n \in Notice /\ n.at \in Nat /\ n.day \in Nat /\ n.lot \in Lot
                               /\ n.deadline \in Int \cup {None}
         /\ \A n, o \in notices : n.at = o.at => n = o
         /\ \A n, o \in notices : n.at <= o.at => n.day <= o.day
         /\ \A n, o \in notices : n.day < o.day => n.at < o.at
         /\ \A n, o \in notices : n.day <= o.day /\ Serial(n) < Serial(o) => n.at < o.at
<1> DEFINE M == MaxNotices + 1
<1>1. \A n \in notices : /\ n \in Notice /\ n.at \in Nat /\ n.day \in Nat /\ n.lot \in Lot
                         /\ n.deadline \in Int \cup {None}
  BY DEF Register, Notice
<1>2. M \in Nat
  BY ConnectorsAssumption
<1>3. ASSUME NEW n \in notices
      PROVE  /\ Serial(n) \in 0 .. MaxNotices /\ n.day * M \in Nat
             /\ n.at = n.day * M + Serial(n)
  <2>1. n.day * M \in Nat
    BY <1>1, <1>2
  <2>2. Cardinality(notices) \in Nat /\ MaxNotices \in Nat
    BY ConnectorsAssumption, FS_CardinalityType DEF Register
  <2>3. Serial(n) \in 0 .. MaxNotices
    BY <2>2 DEF Register
  <2> QED
    BY <1>1, <2>1, <2>3 DEF Serial
<1>4. ASSUME NEW n \in notices, NEW o \in notices, n.day < o.day PROVE n.at < o.at
  <2>1. n.day * M + Serial(n) < o.day * M + Serial(o)
    BY <1>1, <1>3, <1>4, Dates
  <2> QED
    BY <1>3, <2>1
<1>5. ASSUME NEW n \in notices, NEW o \in notices, n.at <= o.at PROVE n.day <= o.day
  BY <1>1, <1>4, <1>5
<1>6. ASSUME NEW n \in notices, NEW o \in notices, n.at = o.at PROVE n = o
  <2>0. n.at <= o.at /\ o.at <= n.at /\ n.day \in Nat /\ o.day \in Nat
    BY <1>1, <1>6
  <2>1. n.day = o.day
    BY <2>0, <1>5
  <2>2. Serial(n) = Serial(o)
    BY <2>1, <1>6, Zenon DEF Serial
  <2> QED
    BY <2>2 DEF Register
<1>7. ASSUME NEW n \in notices, NEW o \in notices, n.day <= o.day, Serial(n) < Serial(o)
      PROVE  n.at < o.at
  <2>1. CASE n.day = o.day
    BY <1>1, <1>3, <1>7, <2>1
  <2> QED
    BY <1>1, <1>4, <1>7, <2>1
<1> QED
  BY <1>1, <1>4, <1>5, <1>6, <1>7

(* Registers only publish kinds of notice.                                  *)
LEMMA KindsAre ==
  ASSUME connector \in Connector
  PROVE  Kinds \subseteq Kind
BY ConnectorsAssumption DEF AllConnectors, Plain, Kinds, Kind, Italy!Kinds, Korea!Kinds,
       Germany!Kinds, Poland!Kinds, Netherlands!Kinds, Estonia!Kinds, Lithuania!Kinds,
       Canada!Kinds, Switzerland!Kinds, UK!Kinds, Ecuador!Kinds, US!Kinds, OCDS!Kinds,
       Latvia!Kinds, Colombia!Kinds, Uruguay!Kinds

(* What is published.                                                       *)
New(n, l) ==
  /\ n \in Notice /\ n \notin notices /\ notices' = notices \cup {n}
  /\ n.lot = l /\ n.kind \in Kinds /\ n.day \in Datable /\ n.day \in Nat
  /\ n.day <= today
  /\ n.deadline \in Deadlines[connector] \cup {None}
  /\ Publishable(l, n.kind, n.deadline, n.day)
  /\ Serial(n) = Cardinality(notices)
  /\ \A c \in notices : c.kind = "correct" => c.day <= n.day
  /\ IsFiniteSet(notices') /\ Cardinality(notices') = Cardinality(notices) + 1
  /\ Cardinality(notices') <= MaxNotices
  /\ polled' = None
  /\ UNCHANGED <<connector, today, cursor, first, listed, shown>>

(* Publish adds a notice (New) about a lot.                                 *)
LEMMA PublishedIsNew ==
  ASSUME Register, NEW l \in LotsOf[connector], Publish(l)
  PROVE  l \in Lot /\ \E n : New(n, l)
<1>1. /\ Cardinality(notices) \in Nat /\ MaxNotices \in Nat /\ l \in Lot
      /\ Deadlines[connector] \subseteq Int \cup {None} /\ today \in Nat
  BY ConnectorsAssumption, FS_CardinalityType DEF Register
<1>2. PICK kind \in Kinds, deadline \in Deadlines[connector] \cup {None}, day \in Datable :
        /\ Publishable(l, kind, deadline, day)
        /\ \A n \in notices : n.kind = "correct" => n.day <= day
        /\ notices' = notices \cup
             {[lot |-> l, kind |-> kind, deadline |-> deadline, day |-> day,
               at |-> day * (MaxNotices + 1) + Cardinality(notices)]}
  BY DEF Publish
<1> DEFINE n == [lot |-> l, kind |-> kind, deadline |-> deadline, day |-> day,
                 at |-> day * (MaxNotices + 1) + Cardinality(notices)]
<1>3. day \in Nat /\ day <= today
  BY <1>1, <1>2 DEF Datable
<1>4. day * (MaxNotices + 1) \in Nat
  BY <1>1, <1>3
<1>5. day * (MaxNotices + 1) + Cardinality(notices) \in Nat
  BY <1>1, <1>4
<1>6. kind \in Kind
  BY KindsAre DEF Register
<1>7. n \in Notice
  BY <1>1, <1>2, <1>3, <1>5, <1>6 DEF Notice
<1>8. Serial(n) = Cardinality(notices)
  <2>1. \A a, b \in Nat : (a + b) - a = b
    OBVIOUS
  <2>2. n.at = day * (MaxNotices + 1) + Cardinality(notices) /\ n.day = day
    OBVIOUS
  <2> HIDE DEF n
  <2>3. Serial(n) = (day * (MaxNotices + 1) + Cardinality(notices)) - day * (MaxNotices + 1)
    BY <2>2, Zenon DEF Serial
  <2> QED
    BY <1>1, <1>4, <2>1, <2>3
<1> HIDE DEF n
<1>9. n \notin notices
  <2>1. ASSUME n \in notices PROVE FALSE
    <3>1. Serial(n) \in 0 .. Cardinality(notices) - 1
      BY <2>1 DEF Register
    <3> QED
      BY <1>1, <1>8, <3>1
  <2> QED
    BY <2>1
<1>10. notices' = notices \cup {n}
  BY <1>2 DEF n
<1>11. IsFiniteSet(notices') /\ Cardinality(notices') = Cardinality(notices) + 1
  BY <1>9, <1>10, FS_AddElement DEF Register
<1>12. /\ n.lot = l /\ n.kind = kind /\ n.day = day /\ n.deadline = deadline
  BY DEF n
<1>13. Cardinality(notices') <= MaxNotices
  BY <1>1, <1>11 DEF Publish
<1>14. polled' = None /\ UNCHANGED <<connector, today, cursor, first, listed, shown>>
  BY DEF Publish
<1>15. New(n, l)
  BY <1>2, <1>3, <1>7, <1>8, <1>9, <1>10, <1>11, <1>12, <1>13, <1>14 DEF New
<1> QED
  BY <1>1, <1>15

(* An empty register is one.                                                *)
LEMMA RegisterInit ==
  ASSUME Init
  PROVE  Register
<1>1. notices = {} /\ Cardinality(notices) = 0 /\ IsFiniteSet(notices)
  BY FS_EmptySet DEF Init
<1> QED
  BY <1>1, ConnectorsAssumption DEF Init, Register, Terms

(* A notice published now comes after those of its day and of earlier ones, *)
(* and before those of a later day.                                         *)
LEMMA NewTimes ==
  ASSUME Register, NEW l \in Lot, NEW n, New(n, l)
  PROVE  /\ n.at \in Nat /\ n.deadline \in Int \cup {None}
         /\ \A o \in notices : /\ o.at # n.at /\ Serial(o) < Serial(n)
                               /\ (o.day <= n.day => o.at < n.at)
                               /\ (n.day < o.day => n.at < o.at)
<1> DEFINE M == MaxNotices + 1
<1>1. /\ n.at \in Nat /\ n.day \in Nat /\ M \in Nat /\ n.day * M \in Nat
      /\ n.deadline \in Int \cup {None}
  <2>1. n.at \in Nat /\ n.day \in Nat /\ n.deadline \in Int \cup {None}
    BY DEF New, Notice
  <2>2. M \in Nat
    BY ConnectorsAssumption
  <2> HIDE DEF M
  <2> QED
    BY <2>1, <2>2
<1>2. /\ Cardinality(notices) \in Nat /\ MaxNotices \in Nat
      /\ Cardinality(notices) <= MaxNotices
  BY ConnectorsAssumption, FS_CardinalityType DEF Register
<1>3. n.at = n.day * M + Serial(n) /\ Serial(n) \in 0 .. MaxNotices
  <2>1. Serial(n) = n.at - n.day * M
    BY DEF Serial
  <2>2. Serial(n) \in 0 .. MaxNotices
    BY <1>2 DEF New
  <2> HIDE DEF M
  <2> QED
    BY <1>1, <2>1, <2>2
<1>4. ASSUME NEW o \in notices
      PROVE  /\ o.at \in Nat /\ o.day \in Nat /\ Serial(o) \in 0 .. MaxNotices
             /\ o.day * M \in Nat /\ o.at = o.day * M + Serial(o)
             /\ Serial(o) < Serial(n)
  <2>1. o.at \in Nat /\ o.day \in Nat
    BY Times
  <2>2. Serial(o) \in 0 .. Cardinality(notices) - 1
    BY DEF Register
  <2>3. Serial(o) \in 0 .. MaxNotices /\ Serial(o) < Serial(n)
    BY <1>2, <2>2 DEF New
  <2>4. Serial(o) = o.at - o.day * M
    BY DEF Serial
  <2>5. o.day * M \in Nat
    <3> HIDE DEF M
    <3> QED  BY <1>1, <2>1
  <2> HIDE DEF M
  <2> QED
    BY <2>1, <2>3, <2>4, <2>5
<1>5. ASSUME NEW o \in notices, o.day < n.day PROVE o.at < n.at
  <2>1. o.day * M + Serial(o) < n.day * M + Serial(n)
    BY <1>1, <1>3, <1>4, <1>5, Dates
  <2> QED
    BY <1>3, <1>4, <2>1
<1>6. ASSUME NEW o \in notices, n.day < o.day PROVE n.at < o.at
  <2>1. n.day * M + Serial(n) < o.day * M + Serial(o)
    BY <1>1, <1>3, <1>4, <1>6, Dates
  <2> QED
    BY <1>3, <1>4, <2>1
<1>7. ASSUME NEW o \in notices, o.day = n.day PROVE o.at < n.at
  <2>1. o.at = n.day * M + Serial(o)
    BY <1>4, <1>7
  <2> HIDE DEF M
  <2> QED
    BY <1>1, <1>3, <1>4, <2>1
<1>8. ASSUME NEW o \in notices
      PROVE  /\ o.at # n.at /\ Serial(o) < Serial(n)
             /\ (o.day <= n.day => o.at < n.at)
             /\ (n.day < o.day => n.at < o.at)
  <2>1. o.at \in Nat /\ o.day \in Nat /\ Serial(o) < Serial(n) /\ n.at \in Nat /\ n.day \in Nat
    BY <1>1, <1>4
  <2>2. o.day <= n.day => o.at < n.at
    BY <2>1, <1>5, <1>7
  <2> QED
    BY <2>1, <2>2, <1>6
<1> QED
  BY <1>1, <1>8

(* What the register demands of a notice.                                   *)
LEMMA NewTerms ==
  ASSUME Register, NEW l \in Lot, NEW n, New(n, l)
  PROVE  /\ n.kind = "tender" =>
              /\ n.deadline \in Deadlines[connector]
              /\ connector \notin Republishes =>
                   \A t \in notices : t.lot = l => t.kind # "tender"
         /\ n.kind = "correct" => n.deadline # None /\ OpenBy(Of(l, today))
         /\ n.kind \notin {"tender", "correct"} =>
              /\ n.deadline = None
              /\ \E t \in notices : t.lot = l /\ t.kind = "tender" /\ t.day <= n.day
<1>1. \A t \in notices : t.lot = l => t \in Of(l, today)
  BY DEF Of, Register
<1> DEFINE T == {t \in Of(l, today) : t.kind = "tender"}
           days == {t.day : t \in T}
<1>2. CASE n.kind = "tender"
  <2>1. /\ connector \notin Republishes => days = {}
        /\ n.deadline \in Deadlines[connector]
    BY <1>2 DEF New, Publishable
  <2>2. ASSUME days = {} PROVE \A t \in T : FALSE
    <3>1. \A t \in T : t.day \in days
      OBVIOUS
    <3> QED
      BY <2>2, <3>1
  <2>3. days = {} => \A t \in notices : t.lot = l => t.kind # "tender"
    BY <1>1, <2>2
  <2> QED
    BY <1>2, <2>1, <2>3
<1>3. CASE n.kind = "correct"
  BY <1>3 DEF New, Publishable
<1>4. CASE n.kind \notin {"tender", "correct"}
  <2>1. n.deadline = None /\ \E d \in days : d <= n.day
    BY <1>4 DEF New, Publishable
  <2> QED
    BY <1>4, <2>1 DEF Of
<1> QED
  BY <1>2, <1>3, <1>4

(* A publication keeps what the register keeps.                             *)
LEMMA RegisterPublish ==
  ASSUME Register, NEW l \in Lot, NEW n, New(n, l)
  PROVE  Register'
<1>1. /\ notices' = notices \cup {n} /\ connector' = connector /\ today' = today
      /\ Cardinality(notices) \in Nat /\ Cardinality(notices)' = Cardinality(notices) + 1
      /\ n.lot = l
  BY FS_CardinalityType DEF New, Register
<1>2. Kinds' = Kinds
  BY <1>1 DEF Kinds
<1>3. \A o : Serial(o)' = Serial(o)
  BY DEF Serial
<1>4. \A o \in notices : Serial(o) \in 0 .. Cardinality(notices) - 1
  BY DEF Register
<1>5. Serial(n) = Cardinality(notices)
  BY DEF New
<1>6. /\ (connector \in Connector)' /\ (today \in 0 .. MaxDay)'
      /\ (notices \subseteq Notice)' /\ IsFiniteSet(notices)'
      /\ (Cardinality(notices) <= MaxNotices)'
  BY <1>1 DEF Register, New
<1>7. (\A o \in notices : o.day <= today /\ Serial(o) \in 0 .. Cardinality(notices) - 1)'
  <2>1. n.day <= today
    BY DEF New
  <2> QED
    BY <1>1, <1>3, <1>4, <1>5, <2>1 DEF Register
<1>8. (\A o, p \in notices : Serial(o) = Serial(p) => o = p)'
  <2>1. \A o \in notices : Serial(o) # Serial(n)
    BY <1>1, <1>4, <1>5
  <2> QED
    BY <1>1, <1>3, <2>1 DEF Register
<1>9. Terms'
  BY <1>1, <1>2, NewTerms DEF Terms, Register, New
<1>10. (\A o \in notices : o.kind # "tender" =>
          \E t \in notices : t.lot = o.lot /\ t.kind = "tender")'
  <2>1. n.kind # "tender" => \E t \in notices : t.lot = n.lot /\ t.kind = "tender"
    <3>1. CASE n.kind = "correct"
      <4>1. PICK t \in Dated(Of(l, today)) : TRUE
        BY <3>1, NewTerms DEF OpenBy
      <4>2. t \in notices /\ t.lot = l /\ t.kind \in {"tender", "correct"}
        BY DEF Dated, Of
      <4> QED
        BY <1>1, <4>2 DEF Register
    <3> QED
      BY <1>1, <3>1, NewTerms
  <2> QED
    BY <1>1, <2>1 DEF Register
<1>11. (\A o \in notices : o.kind \notin {"tender", "correct"} =>
          \E t \in notices : t.lot = o.lot /\ t.kind = "tender" /\ t.at < o.at)'
  <2>1. n.kind \notin {"tender", "correct"} =>
          \E t \in notices : t.lot = n.lot /\ t.kind = "tender" /\ t.at < n.at
    BY <1>1, NewTerms, NewTimes
  <2> QED
    BY <1>1, <2>1 DEF Register
<1>12. (connector \notin Republishes =>
         \A o, p \in notices : o.lot = p.lot /\ o.kind = "tender" /\ p.kind = "tender" => o = p)'
  BY <1>1, NewTerms DEF Register
<1>13. (\A o, c \in notices : c.kind = "correct" /\ Serial(c) < Serial(o) => c.day <= o.day)'
  <2>1. \A o \in notices : Serial(o) < Serial(n)
    BY <1>1, <1>4, <1>5
  <2>2. (\A o \in notices : ~(Serial(n) < Serial(o))) /\ ~(Serial(n) < Serial(n))
    BY <1>1, <1>4, <1>5
  <2>3. \A c \in notices : c.kind = "correct" => c.day <= n.day
    BY DEF New
  <2>4. \A o, c \in notices : c.kind = "correct" /\ Serial(c) < Serial(o) => c.day <= o.day
    BY DEF Register
  <2>5. ASSUME NEW o \in notices', NEW c \in notices', c.kind = "correct", Serial(c) < Serial(o)
        PROVE  c.day <= o.day
    <3>1. c \in notices
      BY <1>1, <2>2, <2>5
    <3> QED
      BY <1>1, <2>2, <2>3, <2>4, <2>5, <3>1
  <2>6. \A o, c \in notices' : c.kind = "correct" /\ Serial(c) < Serial(o) => c.day <= o.day
    BY <2>5
  <2> QED
    BY <1>3, <2>6, Zenon
<1> QED
  BY <1>6, <1>7, <1>8, <1>9, <1>10, <1>11, <1>12, <1>13 DEF Register

(* Nothing else publishes, and the clock does not go back.                  *)
LEMMA RegisterRest ==
  ASSUME Register, NextDay \/ Poll \/ FailedPoll \/ UNCHANGED vars
  PROVE  /\ Register' /\ connector' = connector /\ notices' = notices
         /\ today' \in Nat /\ today' >= today
<1>1. connector' = connector /\ notices' = notices
  BY DEF NextDay, Poll, FailedPoll, vars
<1>2. today \in 0 .. MaxDay /\ MaxDay \in Nat
  BY ConnectorsAssumption DEF Register
<1>3. today' \in 0 .. MaxDay /\ today' >= today
  BY <1>2 DEF NextDay, Poll, FailedPoll, vars
<1>4. Kinds' = Kinds
  BY <1>1 DEF Kinds
<1>5. \A n : Serial(n)' = Serial(n)
  BY DEF Serial
<1>6. \A n \in notices : n.day \in Nat /\ n.day <= today
  BY DEF Register, Notice
<1>7. \A n \in notices : n.day <= today'
  BY <1>2, <1>3, <1>6
<1>8. Terms'
  BY <1>1, <1>4 DEF Terms, Register
<1> QED
  BY <1>1, <1>2, <1>3, <1>5, <1>7, <1>8 DEF Register
-----------------------------------------------------------------------------
(* The notices of a lot.                                                    *)
Mine(l) == {n \in notices : n.lot = l}

Tenders(ns) == {n \in ns : n.kind = "tender"}

(* Nothing is dated after the present.                                      *)
LEMMA OfToday ==
  ASSUME Register, NEW l
  PROVE  Of(l, today) = Mine(l) /\ Mine(l) \in SUBSET notices
BY DEF Register, Of, Mine

(* The newest of some notices has the last day and is unique.               *)
LEMMA NewestOf ==
  ASSUME Register, NEW ns \in SUBSET notices, ns # {}
  PROVE  /\ Newest(ns) \in ns
         /\ \A o \in ns : o.at <= Newest(ns).at /\ o.day <= Newest(ns).day
         /\ \A n \in ns : (\A o \in ns : o.at <= n.at) => n = Newest(ns)
<1>1. ns \in SUBSET Notice /\ IsFiniteSet(ns)
  BY FS_Subset DEF Register
<1>2. Newest(ns) \in ns /\ \A o \in ns : o.at <= Newest(ns).at
  BY <1>1, NewestIs
<1>3. \A o \in ns : o.day <= Newest(ns).day
  BY <1>2, Times
<1>4. ASSUME NEW n \in ns, \A o \in ns : o.at <= n.at PROVE n = Newest(ns)
  <2>1. n.at \in Nat /\ Newest(ns).at \in Nat
    BY <1>2, Times
  <2>2. n.at = Newest(ns).at
    BY <1>2, <1>4, <2>1
  <2> QED
    BY <1>2, <2>2, Times
<1> QED
  BY <1>2, <1>3, <1>4

(* The oldest has the first day.                                            *)
LEMMA OldestOf ==
  ASSUME Register, NEW ns \in SUBSET notices, ns # {}
  PROVE  /\ Oldest(ns) \in ns
         /\ \A o \in ns : Oldest(ns).at <= o.at /\ Oldest(ns).day <= o.day
<1>1. ns \in SUBSET Notice
  BY DEF Register
<1>2. Oldest(ns) \in ns /\ \A o \in ns : Oldest(ns).at <= o.at
  BY <1>1, OldestIs
<1> QED
  BY <1>2, Times

(* The deadline of some notices is that of the newest, if it has one.       *)
LEMMA DeadlineOfNewest ==
  ASSUME Register, NEW ns \in SUBSET notices, ns # {},
         Newest(ns).kind \in {"tender", "correct"}
  PROVE  Dated(ns) # {} /\ DeadlineOf(ns) = Newest(ns).deadline
<1>1. Newest(ns) \in Dated(ns) /\ Dated(ns) \in SUBSET notices
  BY NewestOf DEF Dated
<1>2. \A o \in Dated(ns) : o.at <= Newest(ns).at
  BY NewestOf DEF Dated
<1>3. Newest(ns) = Newest(Dated(ns))
  BY <1>1, <1>2, NewestOf
<1> QED
  BY <1>1, <1>3 DEF DeadlineOf

(* That deadline is one, of a tender or a correction.                       *)
LEMMA DeadlineOfType ==
  ASSUME Register, NEW ns \in SUBSET notices, Dated(ns) # {}
  PROVE  /\ Newest(Dated(ns)) \in ns /\ Newest(Dated(ns)).kind \in {"tender", "correct"}
         /\ DeadlineOf(ns) \in Int \cup {None}
<1>1. Dated(ns) \in SUBSET notices
  BY DEF Dated
<1>2. Newest(Dated(ns)) \in Dated(ns)
  BY <1>1, NewestOf
<1>3. Newest(Dated(ns)).deadline \in Int \cup {None}
  BY <1>1, <1>2, Times
<1> QED
  BY <1>1, <1>2, <1>3 DEF Dated, DeadlineOf

(* A lot's notices have a tender among them.                                *)
LEMMA HasTender ==
  ASSUME Register, NEW l \in Lot, Mine(l) # {}
  PROVE  /\ Tenders(Mine(l)) # {} /\ Dated(Mine(l)) # {}
BY DEF Register, Mine, Tenders, Dated

-----------------------------------------------------------------------------
(* What is shown.                                                           *)
Screen ==
  /\ connector \notin Plain => \A l \in Lot : listed[l] \in {0, Undated}
  /\ \A l \in Lot : Shown(l) => l \in shown
  /\ cursor = None => \A l \in Lot : listed[l] = 0

(* What a poll does, and what is left to show of it.                        *)
LEMMA PollParts ==
  ASSUME Poll, NEW call, call = Call
  PROVE  /\ cursor' = call.cursor
         /\ first' = IF cursor = None \/ Gap THEN call.first ELSE first
         /\ listed' = [l \in Lot |-> Listed(call, l)]
         /\ shown' = shown \cup {l \in Lot : listed'[l] > today}
         /\ polled' = [done |-> call.done, withdrawn |-> Withdrawn(call)]
         /\ ~Raises /\ connector' = connector /\ today' = today /\ notices' = notices
BY DEF Poll

(* Cursor depends on the connector alone.                                   *)
LEMMA SameCursor ==
  ASSUME connector' = connector
  PROVE  Cursor' = Cursor
BY DEF Cursor

(* A poll keeps the types and Screen if what the call returns has its own.  *)
LEMMA PollType ==
  ASSUME Register, TypeOK, Screen, Poll, NEW call, call = Call,
         call.cursor \in Cursor \cup {None}, call.first \in Int, call.done \in BOOLEAN,
         call.cursor = None => \A l \in Lot : listed'[l] = 0,
         connector \in Plain => \A l \in Lot : call.until[l] \in Int \cup {None}
  PROVE  TypeOK' /\ Screen'
<1> USE PollParts
<1>1. (connector \in Connector)' /\ (today \in 0 .. MaxDay)' /\ (notices \subseteq Notice)'
  BY DEF TypeOK
<1>2. (cursor = None \/ cursor \in Cursor)'
  BY SameCursor
<1>3. (first \in Int \cup {None})'
  BY DEF TypeOK
<1>4. \A l \in Lot : /\ Listed(call, l) \in Int
                     /\ connector \notin Plain => Listed(call, l) \in {0, Undated}
  BY DEF TypeOK, Listed, Screen, Undated
<1>5. /\ listed' \in [Lot -> Int]
      /\ connector \notin Plain => \A l \in Lot : listed'[l] \in {0, Undated}
  BY <1>4
<1>6. shown' \subseteq Lot
  BY DEF TypeOK
<1>7. polled' \in [done : BOOLEAN, withdrawn : SUBSET Lot]
  <2>1. Withdrawn(call) \in SUBSET Lot
    BY DEF Withdrawn
  <2> QED
    BY <2>1
<1>8. TypeOK'
  BY <1>1, <1>2, <1>3, <1>5, <1>6, <1>7 DEF TypeOK
<1>9. \A l \in Lot : listed'[l] > today' => l \in shown'
  OBVIOUS
<1>10. Screen'
  BY <1>5, <1>9 DEF Screen, Shown
<1> QED
  BY <1>8, <1>10

(* Complete after a poll: every lot the register has open is listed.        *)
LEMMA CompleteAfter ==
  ASSUME Poll, NEW call, call = Call,
         \A l \in Lot :
           /\ call.done
           /\ \A ns \in Views(l) : OpenBy(ns) /\ Newest(Tenders(ns)).day >= first'
           /\ ~Superseded(l) /\ ~Forgotten(l)'
           => listed'[l] > today
  PROVE  Complete'
<1> USE PollParts
<1>1. \A ns : OpenBy(ns)' <=> OpenBy(ns)
  BY DEF OpenBy
<1>2. \A l : /\ Views(l)' = Views(l)
             /\ Superseded(l)' <=> Superseded(l)
             /\ Shown(l)' <=> listed'[l] > today
  BY DEF Views, Of, Superseded, Shown
<1>3. Caught' => call.done
  BY DEF Caught
<1> QED
  BY <1>1, <1>2, <1>3 DEF Complete, Tenders

(* Sound after a poll: every lot listed may remain, and only lots once      *)
(* shown are withdrawn.                                                     *)
LEMMA SoundAfter ==
  ASSUME Poll, NEW call, call = Call,
         \A l \in Lot : call.done /\ listed'[l] > today => Remains(l),
         connector \notin {"switzerland", "uk", "ecuador", "us"} =>
           Withdrawn(call) \subseteq shown
  PROVE  Sound'
<1> USE PollParts
<1>1. \A ns : OpenBy(ns)' <=> OpenBy(ns)
  BY DEF OpenBy
<1>2. \A l, d : Of(l, d)' = Of(l, d)
  BY DEF Of
<1>3. \A l : Views(l)' = Views(l)
  BY <1>2 DEF Views
<1>4. \A l : Remains(l)' <=> Remains(l)
  BY <1>1, <1>2, <1>3 DEF Remains
<1>5. \A l : Shown(l)' <=> listed'[l] > today
  BY DEF Shown
<1>6. Caught' => call.done
  BY DEF Caught
<1>7. polled'.withdrawn = Withdrawn(call)
  OBVIOUS
<1> QED
  BY <1>4, <1>5, <1>6, <1>7 DEF Sound

(* In most connectors a poll goes by all the notices of a lot.              *)
LEMMA ViewsAre ==
  ASSUME Register, NEW l, connector \notin {"germany", "latvia", "us", "canada"}
  PROVE  Views(l) = {Mine(l)}
BY OfToday DEF Views

(* In most connectors, what may remain is what is open.                     *)
LEMMA RemainsIs ==
  ASSUME Register, NEW l,
         connector \notin {"germany", "latvia", "us", "canada", "uk", "colombia", "paraguay",
                           "southafrica", "uruguay"}
  PROVE  Remains(l) <=> OpenBy(Mine(l))
<1>1. Views(l) = {Mine(l)}
  BY ViewsAre
<1>2. Remains(l) <=> \E ns \in Views(l) : OpenBy(ns)
  BY DEF Remains
<1> QED
  BY <1>1, <1>2

(* The constants.                                                           *)
LEMMA NoneIs == None \notin Int /\ None \notin Lot /\ Undated \in Nat \ {0} /\ Undated # None
BY ConnectorsAssumption DEF Undated

(* The limits shared by connectors.                                         *)
LEMMA UnitsAre ==
  /\ Overlap \in Nat \ {0} /\ Lookback \in Nat \ {0} /\ Budget \in Nat
  /\ Budget > 2 * Overlap
BY RegisterAssumption

(* The clock stays below Undated.                                           *)
LEMMA TodayIs ==
  ASSUME Register
  PROVE  today \in Nat /\ today < Undated
BY ConnectorsAssumption DEF Register, Undated

(* What a poll of a connector with lifecycles shows.                        *)
LEMMA ShowsIs ==
  ASSUME Register, Screen, Poll, NEW call, call = Call, connector \notin Plain, NEW l \in Lot
  PROVE  /\ call.seen[l] = "open" => listed'[l] = Undated
         /\ call.seen[l] = "closed" => listed'[l] = 0
         /\ call.seen[l] \notin {"open", "closed"} => listed'[l] = listed[l]
         /\ listed'[l] \in {0, Undated} /\ listed[l] \in {0, Undated}
         /\ listed'[l] > today <=> listed'[l] = Undated
         /\ listed[l] = Undated => l \in shown
         /\ cursor = None => listed[l] = 0
<1>1. /\ today \in Nat /\ today < Undated /\ Undated \in Nat \ {0}
  BY TodayIs, NoneIs
<1>2. listed[l] \in {0, Undated} /\ (listed[l] > today => l \in shown)
  BY DEF Screen, Shown
<1>3. listed'[l] = CASE call.seen[l] = "open" -> Undated
                       [] call.seen[l] = "closed" -> 0
                       [] OTHER -> listed[l]
  BY PollParts DEF Listed
<1>4. cursor = None => listed[l] = 0
  BY DEF Screen
<1> QED
  BY <1>1, <1>2, <1>3, <1>4

(* Tombstones of lots once shown.                                           *)
LEMMA WithdrawnIs ==
  ASSUME NEW call, \A l \in Lot : call.seen[l] = "closed" => l \in shown
  PROVE  Withdrawn(call) \subseteq shown
BY DEF Withdrawn

-----------------------------------------------------------------------------
(* Where a notice is dated when it is published, the order of publication   *)
(* is that of time, and a correction follows an open lot.                   *)
Late == {"germany", "korea", "poland", "netherlands", "switzerland", "uk"}

Before(n) == {o \in notices : o.lot = n.lot /\ o.at < n.at}

OpenOn(ns, day) ==
  /\ ns # {} /\ Newest(ns).kind \in {"tender", "correct", "reopen"}
  /\ Dated(ns) # {} /\ Future(DeadlineOf(ns), day)

Orderly ==
  connector \notin Late =>
    /\ \A n, o \in notices : Serial(n) < Serial(o) => n.at < o.at
    /\ \A n \in notices : n.kind = "correct" => OpenOn(Before(n), n.day)
    /\ \A t, n \in notices : t.lot = n.lot /\ t.kind = "tender" /\ n.kind # "tender"
         /\ connector \notin Republishes => t.at < n.at

(* A publication keeps Orderly.                                             *)
LEMMA OrderlyPublish ==
  ASSUME Register, Orderly, NEW l \in Lot, NEW n, New(n, l)
  PROVE  Orderly'
<1> SUFFICES ASSUME connector \notin Late PROVE Orderly'
  BY DEF Orderly, New
<1>1. /\ notices' = notices \cup {n} /\ connector' = connector /\ today' = today /\ n.lot = l
      /\ n.day = today /\ n \notin notices
  BY DEF New, Datable, Late
<1>2. /\ \A o \in notices : o.day <= today /\ o.at \in Nat /\ o.day \in Nat
      /\ n.at \in Nat /\ n.day \in Nat
  BY Times, NewTimes DEF Register, New
<1>3. \A o \in notices : o.at < n.at /\ Serial(o) < Serial(n)
  BY <1>1, <1>2, NewTimes
<1>4. \A o : Serial(o)' = Serial(o)
  BY DEF Serial
<1>5. \A o \in notices : Serial(o) \in Int /\ ~(Serial(n) < Serial(o))
  <2>1. /\ Cardinality(notices) \in Nat /\ Serial(n) = Cardinality(notices)
        /\ \A o \in notices : Serial(o) \in 0 .. Cardinality(notices) - 1
    BY FS_CardinalityType DEF New, Register
  <2> QED
    BY <2>1
<1>6. ~(Serial(n) < Serial(n))
  BY FS_CardinalityType DEF New, Register
<1>7. ASSUME NEW o \in notices', NEW m \in notices', Serial(m) < Serial(o) PROVE m.at < o.at
  <2>1. m \in notices
    BY <1>1, <1>5, <1>6, <1>7
  <2> QED
    BY <1>1, <1>3, <1>7, <2>1 DEF Orderly
<1>8. /\ \A o \in notices : Before(o)' = Before(o)
      /\ Before(n)' = Mine(l)
  BY <1>1, <1>2, <1>3 DEF Before, Mine
<1>9. \A o \in notices' : o.kind = "correct" => OpenOn(Before(o)', o.day)
  <2>1. n.kind = "correct" => OpenOn(Mine(l), n.day)
    BY <1>1, NewTerms, OfToday DEF OpenBy, OpenOn
  <2> QED
    BY <1>1, <1>8, <2>1 DEF Orderly
<1>10. ASSUME NEW t \in notices', NEW o \in notices', t.lot = o.lot, t.kind = "tender",
              o.kind # "tender", connector \notin Republishes
       PROVE  t.at < o.at
  <2>1. CASE t = n
    <3>1. \A k \in notices : k.lot = l => k.kind # "tender"
      BY <1>10, <2>1, NewTerms
    <3>2. o \in notices
      BY <1>1, <1>10, <2>1
    <3> QED
      BY <1>1, <1>10, <2>1, <3>1, <3>2 DEF Register
  <2>2. CASE t # n
    BY <1>1, <1>3, <1>10, <2>2 DEF Orderly
  <2> QED
    BY <2>1, <2>2
<1>11. \A ns, d : OpenOn(ns, d)' <=> OpenOn(ns, d)
  BY DEF OpenOn
<1> QED
  BY <1>1, <1>4, <1>7, <1>9, <1>10, <1>11 DEF Orderly

(* So does everything else.                                                 *)
LEMMA OrderlyRest ==
  /\ Init => Orderly
  /\ connector' = connector /\ notices' = notices /\ Orderly => Orderly'
<1>1. Init => Orderly
  BY DEF Init, Orderly
<1>2. ASSUME connector' = connector, notices' = notices, Orderly PROVE Orderly'
  <2>1. /\ \A n : Serial(n)' = Serial(n) /\ Before(n)' = Before(n)
        /\ \A ns, d : OpenOn(ns, d)' <=> OpenOn(ns, d)
    BY <1>2 DEF Serial, Before, OpenOn
  <2> QED
    BY <1>2, <2>1 DEF Orderly
<1> QED
  BY <1>1, <1>2

(* Some notices have an oldest one of a kind.                               *)
LEMMA ClosedForGood ==
  ASSUME Register, Orderly, NEW l \in Lot, connector \notin Late,
         connector \notin Republishes, "reopen" \notin Kinds,
         NEW x \in Mine(l), x.kind \notin {"tender", "correct"},
         NEW y \in Mine(l), y.at > x.at
  PROVE  y.kind \notin {"tender", "correct"}
<1>1. \A n \in notices : n.at \in Nat /\ n.kind # "reopen"
  BY Times DEF Register, Terms
<1>2. y.kind # "tender"
  BY <1>1 DEF Orderly, Mine
<1>3. ASSUME y.kind = "correct" PROVE FALSE
  <2> DEFINE C == {n \in Mine(l) : n.kind = "correct" /\ n.at > x.at}
  <2>1. C \in SUBSET notices /\ C # {}
    BY <1>3 DEF Mine
  <2>2. Oldest(C) \in C /\ \A n \in C : Oldest(C).at <= n.at
    BY <2>1, OldestOf
  <2>3. PICK c \in C : \A n \in C : c.at <= n.at
    BY <2>2
  <2>4. OpenOn(Before(c), c.day) /\ Before(c) \in SUBSET notices /\ x \in Before(c)
    BY <2>1, <2>3 DEF Orderly, Before, Mine
  <2> DEFINE z == Newest(Before(c))
  <2>5. z \in Before(c) /\ x.at <= z.at
    BY <2>4, NewestOf
  <2>6. z \in Mine(l) /\ z.kind \in {"tender", "correct"} /\ z \in notices /\ c \in notices
    BY <1>1, <2>1, <2>3, <2>4, <2>5 DEF OpenOn, Before, Mine
  <2>7. z # x /\ z.at # x.at
    BY <2>5, <2>6, Times DEF Mine
  <2>8. z.at > x.at /\ z.at < c.at
    BY <1>1, <2>5, <2>6, <2>7 DEF Before, Mine
  <2>9. z.kind # "tender"
    BY <1>1, <2>6, <2>8 DEF Orderly, Mine
  <2>10. z \in C
    BY <2>6, <2>8, <2>9
  <2> QED
    BY <1>1, <2>3, <2>6, <2>8, <2>10
<1> QED
  BY <1>2, <1>3

-----------------------------------------------------------------------------
(* A notice more, for the lot it is about and for the others.               *)
LEMMA NewestUnique ==
  ASSUME NEW ns, NEW m \in ns, m.at \in Nat,
         \A o \in ns : o # m => o.at \in Nat /\ o.at < m.at
  PROVE  Newest(ns) = m
<1>1. \A o \in ns : o.at <= m.at
  OBVIOUS
<1>2. \A x \in ns : (\A o \in ns : o.at <= x.at) => x = m
  OBVIOUS
<1> QED
  BY <1>1, <1>2 DEF Newest

(* The newest with one notice more.                                         *)
LEMMA NewestWith ==
  ASSUME Register, NEW l \in Lot, NEW n, New(n, l), NEW ns \in SUBSET notices
  PROVE  /\ ns = {} => Newest(ns \cup {n}) = n
         /\ ns # {} /\ n.at > Newest(ns).at => Newest(ns \cup {n}) = n
         /\ ns # {} /\ ~(n.at > Newest(ns).at) => Newest(ns \cup {n}) = Newest(ns)
<1>1. n.at \in Nat /\ \A o \in notices : o.at \in Nat /\ o.at # n.at
  BY NewTimes, Times
<1>2. CASE ns = {}
  <2>1. \A o \in ns \cup {n} : o = n
    BY <1>2
  <2>2. Newest(ns \cup {n}) = n
    BY <1>1, <2>1, NewestUnique
  <2> QED
    BY <1>2, <2>2
<1>3. CASE ns # {} /\ n.at > Newest(ns).at
  <2>1. \A o \in ns : o.at <= Newest(ns).at
    BY <1>3, NewestOf
  <2>2. Newest(ns) \in notices
    BY <1>3, NewestOf
  <2>3. \A o \in ns \cup {n} : o # n => o.at \in Nat /\ o.at < n.at
    BY <1>1, <1>3, <2>1, <2>2
  <2> QED
    BY <1>1, <1>3, <2>3, NewestUnique
<1>4. CASE ns # {} /\ ~(n.at > Newest(ns).at)
  <2>1. /\ Newest(ns) \in ns /\ \A o \in ns : o.at <= Newest(ns).at
    BY <1>4, NewestOf
  <2>2. \A o \in ns : o # Newest(ns) => o.at # Newest(ns).at
    BY <2>1, Times
  <2>3. \A o \in ns \cup {n} : o # Newest(ns) => o.at \in Nat /\ o.at < Newest(ns).at
    BY <1>1, <1>4, <2>1, <2>2
  <2> QED
    BY <1>1, <1>4, <2>1, <2>3, NewestUnique
<1> QED
  BY <1>2, <1>3, <1>4

(* What a publication leaves of each lot and of the connector.              *)
LEMMA NewMine ==
  ASSUME Register, NEW l \in Lot, NEW n, New(n, l)
  PROVE  /\ n.lot = l /\ n.day \in Nat /\ n.at \in Nat /\ n.day <= today /\ n.day >= today - 1
         /\ n.deadline \in Int \cup {None} /\ n.kind \in Kinds /\ n \notin notices
         /\ connector \notin Late => n.day = today
         /\ notices' = notices \cup {n}
         /\ Mine(l)' = Mine(l) \cup {n}
         /\ \A k \in Lot : k # l => Mine(k)' = Mine(k)
         /\ connector' = connector /\ today' = today /\ cursor' = cursor /\ first' = first
         /\ listed' = listed /\ shown' = shown
<1>1. /\ notices' = notices \cup {n} /\ n.lot = l /\ n.day \in Datable
      /\ connector' = connector /\ today' = today /\ cursor' = cursor /\ first' = first
      /\ listed' = listed /\ shown' = shown
  BY DEF New
<1>2. n.day >= today - 1 /\ (connector \notin Late => n.day = today)
  BY <1>1, TodayIs DEF Datable, Late
<1>3. /\ Mine(l)' = Mine(l) \cup {n}
      /\ \A k \in Lot : k # l => Mine(k)' = Mine(k)
  BY <1>1 DEF Mine
<1> QED
  BY <1>1, <1>2, <1>3, NewTimes DEF New

(* What the passing of a day leaves.                                        *)
LEMMA NextDayIs ==
  ASSUME NextDay
  PROVE  /\ today' = today + 1 /\ connector' = connector /\ notices' = notices
         /\ cursor' = cursor /\ first' = first /\ listed' = listed /\ shown' = shown
         /\ \A l : Mine(l)' = Mine(l)
BY DEF NextDay, Mine

(* Time only closes lots.                                                   *)
LEMMA OpenEarlier ==
  ASSUME Register, NextDay, connector # "switzerland", NEW l \in Lot
  PROVE  OpenBy(Mine(l))' => OpenBy(Mine(l))
<1> SUFFICES ASSUME OpenBy(Mine(l))' PROVE OpenBy(Mine(l))
  OBVIOUS
<1>1. /\ Mine(l) # {} /\ Newest(Mine(l)).kind \in {"tender", "correct", "reopen"}
      /\ Dated(Mine(l)) # {} /\ Future(DeadlineOf(Mine(l)), today + 1)
  BY NextDayIs DEF OpenBy
<1>2. DeadlineOf(Mine(l)) \in Int \cup {None}
  BY <1>1, OfToday, DeadlineOfType
<1>3. Future(DeadlineOf(Mine(l)), today)
  BY <1>1, <1>2, TodayIs DEF Future
<1> QED
  BY <1>1, <1>3 DEF OpenBy

(* The newest tender of a lot.                                              *)
LEMMA TenderOf ==
  ASSUME Register, NEW l \in Lot, Mine(l) # {}
  PROVE  /\ Newest(Tenders(Mine(l))) \in Mine(l) /\ Newest(Tenders(Mine(l))).kind = "tender"
         /\ Newest(Tenders(Mine(l))).day <= Newest(Mine(l)).day
         /\ Newest(Tenders(Mine(l))).day \in Nat
<1>1. Tenders(Mine(l)) # {} /\ Tenders(Mine(l)) \in SUBSET notices /\ Mine(l) \in SUBSET notices
  BY HasTender, OfToday DEF Tenders
<1>2. Newest(Tenders(Mine(l))) \in Tenders(Mine(l))
  BY <1>1, NewestOf
<1>3. Newest(Tenders(Mine(l))) \in Mine(l) /\ Newest(Tenders(Mine(l))).kind = "tender"
  BY <1>2 DEF Tenders
<1> QED
  BY <1>1, <1>3, NewestOf, Times

(* Whether a record is actionable.                                          *)
LEMMA RecordOpen ==
  ASSUME Register, connector \notin {"switzerland"}, NEW l \in Lot, Mine(l) # {},
         Kinds \subseteq {"tender", "close", "reopen", "correct"}
  PROVE  OpenBy(Mine(l)) <=> /\ Newest(Mine(l)).kind # "close" /\ Dated(Mine(l)) # {}
                             /\ Future(DeadlineOf(Mine(l)), today)
<1>1. Newest(Mine(l)).kind \in {"tender", "close", "reopen", "correct"}
  BY OfToday, NewestOf DEF Register, Terms
<1> QED
  BY <1>1 DEF OpenBy

(* What a poll of a connector without lifecycles shows.                     *)
LEMMA RowsAre ==
  ASSUME Register, TypeOK, Screen, Poll, NEW call, call = Call, connector \in Plain, NEW l \in Lot
  PROVE  /\ listed'[l] = IF call.until[l] = None THEN listed[l] ELSE call.until[l]
         /\ cursor = None => listed[l] = 0
         /\ Withdrawn(call) \subseteq shown
         /\ listed[l] \in Int
BY PollParts DEF Listed, Screen, Withdrawn, TypeOK

(* Where every notice that is not a closing is dated, so is a lot.          *)
LEMMA DeadlineDated ==
  ASSUME Register, connector \in {"paraguay", "southafrica", "latvia", "colombia", "uruguay"},
         NEW l \in Lot, Mine(l) # {}
  PROVE  DeadlineOf(Mine(l)) \in Int \cup {None} /\ Dated(Mine(l)) # {}
BY HasTender, OfToday, DeadlineOfType

-----------------------------------------------------------------------------
(* Lithuania: a lot is shown when its row was last seen open.               *)
LithuaniaKept ==
  cursor # None => \A l \in Lot : listed[l] = Undated <=> cursor.tracked[l] # None

(* The row of the export is actionable when the lot is open.                *)
LEMMA LithuaniaRow ==
  ASSUME connector = "lithuania", Register, NEW l \in Lot,
         NEW row, row = Lithuania!Snapshot(notices)[l]
  PROVE  /\ Lithuania!Actionable(row, today) <=> OpenBy(Mine(l))
         /\ Lithuania!Actionable(row, today) => row.deadline \in Int
<1>1. /\ Lithuania!Newest(Mine(l)) = Newest(Mine(l)) /\ Kinds = {"tender", "close", "leave"}
      /\ \A d : Lithuania!Future(d, today) <=> Future(d, today)
  BY DEF Lithuania!Newest, Newest, Kinds, Lithuania!Kinds, Lithuania!Future, Future
<1>2. row = IF Mine(l) = {} \/ Newest(Mine(l)).kind = "leave" THEN None
            ELSE [accepting |-> Newest(Mine(l)).kind = "tender",
                  deadline |-> Newest(Mine(l)).deadline]
  BY <1>1 DEF Lithuania!Snapshot, Mine
<1>3. CASE Mine(l) = {}
  BY <1>2, <1>3 DEF Lithuania!Actionable, OpenBy
<1>4. CASE Mine(l) # {}
  <2>1. /\ Newest(Mine(l)) \in notices /\ Newest(Mine(l)).kind \in {"tender", "close", "leave"}
        /\ Newest(Mine(l)).deadline \in Int \cup {None}
    BY <1>1, <1>4, NewestOf, OfToday, Times DEF Register, Terms
  <2>2. Newest(Mine(l)).kind = "tender" =>
          Dated(Mine(l)) # {} /\ DeadlineOf(Mine(l)) = Newest(Mine(l)).deadline
    BY <1>4, DeadlineOfNewest, OfToday
  <2>3. OpenBy(Mine(l)) <=> /\ Newest(Mine(l)).kind = "tender"
                            /\ Future(Newest(Mine(l)).deadline, today)
    BY <1>4, <2>1, <2>2 DEF OpenBy
  <2>4. [accepting |-> Newest(Mine(l)).kind = "tender",
         deadline |-> Newest(Mine(l)).deadline] # None
    <3>1. (Newest(Mine(l)).kind = "tender") \in BOOLEAN
      OBVIOUS
    <3>2. [accepting |-> Newest(Mine(l)).kind = "tender",
           deadline |-> Newest(Mine(l)).deadline] \in Lithuania!Row
      BY <2>1, <3>1 DEF Lithuania!Row
    <3> QED
      BY <3>2, NoneAssumption
  <2> QED
    <3>1. CASE Newest(Mine(l)).kind = "leave"
      BY <1>2, <2>3, <3>1 DEF Lithuania!Actionable
    <3>2. CASE Newest(Mine(l)).kind # "leave"
      <4>0. row = [accepting |-> Newest(Mine(l)).kind = "tender",
                   deadline |-> Newest(Mine(l)).deadline] /\ row # None
        BY <1>2, <1>4, <2>4, <3>2
      <4>1. /\ row.accepting <=> Newest(Mine(l)).kind = "tender"
            /\ row.deadline = Newest(Mine(l)).deadline /\ row # None
        <5>1. /\ row.accepting = (Newest(Mine(l)).kind = "tender")
              /\ row.deadline = Newest(Mine(l)).deadline
          BY <4>0
        <5> QED
          BY <4>0, <5>1, Zenon
      <4>2. Lithuania!Actionable(row, today) <=> OpenBy(Mine(l))
        <5>1. Lithuania!Actionable(row, today) <=> row.accepting /\ Future(row.deadline, today)
          BY <1>1, <4>1, Zenon DEF Lithuania!Actionable
        <5>2. Future(row.deadline, today) <=> Future(Newest(Mine(l)).deadline, today)
          BY <4>1
        <5> QED
          BY <2>3, <4>1, <5>1, <5>2
      <4>3. Lithuania!Actionable(row, today) => row.deadline # None
        BY Zenon DEF Lithuania!Actionable, Lithuania!Future
      <4> QED
        BY <2>1, <4>1, <4>2, <4>3
    <3> QED
      BY <3>1, <3>2
<1> QED
  BY <1>3, <1>4

(* Lithuania: a call compares the whole export with the state tracked       *)
(* (fetch_incremental, lithuania_vpt.py:357-431).                           *)
LEMMA LithuaniaPoll ==
  ASSUME connector = "lithuania", Register, TypeOK, Screen, LithuaniaKept, Poll
  PROVE  (TypeOK /\ Screen /\ LithuaniaKept /\ Complete /\ Sound)'
<1> DEFINE rows == Lithuania!Snapshot(notices)
           previous == IF cursor = None THEN Absent ELSE cursor.tracked
           Open(l) == Lithuania!Actionable(rows[l], today)
<1>1. PICK call : call = Call
  OBVIOUS
<1>2. /\ Call = Lithuania!Fetch(cursor, notices, today) /\ Cursor = Lithuania!Cursor
      /\ connector \notin Plain /\ ~Gap
  BY DEF Call, Cursor, Plain, Gap
<1>3. /\ call.cursor =
           [through |-> today,
            tracked |-> [l \in Lot |-> IF Open(l) THEN rows[l].deadline ELSE None]]
      /\ call.seen = [l \in Lot |->
            IF Open(l) THEN IF previous[l] = rows[l].deadline THEN "none" ELSE "open"
            ELSE IF previous[l] # None THEN "closed" ELSE "none"]
      /\ call.done = TRUE /\ call.first = 0
  BY <1>1, <1>2 DEF Lithuania!Fetch, Lithuania!Result, Lithuania!Tracked, Lithuania!Observed,
     Lithuania!Observation, Lithuania!Absent, Absent
<1>4. \A l \in Lot : /\ Open(l) <=> OpenBy(Mine(l))
                     /\ Open(l) => rows[l].deadline \in Int
  BY LithuaniaRow
<1> HIDE DEF Open, rows
<1>5. call.cursor \in Lithuania!Cursor /\ call.cursor # None
  BY <1>3, <1>4, NoneAssumption DEF Lithuania!Cursor, TypeOK
<1>6. ASSUME NEW l \in Lot
      PROVE  previous[l] # None <=> listed[l] = Undated
  <2>1. CASE cursor = None
    BY <2>1 DEF Screen, Absent, Undated
  <2>2. CASE cursor # None
    BY <2>2 DEF LithuaniaKept
  <2> QED
    BY <2>1, <2>2
<1> HIDE DEF previous
<1>7. ASSUME NEW l \in Lot
      PROVE  /\ listed'[l] = IF Open(l) THEN Undated ELSE 0
             /\ call.seen[l] = "closed" => l \in shown
  <2>1. listed[l] \in {0, Undated} /\ (listed[l] = Undated => l \in shown) /\ Undated # 0
    <3>1. today < Undated
      BY ConnectorsAssumption DEF Register, Undated
    <3> QED
      BY <1>2, <3>1 DEF Screen, Shown, Undated
  <2>2. call.seen[l] = IF Open(l) THEN IF previous[l] = rows[l].deadline THEN "none" ELSE "open"
                       ELSE IF previous[l] # None THEN "closed" ELSE "none"
    BY <1>3
  <2>3. listed'[l] = CASE call.seen[l] = "open" -> Undated
                       [] call.seen[l] = "closed" -> 0
                       [] OTHER -> listed[l]
    BY <1>1, <1>2, PollParts DEF Listed
  <2>4. Open(l) => rows[l].deadline # None
    BY <1>4, ConnectorsAssumption
  <2>5. CASE Open(l) /\ previous[l] = rows[l].deadline
    BY <1>6, <2>1, <2>2, <2>3, <2>4, <2>5
  <2>6. CASE Open(l) /\ previous[l] # rows[l].deadline
    BY <2>2, <2>3, <2>6
  <2>7. CASE ~Open(l) /\ previous[l] # None
    BY <1>6, <2>1, <2>2, <2>3, <2>7
  <2>8. CASE ~Open(l) /\ previous[l] = None
    BY <1>6, <2>1, <2>2, <2>3, <2>8
  <2> QED
    BY <2>5, <2>6, <2>7, <2>8
<1>8. TypeOK' /\ Screen'
  <2>1. call.done \in BOOLEAN /\ call.first \in Int
    <3>1. call.done = TRUE /\ call.first \in Int
      BY <1>3
    <3> QED
      BY <3>1, Zenon
  <2> QED
    BY <1>1, <1>2, <1>5, <2>1, PollType
<1>9. LithuaniaKept'
  <2>1. \A l \in Lot : cursor'.tracked[l] = IF Open(l) THEN rows[l].deadline ELSE None
    BY <1>1, <1>3, PollParts
  <2> QED
    BY <1>4, <1>7, <2>1, ConnectorsAssumption DEF LithuaniaKept, Undated
<1>10. today < Undated /\ today \in Nat /\ Undated \in Nat
  BY TodayIs, NoneIs
<1>11. Complete'
  <2>1. ASSUME NEW l \in Lot, \A ns \in Views(l) : OpenBy(ns) PROVE listed'[l] > today
    <3>1. OpenBy(Mine(l))
      BY <2>1, ViewsAre
    <3> QED
      BY <1>4, <1>7, <1>10, <3>1
  <2> QED
    BY <1>1, <2>1, CompleteAfter
<1>12. Sound'
  <2>1. ASSUME NEW l \in Lot, listed'[l] > today PROVE Remains(l)
    <3>1. OpenBy(Mine(l))
      BY <1>4, <1>7, <1>10, <2>1
    <3> QED
      BY <3>1, RemainsIs
  <2>2. Withdrawn(call) \subseteq shown
    BY <1>7 DEF Withdrawn
  <2> QED
    BY <1>1, <2>1, <2>2, SoundAfter
<1> QED
  BY <1>8, <1>9, <1>11, <1>12

-----------------------------------------------------------------------------
(* Canada: on the day its Open file was read, a lot is tracked when it was  *)
(* open as the day began, or when its tender of the day is.                 *)
Morning(l) == Of(l, today - 1)

NewView(l) == Morning(l) \cup Tenders(Mine(l))

CanadaKept ==
  cursor # None =>
    /\ cursor.version <= today
    /\ \A l \in Lot : listed[l] = Undated <=> cursor.tracked[l] # None
    /\ cursor.version = today =>
         \A l \in Lot :
           /\ OpenBy(Morning(l)) => cursor.tracked[l] # None
           /\ cursor.tracked[l] # None =>
                /\ OpenBy(Morning(l)) \/ OpenBy(NewView(l))
                /\ Future(cursor.tracked[l], today)

(* What Canada's register publishes.                                        *)
LEMMA CanadaRegister ==
  ASSUME connector = "canada", Register
  PROVE  /\ Kinds = {"tender", "correct", "close"} /\ "reopen" \notin Kinds
         /\ \A n \in notices : n.kind \in Kinds /\ (n.kind # "close" => n.deadline \in Int)
         /\ connector \notin Late \cup Republishes /\ connector \notin Plain
         /\ \A d, t : Canada!Future(d, t) <=> Future(d, t)
         /\ \A ns : Canada!Newest(ns) = Newest(ns)
<1>1. Kinds = {"tender", "correct", "close"}
  BY DEF Kinds, Canada!Kinds
<1>2. \A d, t : Canada!Future(d, t) <=> Future(d, t)
  BY DEF Canada!Future, Future
<1>3. \A ns : Canada!Newest(ns) = Newest(ns)
  BY DEF Canada!Newest, Newest
<1>4. \A n \in notices : n.kind \in Kinds /\ (n.kind # "close" => n.deadline \in Int)
  <2>1. connector \in Connector /\ Deadlines["canada"] \subseteq Int \cup {None}
        /\ None \notin Deadlines["canada"]
    BY ConnectorsAssumption DEF Register
  <2>2. \A n \in notices : n.deadline \in Int \cup {None}
    BY Times
  <2> QED
    BY <1>1, <2>1, <2>2 DEF Register, Terms
<1>5. connector \notin Late \cup Republishes /\ connector \notin Plain
  BY ConnectorsAssumption DEF Late, Republishing, Plain
<1> QED
  BY <1>1, <1>2, <1>3, <1>4, <1>5

(* The deadline of some of a lot's notices, as the files show it.           *)
LEMMA CanadaDeadline ==
  ASSUME connector = "canada", Register, NEW l \in Lot, NEW ns, NEW mine,
         mine = {n \in ns : n.lot = l}, mine \in SUBSET notices,
         NEW d, d = Canada!OpenDeadline(ns, l)
  PROVE  /\ d \in Int \cup {None}
         /\ Future(d, today) <=> OpenBy(mine)
         /\ d # None => mine # {} /\ Newest(mine).kind # "close"
<1>1. d = IF mine = {} \/ Newest(mine).kind = "close" THEN None ELSE Newest(mine).deadline
  BY CanadaRegister DEF Canada!OpenDeadline
<1>2. CASE mine = {}
  BY <1>1, <1>2, NoneIs DEF OpenBy, Future
<1>3. CASE mine # {} /\ Newest(mine).kind = "close"
  BY <1>1, <1>3, NoneIs DEF OpenBy, Future
<1>4. CASE mine # {} /\ Newest(mine).kind # "close"
  <2>1. /\ Newest(mine) \in notices
    BY <1>4, NewestOf
  <2>2. Newest(mine).kind \in {"tender", "correct"} /\ Newest(mine).deadline \in Int
    BY <1>4, <2>1, CanadaRegister
  <2>3. Dated(mine) # {} /\ DeadlineOf(mine) = Newest(mine).deadline
    BY <1>4, <2>2, DeadlineOfNewest
  <2> QED
    BY <1>1, <1>4, <2>2, <2>3 DEF OpenBy
<1> QED
  BY <1>2, <1>3, <1>4

(* What opens a lot during the day is its tender.                           *)
LEMMA CanadaOpens ==
  ASSUME connector = "canada", Register, Orderly, NEW l \in Lot, OpenBy(Mine(l))
  PROVE  OpenBy(Morning(l)) \/ OpenBy(NewView(l))
<1> DEFINE A == Morning(l)
           B == Mine(l)
<1>1. /\ A \in SUBSET B /\ B \in SUBSET notices /\ B # {}
      /\ \A n \in B : n \notin A => n.day = today
  <2>1. today \in Nat /\ \A n \in notices : n.day \in Nat /\ n.day <= today
    BY Times, TodayIs DEF Register
  <2> QED
    BY <2>1 DEF Morning, Of, Mine, OpenBy
<1>2. \A n \in B : n.kind \in {"tender", "correct"} /\ n.deadline \in Int
  <2>1. Newest(B) \in B /\ Newest(B).kind \in {"tender", "correct"}
        /\ \A n \in B : n.at <= Newest(B).at
    BY <1>1, CanadaRegister, NewestOf DEF OpenBy
  <2>2. ASSUME NEW n \in B, n.kind \notin {"tender", "correct"} PROVE FALSE
    <3>1. n.at # Newest(B).at
      BY <1>1, <2>1, <2>2, Times
    <3>2. Newest(B).at > n.at
      BY <1>1, <2>1, <3>1, Times
    <3> QED
      BY <2>1, <2>2, <3>2, CanadaRegister, ClosedForGood
  <2> QED
    BY <1>1, <2>2, CanadaRegister
<1>3. PICK t \in B : t.kind = "tender"
  BY <1>1, HasTender DEF Tenders
<1>4. \A n \in B : n.kind = "tender" => n = t
  BY <1>1, <1>3, CanadaRegister DEF Register, Mine
<1>5. \A n \in B : n # t => t.at < n.at /\ OpenOn(Before(n), n.day) /\ Before(n) \in SUBSET B
  BY <1>1, <1>2, <1>3, <1>4, CanadaRegister DEF Orderly, Mine, Before
<1>6. ASSUME NEW V \in SUBSET B, t \in V,
             \A n \in B \ V : n.day = today /\ \A v \in V : v.at < n.at
      PROVE  OpenBy(V)
  <2>1. CASE V = B
    BY <2>1
  <2>2. CASE V # B
    <3>1. PICK c \in B \ V : \A n \in B \ V : c.at <= n.at
      BY <1>1, <2>2, OldestOf
    <3>2. \A n \in B : n.at \in Nat
      BY <1>1, Times
    <3>3. Before(c) = V
      <4>1. Before(c) = {n \in B : n.at < c.at}
        BY DEF Before, Mine
      <4> HIDE DEF B
      <4> QED
        BY <1>6, <3>1, <3>2, <4>1
    <3> QED
      BY <1>5, <1>6, <3>1, <3>3, CanadaRegister DEF OpenBy, OpenOn
  <2> QED
    BY <2>1, <2>2
<1>7. CASE A # {}
  <2>1. PICK a \in A : TRUE
    BY <1>7
  <2>2. t.at <= a.at
    BY <1>1, <1>5, <2>1, Times
  <2>3. t.day <= a.day /\ a.day <= today - 1 /\ t.day \in Nat /\ a.day \in Nat /\ today \in Nat
    BY <1>1, <2>1, <2>2, Times, TodayIs DEF Morning, Of
  <2>4. t \in A
    BY <1>1, <2>3
  <2>5. \A n \in B \ A, v \in A : v.at < n.at
    <3>1. \A v \in A : v.day <= today - 1 /\ v.day \in Nat
      BY <1>1, Times DEF Morning, Of
    <3> QED
      BY <1>1, <2>3, <3>1, Times
  <2> QED
    BY <1>1, <1>6, <2>4, <2>5
<1>8. CASE A = {}
  <2>1. NewView(l) = {t}
    BY <1>3, <1>4, <1>8 DEF NewView, Tenders
  <2>2. \A n \in B \ {t} : n.day = today /\ \A v \in {t} : v.at < n.at
    BY <1>1, <1>5, <1>8
  <2> QED
    BY <1>3, <1>6, <2>1, <2>2
<1> QED
  BY <1>7, <1>8

(* Canada: the file of all tenders once it is new, the file of the day's    *)
(* tenders, the lots that left them closed (fetch_incremental,              *)
(* canada_buys.py:295-403).                                                 *)
LEMMA CanadaPoll ==
  ASSUME connector = "canada", Register, Orderly, TypeOK, Screen, CanadaKept, Poll
  PROVE  (TypeOK /\ Screen /\ CanadaKept /\ Complete /\ Sound)'
<1> DEFINE previous == IF cursor = None THEN Absent ELSE cursor.tracked
           new == Canada!NewFile(notices, today)
           open == Canada!OpenFile(notices, today)
           current(l) == IF Canada!Future(new[l], today) THEN new[l] ELSE previous[l]
           same == cursor # None /\ cursor.version = today
           unelapsed(l) == IF Canada!Future(current(l), today) THEN current(l) ELSE None
           reconciled(l) ==
             IF open[l] # None
             THEN IF Canada!Future(open[l], today) THEN open[l] ELSE None
             ELSE IF Canada!Future(current(l), today)
             THEN Canada!Resolved(notices, today, l) ELSE None
           next == IF same THEN [l \in Lot |-> unelapsed(l)] ELSE [l \in Lot |-> reconciled(l)]
<1>1. PICK call : call = Call
  OBVIOUS
<1>2. /\ Call = Canada!Fetch(cursor, notices, today) /\ Cursor = Canada!Cursor
      /\ connector \notin Plain /\ ~Gap
  BY DEF Call, Cursor, Plain, Gap
<1>3. /\ call.cursor = [version |-> today, tracked |-> next]
      /\ call.seen = [l \in Lot |->
            IF next[l] # None THEN IF next[l] = previous[l] THEN "none" ELSE "open"
            ELSE IF previous[l] # None THEN "closed" ELSE "none"]
      /\ call.done = TRUE /\ call.first = 0
  BY <1>1, <1>2 DEF Canada!Fetch, Canada!Result, Canada!Observed, Canada!WithNew,
     Canada!Observation, Canada!Absent, Absent, Canada!Unelapsed, Canada!Reconciled
<1>4. ASSUME NEW l \in Lot
      PROVE  /\ next[l] \in Int \cup {None} /\ (next[l] # None => Future(next[l], today))
             /\ OpenBy(Morning(l)) => next[l] # None
             /\ next[l] # None => OpenBy(Morning(l)) \/ OpenBy(NewView(l))
             /\ previous[l] # None <=> listed[l] = Undated
  <2>1. previous[l] # None <=> listed[l] = Undated
    BY NoneIs DEF Screen, CanadaKept, Absent
  <2>2. previous[l] \in Int \cup {None}
    BY <1>2 DEF TypeOK, Canada!Cursor, Absent
  <2>3. /\ new[l] \in Int \cup {None}
        /\ Future(new[l], today) => OpenBy(Mine(l))
    <3> DEFINE d == Canada!OpenDeadline(notices, l)
    <3>1. d \in Int \cup {None} /\ (Future(d, today) <=> OpenBy(Mine(l)))
      BY CanadaDeadline, OfToday DEF Mine
    <3>2. new[l] = d \/ new[l] = None
      BY DEF Canada!NewFile
    <3> QED
      BY <3>1, <3>2 DEF Future
  <2>4. /\ open[l] \in Int \cup {None}
        /\ Future(open[l], today) <=> OpenBy(Morning(l))
    <3> DEFINE ns == {n \in notices : n.day < today}
               d == Canada!OpenDeadline(ns, l)
    <3>1. Morning(l) = {n \in ns : n.lot = l} /\ Morning(l) \in SUBSET notices
      <4>1. today \in Nat /\ \A n \in notices : n.day \in Nat
        BY TodayIs, Times
      <4> QED
        BY <4>1 DEF Morning, Of
    <3>2. d \in Int \cup {None} /\ (Future(d, today) <=> OpenBy(Morning(l)))
      BY <3>1, CanadaDeadline
    <3>3. open[l] = IF Future(d, today - 1) THEN d ELSE None
      BY CanadaRegister DEF Canada!OpenFile
    <3>4. Future(d, today) => Future(d, today - 1)
      BY <3>2, TodayIs, NoneIs DEF Future
    <3> HIDE DEF d
    <3> QED
      BY <3>2, <3>3, <3>4 DEF Future
  <2>5. /\ Canada!Resolved(notices, today, l) \in Int \cup {None}
        /\ Canada!Resolved(notices, today, l) # None =>
             Future(Canada!Resolved(notices, today, l), today) /\ OpenBy(Mine(l))
    <3> DEFINE d == Canada!OpenDeadline(notices, l)
    <3>1. d \in Int \cup {None} /\ (Future(d, today) <=> OpenBy(Mine(l)))
      BY CanadaDeadline, OfToday DEF Mine
    <3>2. Canada!Resolved(notices, today, l) = IF Future(d, today) THEN d ELSE None
      BY CanadaRegister DEF Canada!Resolved
    <3> HIDE DEF d
    <3> QED
      BY <3>1, <3>2
  <2>6. OpenBy(Mine(l)) => OpenBy(Morning(l)) \/ OpenBy(NewView(l))
    BY CanadaOpens
  <2>7. same => /\ OpenBy(Morning(l)) => previous[l] # None
                /\ previous[l] # None =>
                     /\ OpenBy(Morning(l)) \/ OpenBy(NewView(l))
                     /\ Future(previous[l], today)
    BY DEF CanadaKept
  <2>8. /\ current(l) = IF Future(new[l], today) THEN new[l] ELSE previous[l]
        /\ next[l] = IF same THEN IF Future(current(l), today) THEN current(l) ELSE None
                     ELSE IF open[l] # None THEN IF Future(open[l], today) THEN open[l] ELSE None
                     ELSE IF Future(current(l), today)
                     THEN Canada!Resolved(notices, today, l) ELSE None
    BY CanadaRegister
  <2>9. Future(new[l], today) => new[l] # None
    BY DEF Future
  <2>10. Future(open[l], today) => open[l] # None
    BY DEF Future
  <2> HIDE DEF current, next, new, open, previous, same
  <2>11. CASE same
    <3>1. CASE Future(new[l], today)
      BY <2>1, <2>3, <2>6, <2>8, <2>9, <2>11, <3>1
    <3>2. CASE ~Future(new[l], today)
      BY <2>1, <2>2, <2>7, <2>8, <2>11, <3>2
    <3> QED
      BY <3>1, <3>2
  <2>12. CASE ~same
    BY <2>1, <2>4, <2>5, <2>6, <2>8, <2>10, <2>12
  <2> QED
    BY <2>11, <2>12
<1> HIDE DEF next, previous
<1>5. call.cursor \in Canada!Cursor /\ call.cursor # None
  <2>1. call.cursor \in Canada!Cursor
    BY <1>3, <1>4, TodayIs DEF Canada!Cursor, next
  <2> QED
    BY <2>1, NoneAssumption
<1>6. TypeOK' /\ Screen'
  <2>1. call.done \in BOOLEAN /\ call.first \in Int
    <3>1. call.done = TRUE /\ call.first \in Int
      BY <1>3
    <3> QED
      BY <3>1, Zenon
  <2> QED
    BY <1>1, <1>2, <1>5, <2>1, PollType
<1>7. ASSUME NEW l \in Lot
      PROVE  /\ listed'[l] = Undated <=> next[l] # None
             /\ listed'[l] > today <=> next[l] # None
             /\ call.seen[l] = "closed" => l \in shown
  <2>1. call.seen[l] = IF next[l] # None
                       THEN IF next[l] = previous[l] THEN "none" ELSE "open"
                       ELSE IF previous[l] # None THEN "closed" ELSE "none"
    BY <1>3
  <2> QED
    BY <1>1, <1>2, <1>4, <2>1, ShowsIs, NoneIs
<1>8. CanadaKept'
  <2>1. cursor' = [version |-> today, tracked |-> next] /\ today' = today
    BY <1>1, <1>3, PollParts
  <2>2. \A l \in Lot : /\ OpenBy(Morning(l)) <=> OpenBy(Morning(l))'
                       /\ OpenBy(NewView(l)) <=> OpenBy(NewView(l))'
    BY PollParts DEF OpenBy, Morning, NewView, Of, Mine, Tenders
  <2>3. \A l \in Lot : cursor'.tracked[l] = next[l]
    BY <2>1
  <2>4. cursor'.version = today /\ today \in Nat
    BY <2>1, TodayIs
  <2> QED
    BY <1>4, <1>7, <2>1, <2>2, <2>3, <2>4 DEF CanadaKept
<1>9. Complete'
  <2>1. ASSUME NEW l \in Lot, \A ns \in Views(l) : OpenBy(ns) PROVE listed'[l] > today
    <3>1. OpenBy(Morning(l))
      BY <2>1 DEF Views, Morning
    <3> QED
      BY <1>4, <1>7, <3>1
  <2> QED
    BY <1>1, <2>1, CompleteAfter
<1>10. Sound'
  <2>1. ASSUME NEW l \in Lot, listed'[l] > today PROVE Remains(l)
    <3>1. OpenBy(Morning(l)) \/ OpenBy(NewView(l))
      BY <1>4, <1>7, <2>1
    <3>2. Morning(l) \in Views(l) /\ NewView(l) \in Views(l)
      BY OfToday DEF Views, Morning, NewView, Tenders
    <3>3. Remains(l) <=> \E ns \in Views(l) : OpenBy(ns)
      BY DEF Remains
    <3> QED
      BY <3>1, <3>2, <3>3
  <2>2. Withdrawn(call) \subseteq shown
    BY <1>7, WithdrawnIs
  <2> QED
    BY <1>1, <2>1, <2>2, SoundAfter
<1> QED
  BY <1>6, <1>8, <1>9, <1>10

(* What the cursor says of the files read stays true.                       *)
LEMMA CanadaRest ==
  ASSUME connector = "canada", Register, TypeOK, CanadaKept
  PROVE  /\ \A l \in Lot : \A n : New(n, l) => CanadaKept'
         /\ NextDay => CanadaKept'
<1>1. ASSUME NEW l \in Lot, NEW n, New(n, l) PROVE CanadaKept'
  <2>1. /\ notices' = notices \cup {n} /\ n.day = today /\ n.lot = l
        /\ UNCHANGED <<connector, today, cursor, first, listed, shown>>
    BY <1>1 DEF New, Datable
  <2>2. /\ \A k \in Lot : Morning(k)' = Morning(k)
    BY <2>1, TodayIs DEF Morning, Of
  <2>3. \A ns : OpenBy(ns)' <=> OpenBy(ns)
    BY <2>1 DEF OpenBy
  <2>4. \A k \in Lot : NewView(k)' = NewView(k) \/ NewView(k) = {}
    <3> SUFFICES ASSUME NEW k \in Lot, NewView(k) # {} PROVE NewView(k)' = NewView(k)
      OBVIOUS
    <3>1. CASE n.kind = "tender" /\ k = l
      <4>1. PICK o \in NewView(k) : TRUE
        OBVIOUS
      <4>2. o \in Mine(l)
        BY <3>1 DEF NewView, Morning, Of, Mine, Tenders
      <4>3. \E t \in notices : t.lot = l /\ t.kind = "tender"
        BY <4>2 DEF Register, Mine
      <4> QED
        BY <1>1, <3>1, <4>3, NewTerms, CanadaRegister
    <3>2. CASE n.kind # "tender" \/ k # l
      <4>1. Tenders(Mine(k))' = Tenders(Mine(k))
        BY <2>1, <3>2 DEF Tenders, Mine
      <4> QED
        BY <2>2, <4>1 DEF NewView
    <3> QED
      BY <3>1, <3>2
  <2>5. \A k \in Lot : OpenBy(NewView(k)) => NewView(k) # {}
    BY DEF OpenBy
  <2>6. \A k \in Lot : /\ OpenBy(Morning(k))' <=> OpenBy(Morning(k))
                       /\ OpenBy(NewView(k)) => OpenBy(NewView(k))'
    <3> TAKE k \in Lot
    <3>1. OpenBy(Morning(k))' <=> OpenBy(Morning(k))
      BY <2>1, <2>2 DEF OpenBy
    <3>2. ASSUME OpenBy(NewView(k)) PROVE OpenBy(NewView(k))'
      <4>1. NewView(k)' = NewView(k)
        BY <2>4, <2>5, <3>2
      <4> QED
        BY <2>1, <3>2, <4>1 DEF OpenBy
    <3> QED
      BY <3>1, <3>2
  <2> QED
    BY <2>1, <2>6 DEF CanadaKept
<1>2. ASSUME NextDay PROVE CanadaKept'
  <2>1. today' = today + 1 /\ UNCHANGED <<cursor, listed>>
    BY <1>2 DEF NextDay
  <2>2. cursor # None => cursor.version \in Int
    BY DEF TypeOK, Cursor, Canada!Cursor
  <2>3. cursor # None => cursor.version # today' /\ cursor.version <= today'
    BY <2>1, <2>2, TodayIs DEF CanadaKept
  <2> QED
    BY <2>1, <2>3 DEF CanadaKept
<1> QED
  BY <1>1, <1>2

-----------------------------------------------------------------------------
(* Switzerland: a lot whose newest publication is a tender read before the  *)
(* next window is tracked until its deadline.                               *)
SwitzerlandKept ==
  cursor # None =>
    /\ first # None /\ cursor.through <= today
    /\ \A l \in Lot :
         /\ listed[l] = Undated => l \in cursor.tracked
         /\ l \in cursor.tracked => Mine(l) # {}
         /\ /\ Mine(l) # {} /\ Newest(Mine(l)).kind = "tender"
            /\ first <= Newest(Mine(l)).day
            /\ Newest(Mine(l)).day < cursor.through - Overlap
            /\ ~Elapsed(Newest(Mine(l)).deadline, today)
            => l \in cursor.tracked

(* What SIMAP publishes and a call reads.                                   *)
LEMMA SwitzerlandIs ==
  ASSUME connector = "switzerland"
  PROVE  /\ Call = Switzerland!Fetch(cursor, notices, today) /\ Cursor = Switzerland!Cursor
         /\ connector \notin Plain /\ ~Gap /\ Kinds = {"tender", "close", "leave"}
         /\ \A l : Switzerland!Latest(notices, l) = Newest(Mine(l))
BY DEF Call, Cursor, Plain, Gap, Kinds, Switzerland!Kinds, Switzerland!Latest, Switzerland!Newest,
       Newest, Mine

(* A publication is active from the day after it is dated, and pending      *)
(* until then.                                                              *)
LEMMA SwitzerlandStatus ==
  ASSUME NEW n, n.day \in Nat, n.deadline \in Int \cup {None}, NEW t \in Nat
  PROVE  /\ Switzerland!Status(n, t) = "active" <=>
              n.kind = "tender" /\ n.day < t /\ Future(n.deadline, t)
         /\ Switzerland!Status(n, t) \in {"active", "legal_release_pending", "deadline_missing"}
              <=> n.kind = "tender" /\ (Elapsed(n.deadline, t) => n.day >= t)
<1>1. \A d : Switzerland!Elapsed(d, t) <=> Elapsed(d, t)
  BY DEF Switzerland!Elapsed, Elapsed
<1>2. n.deadline # None => (Elapsed(n.deadline, t) <=> ~Future(n.deadline, t))
  BY DEF Elapsed, Future
<1>3. n.deadline = None => ~Elapsed(n.deadline, t) /\ ~Future(n.deadline, t)
  BY DEF Elapsed, Future
<1> QED
  BY <1>1, <1>2, <1>3 DEF Switzerland!Status

(* A project is open when its newest publication is an active tender.       *)
LEMMA SwitzerlandOpen ==
  ASSUME connector = "switzerland", Register, NEW l \in Lot
  PROVE  OpenBy(Mine(l)) <=>
           /\ Mine(l) # {} /\ Newest(Mine(l)).kind = "tender" /\ Newest(Mine(l)).day < today
           /\ Future(Newest(Mine(l)).deadline, today)
<1>1. CASE Mine(l) = {}
  BY <1>1 DEF OpenBy
<1>2. CASE Mine(l) # {}
  <2>1. Newest(Mine(l)).kind \in {"tender", "close", "leave"}
    BY <1>2, OfToday, NewestOf, SwitzerlandIs DEF Register, Terms
  <2>2. Newest(Mine(l)).kind = "tender" =>
          Dated(Mine(l)) # {} /\ DeadlineOf(Mine(l)) = Newest(Mine(l)).deadline
    BY <1>2, OfToday, DeadlineOfNewest
  <2> QED
    BY <1>2, <2>1, <2>2 DEF OpenBy
<1> QED
  BY <1>1, <1>2

(* Switzerland: the projects published since the cursor and those tracked,  *)
(* each looked up again (fetch_incremental, switzerland_simap.py:571-656).  *)
LEMMA SwitzerlandPoll ==
  ASSUME connector = "switzerland", Register, TypeOK, Screen, SwitzerlandKept, Poll
  PROVE  (TypeOK /\ Screen /\ SwitzerlandKept /\ Complete /\ Sound)'
<1> DEFINE start == Switzerland!WindowStart(cursor, today)
           projects == Switzerland!Projects(cursor, notices, today)
           targets == Switzerland!HeaderTargets(notices, projects)
           N(l) == Newest(Mine(l))
           Active(l) == Switzerland!Status(N(l), today) = "active"
           next == Switzerland!NextTracked(notices, targets, today)
<1>1. PICK call : call = Call
  OBVIOUS
<1>2. /\ call.cursor = [through |-> today, tracked |-> next]
      /\ call.seen = Switzerland!Observed(notices, projects, targets, today)
      /\ call.done = TRUE /\ call.first = start
  BY <1>1, SwitzerlandIs DEF Switzerland!Fetch, Switzerland!Result
<1>3. /\ today \in Nat /\ start \in Int
      /\ start = IF cursor = None THEN today - Lookback ELSE cursor.through - Overlap
      /\ cursor # None => cursor.through \in Int /\ cursor.tracked \in SUBSET Lot
  <2>1. cursor # None => cursor.through \in Int /\ cursor.tracked \in SUBSET Lot
    <3>1. cursor # None => cursor \in Switzerland!Cursor
      BY SwitzerlandIs DEF TypeOK
    <3> QED
      BY <3>1 DEF Switzerland!Cursor
  <2>2. start = IF cursor = None THEN today - Lookback ELSE cursor.through - Overlap
    BY DEF Switzerland!WindowStart
  <2> HIDE DEF start
  <2> QED
    BY <2>1, <2>2, TodayIs, UnitsAre
<1>4. ASSUME NEW l \in Lot
      PROVE  /\ l \in projects <=>
                  \/ /\ Mine(l) # {} /\ N(l).kind = "tender"
                     /\ start <= N(l).day /\ N(l).day <= today
                  \/ cursor # None /\ l \in cursor.tracked
             /\ l \in targets <=> l \in projects /\ N(l).kind # "leave"
             /\ l \in next <=>
                  /\ l \in targets
                  /\ Switzerland!Status(N(l), today)
                       \in {"active", "legal_release_pending", "deadline_missing"}
             /\ call.seen[l] = IF l \notin projects THEN "none"
                               ELSE IF l \in targets /\ Active(l) THEN "open" ELSE "closed"
  <2>1. (\E n \in notices : /\ n.lot = l /\ n = N(l) /\ n.kind = "tender"
                            /\ start <= n.day /\ n.day <= today)
          <=> /\ Mine(l) # {} /\ N(l).kind = "tender" /\ start <= N(l).day /\ N(l).day <= today
    <3>1. Mine(l) # {} => N(l) \in Mine(l)
      BY OfToday, NewestOf
    <3> QED
      BY <3>1 DEF Mine
  <2>2. l \in projects <=> \/ /\ Mine(l) # {} /\ N(l).kind = "tender"
                              /\ start <= N(l).day /\ N(l).day <= today
                           \/ cursor # None /\ l \in cursor.tracked
    BY <2>1, SwitzerlandIs DEF Switzerland!Projects, Switzerland!Search
  <2> HIDE DEF projects
  <2>3. l \in targets <=> l \in projects /\ N(l).kind # "leave"
    BY SwitzerlandIs DEF Switzerland!HeaderTargets
  <2> HIDE DEF targets
  <2>4. l \in next <=>
          /\ l \in targets
          /\ Switzerland!Status(N(l), today)
               \in {"active", "legal_release_pending", "deadline_missing"}
    BY SwitzerlandIs DEF Switzerland!NextTracked
  <2>5. call.seen[l] = IF l \notin projects THEN "none"
                       ELSE IF l \in targets /\ Active(l) THEN "open" ELSE "closed"
    BY <1>2, SwitzerlandIs DEF Switzerland!Observed
  <2> QED
    BY <2>2, <2>3, <2>4, <2>5
<1> HIDE DEF start, projects, targets, next
<1>5. ASSUME NEW l \in Lot, l \in projects
      PROVE  /\ Mine(l) # {} /\ N(l).day \in Nat
             /\ Active(l) <=> /\ N(l).kind = "tender" /\ N(l).day < today
                              /\ Future(N(l).deadline, today)
             /\ l \in next <=> N(l).kind = "tender"
                               /\ (Elapsed(N(l).deadline, today) => N(l).day >= today)
  <2>1. Mine(l) # {}
    BY <1>4, <1>5 DEF SwitzerlandKept
  <2>2. N(l).day \in Nat /\ N(l).deadline \in Int \cup {None}
    BY <2>1, OfToday, NewestOf, Times
  <2> QED
    BY <1>3, <1>4, <1>5, <2>1, <2>2, SwitzerlandStatus
<1>6. call.cursor \in Switzerland!Cursor /\ call.cursor # None
  <2>1. next \in SUBSET Lot
    <3>1. projects \in SUBSET Lot
      BY <1>3 DEF projects, Switzerland!Projects, Switzerland!Search
    <3>2. next \subseteq projects
      BY DEF next, Switzerland!NextTracked, targets, Switzerland!HeaderTargets
    <3> QED
      BY <3>1, <3>2
  <2> QED
    BY <1>2, <1>3, <2>1, NoneAssumption DEF Switzerland!Cursor
<1>7. TypeOK' /\ Screen'
  <2>1. call.done \in BOOLEAN
    <3>1. call.done = TRUE
      BY <1>2
    <3> QED
      BY <3>1, Zenon
  <2> QED
    BY <1>1, <1>2, <1>3, <1>6, <2>1, SwitzerlandIs, PollType
<1>8. ASSUME NEW l \in Lot
      PROVE  /\ listed'[l] = Undated <=> l \in projects /\ OpenBy(Mine(l))
             /\ listed'[l] > today <=> l \in projects /\ OpenBy(Mine(l))
             /\ listed'[l] = Undated => l \in next
  <2>1. CASE l \notin projects
    <3>1. listed[l] # Undated
      BY <1>4, <2>1, NoneIs DEF SwitzerlandKept, Screen
    <3> QED
      BY <1>1, <1>4, <2>1, <3>1, ShowsIs, SwitzerlandIs
  <2>2. CASE l \in projects
    <3>1. OpenBy(Mine(l)) <=> Active(l)
      BY <1>5, <2>2, SwitzerlandOpen
    <3>2. Active(l) => l \in targets /\ l \in next
      BY <1>3, <1>4, <1>5, <2>2, NoneIs DEF Future, Elapsed
    <3>3. Active(l) => call.seen[l] = "open"
      BY <1>4, <2>2, <3>2
    <3>4. ~Active(l) => call.seen[l] = "closed"
      BY <1>4, <2>2
    <3> QED
      BY <1>1, <2>2, <3>1, <3>2, <3>3, <3>4, ShowsIs, SwitzerlandIs, NoneIs
  <2> QED
    BY <2>1, <2>2
<1>9. /\ cursor' = [through |-> today, tracked |-> next] /\ today' = today
      /\ first' = IF cursor = None THEN start ELSE first
      /\ notices' = notices
  BY <1>1, <1>2, PollParts, SwitzerlandIs
<1>10. ASSUME NEW l \in Lot, Mine(l) # {}, N(l).kind = "tender", first' <= N(l).day,
              ~Elapsed(N(l).deadline, today)
       PROVE  l \in projects
  <2>1. N(l).day \in Nat /\ N(l).day <= today
    BY <1>10, OfToday, NewestOf, Times DEF Register
  <2>2. CASE start <= N(l).day
    BY <1>4, <1>10, <2>1, <2>2
  <2>3. CASE ~(start <= N(l).day)
    <3>1. cursor # None
      BY <1>9, <1>10, <2>3
    <3>2. first <= N(l).day /\ N(l).day < cursor.through - Overlap
      BY <1>3, <1>9, <1>10, <2>1, <2>3, <3>1
    <3> QED
      BY <1>4, <1>10, <3>1, <3>2 DEF SwitzerlandKept
  <2> QED
    BY <2>2, <2>3
<1>11. SwitzerlandKept'
  <2>1. cursor'.through = today /\ cursor'.tracked = next /\ first' # None
    BY <1>3, <1>9, NoneIs DEF SwitzerlandKept
  <2>2. \A l \in Lot : Mine(l)' = Mine(l)
    BY <1>9 DEF Mine
  <2>3. ASSUME NEW l \in Lot, l \in next PROVE Mine(l) # {}
    BY <1>4, <1>5, <2>3
  <2>4. ASSUME NEW l \in Lot, Mine(l) # {}, N(l).kind = "tender", first' <= N(l).day,
               ~Elapsed(N(l).deadline, today)
        PROVE  l \in next
    BY <1>5, <1>10, <2>4
  <2> QED
    BY <1>3, <1>8, <1>9, <2>1, <2>2, <2>3, <2>4 DEF SwitzerlandKept
<1>12. Complete'
  <2>1. ASSUME NEW l \in Lot, \A ns \in Views(l) : OpenBy(ns) /\ Newest(Tenders(ns)).day >= first'
        PROVE  listed'[l] > today
    <3>1. OpenBy(Mine(l)) /\ Newest(Tenders(Mine(l))).day >= first'
      BY <2>1, ViewsAre
    <3>2. /\ Mine(l) # {} /\ N(l).kind = "tender" /\ ~Elapsed(N(l).deadline, today)
      BY <1>3, <3>1, SwitzerlandOpen, OfToday, NewestOf, Times, NoneIs DEF Future, Elapsed
    <3>3. N(l) \in Tenders(Mine(l)) /\ Tenders(Mine(l)) \in SUBSET notices
          /\ \A o \in Tenders(Mine(l)) : o.at <= N(l).at
      BY <3>2, OfToday, NewestOf DEF Tenders, Mine
    <3>4. N(l) = Newest(Tenders(Mine(l)))
      BY <3>3, NewestOf
    <3>5. first' <= N(l).day
      BY <3>1, <3>4
    <3> QED
      BY <1>8, <1>10, <3>1, <3>2, <3>5
  <2> QED
    BY <1>1, <2>1, CompleteAfter
<1>13. Sound'
  <2>1. \A l \in Lot : listed'[l] > today => Remains(l)
    BY <1>8, RemainsIs
  <2> QED
    BY <1>1, <2>1, SoundAfter
<1> QED
  BY <1>7, <1>11, <1>12, <1>13

(* A project published after a call is one the next call asks for.          *)
LEMMA SwitzerlandRest ==
  ASSUME connector = "switzerland", Register, TypeOK, SwitzerlandKept
  PROVE  /\ \A l \in Lot : \A n : New(n, l) => SwitzerlandKept'
         /\ NextDay => SwitzerlandKept'
<1>1. cursor # None => /\ cursor.through \in Int /\ first \in Int
                       /\ cursor \in Switzerland!Cursor
  <2>1. cursor # None => cursor \in Switzerland!Cursor
    BY SwitzerlandIs DEF TypeOK
  <2> QED
    BY <2>1 DEF Switzerland!Cursor, TypeOK, SwitzerlandKept
<1>2. ASSUME NEW l \in Lot, NEW n, New(n, l) PROVE SwitzerlandKept'
  <2> USE <1>2, NewMine
  <2> SUFFICES ASSUME cursor # None PROVE SwitzerlandKept'
    BY DEF SwitzerlandKept
  <2>1. n.day >= cursor.through - Overlap
    BY <1>1, TodayIs, UnitsAre DEF SwitzerlandKept
  <2>2. ASSUME NEW k \in Lot, Mine(k)' # {}, Newest(Mine(k)').kind = "tender",
               first <= Newest(Mine(k)').day, Newest(Mine(k)').day < cursor.through - Overlap,
               ~Elapsed(Newest(Mine(k)').deadline, today)
        PROVE  k \in cursor.tracked
    <3>1. CASE k # l
      BY <2>2, <3>1 DEF SwitzerlandKept
    <3>2. CASE k = l
      <4>1. Newest(Mine(l)') # n
        BY <1>1, <2>1, <2>2, <3>2, UnitsAre
      <4>2. Newest(Mine(l)') = Newest(Mine(l)) /\ Mine(l) # {}
        BY <4>1, OfToday, NewestWith
      <4> QED
        BY <2>2, <3>2, <4>2 DEF SwitzerlandKept
    <3> QED
      BY <3>1, <3>2
  <2>3. \A k \in Lot : Mine(k) # {} => Mine(k)' # {}
    OBVIOUS
  <2> QED
    BY <2>2, <2>3 DEF SwitzerlandKept
<1>3. ASSUME NextDay PROVE SwitzerlandKept'
  <2> USE <1>3, NextDayIs
  <2> SUFFICES ASSUME cursor # None PROVE SwitzerlandKept'
    BY DEF SwitzerlandKept
  <2>1. \A l \in Lot : Mine(l) # {} => Newest(Mine(l)).deadline \in Int \cup {None}
    BY OfToday, NewestOf, Times
  <2>2. \A d \in Int \cup {None} : ~Elapsed(d, today + 1) => ~Elapsed(d, today)
    BY TodayIs DEF Elapsed
  <2>3. cursor.through <= today + 1
    BY <1>1, TodayIs DEF SwitzerlandKept
  <2>4. \A l \in Lot : Mine(l) # {} /\ ~Elapsed(Newest(Mine(l)).deadline, today')
                       => ~Elapsed(Newest(Mine(l)).deadline, today)
    BY <2>1, <2>2
  <2> QED
    BY <2>3, <2>4 DEF SwitzerlandKept
<1> QED
  BY <1>2, <1>3

-----------------------------------------------------------------------------
(* Ecuador: a process that was open when its month was last read and has    *)
(* not been released since is under observation.                            *)
EcuadorKept ==
  cursor # None =>
    /\ first # None /\ cursor.through <= today
    /\ \A l \in Lot :
         /\ listed[l] = Undated => l \in cursor.tracked
         /\ l \in cursor.tracked => Mine(l) # {}
         /\ /\ OpenBy(Mine(l)) /\ \E n \in Mine(l) : n.day >= first
            /\ \A n \in Mine(l) : n.day < cursor.through
            => l \in cursor.tracked

(* What SERCOP publishes and when months are left out.                      *)
LEMMA EcuadorIs ==
  ASSUME connector = "ecuador"
  PROVE  /\ Call = Ecuador!Fetch(cursor, notices, today) /\ Cursor = Ecuador!Cursor
         /\ connector \notin Plain /\ connector \notin Late
         /\ Kinds = {"tender", "close", "reopen", "correct"}
         /\ Gap <=> cursor # None /\ cursor.through < today - Overlap
BY DEF Call, Cursor, Plain, Late, Gap, Ecuador!Gap, Ecuador!FirstPeriod, Kinds, Ecuador!Kinds

(* Ecuador: the monthly files from the overlap before the present, whatever *)
(* the cursor (fetch_incremental, ocds_bulk_adapter.py:208-254).            *)
LEMMA EcuadorPoll ==
  ASSUME connector = "ecuador", Register, TypeOK, Screen, EcuadorKept, Poll
  PROVE  (TypeOK /\ Screen /\ EcuadorKept /\ Complete /\ Sound)'
<1> DEFINE tracked == Ecuador!Tracked(cursor)
           looked == Ecuador!Discovered(notices, today) \cup tracked
           open == {l \in looked : Ecuador!Actionable({n \in notices : n.lot = l}, today)}
<1>1. PICK call : call = Call
  OBVIOUS
<1>2. /\ call.cursor = [through |-> today, tracked |-> open]
      /\ call.seen = [l \in Lot |-> IF l \in open THEN "open"
                                    ELSE IF l \in looked THEN "closed" ELSE "none"]
      /\ call.done = TRUE /\ call.first = today - Overlap
  BY <1>1, EcuadorIs DEF Ecuador!Fetch, Ecuador!Result, Ecuador!FirstPeriod
<1>3. /\ today \in Nat /\ today < Undated /\ Overlap \in Nat \ {0}
      /\ cursor # None => cursor.through \in Nat /\ cursor.tracked \in SUBSET Lot
  <2>1. cursor # None => cursor \in Ecuador!Cursor
    BY EcuadorIs DEF TypeOK
  <2> QED
    BY <2>1, TodayIs, UnitsAre DEF Ecuador!Cursor
<1>4. tracked \in SUBSET Lot /\ looked \in SUBSET Lot
  BY <1>3, Times DEF Ecuador!Tracked, Ecuador!Discovered
<1>5. ASSUME NEW l \in Lot
      PROVE  /\ l \in looked <=> \/ \E n \in Mine(l) : n.day >= today - Overlap
                                 \/ cursor # None /\ l \in cursor.tracked
             /\ l \in looked => Mine(l) # {}
             /\ l \in open <=> l \in looked /\ OpenBy(Mine(l))
  <2>1. l \in looked <=> \/ \E n \in Mine(l) : n.day >= today - Overlap
                         \/ cursor # None /\ l \in cursor.tracked
    BY DEF Ecuador!Discovered, Ecuador!Tracked, Ecuador!FirstPeriod, Mine
  <2>2. l \in looked => Mine(l) # {}
    BY <2>1 DEF EcuadorKept
  <2>3. Ecuador!Actionable(Mine(l), today) <=>
          /\ Newest(Mine(l)).kind # "close" /\ Dated(Mine(l)) # {}
          /\ Future(DeadlineOf(Mine(l)), today)
    BY DEF Ecuador!Actionable, Ecuador!Newest, Newest, Ecuador!Dated, Dated, Ecuador!DeadlineOf,
           DeadlineOf, Ecuador!Future, Future
  <2>4. Mine(l) # {} => (Ecuador!Actionable(Mine(l), today) <=> OpenBy(Mine(l)))
    BY <2>3, RecordOpen, EcuadorIs
  <2> HIDE DEF looked
  <2>5. l \in open <=> l \in looked /\ Ecuador!Actionable(Mine(l), today)
    BY DEF Mine
  <2> QED
    BY <2>1, <2>2, <2>4, <2>5
<1> HIDE DEF looked, open, tracked
<1>6. call.cursor \in Ecuador!Cursor /\ call.cursor # None
  <2>1. open \in SUBSET Lot
    BY <1>4 DEF open
  <2> QED
    BY <1>2, <1>3, <2>1, NoneAssumption DEF Ecuador!Cursor
<1>7. TypeOK' /\ Screen'
  <2>1. call.done \in BOOLEAN
    <3>1. call.done = TRUE
      BY <1>2
    <3> QED
      BY <3>1, Zenon
  <2> QED
    BY <1>1, <1>2, <1>3, <1>6, <2>1, EcuadorIs, PollType
<1>8. ASSUME NEW l \in Lot
      PROVE  /\ listed'[l] = Undated <=> l \in open
             /\ listed'[l] > today <=> l \in open
  <2>1. CASE l \notin looked
    <3>1. listed[l] # Undated
      BY <1>5, <2>1, NoneIs DEF EcuadorKept, Screen
    <3>2. call.seen[l] = "none"
      BY <1>2, <1>5, <2>1
    <3> QED
      BY <1>1, <1>5, <2>1, <3>1, <3>2, ShowsIs, EcuadorIs
  <2>2. CASE l \in looked
    <3>1. call.seen[l] = IF l \in open THEN "open" ELSE "closed"
      BY <1>2, <2>2
    <3> QED
      BY <1>1, <3>1, ShowsIs, EcuadorIs, NoneIs
  <2> QED
    BY <2>1, <2>2
<1>9. /\ cursor' = [through |-> today, tracked |-> open] /\ today' = today
      /\ first' = IF cursor = None \/ Gap THEN today - Overlap ELSE first
      /\ notices' = notices /\ connector' = connector
  BY <1>1, <1>2, PollParts, EcuadorIs
<1>10. ASSUME NEW l \in Lot, OpenBy(Mine(l)), NEW n \in Mine(l), n.day >= first'
       PROVE  l \in open
  <2>0. \A m \in Mine(l) : m.day \in Nat
    BY OfToday, Times
  <2>1. CASE \E m \in Mine(l) : m.day >= today - Overlap
    BY <1>5, <1>10, <2>1
  <2>2. CASE ~\E m \in Mine(l) : m.day >= today - Overlap
    <3>1. cursor # None /\ ~Gap /\ first' = first
      BY <1>9, <1>10, <2>2
    <3>2. cursor.through >= today - Overlap
      BY <1>3, <3>1, EcuadorIs
    <3>3. \A m \in Mine(l) : m.day < cursor.through
      BY <1>3, <2>0, <2>2, <3>1, <3>2
    <3> QED
      BY <1>5, <1>10, <3>1, <3>3 DEF EcuadorKept
  <2> QED
    BY <2>1, <2>2
<1>11. EcuadorKept'
  <2>1. cursor'.through = today /\ cursor'.tracked = open /\ first' # None
    BY <1>3, <1>9, NoneIs DEF EcuadorKept
  <2>2. \A l \in Lot : Mine(l)' = Mine(l) /\ (OpenBy(Mine(l))' <=> OpenBy(Mine(l)))
    BY <1>9 DEF Mine, OpenBy
  <2> QED
    BY <1>3, <1>5, <1>8, <1>9, <1>10, <2>1, <2>2 DEF EcuadorKept
<1>12. Complete'
  <2>1. ASSUME NEW l \in Lot, \A ns \in Views(l) : OpenBy(ns) /\ Newest(Tenders(ns)).day >= first'
        PROVE  listed'[l] > today
    <3>1. OpenBy(Mine(l)) /\ Newest(Tenders(Mine(l))).day >= first'
      BY <2>1, ViewsAre
    <3>2. Newest(Tenders(Mine(l))) \in Mine(l)
      BY <3>1, TenderOf DEF OpenBy
    <3> QED
      BY <1>8, <1>10, <3>1, <3>2
  <2> QED
    BY <1>1, <2>1, CompleteAfter
<1>13. Sound'
  <2>1. \A l \in Lot : listed'[l] > today => Remains(l)
    BY <1>5, <1>8, RemainsIs
  <2> QED
    BY <1>1, <2>1, SoundAfter
<1> QED
  BY <1>7, <1>11, <1>12, <1>13

(* A notice published after a call is in a file the next call reads.        *)
LEMMA EcuadorRest ==
  ASSUME connector = "ecuador", Register, TypeOK, EcuadorKept
  PROVE  /\ \A l \in Lot : \A n : New(n, l) => EcuadorKept'
         /\ NextDay => EcuadorKept'
<1>1. cursor # None => cursor.through \in Nat /\ first \in Int
  <2>1. cursor # None => cursor \in Ecuador!Cursor
    BY EcuadorIs DEF TypeOK
  <2> QED
    BY <2>1 DEF Ecuador!Cursor, TypeOK, EcuadorKept
<1>2. ASSUME NEW l \in Lot, NEW n, New(n, l) PROVE EcuadorKept'
  <2> USE <1>2, NewMine
  <2> SUFFICES ASSUME cursor # None PROVE EcuadorKept'
    BY DEF EcuadorKept
  <2>1. n.day >= cursor.through
    BY <1>1, TodayIs, EcuadorIs DEF EcuadorKept
  <2>2. \A k \in Lot : k # l => (OpenBy(Mine(k))' <=> OpenBy(Mine(k)))
    BY DEF OpenBy
  <2>3. ~\A m \in Mine(l)' : m.day < cursor.through
    BY <1>1, <2>1
  <2>4. \A k \in Lot : Mine(k) # {} => Mine(k)' # {}
    OBVIOUS
  <2> QED
    BY <2>2, <2>3, <2>4 DEF EcuadorKept
<1>3. ASSUME NextDay PROVE EcuadorKept'
  <2> USE <1>3, NextDayIs
  <2> SUFFICES ASSUME cursor # None PROVE EcuadorKept'
    BY DEF EcuadorKept
  <2>1. \A l \in Lot : OpenBy(Mine(l))' => OpenBy(Mine(l))
    BY OpenEarlier
  <2>2. cursor.through <= today + 1
    BY <1>1, TodayIs DEF EcuadorKept
  <2> QED
    BY <2>1, <2>2 DEF EcuadorKept
<1> QED
  BY <1>2, <1>3

-----------------------------------------------------------------------------
(* The United Kingdom: a process released since the first window, and not   *)
(* since the next one, was shown as it was when it was looked up.           *)
UKKept ==
  cursor # None =>
    /\ first # None /\ cursor.through <= today
    /\ \A l \in Lot :
         /\ listed[l] = Undated =>
              /\ Mine(l) # {}
              /\ Newest(Mine(l)).kind = "close" =>
                   Newest(Mine(l)).day >= cursor.through - Overlap
         /\ /\ OpenBy(Mine(l)) /\ \E n \in Mine(l) : n.day >= first
            /\ \A n \in Mine(l) : n.day < cursor.through - Overlap
            => listed[l] = Undated

(* What Find a Tender publishes.                                            *)
LEMMA UKIs ==
  ASSUME connector = "uk"
  PROVE  /\ Call = UK!Fetch(cursor, notices, today) /\ Cursor = UK!Cursor
         /\ connector \notin Plain /\ ~Gap
         /\ Kinds = {"tender", "close", "reopen", "correct"}
BY DEF Call, Cursor, Plain, Gap, Kinds, UK!Kinds

(* United Kingdom: windows of days from the cursor, less the overlap        *)
(* (fetch_incremental, uk_find_tender.py:282-338).                          *)
LEMMA UKPoll ==
  ASSUME connector = "uk", Register, TypeOK, Screen, UKKept, Poll
  PROVE  (TypeOK /\ Screen /\ UKKept /\ Complete /\ Sound)'
<1> DEFINE start == UK!Start(cursor, today)
           end == UK!End(cursor, today)
           In(l) == \E n \in Mine(l) : start <= n.day /\ n.day <= end
<1>1. PICK call : call = Call
  OBVIOUS
<1>2. /\ call.cursor = [through |-> end]
      /\ call.seen = UK!Observed({n \in notices : start <= n.day /\ n.day <= end}, notices, today)
      /\ call.done = (end = today) /\ call.first = start
  BY <1>1, UKIs DEF UK!Fetch, UK!Result
<1>3. /\ today \in Nat /\ today < Undated /\ start \in Int /\ end \in Int /\ Overlap \in Nat \ {0}
      /\ start = IF cursor = None THEN today - Lookback ELSE cursor.through - Overlap
      /\ start <= end - Overlap \/ cursor = None
      /\ end <= today
      /\ cursor # None => cursor.through \in Int
  <2>1. cursor # None => cursor.through \in Int
    <3>1. cursor # None => cursor \in UK!Cursor
      BY UKIs DEF TypeOK
    <3> QED
      BY <3>1 DEF UK!Cursor
  <2>2. /\ today \in Nat /\ today < Undated /\ Overlap \in Nat \ {0} /\ Lookback \in Nat
        /\ Width \in Nat /\ Windows \in Nat
    BY TodayIs, UnitsAre, ConnectorsAssumption
  <2>3. start = IF cursor = None THEN today - Lookback ELSE cursor.through - Overlap
    BY DEF UK!Start
  <2>4. PICK span \in Nat : span = Width * Windows
    BY <2>2
  <2>5. end = IF today <= start + span THEN today ELSE start + span
    BY <2>4 DEF UK!End, UK!LesserOf
  <2>6. span > Overlap
    BY <2>4, ConnectorsAssumption
  <2>7. cursor # None => cursor.through <= today
    BY DEF UKKept
  <2> HIDE DEF start, end
  <2> QED
    BY <2>1, <2>2, <2>3, <2>5, <2>6, <2>7
<1>4. ASSUME NEW l \in Lot
      PROVE  call.seen[l] = IF ~In(l) THEN "none" ELSE IF OpenBy(Mine(l)) THEN "open" ELSE "closed"
  <2>1. In(l) <=> ~\A n \in {n \in notices : start <= n.day /\ n.day <= end} : n.lot # l
    BY DEF Mine
  <2> HIDE DEF In
  <2>2. UK!Actionable(Mine(l), today) <=>
          /\ Newest(Mine(l)).kind # "close" /\ Dated(Mine(l)) # {}
          /\ Future(DeadlineOf(Mine(l)), today)
    BY DEF UK!Actionable, UK!Newest, Newest, UK!Dated, Dated, UK!DeadlineOf,
           DeadlineOf, UK!Future, Future
  <2>3. In(l) => (UK!Actionable(Mine(l), today) <=> OpenBy(Mine(l)))
    BY <2>2, RecordOpen, UKIs DEF In
  <2>4. call.seen[l] = IF ~In(l) THEN "none"
                       ELSE IF UK!Actionable(Mine(l), today) THEN "open" ELSE "closed"
    BY <1>2, <2>1 DEF UK!Observed, Mine
  <2> QED
    BY <2>3, <2>4
<1> HIDE DEF start, end
<1>5. ASSUME NEW l \in Lot
      PROVE  /\ In(l) => (listed'[l] = Undated <=> OpenBy(Mine(l)))
             /\ ~In(l) => listed'[l] = listed[l]
             /\ listed'[l] > today <=> listed'[l] = Undated
             /\ cursor = None => listed[l] # Undated
  <2> HIDE DEF In
  <2>1. listed'[l] > today <=> listed'[l] = Undated
    BY <1>1, ShowsIs, UKIs
  <2>2. In(l) => (listed'[l] = Undated <=> OpenBy(Mine(l)))
    BY <1>1, <1>4, ShowsIs, UKIs, NoneIs
  <2>3. ~In(l) => listed'[l] = listed[l]
    BY <1>1, <1>4, ShowsIs, UKIs
  <2>4. cursor = None => listed[l] # Undated
    BY NoneIs DEF Screen
  <2> QED
    BY <2>1, <2>2, <2>3, <2>4
<1>6. /\ cursor' = [through |-> end] /\ today' = today
      /\ first' = IF cursor = None THEN start ELSE first
      /\ notices' = notices /\ connector' = connector
  BY <1>1, <1>2, PollParts, UKIs
<1>7. TypeOK' /\ Screen'
  <2>1. call.done \in BOOLEAN
    BY <1>2, Zenon
  <2>2. call.cursor \in UK!Cursor /\ call.cursor # None
    BY <1>2, <1>3, NoneAssumption DEF UK!Cursor
  <2> QED
    BY <1>1, <1>2, <1>3, <2>1, <2>2, UKIs, PollType
<1>8. ASSUME NEW l \in Lot
      PROVE  \A n \in Mine(l) : n.day \in Nat /\ n.day <= today
  BY OfToday, Times DEF Register
<1>9. ASSUME NEW l \in Lot, OpenBy(Mine(l)), NEW n \in Mine(l), n.day >= first',
             \A m \in Mine(l) : m.day <= end
      PROVE  listed'[l] = Undated
  <2>1. CASE In(l)
    BY <1>5, <1>9, <2>1
  <2>2. CASE ~In(l)
    <3>1. \A m \in Mine(l) : m.day < start
      BY <1>3, <1>8, <1>9, <2>2
    <3>2. cursor # None /\ first' = first /\ n.day >= first
      BY <1>3, <1>6, <1>8, <1>9, <3>1
    <3>3. listed[l] = Undated
      BY <1>3, <1>9, <3>1, <3>2 DEF UKKept
    <3> QED
      BY <1>5, <2>2, <3>3
  <2> QED
    BY <2>1, <2>2
<1>10. ASSUME NEW l \in Lot, listed'[l] = Undated
       PROVE  Mine(l) # {} /\ (Newest(Mine(l)).kind = "close" => Newest(Mine(l)).day > end)
  <2>1. CASE In(l)
    BY <1>5, <1>10, <2>1 DEF OpenBy
  <2>2. CASE ~In(l)
    <3>1. cursor # None /\ listed[l] = Undated
      BY <1>5, <1>10, <2>2
    <3>2. Mine(l) # {} /\ (Newest(Mine(l)).kind = "close" => Newest(Mine(l)).day >= start)
      BY <1>3, <3>1 DEF UKKept
    <3>3. Newest(Mine(l)) \in Mine(l) /\ Newest(Mine(l)).day \in Nat
      BY <1>8, <3>2, OfToday, NewestOf
    <3> QED
      BY <1>3, <2>2, <3>2, <3>3
  <2> QED
    BY <2>1, <2>2
<1>11. UKKept'
  <2>1. cursor'.through = end /\ first' # None
    BY <1>3, <1>6, NoneIs DEF UKKept
  <2>2. \A l \in Lot : Mine(l)' = Mine(l) /\ (OpenBy(Mine(l))' <=> OpenBy(Mine(l)))
    BY <1>6 DEF Mine, OpenBy
  <2>3. ASSUME NEW l \in Lot, listed'[l] = Undated
        PROVE  /\ Mine(l) # {}
               /\ Newest(Mine(l)).kind = "close" => Newest(Mine(l)).day >= end - Overlap
    <3>1. Mine(l) # {} /\ (Newest(Mine(l)).kind = "close" => Newest(Mine(l)).day > end)
      BY <1>10, <2>3
    <3>2. Newest(Mine(l)).day \in Nat
      BY <1>8, <3>1, OfToday, NewestOf
    <3> QED
      BY <1>3, <3>1, <3>2
  <2>4. ASSUME NEW l \in Lot, OpenBy(Mine(l)), \E n \in Mine(l) : n.day >= first',
               \A n \in Mine(l) : n.day < end - Overlap
        PROVE  listed'[l] = Undated
    <3>1. \A m \in Mine(l) : m.day <= end
      BY <1>3, <1>8, <2>4
    <3> QED
      BY <1>9, <2>4, <3>1
  <2>5. (first # None /\ cursor.through <= today)'
    BY <1>3, <1>6, <2>1
  <2> QED
    BY <2>1, <2>2, <2>3, <2>4, <2>5 DEF UKKept
<1>12. Complete'
  <2>1. ASSUME NEW l \in Lot, call.done,
               \A ns \in Views(l) : OpenBy(ns) /\ Newest(Tenders(ns)).day >= first'
        PROVE  listed'[l] > today
    <3>1. OpenBy(Mine(l)) /\ Newest(Tenders(Mine(l))).day >= first'
      BY <2>1, ViewsAre
    <3>2. Newest(Tenders(Mine(l))) \in Mine(l)
      BY <3>1, TenderOf DEF OpenBy
    <3>3. end = today
      BY <1>2, <2>1
    <3> QED
      BY <1>5, <1>8, <1>9, <3>1, <3>2, <3>3
  <2> QED
    BY <1>1, <2>1, CompleteAfter
<1>13. Sound'
  <2>1. ASSUME NEW l \in Lot, call.done, listed'[l] > today PROVE Remains(l)
    <3>1. Mine(l) # {} /\ (Newest(Mine(l)).kind = "close" => Newest(Mine(l)).day > end)
      BY <1>5, <1>10, <2>1
    <3>2. Newest(Mine(l)).day \in Nat /\ Newest(Mine(l)).day <= today
      BY <1>8, <3>1, OfToday, NewestOf
    <3>3. end = today
      BY <1>2, <2>1
    <3>4. Newest(Mine(l)).kind # "close"
      BY <1>3, <3>1, <3>2, <3>3
    <3>5. Remains(l) <=> Newest(Of(l, today)).kind # "close"
      BY DEF Remains
    <3> QED
      BY <3>4, <3>5, OfToday
  <2> QED
    BY <1>1, <2>1, SoundAfter
<1> QED
  BY <1>7, <1>11, <1>12, <1>13

(* A notice is dated within the overlap the next call reads again.          *)
LEMMA UKRest ==
  ASSUME connector = "uk", Register, TypeOK, UKKept
  PROVE  /\ \A l \in Lot : \A n : New(n, l) => UKKept'
         /\ NextDay => UKKept'
<1>1. cursor # None => cursor.through \in Int /\ first \in Int
  <2>1. cursor # None => cursor \in UK!Cursor
    BY UKIs DEF TypeOK
  <2> QED
    BY <2>1 DEF UK!Cursor, TypeOK, UKKept
<1>2. ASSUME NEW l \in Lot, NEW n, New(n, l) PROVE UKKept'
  <2> USE <1>2, NewMine
  <2> SUFFICES ASSUME cursor # None PROVE UKKept'
    BY DEF UKKept
  <2>1. n.day >= cursor.through - Overlap
    BY <1>1, TodayIs, UnitsAre DEF UKKept
  <2>2. \A k \in Lot : k # l => (OpenBy(Mine(k))' <=> OpenBy(Mine(k)))
    BY DEF OpenBy
  <2>3. ~\A m \in Mine(l)' : m.day < cursor.through - Overlap
    BY <1>1, <2>1, UnitsAre
  <2>4. ASSUME NEW k \in Lot, listed[k] = Undated
        PROVE  /\ Mine(k)' # {}
               /\ Newest(Mine(k)').kind = "close" =>
                    Newest(Mine(k)').day >= cursor.through - Overlap
    <3>1. CASE k # l
      BY <2>4, <3>1 DEF UKKept
    <3>2. CASE k = l
      <4>1. Newest(Mine(l)') \in {n, Newest(Mine(l))} /\ Mine(l) # {}
        BY <2>4, <3>2, OfToday, NewestWith DEF UKKept
      <4> QED
        BY <2>1, <2>4, <3>2, <4>1 DEF UKKept
    <3> QED
      BY <3>1, <3>2
  <2> QED
    BY <2>2, <2>3, <2>4 DEF UKKept
<1>3. ASSUME NextDay PROVE UKKept'
  <2> USE <1>3, NextDayIs
  <2> SUFFICES ASSUME cursor # None PROVE UKKept'
    BY DEF UKKept
  <2>1. \A l \in Lot : OpenBy(Mine(l))' => OpenBy(Mine(l))
    BY OpenEarlier
  <2>2. cursor.through <= today + 1
    BY <1>1, TodayIs DEF UKKept
  <2> QED
    BY <2>1, <2>2 DEF UKKept
<1> QED
  BY <1>2, <1>3

-----------------------------------------------------------------------------
(* The United States: what was active when the day began was shown when the *)
(* day's file was read.                                                     *)
USKept ==
  cursor # None =>
    /\ cursor.version <= today
    /\ \A l \in Lot :
         /\ listed[l] = Undated => Mine(l) # {}
         /\ cursor.version = today /\ OpenBy(Of(l, today - 1)) => listed[l] = Undated

(* What SAM.gov publishes; a snapshot is made when the day begins.          *)
LEMMA USIs ==
  ASSUME connector = "us"
  PROVE  /\ Call = US!Fetch(cursor, notices, today) /\ Cursor = US!Cursor
         /\ connector \notin Plain /\ ~Gap /\ connector \notin Late
         /\ Kinds = {"tender", "close", "correct"}
         /\ \A l : Views(l) = {Of(l, today - 1)}
         /\ \A l : Remains(l) <=> Of(l, today) # {}
BY DEF Call, Cursor, Plain, Gap, Late, Kinds, US!Kinds, Views, Remains

(* United States: the file made when the day began, if it is another than   *)
(* the last one (fetch_incremental, us_sam.py:222-243).                     *)
LEMMA USPoll ==
  ASSUME connector = "us", Register, TypeOK, Screen, USKept, Poll
  PROVE  (TypeOK /\ Screen /\ USKept /\ Complete /\ Sound)'
<1> DEFINE same == US!NotModified(cursor, today)
           made(l) == Of(l, today - 1)
           active(l) == made(l) # {} /\ Newest(made(l)).kind # "close"
           due(l) == Elapsed(DeadlineOf(made(l)), today)
<1>1. PICK call : call = Call
  OBVIOUS
<1>2. /\ call.cursor = IF same THEN cursor ELSE [version |-> today]
      /\ call.seen = IF same THEN [l \in Lot |-> "none"] ELSE US!Observed(notices, today)
      /\ call.done = TRUE /\ call.first = 0
  BY <1>1, USIs DEF US!Fetch, US!Result, US!Silent
<1>3. today \in Nat /\ (cursor # None => cursor.version \in Int)
  <2>1. cursor # None => cursor \in US!Cursor
    BY USIs DEF TypeOK
  <2> QED
    BY <2>1, TodayIs DEF US!Cursor
<1>4. same <=> cursor # None /\ cursor.version = today
  BY DEF US!NotModified
<1> HIDE DEF same
<1>5. ASSUME NEW l \in Lot
      PROVE  /\ made(l) = {n \in {m \in notices : m.day < today} : n.lot = l}
             /\ made(l) = {n \in notices : n.lot = l /\ n.day < today}
             /\ made(l) \subseteq Mine(l)
  <2>1. \A n \in notices : n.day \in Nat
    BY Times
  <2>2. \A n \in notices : n.day <= today - 1 <=> n.day < today
    BY <1>3, <2>1
  <2> QED
    BY <2>2 DEF Of, Mine
<1>6. ASSUME NEW l \in Lot
      PROVE  US!Observed(notices, today)[l] =
               IF ~active(l) THEN "none" ELSE IF ~due(l) THEN "open" ELSE "closed"
  <2>1. l \in US!ActiveFile(notices, today) <=> active(l)
    <3>1. l \in {n.lot : n \in {m \in notices : m.day < today}} <=> made(l) # {}
      BY <1>5
    <3> HIDE DEF made
    <3> QED
      BY <1>5, <3>1 DEF US!ActiveFile, US!Newest, Newest
  <2>2. US!Actionable(notices, l, today) <=> ~due(l)
    <3> HIDE DEF made
    <3> QED
      BY <1>5 DEF US!Actionable, US!Elapsed, Elapsed, US!DeadlineOf, DeadlineOf, US!Newest, Newest,
         US!Dated, Dated
  <2> HIDE DEF active, due
  <2> QED
    BY <2>1, <2>2 DEF US!Observed
<1> HIDE DEF made, active, due
<1>7. ASSUME NEW l \in Lot
      PROVE  /\ ~same /\ active(l) => (listed'[l] = Undated <=> ~due(l))
             /\ same \/ ~active(l) => listed'[l] = listed[l]
             /\ listed'[l] > today <=> listed'[l] = Undated
             /\ active(l) => Mine(l) # {}
  <2>1. active(l) => Mine(l) # {}
    BY <1>5 DEF active
  <2>2. listed'[l] > today <=> listed'[l] = Undated
    BY <1>1, ShowsIs, USIs
  <2>3. CASE ~same /\ active(l)
    BY <1>1, <1>2, <1>6, <2>1, <2>2, <2>3, ShowsIs, USIs, NoneIs
  <2>4. CASE same \/ ~active(l)
    <3>1. call.seen[l] = "none"
      BY <1>2, <1>6, <2>4
    <3> QED
      BY <1>1, <2>1, <2>2, <2>4, <3>1, ShowsIs, USIs
  <2> QED
    BY <2>3, <2>4
<1>8. /\ cursor' = (IF same THEN cursor ELSE [version |-> today]) /\ today' = today
      /\ notices' = notices /\ connector' = connector
  BY <1>1, <1>2, PollParts, USIs
<1>9. TypeOK' /\ Screen'
  <2>1. call.done \in BOOLEAN
    <3>1. call.done = TRUE
      BY <1>2
    <3> QED
      BY <3>1, Zenon
  <2>2. call.cursor \in US!Cursor /\ call.cursor # None
    <3>1. cursor # None => cursor \in US!Cursor
      BY USIs DEF TypeOK
    <3>2. [version |-> today] \in US!Cursor
      BY <1>3 DEF US!Cursor
    <3>3. call.cursor \in US!Cursor
      BY <1>2, <1>4, <3>1, <3>2
    <3> QED
      BY <3>3, NoneAssumption
  <2> QED
    BY <1>1, <1>2, <2>1, <2>2, USIs, PollType
<1>10. ASSUME NEW l \in Lot, OpenBy(made(l)) PROVE listed'[l] = Undated
  <2>1. made(l) # {} /\ made(l) \in SUBSET notices
    BY <1>10 DEF OpenBy, made, Of
  <2>2. DeadlineOf(made(l)) \in Int
    BY <1>10, <2>1, DeadlineOfType DEF OpenBy, Future
  <2>3. active(l) /\ ~due(l)
    BY <1>3, <1>10, <2>1, <2>2 DEF OpenBy, Future, active, due, Elapsed
  <2>4. CASE same
    <3>1. listed[l] = Undated
      BY <1>4, <1>10, <2>4 DEF USKept, made
    <3> QED
      BY <1>7, <2>4, <3>1
  <2> QED
    BY <1>7, <2>3, <2>4
<1>11. ASSUME NEW l \in Lot, listed'[l] = Undated PROVE Mine(l) # {}
  <2>1. CASE active(l)
    BY <1>7, <2>1
  <2>2. CASE ~active(l)
    BY <1>7, <1>11, <2>2, NoneIs DEF USKept, Screen
  <2> QED
    BY <2>1, <2>2
<1>12. USKept'
  <2>1. cursor'.version = today
    BY <1>4, <1>8
  <2>2. \A l \in Lot : /\ Mine(l)' = Mine(l)
                       /\ OpenBy(Of(l, today - 1))' <=> OpenBy(made(l))
    BY <1>8 DEF Mine, OpenBy, Of, made
  <2> QED
    BY <1>3, <1>8, <1>10, <1>11, <2>1, <2>2 DEF USKept
<1>13. Complete'
  <2>1. ASSUME NEW l \in Lot, \A ns \in Views(l) : OpenBy(ns) PROVE listed'[l] > today
    BY <1>7, <1>10, <2>1, USIs DEF made
  <2> QED
    BY <1>1, <2>1, CompleteAfter
<1>14. Sound'
  <2>1. ASSUME NEW l \in Lot, listed'[l] > today PROVE Remains(l)
    BY <1>7, <1>11, <2>1, USIs, OfToday
  <2> QED
    BY <1>1, <2>1, SoundAfter
<1> QED
  BY <1>9, <1>12, <1>13, <1>14

(* What is published today is in a later file.                              *)
LEMMA USRest ==
  ASSUME connector = "us", Register, TypeOK, USKept
  PROVE  /\ \A l \in Lot : \A n : New(n, l) => USKept'
         /\ NextDay => USKept'
<1>1. cursor # None => cursor.version \in Int
  <2>1. cursor # None => cursor \in US!Cursor
    BY USIs DEF TypeOK
  <2> QED
    BY <2>1 DEF US!Cursor
<1>2. ASSUME NEW l \in Lot, NEW n, New(n, l) PROVE USKept'
  <2> USE <1>2, NewMine
  <2> SUFFICES ASSUME cursor # None PROVE USKept'
    BY DEF USKept
  <2>1. n.day = today /\ today \in Nat
    BY TodayIs, USIs
  <2>2. \A k : Of(k, today - 1)' = Of(k, today - 1)
    BY <2>1 DEF Of
  <2>3. \A k : OpenBy(Of(k, today - 1))' <=> OpenBy(Of(k, today - 1))
    BY <2>2 DEF OpenBy
  <2>4. \A k \in Lot : Mine(k) # {} => Mine(k)' # {}
    OBVIOUS
  <2> QED
    BY <2>3, <2>4 DEF USKept
<1>3. ASSUME NextDay PROVE USKept'
  <2> USE <1>3, NextDayIs
  <2> SUFFICES ASSUME cursor # None PROVE USKept'
    BY DEF USKept
  <2>1. cursor.version <= today + 1 /\ cursor.version # today + 1
    BY <1>1, TodayIs DEF USKept
  <2> QED
    BY <2>1 DEF USKept
<1> QED
  BY <1>2, <1>3

-----------------------------------------------------------------------------
(* Paraguay: a process released since the first window, and not since the   *)
(* next one, is shown until its deadline unless it is closed.               *)
ParaguayKept ==
  cursor # None =>
    /\ first # None /\ cursor.through <= today
    /\ \A l \in Lot :
         /\ listed[l] # 0 => Mine(l) # {}
         /\ /\ Mine(l) # {} /\ Newest(Mine(l)).kind # "close"
            /\ listed[l] # 0 \/ \E n \in Mine(l) : n.day >= first
            /\ \A n \in Mine(l) : n.day < cursor.through + 1 - Overlap
            => listed[l] = OCDS!RowDeadline(Mine(l))

(* What the DNCP publishes.                                                 *)
LEMMA ParaguayIs ==
  ASSUME connector = "paraguay"
  PROVE  /\ Call = OCDS!DNCPFetch(cursor, notices, today) /\ Cursor = OCDS!Cursor
         /\ connector \in Plain /\ ~Gap /\ connector \notin Late
         /\ Kinds = {"tender", "close", "correct"}
         /\ \A l : Remains(l) <=> \/ Newest(Of(l, today)).kind = "close"
                                  \/ ~Elapsed(DeadlineOf(Of(l, today)), today)
BY DEF Call, Cursor, Plain, Gap, Late, Kinds, OCDS!Kinds, Remains

(* A row without a deadline never expires.                                  *)
LEMMA RowDeadlineIs ==
  ASSUME NEW ns
  PROVE  OCDS!RowDeadline(ns) = IF DeadlineOf(ns) = None THEN Undated ELSE DeadlineOf(ns)
BY DEF OCDS!RowDeadline, OCDS!DeadlineOf, DeadlineOf, OCDS!Newest, Newest, OCDS!Dated, Dated,
       OCDS!Undated, Undated

(* The windows of a call over the paged interface.                          *)
LEMMA WindowsAre ==
  ASSUME connector \in {"paraguay", "southafrica"}, Register, TypeOK,
         cursor # None => cursor.through <= today,
         NEW start, start = OCDS!Start(cursor, today),
         NEW last, last = OCDS!LastWindow(cursor, today)
  PROVE  /\ today \in Nat /\ today < Undated /\ start \in Int /\ last \in Int
         /\ Overlap \in Nat \ {0}
         /\ start = IF cursor = None THEN today - Lookback ELSE cursor.through + 1 - Overlap
         /\ cursor # None => start <= last + 1 - Overlap
         /\ last <= today
         /\ cursor # None => cursor.through \in Int
<1>1. cursor # None => cursor.through \in Int
  <2>1. cursor # None => cursor \in OCDS!Cursor
    BY DEF TypeOK, Cursor
  <2> QED
    BY <2>1 DEF OCDS!Cursor
<1>2. /\ today \in Nat /\ today < Undated /\ Overlap \in Nat \ {0} /\ Lookback \in Nat
      /\ Budget \in Nat /\ Budget > 2 * Overlap
  BY TodayIs, UnitsAre
<1>3. start = IF cursor = None THEN today - Lookback ELSE cursor.through + 1 - Overlap
  BY DEF OCDS!Start
<1>4. last = IF today <= start + Budget - 1 THEN today ELSE start + Budget - 1
  BY DEF OCDS!LastWindow, OCDS!LesserOf
<1>5. start \in Int
  BY <1>1, <1>2, <1>3
<1>6. last \in Int /\ last <= today
  BY <1>2, <1>4, <1>5
<1>7. cursor # None => start <= last + 1 - Overlap
  BY <1>1, <1>2, <1>3, <1>4, <1>5
<1> QED
  BY <1>1, <1>2, <1>3, <1>5, <1>6, <1>7

(* Paraguay: windows of days over the paged interface (fetch_incremental,   *)
(* paraguay_dncp.py:141-158).                                               *)
LEMMA ParaguayPoll ==
  ASSUME connector = "paraguay", Register, TypeOK, Screen, ParaguayKept, Poll
  PROVE  (TypeOK /\ Screen /\ ParaguayKept /\ Complete /\ Sound)'
<1> DEFINE start == OCDS!Start(cursor, today)
           last == OCDS!LastWindow(cursor, today)
           In(l) == \E n \in Mine(l) : start <= n.day /\ n.day <= last
           found == OCDS!Found(cursor, notices, today)
           row(l) == OCDS!RowDeadline(Mine(l))
           closed(l) == Newest(Mine(l)).kind = "close"
<1>1. PICK call : call = Call
  OBVIOUS
<1>2. /\ call.cursor = [through |-> last] /\ call.until = OCDS!DNCPRows(found, notices)
      /\ call.done = (last = today) /\ call.first = start
  BY <1>1, ParaguayIs DEF OCDS!DNCPFetch, OCDS!Read, OCDS!Rows
<1>3. /\ today \in Nat /\ today < Undated /\ start \in Int /\ last \in Int
      /\ Overlap \in Nat \ {0}
      /\ start = IF cursor = None THEN today - Lookback ELSE cursor.through + 1 - Overlap
      /\ cursor # None => start <= last + 1 - Overlap
      /\ last <= today
      /\ cursor # None => cursor.through \in Int
  <2>1. cursor # None => cursor.through <= today
    BY DEF ParaguayKept
  <2> QED
    BY <2>1, WindowsAre
<1>4. ASSUME NEW l \in Lot
      PROVE  /\ call.until[l] = IF In(l) /\ ~closed(l) THEN row(l) ELSE None
             /\ Mine(l) # {} => row(l) \in Int /\ row(l) # None
  <2> DEFINE current(n) == {m \in notices : m.lot = n.lot}
             mine == {n \in found : OCDS!Active(current(n)) /\ n.lot = l}
  <2>1. found = {n \in notices : start <= n.day /\ n.day <= last}
    BY DEF OCDS!Found, OCDS!Published
  <2>2. \A n \in notices : n.lot = l => current(n) = Mine(l)
    BY DEF Mine
  <2>3. OCDS!Active(Mine(l)) <=> ~closed(l)
    BY DEF OCDS!Active, OCDS!Newest, Newest
  <2>4. mine # {} <=> In(l) /\ ~closed(l)
    BY <2>1, <2>2, <2>3 DEF Mine
  <2>5. mine # {} => OCDS!Oldest(mine) \in mine
    <3>1. mine \in SUBSET notices
      BY <2>1
    <3> HIDE DEF mine
    <3> QED
      BY <3>1, OldestOf DEF OCDS!Oldest, Oldest
  <2>6. mine # {} => current(OCDS!Oldest(mine)) = Mine(l)
    BY <2>1, <2>2, <2>5
  <2> HIDE DEF found, row, In, closed, current
  <2>7. call.until[l] = IF mine = {} THEN None ELSE OCDS!RowDeadline(current(OCDS!Oldest(mine)))
    <3>1. {n \in {n \in found : OCDS!Active(current(n))} : n.lot = l} = mine
      OBVIOUS
    <3>2. call.until[l] = OCDS!FirstRow({n \in found : OCDS!Active(current(n))},
                                        LAMBDA n : OCDS!RowDeadline(current(n)), l)
      BY <1>2 DEF OCDS!DNCPRows, current
    <3> HIDE DEF mine
    <3> QED
      BY <3>1, <3>2 DEF OCDS!FirstRow
  <2>8. Mine(l) # {} => row(l) \in Int /\ row(l) # None
    BY DeadlineDated, RowDeadlineIs, NoneIs DEF row
  <2> QED
    BY <2>4, <2>6, <2>7, <2>8 DEF row
<1> HIDE DEF start, last, found
<1>5. ASSUME NEW l \in Lot
      PROVE  /\ In(l) /\ ~closed(l) => listed'[l] = row(l)
             /\ ~(In(l) /\ ~closed(l)) => listed'[l] = listed[l]
             /\ cursor = None => listed[l] = 0
  <2>1. In(l) => Mine(l) # {}
    OBVIOUS
  <2> HIDE DEF In, row, closed
  <2> QED
    BY <1>1, <1>4, <2>1, RowsAre, ParaguayIs
<1>6. /\ cursor' = [through |-> last] /\ today' = today
      /\ first' = IF cursor = None THEN start ELSE first
      /\ notices' = notices /\ connector' = connector
  BY <1>1, <1>2, PollParts, ParaguayIs
<1>7. TypeOK' /\ Screen'
  <2>1. call.done \in BOOLEAN
    BY <1>2, Zenon
  <2>2. call.cursor \in OCDS!Cursor /\ call.cursor # None
    BY <1>2, <1>3, NoneAssumption DEF OCDS!Cursor
  <2>3. ASSUME NEW l \in Lot PROVE call.until[l] \in Int \cup {None}
    <3> HIDE DEF row, closed
    <3> QED
      BY <1>4
  <2> QED
    BY <1>1, <1>2, <1>3, <2>1, <2>2, <2>3, ParaguayIs, PollType
<1>8. ASSUME NEW l \in Lot
      PROVE  \A n \in Mine(l) : n.day \in Nat /\ n.day <= today
  BY OfToday, Times DEF Register
<1> HIDE DEF row, closed
<1>9. ASSUME NEW l \in Lot, Mine(l) # {}, ~closed(l), \A m \in Mine(l) : m.day <= last,
             listed'[l] # 0 \/ \E n \in Mine(l) : n.day >= first'
      PROVE  listed'[l] = row(l)
  <2>1. CASE In(l)
    BY <1>5, <1>9, <2>1
  <2>2. CASE ~In(l)
    <3>1. \A m \in Mine(l) : m.day < start
      BY <1>3, <1>8, <1>9, <2>2
    <3>2. listed'[l] = listed[l]
      BY <1>5, <2>2
    <3>3. cursor # None /\ first' = first
      <4>1. CASE cursor = None
        BY <1>3, <1>5, <1>6, <1>8, <1>9, <3>1, <3>2, <4>1
      <4> QED
        BY <1>6, <4>1
    <3>4. listed[l] = row(l)
      BY <1>3, <1>9, <3>1, <3>2, <3>3 DEF ParaguayKept, row, closed
    <3> QED
      BY <3>2, <3>4
  <2> QED
    BY <2>1, <2>2
<1>10. ASSUME NEW l \in Lot, listed'[l] # 0 PROVE Mine(l) # {}
  <2>1. CASE In(l)
    BY <2>1
  <2>2. CASE ~In(l)
    BY <1>5, <1>10, <2>2 DEF ParaguayKept
  <2> QED
    BY <2>1, <2>2
<1>11. ParaguayKept'
  <2>1. cursor'.through = last /\ first' # None
    BY <1>3, <1>6, NoneIs DEF ParaguayKept
  <2>2. \A l \in Lot : Mine(l)' = Mine(l)
    BY <1>6 DEF Mine
  <2>3. ASSUME NEW l \in Lot, Mine(l) # {}, ~closed(l),
               listed'[l] # 0 \/ \E n \in Mine(l) : n.day >= first',
               \A n \in Mine(l) : n.day < last + 1 - Overlap
        PROVE  listed'[l] = row(l)
    <3>1. \A m \in Mine(l) : m.day <= last
      BY <1>3, <1>8, <2>3
    <3> QED
      BY <1>9, <2>3, <3>1
  <2>4. (first # None /\ cursor.through <= today)'
    BY <1>3, <1>6, <2>1
  <2>5. \A l \in Lot : OCDS!RowDeadline(Mine(l))' = row(l)
    <3>1. \A ns : OCDS!RowDeadline(ns)' = OCDS!RowDeadline(ns)
      BY DEF OCDS!RowDeadline, OCDS!DeadlineOf, OCDS!Newest, OCDS!Dated, OCDS!Undated
    <3> QED
      BY <2>2, <3>1 DEF row
  <2> QED
    BY <1>10, <2>1, <2>2, <2>3, <2>4, <2>5 DEF ParaguayKept, closed
<1>12. ASSUME call.done, NEW l \in Lot, NEW n \in Mine(l) PROVE n.day <= last
  <2>1. last = today
    BY <1>2, <1>12
  <2> QED
    BY <1>3, <1>8, <2>1
<1>13. Complete'
  <2>1. ASSUME NEW l \in Lot, call.done,
               \A ns \in Views(l) : OpenBy(ns) /\ Newest(Tenders(ns)).day >= first'
        PROVE  listed'[l] > today
    <3>1. OpenBy(Mine(l)) /\ Newest(Tenders(Mine(l))).day >= first'
      BY <2>1, ViewsAre
    <3>2. Newest(Tenders(Mine(l))) \in Mine(l) /\ ~closed(l)
      BY <3>1, TenderOf DEF OpenBy, closed
    <3>3. listed'[l] = row(l)
      BY <1>9, <1>12, <2>1, <3>1, <3>2
    <3>4. row(l) > today
      BY <3>1, RowDeadlineIs DEF row, OpenBy, Future
    <3> QED
      BY <3>3, <3>4
  <2> QED
    BY <1>1, <2>1, CompleteAfter
<1>14. Sound'
  <2>1. ASSUME NEW l \in Lot, call.done, listed'[l] > today PROVE Remains(l)
    <3>1. listed'[l] # 0
      BY <1>3, <2>1
    <3>2. Mine(l) # {}
      BY <1>10, <3>1
    <3>3. SUFFICES ASSUME ~closed(l) PROVE ~Elapsed(DeadlineOf(Mine(l)), today)
      BY OfToday, ParaguayIs DEF closed
    <3>4. listed'[l] = row(l)
      BY <1>9, <1>12, <2>1, <3>1, <3>2, <3>3
    <3>5. row(l) = IF DeadlineOf(Mine(l)) = None THEN Undated ELSE DeadlineOf(Mine(l))
      BY RowDeadlineIs DEF row
    <3>6. DeadlineOf(Mine(l)) \in Int \cup {None}
      BY <3>2, DeadlineDated
    <3> QED
      BY <1>3, <2>1, <3>4, <3>5, <3>6, NoneIs DEF Elapsed
  <2>2. Withdrawn(call) \subseteq shown
    BY ParaguayIs DEF Withdrawn
  <2> QED
    BY <1>1, <2>1, <2>2, SoundAfter
<1> QED
  BY <1>7, <1>11, <1>13, <1>14

(* A notice is dated within the overlap the next call reads again.          *)
LEMMA ParaguayRest ==
  ASSUME connector = "paraguay", Register, TypeOK, ParaguayKept
  PROVE  /\ \A l \in Lot : \A n : New(n, l) => ParaguayKept'
         /\ NextDay => ParaguayKept'
<1>1. cursor # None => cursor.through \in Int /\ first \in Int
  <2>1. cursor # None => cursor \in OCDS!Cursor
    BY ParaguayIs DEF TypeOK
  <2> QED
    BY <2>1 DEF OCDS!Cursor, TypeOK, ParaguayKept
<1>2. \A ns : OCDS!RowDeadline(ns)' = OCDS!RowDeadline(ns)
  BY DEF OCDS!RowDeadline, OCDS!DeadlineOf, OCDS!Newest, OCDS!Dated, OCDS!Undated
<1>3. ASSUME NEW l \in Lot, NEW n, New(n, l) PROVE ParaguayKept'
  <2> USE <1>3, NewMine
  <2> SUFFICES ASSUME cursor # None PROVE ParaguayKept'
    BY DEF ParaguayKept
  <2>1. n.day >= cursor.through + 1 - Overlap
    BY <1>1, TodayIs, UnitsAre, ParaguayIs DEF ParaguayKept
  <2>2. ~\A m \in Mine(l)' : m.day < cursor.through + 1 - Overlap
    BY <1>1, <2>1, UnitsAre
  <2>3. \A k \in Lot : Mine(k) # {} => Mine(k)' # {}
    OBVIOUS
  <2> QED
    BY <1>2, <2>2, <2>3 DEF ParaguayKept
<1>4. ASSUME NextDay PROVE ParaguayKept'
  <2> USE <1>4, NextDayIs
  <2> SUFFICES ASSUME cursor # None PROVE ParaguayKept'
    BY DEF ParaguayKept
  <2>1. cursor.through <= today + 1
    BY <1>1, TodayIs DEF ParaguayKept
  <2> QED
    BY <1>2, <2>1 DEF ParaguayKept
<1> QED
  BY <1>3, <1>4

-----------------------------------------------------------------------------
(* South Africa and Latvia: a tender that is not corrected is shown until   *)
(* its deadline, once its day is not read again.                            *)
TendersKept ==
  cursor # None =>
    /\ first # None /\ cursor.through <= today
    /\ \A l \in Lot :
         /\ listed[l] # 0 => Mine(l) # {}
         /\ \A t \in Mine(l) :
              /\ t.kind = "tender" /\ Future(t.deadline, today)
              /\ \A n \in Mine(l) : n.kind # "correct"
              /\ first <= t.day /\ t.day < cursor.through + 1 - Overlap
              => listed[l] = t.deadline

(* What a call reads of it.                                                 *)
TendersRead(call, start, last, view) ==
  /\ cursor # None => cursor.through \in Int /\ start = cursor.through + 1 - Overlap
  /\ {start, last, view} \subseteq Int /\ last <= today /\ view <= today
  /\ call.cursor = [through |-> last] /\ call.first = start
  /\ call.done \in BOOLEAN /\ (call.done => last = view)
  /\ \A l : Views(l) = {Of(l, view)}
  /\ \A l \in Lot :
       /\ call.until[l] \in Int \cup {None} /\ (call.until[l] # None => Mine(l) # {})
       /\ \A t \in Mine(l) :
            /\ t.kind = "tender" /\ Future(t.deadline, today)
            /\ \A n \in Mine(l) : n.kind # "correct"
            => call.until[l] = IF start <= t.day /\ t.day <= last THEN t.deadline ELSE None

LEMMA TendersPoll ==
  ASSUME connector \in {"southafrica", "latvia"}, Register, TypeOK, Screen, TendersKept, Poll,
         NEW call, call = Call, NEW start, NEW last, NEW view, TendersRead(call, start, last, view)
  PROVE  (TypeOK /\ Screen /\ TendersKept /\ Complete /\ Sound)'
<1> USE DEF TendersRead
<1>1. /\ Cursor = OCDS!Cursor \/ Cursor = Latvia!Cursor
      /\ connector \in Plain /\ ~Gap
      /\ \A l : Remains(l) <=> Of(l, today) # {}
      /\ \A l : Superseded(l) <=> \E n \in Mine(l) : n.kind = "correct"
  BY DEF Cursor, Plain, Gap, Remains, Superseded, Mine
<1>2. today \in Nat /\ today < Undated /\ Overlap \in Nat \ {0}
  BY TodayIs, UnitsAre
<1>3. /\ cursor' = [through |-> last] /\ today' = today
      /\ first' = IF cursor = None THEN start ELSE first
      /\ notices' = notices /\ connector' = connector
  BY <1>1, PollParts
<1>4. TypeOK' /\ Screen'
  <2>1. call.cursor \in Cursor
    BY <1>1 DEF OCDS!Cursor, Latvia!Cursor
  <2>2. call.cursor # None
    BY <1>1, <2>1, NoneAssumption
  <2>3. \A l \in Lot : call.until[l] \in Int \cup {None}
    OBVIOUS
  <2> QED
    BY <2>1, <2>2, <2>3, PollType
<1>5. ASSUME NEW l \in Lot
      PROVE  /\ listed'[l] = IF call.until[l] = None THEN listed[l] ELSE call.until[l]
             /\ cursor = None => listed[l] = 0
  BY <1>1, RowsAre
<1>6. ASSUME NEW l \in Lot
      PROVE  \A n \in Mine(l) : n.day \in Nat /\ n.day <= today
  BY OfToday, Times DEF Register
<1>7. ASSUME NEW l \in Lot, NEW t \in Mine(l), t.kind = "tender", Future(t.deadline, today),
             \A n \in Mine(l) : n.kind # "correct", first' <= t.day, t.day <= last
      PROVE  listed'[l] = t.deadline
  <2>1. call.until[l] = IF start <= t.day /\ t.day <= last THEN t.deadline ELSE None
    BY <1>7
  <2>2. CASE start <= t.day
    <3>1. t.deadline # None
      BY <1>7 DEF Future
    <3> QED
      BY <1>5, <1>7, <2>1, <2>2, <3>1
  <2>3. CASE ~(start <= t.day)
    <3>1. listed'[l] = listed[l]
      BY <1>5, <2>1, <2>3
    <3>2. cursor # None /\ first' = first /\ t.day < cursor.through + 1 - Overlap
      BY <1>2, <1>3, <1>6, <1>7, <2>3
    <3>3. listed[l] = t.deadline
      BY <1>7, <3>2 DEF TendersKept
    <3> QED
      BY <3>1, <3>3
  <2> QED
    BY <2>2, <2>3
<1>8. ASSUME NEW l \in Lot, listed'[l] # 0 PROVE Mine(l) # {}
  <2>1. CASE call.until[l] # None
    BY <2>1
  <2>2. CASE call.until[l] = None
    BY <1>5, <1>8, <2>2 DEF TendersKept
  <2> QED
    BY <2>1, <2>2
<1>9. TendersKept'
  <2>1. cursor'.through = last /\ first' # None
    BY <1>3, NoneIs DEF TendersKept
  <2>2. \A l \in Lot : Mine(l)' = Mine(l)
    BY <1>3 DEF Mine
  <2>3. ASSUME NEW l \in Lot, NEW t \in Mine(l), t.kind = "tender", Future(t.deadline, today),
               \A n \in Mine(l) : n.kind # "correct", first' <= t.day,
               t.day < last + 1 - Overlap
        PROVE  listed'[l] = t.deadline
    <3>1. t.day <= last
      BY <1>2, <1>6, <2>3
    <3> QED
      BY <1>7, <2>3, <3>1
  <2>4. (first # None /\ cursor.through <= today)'
    BY <1>3, <2>1
  <2> QED
    BY <1>3, <1>8, <2>1, <2>2, <2>3, <2>4 DEF TendersKept
<1>10. Complete'
  <2>1. ASSUME NEW l \in Lot, call.done, ~Superseded(l),
               \A ns \in Views(l) : OpenBy(ns) /\ Newest(Tenders(ns)).day >= first'
        PROVE  listed'[l] > today
    <3> DEFINE ns == Of(l, view)
               t == Newest(Tenders(ns))
    <3>1. OpenBy(ns) /\ t.day >= first'
      BY <2>1
    <3>2. Dated(ns) # {} /\ Future(DeadlineOf(ns), today)
      BY <3>1 DEF OpenBy
    <3>3. ns \subseteq Mine(l) /\ \A n \in Mine(l) : n.kind # "correct"
      BY <1>1, <2>1 DEF Of, Mine
    <3>4. Tenders(ns) = Dated(ns)
      BY <3>3 DEF Tenders, Dated
    <3>5. Dated(ns) \in SUBSET notices
      BY <3>3 DEF Dated, Mine
    <3>6. t \in Dated(ns) /\ DeadlineOf(ns) = t.deadline
      BY <3>2, <3>4, <3>5, NewestOf DEF DeadlineOf
    <3>7. t \in Mine(l) /\ t.kind = "tender" /\ t.day <= view
      BY <3>3, <3>4, <3>6 DEF Tenders, Of
    <3>8. t.day <= last /\ Future(t.deadline, today)
      BY <2>1, <3>2, <3>6, <3>7
    <3>9. first' <= t.day
      BY <3>1, <1>3, <3>7, <1>6 DEF TypeOK, TendersKept
    <3> HIDE DEF t
    <3>10. listed'[l] = t.deadline
      BY <1>7, <3>3, <3>7, <3>8, <3>9
    <3> QED
      BY <3>8, <3>10 DEF Future
  <2> QED
    BY <2>1, CompleteAfter
<1>11. Sound'
  <2>1. ASSUME NEW l \in Lot, listed'[l] > today PROVE Remains(l)
    <3>1. listed'[l] # 0
      BY <1>2, <2>1
    <3> QED
      BY <1>1, <1>8, <3>1, OfToday
  <2>2. Withdrawn(call) \subseteq shown
    BY <1>1 DEF Withdrawn
  <2> QED
    BY <2>1, <2>2, SoundAfter
<1> QED
  BY <1>4, <1>9, <1>10, <1>11

(* The same of South Africa and Latvia.                                     *)
LEMMA TendersRest ==
  ASSUME connector \in {"southafrica", "latvia"}, Register, TypeOK, TendersKept
  PROVE  /\ \A l \in Lot : \A n : New(n, l) => TendersKept'
         /\ NextDay => TendersKept'
<1>1. cursor # None => cursor.through \in Int /\ first \in Int
  <2>1. cursor # None => cursor \in OCDS!Cursor \/ cursor \in Latvia!Cursor
    BY DEF TypeOK, Cursor
  <2> QED
    BY <2>1 DEF OCDS!Cursor, Latvia!Cursor, TypeOK, TendersKept
<1>2. ASSUME NEW l \in Lot, NEW n, New(n, l) PROVE TendersKept'
  <2> USE <1>2, NewMine
  <2> SUFFICES ASSUME cursor # None PROVE TendersKept'
    BY DEF TendersKept
  <2>1. n.day >= cursor.through + 1 - Overlap
    BY <1>1, TodayIs, UnitsAre DEF TendersKept, Late
  <2>2. ~(n.day < cursor.through + 1 - Overlap)
    BY <1>1, <2>1, UnitsAre
  <2>3. \A k \in Lot : /\ Mine(k) # {} => Mine(k)' # {}
                       /\ Mine(k) \subseteq Mine(k)' /\ Mine(k)' \subseteq Mine(k) \cup {n}
    OBVIOUS
  <2> QED
    BY <2>2, <2>3 DEF TendersKept
<1>3. ASSUME NextDay PROVE TendersKept'
  <2> USE <1>3, NextDayIs
  <2> SUFFICES ASSUME cursor # None PROVE TendersKept'
    BY DEF TendersKept
  <2>1. cursor.through <= today + 1
    BY <1>1, TodayIs DEF TendersKept
  <2>2. ASSUME NEW l \in Lot, NEW t \in Mine(l), Future(t.deadline, today')
        PROVE  Future(t.deadline, today)
    <3>1. t.deadline \in Int \cup {None}
      BY OfToday, Times
    <3> QED
      BY <2>2, <3>1, TodayIs DEF Future
  <2> QED
    BY <2>1, <2>2 DEF TendersKept
<1> QED
  BY <1>2, <1>3

(* Where an uncorrected tender comes first and only once.                   *)
LEMMA OnlyTender ==
  ASSUME connector \in {"southafrica", "latvia"}, Register, Orderly, NEW l \in Lot,
         NEW t \in Mine(l), t.kind = "tender", \A n \in Mine(l) : n.kind # "correct"
  PROVE  /\ \A n \in Mine(l) : n.kind \in {"tender", "correct"} => n = t
         /\ \A n \in Mine(l) : n.at <= t.at => n = t
         /\ Newest({t}) = t /\ Dated({t}) = {t} /\ DeadlineOf({t}) = t.deadline
<1>1. connector \notin Republishes /\ connector \notin Late
  BY ConnectorsAssumption DEF Republishing, Late
<1>2. \A n \in Mine(l) : n.kind \in {"tender", "correct"} => n = t
  BY <1>1 DEF Register, Mine
<1>3. \A n \in Mine(l) : n.kind # "tender" => t.at < n.at
  BY <1>1 DEF Orderly, Mine
<1>4. \A n \in Mine(l) : n.at \in Nat
  BY OfToday, Times
<1>5. Newest({t}) = t
  <2>1. {t} \in SUBSET notices /\ {t} # {}
    BY OfToday
  <2>2. Newest({t}) \in {t}
    BY <2>1, NewestOf
  <2> QED
    BY <2>2
<1>6. Dated({t}) = {t}
  BY DEF Dated
<1> QED
  BY <1>2, <1>3, <1>4, <1>5, <1>6 DEF DeadlineOf

(* South Africa: the windows of Paraguay's family, the first row of a lot   *)
(* kept (fetch_incremental, south_africa_etenders.py:105-135).              *)
LEMMA SouthAfricaPoll ==
  ASSUME connector = "southafrica", Register, Orderly, TypeOK, Screen, TendersKept, Poll
  PROVE  (TypeOK /\ Screen /\ TendersKept /\ Complete /\ Sound)'
<1> DEFINE start == OCDS!Start(cursor, today)
           last == OCDS!LastWindow(cursor, today)
           found == OCDS!Found(cursor, notices, today)
           asOf(n) == {m \in notices : m.lot = n.lot /\ m.at <= n.at}
           row(n) == OCDS!Active(asOf(n)) /\ OCDS!Future(OCDS!DeadlineOf(asOf(n)), today)
           rows(l) == {n \in found : row(n) /\ n.lot = l}
<1>1. PICK call : call = Call
  OBVIOUS
<1>2. Call = OCDS!ETendersFetch(cursor, notices, today)
  BY DEF Call
<1>3. /\ call.cursor = [through |-> last]
      /\ call.until = OCDS!ETendersRows(found, notices, today)
      /\ call.done = (last = today) /\ call.first = start
  BY <1>1, <1>2 DEF OCDS!ETendersFetch, OCDS!Read, OCDS!Rows
<1>4. /\ today \in Nat /\ start \in Int /\ last \in Int
      /\ start = IF cursor = None THEN today - Lookback ELSE cursor.through + 1 - Overlap
      /\ last <= today
      /\ cursor # None => cursor.through \in Int
  <2>1. cursor # None => cursor.through <= today
    BY DEF TendersKept
  <2> QED
    BY <2>1, WindowsAre
<1>5. found = {n \in notices : start <= n.day /\ n.day <= last}
  BY DEF OCDS!Found, OCDS!Published
<1> HIDE DEF start, last, found
<1>6. ASSUME NEW n \in notices, row(n)
      PROVE  DeadlineOf(asOf(n)) \in Int /\ OCDS!RowDeadline(asOf(n)) = DeadlineOf(asOf(n))
  <2>1. OCDS!DeadlineOf(asOf(n)) = DeadlineOf(asOf(n))
    BY DEF OCDS!DeadlineOf, DeadlineOf, OCDS!Newest, Newest, OCDS!Dated, Dated
  <2>2. DeadlineOf(asOf(n)) # None
    BY <1>6, <2>1 DEF OCDS!Future
  <2>3. Dated(asOf(n)) # {}
    <3>1. n.at \in Nat
      BY Times
    <3>2. CASE n.kind \in {"tender", "correct"}
      BY <3>1, <3>2 DEF Dated
    <3>3. CASE n.kind \notin {"tender", "correct"}
      <4>1. PICK t \in notices : t.lot = n.lot /\ t.kind = "tender" /\ t.at < n.at
        BY <3>3 DEF Register
      <4>2. t.at \in Nat
        BY Times
      <4>3. t \in asOf(n)
        BY <3>1, <4>1, <4>2
      <4> QED
        BY <4>1, <4>3 DEF Dated
    <3> QED
      BY <3>2, <3>3
  <2>4. DeadlineOf(asOf(n)) \in Int \cup {None}
    BY <2>3, DeadlineOfType
  <2> QED
    BY <2>2, <2>4, RowDeadlineIs
<1>7. ASSUME NEW l \in Lot
      PROVE  /\ rows(l) = {} => call.until[l] = None
             /\ rows(l) # {} =>
                  \E n \in rows(l) : /\ call.until[l] = DeadlineOf(asOf(n))
                                     /\ call.until[l] \in Int
  <2>1. call.until[l] = OCDS!FirstRow({n \in found : row(n)},
                                      LAMBDA n : OCDS!RowDeadline(asOf(n)), l)
    BY <1>3 DEF OCDS!ETendersRows
  <2>2. rows(l) \in SUBSET notices
    BY <1>5
  <2>3. rows(l) # {} => Oldest(rows(l)) \in rows(l)
    BY <2>2, OldestOf
  <2>4. {n \in {n \in found : row(n)} : n.lot = l} = rows(l)
    OBVIOUS
  <2>5. rows(l) # {} => row(Oldest(rows(l))) /\ Oldest(rows(l)) \in notices
    BY <2>2, <2>3
  <2>6. OCDS!Oldest(rows(l)) = Oldest(rows(l))
    BY DEF OCDS!Oldest, Oldest
  <2> HIDE DEF row, asOf, rows
  <2>7. call.until[l] = IF rows(l) = {} THEN None ELSE OCDS!RowDeadline(asOf(Oldest(rows(l))))
    BY <2>1, <2>4, <2>6 DEF OCDS!FirstRow
  <2> QED
    BY <1>6, <2>3, <2>5, <2>7
<1>8. ASSUME NEW l \in Lot, NEW t \in Mine(l), t.kind = "tender", Future(t.deadline, today),
             \A n \in Mine(l) : n.kind # "correct"
      PROVE  call.until[l] = IF start <= t.day /\ t.day <= last THEN t.deadline ELSE None
  <2>1. t \in notices /\ t.lot = l /\ t.at \in Nat
    BY OfToday, Times DEF Mine
  <2>2. asOf(t) = {t}
    <3>1. \A n \in Mine(l) : n.at <= t.at => n = t
      BY <1>8, OnlyTender
    <3> QED
      BY <2>1, <3>1 DEF Mine
  <2>3. /\ Newest({t}) = t /\ Dated({t}) = {t} /\ DeadlineOf({t}) = t.deadline
    BY <1>8, OnlyTender
  <2>4. /\ OCDS!DeadlineOf({t}) = DeadlineOf({t}) /\ OCDS!Newest({t}) = Newest({t})
        /\ OCDS!Future(t.deadline, today) <=> Future(t.deadline, today)
    BY DEF OCDS!DeadlineOf, DeadlineOf, OCDS!Newest, Newest, OCDS!Dated, Dated, OCDS!Future, Future
  <2>5. row(t) /\ DeadlineOf(asOf(t)) = t.deadline
    BY <1>8, <2>2, <2>3, <2>4 DEF OCDS!Active
  <2>6. ASSUME NEW n \in notices, n.lot = l, row(n) PROVE n = t
    <3>1. n \in Mine(l)
      BY <2>6 DEF Mine
    <3>2. asOf(n) \in SUBSET notices /\ n \in asOf(n) /\ \A o \in asOf(n) : o.at <= n.at
      <4>1. n.at \in Nat
        BY Times
      <4> QED
        BY <4>1
    <3>3. Newest(asOf(n)) = n
      <4> HIDE DEF asOf
      <4> QED
        BY <3>2, NewestOf
    <3>4. n.kind # "close"
      BY <2>6, <3>3 DEF OCDS!Active, OCDS!Newest, Newest
    <3>5. n.kind \in {"tender", "close", "correct"}
      BY DEF Register, Terms, Kinds, OCDS!Kinds
    <3> QED
      BY <1>8, <3>1, <3>4, <3>5, OnlyTender
  <2>7. rows(l) = IF start <= t.day /\ t.day <= last THEN {t} ELSE {}
    <3>1. t \in found <=> start <= t.day /\ t.day <= last
      BY <1>5, <2>1
    <3>2. \A n \in rows(l) : n = t /\ t \in found
      <4> HIDE DEF row
      <4> QED
        BY <1>5, <2>6
    <3>3. t \in found => t \in rows(l)
      BY <2>1, <2>5
    <3> HIDE DEF rows
    <3> QED
      BY <3>1, <3>2, <3>3
  <2> HIDE DEF rows, row, asOf
  <2>8. rows(l) = {t} => call.until[l] = t.deadline
    BY <1>7, <2>5
  <2>9. rows(l) = {} => call.until[l] = None
    BY <1>7
  <2> QED
    BY <2>7, <2>8, <2>9
<1>9. ASSUME NEW l \in Lot
      PROVE  call.until[l] \in Int \cup {None} /\ (call.until[l] # None => Mine(l) # {})
  <2>1. rows(l) # {} => Mine(l) # {}
    BY <1>5 DEF Mine
  <2> HIDE DEF rows, row, asOf
  <2> QED
    BY <1>7, <2>1
<1>10. (\A l : Views(l) = {Of(l, today)}) /\ call.done \in BOOLEAN
  <2>1. \A l : Views(l) = {Of(l, today)}
    BY DEF Views
  <2>2. call.done \in BOOLEAN
    BY <1>3, Zenon
  <2> QED
    BY <2>1, <2>2
<1> QED
  <2>1. call.done => last = today
    BY <1>3, Zenon
  <2>2. PICK view : view = today
    OBVIOUS
  <2>3. /\ call.cursor = [through |-> last] /\ call.first = start
        /\ call.done => last = view
        /\ cursor # None => start = cursor.through + 1 - Overlap
        /\ view \in Int /\ view <= today
        /\ \A l : Views(l) = {Of(l, view)}
    BY <1>3, <1>4, <1>10, <2>1, <2>2
  <2>4. \A l \in Lot :
           /\ call.until[l] \in Int \cup {None} /\ (call.until[l] # None => Mine(l) # {})
           /\ \A t \in Mine(l) :
                /\ t.kind = "tender" /\ Future(t.deadline, today)
                /\ \A n \in Mine(l) : n.kind # "correct"
                => call.until[l] = IF start <= t.day /\ t.day <= last THEN t.deadline ELSE None
    BY <1>8, <1>9
  <2> HIDE DEF rows, row, asOf
  <2>5. TendersRead(call, start, last, view)
    BY <1>4, <1>10, <2>3, <2>4 DEF TendersRead
  <2> QED
    BY <1>1, <2>5, TendersPoll

(* Latvia: daily files of the days that are over, the last one read again   *)
(* (fetch_incremental, official_json_bulk_adapter.py:110-142).              *)
LEMMA LatviaPoll ==
  ASSUME connector = "latvia", Register, Orderly, TypeOK, Screen, TendersKept, Poll
  PROVE  (TypeOK /\ Screen /\ TendersKept /\ Complete /\ Sound)'
<1> DEFINE start == Latvia!Start(cursor, today)
           last == Latvia!LastFile(cursor, today)
           row(n) == n.kind \in {"tender", "correct"} /\ Future(n.deadline, today)
           rows(l) == {n \in notices : start <= n.day /\ n.day <= last /\ row(n) /\ n.lot = l}
<1>1. PICK call : call = Call
  OBVIOUS
<1>2. Call = Latvia!Fetch(cursor, notices, today)
  BY DEF Call
<1>3. /\ call.cursor = [through |-> last]
      /\ call.until = Latvia!RowsOf(Latvia!Published(notices, start, last), today)
      /\ call.done = (last = today - 1) /\ call.first = start
  BY <1>1, <1>2 DEF Latvia!Fetch, Latvia!Rows, Latvia!TargetEnd
<1>4. /\ today \in Nat /\ start \in Int /\ last \in Int
      /\ start = IF cursor = None THEN today - 1 - Lookback ELSE cursor.through + 1 - Overlap
      /\ last <= today
      /\ cursor # None => cursor.through \in Int
  <2>1. cursor # None => cursor \in Latvia!Cursor
    BY DEF TypeOK, Cursor
  <2>2. cursor # None => cursor.through \in Int
    BY <2>1 DEF Latvia!Cursor
  <2>3. /\ today \in Nat /\ Overlap \in Nat /\ Lookback \in Nat /\ Budget \in Nat
    BY TodayIs, UnitsAre
  <2>4. start = IF cursor = None THEN today - 1 - Lookback ELSE cursor.through + 1 - Overlap
    BY DEF Latvia!Start, Latvia!TargetEnd
  <2>5. last = IF today - 1 <= start + Budget - 1 THEN today - 1 ELSE start + Budget - 1
    BY DEF Latvia!LastFile, Latvia!LesserOf, Latvia!TargetEnd
  <2> HIDE DEF start, last
  <2> QED
    BY <2>2, <2>3, <2>4, <2>5
<1> HIDE DEF start, last
<1>5. ASSUME NEW l \in Lot
      PROVE  /\ rows(l) = {} => call.until[l] = None
             /\ rows(l) # {} => \E n \in rows(l) : call.until[l] = n.deadline
             /\ call.until[l] \in Int \cup {None}
  <2> DEFINE competition == {n \in Latvia!Published(notices, start, last) :
                               n.kind \in {"tender", "correct"} /\ Latvia!Future(n.deadline, today)}
  <2>1. call.until[l] = Latvia!FirstRow(competition, LAMBDA n : n.deadline, l)
    BY <1>3 DEF Latvia!RowsOf
  <2>2. {n \in competition : n.lot = l} = rows(l)
    BY DEF Latvia!Published, Latvia!Future, Future
  <2>3. rows(l) # {} => Oldest(rows(l)) \in rows(l)
    <3>1. rows(l) \in SUBSET notices
      OBVIOUS
    <3> HIDE DEF rows
    <3> QED
      BY <3>1, OldestOf
  <2>4. \A n \in rows(l) : n.deadline \in Int
    BY Times DEF Future
  <2> HIDE DEF rows, competition
  <2>5. call.until[l] = IF rows(l) = {} THEN None ELSE Oldest(rows(l)).deadline
    BY <2>1, <2>2 DEF Latvia!FirstRow, Latvia!Oldest, Oldest
  <2> QED
    BY <2>3, <2>4, <2>5
<1>6. ASSUME NEW l \in Lot, NEW t \in Mine(l), t.kind = "tender", Future(t.deadline, today),
             \A n \in Mine(l) : n.kind # "correct"
      PROVE  call.until[l] = IF start <= t.day /\ t.day <= last THEN t.deadline ELSE None
  <2>1. \A n \in Mine(l) : n.kind \in {"tender", "correct"} => n = t
    BY <1>6, OnlyTender
  <2>2. rows(l) = IF start <= t.day /\ t.day <= last THEN {t} ELSE {}
    BY <1>6, <2>1 DEF Mine
  <2> HIDE DEF rows
  <2> QED
    BY <1>5, <2>2
<1>7. ASSUME NEW l \in Lot
      PROVE  call.until[l] \in Int \cup {None} /\ (call.until[l] # None => Mine(l) # {})
  <2>1. rows(l) # {} => Mine(l) # {}
    BY DEF Mine
  <2> HIDE DEF rows
  <2> QED
    BY <1>5, <2>1
<1>8. (\A l : Views(l) = {Of(l, today - 1)}) /\ call.done \in BOOLEAN
  <2>1. \A l : Views(l) = {Of(l, today - 1)}
    BY DEF Views
  <2>2. call.done \in BOOLEAN
    BY <1>3, Zenon
  <2> QED
    BY <2>1, <2>2
<1> QED
  <2>1. call.done => last = today - 1
    BY <1>3, Zenon
  <2>2. PICK view : view = today - 1
    OBVIOUS
  <2>3. /\ call.cursor = [through |-> last] /\ call.first = start
        /\ call.done => last = view
        /\ cursor # None => start = cursor.through + 1 - Overlap
        /\ view \in Int /\ view <= today
        /\ \A l : Views(l) = {Of(l, view)}
    BY <1>3, <1>4, <1>8, <2>1, <2>2
  <2>4. \A l \in Lot :
           /\ call.until[l] \in Int \cup {None} /\ (call.until[l] # None => Mine(l) # {})
           /\ \A t \in Mine(l) :
                /\ t.kind = "tender" /\ Future(t.deadline, today)
                /\ \A n \in Mine(l) : n.kind # "correct"
                => call.until[l] = IF start <= t.day /\ t.day <= last THEN t.deadline ELSE None
    BY <1>6, <1>7
  <2>5. TendersRead(call, start, last, view)
    BY <1>4, <1>8, <2>3, <2>4 DEF TendersRead
  <2> QED
    BY <1>1, <2>5, TendersPoll

-----------------------------------------------------------------------------
(* Colombia: the row of a process changed since the first one read, and not *)
(* since those read again, is shown until its deadline unless it is closed. *)
ColombiaKept ==
  cursor # None =>
    /\ first # None /\ cursor.through <= today
    /\ \A l \in Lot :
         /\ listed[l] # 0 => Mine(l) # {}
         /\ /\ Mine(l) # {} /\ Newest(Mine(l)).kind # "close"
            /\ listed[l] # 0 \/ Newest(Mine(l)).day >= first
            /\ Newest(Mine(l)).day < cursor.through - Overlap
            => listed[l] = Colombia!RowDeadline(Mine(l))

(* What SECOP publishes: one row for each lot, as of its last change.       *)
LEMMA ColombiaIs ==
  ASSUME connector = "colombia"
  PROVE  /\ Call = Colombia!Fetch(cursor, notices, today) /\ Cursor = Colombia!Cursor
         /\ connector \in Plain /\ ~Gap /\ connector \notin Late
         /\ Kinds = {"tender", "close", "reopen", "correct"}
         /\ \A l : Remains(l) <=> \/ Newest(Of(l, today)).kind = "close"
                                  \/ ~Elapsed(DeadlineOf(Of(l, today)), today)
         /\ \A ns : Colombia!RowDeadline(ns) =
                      IF DeadlineOf(ns) = None THEN Undated ELSE DeadlineOf(ns)
         /\ \A l : Colombia!Changed(notices, l) = Newest(Mine(l))
BY DEF Call, Cursor, Plain, Gap, Late, Kinds, Colombia!Kinds, Remains, Colombia!RowDeadline,
       Colombia!DeadlineOf, DeadlineOf, Colombia!Newest, Newest, Colombia!Dated, Dated,
       Colombia!Undated, Undated, Colombia!Changed, Mine

(* Colombia: the open rows changed since the cursor less the overlap        *)
(* (fetch_incremental, socrata_adapter.py:185-232).                         *)
LEMMA ColombiaPoll ==
  ASSUME connector = "colombia", Register, TypeOK, Screen, ColombiaKept, Poll
  PROVE  (TypeOK /\ Screen /\ ColombiaKept /\ Complete /\ Sound)'
<1> DEFINE start == Colombia!Start(cursor, today)
           selected == Colombia!Selected(notices, start)
           N(l) == Newest(Mine(l))
           row(l) == Colombia!RowDeadline(Mine(l))
<1>1. PICK call : call = Call
  OBVIOUS
<1>2. /\ call.cursor = Colombia!NextCursor(cursor, notices, selected)
      /\ call.until = [l \in Lot |-> IF l \in selected
                         THEN Colombia!RowDeadline({n \in notices : n.lot = l}) ELSE None]
      /\ call.done = TRUE /\ call.first = start
  BY <1>1, ColombiaIs DEF Colombia!Fetch, Colombia!Rows
<1>3. /\ today \in Nat /\ today < Undated /\ start \in Int /\ Overlap \in Nat \ {0}
      /\ start = IF cursor = None THEN today - Lookback ELSE cursor.through - Overlap
      /\ cursor # None => cursor.through \in Int
  <2>1. cursor # None => cursor \in Colombia!Cursor
    BY ColombiaIs DEF TypeOK
  <2>2. cursor # None => cursor.through \in Int
    BY <2>1 DEF Colombia!Cursor
  <2>3. start = IF cursor = None THEN today - Lookback ELSE cursor.through - Overlap
    BY DEF Colombia!Start
  <2> QED
    BY <2>2, <2>3, TodayIs, UnitsAre
<1>4. ASSUME NEW l \in Lot, Mine(l) # {}
      PROVE  /\ N(l) \in Mine(l) /\ N(l) \in notices /\ N(l).day \in Nat /\ N(l).day <= today
             /\ N(l).at \in Nat
             /\ DeadlineOf(Mine(l)) \in Int \cup {None} /\ row(l) \in Int /\ row(l) # None
  <2>1. N(l) \in Mine(l) /\ N(l) \in notices
    BY <1>4, OfToday, NewestOf
  <2>2. N(l).day \in Nat /\ N(l).day <= today /\ N(l).at \in Nat
    BY <2>1, Times DEF Register
  <2>3. DeadlineOf(Mine(l)) \in Int \cup {None}
    BY <1>4, DeadlineDated
  <2>4. row(l) = IF DeadlineOf(Mine(l)) = None THEN Undated ELSE DeadlineOf(Mine(l))
    BY ColombiaIs
  <2> QED
    BY <2>1, <2>2, <2>3, <2>4, NoneIs
<1>5. ASSUME NEW l \in Lot
      PROVE  /\ l \in selected <=> Mine(l) # {} /\ N(l).kind # "close" /\ N(l).day >= start
             /\ call.until[l] = IF l \in selected THEN row(l) ELSE None
  <2>1. l \in {n.lot : n \in notices} <=> Mine(l) # {}
    BY DEF Mine
  <2>2. l \in selected <=> Mine(l) # {} /\ N(l).kind # "close" /\ N(l).day >= start
    BY <2>1, ColombiaIs DEF Colombia!Selected
  <2> HIDE DEF selected
  <2>3. call.until[l] = IF l \in selected THEN row(l) ELSE None
    BY <1>2 DEF Mine
  <2> QED
    BY <2>2, <2>3
<1>6. selected \in SUBSET Lot
  BY Times DEF Colombia!Selected
<1>7. /\ call.cursor \in Colombia!Cursor \cup {None}
      /\ call.cursor # None => call.cursor.through <= today
      /\ call.cursor = None => cursor = None /\ selected = {}
  <2>1. CASE selected = {}
    <3>1. call.cursor = cursor
      BY <1>2, <2>1 DEF Colombia!NextCursor
    <3> QED
      BY <2>1, <3>1, ColombiaIs DEF TypeOK, ColombiaKept
  <2>2. CASE selected # {}
    <3> HIDE DEF selected
    <3> DEFINE last == CHOOSE l \in selected : \A k \in selected :
                         Colombia!Changed(notices, k).at <= Colombia!Changed(notices, l).at
               changed == {N(l) : l \in selected}
    <3>1. changed \in SUBSET notices /\ changed # {}
      BY <1>4, <1>5, <1>6, <2>2
    <3>2. Newest(changed) \in changed /\ \A o \in changed : o.at <= Newest(changed).at
      <4> HIDE DEF changed
      <4> QED
        BY <3>1, NewestOf
    <3>3. PICK l \in selected : N(l) = Newest(changed)
      BY <3>2
    <3>4. \A k \in selected : N(k).at <= N(l).at
      BY <3>2, <3>3
    <3>5. last \in selected
      BY <3>3, <3>4, ColombiaIs
    <3>6. call.cursor = [through |-> N(last).day, lot |-> last]
      BY <1>2, <2>2, ColombiaIs DEF Colombia!NextCursor
    <3> HIDE DEF last
    <3>7. last \in Lot /\ N(last).day \in Int /\ N(last).day <= today
      BY <1>4, <1>5, <1>6, <3>5
    <3>8. call.cursor \in Colombia!Cursor /\ call.cursor.through = N(last).day
      BY <3>6, <3>7 DEF Colombia!Cursor
    <3> QED
      BY <3>7, <3>8, NoneAssumption
  <2> QED
    BY <2>1, <2>2
<1> HIDE DEF start, selected, row
<1>8. ASSUME NEW l \in Lot
      PROVE  /\ l \in selected => listed'[l] = row(l)
             /\ l \notin selected => listed'[l] = listed[l]
             /\ cursor = None => listed[l] = 0
             /\ l \in selected => Mine(l) # {}
  BY <1>1, <1>4, <1>5, RowsAre, ColombiaIs
<1>9. /\ cursor' = call.cursor /\ today' = today
      /\ first' = IF cursor = None THEN start ELSE first
      /\ notices' = notices /\ connector' = connector
  BY <1>1, <1>2, PollParts, ColombiaIs
<1>10. TypeOK' /\ Screen'
  <2>1. call.done \in BOOLEAN
    <3>1. call.done = TRUE
      BY <1>2
    <3> QED
      BY <3>1, Zenon
  <2>2. \A l \in Lot : call.until[l] \in Int \cup {None}
    BY <1>4, <1>5
  <2>3. call.cursor = None => \A l \in Lot : listed'[l] = 0
    BY <1>7, <1>8
  <2> QED
    BY <1>1, <1>2, <1>3, <1>7, <2>1, <2>2, <2>3, ColombiaIs, PollType
<1>11. ASSUME NEW l \in Lot, Mine(l) # {}, N(l).kind # "close",
              listed'[l] # 0 \/ N(l).day >= first'
       PROVE  listed'[l] = row(l)
  <2>1. CASE l \in selected
    BY <1>8, <2>1
  <2>2. CASE l \notin selected
    <3>1. N(l).day < start
      BY <1>3, <1>4, <1>5, <1>11, <2>2
    <3>2. listed'[l] = listed[l]
      BY <1>8, <2>2
    <3>3. cursor # None /\ first' = first
      <4>1. CASE cursor = None
        BY <1>3, <1>4, <1>8, <1>9, <1>11, <3>1, <3>2, <4>1
      <4> QED
        BY <1>9, <4>1
    <3>4. listed[l] = row(l)
      BY <1>3, <1>11, <3>1, <3>2, <3>3 DEF ColombiaKept, row
    <3> QED
      BY <3>2, <3>4
  <2> QED
    BY <2>1, <2>2
<1>12. ASSUME NEW l \in Lot, listed'[l] # 0 PROVE Mine(l) # {}
  <2>1. CASE l \in selected
    BY <1>8, <2>1
  <2>2. CASE l \notin selected
    BY <1>8, <1>12, <2>2 DEF ColombiaKept
  <2> QED
    BY <2>1, <2>2
<1>13. ColombiaKept'
  <2>1. first' # None
    BY <1>3, <1>9, NoneIs DEF ColombiaKept
  <2>2. \A l \in Lot : Mine(l)' = Mine(l)
    BY <1>9 DEF Mine
  <2>3. \A l \in Lot : Colombia!RowDeadline(Mine(l))' = row(l)
    <3>1. \A ns : Colombia!RowDeadline(ns)' = Colombia!RowDeadline(ns)
      BY DEF Colombia!RowDeadline, Colombia!DeadlineOf, Colombia!Newest, Colombia!Dated,
             Colombia!Undated
    <3> QED
      BY <2>2, <3>1 DEF row
  <2> QED
    BY <1>7, <1>9, <1>11, <1>12, <2>1, <2>2, <2>3 DEF ColombiaKept
<1>14. Complete'
  <2>1. ASSUME NEW l \in Lot, \A ns \in Views(l) : OpenBy(ns) /\ Newest(Tenders(ns)).day >= first'
        PROVE  listed'[l] > today
    <3>1. OpenBy(Mine(l)) /\ Newest(Tenders(Mine(l))).day >= first'
      BY <2>1, ViewsAre
    <3>2. Mine(l) # {} /\ N(l).kind # "close"
      BY <3>1 DEF OpenBy
    <3>3. Newest(Tenders(Mine(l))).day \in Nat /\ Newest(Tenders(Mine(l))).day <= N(l).day
      BY <3>2, TenderOf
    <3>4. first' \in Int
      BY <1>3, <1>9 DEF TypeOK, ColombiaKept
    <3>5. N(l).day >= first'
      BY <1>4, <3>1, <3>2, <3>3, <3>4
    <3>6. listed'[l] = row(l)
      BY <1>11, <3>2, <3>5
    <3>7. row(l) > today
      BY <3>1, ColombiaIs DEF row, OpenBy, Future
    <3> QED
      BY <3>6, <3>7
  <2> QED
    BY <1>1, <2>1, CompleteAfter
<1>15. Sound'
  <2>1. ASSUME NEW l \in Lot, listed'[l] > today PROVE Remains(l)
    <3>1. listed'[l] # 0
      BY <1>3, <2>1
    <3>2. Mine(l) # {}
      BY <1>12, <3>1
    <3>3. SUFFICES ASSUME N(l).kind # "close" PROVE ~Elapsed(DeadlineOf(Mine(l)), today)
      BY OfToday, ColombiaIs
    <3>4. listed'[l] = row(l)
      BY <1>11, <3>1, <3>2, <3>3
    <3>5. row(l) = IF DeadlineOf(Mine(l)) = None THEN Undated ELSE DeadlineOf(Mine(l))
      BY ColombiaIs DEF row
    <3>6. DeadlineOf(Mine(l)) \in Int \cup {None}
      BY <1>4, <3>2
    <3> QED
      BY <1>3, <2>1, <3>4, <3>5, <3>6, NoneIs DEF Elapsed
  <2>2. Withdrawn(call) \subseteq shown
    BY ColombiaIs DEF Withdrawn
  <2> QED
    BY <1>1, <2>1, <2>2, SoundAfter
<1> QED
  BY <1>10, <1>13, <1>14, <1>15

(* A row changed after a call is one the next call asks for.                *)
LEMMA ColombiaRest ==
  ASSUME connector = "colombia", Register, TypeOK, ColombiaKept
  PROVE  /\ \A l \in Lot : \A n : New(n, l) => ColombiaKept'
         /\ NextDay => ColombiaKept'
<1>1. cursor # None => cursor.through \in Int /\ first \in Int
  <2>1. cursor # None => cursor \in Colombia!Cursor
    BY ColombiaIs DEF TypeOK
  <2> QED
    BY <2>1 DEF Colombia!Cursor, TypeOK, ColombiaKept
<1>2. \A ns : Colombia!RowDeadline(ns)' = Colombia!RowDeadline(ns)
  BY DEF Colombia!RowDeadline, Colombia!DeadlineOf, Colombia!Newest, Colombia!Dated,
         Colombia!Undated
<1>3. ASSUME NEW l \in Lot, NEW n, New(n, l) PROVE ColombiaKept'
  <2> USE <1>3, NewMine
  <2> SUFFICES ASSUME cursor # None PROVE ColombiaKept'
    BY DEF ColombiaKept
  <2>1. n.day = today /\ today \in Nat /\ ~(n.day < cursor.through - Overlap)
    BY <1>1, TodayIs, UnitsAre, ColombiaIs DEF ColombiaKept
  <2>2. Newest(Mine(l)') = n
    <3>1. \A o \in Mine(l) : o.at \in Nat /\ o.at < n.at
      BY <2>1, Times, NewTimes, OfToday DEF Register
    <3> QED
      BY <3>1, NewestUnique
  <2>3. \A k \in Lot : Mine(k) # {} => Mine(k)' # {}
    OBVIOUS
  <2> QED
    BY <1>2, <2>1, <2>2, <2>3 DEF ColombiaKept
<1>4. ASSUME NextDay PROVE ColombiaKept'
  <2> USE <1>4, NextDayIs
  <2> SUFFICES ASSUME cursor # None PROVE ColombiaKept'
    BY DEF ColombiaKept
  <2>1. cursor.through <= today + 1
    BY <1>1, TodayIs DEF ColombiaKept
  <2> QED
    BY <1>2, <2>1 DEF ColombiaKept
<1> QED
  BY <1>3, <1>4

-----------------------------------------------------------------------------
(* Italy and Korea: lots are tracked or closed, and a notice is compared    *)
(* with what is known of its lot.                                           *)
Entry == [at : Nat, deadline : Int \cup {None}, visible : BOOLEAN]

Entries == [Lot -> Entry \cup {None}]

Entered == [tracked : Entries, closed : Entries]

EntryOf(s, l) == IF s.tracked[l] # None THEN s.tracked[l] ELSE s.closed[l]

Merged(entry, n) == [at |-> n.at, deadline |-> n.deadline, visible |-> Visible(entry)]

Applied(s, n) ==
  LET entry == EntryOf(s, n.lot)
  IN IF entry # None /\ n.at <= entry.at THEN s
     ELSE IF n.kind = "tender"
     THEN [s EXCEPT !.tracked[n.lot] = Merged(entry, n), !.closed[n.lot] = None]
     ELSE IF entry = None THEN s
     ELSE [s EXCEPT !.tracked[n.lot] = None, !.closed[n.lot] = Merged(entry, n)]

(* What is known of a lot agrees with its newest notice, once that is read. *)
Agrees(s, l, read, base) ==
  LET newest == Newest(Mine(l)) IN
  /\ s.tracked[l] # None =>
       /\ s.closed[l] = None /\ Mine(l) # {} /\ s.tracked[l].at <= newest.at
       /\ read \/ s.tracked[l].at = newest.at =>
            newest.kind = "tender" /\ s.tracked[l].deadline = newest.deadline
  /\ s.closed[l] # None =>
       /\ Mine(l) # {} /\ s.closed[l].at <= newest.at
       /\ read \/ s.closed[l].at = newest.at => newest.kind # "tender"
  /\ s.tracked[l] = None /\ s.closed[l] = None /\ Mine(l) # {} /\ read /\ newest.day >= base =>
       newest.kind # "tender" \/ Elapsed(newest.deadline, today)
  /\ listed[l] = Undated => Visible(s.tracked[l]) \/ Visible(s.closed[l])
  /\ Visible(s.tracked[l]) \/ Visible(s.closed[l]) => l \in shown

(* The first unit of the next call.                                         *)
Resumed(c) == IF connector = "italy" THEN c.through + 1 - Overlap ELSE c.through - Overlap

EnteredKept ==
  cursor # None =>
    /\ first # None /\ cursor.through <= today
    /\ \A l \in Lot : Agrees(cursor, l, Newest(Mine(l)).day < Resumed(cursor), first)

(* Italy and Korea keep the same state: when a lot was last published       *)
(* about, its deadline and whether it is visible.                           *)
LEMMA EntryTypes ==
  /\ Italy!LotState = Entry /\ Korea!BidState = Entry /\ None \notin Entry
  /\ Italy!Cursor = [through : Int, tracked : Entries, closed : Entries]
  /\ Korea!Cursor = [through : Int, tracked : Entries, closed : Entries]
BY NoneAssumption DEF Italy!LotState, Korea!BidState, Entry, Italy!Cursor, Korea!Cursor, Entries

(* What one notice does to that state: a stale one nothing, a tender tracks *)
(* the lot, any other closes it if it was known.                            *)
LEMMA AppliedIs ==
  ASSUME Register, NEW s \in Entered, NEW n \in notices
  PROVE  /\ Applied(s, n) \in Entered
         /\ \A l \in Lot : l # n.lot => /\ Applied(s, n).tracked[l] = s.tracked[l]
                                        /\ Applied(s, n).closed[l] = s.closed[l]
         /\ LET entry == EntryOf(s, n.lot) IN
            /\ entry # None /\ n.at <= entry.at => Applied(s, n) = s
            /\ ~(entry # None /\ n.at <= entry.at) =>
                 /\ n.kind = "tender" =>
                      /\ Applied(s, n).tracked[n.lot] = Merged(entry, n)
                      /\ Applied(s, n).closed[n.lot] = None
                 /\ n.kind # "tender" /\ entry # None =>
                      /\ Applied(s, n).tracked[n.lot] = None
                      /\ Applied(s, n).closed[n.lot] = Merged(entry, n)
                 /\ n.kind # "tender" /\ entry = None => Applied(s, n) = s
<1> DEFINE entry == EntryOf(s, n.lot)
           m == Merged(entry, n)
<1>1. n.lot \in Lot /\ n.at \in Nat /\ n.deadline \in Int \cup {None}
  BY Times
<1>2. /\ s.tracked \in Entries /\ s.closed \in Entries
      /\ s = [tracked |-> s.tracked, closed |-> s.closed]
  BY DEF Entered
<1>3. entry \in Entry \cup {None}
  BY <1>1, <1>2 DEF EntryOf, Entries
<1>4. m \in Entry
  <2>1. Visible(entry) \in BOOLEAN
    BY <1>3, Zenon DEF Visible, Entry
  <2> QED
    BY <1>1, <2>1 DEF Merged, Entry
<1>5. CASE entry # None /\ n.at <= entry.at
  BY <1>5 DEF Applied
<1>6. CASE ~(entry # None /\ n.at <= entry.at) /\ n.kind = "tender"
  <2> DEFINE T == [s.tracked EXCEPT ![n.lot] = m]
             C == [s.closed EXCEPT ![n.lot] = None]
  <2>1. Applied(s, n) = [s EXCEPT !.tracked[n.lot] = m, !.closed[n.lot] = None]
    BY <1>6 DEF Applied
  <2> HIDE DEF m
  <2>2. Applied(s, n) = [tracked |-> T, closed |-> C]
    BY <1>2, <2>1
  <2>3. /\ T \in Entries /\ C \in Entries /\ T[n.lot] = m /\ C[n.lot] = None
        /\ \A l \in Lot : l # n.lot => T[l] = s.tracked[l] /\ C[l] = s.closed[l]
    BY <1>1, <1>2, <1>4 DEF Entries
  <2> HIDE DEF T, C
  <2>4. Applied(s, n).tracked = T /\ Applied(s, n).closed = C /\ Applied(s, n) \in Entered
    BY <2>2, <2>3 DEF Entered
  <2> QED
    BY <1>6, <2>3, <2>4 DEF m
<1>7. CASE ~(entry # None /\ n.at <= entry.at) /\ n.kind # "tender" /\ entry # None
  <2> DEFINE T == [s.tracked EXCEPT ![n.lot] = None]
             C == [s.closed EXCEPT ![n.lot] = m]
  <2>1. Applied(s, n) = [s EXCEPT !.tracked[n.lot] = None, !.closed[n.lot] = m]
    BY <1>7 DEF Applied
  <2> HIDE DEF m
  <2>2. Applied(s, n) = [tracked |-> T, closed |-> C]
    BY <1>2, <2>1
  <2>3. /\ T \in Entries /\ C \in Entries /\ T[n.lot] = None /\ C[n.lot] = m
        /\ \A l \in Lot : l # n.lot => T[l] = s.tracked[l] /\ C[l] = s.closed[l]
    BY <1>1, <1>2, <1>4 DEF Entries
  <2> HIDE DEF T, C
  <2>4. Applied(s, n).tracked = T /\ Applied(s, n).closed = C /\ Applied(s, n) \in Entered
    BY <2>2, <2>3 DEF Entered
  <2> QED
    BY <1>7, <2>3, <2>4 DEF m
<1>8. CASE ~(entry # None /\ n.at <= entry.at) /\ n.kind # "tender" /\ entry = None
  BY <1>8 DEF Applied
<1> QED
  BY <1>5, <1>6, <1>7, <1>8

(* One more notice.                                                         *)
LEMMA AppliedAgrees ==
  ASSUME Register, NEW s \in Entered, NEW l \in Lot, NEW n \in Mine(l), NEW base \in Int,
         Agrees(s, l, FALSE, base)
  PROVE  Agrees(Applied(s, n), l, n = Newest(Mine(l)), base)
<1> DEFINE newest == Newest(Mine(l))
           entry == EntryOf(s, l)
           r == Applied(s, n)
<1>1. /\ n \in notices /\ n.lot = l /\ n.at \in Nat /\ newest.at \in Nat /\ n.at <= newest.at
      /\ n.at = newest.at <=> n = newest
      /\ newest.day \in Nat
  <2>1. n \in notices /\ n.lot = l /\ newest \in notices /\ n.at <= newest.at
    BY OfToday, NewestOf DEF Mine
  <2> QED
    BY <2>1, Times
<1>2. /\ s.tracked[l] \in Entry \cup {None} /\ s.closed[l] \in Entry \cup {None}
      /\ entry \in Entry \cup {None}
  BY DEF Entered, Entries, EntryOf
<1>3. /\ entry # None => entry.at \in Nat /\ entry.at <= newest.at
      /\ entry = None <=> s.tracked[l] = None /\ s.closed[l] = None
      /\ listed[l] = Undated => Visible(entry)
      /\ Visible(entry) => l \in shown
  <2>1. entry # None => entry.at \in Nat
    BY <1>2 DEF Entry
  <2> QED
    BY <2>1 DEF Agrees, EntryOf, Visible
<1>4. CASE entry # None /\ n.at <= entry.at
  <2>1. r = s
    BY <1>1, <1>4, AppliedIs
  <2>2. n = newest => entry.at = newest.at
    BY <1>1, <1>3, <1>4
  <2> QED
    BY <1>4, <2>1, <2>2 DEF Agrees, EntryOf
<1>5. CASE ~(entry # None /\ n.at <= entry.at) /\ n.kind = "tender"
  <2>1. /\ r.tracked[l] = Merged(entry, n) /\ r.closed[l] = None /\ Merged(entry, n) # None
    <3>1. r.tracked[l] = Merged(entry, n) /\ r.closed[l] = None
      BY <1>1, <1>5, AppliedIs
    <3>2. Merged(entry, n) \in Entry
      <4>1. Visible(entry) \in BOOLEAN
        BY <1>2, Zenon DEF Visible, Entry
      <4> QED
        BY <1>1, <4>1, Times DEF Merged, Entry
    <3> QED
      BY <3>1, <3>2, EntryTypes
  <2>2. /\ Merged(entry, n).at = n.at /\ Merged(entry, n).deadline = n.deadline
        /\ Merged(entry, n).visible = Visible(entry)
    BY DEF Merged
  <2>3. Visible(Merged(entry, n)) <=> Visible(entry)
    BY <2>1, <2>2, Zenon DEF Visible
  <2>4. ~Visible(None)
    BY DEF Visible
  <2> HIDE DEF entry
  <2> QED
    BY <1>1, <1>3, <1>5, <2>1, <2>2, <2>3, <2>4 DEF Agrees
<1>6. CASE ~(entry # None /\ n.at <= entry.at) /\ n.kind # "tender" /\ entry # None
  <2>1. /\ r.closed[l] = Merged(entry, n) /\ r.tracked[l] = None /\ Merged(entry, n) # None
    <3>1. r.closed[l] = Merged(entry, n) /\ r.tracked[l] = None
      BY <1>1, <1>6, AppliedIs
    <3>2. Merged(entry, n) \in Entry
      <4>1. Visible(entry) \in BOOLEAN
        BY <1>2, Zenon DEF Visible, Entry
      <4> QED
        BY <1>1, <4>1, Times DEF Merged, Entry
    <3> QED
      BY <3>1, <3>2, EntryTypes
  <2>2. /\ Merged(entry, n).at = n.at /\ Merged(entry, n).deadline = n.deadline
        /\ Merged(entry, n).visible = Visible(entry)
    BY DEF Merged
  <2>3. Visible(Merged(entry, n)) <=> Visible(entry)
    BY <2>1, <2>2, Zenon DEF Visible
  <2>4. ~Visible(None)
    BY DEF Visible
  <2> HIDE DEF entry
  <2> QED
    BY <1>1, <1>3, <1>6, <2>1, <2>2, <2>3, <2>4 DEF Agrees
<1>7. CASE ~(entry # None /\ n.at <= entry.at) /\ n.kind # "tender" /\ entry = None
  <2>1. r = s
    BY <1>1, <1>7, AppliedIs
  <2> QED
    BY <1>1, <1>3, <1>7, <2>1 DEF Agrees
<1> QED
  BY <1>4, <1>5, <1>6, <1>7

(* Applied from the first to the last, notices leave each lot as its newest *)
(* says (Agrees).                                                           *)
LEMMA EnteredReplay ==
  ASSUME Register, NEW ns \in SUBSET notices, NEW s0 \in Entered, NEW base \in Int,
         NEW start \in Int, \A n \in ns : n.day >= start,
         \A l \in Lot : Agrees(s0, l, Newest(Mine(l)).day < start, base),
         NEW h, h[{}] = s0,
         \A k \in SUBSET ns : k # {} /\ h[k \ {Newest(k)}] \in Entered =>
           h[k] = Applied(h[k \ {Newest(k)}], Newest(k))
  PROVE  /\ h[ns] \in Entered
         /\ \A l \in Lot :
              Agrees(h[ns], l, Newest(Mine(l)).day < start \/ Newest(Mine(l)) \in ns, base)
<1> DEFINE Read(l, k) == Newest(Mine(l)).day < start \/ Newest(Mine(l)) \in k
           J == {x \in (SUBSET ns) \X Entered :
                   \A l \in Lot : Agrees(x[2], l, Read(l, x[1]), base)}
           last == [k \in SUBSET ns |-> Newest(k)]
<1>1. \A k \in SUBSET ns : k # {} => last[k] \in k
  BY NewestOf
<1>2. \A k \in SUBSET ns : k # {} /\ h[k \ {last[k]}] \in Entered =>
        h[k] = Applied(h[k \ {last[k]}], last[k])
  OBVIOUS
<1>3. h[{}] \in Entered /\ <<{}, h[{}]>> \in J
  <2>1. \A l \in Lot : Read(l, {}) <=> Newest(Mine(l)).day < start
    OBVIOUS
  <2>2. \A l \in Lot : Agrees(s0, l, Read(l, {}), base)
    <3> HIDE DEF Read
    <3> QED
      BY <2>1 DEF Agrees
  <2> HIDE DEF Read
  <2> QED
    BY <2>2
<1>4. ASSUME NEW k \in SUBSET ns, k # {}, h[k \ {last[k]}] \in Entered,
             <<k \ {last[k]}, h[k \ {last[k]}]>> \in J
      PROVE  h[k] \in Entered /\ <<k, h[k]>> \in J
  <2> DEFINE n == last[k]
             s == h[k \ {n}]
             r == Applied(s, n)
  <2>1. /\ n \in k /\ n \in ns /\ n \in notices /\ n.lot \in Lot /\ n.day \in Nat /\ n.day >= start
        /\ \A o \in k : o.at <= n.at
    BY <1>1, <1>4, NewestOf, Times
  <2>2. h[k] = r /\ s \in Entered /\ \A l \in Lot : Agrees(s, l, Read(l, k \ {n}), base)
    <3>1. \A l \in Lot : Agrees(s, l, Read(l, k \ {n}), base)
      <4> HIDE DEF Read, n
      <4> QED
        BY <1>4 DEF n
    <3> QED
      BY <1>2, <1>4, <3>1
  <2> HIDE DEF n, s, r
  <2>3. r \in Entered
    BY <2>1, <2>2, AppliedIs DEF r
  <2>4. ASSUME NEW l \in Lot, l # n.lot PROVE Agrees(r, l, Read(l, k), base)
    <3>1. r.tracked[l] = s.tracked[l] /\ r.closed[l] = s.closed[l]
      BY <2>1, <2>2, <2>4, AppliedIs DEF r
    <3>2. Mine(l) # {} => (Read(l, k) <=> Read(l, k \ {n}))
      <4>1. Mine(l) # {} => Newest(Mine(l)) \in Mine(l)
        BY OfToday, NewestOf
      <4>2. Mine(l) # {} => Newest(Mine(l)) # n
        BY <2>4, <4>1 DEF Mine
      <4> QED
        BY <4>2
    <3>3. Agrees(s, l, Read(l, k \ {n}), base)
      BY <2>2
    <3> HIDE DEF Read
    <3> QED
      BY <3>1, <3>2, <3>3 DEF Agrees
  <2>5. ASSUME NEW l \in Lot, l = n.lot PROVE Agrees(r, l, Read(l, k), base)
    <3>1. n \in Mine(l) /\ Newest(Mine(l)) \in Mine(l) /\ n.at <= Newest(Mine(l)).at
          /\ Newest(Mine(l)) \in notices
      BY <2>1, <2>5, OfToday, NewestOf DEF Mine
    <3>2. n.day <= Newest(Mine(l)).day /\ Newest(Mine(l)).day \in Nat
      BY <2>1, <3>1, Times
    <3>3. ~(Newest(Mine(l)).day < start)
      BY <2>1, <3>2
    <3>4. Newest(Mine(l)) \in k => Newest(Mine(l)) = n
      <4>1. Newest(Mine(l)) \in k => n.at = Newest(Mine(l)).at
        BY <2>1, <3>1, Times
      <4> QED
        BY <2>1, <3>1, <4>1, Times
    <3>5. ~Read(l, k \ {n}) /\ (Read(l, k) <=> n = Newest(Mine(l)))
      BY <2>1, <3>3, <3>4
    <3>6. Agrees(s, l, FALSE, base)
      <4>1. Agrees(s, l, Read(l, k \ {n}), base)
        BY <2>2
      <4> HIDE DEF Read
      <4> QED
        BY <3>5, <4>1 DEF Agrees
    <3>7. Agrees(r, l, n = Newest(Mine(l)), base)
      BY <2>2, <3>1, <3>6, AppliedAgrees DEF r
    <3> HIDE DEF Read
    <3> QED
      BY <3>5, <3>7 DEF Agrees
  <2> HIDE DEF Read
  <2>6. \A l \in Lot : Agrees(r, l, Read(l, k), base)
    BY <2>4, <2>5
  <2> QED
    BY <2>2, <2>3, <2>6
<1>5. IsFiniteSet(ns)
  BY FS_Subset DEF Register
<1> HIDE DEF J, last
<1>6. Inductive(ns, Entered, J, h, last)
  BY <1>1, <1>3, <1>4, <1>5, Zenon DEF Inductive
<1>7. h[ns] \in Entered /\ <<ns, h[ns]>> \in J
  BY <1>6, ReplayInduction
<1> QED
  BY <1>7 DEF J

(* The function that Replay is made of.                                     *)
LEMMA AppliedReplayed ==
  ASSUME Register, NEW ns \in SUBSET notices, NEW s0 \in Entered
  PROVE  \E h \in [SUBSET ns -> Entered] :
           h = [k \in SUBSET ns |->
                  IF k = {} THEN s0 ELSE Applied(h[k \ {Newest(k)}], Newest(k))]
<1> DEFINE S == Entered
           f == [x \in S \X ns |-> Applied(x[1], x[2])]
           last == [k \in SUBSET ns |-> Newest(k)]
<1>1. f \in [S \X ns -> S]
  BY AppliedIs
<1>2. \A k \in SUBSET ns : k # {} => last[k] \in k
  BY NewestOf
<1>3. IsFiniteSet(ns) /\ s0 \in S
  BY FS_Subset DEF Register
<1>4. \A s \in S, n \in ns : f[<<s, n>>] = Applied(s, n)
  OBVIOUS
<1>5. \A k \in SUBSET ns : last[k] = Newest(k)
  OBVIOUS
<1> HIDE DEF f, last, S
<1>6. PICK g \in [SUBSET ns -> S] :
        g = [k \in SUBSET ns |-> IF k = {} THEN s0 ELSE f[g[k \ {last[k]}], last[k]]]
  <2>1. Replays(ns, S, s0, f, last)
    BY <1>1, <1>2, <1>3 DEF Replays
  <2>2. \E g \in [SUBSET ns -> S] : Replayed(g, ns, s0, f, last)
    BY <2>1, ReplayExists
  <2> QED
    BY <2>2 DEF Replayed
<1>7. ASSUME NEW k \in SUBSET ns
      PROVE  (IF k = {} THEN s0 ELSE f[g[k \ {last[k]}], last[k]])
               = IF k = {} THEN s0 ELSE Applied(g[k \ {Newest(k)}], Newest(k))
  <2>1. k # {} => g[k \ {last[k]}] \in S /\ last[k] \in ns
    BY <1>2
  <2>2. k # {} => f[g[k \ {last[k]}], last[k]] = Applied(g[k \ {last[k]}], last[k])
    BY <1>4, <2>1
  <2> QED
    BY <1>5, <2>2
<1>8. g = [k \in SUBSET ns |-> IF k = {} THEN s0 ELSE Applied(g[k \ {Newest(k)}], Newest(k))]
  BY <1>6, <1>7, Zenon
<1> QED
  BY <1>8 DEF S

(* _apply_events of Italy (italy_anac_pvl.py:469-501) is that of Applied,   *)
LEMMA ItalyApplied ==
  ASSUME connector = "italy", Register, NEW s \in Entered, NEW n \in notices
  PROVE  Italy!ApplyEvent(s, n) = Applied(s, n)
<1> DEFINE entry == EntryOf(s, n.lot)
           e == Italy!LotEvent(n)
<1>1. /\ e.lot = n.lot /\ (e.works /\ e.active <=> n.kind = "tender")
      /\ e.state.at = n.at
      /\ e.state = [at |-> n.at, deadline |-> n.deadline, visible |-> FALSE]
  <2>1. n.kind \in {"tender", "close", "leave"}
    BY DEF Register, Terms, Kinds, Italy!Kinds
  <2>2. e = [lot |-> n.lot, works |-> n.kind # "leave", active |-> n.kind # "close",
             state |-> [at |-> n.at, deadline |-> n.deadline, visible |-> FALSE]]
    BY DEF Italy!LotEvent
  <2> HIDE DEF e
  <2>3. e.works = (n.kind # "leave") /\ e.active = (n.kind # "close")
    BY <2>2
  <2>4. (e.works <=> n.kind # "leave") /\ (e.active <=> n.kind # "close")
    BY <2>3, Zenon
  <2> QED
    BY <2>1, <2>2, <2>4
<1>2. n.lot \in Lot /\ n.at \in Nat
  BY Times
<1>3. entry \in Entry \cup {None}
  BY <1>2 DEF EntryOf, Entered, Entries
<1>4. ~(entry # None /\ n.at <= entry.at) => Italy!Merge(entry, e.state) = Merged(entry, n)
  <2> HIDE DEF e, entry
  <2>1. CASE entry = None
    <3>1. Italy!Merge(entry, e.state) = e.state
      BY <2>1 DEF Italy!Merge
    <3>2. Visible(entry) = FALSE
      BY <2>1 DEF Visible
    <3> QED
      BY <1>1, <3>1, <3>2 DEF Merged
  <2>2. CASE entry # None /\ ~(n.at <= entry.at)
    <3>1. Italy!Merge(entry, e.state) =
            [e.state EXCEPT !.visible = entry.visible \/ e.state.visible]
      BY <1>1, <2>2 DEF Italy!Merge
    <3>2. e.state.visible = FALSE
      BY <1>1
    <3>3. (entry.visible \/ e.state.visible) = Visible(entry)
      BY <2>2, <3>2, Zenon DEF Visible
    <3> QED
      BY <1>1, <3>1, <3>3 DEF Merged
  <2> QED
    BY <2>1, <2>2
<1> HIDE DEF entry, e
<1>5. Italy!ApplyEvent(s, n) =
        IF entry # None /\ n.at <= entry.at THEN s
        ELSE IF n.kind = "tender"
        THEN [s EXCEPT !.tracked[n.lot] = Italy!Merge(entry, e.state), !.closed[n.lot] = None]
        ELSE IF entry = None THEN s
        ELSE [s EXCEPT !.tracked[n.lot] = None, !.closed[n.lot] = Italy!Merge(entry, e.state)]
  BY <1>1 DEF Italy!ApplyEvent, EntryOf, entry, e
<1> QED
  BY <1>4, <1>5 DEF Applied, entry

(* so that Replay is made of Applied.                                       *)
LEMMA ItalyReplay ==
  ASSUME connector = "italy", Register, NEW ns \in SUBSET notices, NEW s0 \in Entered
  PROVE  \E h : /\ h[{}] = s0
                /\ \A k \in SUBSET ns : k # {} /\ h[k \ {Newest(k)}] \in Entered =>
                     h[k] = Applied(h[k \ {Newest(k)}], Newest(k))
                /\ h[ns] = Italy!Replay(Italy!ApplyEvent, Italy!Newest, s0, ns)
<1> DEFINE E(g) == [k \in SUBSET ns |->
                      IF k = {} THEN s0
                      ELSE Italy!ApplyEvent(g[k \ {Newest(k)}], Newest(k))]
           h == CHOOSE g : g = E(g)
<1>1. \A k \in SUBSET ns : k # {} => Newest(k) \in notices
  BY NewestOf
<1>2. \E g : g = E(g)
  <2>1. PICK g \in [SUBSET ns -> Entered] :
          g = [k \in SUBSET ns |->
                 IF k = {} THEN s0 ELSE Applied(g[k \ {Newest(k)}], Newest(k))]
    BY AppliedReplayed
  <2>2. ASSUME NEW k \in SUBSET ns, k # {}
        PROVE  Italy!ApplyEvent(g[k \ {Newest(k)}], Newest(k))
                 = Applied(g[k \ {Newest(k)}], Newest(k))
    BY <1>1, <2>2, ItalyApplied
  <2>3. g = E(g)
    BY <2>1, <2>2, Zenon
  <2> QED
    BY <2>3
<1>3. h = E(h)
  BY <1>2, Zenon
<1>4. Italy!Replay(Italy!ApplyEvent, Italy!Newest, s0, ns) = h[ns]
  BY DEF Italy!Replay, Italy!Newest, Newest
<1> HIDE DEF h
<1>5. h[{}] = s0 /\ \A k \in SUBSET ns : k # {} =>
                      h[k] = Italy!ApplyEvent(h[k \ {Newest(k)}], Newest(k))
  BY <1>3, Zenon
<1>6. ASSUME NEW k \in SUBSET ns, k # {}, h[k \ {Newest(k)}] \in Entered
      PROVE  h[k] = Applied(h[k \ {Newest(k)}], Newest(k))
  BY <1>1, <1>5, <1>6, ItalyApplied
<1> QED
  BY <1>4, <1>5, <1>6

(* _apply_events of Korea (korea_koneps.py:412-432) is too,                 *)
LEMMA KoreaApplied ==
  ASSUME connector = "korea", Register, NEW s \in Entered, NEW n \in notices
  PROVE  Korea!ApplyEvent(s, n) = Applied(s, n)
<1> DEFINE entry == EntryOf(s, n.lot)
           e == Korea!ItemEvent(n)
<1>1. /\ e.lot = n.lot /\ (~e.cancelled <=> n.kind = "tender")
      /\ e.state.at = n.at
      /\ e.state = [at |-> n.at, deadline |-> n.deadline, visible |-> FALSE]
  <2>1. n.kind \in {"tender", "close"}
    BY DEF Register, Terms, Kinds, Korea!Kinds
  <2>2. e = [lot |-> n.lot, cancelled |-> n.kind = "close",
             state |-> [at |-> n.at, deadline |-> n.deadline, visible |-> FALSE]]
    BY DEF Korea!ItemEvent
  <2> HIDE DEF e
  <2>3. e.cancelled = (n.kind = "close")
    BY <2>2
  <2>4. e.cancelled <=> n.kind = "close"
    BY <2>3, Zenon
  <2> QED
    BY <2>1, <2>2, <2>4
<1>2. n.lot \in Lot /\ n.at \in Nat
  BY Times
<1>3. entry \in Entry \cup {None}
  BY <1>2 DEF EntryOf, Entered, Entries
<1>4. ~(entry # None /\ n.at <= entry.at) => Korea!Merge(entry, e.state) = Merged(entry, n)
  <2> HIDE DEF e, entry
  <2>1. CASE entry = None
    <3>1. Korea!Merge(entry, e.state) = e.state
      BY <2>1 DEF Korea!Merge
    <3>2. Visible(entry) = FALSE
      BY <2>1 DEF Visible
    <3> QED
      BY <1>1, <3>1, <3>2 DEF Merged
  <2>2. CASE entry # None /\ ~(n.at <= entry.at)
    <3>1. Korea!Merge(entry, e.state) =
            [e.state EXCEPT !.visible = entry.visible \/ e.state.visible]
      BY <1>1, <2>2 DEF Korea!Merge
    <3>2. e.state.visible = FALSE
      BY <1>1
    <3>3. (entry.visible \/ e.state.visible) = Visible(entry)
      BY <2>2, <3>2, Zenon DEF Visible
    <3> QED
      BY <1>1, <3>1, <3>3 DEF Merged
  <2> QED
    BY <2>1, <2>2
<1> HIDE DEF entry, e
<1>5. Korea!ApplyEvent(s, n) =
        IF entry # None /\ n.at <= entry.at THEN s
        ELSE IF n.kind = "tender"
        THEN [s EXCEPT !.tracked[n.lot] = Korea!Merge(entry, e.state), !.closed[n.lot] = None]
        ELSE IF entry = None THEN s
        ELSE [s EXCEPT !.tracked[n.lot] = None, !.closed[n.lot] = Korea!Merge(entry, e.state)]
  BY <1>1 DEF Korea!ApplyEvent, EntryOf, entry, e
<1> QED
  BY <1>4, <1>5 DEF Applied, entry

(* and so is its Replay.                                                    *)
LEMMA KoreaReplay ==
  ASSUME connector = "korea", Register, NEW ns \in SUBSET notices, NEW s0 \in Entered
  PROVE  \E h : /\ h[{}] = s0
                /\ \A k \in SUBSET ns : k # {} /\ h[k \ {Newest(k)}] \in Entered =>
                     h[k] = Applied(h[k \ {Newest(k)}], Newest(k))
                /\ h[ns] = Korea!Replay(Korea!ApplyEvent, Korea!Newest, s0, ns)
<1> DEFINE E(g) == [k \in SUBSET ns |->
                      IF k = {} THEN s0
                      ELSE Korea!ApplyEvent(g[k \ {Newest(k)}], Newest(k))]
           h == CHOOSE g : g = E(g)
<1>1. \A k \in SUBSET ns : k # {} => Newest(k) \in notices
  BY NewestOf
<1>2. \E g : g = E(g)
  <2>1. PICK g \in [SUBSET ns -> Entered] :
          g = [k \in SUBSET ns |->
                 IF k = {} THEN s0 ELSE Applied(g[k \ {Newest(k)}], Newest(k))]
    BY AppliedReplayed
  <2>2. ASSUME NEW k \in SUBSET ns, k # {}
        PROVE  Korea!ApplyEvent(g[k \ {Newest(k)}], Newest(k))
                 = Applied(g[k \ {Newest(k)}], Newest(k))
    BY <1>1, <2>2, KoreaApplied
  <2>3. g = E(g)
    BY <2>1, <2>2, Zenon
  <2> QED
    BY <2>3
<1>3. h = E(h)
  BY <1>2, Zenon
<1>4. Korea!Replay(Korea!ApplyEvent, Korea!Newest, s0, ns) = h[ns]
  BY DEF Korea!Replay, Korea!Newest, Newest
<1> HIDE DEF h
<1>5. h[{}] = s0 /\ \A k \in SUBSET ns : k # {} =>
                      h[k] = Korea!ApplyEvent(h[k \ {Newest(k)}], Newest(k))
  BY <1>3, Zenon
<1>6. ASSUME NEW k \in SUBSET ns, k # {}, h[k \ {Newest(k)}] \in Entered
      PROVE  h[k] = Applied(h[k \ {Newest(k)}], Newest(k))
  BY <1>1, <1>5, <1>6, KoreaApplied
<1> QED
  BY <1>4, <1>5, <1>6

(* What a call says of the lots once it has read up to the present, and     *)
(* what it keeps of them.                                                   *)
Reported(s) ==
  [l \in Lot |->
     LET t == s.tracked[l] IN
     IF t # None /\ Future(t.deadline, today) THEN "open"
     ELSE IF Visible(t) \/ Visible(s.closed[l]) THEN "closed" ELSE "none"]

Surviving(s) ==
  [l \in Lot |->
     LET t == s.tracked[l] IN
     IF t = None \/ Elapsed(t.deadline, today) THEN None
     ELSE [t EXCEPT !.visible = t.deadline # None]]

Reads(s, start, last) ==
  IF last >= today
  THEN Result([through |-> last, tracked |-> Surviving(s), closed |-> Absent],
              Reported(s), TRUE, start)
  ELSE Result([through |-> last, tracked |-> s.tracked, closed |-> s.closed],
              Silent, FALSE, start)

(* What is known before a call.                                             *)
Prior == IF cursor = None THEN [tracked |-> Absent, closed |-> Absent]
         ELSE [tracked |-> cursor.tracked, closed |-> cursor.closed]

(* Of the lots tracked those whose deadline has not passed stay, visible if *)
(* it is known.                                                             *)
LEMMA SurvivingIs ==
  ASSUME NEW s \in Entered, NEW l \in Lot, today \in Int
  PROVE  /\ Surviving(s)[l] \in Entry \cup {None}
         /\ Surviving(s)[l] # None <=> s.tracked[l] # None /\ ~Elapsed(s.tracked[l].deadline, today)
         /\ Surviving(s)[l] # None =>
              /\ Surviving(s)[l].at = s.tracked[l].at
              /\ Surviving(s)[l].deadline = s.tracked[l].deadline
         /\ Visible(Surviving(s)[l]) <=>
              s.tracked[l] # None /\ Future(s.tracked[l].deadline, today)
<1> DEFINE t == s.tracked[l]
           r == Surviving(s)[l]
<1>1. t \in Entry \cup {None}
  BY DEF Entered, Entries
<1>2. r = IF t = None \/ Elapsed(t.deadline, today) THEN None
          ELSE [t EXCEPT !.visible = t.deadline # None]
  BY DEF Surviving
<1> HIDE DEF t, r
<1>3. CASE t = None \/ Elapsed(t.deadline, today)
  <2>1. r = None
    BY <1>2, <1>3
  <2>2. ~(t # None /\ Future(t.deadline, today))
    BY <1>1, <1>3 DEF Entry, Future, Elapsed
  <2> QED
    BY <1>3, <2>1, <2>2 DEF Visible, r, t
<1>4. CASE ~(t = None \/ Elapsed(t.deadline, today))
  <2>1. t \in Entry /\ r = [t EXCEPT !.visible = t.deadline # None]
    BY <1>1, <1>2, <1>4
  <2>2. /\ r \in Entry /\ r.at = t.at /\ r.deadline = t.deadline
        /\ r.visible = (t.deadline # None)
    BY <2>1 DEF Entry
  <2>3. r # None
    BY <2>2, EntryTypes
  <2>4. Visible(r) <=> t.deadline # None
    BY <2>2, <2>3, Zenon DEF Visible
  <2>5. t.deadline # None <=> Future(t.deadline, today)
    BY <1>4, <2>1 DEF Entry, Future, Elapsed
  <2> QED
    BY <1>4, <2>2, <2>3, <2>4, <2>5 DEF r, t
<1> QED
  BY <1>3, <1>4

(* A poll, once its notices are applied.                                    *)
LEMMA EnteredPoll ==
  ASSUME connector \in {"italy", "korea"}, Register, TypeOK, Screen, EnteredKept, Poll,
         NEW call, call = Call, NEW start \in Int, NEW last \in Int, last <= today,
         NEW s \in Entered, call = Reads(s, start, last),
         cursor # None => start = Resumed(cursor),
         \A l \in Lot : Mine(l) # {} =>
           LET read == Newest(Mine(l)).day <= last
           IN Agrees(s, l, read, IF cursor = None THEN start ELSE first)
         , \A l \in Lot : Mine(l) = {} => Agrees(s, l, FALSE, IF cursor = None THEN start ELSE first)
  PROVE  (TypeOK /\ Screen /\ EnteredKept /\ Complete /\ Sound)'
<1> DEFINE base == IF cursor = None THEN start ELSE first
<1>1. /\ connector \notin Plain /\ ~Gap
      /\ connector \notin {"germany", "latvia", "us", "canada", "switzerland", "uk", "ecuador"}
      /\ Kinds \subseteq {"tender", "close", "leave"}
      /\ Cursor = [through : Int, tracked : Entries, closed : Entries]
  BY EntryTypes DEF Plain, Gap, Kinds, Italy!Kinds, Korea!Kinds, Cursor
<1>2. /\ today \in Nat /\ today < Undated /\ Undated # 0 /\ Overlap \in Nat \ {0}
  BY TodayIs, UnitsAre, NoneIs
<1>3. /\ cursor' = call.cursor /\ first' = (IF cursor = None THEN call.first ELSE first)
      /\ connector' = connector /\ today' = today /\ notices' = notices
      /\ shown' = shown \cup {l \in Lot : listed'[l] > today}
  BY <1>1, PollParts
<1>4. /\ call.first = start /\ call.cursor.through = last /\ (call.done <=> last = today)
      /\ call.done \in BOOLEAN
      /\ last = today =>
           call.cursor = [through |-> last, tracked |-> Surviving(s), closed |-> Absent]
           /\ call.seen = Reported(s)
      /\ last # today =>
           call.cursor = [through |-> last, tracked |-> s.tracked, closed |-> s.closed]
           /\ call.seen = Silent
  <2>1. CASE last = today
    <3>1. last >= today
      BY <1>2, <2>1
    <3>2. call = [cursor |-> [through |-> last, tracked |-> Surviving(s), closed |-> Absent],
                  seen |-> Reported(s), done |-> TRUE, first |-> start]
      BY <3>1 DEF Reads, Result
    <3>3. /\ call.cursor = [through |-> last, tracked |-> Surviving(s), closed |-> Absent]
          /\ call.seen = Reported(s) /\ call.first = start
      BY <3>2
    <3>4. call.cursor.through = last
      BY <3>3
    <3>5. call.done = TRUE
      BY <3>2
    <3> QED
      BY <2>1, <3>3, <3>4, <3>5, Zenon
  <2>2. CASE last # today
    <3>1. ~(last >= today)
      BY <1>2, <2>2
    <3>2. call = [cursor |-> [through |-> last, tracked |-> s.tracked, closed |-> s.closed],
                  seen |-> Silent, done |-> FALSE, first |-> start]
      BY <3>1 DEF Reads, Result
    <3>3. /\ call.cursor = [through |-> last, tracked |-> s.tracked, closed |-> s.closed]
          /\ call.seen = Silent /\ call.first = start
      BY <3>2
    <3>4. call.cursor.through = last
      BY <3>3
    <3>5. call.done = FALSE
      BY <3>2
    <3> QED
      BY <2>2, <3>3, <3>4, <3>5, Zenon
  <2> QED
    BY <2>1, <2>2
<1>5. first' = base /\ first' \in Int
  BY <1>3, <1>4, NoneIs DEF TypeOK, EnteredKept
<1>6. \A l \in Lot : /\ s.tracked[l] \in Entry \cup {None} /\ s.closed[l] \in Entry \cup {None}
                     /\ s.tracked \in Entries /\ s.closed \in Entries
  BY DEF Entered, Entries
<1>7. TypeOK' /\ Screen'
  <2>1. Surviving(s) \in Entries
    <3>1. \A l \in Lot : Surviving(s)[l] \in Entry \cup {None}
      BY <1>2, SurvivingIs
    <3>2. Surviving(s) = [l \in Lot |-> Surviving(s)[l]]
      BY DEF Surviving
    <3> QED
      BY <3>1, <3>2 DEF Entries
  <2>2. Absent \in Entries
    BY DEF Absent, Entries
  <2>3. s.tracked \in Entries /\ s.closed \in Entries
    BY DEF Entered
  <2>4. call.cursor \in Cursor
    BY <1>1, <1>4, <2>1, <2>2, <2>3
  <2>5. call.cursor # None
    <3>1. None \notin Cursor
      BY NoneAssumption DEF Cursor
    <3> QED
      BY <2>4, <3>1
  <2> QED
    BY <1>1, <1>4, <2>4, <2>5, PollType
<1>8. ASSUME NEW l \in Lot, Mine(l) # {}
      PROVE  /\ Newest(Mine(l)) \in Mine(l) /\ Newest(Mine(l)) \in notices
             /\ Newest(Mine(l)).day <= today /\ Newest(Mine(l)).kind \in Kinds
             /\ Newest(Mine(l)).day \in Nat /\ Newest(Mine(l)).at \in Nat
             /\ Newest(Mine(l)).deadline \in Int \cup {None}
  <2>1. Newest(Mine(l)) \in Mine(l) /\ Newest(Mine(l)) \in notices
    BY <1>8, OfToday, NewestOf
  <2> QED
    BY <2>1, Times DEF Register, Terms
<1>9. ASSUME NEW l \in Lot
      PROVE  /\ Agrees(s, l, FALSE, base)
             /\ last = today => Agrees(s, l, TRUE, base)
  <2> DEFINE read == Newest(Mine(l)).day <= last
  <2>1. CASE Mine(l) = {}
    <3>1. Agrees(s, l, FALSE, base)
      BY <2>1
    <3> QED
      BY <2>1, <3>1 DEF Agrees
  <2>2. CASE Mine(l) # {}
    <3>1. Agrees(s, l, read, base)
      BY <2>2
    <3>2. last = today => read
      BY <1>8, <2>2
    <3> HIDE DEF read, base
    <3> QED
      BY <3>1, <3>2 DEF Agrees
  <2> QED
    BY <2>1, <2>2
<1> HIDE DEF base
(* The present is reached.                                                  *)
<1>10. ASSUME last = today, NEW l \in Lot
       PROVE  /\ listed'[l] = Undated <=>
                   s.tracked[l] # None /\ Future(s.tracked[l].deadline, today)
              /\ call.seen[l] = "closed" => l \in shown
  <2> DEFINE t == s.tracked[l]
             c == s.closed[l]
  <2>1. call.seen[l] = IF t # None /\ Future(t.deadline, today) THEN "open"
                       ELSE IF Visible(t) \/ Visible(c) THEN "closed" ELSE "none"
    BY <1>4, <1>10 DEF Reported
  <2>2. /\ listed[l] = Undated => Visible(t) \/ Visible(c)
        /\ Visible(t) \/ Visible(c) => l \in shown
    BY <1>9 DEF Agrees
  <2> HIDE DEF t, c
  <2>3. /\ call.seen[l] = "open" => listed'[l] = Undated
        /\ call.seen[l] = "closed" => listed'[l] = 0
        /\ call.seen[l] \notin {"open", "closed"} => listed'[l] = listed[l]
    BY <1>1, ShowsIs
  <2>4. listed'[l] = Undated <=> t # None /\ Future(t.deadline, today)
    BY <1>2, <2>1, <2>2, <2>3
  <2> QED
    BY <2>1, <2>2, <2>4 DEF t
<1>11. ASSUME last = today, NEW l \in Lot, s.tracked[l] # None
       PROVE  /\ Mine(l) # {} /\ Newest(Mine(l)).kind = "tender"
              /\ Newest(Mine(l)).deadline = s.tracked[l].deadline
              /\ s.tracked[l].at <= Newest(Mine(l)).at /\ s.closed[l] = None
  BY <1>9, <1>11 DEF Agrees
<1>12. EnteredKept'
  <2>1. (\A l : Mine(l)' = Mine(l)) /\ \A l : Newest(Mine(l))' = Newest(Mine(l))
    BY <1>3 DEF Mine, Newest
  <2>2. cursor'.through = last /\ Resumed(cursor)' \in Int /\ Resumed(cursor)' <= last
    <3>1. cursor'.through = last
      BY <1>3, <1>4
    <3> QED
      BY <1>2, <1>3, <3>1 DEF Resumed
  <2>3. ASSUME NEW l \in Lot
        PROVE  Agrees(cursor, l, Newest(Mine(l)).day < Resumed(cursor), first)'
    <3> DEFINE t == s.tracked[l]
               N == Newest(Mine(l))
               read == N.day < Resumed(cursor)
    <3>1. CASE last = today
      <4> DEFINE r == Surviving(s)[l]
      <4>1. cursor'.tracked[l] = r /\ cursor'.closed[l] = None
        BY <1>3, <1>4, <3>1 DEF Absent
      <4>2. /\ r # None <=> t # None /\ ~Elapsed(t.deadline, today)
            /\ r # None => r.at = t.at /\ r.deadline = t.deadline
            /\ Visible(r) <=> t # None /\ Future(t.deadline, today)
        BY <1>2, SurvivingIs
      <4>3. listed'[l] = Undated <=> t # None /\ Future(t.deadline, today)
        BY <1>10, <3>1
      <4>4. Visible(r) => l \in shown'
        BY <1>2, <1>3, <4>2, <4>3
      <4>5. Agrees(s, l, TRUE, base)
        BY <1>9, <3>1
      <4>6. t = None /\ Mine(l) # {} /\ N.day >= base =>
              N.kind # "tender" \/ Elapsed(N.deadline, today)
        BY <4>5 DEF Agrees
      <4>7. t # None => /\ Mine(l) # {} /\ N.kind = "tender" /\ N.deadline = t.deadline
                        /\ t.at <= N.at
        BY <1>11, <3>1
      <4>8. ~Visible(None)
        BY DEF Visible
      <4> HIDE DEF r, t, N
      <4>9. /\ r # None => /\ Mine(l) # {} /\ r.at <= N.at
                           /\ N.kind = "tender" /\ r.deadline = N.deadline
            /\ r = None /\ Mine(l) # {} /\ N.day >= base =>
                  N.kind # "tender" \/ Elapsed(N.deadline, today)
            /\ listed'[l] = Undated => Visible(r)
        BY <4>2, <4>3, <4>6, <4>7
      <4>10. Newest(Mine(l))' = N
        BY <2>1 DEF N
      <4> QED
        BY <1>3, <1>5, <2>1, <4>1, <4>4, <4>8, <4>9, <4>10 DEF Agrees
    <3>2. CASE last # today
      <4>1. cursor'.tracked[l] = t /\ cursor'.closed[l] = s.closed[l]
        BY <1>3, <1>4, <3>2
      <4>2. listed'[l] = listed[l]
        <5>1. call.seen[l] = "none"
          BY <1>4, <3>2 DEF Silent
        <5> QED
          BY <1>1, <5>1, ShowsIs
      <4>3. Mine(l) = {} => Agrees(s, l, FALSE, base)
        BY <1>9
      <4>4. Mine(l) # {} => Agrees(s, l, N.day <= last, base)
        BY DEF base
      <4>5. Mine(l) # {} /\ read' => N.day <= last
        BY <1>8, <2>1, <2>2
      <4>6. Newest(Mine(l))' = N
        BY <2>1
      <4>7. shown \subseteq shown'
        BY <1>3
      <4> DEFINE seen == N.day <= last
      <4> HIDE DEF read, N, seen
      <4>8. Mine(l) # {} => Agrees(s, l, seen, base)
        BY <4>4 DEF seen
      <4>9. Mine(l) # {} /\ read' => seen
        BY <4>5 DEF seen
      <4>10. Agrees(cursor, l, read, first)'
        BY <1>3, <1>5, <2>1, <4>1, <4>2, <4>3, <4>6, <4>7, <4>8, <4>9 DEF Agrees, N
      <4> QED
        BY <4>10 DEF read, N
    <3> QED
      BY <3>1, <3>2
  <2>4. (first # None /\ cursor.through <= today)'
    BY <1>3, <1>5, <2>2, NoneIs
  <2> QED
    BY <2>3, <2>4 DEF EnteredKept
<1>13. Complete'
  <2>1. ASSUME NEW l \in Lot, call.done,
               \A ns \in Views(l) : OpenBy(ns) /\ Newest(Tenders(ns)).day >= first'
        PROVE  listed'[l] > today
    <3> DEFINE N == Newest(Mine(l))
    <3>1. last = today
      BY <1>4, <2>1
    <3>2. OpenBy(Mine(l)) /\ Newest(Tenders(Mine(l))).day >= first'
      BY <1>1, <2>1, ViewsAre
    <3>3. Mine(l) # {} /\ N.kind = "tender" /\ Future(DeadlineOf(Mine(l)), today)
      BY <1>1, <1>8, <3>2 DEF OpenBy
    <3>4. DeadlineOf(Mine(l)) = N.deadline
      BY <3>3, OfToday, DeadlineOfNewest
    <3>5. N.day >= first'
      BY <1>5, <1>8, <3>2, <3>3, TenderOf
    <3>6. ~Elapsed(N.deadline, today)
      BY <1>2, <1>8, <3>3, <3>4 DEF Future, Elapsed
    <3>7. s.tracked[l] # None
      BY <1>5, <1>9, <3>1, <3>3, <3>5, <3>6 DEF Agrees
    <3>8. listed'[l] = Undated
      BY <1>10, <1>11, <3>1, <3>3, <3>4, <3>7
    <3> QED
      BY <1>2, <3>8
  <2> QED
    BY <2>1, CompleteAfter
<1>14. Sound'
  <2>1. ASSUME NEW l \in Lot, call.done, listed'[l] > today PROVE Remains(l)
    <3>1. last = today
      BY <1>4, <2>1
    <3>2. listed'[l] = Undated
      BY <1>1, <2>1, ShowsIs
    <3>3. s.tracked[l] # None /\ Future(s.tracked[l].deadline, today)
      BY <1>10, <3>1, <3>2
    <3>4. /\ Mine(l) # {} /\ Newest(Mine(l)).kind = "tender"
          /\ Newest(Mine(l)).deadline = s.tracked[l].deadline
      BY <1>11, <3>1, <3>3
    <3>5. Dated(Mine(l)) # {} /\ DeadlineOf(Mine(l)) = Newest(Mine(l)).deadline
      BY <3>4, OfToday, DeadlineOfNewest
    <3>6. OpenBy(Mine(l))
      BY <1>1, <3>3, <3>4, <3>5 DEF OpenBy
    <3> QED
      BY <1>1, <3>6, RemainsIs
  <2>2. \A l \in Lot : call.seen[l] = "closed" => l \in shown
    BY <1>4, <1>10 DEF Silent
  <2>3. Withdrawn(call) \subseteq shown
    BY <2>2, WithdrawnIs
  <2> QED
    BY <2>1, <2>3, SoundAfter
<1> QED
  BY <1>7, <1>12, <1>13, <1>14

(* What was known before a call.                                            *)
LEMMA PriorIs ==
  ASSUME connector \in {"italy", "korea"}, Register, TypeOK, Screen, EnteredKept,
         NEW start \in Int, cursor # None => start = Resumed(cursor)
  PROVE  /\ Prior \in Entered
         /\ cursor # None => cursor.through \in Int /\ cursor.through <= today
         /\ \A l \in Lot : Agrees(Prior, l, Newest(Mine(l)).day < start,
                                  IF cursor = None THEN start ELSE first)
<1>1. CASE cursor = None
  <2>1. Prior = [tracked |-> Absent, closed |-> Absent]
    BY <1>1 DEF Prior
  <2>2. Prior \in Entered
    BY <2>1 DEF Entered, Entries, Absent
  <2>3. ASSUME NEW l \in Lot PROVE Agrees(Prior, l, Newest(Mine(l)).day < start, start)
    <3>1. Prior.tracked[l] = None /\ Prior.closed[l] = None
      BY <2>1 DEF Absent
    <3>2. listed[l] = 0 /\ Undated # 0
      BY <1>1, NoneIs DEF Screen
    <3>3. ~Visible(None)
      BY DEF Visible
    <3>4. Mine(l) # {} => Newest(Mine(l)).day \in Nat
      BY OfToday, NewestOf, Times
    <3> QED
      BY <3>1, <3>2, <3>3, <3>4 DEF Agrees
  <2> QED
    BY <1>1, <2>2, <2>3
<1>2. CASE cursor # None
  <2>1. Prior = [tracked |-> cursor.tracked, closed |-> cursor.closed]
    BY <1>2 DEF Prior
  <2>2. cursor \in [through : Int, tracked : Entries, closed : Entries]
    <3>1. cursor \in Cursor
      BY <1>2 DEF TypeOK
    <3> QED
      BY <3>1, EntryTypes DEF Cursor
  <2>3. Prior \in Entered
    BY <2>1, <2>2 DEF Entered
  <2>4. ASSUME NEW l \in Lot PROVE Agrees(Prior, l, Newest(Mine(l)).day < start, first)
    <3>1. Agrees(cursor, l, Newest(Mine(l)).day < start, first)
      BY <1>2 DEF EnteredKept
    <3>2. Prior.tracked[l] = cursor.tracked[l] /\ Prior.closed[l] = cursor.closed[l]
      BY <2>1
    <3> QED
      BY <3>1, <3>2 DEF Agrees
  <2>5. cursor.through \in Int /\ cursor.through <= today
    BY <1>2, <2>2 DEF EnteredKept
  <2> QED
    BY <1>2, <2>3, <2>4, <2>5
<1> QED
  BY <1>1, <1>2

(* Italy: days from the cursor less the overlap, up to the present or to    *)
(* the budget (fetch_incremental, italy_anac_pvl.py:552-590).               *)
LEMMA ItalyPoll ==
  ASSUME connector = "italy", Register, TypeOK, Screen, EnteredKept, Poll
  PROVE  (TypeOK /\ Screen /\ EnteredKept /\ Complete /\ Sound)'
<1> DEFINE start == Italy!StartDay(cursor, today)
           last == Italy!LesserOf(today, start + Budget - 1)
           ns == Italy!FetchDays(notices, start, last)
           s == Italy!Replay(Italy!ApplyEvent, Italy!Newest, Prior, ns)
           base == IF cursor = None THEN start ELSE first
<1>1. PICK call : call = Call
  OBVIOUS
<1>2. Call = Italy!Fetch(cursor, notices, today)
  BY DEF Call
<1>3. /\ today \in Nat /\ Overlap \in Nat \ {0} /\ Budget \in Nat /\ Budget > 2 * Overlap
      /\ Lookback \in Nat \ {0}
  BY TodayIs, UnitsAre
<1>4. cursor # None => cursor.through \in Int /\ cursor.through <= today
  <2>1. cursor # None => cursor \in Cursor
    BY DEF TypeOK
  <2> QED
    BY <2>1, EntryTypes DEF Cursor, EnteredKept
<1>5. /\ start \in Int /\ last \in Int /\ last <= today /\ last >= start - 1
      /\ cursor # None => start = Resumed(cursor) /\ cursor.through <= last
  BY <1>3, <1>4 DEF Italy!StartDay, Italy!LesserOf, Resumed
<1>6. ns \in SUBSET notices /\ ns = {n \in notices : start <= n.day /\ n.day <= last}
  BY DEF Italy!FetchDays, Italy!Published
<1> HIDE DEF start, last, ns, s
<1>7. call = Reads(s, start, last)
  <2>1. /\ Italy!Survivors(s, today) = Surviving(s) /\ Italy!Observed(s, today) = Reported(s)
        /\ Italy!Absent = Absent /\ Italy!Silent = Silent
    BY DEF Italy!Survivors, Surviving, Italy!Observed, Reported, Italy!Absent, Absent,
           Italy!Silent, Silent, Italy!Elapsed, Elapsed, Italy!Future, Future,
           Italy!Visible, Visible, Italy!Observation
  <2>2. Prior = IF cursor = None THEN [tracked |-> Italy!Absent, closed |-> Italy!Absent]
                ELSE [tracked |-> cursor.tracked, closed |-> cursor.closed]
    BY <2>1 DEF Prior
  <2> DEFINE through == IF cursor = None THEN last ELSE Italy!GreaterOf(cursor.through, last)
  <2>3. through = last
    BY <1>4, <1>5 DEF Italy!GreaterOf
  <2>4. Call = IF through >= today
               THEN Italy!Result([through |-> through, tracked |-> Italy!Survivors(s, today),
                                  closed |-> Italy!Absent], Italy!Observed(s, today), TRUE, start)
               ELSE Italy!Result([through |-> through, tracked |-> s.tracked,
                                  closed |-> s.closed], Italy!Silent, FALSE, start)
    BY <1>2, <2>2, Zenon DEF Italy!Fetch, start, last, ns, s
  <2> HIDE DEF through
  <2> QED
    BY <1>1, <2>1, <2>3, <2>4 DEF Reads, Italy!Result, Result
<1>8. PICK h : /\ h[{}] = Prior
               /\ \A k \in SUBSET ns : k # {} /\ h[k \ {Newest(k)}] \in Entered =>
                    h[k] = Applied(h[k \ {Newest(k)}], Newest(k))
               /\ h[ns] = s
  BY <1>5, <1>6, PriorIs, ItalyReplay DEF s
<1>9. /\ s \in Entered
      /\ \A l \in Lot :
           Agrees(s, l, Newest(Mine(l)).day < start \/ Newest(Mine(l)) \in ns, base)
  <2>1. base \in Int
    BY <1>5 DEF TypeOK, EnteredKept
  <2>2. \A n \in ns : n.day >= start
    BY <1>5, <1>6, Times
  <2>3. Prior \in Entered /\ \A l \in Lot : Agrees(Prior, l, Newest(Mine(l)).day < start, base)
    BY <1>5, PriorIs
  <2> HIDE DEF base
  <2> QED
    BY <1>5, <1>6, <1>8, <2>1, <2>2, <2>3, EnteredReplay
<1>10. ASSUME NEW l \in Lot
       PROVE  /\ Mine(l) # {} => Agrees(s, l, Newest(Mine(l)).day <= last, base)
              /\ Mine(l) = {} => Agrees(s, l, FALSE, base)
  <2> DEFINE N == Newest(Mine(l))
             read == N.day < start \/ N \in ns
             seen == N.day <= last
  <2>1. Agrees(s, l, read, base)
    BY <1>9
  <2>2. Mine(l) # {} => (seen => read)
    <3>1. Mine(l) # {} => N \in notices /\ N.day \in Nat
      BY OfToday, NewestOf, Times
    <3> QED
      BY <1>5, <1>6, <3>1
  <2> HIDE DEF N, read, base, seen
  <2>3. /\ Mine(l) # {} => Agrees(s, l, seen, base)
        /\ Mine(l) = {} => Agrees(s, l, FALSE, base)
    BY <2>1, <2>2 DEF Agrees
  <2> QED
    BY <2>3 DEF seen, N
<1> QED
  BY <1>1, <1>5, <1>7, <1>9, <1>10, EnteredPoll

(* Korea: the same of the bid notices (fetch_incremental,                   *)
(* korea_koneps.py:484-517).                                                *)
LEMMA KoreaPoll ==
  ASSUME connector = "korea", Register, TypeOK, Screen, EnteredKept, Poll
  PROVE  (TypeOK /\ Screen /\ EnteredKept /\ Complete /\ Sound)'
<1> DEFINE start == Korea!QueryStart(cursor, today)
           last == Korea!WindowEnd(cursor, today)
           ns == Korea!Window(notices, start, last)
           s == Korea!Replay(Korea!ApplyEvent, Korea!Newest, Prior, ns)
           base == IF cursor = None THEN start ELSE first
<1>1. PICK call : call = Call
  OBVIOUS
<1>2. Call = Korea!Fetch(cursor, notices, today)
  BY DEF Call
<1>3. today \in Nat /\ Overlap \in Nat \ {0} /\ Budget \in Nat /\ Lookback \in Nat \ {0}
  BY TodayIs, UnitsAre
<1>4. cursor # None => cursor.through \in Int /\ cursor.through <= today
  <2>1. cursor # None => cursor \in Cursor
    BY DEF TypeOK
  <2> QED
    BY <2>1, EntryTypes DEF Cursor, EnteredKept
<1>5. /\ start \in Int /\ last \in Int /\ last <= today
      /\ cursor # None => start = Resumed(cursor)
  BY <1>3, <1>4 DEF Korea!QueryStart, Korea!WindowEnd, Korea!LesserOf, Resumed
<1>6. /\ ns \in SUBSET notices
      /\ ns = {n \in notices : /\ \A o \in notices : o.lot = n.lot => o.at <= n.at
                               /\ start <= n.day /\ n.day <= last}
  BY DEF Korea!Window, Korea!Published
<1> HIDE DEF start, last, ns, s
<1>7. call = Reads(s, start, last)
  <2>1. /\ Korea!Survivors(s, today) = Surviving(s) /\ Korea!Observed(s, today) = Reported(s)
        /\ Korea!Absent = Absent /\ Korea!Silent = Silent
    BY DEF Korea!Survivors, Surviving, Korea!Observed, Reported, Korea!Absent, Absent,
           Korea!Silent, Silent, Korea!Elapsed, Elapsed, Korea!Future, Future,
           Korea!Visible, Visible, Korea!Observation
  <2>2. Prior = IF cursor = None THEN [tracked |-> Korea!Absent, closed |-> Korea!Absent]
                ELSE [tracked |-> cursor.tracked, closed |-> cursor.closed]
    BY <2>1 DEF Prior
  <2>3. Korea!Bids(cursor, notices, today) = s
    BY <2>2, Zenon DEF Korea!Bids, start, last, ns, s
  <2>4. Call = IF last >= today
               THEN Korea!Result([through |-> last, tracked |-> Korea!Survivors(s, today),
                                  closed |-> Korea!Absent], Korea!Observed(s, today), TRUE, start)
               ELSE Korea!Result([through |-> last, tracked |-> s.tracked,
                                  closed |-> s.closed], Korea!Silent, FALSE, start)
    BY <1>2, <2>3, Zenon DEF Korea!Fetch, start, last
  <2> QED
    BY <1>1, <2>1, <2>4 DEF Reads, Korea!Result, Result
<1>8. PICK h : /\ h[{}] = Prior
               /\ \A k \in SUBSET ns : k # {} /\ h[k \ {Newest(k)}] \in Entered =>
                    h[k] = Applied(h[k \ {Newest(k)}], Newest(k))
               /\ h[ns] = s
  BY <1>5, <1>6, PriorIs, KoreaReplay DEF s
<1>9. /\ s \in Entered
      /\ \A l \in Lot :
           Agrees(s, l, Newest(Mine(l)).day < start \/ Newest(Mine(l)) \in ns, base)
  <2>1. base \in Int
    BY <1>5 DEF TypeOK, EnteredKept
  <2>2. \A n \in ns : n.day >= start
    BY <1>5, <1>6, Times
  <2>3. Prior \in Entered /\ \A l \in Lot : Agrees(Prior, l, Newest(Mine(l)).day < start, base)
    BY <1>5, PriorIs
  <2> HIDE DEF base
  <2> QED
    BY <1>5, <1>6, <1>8, <2>1, <2>2, <2>3, EnteredReplay
<1>10. ASSUME NEW l \in Lot
       PROVE  /\ Mine(l) # {} => Agrees(s, l, Newest(Mine(l)).day <= last, base)
              /\ Mine(l) = {} => Agrees(s, l, FALSE, base)
  <2> DEFINE N == Newest(Mine(l))
             read == N.day < start \/ N \in ns
             seen == N.day <= last
  <2>1. Agrees(s, l, read, base)
    BY <1>9
  <2>2. Mine(l) # {} => (seen => read)
    <3>1. Mine(l) # {} => /\ N \in notices /\ N.day \in Nat /\ N.lot = l
                          /\ \A o \in notices : o.lot = l => o.at <= N.at
      BY OfToday, NewestOf, Times DEF Mine
    <3> QED
      BY <1>5, <1>6, <3>1
  <2> HIDE DEF N, read, base, seen
  <2>3. /\ Mine(l) # {} => Agrees(s, l, seen, base)
        /\ Mine(l) = {} => Agrees(s, l, FALSE, base)
    BY <2>1, <2>2 DEF Agrees
  <2> QED
    BY <2>3 DEF seen, N
<1> QED
  BY <1>1, <1>5, <1>7, <1>9, <1>10, EnteredPoll

(* A notice published after a call is one the next call applies.            *)
LEMMA EnteredRest ==
  ASSUME connector \in {"italy", "korea"}, Register, TypeOK, EnteredKept
  PROVE  /\ \A l \in Lot : \A n : New(n, l) => EnteredKept'
         /\ NextDay => EnteredKept'
<1>1. cursor # None => cursor.through \in Int /\ Resumed(cursor) \in Int /\ first \in Int
                       /\ cursor.tracked \in Entries /\ cursor.closed \in Entries
  <2>1. cursor # None => cursor \in [through : Int, tracked : Entries, closed : Entries]
    BY EntryTypes DEF TypeOK, Cursor
  <2> QED
    BY <2>1, UnitsAre DEF TypeOK, EnteredKept, Resumed
<1>2. ASSUME NEW l \in Lot, NEW n, New(n, l) PROVE EnteredKept'
  <2> SUFFICES ASSUME cursor # None PROVE EnteredKept'
    BY <1>2, NewMine DEF EnteredKept
  <2>1. /\ n.lot = l /\ n.day \in Nat /\ n.at \in Nat /\ n.day <= today /\ n.day >= today - 1
        /\ connector = "italy" => n.day = today
        /\ notices' = notices \cup {n} /\ Mine(l)' = Mine(l) \cup {n}
        /\ \A k \in Lot : k # l => Mine(k)' = Mine(k)
        /\ connector' = connector /\ today' = today /\ cursor' = cursor /\ first' = first
        /\ listed' = listed /\ shown' = shown
    BY <1>2, NewMine DEF Late
  <2>2. Resumed(cursor)' = Resumed(cursor)
    BY <2>1 DEF Resumed
  <2>3. ~(n.day < Resumed(cursor))
    BY <1>1, <2>1, TodayIs, UnitsAre DEF EnteredKept, Resumed
  <2>4. ASSUME NEW k \in Lot
        PROVE  Agrees(cursor, k, Newest(Mine(k)).day < Resumed(cursor), first)'
    <3>1. Agrees(cursor, k, Newest(Mine(k)).day < Resumed(cursor), first)
      BY DEF EnteredKept
    <3>2. CASE Mine(k)' = Mine(k)
      <4>1. Newest(Mine(k))' = Newest(Mine(k))
        BY <3>2 DEF Newest
      <4> QED
        BY <2>1, <2>2, <3>1, <3>2, <4>1 DEF Agrees
    <3>3. CASE k = l /\ Mine(l) = {}
      <4>1. cursor.tracked[l] = None /\ cursor.closed[l] = None
        BY <3>1, <3>3 DEF Agrees
      <4>2. Newest(Mine(l))' = n
        <5>1. Newest({} \cup {n}) = n
          BY <1>2, NewestWith
        <5> QED
          BY <2>1, <3>3, <5>1
      <4> QED
        BY <2>1, <2>2, <2>3, <3>1, <3>3, <4>1, <4>2 DEF Agrees
    <3>4. CASE k = l /\ Mine(l) # {} /\ n.at > Newest(Mine(l)).at
      <4>1. Newest(Mine(l))' = n
        <5>1. Newest(Mine(l) \cup {n}) = n
          BY <1>2, <3>4, OfToday, NewestWith
        <5> QED
          BY <2>1, <5>1
      <4>2. Newest(Mine(l)).at \in Nat
        BY <3>4, OfToday, NewestOf, Times
      <4>3. /\ cursor.tracked[l] # None =>
                 /\ cursor.closed[l] = None /\ cursor.tracked[l].at \in Nat
                 /\ cursor.tracked[l].at <= Newest(Mine(l)).at
            /\ cursor.closed[l] # None =>
                 cursor.closed[l].at \in Nat /\ cursor.closed[l].at <= Newest(Mine(l)).at
            /\ listed[l] = Undated => Visible(cursor.tracked[l]) \/ Visible(cursor.closed[l])
            /\ Visible(cursor.tracked[l]) \/ Visible(cursor.closed[l]) => l \in shown
        BY <1>1, <3>1, <3>4 DEF Agrees, Entries, Entry
      <4>4. /\ cursor.tracked[l] # None => cursor.tracked[l].at < n.at
            /\ cursor.closed[l] # None => cursor.closed[l].at < n.at
        BY <2>1, <3>4, <4>2, <4>3
      <4>5. Mine(l)' # {}
        BY <2>1
      <4> DEFINE read == Newest(Mine(l)).day < Resumed(cursor)
      <4>6. ~read'
        BY <2>2, <2>3, <4>1
      <4> HIDE DEF read
      <4>7. Agrees(cursor, l, read, first)'
        BY <2>1, <4>1, <4>3, <4>4, <4>5, <4>6 DEF Agrees
      <4> QED
        BY <3>4, <4>7 DEF read
    <3>5. CASE k = l /\ Mine(l) # {} /\ ~(n.at > Newest(Mine(l)).at)
      <4>1. Newest(Mine(l))' = Newest(Mine(l))
        <5>1. Newest(Mine(l) \cup {n}) = Newest(Mine(l))
          BY <1>2, <3>5, OfToday, NewestWith
        <5> QED
          BY <2>1, <5>1
      <4>2. Mine(l)' # {}
        BY <2>1
      <4> QED
        BY <2>1, <2>2, <3>1, <3>5, <4>1, <4>2 DEF Agrees
    <3> QED
      BY <2>1, <3>2, <3>3, <3>4, <3>5
  <2> QED
    BY <2>1, <2>4 DEF EnteredKept
<1>3. ASSUME NextDay PROVE EnteredKept'
  <2> SUFFICES ASSUME cursor # None PROVE EnteredKept'
    BY <1>3, NextDayIs DEF EnteredKept
  <2>1. /\ today' = today + 1 /\ connector' = connector /\ notices' = notices
        /\ cursor' = cursor /\ first' = first /\ listed' = listed /\ shown' = shown
        /\ \A l : Mine(l)' = Mine(l)
    BY <1>3, NextDayIs
  <2>2. Resumed(cursor)' = Resumed(cursor)
    BY <2>1 DEF Resumed
  <2>3. cursor.through <= today + 1
    BY <1>1, TodayIs DEF EnteredKept
  <2>4. ASSUME NEW l \in Lot
        PROVE  Agrees(cursor, l, Newest(Mine(l)).day < Resumed(cursor), first)'
    <3>1. Agrees(cursor, l, Newest(Mine(l)).day < Resumed(cursor), first)
      BY DEF EnteredKept
    <3>2. Newest(Mine(l))' = Newest(Mine(l))
      BY <2>1 DEF Newest
    <3>3. Mine(l) # {} /\ Elapsed(Newest(Mine(l)).deadline, today) =>
            Elapsed(Newest(Mine(l)).deadline, today')
      <4>1. Mine(l) # {} => Newest(Mine(l)).deadline \in Int \cup {None}
        BY OfToday, NewestOf, Times
      <4> QED
        BY <2>1, <4>1, TodayIs DEF Elapsed
    <3> QED
      BY <2>1, <2>2, <3>1, <3>2, <3>3 DEF Agrees
  <2> QED
    BY <2>1, <2>3, <2>4 DEF EnteredKept
<1> QED
  BY <1>2, <1>3

-----------------------------------------------------------------------------
(* The Netherlands: the newest publication of a procedure decides.          *)
Details == [Lot -> Netherlands!Procedure \cup {None}]

(* What is known of a lot is its newest notice, once that is read.          *)
Settled(s, l, read, base) ==
  LET newest == Newest(Mine(l)) IN
  /\ s[l] # None => Mine(l) # {}
  /\ read /\ s[l] # None => (s[l].phase = "open" <=> newest.kind = "tender")
  /\ read /\ s[l] # None /\ newest.kind = "tender" => s[l].deadline = newest.deadline
  /\ read /\ s[l] = None /\ Mine(l) # {} /\ newest.day >= base =>
       newest.kind # "tender" \/ Elapsed(newest.deadline, today)
  /\ listed[l] = Undated => Visible(s[l])
  /\ Visible(s[l]) => l \in shown

NetherlandsKept ==
  cursor # None =>
    /\ first # None /\ cursor.through <= today
    /\ \A l \in Lot :
         Settled(cursor.tracked, l, Newest(Mine(l)).day < cursor.through - Overlap, first)

(* What a publication does to a procedure of the Netherlands.               *)
LEMMA DetailIs ==
  ASSUME connector = "netherlands", Register, NEW s \in Details, NEW n \in notices
  PROVE  LET r == Netherlands!ApplyDetail(s, n) IN
         /\ r \in Details
         /\ \A l \in Lot : l # n.lot => r[l] = s[l]
         /\ r[n.lot] # None <=> s[n.lot] # None \/ n.kind = "tender"
         /\ r[n.lot] # None => /\ r[n.lot].phase = "open" <=> n.kind = "tender"
                               /\ r[n.lot].deadline = n.deadline
         /\ Visible(r[n.lot]) <=> Visible(s[n.lot])
<1> DEFINE state == Netherlands!FromDetail(s[n.lot], n)
           r == Netherlands!ApplyDetail(s, n)
<1>1. n.lot \in Lot /\ n.deadline \in Int \cup {None} /\ n.kind \in {"tender", "close", "leave"}
  BY Times DEF Register, Terms, Kinds, Netherlands!Kinds
<1>2. s[n.lot] \in Netherlands!Procedure \cup {None}
  BY <1>1 DEF Details
<1>3. /\ state \in Netherlands!Procedure /\ (state.phase = "open" <=> n.kind = "tender")
      /\ state.deadline = n.deadline /\ state # None
      /\ Visible(state) <=> Visible(s[n.lot])
  <2> DEFINE phase == CASE n.kind = "tender" -> "open" [] n.kind = "close" -> "terminal"
                        [] OTHER -> "other"
             p == s[n.lot]
             b == Visible(p)
  <2>1. phase \in Netherlands!Phase /\ (phase = "open" <=> n.kind = "tender")
    BY <1>1 DEF Netherlands!Phase
  <2>2. b \in BOOLEAN
    <3> HIDE DEF p
    <3> QED
      BY <1>2, Zenon DEF Visible, Netherlands!Procedure, p
  <2>3. state = [phase |-> phase, deadline |-> n.deadline, visible |-> b]
    BY DEF Netherlands!FromDetail, Netherlands!Visible, Visible
  <2> HIDE DEF phase, b, p
  <2>4. state \in Netherlands!Procedure
    BY <1>1, <2>1, <2>2, <2>3 DEF Netherlands!Procedure
  <2>5. state # None
    BY <2>4, NoneAssumption
  <2>6. state.visible = b /\ state.phase = phase /\ state.deadline = n.deadline
    BY <2>3
  <2>7. Visible(state) <=> b
    BY <2>5, <2>6, Zenon DEF Visible
  <2> QED
    BY <2>1, <2>4, <2>5, <2>6, <2>7 DEF b, p
<1>4. r = IF s[n.lot] # None \/ state.phase = "open" THEN [s EXCEPT ![n.lot] = state] ELSE s
  BY DEF Netherlands!ApplyDetail
<1> HIDE DEF state, r
<1>5. CASE s[n.lot] # None \/ state.phase = "open"
  <2>1. r = [s EXCEPT ![n.lot] = state]
    BY <1>4, <1>5
  <2>2. /\ r \in Details /\ r[n.lot] = state
        /\ \A l \in Lot : l # n.lot => r[l] = s[l]
    BY <1>1, <1>3, <2>1 DEF Details
  <2> QED
    BY <1>3, <1>5, <2>2 DEF r
<1>6. CASE ~(s[n.lot] # None \/ state.phase = "open")
  BY <1>3, <1>4, <1>6 DEF r
<1> QED
  BY <1>5, <1>6

(* Replay is made of ApplyDetail.                                           *)
LEMMA DetailsReplay ==
  ASSUME connector = "netherlands", Register, NEW ns \in SUBSET notices, NEW s0 \in Details
  PROVE  \E h : /\ h[{}] = s0
                /\ \A k \in SUBSET ns : k # {} =>
                     h[k] = Netherlands!ApplyDetail(h[k \ {Newest(k)}], Newest(k))
                /\ h[ns] = Netherlands!Replay(Netherlands!ApplyDetail, Netherlands!Newest, s0, ns)
<1> DEFINE S == Details
           f == [x \in S \X ns |-> Netherlands!ApplyDetail(x[1], x[2])]
           last == [k \in SUBSET ns |-> Newest(k)]
           E(g) == [k \in SUBSET ns |->
                      IF k = {} THEN s0 ELSE Netherlands!ApplyDetail(g[k \ {Newest(k)}], Newest(k))]
           h == CHOOSE g : g = E(g)
<1>1. f \in [S \X ns -> S]
  BY DetailIs
<1>2. \A k \in SUBSET ns : k # {} => last[k] \in k
  BY NewestOf
<1>3. IsFiniteSet(ns) /\ s0 \in S
  BY FS_Subset DEF Register
<1>4. \A s \in S, n \in ns : f[<<s, n>>] = Netherlands!ApplyDetail(s, n)
  OBVIOUS
<1>5. \A k \in SUBSET ns : last[k] = Newest(k)
  OBVIOUS
<1> HIDE DEF f, last, S
<1>6. PICK g \in [SUBSET ns -> S] :
        g = [k \in SUBSET ns |-> IF k = {} THEN s0 ELSE f[g[k \ {last[k]}], last[k]]]
  <2>1. Replays(ns, S, s0, f, last)
    BY <1>1, <1>2, <1>3 DEF Replays
  <2>2. \E g \in [SUBSET ns -> S] : Replayed(g, ns, s0, f, last)
    BY <2>1, ReplayExists
  <2> QED
    BY <2>2 DEF Replayed
<1>7. ASSUME NEW k \in SUBSET ns
      PROVE  (IF k = {} THEN s0 ELSE f[g[k \ {last[k]}], last[k]])
               = IF k = {} THEN s0 ELSE Netherlands!ApplyDetail(g[k \ {Newest(k)}], Newest(k))
  <2>1. k # {} => g[k \ {last[k]}] \in S /\ last[k] \in ns
    BY <1>2
  <2>2. k # {} => f[g[k \ {last[k]}], last[k]] = Netherlands!ApplyDetail(g[k \ {last[k]}], last[k])
    BY <1>4, <2>1
  <2> QED
    BY <1>5, <2>2
<1>8. g = E(g)
  BY <1>6, <1>7, Zenon
<1>9. h = E(h)
  BY <1>8, Zenon
<1>10. Netherlands!Replay(Netherlands!ApplyDetail, Netherlands!Newest, s0, ns) = h[ns]
  BY DEF Netherlands!Replay, Netherlands!Newest, Newest
<1> HIDE DEF h
<1>11. h[{}] = s0 /\ \A k \in SUBSET ns : k # {} =>
                      h[k] = Netherlands!ApplyDetail(h[k \ {Newest(k)}], Newest(k))
  BY <1>9, Zenon
<1> QED
  BY <1>10, <1>11

(* Applied from the first to the last, publications leave each procedure as *)
(* its newest says (Settled).                                               *)
LEMMA DetailsSettled ==
  ASSUME connector = "netherlands", Register, NEW ns \in SUBSET notices, NEW s0 \in Details,
         NEW base \in Int, NEW start \in Int, \A n \in ns : n.day >= start,
         \A l \in Lot : Settled(s0, l, Newest(Mine(l)).day < start, base)
  PROVE  LET s == Netherlands!Replay(Netherlands!ApplyDetail, Netherlands!Newest, s0, ns) IN
         /\ s \in Details
         /\ \A l \in Lot :
              Settled(s, l, Newest(Mine(l)).day < start \/ Newest(Mine(l)) \in ns, base)
<1>1. PICK h : /\ h[{}] = s0
               /\ \A k \in SUBSET ns : k # {} =>
                    h[k] = Netherlands!ApplyDetail(h[k \ {Newest(k)}], Newest(k))
               /\ h[ns] = Netherlands!Replay(Netherlands!ApplyDetail, Netherlands!Newest, s0, ns)
  BY DetailsReplay
<1> DEFINE Read(l, k) == Newest(Mine(l)).day < start \/ Newest(Mine(l)) \in k
           J == {x \in (SUBSET ns) \X Details :
                   \A l \in Lot : Settled(x[2], l, Read(l, x[1]), base)}
           last == [k \in SUBSET ns |-> Newest(k)]
<1>2. \A k \in SUBSET ns : k # {} => last[k] \in k
  BY NewestOf
<1>3. h[{}] \in Details /\ <<{}, h[{}]>> \in J
  <2>1. \A l \in Lot : Read(l, {}) <=> Newest(Mine(l)).day < start
    OBVIOUS
  <2>2. \A l \in Lot : Settled(s0, l, Read(l, {}), base)
    <3> HIDE DEF Read
    <3> QED
      BY <2>1 DEF Settled
  <2> HIDE DEF Read
  <2> QED
    BY <1>1, <2>2
<1>4. ASSUME NEW k \in SUBSET ns, k # {}, h[k \ {last[k]}] \in Details,
             <<k \ {last[k]}, h[k \ {last[k]}]>> \in J
      PROVE  h[k] \in Details /\ <<k, h[k]>> \in J
  <2> DEFINE n == last[k]
             s == h[k \ {n}]
             r == Netherlands!ApplyDetail(s, n)
  <2>1. /\ n \in k /\ n \in ns /\ n \in notices /\ n.lot \in Lot /\ n.day \in Nat /\ n.day >= start
        /\ \A o \in k : o.at <= n.at
    BY <1>2, <1>4, NewestOf, Times
  <2>2. h[k] = r /\ s \in Details /\ \A l \in Lot : Settled(s, l, Read(l, k \ {n}), base)
    <3>1. \A l \in Lot : Settled(s, l, Read(l, k \ {n}), base)
      <4> HIDE DEF Read, n
      <4> QED
        BY <1>4 DEF n
    <3> QED
      BY <1>1, <1>4, <3>1
  <2> HIDE DEF n, s, r
  <2>3. r \in Details
    BY <2>1, <2>2, DetailIs DEF r
  <2>4. ASSUME NEW l \in Lot, l # n.lot PROVE Settled(r, l, Read(l, k), base)
    <3>1. r[l] = s[l]
      BY <2>1, <2>2, <2>4, DetailIs DEF r
    <3>2. Mine(l) # {} => (Read(l, k) <=> Read(l, k \ {n}))
      <4>1. Mine(l) # {} => Newest(Mine(l)) \in Mine(l)
        BY OfToday, NewestOf
      <4>2. Mine(l) # {} => Newest(Mine(l)) # n
        BY <2>4, <4>1 DEF Mine
      <4> QED
        BY <4>2
    <3>3. Settled(s, l, Read(l, k \ {n}), base)
      BY <2>2
    <3> HIDE DEF Read
    <3> QED
      BY <3>1, <3>2, <3>3 DEF Settled
  <2>5. ASSUME NEW l \in Lot, l = n.lot PROVE Settled(r, l, Read(l, k), base)
    <3>1. /\ n \in Mine(l) /\ Newest(Mine(l)) \in Mine(l) /\ n.at <= Newest(Mine(l)).at
          /\ Newest(Mine(l)) \in notices
      BY <2>1, <2>5, OfToday, NewestOf DEF Mine
    <3>2. n.day <= Newest(Mine(l)).day /\ Newest(Mine(l)).day \in Nat
      BY <2>1, <3>1, Times
    <3>3. ~(Newest(Mine(l)).day < start)
      BY <2>1, <3>2
    <3>4. Newest(Mine(l)) \in k => Newest(Mine(l)) = n
      <4>1. Newest(Mine(l)) \in k => n.at = Newest(Mine(l)).at
        BY <2>1, <3>1, Times
      <4> QED
        BY <2>1, <3>1, <4>1, Times
    <3>5. Read(l, k) => n = Newest(Mine(l))
      BY <3>3, <3>4
    <3>6. /\ listed[l] = Undated => Visible(s[l])
          /\ Visible(s[l]) => l \in shown
      BY <2>2 DEF Settled
    <3>7. /\ r[l] # None <=> s[l] # None \/ n.kind = "tender"
          /\ r[l] # None => /\ r[l].phase = "open" <=> n.kind = "tender"
                            /\ r[l].deadline = n.deadline
          /\ Visible(r[l]) <=> Visible(s[l])
      BY <2>1, <2>2, <2>5, DetailIs DEF r
    <3>8. Mine(l) # {}
      BY <3>1
    <3> HIDE DEF Read
    <3> QED
      BY <3>5, <3>6, <3>7, <3>8 DEF Settled
  <2> HIDE DEF Read
  <2>6. \A l \in Lot : Settled(r, l, Read(l, k), base)
    BY <2>4, <2>5
  <2> QED
    BY <2>2, <2>3, <2>6
<1>5. IsFiniteSet(ns)
  BY FS_Subset DEF Register
<1> HIDE DEF J, last
<1>6. Inductive(ns, Details, J, h, last)
  BY <1>2, <1>3, <1>4, <1>5, Zenon DEF Inductive
<1>7. h[ns] \in Details /\ <<ns, h[ns]>> \in J
  BY <1>6, ReplayInduction
<1> QED
  BY <1>1, <1>7 DEF J

(* Which procedures are tracked on, and which of them are visible.          *)
LEMMA SettledSurvivor ==
  ASSUME NEW s \in Details, NEW l \in Lot, today \in Int
  PROVE  LET t == s[l]
             r == Netherlands!Survivors(s, today)[l] IN
         /\ r \in Netherlands!Procedure \cup {None}
         /\ r # None <=> t # None /\ t.phase = "open" /\ ~Elapsed(t.deadline, today)
         /\ r # None => r.phase = "open" /\ r.deadline = t.deadline
         /\ Visible(r) <=> t # None /\ t.phase = "open" /\ Future(t.deadline, today)
<1> DEFINE t == s[l]
           r == Netherlands!Survivors(s, today)[l]
<1>1. t \in Netherlands!Procedure \cup {None}
  BY DEF Details
<1>2. r = IF t = None \/ t.phase # "open" \/ Elapsed(t.deadline, today) THEN None
          ELSE [t EXCEPT !.visible = t.deadline # None]
  BY DEF Netherlands!Survivors, Netherlands!Elapsed, Elapsed
<1> HIDE DEF t, r
<1>3. CASE t = None \/ t.phase # "open" \/ Elapsed(t.deadline, today)
  <2>1. r = None
    BY <1>2, <1>3
  <2>2. ~(t # None /\ t.phase = "open" /\ Future(t.deadline, today))
    BY <1>1, <1>3 DEF Netherlands!Procedure, Future, Elapsed
  <2> QED
    BY <1>3, <2>1, <2>2 DEF Visible, r, t
<1>4. CASE ~(t = None \/ t.phase # "open" \/ Elapsed(t.deadline, today))
  <2>1. t \in Netherlands!Procedure /\ r = [t EXCEPT !.visible = t.deadline # None]
    BY <1>1, <1>2, <1>4
  <2>2. /\ r \in Netherlands!Procedure /\ r.phase = t.phase /\ r.deadline = t.deadline
        /\ r.visible = (t.deadline # None)
    BY <2>1 DEF Netherlands!Procedure
  <2>3. r # None
    BY <2>2, NoneAssumption
  <2>4. Visible(r) <=> t.deadline # None
    BY <2>2, <2>3, Zenon DEF Visible
  <2>5. t.deadline # None <=> Future(t.deadline, today)
    BY <1>4, <2>1 DEF Netherlands!Procedure, Future, Elapsed
  <2> QED
    BY <1>4, <2>2, <2>3, <2>4, <2>5 DEF r, t
<1> QED
  BY <1>3, <1>4

(* Netherlands: all the publications since the cursor less the overlap      *)
(* (fetch_incremental, netherlands_tenderned.py:499-525).                   *)
LEMMA NetherlandsPoll ==
  ASSUME connector = "netherlands", Register, TypeOK, Screen, NetherlandsKept, Poll
  PROVE  (TypeOK /\ Screen /\ NetherlandsKept /\ Complete /\ Sound)'
<1> DEFINE start == Netherlands!StartDate(cursor, today)
           ns == Netherlands!Discover(notices, start, today)
           before == IF cursor = None THEN Netherlands!Absent ELSE cursor.tracked
           s == Netherlands!Replay(Netherlands!ApplyDetail, Netherlands!Newest, before, ns)
           base == IF cursor = None THEN start ELSE first
           open(l) == s[l] # None /\ s[l].phase = "open" /\ Future(s[l].deadline, today)
<1>1. PICK call : call = Call
  OBVIOUS
<1>2. Call = Netherlands!Fetch(cursor, notices, today)
  BY DEF Call
<1>3. /\ call.cursor = [through |-> today, tracked |-> Netherlands!Survivors(s, today)]
      /\ call.seen = Netherlands!Observed(s, today)
      /\ call.done = TRUE /\ call.first = start
  BY <1>1, <1>2 DEF Netherlands!Fetch, Netherlands!Result
<1>4. /\ today \in Nat /\ today < Undated /\ Undated # 0 /\ Overlap \in Nat \ {0}
      /\ Lookback \in Nat \ {0}
  BY TodayIs, UnitsAre, NoneIs
<1>5. /\ connector \notin Plain /\ ~Gap
      /\ connector \notin {"germany", "latvia", "us", "canada", "switzerland", "uk", "ecuador"}
      /\ Cursor = [through : Int, tracked : Details]
      /\ Kinds = {"tender", "close", "leave"}
  BY DEF Plain, Gap, Cursor, Netherlands!Cursor, Details, Kinds, Netherlands!Kinds
<1>6. cursor # None => cursor.through \in Int /\ cursor.through <= today /\ cursor.tracked \in Details
  BY <1>5 DEF TypeOK, NetherlandsKept
<1>7. /\ start \in Int /\ base \in Int
      /\ start = IF cursor = None THEN today - Lookback ELSE cursor.through - Overlap
  BY <1>4, <1>6 DEF Netherlands!StartDate, TypeOK, NetherlandsKept
<1>8. ns \in SUBSET notices /\ ns = {n \in notices : start <= n.day /\ n.day <= today}
  BY DEF Netherlands!Discover, Netherlands!Published
<1>9. /\ before \in Details
      /\ \A l \in Lot : Settled(before, l, Newest(Mine(l)).day < start, base)
  <2>1. CASE cursor = None
    <3>1. before = [l \in Lot |-> None]
      BY <2>1 DEF Netherlands!Absent
    <3>2. before \in Details
      BY <3>1 DEF Details
    <3>3. ASSUME NEW l \in Lot PROVE Settled(before, l, Newest(Mine(l)).day < start, start)
      <4>1. listed[l] = 0 /\ before[l] = None
        BY <2>1, <3>1 DEF Screen
      <4>2. ~Visible(None)
        BY DEF Visible
      <4>3. Mine(l) # {} => Newest(Mine(l)).day \in Nat
        BY OfToday, NewestOf, Times
      <4> HIDE DEF before, start
      <4> QED
        BY <1>4, <1>7, <4>1, <4>2, <4>3 DEF Settled
    <3> QED
      BY <2>1, <3>2, <3>3
  <2>2. CASE cursor # None
    BY <1>6, <1>7, <2>2 DEF NetherlandsKept
  <2> QED
    BY <2>1, <2>2
<1> HIDE DEF start, ns, before, base
<1>10. /\ s \in Details
       /\ \A l \in Lot :
            Settled(s, l, Newest(Mine(l)).day < start \/ Newest(Mine(l)) \in ns, base)
  <2>1. \A n \in ns : n.day >= start
    BY <1>7, <1>8, Times
  <2> QED
    BY <1>7, <1>8, <1>9, <2>1, DetailsSettled
<1> HIDE DEF s
<1>11. ASSUME NEW l \in Lot
       PROVE  /\ s[l] # None =>
                   /\ Mine(l) # {} /\ (s[l].phase = "open" <=> Newest(Mine(l)).kind = "tender")
                   /\ s[l].phase = "open" => s[l].deadline = Newest(Mine(l)).deadline
              /\ s[l] = None /\ Mine(l) # {} /\ Newest(Mine(l)).day >= base =>
                   Newest(Mine(l)).kind # "tender" \/ Elapsed(Newest(Mine(l)).deadline, today)
              /\ listed[l] = Undated => Visible(s[l])
              /\ Visible(s[l]) => l \in shown
              /\ s[l] \in Netherlands!Procedure \cup {None}
  <2> DEFINE N == Newest(Mine(l))
             read == N.day < start \/ N \in ns
  <2>1. Settled(s, l, read, base)
    BY <1>10
  <2>2. Mine(l) # {} => read
    <3>1. Mine(l) # {} => N \in notices /\ N.day \in Nat /\ N.day <= today
      BY OfToday, NewestOf, Times DEF Register
    <3> QED
      BY <1>7, <1>8, <3>1
  <2>3. s[l] \in Netherlands!Procedure \cup {None}
    BY <1>10 DEF Details
  <2> HIDE DEF read, N
  <2> QED
    BY <2>1, <2>2, <2>3 DEF Settled, N
<1>12. /\ cursor' = [through |-> today, tracked |-> Netherlands!Survivors(s, today)]
       /\ first' = base
       /\ connector' = connector /\ today' = today /\ notices' = notices
       /\ shown' = shown \cup {l \in Lot : listed'[l] > today}
  BY <1>1, <1>3, <1>5, PollParts DEF base
<1>13. ASSUME NEW l \in Lot
       PROVE  /\ listed'[l] = Undated <=> open(l)
              /\ call.seen[l] = "closed" => l \in shown
  <2>1. call.seen[l] = IF open(l) THEN "open" ELSE IF Visible(s[l]) THEN "closed" ELSE "none"
    BY <1>3 DEF Netherlands!Observed, Netherlands!IsOpen, Netherlands!Observation,
                Netherlands!Future, Future, Netherlands!Visible, Visible
  <2>2. /\ listed[l] = Undated => Visible(s[l])
        /\ Visible(s[l]) => l \in shown
    BY <1>11
  <2>3. /\ call.seen[l] = "open" => listed'[l] = Undated
        /\ call.seen[l] = "closed" => listed'[l] = 0
        /\ call.seen[l] \notin {"open", "closed"} => listed'[l] = listed[l]
    BY <1>1, <1>5, ShowsIs
  <2> HIDE DEF open
  <2> QED
    BY <1>4, <2>1, <2>2, <2>3
<1>14. TypeOK' /\ Screen'
  <2>1. Netherlands!Survivors(s, today) \in Details
    <3>1. \A l \in Lot : Netherlands!Survivors(s, today)[l] \in Netherlands!Procedure \cup {None}
      BY <1>4, <1>10, SettledSurvivor
    <3>2. Netherlands!Survivors(s, today) = [l \in Lot |-> Netherlands!Survivors(s, today)[l]]
      BY DEF Netherlands!Survivors
    <3> QED
      BY <3>1, <3>2 DEF Details
  <2>2. call.cursor \in Cursor
    BY <1>3, <1>4, <1>5, <2>1
  <2>3. call.cursor # None
    BY <2>2, <1>5, NoneAssumption DEF Cursor
  <2>4. call.done \in BOOLEAN
    BY <1>3
  <2> QED
    BY <1>1, <1>3, <1>5, <1>7, <2>2, <2>3, <2>4, PollType
<1>15. NetherlandsKept'
  <2>1. (\A l : Mine(l)' = Mine(l)) /\ \A l : Newest(Mine(l))' = Newest(Mine(l))
    BY <1>12 DEF Mine, Newest
  <2>2. cursor'.through = today
    BY <1>12
  <2>3. ASSUME NEW l \in Lot
        PROVE  Settled(cursor.tracked, l, Newest(Mine(l)).day < cursor.through - Overlap, first)'
    <3> DEFINE r == Netherlands!Survivors(s, today)[l]
    <3>1. /\ r # None <=> s[l] # None /\ s[l].phase = "open" /\ ~Elapsed(s[l].deadline, today)
          /\ r # None => r.phase = "open" /\ r.deadline = s[l].deadline
          /\ Visible(r) <=> open(l)
      BY <1>4, <1>10, SettledSurvivor
    <3>2. cursor'.tracked[l] = r
      BY <1>12
    <3>3. Visible(r) => l \in shown'
      BY <1>4, <1>12, <1>13, <3>1
    <3>4. listed'[l] = Undated => Visible(r)
      BY <1>13, <3>1
    <3> HIDE DEF r, open
    <3> QED
      BY <1>11, <1>12, <2>1, <3>1, <3>2, <3>3, <3>4 DEF Settled
  <2>4. (first # None /\ cursor.through <= today)'
    BY <1>4, <1>7, <1>12, <2>2, NoneIs
  <2> QED
    BY <2>3, <2>4 DEF NetherlandsKept
<1>16. Complete'
  <2>1. ASSUME NEW l \in Lot,
               \A ns1 \in Views(l) : OpenBy(ns1) /\ Newest(Tenders(ns1)).day >= first'
        PROVE  listed'[l] > today
    <3> DEFINE N == Newest(Mine(l))
    <3>1. OpenBy(Mine(l)) /\ Newest(Tenders(Mine(l))).day >= first'
      BY <1>5, <2>1, ViewsAre
    <3>2. Mine(l) # {} => N.kind \in Kinds /\ N.day \in Nat /\ N.deadline \in Int \cup {None}
      BY OfToday, NewestOf, Times DEF Register, Terms
    <3>3. Mine(l) # {} /\ N.kind = "tender" /\ Future(DeadlineOf(Mine(l)), today)
      BY <1>5, <3>1, <3>2 DEF OpenBy
    <3>4. DeadlineOf(Mine(l)) = N.deadline
      BY <3>3, OfToday, DeadlineOfNewest
    <3>5. N.day >= first'
      BY <1>7, <1>12, <3>1, <3>2, <3>3, TenderOf
    <3>6. ~Elapsed(N.deadline, today)
      BY <1>4, <3>2, <3>3, <3>4 DEF Future, Elapsed
    <3>7. open(l)
      BY <1>11, <1>12, <3>3, <3>4, <3>5, <3>6
    <3> HIDE DEF open
    <3> QED
      BY <1>4, <1>13, <3>7
  <2> QED
    BY <1>1, <2>1, CompleteAfter
<1>17. Sound'
  <2>1. ASSUME NEW l \in Lot, listed'[l] > today PROVE Remains(l)
    <3>1. open(l)
      BY <1>1, <1>5, <1>13, <2>1, ShowsIs
    <3>2. /\ Mine(l) # {} /\ Newest(Mine(l)).kind = "tender"
          /\ Newest(Mine(l)).deadline = s[l].deadline
      BY <1>11, <3>1
    <3>3. Dated(Mine(l)) # {} /\ DeadlineOf(Mine(l)) = Newest(Mine(l)).deadline
      BY <3>2, OfToday, DeadlineOfNewest
    <3>4. OpenBy(Mine(l))
      BY <1>5, <3>1, <3>2, <3>3 DEF OpenBy
    <3> QED
      BY <1>5, <3>4, RemainsIs
  <2>2. Withdrawn(call) \subseteq shown
    BY <1>13, WithdrawnIs
  <2> QED
    BY <1>1, <2>1, <2>2, SoundAfter
<1> QED
  BY <1>14, <1>15, <1>16, <1>17

(* A publication after a call is one the next call applies.                 *)
LEMMA NetherlandsRest ==
  ASSUME connector = "netherlands", Register, TypeOK, NetherlandsKept
  PROVE  /\ \A l \in Lot : \A n : New(n, l) => NetherlandsKept'
         /\ NextDay => NetherlandsKept'
<1> DEFINE start == cursor.through - Overlap
<1>1. cursor # None => cursor.through \in Int /\ start \in Int /\ first \in Int
                       /\ cursor.through <= today
  <2>1. cursor # None => cursor \in Netherlands!Cursor
    BY DEF TypeOK, Cursor
  <2> QED
    BY <2>1, UnitsAre DEF Netherlands!Cursor, TypeOK, NetherlandsKept
<1>2. ASSUME NEW l \in Lot, NEW n, New(n, l) PROVE NetherlandsKept'
  <2> SUFFICES ASSUME cursor # None PROVE NetherlandsKept'
    BY <1>2, NewMine DEF NetherlandsKept
  <2>1. /\ n.lot = l /\ n.day \in Nat /\ n.at \in Nat /\ n.day >= today - 1
        /\ notices' = notices \cup {n} /\ Mine(l)' = Mine(l) \cup {n}
        /\ \A k \in Lot : k # l => Mine(k)' = Mine(k)
        /\ connector' = connector /\ today' = today /\ cursor' = cursor /\ first' = first
        /\ listed' = listed /\ shown' = shown
    BY <1>2, NewMine
  <2>2. ~(n.day < start)
    BY <1>1, <2>1, TodayIs, UnitsAre
  <2>3. ASSUME NEW k \in Lot
        PROVE  Settled(cursor.tracked, k, Newest(Mine(k)).day < start, first)'
    <3>1. Settled(cursor.tracked, k, Newest(Mine(k)).day < start, first)
      BY DEF NetherlandsKept
    <3>2. CASE Newest(Mine(k))' = Newest(Mine(k)) /\ (Mine(k) = {} <=> Mine(k)' = {})
      BY <2>1, <3>1, <3>2 DEF Settled
    <3>3. CASE k = l /\ Newest(Mine(k))' = n
      <4>1. Mine(k)' # {}
        BY <2>1, <3>3
      <4> DEFINE read == Newest(Mine(k)).day < start
      <4>2. ~read'
        BY <2>1, <2>2, <3>3
      <4> HIDE DEF read
      <4>3. Settled(cursor.tracked, k, read, first)'
        BY <2>1, <3>1, <4>1, <4>2 DEF Settled
      <4> QED
        BY <4>3 DEF read
    <3>4. Newest(Mine(l) \cup {n}) = n \/ (Mine(l) # {} /\ Newest(Mine(l) \cup {n}) = Newest(Mine(l)))
      BY <1>2, OfToday, NewestWith
    <3>5. CASE k # l
      <4>1. Mine(k)' = Mine(k)
        BY <2>1, <3>5
      <4>2. Newest(Mine(k))' = Newest(Mine(k))
        BY <4>1 DEF Newest
      <4> QED
        BY <3>2, <4>1, <4>2
    <3>6. CASE k = l
      <4>1. Newest(Mine(l))' = Newest(Mine(l) \cup {n})
        BY <2>1
      <4>2. Mine(l)' # {}
        BY <2>1
      <4> QED
        BY <3>2, <3>3, <3>4, <3>6, <4>1, <4>2
    <3> QED
      BY <3>5, <3>6
  <2> QED
    BY <2>1, <2>3 DEF NetherlandsKept
<1>3. ASSUME NextDay PROVE NetherlandsKept'
  <2> SUFFICES ASSUME cursor # None PROVE NetherlandsKept'
    BY <1>3, NextDayIs DEF NetherlandsKept
  <2>1. /\ today' = today + 1 /\ connector' = connector /\ notices' = notices
        /\ cursor' = cursor /\ first' = first /\ listed' = listed /\ shown' = shown
        /\ \A l : Mine(l)' = Mine(l)
    BY <1>3, NextDayIs
  <2>2. cursor.through <= today + 1
    BY <1>1, TodayIs
  <2>3. ASSUME NEW l \in Lot
        PROVE  Settled(cursor.tracked, l, Newest(Mine(l)).day < start, first)'
    <3>1. Settled(cursor.tracked, l, Newest(Mine(l)).day < start, first)
      BY DEF NetherlandsKept
    <3>2. Newest(Mine(l))' = Newest(Mine(l))
      BY <2>1 DEF Newest
    <3>3. Mine(l) # {} /\ Elapsed(Newest(Mine(l)).deadline, today) =>
            Elapsed(Newest(Mine(l)).deadline, today')
      <4>1. Mine(l) # {} => Newest(Mine(l)).deadline \in Int \cup {None}
        BY OfToday, NewestOf, Times
      <4> QED
        BY <2>1, <4>1, TodayIs DEF Elapsed
    <3> QED
      BY <2>1, <3>1, <3>2, <3>3 DEF Settled
  <2> QED
    BY <2>1, <2>2, <2>3 DEF NetherlandsKept
<1> QED
  BY <1>2, <1>3

-----------------------------------------------------------------------------
(* Estonia: the documents of a month are applied notices first, and each is *)
(* compared with what is known of its lot.                                  *)
Filed == [Lot -> Estonia!LotState \cup {None}]

Closed(state) == state # None /\ state.closed

(* What is known of a lot is its newest notice, once that is read.          *)
Recorded(s, l, read, base) ==
  LET newest == Newest(Mine(l)) IN
  /\ s[l] # None => Mine(l) # {} /\ s[l].at <= newest.at
  /\ read /\ s[l] # None => (Closed(s[l]) <=> newest.kind # "tender")
  /\ read /\ s[l] # None /\ newest.kind = "tender" => s[l].deadline = newest.deadline
  /\ read /\ s[l] = None /\ Mine(l) # {} /\ newest.day >= base =>
       newest.kind # "tender" \/ ~Future(newest.deadline, today)
  /\ listed[l] = Undated => Visible(s[l])
  /\ Visible(s[l]) => l \in shown

(* The first month of the next call.                                        *)
NextMonth(c) == IF c.next # None THEN c.next ELSE c.through - Overlap

EstoniaKept ==
  cursor # None =>
    /\ first # None /\ NextMonth(cursor) <= today
    /\ \A l \in Lot : Recorded(cursor.tracked, l, Newest(Mine(l)).day < NextMonth(cursor), first)
    /\ cursor.next = None => \A l \in Lot : cursor.tracked[l] # None => Visible(cursor.tracked[l])

(* In a period's file, the last root of a day is a closing if there is one. *)
LEMMA LastRootIs ==
  ASSUME connector = "estonia", Register, NEW ns \in SUBSET notices, ns # {}
  PROVE  /\ Estonia!LastRoot(ns) \in ns
         /\ \A o \in ns : /\ o.day <= Estonia!LastRoot(ns).day
                          /\ o.day = Estonia!LastRoot(ns).day /\ o.kind = "close" =>
                               Estonia!LastRoot(ns).kind = "close"
<1> DEFINE newest == Newest(ns)
           month == {n \in ns : n.day = newest.day}
           awards == {n \in month : n.kind = "close"}
<1>1. Estonia!LastRoot(ns) = IF awards # {} THEN Newest(awards) ELSE Newest(month)
  BY DEF Estonia!LastRoot, Estonia!Newest, Newest
<1>2. newest \in ns /\ \A o \in ns : o.day <= newest.day
  BY NewestOf
<1>3. awards \in SUBSET notices /\ month \in SUBSET notices /\ newest \in month
  BY <1>2
<1>4. awards # {} => Newest(awards) \in awards
  BY <1>3, NewestOf
<1>5. Newest(month) \in month
  BY <1>3, NewestOf
<1> HIDE DEF newest
<1> QED
  BY <1>1, <1>2, <1>4, <1>5

(* What a root does to a lot of Estonia.                                    *)
LEMMA RootIs ==
  ASSUME connector = "estonia", Register, NEW s \in Filed, NEW n \in notices
  PROVE  LET r == Estonia!ApplyRoot(s, n)
             e == s[n.lot] IN
         /\ r \in Filed
         /\ \A l \in Lot : l # n.lot => r[l] = s[l]
         /\ e # None /\ n.at < e.at => r[n.lot] = e
         /\ e = None /\ n.kind # "tender" => r[n.lot] = e
         /\ ~(e # None /\ n.at < e.at) /\ n.kind = "tender" =>
              /\ r[n.lot] # None /\ r[n.lot].at = n.at /\ r[n.lot].deadline = n.deadline
              /\ ~Closed(r[n.lot]) /\ (Visible(r[n.lot]) <=> Visible(e))
         /\ e # None /\ ~(n.at < e.at) /\ n.kind # "tender" =>
              /\ r[n.lot] # None /\ r[n.lot].at = n.at
              /\ Closed(r[n.lot]) /\ (Visible(r[n.lot]) <=> Visible(e))
<1> DEFINE e == s[n.lot]
           event == Estonia!NoticeEvent(n)
           noticed == Estonia!MergeNotice(e, event)
           awarded == Estonia!MergeAward(e, n)
           r == Estonia!ApplyRoot(s, n)
<1>1. n.lot \in Lot /\ n.at \in Nat /\ n.deadline \in Int \cup {None}
  BY Times
<1>2. e \in Estonia!LotState \cup {None}
  BY <1>1 DEF Filed
<1>3. r = IF n.kind = "tender" THEN [s EXCEPT ![n.lot] = noticed]
          ELSE [s EXCEPT ![n.lot] = awarded]
  BY DEF Estonia!ApplyRoot
<1>4. event = [at |-> n.at, deadline |-> n.deadline, closed |-> FALSE, visible |-> FALSE]
  BY DEF Estonia!NoticeEvent
<1> HIDE DEF e, event
<1>5. /\ e # None /\ n.at < e.at => noticed = e
      /\ ~(e # None /\ n.at < e.at) =>
           /\ noticed \in Estonia!LotState /\ noticed.at = n.at
           /\ noticed.deadline = n.deadline
           /\ ~Closed(noticed) /\ (Visible(noticed) <=> Visible(e))
  <2>1. CASE e # None /\ n.at < e.at
    BY <1>4, <2>1 DEF Estonia!MergeNotice
  <2>2. CASE e = None
    <3>1. noticed = event
      BY <2>2 DEF Estonia!MergeNotice
    <3>2. /\ noticed \in Estonia!LotState /\ noticed.at = n.at /\ noticed.deadline = n.deadline
          /\ noticed.closed = FALSE /\ noticed.visible = FALSE
      <4> HIDE DEF noticed
      <4> QED
        BY <1>1, <1>4, <3>1 DEF Estonia!LotState
    <3> HIDE DEF noticed
    <3>3. ~Closed(noticed) /\ ~Visible(noticed) /\ ~Visible(e)
      BY <2>2, <3>2, Zenon DEF Closed, Visible
    <3> QED
      BY <2>2, <3>2, <3>3
  <2>3. CASE e # None /\ ~(n.at < e.at)
    <3>1. noticed = [event EXCEPT !.visible = e.visible \/ event.visible]
      BY <1>4, <2>3 DEF Estonia!MergeNotice
    <3>2. event.visible = FALSE /\ e.visible \in BOOLEAN
      BY <1>2, <1>4, <2>3 DEF Estonia!LotState
    <3>3. (e.visible \/ event.visible) = e.visible
      BY <3>2, Zenon
    <3>4. noticed = [at |-> n.at, deadline |-> n.deadline, closed |-> FALSE, visible |-> e.visible]
      BY <1>4, <3>1, <3>3
    <3>5. /\ noticed \in Estonia!LotState /\ noticed.at = n.at /\ noticed.deadline = n.deadline
          /\ noticed.closed = FALSE /\ noticed.visible = e.visible
      BY <1>1, <3>2, <3>4 DEF Estonia!LotState
    <3> HIDE DEF noticed
    <3>6. noticed # None
      BY <3>5, NoneAssumption
    <3>7. ~Closed(noticed) /\ (Visible(noticed) <=> Visible(e))
      BY <2>3, <3>5, <3>6, Zenon DEF Closed, Visible
    <3> QED
      BY <2>3, <3>5, <3>7
  <2> QED
    BY <2>1, <2>2, <2>3
<1>6. /\ e = None \/ n.at < e.at => awarded = e
      /\ e # None /\ ~(n.at < e.at) =>
           /\ awarded \in Estonia!LotState /\ awarded.at = n.at
           /\ Closed(awarded) /\ (Visible(awarded) <=> Visible(e))
  <2>1. CASE e = None \/ n.at < e.at
    BY <2>1 DEF Estonia!MergeAward
  <2>2. CASE e # None /\ ~(n.at < e.at)
    <3>1. awarded = [e EXCEPT !.at = n.at, !.closed = TRUE]
      BY <2>2 DEF Estonia!MergeAward
    <3>2. /\ awarded \in Estonia!LotState /\ awarded.at = n.at
          /\ awarded.closed = TRUE /\ awarded.visible = e.visible
      BY <1>1, <1>2, <2>2, <3>1 DEF Estonia!LotState
    <3> HIDE DEF awarded
    <3>3. awarded # None
      BY <3>2, NoneAssumption
    <3>4. Closed(awarded) /\ (Visible(awarded) <=> Visible(e))
      BY <2>2, <3>2, <3>3, Zenon DEF Closed, Visible
    <3> QED
      BY <2>2, <3>2, <3>4
  <2> QED
    BY <2>1, <2>2
<1>7. None \notin Estonia!LotState
  BY NoneAssumption
<1> HIDE DEF noticed, awarded, r
<1>8. CASE n.kind = "tender"
  <2>1. r = [s EXCEPT ![n.lot] = noticed]
    BY <1>3, <1>8
  <2>2. noticed \in Estonia!LotState \cup {None}
    BY <1>2, <1>5
  <2>3. r \in Filed /\ r[n.lot] = noticed /\ \A l \in Lot : l # n.lot => r[l] = s[l]
    BY <1>1, <2>1, <2>2 DEF Filed
  <2> QED
    BY <1>5, <1>7, <1>8, <2>3 DEF r, e
<1>9. CASE n.kind # "tender"
  <2>1. r = [s EXCEPT ![n.lot] = awarded]
    BY <1>3, <1>9
  <2>2. awarded \in Estonia!LotState \cup {None}
    BY <1>2, <1>6
  <2>3. r \in Filed /\ r[n.lot] = awarded /\ \A l \in Lot : l # n.lot => r[l] = s[l]
    BY <1>1, <2>1, <2>2 DEF Filed
  <2> QED
    BY <1>6, <1>7, <1>9, <2>3 DEF r, e
<1> QED
  BY <1>8, <1>9

(* Replay is made of ApplyRoot.                                             *)
LEMMA RootsReplay ==
  ASSUME connector = "estonia", Register, NEW ns \in SUBSET notices, NEW s0 \in Filed
  PROVE  \E h : /\ h[{}] = s0
                /\ \A k \in SUBSET ns : k # {} =>
                     h[k] = Estonia!ApplyRoot(h[k \ {Estonia!LastRoot(k)}], Estonia!LastRoot(k))
                /\ h[ns] = Estonia!Replay(Estonia!ApplyRoot, Estonia!LastRoot, s0, ns)
<1> DEFINE S == Filed
           f == [x \in S \X ns |-> Estonia!ApplyRoot(x[1], x[2])]
           last == [k \in SUBSET ns |-> Estonia!LastRoot(k)]
           E(g) == [k \in SUBSET ns |->
                      IF k = {} THEN s0 ELSE Estonia!ApplyRoot(g[k \ {Estonia!LastRoot(k)}], Estonia!LastRoot(k))]
           h == CHOOSE g : g = E(g)
<1>1. f \in [S \X ns -> S]
  BY RootIs
<1>2. \A k \in SUBSET ns : k # {} => last[k] \in k
  BY LastRootIs
<1>3. IsFiniteSet(ns) /\ s0 \in S
  BY FS_Subset DEF Register
<1>4. \A s \in S, n \in ns : f[<<s, n>>] = Estonia!ApplyRoot(s, n)
  OBVIOUS
<1>5. \A k \in SUBSET ns : last[k] = Estonia!LastRoot(k)
  OBVIOUS
<1> HIDE DEF f, last, S
<1>6. PICK g \in [SUBSET ns -> S] :
        g = [k \in SUBSET ns |-> IF k = {} THEN s0 ELSE f[g[k \ {last[k]}], last[k]]]
  <2>1. Replays(ns, S, s0, f, last)
    BY <1>1, <1>2, <1>3 DEF Replays
  <2>2. \E g \in [SUBSET ns -> S] : Replayed(g, ns, s0, f, last)
    BY <2>1, ReplayExists
  <2> QED
    BY <2>2 DEF Replayed
<1>7. ASSUME NEW k \in SUBSET ns
      PROVE  (IF k = {} THEN s0 ELSE f[g[k \ {last[k]}], last[k]])
               = IF k = {} THEN s0 ELSE Estonia!ApplyRoot(g[k \ {Estonia!LastRoot(k)}], Estonia!LastRoot(k))
  <2>1. k # {} => g[k \ {last[k]}] \in S /\ last[k] \in ns
    BY <1>2
  <2>2. k # {} => f[g[k \ {last[k]}], last[k]] = Estonia!ApplyRoot(g[k \ {last[k]}], last[k])
    BY <1>4, <2>1
  <2> QED
    BY <1>5, <2>2
<1>8. g = E(g)
  BY <1>6, <1>7, Zenon
<1>9. h = E(h)
  BY <1>8, Zenon
<1>10. Estonia!Replay(Estonia!ApplyRoot, Estonia!LastRoot, s0, ns) = h[ns]
  BY DEF Estonia!Replay
<1> HIDE DEF h
<1>11. h[{}] = s0 /\ \A k \in SUBSET ns : k # {} =>
                      h[k] = Estonia!ApplyRoot(h[k \ {Estonia!LastRoot(k)}], Estonia!LastRoot(k))
  BY <1>9, Zenon
<1> QED
  BY <1>10, <1>11

(* Applied from the first to the last, roots leave each lot as its newest   *)
(* says (Recorded).                                                         *)
LEMMA RootsRecorded ==
  ASSUME connector = "estonia", Register, NEW ns \in SUBSET notices, NEW s0 \in Filed,
         NEW base \in Int, NEW start \in Int, \A n \in ns : n.day >= start,
         \A l \in Lot : Recorded(s0, l, Newest(Mine(l)).day < start, base)
  PROVE  LET s == Estonia!Replay(Estonia!ApplyRoot, Estonia!LastRoot, s0, ns) IN
         /\ s \in Filed
         /\ \A l \in Lot :
              Recorded(s, l, Newest(Mine(l)).day < start \/ Newest(Mine(l)) \in ns, base)
<1>1. PICK h : /\ h[{}] = s0
               /\ \A k \in SUBSET ns : k # {} =>
                    h[k] = Estonia!ApplyRoot(h[k \ {Estonia!LastRoot(k)}], Estonia!LastRoot(k))
               /\ h[ns] = Estonia!Replay(Estonia!ApplyRoot, Estonia!LastRoot, s0, ns)
  BY RootsReplay
<1> DEFINE Read(l, k) == Newest(Mine(l)).day < start \/ Newest(Mine(l)) \in k
           Done(s, l, k) == Mine(l) # {} /\ Newest(Mine(l)) \in k =>
             /\ s[l] # None => s[l].at = Newest(Mine(l)).at
             /\ Newest(Mine(l)).kind = "tender" => s[l] # None
           J == {x \in (SUBSET ns) \X Filed :
                   \A l \in Lot : Recorded(x[2], l, Read(l, x[1]), base) /\ Done(x[2], l, x[1])}
           last == [k \in SUBSET ns |-> Estonia!LastRoot(k)]
<1>2. \A k \in SUBSET ns : k # {} => last[k] \in k
  BY LastRootIs
<1>3. h[{}] \in Filed /\ <<{}, h[{}]>> \in J
  <2>1. \A l \in Lot : Read(l, {}) <=> Newest(Mine(l)).day < start
    OBVIOUS
  <2>2. \A l \in Lot : Recorded(s0, l, Read(l, {}), base)
    <3> HIDE DEF Read
    <3> QED
      BY <2>1 DEF Recorded
  <2>3. \A l \in Lot : Done(s0, l, {})
    OBVIOUS
  <2> HIDE DEF Read, Done
  <2> QED
    BY <1>1, <2>2, <2>3
<1>4. ASSUME NEW k \in SUBSET ns, k # {}, h[k \ {last[k]}] \in Filed,
             <<k \ {last[k]}, h[k \ {last[k]}]>> \in J
      PROVE  h[k] \in Filed /\ <<k, h[k]>> \in J
  <2> DEFINE n == last[k]
             s == h[k \ {n}]
             r == Estonia!ApplyRoot(s, n)
  <2>1. /\ n \in k /\ n \in ns /\ n \in notices /\ n.lot \in Lot /\ n.day \in Nat /\ n.day >= start
        /\ \A o \in k : /\ o.day <= n.day
                        /\ o.day = n.day /\ o.kind = "close" => n.kind = "close"
    BY <1>2, <1>4, LastRootIs, Times
  <2>2. /\ h[k] = r /\ s \in Filed
        /\ \A l \in Lot : Recorded(s, l, Read(l, k \ {n}), base) /\ Done(s, l, k \ {n})
    <3>1. \A l \in Lot : Recorded(s, l, Read(l, k \ {n}), base) /\ Done(s, l, k \ {n})
      <4> HIDE DEF Read, Done, n
      <4> QED
        BY <1>4 DEF n
    <3> QED
      BY <1>1, <1>4, <3>1
  <2> HIDE DEF n, s, r
  <2>3. r \in Filed
    BY <2>1, <2>2, RootIs DEF r
  <2>4. ASSUME NEW l \in Lot, l # n.lot
        PROVE  Recorded(r, l, Read(l, k), base) /\ Done(r, l, k)
    <3>1. r[l] = s[l]
      BY <2>1, <2>2, <2>4, RootIs DEF r
    <3>2. Mine(l) # {} => Newest(Mine(l)) # n
      <4>1. Mine(l) # {} => Newest(Mine(l)) \in Mine(l)
        BY OfToday, NewestOf
      <4> QED
        BY <2>4, <4>1 DEF Mine
    <3>3. Mine(l) # {} => (Read(l, k) <=> Read(l, k \ {n}))
      BY <3>2
    <3>4. Recorded(s, l, Read(l, k \ {n}), base)
      BY <2>2
    <3>5. Done(r, l, k)
      <4>1. Done(s, l, k \ {n})
        BY <2>2
      <4> QED
        BY <3>1, <3>2, <4>1
    <3> HIDE DEF Read, Done
    <3> QED
      BY <3>1, <3>3, <3>4, <3>5 DEF Recorded
  <2>5. ASSUME NEW l \in Lot, l = n.lot
        PROVE  Recorded(r, l, Read(l, k), base) /\ Done(r, l, k)
    <3> DEFINE N == Newest(Mine(l))
               e == s[l]
    <3>1. /\ n \in Mine(l) /\ N \in Mine(l) /\ n.at <= N.at /\ N \in notices
          /\ Mine(l) # {} /\ n.at \in Nat /\ N.at \in Nat
          /\ n.at = N.at => n = N
          /\ N.kind \in {"tender", "close"} /\ n.kind \in {"tender", "close"}
      <4>1. n \in Mine(l) /\ N \in Mine(l) /\ n.at <= N.at /\ N \in notices
        BY <2>1, <2>5, OfToday, NewestOf DEF Mine
      <4> QED
        BY <2>1, <4>1, Times DEF Register, Terms, Kinds, Estonia!Kinds
    <3>2. n.day <= N.day /\ N.day \in Nat
      BY <2>1, <3>1, Times
    <3>3. ~(N.day < start)
      BY <2>1, <3>2
    <3>4. /\ e # None => e.at \in Nat /\ e.at <= N.at
          /\ listed[l] = Undated => Visible(e)
          /\ Visible(e) => l \in shown
      <4>1. e # None => e.at \in Nat
        BY <2>2 DEF Filed, Estonia!LotState
      <4> QED
        BY <2>2, <4>1 DEF Recorded
    <3>5. /\ e # None /\ n.at < e.at => r[l] = e
          /\ e = None /\ n.kind # "tender" => r[l] = e
          /\ ~(e # None /\ n.at < e.at) /\ n.kind = "tender" =>
               /\ r[l] # None /\ r[l].at = n.at /\ r[l].deadline = n.deadline
               /\ ~Closed(r[l]) /\ (Visible(r[l]) <=> Visible(e))
          /\ e # None /\ ~(n.at < e.at) /\ n.kind # "tender" =>
               /\ r[l] # None /\ r[l].at = n.at
               /\ Closed(r[l]) /\ (Visible(r[l]) <=> Visible(e))
      BY <2>1, <2>2, <2>5, RootIs DEF r
    <3>6. CASE n = N
      <4>1. ~(e # None /\ n.at < e.at)
        BY <3>1, <3>4, <3>6
      <4>2. CASE n.kind = "tender"
        <5>1. /\ r[l] # None /\ r[l].at = N.at /\ r[l].deadline = N.deadline
              /\ ~Closed(r[l]) /\ (Visible(r[l]) <=> Visible(e)) /\ N.kind = "tender"
          BY <3>5, <3>6, <4>1, <4>2
        <5> HIDE DEF N, e
        <5> QED
          BY <3>1, <3>4, <5>1 DEF Recorded, N
      <4>3. CASE n.kind # "tender" /\ e # None
        <5>1. /\ r[l] # None /\ r[l].at = N.at /\ N.kind # "tender"
              /\ Closed(r[l]) /\ (Visible(r[l]) <=> Visible(e))
          BY <3>5, <3>6, <4>1, <4>3
        <5> HIDE DEF N, e
        <5> QED
          BY <3>1, <3>4, <5>1 DEF Recorded, N
      <4>4. CASE n.kind # "tender" /\ e = None
        <5>1. r[l] = None /\ N.kind # "tender"
          BY <3>5, <3>6, <4>4
        <5> HIDE DEF N, e
        <5> QED
          BY <3>1, <3>4, <4>4, <5>1 DEF Recorded, N
      <4> QED
        BY <4>2, <4>3, <4>4
    <3>7. CASE n # N /\ N \notin k
      <4>1. ~Read(l, k)
        BY <3>3, <3>7
      <4>2. /\ r[l] # None => r[l].at <= N.at
            /\ Visible(r[l]) <=> Visible(e)
        BY <3>1, <3>4, <3>5
      <4>3. Done(r, l, k)
        BY <3>7
      <4> HIDE DEF Read, Done, e, N
      <4> QED
        BY <3>1, <3>4, <4>1, <4>2, <4>3 DEF Recorded, N
    <3>8. CASE n # N /\ N \in k
      <4>1. n.at < N.at /\ N \in k \ {n}
        BY <3>1, <3>8
      <4>2. Done(s, l, k \ {n}) /\ Recorded(s, l, Read(l, k \ {n}), base)
        BY <2>2
      <4>3. /\ e # None => e.at = N.at
            /\ N.kind = "tender" => e # None
        BY <3>1, <4>1, <4>2
      <4>4. e = None => n.kind # "tender"
        BY <2>1, <3>1, <3>2, <3>8, <4>3
      <4>5. r[l] = e
        BY <3>5, <4>1, <4>3, <4>4
      <4>6. Done(r, l, k)
        BY <4>3, <4>5
      <4>7. Read(l, k) <=> Read(l, k \ {n})
        BY <4>1, <3>8
      <4> HIDE DEF Read, Done, N
      <4> QED
        BY <4>2, <4>5, <4>6, <4>7 DEF Recorded
    <3> QED
      BY <3>6, <3>7, <3>8
  <2> HIDE DEF Read, Done
  <2>6. \A l \in Lot : Recorded(r, l, Read(l, k), base) /\ Done(r, l, k)
    BY <2>4, <2>5
  <2> QED
    BY <2>2, <2>3, <2>6
<1>5. IsFiniteSet(ns)
  BY FS_Subset DEF Register
<1> HIDE DEF J, last
<1>6. Inductive(ns, Filed, J, h, last)
  BY <1>2, <1>3, <1>4, <1>5, Zenon DEF Inductive
<1>7. h[ns] \in Filed /\ <<ns, h[ns]>> \in J
  BY <1>6, ReplayInduction
<1> QED
  BY <1>1, <1>7 DEF J

(* Which lots are tracked on: those open.                                   *)
LEMMA FiledSurvivor ==
  ASSUME NEW s \in Filed, NEW l \in Lot, today \in Int
  PROVE  LET t == s[l]
             r == Estonia!Survivors(s, today)[l] IN
         /\ r \in Estonia!LotState \cup {None}
         /\ r # None <=> t # None /\ ~Closed(t) /\ Future(t.deadline, today)
         /\ r # None => /\ r.at = t.at /\ r.deadline = t.deadline
                        /\ ~Closed(r) /\ Visible(r)
         /\ Estonia!IsOpen(t, today) <=> t # None /\ ~Closed(t) /\ Future(t.deadline, today)
<1> DEFINE t == s[l]
           r == Estonia!Survivors(s, today)[l]
<1>1. t \in Estonia!LotState \cup {None}
  BY DEF Filed
<1>2. r = IF Estonia!IsOpen(t, today) THEN [t EXCEPT !.visible = TRUE] ELSE None
  BY DEF Estonia!Survivors
<1>3. Estonia!IsOpen(t, today) <=> t # None /\ ~Closed(t) /\ Future(t.deadline, today)
  BY Zenon DEF Estonia!IsOpen, Closed, Estonia!Future, Future
<1> HIDE DEF t, r
<1>4. CASE Estonia!IsOpen(t, today)
  <2>1. t \in Estonia!LotState /\ r = [t EXCEPT !.visible = TRUE]
    BY <1>1, <1>2, <1>3, <1>4
  <2>2. /\ r \in Estonia!LotState /\ r.at = t.at /\ r.deadline = t.deadline
        /\ r.closed = t.closed /\ r.visible = TRUE
    BY <2>1 DEF Estonia!LotState
  <2>3. r # None
    BY <2>2, NoneAssumption
  <2>4. Visible(r) /\ (Closed(r) <=> Closed(t))
    BY <1>3, <1>4, <2>2, <2>3, Zenon DEF Visible, Closed
  <2> QED
    BY <1>3, <1>4, <2>2, <2>3, <2>4 DEF r, t
<1>5. CASE ~Estonia!IsOpen(t, today)
  BY <1>2, <1>3, <1>5 DEF r, t
<1> QED
  BY <1>4, <1>5

(* What was known before a call.                                            *)
LEMMA CarriedIs ==
  ASSUME connector = "estonia", Register, TypeOK, Screen, EstoniaKept
  PROVE  LET start == Estonia!StartPeriod(cursor, today)
             before == Estonia!Carried(cursor)
             base == IF cursor = None THEN start ELSE first IN
         /\ start \in Int /\ start <= today /\ base \in Int
         /\ cursor # None => start = NextMonth(cursor) /\ cursor.through \in Int
         /\ before \in Filed
         /\ \A l \in Lot : Recorded(before, l, Newest(Mine(l)).day < start, base)
<1> DEFINE start == Estonia!StartPeriod(cursor, today)
           before == Estonia!Carried(cursor)
           base == IF cursor = None THEN start ELSE first
<1>1. today \in Nat /\ Overlap \in Nat \ {0} /\ Lookback \in Nat \ {0} /\ Undated # 0
  BY TodayIs, UnitsAre, NoneIs
<1>2. CASE cursor = None
  <2>1. before = [l \in Lot |-> None] /\ start = today - Lookback + 1
    BY <1>2 DEF Estonia!Carried, Estonia!Absent, Estonia!StartPeriod
  <2>2. before \in Filed
    BY <2>1 DEF Filed
  <2>3. ASSUME NEW l \in Lot PROVE Recorded(before, l, Newest(Mine(l)).day < start, start)
    <3>1. listed[l] = 0 /\ before[l] = None
      BY <1>2, <2>1 DEF Screen
    <3>2. ~Visible(None)
      BY DEF Visible
    <3>3. Mine(l) # {} => Newest(Mine(l)).day \in Nat
      BY OfToday, NewestOf, Times
    <3>4. start \in Int
      BY <1>1, <2>1
    <3> HIDE DEF before, start
    <3> QED
      BY <1>1, <3>1, <3>2, <3>3, <3>4 DEF Recorded
  <2>4. start \in Int /\ start <= today
    BY <1>1, <2>1
  <2> HIDE DEF before, start
  <2> QED
    BY <1>2, <2>2, <2>3, <2>4 DEF before, start
<1>3. CASE cursor # None
  <2>1. cursor \in [through : Int, tracked : Filed, next : Int \cup {None}]
    BY <1>3 DEF TypeOK, Cursor, Estonia!Cursor, Filed
  <2>2. start = NextMonth(cursor)
    BY <1>3 DEF Estonia!StartPeriod, NextMonth
  <2>3. start \in Int /\ start <= today
    BY <1>1, <1>3, <2>1, <2>2 DEF NextMonth, EstoniaKept
  <2>4. base \in Int /\ base = first
    BY <1>3 DEF TypeOK, EstoniaKept
  <2>5. \A l \in Lot : Recorded(cursor.tracked, l, Newest(Mine(l)).day < start, first)
    BY <1>3, <2>2 DEF EstoniaKept
  <2>6. CASE cursor.next # None
    <3>1. before = cursor.tracked
      BY <1>3, <2>6 DEF Estonia!Carried
    <3> HIDE DEF before, start
    <3> QED
      BY <1>3, <2>1, <2>2, <2>3, <2>4, <2>5, <3>1 DEF before, start
  <2>7. CASE cursor.next = None
    <3>1. before = [l \in Lot |-> IF cursor.tracked[l] = None THEN None
                                  ELSE [cursor.tracked[l] EXCEPT !.visible = TRUE]]
      BY <1>3, <2>7 DEF Estonia!Carried
    <3> HIDE DEF before, start
    <3>2. ASSUME NEW l \in Lot
          PROVE  /\ before[l] \in Estonia!LotState \cup {None}
                 /\ before[l] # None <=> cursor.tracked[l] # None
                 /\ before[l] # None =>
                      /\ before[l].at = cursor.tracked[l].at
                      /\ before[l].deadline = cursor.tracked[l].deadline
                 /\ Closed(before[l]) <=> Closed(cursor.tracked[l])
                 /\ Visible(before[l]) <=> Visible(cursor.tracked[l])
      <4> DEFINE t == cursor.tracked[l]
                 b == before[l]
      <4>1. t \in Estonia!LotState \cup {None}
        BY <2>1 DEF Filed
      <4>2. b = IF t = None THEN None ELSE [t EXCEPT !.visible = TRUE]
        BY <3>1
      <4>3. t # None => Visible(t)
        BY <1>3, <2>7 DEF EstoniaKept
      <4> HIDE DEF t, b
      <4>4. CASE t = None
        BY <4>2, <4>4 DEF t, b
      <4>5. CASE t # None
        <5>1. /\ b \in Estonia!LotState /\ b.at = t.at /\ b.deadline = t.deadline
              /\ b.closed = t.closed /\ b.visible = TRUE
          BY <4>1, <4>2, <4>5 DEF Estonia!LotState
        <5>2. b # None
          BY <5>1, NoneAssumption
        <5>3. Visible(b) /\ (Closed(b) <=> Closed(t))
          BY <4>5, <5>1, <5>2, Zenon DEF Visible, Closed
        <5> QED
          BY <4>3, <4>5, <5>1, <5>2, <5>3 DEF t, b
      <4> QED
        BY <4>4, <4>5
    <3>3. before \in Filed
      BY <3>1, <3>2 DEF Filed
    <3>4. \A l \in Lot : Recorded(before, l, Newest(Mine(l)).day < start, first)
      BY <2>5, <3>2 DEF Recorded
    <3> QED
      BY <1>3, <2>1, <2>2, <2>3, <2>4, <3>3, <3>4 DEF before, start
  <2> QED
    BY <2>6, <2>7
<1> QED
  BY <1>2, <1>3

(* Estonia: the files of the periods from the cursor, up to the budget      *)
(* (fetch_incremental, estonia_rhr.py:652-715).                             *)
LEMMA EstoniaPoll ==
  ASSUME connector = "estonia", Register, TypeOK, Screen, EstoniaKept, Poll
  PROVE  (TypeOK /\ Screen /\ EstoniaKept /\ Complete /\ Sound)'
<1> DEFINE start == Estonia!StartPeriod(cursor, today)
           last == Estonia!LesserOf(today, start + Budget - 1)
           ns == Estonia!Roots(notices, start, last)
           before == Estonia!Carried(cursor)
           s == Estonia!Replay(Estonia!ApplyRoot, Estonia!LastRoot, before, ns)
           base == IF cursor = None THEN start ELSE first
           open(l) == s[l] # None /\ ~Closed(s[l]) /\ Future(s[l].deadline, today)
           kept == Estonia!Survivors(s, today)
<1>1. PICK call : call = Call
  OBVIOUS
<1>2. Call = Estonia!Fetch(cursor, notices, today)
  BY DEF Call
<1>3. /\ today \in Nat /\ today < Undated /\ Undated # 0 /\ Overlap \in Nat \ {0}
      /\ Budget \in Nat
  BY TodayIs, UnitsAre, NoneIs
<1>4. /\ connector \notin Plain /\ ~Gap
      /\ connector \notin {"germany", "latvia", "us", "canada", "switzerland", "uk", "ecuador"}
      /\ Cursor = [through : Int, tracked : Filed, next : Int \cup {None}]
      /\ Kinds = {"tender", "close"}
  BY DEF Plain, Gap, Cursor, Estonia!Cursor, Filed, Kinds, Estonia!Kinds
<1>5. /\ start \in Int /\ start <= today /\ base \in Int
      /\ cursor # None => start = NextMonth(cursor) /\ cursor.through \in Int
      /\ before \in Filed
      /\ \A l \in Lot : Recorded(before, l, Newest(Mine(l)).day < start, base)
  BY CarriedIs
<1>6. last \in Int /\ last <= today
  BY <1>3, <1>5 DEF Estonia!LesserOf
<1>7. ns \in SUBSET notices /\ ns = {n \in notices : start <= n.day /\ n.day <= last}
  BY DEF Estonia!Roots, Estonia!Published
<1>8. /\ last = today =>
           /\ call.cursor = [through |-> today, tracked |-> kept, next |-> None]
           /\ call.seen = Estonia!Observed(s, today)
           /\ call.done = TRUE /\ call.first = start
      /\ last # today =>
           /\ call.cursor = [through |-> IF cursor = None THEN today ELSE cursor.through,
                             tracked |-> s, next |-> last + 1]
           /\ call.seen = Silent
           /\ call.done = FALSE /\ call.first = start
  <2>1. call = IF last = today
               THEN Estonia!Result([through |-> today, tracked |-> kept, next |-> None],
                                   Estonia!Observed(s, today), TRUE, start)
               ELSE Estonia!Result([through |-> IF cursor = None THEN today ELSE cursor.through,
                                    tracked |-> s, next |-> last + 1],
                                   Estonia!Silent, FALSE, start)
    BY <1>1, <1>2, Zenon DEF Estonia!Fetch
  <2> HIDE DEF start, last, ns, before, s, kept
  <2> QED
    BY <2>1 DEF Estonia!Result, Estonia!Silent, Silent
<1> HIDE DEF start, last, ns, before, base
<1>9. /\ s \in Filed
      /\ \A l \in Lot :
           Recorded(s, l, Newest(Mine(l)).day < start \/ Newest(Mine(l)) \in ns, base)
  <2>1. \A n \in ns : n.day >= start
    BY <1>5, <1>7, Times
  <2> QED
    BY <1>5, <1>7, <2>1, RootsRecorded
<1> HIDE DEF s, kept
<1>10. /\ cursor' = call.cursor /\ first' = base
       /\ connector' = connector /\ today' = today /\ notices' = notices
       /\ shown' = shown \cup {l \in Lot : listed'[l] > today}
  BY <1>1, <1>4, <1>8, PollParts DEF base
<1>11. /\ kept \in Filed
       /\ \A l \in Lot : /\ kept[l] # None <=> open(l)
                         /\ kept[l] # None =>
                              /\ kept[l].at = s[l].at /\ kept[l].deadline = s[l].deadline
                              /\ ~Closed(kept[l]) /\ Visible(kept[l])
                         /\ Estonia!IsOpen(s[l], today) <=> open(l)
  <2>1. \A l \in Lot : /\ kept[l] \in Estonia!LotState \cup {None}
                       /\ kept[l] # None <=> open(l)
                       /\ kept[l] # None =>
                            /\ kept[l].at = s[l].at /\ kept[l].deadline = s[l].deadline
                            /\ ~Closed(kept[l]) /\ Visible(kept[l])
                       /\ Estonia!IsOpen(s[l], today) <=> open(l)
    BY <1>3, <1>9, FiledSurvivor DEF kept
  <2>2. kept = [l \in Lot |-> kept[l]]
    BY DEF kept, Estonia!Survivors
  <2> HIDE DEF open
  <2>3. kept \in Filed
    BY <2>1, <2>2 DEF Filed
  <2> QED
    BY <2>1, <2>3
<1>12. ASSUME NEW l \in Lot
       PROVE  /\ listed[l] = Undated => Visible(s[l])
              /\ Visible(s[l]) => l \in shown
              /\ s[l] # None => Mine(l) # {} /\ s[l].at <= Newest(Mine(l)).at
  BY <1>9 DEF Recorded
<1>13. ASSUME NEW l \in Lot, Mine(l) # {}
       PROVE  /\ Newest(Mine(l)) \in notices /\ Newest(Mine(l)).day \in Nat
              /\ Newest(Mine(l)).day <= today /\ Newest(Mine(l)).kind \in Kinds
              /\ Newest(Mine(l)).deadline \in Int \cup {None}
              /\ Newest(Mine(l)).day <= last =>
                   Newest(Mine(l)).day < start \/ Newest(Mine(l)) \in ns
  <2>1. /\ Newest(Mine(l)) \in notices /\ Newest(Mine(l)).day \in Nat
        /\ Newest(Mine(l)).day <= today /\ Newest(Mine(l)).kind \in Kinds
        /\ Newest(Mine(l)).deadline \in Int \cup {None}
    BY <1>13, OfToday, NewestOf, Times DEF Register, Terms
  <2> QED
    BY <1>5, <1>6, <1>7, <2>1
<1>14. ASSUME last = today, NEW l \in Lot, Mine(l) # {}
       PROVE  /\ s[l] # None => (Closed(s[l]) <=> Newest(Mine(l)).kind # "tender")
              /\ s[l] # None /\ Newest(Mine(l)).kind = "tender" =>
                   s[l].deadline = Newest(Mine(l)).deadline
              /\ s[l] = None /\ Newest(Mine(l)).day >= base =>
                   Newest(Mine(l)).kind # "tender" \/ ~Future(Newest(Mine(l)).deadline, today)
  <2> DEFINE read == Newest(Mine(l)).day < start \/ Newest(Mine(l)) \in ns
  <2>1. read
    BY <1>13, <1>14
  <2>2. Recorded(s, l, read, base)
    BY <1>9
  <2> HIDE DEF read
  <2> QED
    BY <1>14, <2>1, <2>2 DEF Recorded
<1>15. ASSUME last = today, NEW l \in Lot
       PROVE  /\ listed'[l] = Undated <=> open(l)
              /\ call.seen[l] = "closed" => l \in shown
  <2>1. call.seen[l] = IF Estonia!IsOpen(s[l], today) THEN "open"
                       ELSE IF Visible(s[l]) THEN "closed" ELSE "none"
    BY <1>8, <1>15 DEF Estonia!Observed, Estonia!Observation, Estonia!Visible, Visible
  <2>2. Estonia!IsOpen(s[l], today) <=> open(l)
    BY <1>11
  <2>3. /\ call.seen[l] = "open" => listed'[l] = Undated
        /\ call.seen[l] = "closed" => listed'[l] = 0
        /\ call.seen[l] \notin {"open", "closed"} => listed'[l] = listed[l]
    BY <1>1, <1>4, ShowsIs
  <2> HIDE DEF open
  <2> QED
    BY <1>3, <1>12, <2>1, <2>2, <2>3
<1>16. TypeOK' /\ Screen'
  <2>1. call.cursor \in Cursor
    <3>1. CASE last = today
      BY <1>3, <1>4, <1>8, <1>11, <3>1
    <3>2. CASE last # today
      BY <1>3, <1>4, <1>5, <1>6, <1>8, <1>9, <3>2
    <3> QED
      BY <3>1, <3>2
  <2>2. call.cursor # None
    BY <2>1, <1>4, NoneAssumption DEF Cursor
  <2>3. call.done \in BOOLEAN /\ call.first \in Int
    BY <1>5, <1>8
  <2> QED
    BY <1>1, <1>4, <2>1, <2>2, <2>3, PollType
<1>17. EstoniaKept'
  <2>1. (\A l : Mine(l)' = Mine(l)) /\ \A l : Newest(Mine(l))' = Newest(Mine(l))
    BY <1>10 DEF Mine, Newest
  <2>2. first' # None
    BY <1>5, <1>10, NoneIs
  <2>3. CASE last = today
    <3>1. cursor'.through = today /\ cursor'.next = None /\ cursor'.tracked = kept
      BY <1>8, <1>10, <2>3
    <3>2. NextMonth(cursor)' = today - Overlap
      BY <3>1 DEF NextMonth
    <3>3. ASSUME NEW l \in Lot
          PROVE  Recorded(cursor.tracked, l, Newest(Mine(l)).day < NextMonth(cursor), first)'
      <4>1. kept[l] # None => kept[l] # None /\ open(l) /\ Visible(kept[l]) /\ ~Closed(kept[l])
                              /\ kept[l].at = s[l].at /\ kept[l].deadline = s[l].deadline
        BY <1>11
      <4>2. open(l) => kept[l] # None
        BY <1>11
      <4>3. kept[l] # None => /\ Mine(l) # {} /\ kept[l].at <= Newest(Mine(l)).at
                              /\ Newest(Mine(l)).kind = "tender"
                              /\ kept[l].deadline = Newest(Mine(l)).deadline
        BY <1>12, <1>14, <2>3, <4>1
      <4>4. kept[l] = None /\ Mine(l) # {} /\ Newest(Mine(l)).day >= base =>
              Newest(Mine(l)).kind # "tender" \/ ~Future(Newest(Mine(l)).deadline, today)
        BY <1>14, <2>3, <4>2
      <4>5. listed'[l] = Undated => Visible(kept[l])
        BY <1>11, <1>15, <2>3
      <4>6. Visible(kept[l]) => l \in shown'
        <5>1. Visible(kept[l]) => kept[l] # None
          BY DEF Visible
        <5> QED
          BY <1>3, <1>10, <1>15, <2>3, <4>1, <5>1
      <4> HIDE DEF open
      <4> QED
        BY <1>10, <2>1, <3>1, <4>1, <4>3, <4>4, <4>5, <4>6 DEF Recorded
    <3>4. NextMonth(cursor)' <= today
      BY <1>3, <3>2
    <3>5. \A l \in Lot : kept[l] # None => Visible(kept[l])
      BY <1>11
    <3> QED
      BY <1>10, <2>2, <3>1, <3>3, <3>4, <3>5 DEF EstoniaKept
  <2>4. CASE last # today
    <3>1. cursor'.next = last + 1 /\ cursor'.tracked = s
      BY <1>8, <1>10, <2>4
    <3>2. NextMonth(cursor)' = last + 1 /\ cursor'.next # None
      BY <1>6, <3>1, NoneIs DEF NextMonth
    <3>3. ASSUME NEW l \in Lot
          PROVE  Recorded(cursor.tracked, l, Newest(Mine(l)).day < NextMonth(cursor), first)'
      <4>1. listed'[l] = listed[l]
        <5>1. call.seen[l] = "none"
          BY <1>8, <2>4 DEF Silent
        <5> QED
          BY <1>1, <1>4, <5>1, ShowsIs
      <4> DEFINE read == Newest(Mine(l)).day < start \/ Newest(Mine(l)) \in ns
                 next == Newest(Mine(l)).day < NextMonth(cursor)
      <4>2. Mine(l) # {} /\ next' => read
        BY <1>6, <1>13, <2>1, <3>2
      <4>3. Recorded(s, l, read, base)
        BY <1>9
      <4>4. shown \subseteq shown'
        BY <1>10
      <4> HIDE DEF read, next
      <4>5. Recorded(cursor.tracked, l, next, first)'
        BY <1>10, <2>1, <3>1, <4>1, <4>2, <4>3, <4>4 DEF Recorded
      <4> QED
        BY <4>5 DEF next
    <3>4. NextMonth(cursor)' <= today
      BY <1>3, <1>6, <2>4, <3>2
    <3> QED
      BY <1>10, <2>2, <3>2, <3>3, <3>4 DEF EstoniaKept
  <2> QED
    BY <2>3, <2>4
<1>18. Complete'
  <2>1. ASSUME NEW l \in Lot, call.done,
               \A ns1 \in Views(l) : OpenBy(ns1) /\ Newest(Tenders(ns1)).day >= first'
        PROVE  listed'[l] > today
    <3> DEFINE N == Newest(Mine(l))
    <3>1. last = today
      BY <1>8, <2>1
    <3>2. OpenBy(Mine(l)) /\ Newest(Tenders(Mine(l))).day >= first'
      BY <1>4, <2>1, ViewsAre
    <3>3. Mine(l) # {} /\ N.kind = "tender" /\ Future(DeadlineOf(Mine(l)), today)
      BY <1>4, <1>13, <3>2 DEF OpenBy
    <3>4. DeadlineOf(Mine(l)) = N.deadline
      BY <3>3, OfToday, DeadlineOfNewest
    <3>5. N.day >= base
      BY <1>5, <1>10, <1>13, <3>2, <3>3, TenderOf
    <3>6. open(l)
      BY <1>14, <3>1, <3>3, <3>4, <3>5
    <3> HIDE DEF open
    <3> QED
      BY <1>3, <1>15, <3>1, <3>6
  <2> QED
    BY <1>1, <2>1, CompleteAfter
<1>19. Sound'
  <2>1. ASSUME NEW l \in Lot, call.done, listed'[l] > today PROVE Remains(l)
    <3>1. last = today
      BY <1>8, <2>1
    <3>2. listed'[l] = Undated
      BY <1>1, <1>4, <2>1, ShowsIs
    <3>3. open(l)
      BY <1>15, <3>1, <3>2
    <3>4. Mine(l) # {}
      BY <1>12, <3>3
    <3>5. Newest(Mine(l)).kind = "tender" /\ Newest(Mine(l)).deadline = s[l].deadline
      BY <1>14, <3>1, <3>3, <3>4
    <3>6. Dated(Mine(l)) # {} /\ DeadlineOf(Mine(l)) = Newest(Mine(l)).deadline
      BY <3>4, <3>5, OfToday, DeadlineOfNewest
    <3>7. OpenBy(Mine(l))
      BY <1>4, <3>3, <3>4, <3>5, <3>6 DEF OpenBy
    <3> QED
      BY <1>4, <3>7, RemainsIs
  <2>2. \A l \in Lot : call.seen[l] = "closed" => l \in shown
    BY <1>8, <1>15 DEF Silent
  <2>3. Withdrawn(call) \subseteq shown
    BY <2>2, WithdrawnIs
  <2> QED
    BY <1>1, <2>1, <2>3, SoundAfter
<1> QED
  BY <1>16, <1>17, <1>18, <1>19

(* A period read for good is over.                                          *)
LEMMA EstoniaRest ==
  ASSUME connector = "estonia", Register, TypeOK, EstoniaKept
  PROVE  /\ \A l \in Lot : \A n : New(n, l) => EstoniaKept'
         /\ NextDay => EstoniaKept'
<1> DEFINE start == NextMonth(cursor)
<1>1. cursor # None => start \in Int /\ start <= today /\ first \in Int /\ cursor.tracked \in Filed
  <2>1. cursor # None => cursor \in Estonia!Cursor
    BY DEF TypeOK, Cursor
  <2> QED
    BY <2>1, UnitsAre DEF Estonia!Cursor, TypeOK, EstoniaKept, NextMonth, Filed
<1>2. ASSUME NEW l \in Lot, NEW n, New(n, l) PROVE EstoniaKept'
  <2> SUFFICES ASSUME cursor # None PROVE EstoniaKept'
    BY <1>2, NewMine DEF EstoniaKept
  <2>1. /\ n.lot = l /\ n.day \in Nat /\ n.at \in Nat /\ n.day = today
        /\ notices' = notices \cup {n} /\ Mine(l)' = Mine(l) \cup {n}
        /\ \A k \in Lot : k # l => Mine(k)' = Mine(k)
        /\ connector' = connector /\ today' = today /\ cursor' = cursor /\ first' = first
        /\ listed' = listed /\ shown' = shown
    BY <1>2, NewMine DEF Late
  <2>2. ~(n.day < start) /\ start' = start
    BY <1>1, <2>1, TodayIs DEF NextMonth
  <2>3. ASSUME NEW k \in Lot
        PROVE  Recorded(cursor.tracked, k, Newest(Mine(k)).day < start, first)'
    <3>1. Recorded(cursor.tracked, k, Newest(Mine(k)).day < start, first)
      BY DEF EstoniaKept
    <3>2. CASE Newest(Mine(k))' = Newest(Mine(k)) /\ (Mine(k) = {} <=> Mine(k)' = {})
      BY <2>1, <2>2, <3>1, <3>2 DEF Recorded
    <3>3. CASE k = l /\ Newest(Mine(k))' = n /\ (Mine(l) # {} => n.at > Newest(Mine(l)).at)
      <4>1. Mine(k)' # {}
        BY <2>1, <3>3
      <4> DEFINE read == Newest(Mine(k)).day < start
      <4>2. ~read'
        BY <2>1, <2>2, <3>3
      <4>3. Mine(l) # {} => Newest(Mine(l)).at \in Nat
        BY OfToday, NewestOf, Times
      <4>4. cursor.tracked[l] # None =>
              /\ Mine(l) # {} /\ cursor.tracked[l].at \in Nat
              /\ cursor.tracked[l].at <= Newest(Mine(l)).at
        BY <1>1, <3>1, <3>3 DEF Recorded, Filed, Estonia!LotState
      <4>5. cursor.tracked[l] # None => cursor.tracked[l].at <= n.at
        BY <2>1, <3>3, <4>3, <4>4
      <4> HIDE DEF read
      <4>6. Recorded(cursor.tracked, k, read, first)'
        BY <2>1, <3>1, <3>3, <4>1, <4>2, <4>5 DEF Recorded
      <4> QED
        BY <4>6 DEF read
    <3>4. \/ Newest(Mine(l) \cup {n}) = n /\ (Mine(l) # {} => n.at > Newest(Mine(l)).at)
          \/ Mine(l) # {} /\ Newest(Mine(l) \cup {n}) = Newest(Mine(l))
      BY <1>2, OfToday, NewestWith
    <3>5. CASE k # l
      <4>1. Mine(k)' = Mine(k)
        BY <2>1, <3>5
      <4>2. Newest(Mine(k))' = Newest(Mine(k))
        BY <4>1 DEF Newest
      <4> QED
        BY <3>2, <4>1, <4>2
    <3>6. CASE k = l
      <4>1. Newest(Mine(l))' = Newest(Mine(l) \cup {n})
        BY <2>1
      <4>2. Mine(l)' # {}
        BY <2>1
      <4> QED
        BY <3>2, <3>3, <3>4, <3>6, <4>1, <4>2
    <3> QED
      BY <3>5, <3>6
  <2>4. (cursor.next = None => \A k \in Lot : cursor.tracked[k] # None => Visible(cursor.tracked[k]))'
    BY <2>1 DEF EstoniaKept
  <2>5. (first # None /\ start <= today)'
    BY <1>1, <2>1, <2>2 DEF EstoniaKept
  <2> QED
    BY <2>1, <2>3, <2>4, <2>5 DEF EstoniaKept
<1>3. ASSUME NextDay PROVE EstoniaKept'
  <2> SUFFICES ASSUME cursor # None PROVE EstoniaKept'
    BY <1>3, NextDayIs DEF EstoniaKept
  <2>1. /\ today' = today + 1 /\ connector' = connector /\ notices' = notices
        /\ cursor' = cursor /\ first' = first /\ listed' = listed /\ shown' = shown
        /\ \A l : Mine(l)' = Mine(l)
    BY <1>3, NextDayIs
  <2>2. start' = start /\ start <= today + 1
    BY <1>1, <2>1, TodayIs DEF NextMonth
  <2>3. ASSUME NEW l \in Lot
        PROVE  Recorded(cursor.tracked, l, Newest(Mine(l)).day < start, first)'
    <3>1. Recorded(cursor.tracked, l, Newest(Mine(l)).day < start, first)
      BY DEF EstoniaKept
    <3>2. Newest(Mine(l))' = Newest(Mine(l))
      BY <2>1 DEF Newest
    <3>3. Mine(l) # {} /\ ~Future(Newest(Mine(l)).deadline, today) =>
            ~Future(Newest(Mine(l)).deadline, today')
      <4>1. Mine(l) # {} => Newest(Mine(l)).deadline \in Int \cup {None}
        BY OfToday, NewestOf, Times
      <4> QED
        BY <2>1, <4>1, TodayIs DEF Future
    <3> QED
      BY <2>1, <2>2, <3>1, <3>2, <3>3 DEF Recorded
  <2> QED
    BY <2>1, <2>2, <2>3 DEF EstoniaKept
<1> QED
  BY <1>2, <1>3
=============================================================================

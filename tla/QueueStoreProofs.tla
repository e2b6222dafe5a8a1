-------------------------- MODULE QueueStoreProofs --------------------------
(***************************************************************************)
(* Theorems about one model queue in Redis, for every number of units,     *)
(* consumers and requests: a published unit is at one place, a priority    *)
(* pop takes the best message, and Redis and MySQL agree on priorities.    *)
(***************************************************************************)
EXTENDS QueueStore, WellFoundedInduction, FiniteSetTheorems, TLAPS

-----------------------------------------------------------------------------
(* The inductive invariant.                                                *)

\* What a consumer may be doing, and what it then holds.
ConsumerPlace(c) ==
  /\ step[c] \in {"strategy", "length", "item", "pop", "work", "idle"}
  /\ job[c] \in (IF step[c] \in {"length", "item"} THEN {"state", "select"} ELSE {"none"})
  /\ IF step[c] = "work" THEN \E m \in Messages : held[c] = <<m>> ELSE held[c] = <<>>

Items(s) == {s[i] : i \in DOMAIN s}

\* No unit twice.
Distinct(s) == \A i, j \in DOMAIN s : s[i].unit = s[j].unit => i = j

\* What a request may be doing, and what it then knows.
RequestPlace(r) ==
  /\ job[r] \in (CASE step[r] \in {"length", "item"} -> {"normalize", "collect", "update"}
                   [] step[r] \in {"delete", "delete_legacy", "push"} -> {"normalize", "update"}
                   [] step[r] = "adjust" -> {"update"}
                   [] OTHER -> {"none"})
  /\ step[r] \in {"idle", "length", "item", "delete", "delete_legacy", "push", "adjust",
                  "clear_list", "clear_legacy"}
  /\ step[r] = "push" => seen[r] # <<>> /\ legacy = <<>>
  /\ step[r] # "item" => Distinct(seen[r])
  /\ job[r] # "update" => targets[r] = {}
  /\ job[r] \in {"collect", "update"} => asked[r] # Nobody
  /\ job[r] = "none" => asked[r] = Nobody

\* Only a reader or a rewriter has messages.
ReaderPlace(a) ==
  /\ step[a] \notin {"item", "delete", "delete_legacy", "push"} => seen[a] = <<>>
  /\ step[a] # "item" => index[a] = 0
  /\ index[a] <= size[a]

\* What an undisturbed reader has seen is still there, and what it is about to push
\* back are the units of the queue.
ReadIsCurrent(a) ==
  ~disturbed[a] =>
    /\ step[a] = "item" /\ job[a] \in {"select", "normalize", "update"} =>
         /\ size[a] = Len(list)
         /\ Len(seen[a]) = index[a]
         /\ \A i \in 1..index[a] : seen[a][i] = list[i]
    /\ step[a] = "delete" => UnitsIn(seen[a]) = UnitsIn(list) \cup UnitsIn(legacy)

Shaped ==
  /\ \A c \in Consumers : ConsumerPlace(c)
  /\ \A r \in Requests : RequestPlace(r)
  /\ \A a \in Actors : ReaderPlace(a)

ReadsAreCurrent == \A a \in Actors : ReadIsCurrent(a)

\* A unit is in the list, with a consumer, with a rewriting request, or in the old set.
Once(s, u) == \A i, j \in DOMAIN s : s[i].unit = u /\ s[j].unit = u => i = j
Held(u, c) == u \in UnitsIn(held[c])
Rewritten(u, r) == Rewriting(r) /\ u \in UnitsIn(seen[r])

\* A unit of the list is there once and nowhere else.
Listed(u) ==
  /\ Once(list, u)
  /\ u \in UnitsIn(list) => /\ u \notin UnitsIn(legacy)
                            /\ \A c \in Consumers : ~Held(u, c)
                            /\ \A r \in Requests : ~Rewritten(u, r)

\* So is one that a consumer works on.
Worked(u) ==
  \A c \in Consumers : Held(u, c) => /\ u \notin UnitsIn(legacy)
                                     /\ \A d \in Consumers : Held(u, d) => d = c
                                     /\ \A r \in Requests : ~Rewritten(u, r)

\* And one that a request is pushing back, which leaves the old set a step later.
PushedBack(u) ==
  \A r \in Requests :
    /\ Rewritten(u, r) => /\ \A q \in Requests : Rewritten(u, q) => q = r
                          /\ u \in UnitsIn(legacy) => step[r] = "delete_legacy"
    /\ step[r] = "delete_legacy" /\ u \in UnitsIn(legacy) => u \in UnitsIn(seen[r])

Somewhere(u) ==
  \/ u \in UnitsIn(list)
  \/ u \in UnitsIn(legacy)
  \/ \E c \in Consumers : Held(u, c)
  \/ \E r \in Requests : Rewritten(u, r)

Placed(u) == Listed(u) /\ Worked(u) /\ PushedBack(u) /\ (Somewhere(u) <=> stage[u] = "pushed")

\* A request that has changed Redis and not yet MySQL.
Past(r) == job[r] = "update" /\ step[r] \in {"delete_legacy", "push", "adjust"}
Targets(r, u) == TaskOf[u] \in targets[r]

\* The priority that a message of u has to have.
Right(u, p) ==
  IF \E r \in Requests : Past(r) /\ Targets(r, u)
  THEN \A r \in Requests : Past(r) /\ Targets(r, u) => p = Adjusted(rowPriority[u], asked[r].action)
  ELSE p = rowPriority[u]

AllRight(s, u) == \A m \in Items(s) : m.unit = u => Right(u, m.priority)

\* One request at a time changes a unit that is queued, and has it in hand.
OneUpdate(u) ==
  \A r \in Requests : Updating(r) /\ Targets(r, u) =>
    /\ \A q \in Requests : Updating(q) /\ Targets(q, u) => q = r
    /\ stage[u] \notin {"new", "created"}
    /\ step[r] = "delete" => u \in UnitsIn(seen[r])

\* Every message of u that may be delivered has the right priority.
LiveRight(u) ==
  /\ AllRight(list, u)
  /\ \A c \in Consumers : AllRight(held[c], u)
  /\ \A r \in Requests : Rewriting(r) => AllRight(seen[r], u)

\* So has what an undisturbed request is about to push back.
RewriteRightOf(r, u) ==
  step[r] = "delete" /\ ~disturbed[r] =>
    IF job[r] = "update" /\ Targets(r, u)
    THEN \A m \in Items(seen[r]) : m.unit = u =>
           m.priority = Adjusted(rowPriority[u], asked[r].action)
    ELSE AllRight(seen[r], u) \/ \E q \in Requests : Rewritten(u, q)

RewriteRight(u) == \A r \in Requests : RewriteRightOf(r, u)

\* The old set has the priority of MySQL, which an update that left it there keeps.
LegacyRight(u) ==
  /\ \A m \in Items(legacy) : m.unit = u => m.priority = rowPriority[u]
  /\ u \in UnitsIn(legacy) => \A r \in Requests : step[r] = "adjust" /\ Targets(r, u) =>
                                Adjusted(rowPriority[u], asked[r].action) = rowPriority[u]

Agreed(u) ==
  /\ OneUpdate(u)
  /\ LiveRight(u)
  /\ RewriteRight(u)
  /\ LegacyRight(u)
  /\ stage[u] \in {"new", "created"} => rowPriority[u] = Given[u]

PlacedInv == \A u \in Units \ raced : Placed(u)
AgreedInv == \A u \in Units \ (raced \cup skewed) : Agreed(u)
ShapeInv == QueueTypeOK /\ Shaped

-----------------------------------------------------------------------------
(* Lemmas about numbers, and about what the store does to a sequence.      *)

\* Every set of naturals that is not empty has a least element.
LEMMA LeastExists == \A T \in SUBSET Nat : T # {} => \E x \in T : \A y \in T : x <= y
<1> SUFFICES ASSUME NEW T \in SUBSET Nat, T # {}
             PROVE  \E x \in T : \A y \in T : x <= y
  OBVIOUS
<1> DEFINE R == {ss \in Nat \X Nat : ss[1] < ss[2]}
<1>1. IsWellFoundedOn(R, Nat)
  BY NatLessThanWellFounded DEF OpToRel
<1>2. PICK x \in T : \A y \in T : ~(<<y, x>> \in R)
  <2> HIDE DEF R
  <2> QED BY <1>1, WFMin
<1>3. \A y \in T : ~(y < x)
  BY <1>2
<1> QED BY <1>3

\* A bounded one has a greatest element.
LEMMA GreatestExists ==
  ASSUME NEW n \in Nat, NEW T \in SUBSET (0..n), T # {}
  PROVE  \E x \in T : \A y \in T : y <= x
<1> DEFINE D == {n - y : y \in T}
<1>1. D \in SUBSET Nat /\ D # {}
  <2>1. \A y \in T : y \in 0..n /\ n - y \in Nat
    OBVIOUS
  <2>2. D # {}
    OBVIOUS
  <2> QED BY <2>1, <2>2
<1>2. PICK d \in D : \A e \in D : d <= e
  <2> HIDE DEF D
  <2> QED BY <1>1, LeastExists
<1>3. PICK x \in T : d = n - x
  BY DEF D
<1>4. \A y \in T : n - x <= n - y
  BY <1>2, <1>3
<1> QED BY <1>4

\* The types of a sequence of messages.
LEMMA TypedItems ==
  ASSUME NEW s \in Seq(Messages)
  PROVE  /\ Len(s) \in Nat /\ DOMAIN s = 1..Len(s)
         /\ \A i \in DOMAIN s : /\ s[i] \in Messages
                                /\ s[i].unit \in Units /\ s[i].priority \in 0..100
         /\ s # <<>> => 1 \in DOMAIN s
         /\ Items(s) \subseteq Messages
         /\ UnitsIn(s) = {m.unit : m \in Items(s)}
         /\ UnitsIn(s) \subseteq Units
<1>1. /\ Len(s) \in Nat /\ DOMAIN s = 1..Len(s) /\ (s # <<>> => 1 \in DOMAIN s)
      /\ \A i \in DOMAIN s : s[i] \in Messages
  OBVIOUS
<1>2. \A m \in Messages : m.unit \in Units /\ m.priority \in 0..100
  BY DEF Messages, Priorities
<1>3. UnitsIn(s) = {m.unit : m \in Items(s)}
  BY DEF UnitsIn, Items
<1> QED BY <1>1, <1>2, <1>3 DEF Items

\* A message pushed.
LEMMA AppendItems ==
  ASSUME NEW s \in Seq(Messages), NEW m \in Messages
  PROVE  /\ Append(s, m) \in Seq(Messages)
         /\ Items(Append(s, m)) = Items(s) \cup {m}
         /\ UnitsIn(Append(s, m)) = UnitsIn(s) \cup {m.unit}
         /\ \A u : Once(s, u) /\ (u = m.unit => u \notin UnitsIn(s)) => Once(Append(s, m), u)
<1> DEFINE t == Append(s, m)
<1>1. /\ t \in Seq(Messages)
      /\ DOMAIN s = 1..Len(s) /\ DOMAIN t = 1..(Len(s) + 1)
      /\ \A i \in DOMAIN s : t[i] = s[i]
      /\ t[Len(s) + 1] = m
      /\ Len(s) \in Nat
  OBVIOUS
<1> HIDE DEF t
<1>2. \A i \in DOMAIN t : i \in DOMAIN s \/ i = Len(s) + 1
  BY <1>1
<1>3. DOMAIN s \subseteq DOMAIN t /\ Len(s) + 1 \in DOMAIN t
  BY <1>1
<1>4. Items(t) = Items(s) \cup {m}
  BY <1>1, <1>2, <1>3 DEF Items
<1>5. UnitsIn(t) = UnitsIn(s) \cup {m.unit}
  BY <1>1, <1>2, <1>3 DEF UnitsIn
<1>6. ASSUME NEW u, Once(s, u), u = m.unit => u \notin UnitsIn(s)
      PROVE  Once(t, u)
  <2> SUFFICES ASSUME NEW i \in DOMAIN t, NEW j \in DOMAIN t, t[i].unit = u, t[j].unit = u
               PROVE  i = j
    BY DEF Once
  <2>1. CASE i \in DOMAIN s /\ j \in DOMAIN s
    BY <2>1, <1>1, <1>6 DEF Once
  <2>2. CASE i = Len(s) + 1 /\ j \in DOMAIN s
    BY <2>2, <1>1, <1>6 DEF UnitsIn
  <2>3. CASE j = Len(s) + 1 /\ i \in DOMAIN s
    BY <2>3, <1>1, <1>6 DEF UnitsIn
  <2> QED BY <2>1, <2>2, <2>3, <1>2
<1> QED BY <1>1, <1>4, <1>5, <1>6 DEF t

\* A message popped, or pushed back.
LEMMA TailItems ==
  ASSUME NEW s \in Seq(Messages), s # <<>>
  PROVE  /\ Head(s) \in Messages /\ Tail(s) \in Seq(Messages)
         /\ Items(s) = {Head(s)} \cup Items(Tail(s))
         /\ UnitsIn(s) = {Head(s).unit} \cup UnitsIn(Tail(s))
         /\ \A u : Once(s, u) => /\ Once(Tail(s), u)
                                 /\ u = Head(s).unit => u \notin UnitsIn(Tail(s))
         /\ Distinct(s) => Distinct(Tail(s)) /\ Head(s).unit \notin UnitsIn(Tail(s))
<1> DEFINE t == Tail(s)
           h == Head(s)
<1>1. /\ t \in Seq(Messages) /\ h \in Messages
      /\ Len(s) \in Nat \ {0}
      /\ DOMAIN s = 1..Len(s) /\ DOMAIN t = 1..(Len(s) - 1)
      /\ \A i \in DOMAIN t : t[i] = s[i + 1]
      /\ h = s[1]
  OBVIOUS
<1> HIDE DEF t, h
<1>2. \A i \in DOMAIN s : i = 1 \/ (i - 1 \in DOMAIN t /\ s[i] = t[i - 1])
  <2> SUFFICES ASSUME NEW i \in DOMAIN s, i # 1
               PROVE  i - 1 \in DOMAIN t /\ s[i] = t[i - 1]
    OBVIOUS
  <2>1. i - 1 \in DOMAIN t /\ (i - 1) + 1 = i
    BY <1>1
  <2> QED BY <2>1, <1>1
<1>3. 1 \in DOMAIN s /\ \A i \in DOMAIN t : i + 1 \in DOMAIN s /\ i + 1 # 1 /\ i \in Nat
  BY <1>1
<1>4. \A m : (\E i \in DOMAIN s : s[i] = m) <=> m = h \/ (\E i \in DOMAIN t : t[i] = m)
  BY <1>1, <1>2, <1>3
<1>5. /\ Items(s) = {h} \cup Items(t)
      /\ UnitsIn(s) = {h.unit} \cup UnitsIn(t)
  <2>1. Items(s) = {h} \cup Items(t)
    BY <1>4 DEF Items
  <2>2. \A w : UnitsIn(w) = {m.unit : m \in Items(w)}
    BY DEF UnitsIn, Items
  <2> QED BY <2>1, <2>2
<1>6. ASSUME NEW u, Once(s, u)
      PROVE  Once(t, u) /\ (u = h.unit => u \notin UnitsIn(t))
  <2>1. Once(t, u)
    <3> SUFFICES ASSUME NEW i \in DOMAIN t, NEW j \in DOMAIN t, t[i].unit = u, t[j].unit = u
                 PROVE  i = j
      BY DEF Once
    <3>1. i + 1 = j + 1
      BY <1>1, <1>3, <1>6 DEF Once
    <3> QED BY <3>1, <1>3
  <2>2. ASSUME u = h.unit, NEW i \in DOMAIN t, t[i].unit = u
        PROVE  FALSE
    BY <2>2, <1>1, <1>3, <1>6 DEF Once
  <2> QED BY <2>1, <2>2 DEF UnitsIn
<1>7. ASSUME Distinct(s)
      PROVE  Distinct(t) /\ h.unit \notin UnitsIn(t)
  <2>1. \A u : Once(s, u)
    BY <1>7 DEF Distinct, Once
  <2>2. \A u : Once(t, u)
    BY <2>1, <1>6
  <2> QED BY <2>1, <2>2, <1>6 DEF Distinct, Once
<1> QED BY <1>1, <1>5, <1>6, <1>7 DEF t, h

\* One sequence after the other.
LEMMA ConcatPlaces ==
  ASSUME NEW s \in Seq(Messages), NEW t \in Seq(Messages)
  PROVE  /\ s \o t \in Seq(Messages) /\ Len(s) \in Nat /\ Len(t) \in Nat
         /\ DOMAIN (s \o t) = 1..(Len(s) + Len(t))
         /\ \A i \in 1..(Len(s) + Len(t)) :
              (s \o t)[i] = IF i <= Len(s) THEN s[i] ELSE t[i - Len(s)]
OBVIOUS

LEMMA ConcatItems ==
  ASSUME NEW s \in Seq(Messages), NEW t \in Seq(Messages)
  PROVE  /\ s \o t \in Seq(Messages)
         /\ Items(s \o t) = Items(s) \cup Items(t)
         /\ UnitsIn(s \o t) = UnitsIn(s) \cup UnitsIn(t)
<1> DEFINE v == s \o t
<1>1. /\ v \in Seq(Messages) /\ Len(s) \in Nat /\ Len(t) \in Nat
      /\ DOMAIN s = 1..Len(s) /\ DOMAIN t = 1..Len(t) /\ DOMAIN v = 1..(Len(s) + Len(t))
      /\ \A i \in DOMAIN v : v[i] = IF i <= Len(s) THEN s[i] ELSE t[i - Len(s)]
  BY ConcatPlaces
<1> HIDE DEF v
<1>2. \A i \in DOMAIN v : \/ i \in DOMAIN s /\ v[i] = s[i]
                          \/ i - Len(s) \in DOMAIN t /\ v[i] = t[i - Len(s)]
  BY <1>1
<1>3. \A i \in DOMAIN s : i \in DOMAIN v /\ v[i] = s[i]
  BY <1>1
<1>4. \A i \in DOMAIN t : i + Len(s) \in DOMAIN v /\ v[i + Len(s)] = t[i]
  BY <1>1
<1>5. \A m : (\E i \in DOMAIN v : v[i] = m) <=>
              (\E i \in DOMAIN s : s[i] = m) \/ (\E i \in DOMAIN t : t[i] = m)
  BY <1>2, <1>3, <1>4
<1>6. Items(v) = Items(s) \cup Items(t)
  BY <1>5 DEF Items
<1>7. \A w : UnitsIn(w) = {m.unit : m \in Items(w)}
  BY DEF UnitsIn, Items
<1> QED BY <1>1, <1>6, <1>7 DEF v

\* Two sequences of messages that agree at every place are the same.
LEMMA SameItems ==
  ASSUME NEW s \in Seq(Messages), NEW t \in Seq(Messages),
         Len(s) = Len(t), \A i \in 1..Len(s) : s[i] = t[i]
  PROVE  s = t
OBVIOUS

\* LREM takes the first of the equal messages, if there is one.
LEMMA RemoveItems ==
  ASSUME NEW s \in Seq(Messages), NEW m \in Messages
  PROVE  /\ Remove(s, m) \in Seq(Messages)
         /\ Items(Remove(s, m)) \subseteq Items(s)
         /\ m \notin Items(s) => Remove(s, m) = s
         /\ \A u : Once(s, u) => Once(Remove(s, m), u)
         /\ \A u : u # m.unit /\ u \in UnitsIn(s) => u \in UnitsIn(Remove(s, m))
         /\ m \in Items(s) /\ Once(s, m.unit) => m.unit \notin UnitsIn(Remove(s, m))
<1>1. CASE m \notin Items(s)
  <2>1. Remove(s, m) = s
    BY <1>1 DEF Remove, Items
  <2> QED BY <1>1, <2>1
<1>2. CASE m \in Items(s)
  <2> DEFINE First(k) == s[k] = m /\ \A j \in 1..(k - 1) : s[j] # m
             t == Remove(s, m)
  <2>1. Len(s) \in Nat /\ DOMAIN s = 1..Len(s)
    OBVIOUS
  <2>2. \E k \in DOMAIN s : First(k)
    <3> DEFINE T == {k \in DOMAIN s : s[k] = m}
    <3>1. T \in SUBSET Nat /\ T # {}
      BY <1>2, <2>1 DEF Items
    <3>2. PICK k \in T : \A j \in T : k <= j
      <4> HIDE DEF T
      <4> QED BY <3>1, LeastExists
    <3>3. \A j \in 1..(k - 1) : j \in DOMAIN s /\ ~(k <= j)
      BY <2>1, <3>2
    <3> QED BY <3>2, <3>3
  <2> DEFINE i == CHOOSE k \in DOMAIN s : First(k)
  <2>3. i \in DOMAIN s /\ First(i)
    <3> HIDE DEF First
    <3> QED BY <2>2
  <2>4. t = SubSeq(s, 1, i - 1) \o SubSeq(s, i + 1, Len(s))
    BY <2>2 DEF Remove
  <2> HIDE DEF i
  <2> DEFINE a == SubSeq(s, 1, i - 1)
             b == SubSeq(s, i + 1, Len(s))
  <2>5. a \in Seq(Messages) /\ Len(a) = i - 1 /\ \A j \in 1..(i - 1) : a[j] = s[j]
    BY <2>1, <2>3
  <2>6. b \in Seq(Messages) /\ Len(b) = Len(s) - i
        /\ \A j \in 1..(Len(s) - i) : b[j] = s[j + i]
    BY <2>1, <2>3
  <2> HIDE DEF a, b
  <2>7. t \in Seq(Messages) /\ DOMAIN t = 1..(Len(s) - 1)
        /\ \A j \in DOMAIN t : t[j] = IF j < i THEN s[j] ELSE s[j + 1]
    <3>1. t = a \o b
      BY <2>4 DEF a, b
    <3>2. /\ t \in Seq(Messages) /\ DOMAIN t = 1..(Len(a) + Len(b))
          /\ \A j \in 1..(Len(a) + Len(b)) : t[j] = IF j <= Len(a) THEN a[j] ELSE b[j - Len(a)]
      BY <2>5, <2>6, <3>1, ConcatPlaces
    <3>3. Len(a) + Len(b) = Len(s) - 1
      BY <2>1, <2>3, <2>5, <2>6
    <3>4. ASSUME NEW j \in 1..(Len(s) - 1)
          PROVE  t[j] = IF j < i THEN s[j] ELSE s[j + 1]
      <4>1. CASE j < i
        BY <4>1, <2>1, <2>3, <2>5, <3>2, <3>3
      <4>2. CASE ~(j < i)
        <5>1. j - (i - 1) \in 1..(Len(s) - i) /\ (j - (i - 1)) + i = j + 1 /\ ~(j <= i - 1)
          BY <4>2, <2>1, <2>3
        <5>2. t[j] = b[j - (i - 1)]
          BY <5>1, <2>5, <3>2, <3>3
        <5> QED BY <4>2, <5>1, <5>2, <2>6
      <4> QED BY <4>1, <4>2
    <3> QED BY <3>2, <3>3, <3>4
  <2> HIDE DEF t, First
  <2> DEFINE at(j) == IF j < i THEN j ELSE j + 1
  <2>8. \A j \in DOMAIN t : at(j) \in DOMAIN s /\ t[j] = s[at(j)] /\ at(j) # i
    BY <2>1, <2>3, <2>7
  <2>9. \A j, k \in DOMAIN t : at(j) = at(k) => j = k
    BY <2>1, <2>3, <2>7
  <2>10. \A k \in DOMAIN s : k # i => \E j \in DOMAIN t : t[j] = s[k]
    <3> SUFFICES ASSUME NEW k \in DOMAIN s, k # i
                 PROVE  \E j \in DOMAIN t : t[j] = s[k]
      OBVIOUS
    <3>1. CASE k < i
      BY <3>1, <2>1, <2>3, <2>7
    <3>2. CASE k > i
      <4>1. k - 1 \in DOMAIN t /\ ~(k - 1 < i) /\ (k - 1) + 1 = k
        BY <3>2, <2>1, <2>3, <2>7
      <4> QED BY <4>1, <2>7
    <3> QED BY <3>1, <3>2, <2>1, <2>3
  <2> HIDE DEF at
  <2>11. s[i] = m
    BY <2>3 DEF First
  <2>12. Items(t) \subseteq Items(s)
    BY <2>8 DEF Items
  <2>13. \A u : Once(s, u) => Once(t, u)
    BY <2>8, <2>9 DEF Once
  <2>14. \A u : u # m.unit /\ u \in UnitsIn(s) => u \in UnitsIn(t)
    BY <2>10, <2>11 DEF UnitsIn
  <2>15. Once(s, m.unit) => m.unit \notin UnitsIn(t)
    BY <2>3, <2>8, <2>11 DEF UnitsIn, Once
  <2> QED BY <1>2, <2>7, <2>12, <2>13, <2>14, <2>15 DEF t
<1> QED BY <1>1, <1>2

\* Among messages there is a first with the highest priority.
LEMMA BestExists ==
  ASSUME NEW s \in Seq(Messages), s # <<>>
  PROVE  /\ Best(s) \in DOMAIN s
         /\ \A j \in DOMAIN s :
              /\ s[j].priority <= s[Best(s)].priority
              /\ s[j].priority = s[Best(s)].priority => Best(s) <= j
<1> DEFINE P == {s[i].priority : i \in DOMAIN s}
           Ok(i) == \A j \in DOMAIN s :
                      s[j].priority <= s[i].priority /\ (s[j].priority = s[i].priority => i <= j)
<1>1. Len(s) \in Nat /\ DOMAIN s = 1..Len(s) /\ 1 \in DOMAIN s
      /\ \A i \in DOMAIN s : s[i].priority \in 0..100
  BY TypedItems
<1>2. PICK p \in P : \A q \in P : q <= p
  <2>1. P \in SUBSET (0..100) /\ P # {}
    BY <1>1
  <2> HIDE DEF P
  <2> QED BY <2>1, GreatestExists
<1> DEFINE T == {i \in DOMAIN s : s[i].priority = p}
<1>3. T \in SUBSET Nat /\ T # {}
  BY <1>1
<1>4. PICK i \in T : \A j \in T : i <= j
  <2> HIDE DEF T
  <2> QED BY <1>3, LeastExists
<1>5. i \in DOMAIN s /\ Ok(i)
  BY <1>2, <1>4
<1>6. Best(s) = CHOOSE k \in DOMAIN s : Ok(k)
  BY DEF Best
<1> HIDE DEF Ok
<1>7. Best(s) \in DOMAIN s /\ Ok(Best(s))
  BY <1>5, <1>6
<1> QED BY <1>7 DEF Ok

\* The message that represents a unit in a canonical queue is one of its messages.
LEMMA WinnerExists ==
  ASSUME NEW s \in Seq(Messages), NEW u \in UnitsIn(s)
  PROVE  Winner(s, u) \in DOMAIN s /\ s[Winner(s, u)].unit = u
<1> DEFINE D == {j \in DOMAIN s : s[j].unit = u}
           P == {s[i].priority : i \in D}
           Ok(i) == /\ s[i].unit = u
                    /\ \A j \in D : s[j].priority <= s[i].priority
                                      /\ (s[j].priority = s[i].priority => j <= i)
<1>1. Len(s) \in Nat /\ DOMAIN s = 1..Len(s) /\ D # {}
      /\ \A i \in DOMAIN s : s[i].priority \in 0..100
  BY TypedItems DEF UnitsIn
<1>2. PICK p \in P : \A q \in P : q <= p
  <2>1. P \in SUBSET (0..100) /\ P # {}
    BY <1>1
  <2> HIDE DEF P
  <2> QED BY <2>1, GreatestExists
<1> DEFINE T == {i \in D : s[i].priority = p}
<1>3. T \in SUBSET (0..Len(s)) /\ T # {}
  BY <1>1
<1>4. PICK i \in T : \A j \in T : j <= i
  <2> HIDE DEF T
  <2> QED BY <1>1, <1>3, GreatestExists
<1>5. i \in DOMAIN s /\ Ok(i)
  BY <1>2, <1>4
<1>6. Winner(s, u) = CHOOSE k \in DOMAIN s : Ok(k)
  BY DEF Winner
<1>7. Winner(s, u) \in DOMAIN s /\ Ok(Winner(s, u))
  <2> HIDE DEF Ok
  <2> QED BY <1>5, <1>6
<1> QED BY <1>7

\* The places of a bounded set are counted from the lowest.
LEMMA NthExists ==
  ASSUME NEW n \in Nat, NEW F \in SUBSET (1..n)
  PROVE  /\ Cardinality(F) \in Nat
         /\ \A k \in 1..Cardinality(F) : Nth(F, k) \in F
         /\ \A k, l \in 1..Cardinality(F) : Nth(F, k) = Nth(F, l) => k = l
         /\ \A i \in F : \E k \in 1..Cardinality(F) : Nth(F, k) = i
<1> DEFINE Upto(i) == {j \in F : j <= i}
           rank == [i \in F |-> Cardinality(Upto(i))]
<1>1. IsFiniteSet(F) /\ Cardinality(F) \in Nat
  <2>1. IsFiniteSet(1..n)
    BY FS_Interval
  <2> QED BY <2>1, FS_Subset, FS_CardinalityType
<1>2. \A i \in F : /\ IsFiniteSet(Upto(i)) /\ Cardinality(Upto(i)) \in Nat
                   /\ Cardinality(Upto(i)) <= Cardinality(F)
                   /\ Cardinality(Upto(i)) # 0
  <2> SUFFICES ASSUME NEW i \in F
               PROVE  /\ IsFiniteSet(Upto(i)) /\ Cardinality(Upto(i)) \in Nat
                      /\ Cardinality(Upto(i)) <= Cardinality(F)
                      /\ Cardinality(Upto(i)) # 0
    OBVIOUS
  <2>1. Upto(i) \in SUBSET F /\ i \in Upto(i)
    OBVIOUS
  <2> HIDE DEF Upto
  <2>2. IsFiniteSet(Upto(i)) /\ Cardinality(Upto(i)) <= Cardinality(F)
    BY <1>1, <2>1, FS_Subset
  <2> QED BY <2>1, <2>2, FS_CardinalityType, FS_EmptySet
<1>3. \A i, j \in F : i < j => Cardinality(Upto(i)) # Cardinality(Upto(j))
  <2> SUFFICES ASSUME NEW i \in F, NEW j \in F, i < j
               PROVE  Cardinality(Upto(i)) # Cardinality(Upto(j))
    OBVIOUS
  <2>1. Upto(i) \in SUBSET Upto(j) /\ j \in Upto(j) /\ j \notin Upto(i)
    <3>1. j <= j /\ ~(j <= i) /\ \A k \in F : k <= i => k <= j
      OBVIOUS
    <3> QED BY <3>1, Zenon
  <2>2. IsFiniteSet(Upto(j))
    BY <1>2
  <2> HIDE DEF Upto
  <2> QED BY <2>1, <2>2, FS_Subset
<1>4. \A i \in F : i \in Nat
  OBVIOUS
<1>5. rank \in Injection(F, 1..Cardinality(F))
  <2>1. rank \in [F -> 1..Cardinality(F)]
    <3>1. \A i \in F : Cardinality(Upto(i)) \in 1..Cardinality(F)
      <4> HIDE DEF Upto
      <4> QED BY <1>1, <1>2
    <3> HIDE DEF Upto
    <3> QED BY <3>1
  <2>2. \A i, j \in F : rank[i] = rank[j] => i = j
    <3>1. \A i, j \in F : i < j \/ j < i \/ i = j
      BY <1>4
    <3> HIDE DEF Upto
    <3> QED BY <1>3, <3>1
  <2> HIDE DEF rank
  <2> QED BY <2>1, <2>2 DEF Injection, IsInjective
<1>6. rank \in Surjection(F, 1..Cardinality(F))
  <2>1. IsFiniteSet(1..Cardinality(F)) /\ Cardinality(1..Cardinality(F)) = Cardinality(F)
    BY <1>1, FS_Interval
  <2> HIDE DEF rank
  <2> QED BY <1>5, <2>1, FS_Injection
<1>7. \A k \in 1..Cardinality(F) : \E i \in F : rank[i] = k
  <2> HIDE DEF rank
  <2> QED BY <1>6 DEF Surjection
<1>8. \A i, j \in F : rank[i] = rank[j] => i = j
  <2> HIDE DEF rank
  <2> QED BY <1>5 DEF Injection, IsInjective
<1>9. \A k : Nth(F, k) = CHOOSE i \in F : rank[i] = k
  BY DEF Nth
<1>10. \A i \in F : rank[i] \in 1..Cardinality(F)
  <2> HIDE DEF rank
  <2> QED BY <1>5 DEF Injection
<1> HIDE DEF rank
<1>11. \A k \in 1..Cardinality(F) : Nth(F, k) \in F /\ rank[Nth(F, k)] = k
  BY <1>7, <1>9
<1> QED BY <1>1, <1>8, <1>10, <1>11

\* A canonical queue has the units of the messages it is made of, each once, and none
\* but these messages.
LEMMA CanonicalItems ==
  ASSUME NEW s \in Seq(Messages)
  PROVE  /\ Canonical(s) \in Seq(Messages)
         /\ Items(Canonical(s)) \subseteq Items(s)
         /\ UnitsIn(Canonical(s)) = UnitsIn(s)
         /\ Distinct(Canonical(s))
<1> DEFINE F == Firsts(s)
           n == Cardinality(F)
           unit(k) == s[Nth(F, k)].unit
           t == Canonical(s)
<1>1. Len(s) \in Nat /\ DOMAIN s = 1..Len(s) /\ F \in SUBSET (1..Len(s))
  BY TypedItems DEF Firsts
<1> HIDE DEF F
<1>2. /\ n \in Nat
      /\ \A k \in 1..n : Nth(F, k) \in F
      /\ \A k, l \in 1..n : Nth(F, k) = Nth(F, l) => k = l
      /\ \A i \in F : \E k \in 1..n : Nth(F, k) = i
  BY <1>1, NthExists
<1>3. t = [k \in 1..n |-> s[Winner(s, unit(k))]]
  BY DEF Canonical, F
<1> HIDE DEF n
<1>4. \A k \in 1..n : unit(k) \in UnitsIn(s)
  BY <1>1, <1>2 DEF UnitsIn
<1>5. \A k \in 1..n : Winner(s, unit(k)) \in DOMAIN s /\ s[Winner(s, unit(k))].unit = unit(k)
  <2> HIDE DEF unit
  <2> QED BY <1>4, WinnerExists
<1>6. \A u \in UnitsIn(s) : \E i \in F : s[i].unit = u
  <2> SUFFICES ASSUME NEW u \in UnitsIn(s)
               PROVE  \E i \in F : s[i].unit = u
    OBVIOUS
  <2> DEFINE T == {i \in DOMAIN s : s[i].unit = u}
  <2>1. T \in SUBSET Nat /\ T # {}
    BY <1>1 DEF UnitsIn
  <2>2. PICK i \in T : \A j \in T : i <= j
    <3> HIDE DEF T
    <3> QED BY <2>1, LeastExists
  <2>3. \A j \in 1..(i - 1) : j \in DOMAIN s /\ ~(i <= j)
    BY <1>1, <2>2
  <2>4. \A j \in 1..(i - 1) : s[j].unit # s[i].unit
    BY <2>2, <2>3
  <2> QED BY <2>2, <2>4 DEF F, Firsts
<1>7. \A i, j \in F : s[i].unit = s[j].unit => i = j
  <2> SUFFICES ASSUME NEW i \in F, NEW j \in F, s[i].unit = s[j].unit, i # j
               PROVE  FALSE
    OBVIOUS
  <2>1. i \in 1..Len(s) /\ j \in 1..Len(s)
    BY <1>1
  <2>2. (i \in 1..(j - 1)) \/ (j \in 1..(i - 1))
    BY <1>1, <2>1
  <2> QED BY <2>2 DEF F, Firsts
<1>8. \A k \in 1..n : t[k] \in Messages /\ t[k] \in Items(s) /\ t[k].unit = unit(k)
  <2>1. \A k \in 1..n : t[k] = s[Winner(s, unit(k))]
    BY <1>3
  <2> HIDE DEF t, unit
  <2> QED BY <2>1, <1>5, TypedItems DEF Items
<1>9. DOMAIN t = 1..n /\ t \in Seq(Messages)
  <2>1. DOMAIN t = 1..n /\ t = [k \in 1..n |-> t[k]]
    BY <1>3
  <2> HIDE DEF t
  <2> QED BY <1>2, <1>8, <2>1
<1> HIDE DEF t
<1>10. Items(t) \subseteq Items(s)
  BY <1>8, <1>9 DEF Items
<1>11. UnitsIn(t) = UnitsIn(s)
  <2>1. \A k \in 1..n : t[k].unit \in UnitsIn(s)
    BY <1>4, <1>8
  <2>2. \A u \in UnitsIn(s) : \E k \in 1..n : t[k].unit = u
    BY <1>2, <1>6, <1>8
  <2> QED BY <1>9, <2>1, <2>2 DEF UnitsIn
<1>12. Distinct(t)
  <2> SUFFICES ASSUME NEW k \in 1..n, NEW l \in 1..n, t[k].unit = t[l].unit
               PROVE  k = l
    BY <1>9 DEF Distinct
  <2>1. unit(k) = unit(l)
    BY <1>8
  <2> QED BY <1>2, <1>7, <2>1
<1> QED BY <1>9, <1>10, <1>11, <1>12 DEF t

\* Priorities stay in 0..100.
LEMMA AdjustedTyped ==
  ASSUME NEW p \in Priorities, NEW action \in {"raise", "lower", "reset"}
  PROVE  Adjusted(p, action) \in Priorities
<1>1. p \in 0..100 /\ Amount \in 1..100
  BY QueueAssumption DEF Priorities
<1> QED BY <1>1 DEF Adjusted, Priorities

\* A change of priorities leaves the units and their places alone.
LEMMA ReprioritisedItems ==
  ASSUME NEW s \in Seq(Messages), NEW tasks, NEW action \in {"raise", "lower", "reset"}
  PROVE  LET t == Reprioritised(s, tasks, action)
         IN  /\ t \in Seq(Messages) /\ Len(t) = Len(s)
             /\ UnitsIn(t) = UnitsIn(s)
             /\ Distinct(s) => Distinct(t)
             /\ \A i \in DOMAIN s :
                  /\ t[i].unit = s[i].unit
                  /\ t[i].priority = IF TaskOf[s[i].unit] \in tasks
                                     THEN Adjusted(s[i].priority, action) ELSE s[i].priority
<1> DEFINE new(m) == IF TaskOf[m.unit] \in tasks
                     THEN [m EXCEPT !.priority = Adjusted(m.priority, action)] ELSE m
           t == Reprioritised(s, tasks, action)
<1>1. ASSUME NEW m \in Messages
      PROVE  /\ new(m) \in Messages
             /\ new(m).unit = m.unit
             /\ new(m).priority = IF TaskOf[m.unit] \in tasks
                                  THEN Adjusted(m.priority, action) ELSE m.priority
  <2>1. Adjusted(m.priority, action) \in Priorities
    BY AdjustedTyped DEF Messages
  <2> QED BY <2>1 DEF Messages
<1>2. t = [i \in DOMAIN s |-> new(s[i])]
  BY DEF Reprioritised
<1> HIDE DEF new
<1>3. Len(s) \in Nat /\ DOMAIN s = 1..Len(s) /\ \A i \in DOMAIN s : s[i] \in Messages
  BY TypedItems
<1>4. \A i \in DOMAIN s : t[i] = new(s[i]) /\ t[i] \in Messages
  BY <1>1, <1>2, <1>3
<1>5. DOMAIN t = DOMAIN s /\ t \in Seq(Messages) /\ Len(t) = Len(s)
  <2>1. DOMAIN t = 1..Len(s) /\ t = [i \in 1..Len(s) |-> t[i]]
    BY <1>2, <1>3
  <2> HIDE DEF t
  <2> QED BY <1>3, <1>4, <2>1
<1> HIDE DEF t
<1>6. \A i \in DOMAIN s : /\ t[i].unit = s[i].unit
                          /\ t[i].priority = IF TaskOf[s[i].unit] \in tasks
                                             THEN Adjusted(s[i].priority, action) ELSE s[i].priority
  BY <1>1, <1>3, <1>4
<1>7. UnitsIn(t) = UnitsIn(s) /\ (Distinct(s) => Distinct(t))
  BY <1>5, <1>6 DEF UnitsIn, Distinct
<1> QED BY <1>5, <1>6, <1>7 DEF t

-----------------------------------------------------------------------------
(* Types, and what each actor may be doing.                                *)

\* Who takes a step.
RequestAct(r) ==
  RequestStep(r) \/ RequestFails(r) \/ ViewProducts(r) \/ ApplyPriority(r) \/ ClearLength(r)
OtherAct ==
  SetStrategy \/ \E u \in Units : CreateRow(u) \/ ExpandAgain(u) \/ PushNew(u) \/ CreateTask(u)
InsertsAgain(u) == ExpandAgain(u) \/ CreateTask(u)

LEMMA SomebodyActs ==
  QueueNext <=> \/ \E c \in Consumers : ConsumerStep(c)
                \/ \E r \in Requests : RequestAct(r)
                \/ OtherAct
BY DEF QueueNext, RequestAct, OtherAct

\* At most actor a goes on; the old set is never filled again.
OnlyOf(a) ==
  /\ \A b \in Actors \ {a} : /\ step'[b] = step[b] /\ job'[b] = job[b] /\ seen'[b] = seen[b]
                             /\ size'[b] = size[b] /\ index'[b] = index[b]
  /\ \A c \in Consumers \ {a} : held'[c] = held[c]
  /\ \A r \in Requests \ {a} : asked'[r] = asked[r] /\ targets'[r] = targets[r]
  /\ legacy' \in {legacy, <<>>}

LEMMA OthersShaped ==
  ASSUME NEW a, Shaped, OnlyOf(a),
         a \in Consumers => ConsumerPlace(a)',
         a \in Requests => RequestPlace(a)',
         a \in Actors => ReaderPlace(a)'
  PROVE  Shaped'
<1>1. ASSUME NEW c \in Consumers, c # a
      PROVE  ConsumerPlace(c)'
  BY <1>1 DEF Shaped, OnlyOf, ConsumerPlace, Actors
<1>2. ASSUME NEW r \in Requests, r # a
      PROVE  RequestPlace(r)'
  BY <1>2 DEF Shaped, OnlyOf, RequestPlace, Actors
<1>3. ASSUME NEW b \in Actors, b # a
      PROVE  ReaderPlace(b)'
  BY <1>3 DEF Shaped, OnlyOf, ReaderPlace
<1> QED BY <1>1, <1>2, <1>3 DEF Shaped, Actors

\* The five functions that say where the actors are.
ActorsTyped ==
  /\ step \in [Actors -> Commands]
  /\ job \in [Actors -> Jobs]
  /\ size \in [Actors -> Nat]
  /\ index \in [Actors -> Nat]
  /\ seen \in [Actors -> Seq(Messages)]

LEMMA GoDoes ==
  ASSUME ActorsTyped, NEW a \in Actors, NEW next \in Commands, NEW purpose \in Jobs,
         NEW messages \in Seq(Messages), Go(a, next, purpose, messages)
  PROVE  /\ ActorsTyped'
         /\ step'[a] = next /\ job'[a] = purpose /\ seen'[a] = messages
         /\ size'[a] = 0 /\ index'[a] = 0
         /\ \A b \in Actors \ {a} : /\ step'[b] = step[b] /\ job'[b] = job[b] /\ seen'[b] = seen[b]
                                    /\ size'[b] = size[b] /\ index'[b] = index[b]
BY DEF Go, ActorsTyped

LEMMA DisturbDoes ==
  ASSUME NEW a, Disturb(a)
  PROVE  /\ disturbed' \in [Actors -> BOOLEAN]
         /\ \A b \in Actors : disturbed'[b] <=> b # a /\ (disturbed[b] \/ MayOutdate(b))
BY DEF Disturb

LEMMA AskedActions ==
  ASSUME NEW r \in Requests, asked[r] \in Asks(r), asked[r] # Nobody
  PROVE  asked[r].action \in {"raise", "lower", "reset"}
BY DEF Asks

LEMMA EmptyIsDistinct == Distinct(<<>>)
BY DEF Distinct

LEMMA NamesDiffer ==
  /\ Consumers \subseteq Actors /\ Requests \subseteq Actors
  /\ \A c \in Consumers : c \notin Requests
  /\ "dispatcher" \notin Actors
BY QueueAssumption DEF Actors

\* Initially nobody reads and nobody holds anything.
LEMMA ShapeInit == QueueInit => ShapeInv
<1> SUFFICES ASSUME QueueInit
             PROVE  ShapeInv
  OBVIOUS
<1>1. /\ <<>> \in Seq(Messages) /\ legacy \in Seq(Messages)
      /\ rowPriority \in [Units -> Priorities]
  <2>1. <<>> \in Seq(Messages)
    OBVIOUS
  <2>2. Legacy \in Seq(Messages) /\ Given \in [Units -> Priorities]
    BY QueueAssumption
  <2> QED BY <2>1, <2>2 DEF QueueInit
<1>2. /\ step \in [Actors -> {"strategy", "idle"}]
      /\ \A r \in Requests : step[r] \in {"strategy", "idle"}
  BY DEF QueueInit, Actors
<1>3. \A r \in Requests : step[r] = "idle"
  BY QueueAssumption DEF QueueInit, Actors
<1>4. QueueTypeOK
  <2>1. list \in Seq(Messages) /\ stage \in [Units -> {"new", "created", "pushed", "done"}]
    BY <1>1 DEF QueueInit
  <2>2. step \in [Actors -> Commands] /\ job \in [Actors -> Jobs]
    BY <1>2 DEF QueueInit, Commands, Jobs
  <2>3. seen \in [Actors -> Seq(Messages)] /\ held \in [Consumers -> Seq(Messages)]
    BY <1>1 DEF QueueInit
  <2>4. size \in [Actors -> Nat] /\ index \in [Actors -> Nat]
        /\ disturbed \in [Actors -> BOOLEAN]
    BY DEF QueueInit
  <2>5. targets \in [Requests -> SUBSET Tasks] /\ DOMAIN asked = Requests
        /\ \A r \in Requests : asked[r] \in Asks(r)
    BY DEF QueueInit, Asks
  <2> QED BY <1>1, <2>1, <2>2, <2>3, <2>4, <2>5 DEF QueueInit, QueueTypeOK
<1>5. \A c \in Consumers : ConsumerPlace(c)
  BY <1>2 DEF QueueInit, ConsumerPlace, Actors
<1>6. \A r \in Requests : RequestPlace(r)
  BY <1>3, EmptyIsDistinct DEF QueueInit, RequestPlace, Actors
<1>7. \A a \in Actors : ReaderPlace(a)
  BY DEF QueueInit, ReaderPlace
<1> QED BY <1>4, <1>5, <1>6, <1>7 DEF ShapeInv, Shaped

\* The stores and the requests' questions.
StoresTyped ==
  /\ list \in Seq(Messages) /\ legacy \in Seq(Messages)
  /\ strategy \in {"fifo", "priority"}
  /\ rowPriority \in [Units -> Priorities]
  /\ stage \in [Units -> {"new", "created", "pushed", "done"}]
  /\ held \in [Consumers -> Seq(Messages)]
  /\ DOMAIN asked = Requests /\ \A r \in Requests : asked[r] \in Asks(r)
  /\ targets \in [Requests -> SUBSET Tasks]

BoundsTyped ==
  /\ requested \in 0..MaxRequests /\ failures \in 0..MaxFailures
  /\ disturbed \in [Actors -> BOOLEAN]
  /\ raced \subseteq Units /\ skewed \subseteq Units

LEMMA TypesSplit == QueueTypeOK <=> ActorsTyped /\ StoresTyped /\ BoundsTyped
BY DEF QueueTypeOK, ActorsTyped, StoresTyped, BoundsTyped

LEMMA TypesSplitNext == QueueTypeOK' <=> ActorsTyped' /\ StoresTyped' /\ BoundsTyped'
BY TypesSplit, PTL

\* What a consumer is about to take is a message.
LEMMA SelectedTyped ==
  ASSUME NEW c \in Actors, ActorsTyped, Elevated(seen[c])
  PROVE  /\ seen[c] \in Seq(Messages) /\ seen[c] # <<>>
         /\ Selected(c) \in Messages /\ Selected(c) \in Items(seen[c])
<1>1. seen[c] \in Seq(Messages)
  BY DEF ActorsTyped
<1>2. seen[c] # <<>>
  BY DEF Elevated
<1>3. Best(seen[c]) \in DOMAIN seen[c]
  BY <1>1, <1>2, BestExists
<1> QED BY <1>1, <1>2, <1>3, TypedItems DEF Selected, Items

\* What a request reads is a queue without repeated units.
LEMMA QueueReadTyped ==
  ASSUME NEW r \in Actors, ActorsTyped, StoresTyped
  PROVE  /\ QueueRead(r) \in Seq(Messages)
         /\ Items(QueueRead(r)) \subseteq Items(seen[r]) \cup Items(legacy)
         /\ UnitsIn(QueueRead(r)) = UnitsIn(seen[r]) \cup UnitsIn(legacy)
         /\ Distinct(QueueRead(r))
<1>1. seen[r] \in Seq(Messages) /\ legacy \in Seq(Messages)
  BY DEF ActorsTyped, StoresTyped
<1>2. /\ seen[r] \o legacy \in Seq(Messages)
      /\ Items(seen[r] \o legacy) = Items(seen[r]) \cup Items(legacy)
      /\ UnitsIn(seen[r] \o legacy) = UnitsIn(seen[r]) \cup UnitsIn(legacy)
  BY <1>1, ConcatItems
<1> QED BY <1>2, CanonicalItems DEF QueueRead

\* So do the two commands of a read.
LEMMA ReadingKeepsShape ==
  ASSUME ShapeInv, NEW a \in Actors, ReadLength(a) \/ ReadItem(a)
  PROVE  ShapeInv' /\ OnlyOf(a)
<1>1. ActorsTyped /\ StoresTyped /\ BoundsTyped /\ Shaped /\ ReaderPlace(a)
  BY TypesSplit DEF ShapeInv, Shaped
<1>2. /\ ActorsTyped' /\ BoundsTyped' /\ ReaderPlace(a)' /\ step'[a] = "item" /\ job' = job
      /\ step[a] \in {"length", "item"}
      /\ \A b \in Actors \ {a} : /\ step'[b] = step[b] /\ size'[b] = size[b]
                                 /\ index'[b] = index[b] /\ seen'[b] = seen[b]
  <2>1. CASE ReadLength(a)
    <3>1. Len(list) \in Nat
      BY <1>1, TypedItems DEF StoresTyped
    <3>2. /\ ActorsTyped' /\ step'[a] = "item" /\ UNCHANGED <<job, index, seen>>
          /\ \A b \in Actors \ {a} : step'[b] = step[b] /\ size'[b] = size[b]
      BY <1>1, <2>1, <3>1 DEF ReadLength, ActorsTyped, Commands
    <3>3. index'[a] = 0 /\ size'[a] \in Nat
      BY <1>1, <2>1, <3>2 DEF ReadLength, ReaderPlace, ActorsTyped
    <3>4. BoundsTyped'
      BY <1>1, <2>1 DEF ReadLength, BoundsTyped, bounds
    <3> QED BY <2>1, <3>2, <3>3, <3>4 DEF ReadLength, ReaderPlace
  <2>2. CASE ReadItem(a)
    <3>1. index[a] + 1 \in Nat /\ seen[a] \in Seq(Messages)
      BY <1>1 DEF ActorsTyped
    <3>2. index[a] < Len(list) => Append(seen[a], list[index[a] + 1]) \in Seq(Messages)
      <4>1. index[a] < Len(list) => index[a] + 1 \in DOMAIN list
        BY <1>1, TypedItems DEF StoresTyped, ActorsTyped
      <4>2. index[a] < Len(list) => list[index[a] + 1] \in Messages
        BY <1>1, <4>1, TypedItems DEF StoresTyped
      <4> QED BY <3>1, <4>2
    <3>3. /\ ActorsTyped' /\ step'[a] = "item" /\ UNCHANGED <<job, size>> /\ step' = step
          /\ index'[a] = index[a] + 1
          /\ \A b \in Actors \ {a} : index'[b] = index[b] /\ seen'[b] = seen[b]
      BY <1>1, <2>2, <3>1, <3>2 DEF ReadItem, ActorsTyped
    <3>4. index[a] \in Nat /\ size[a] \in Nat /\ index[a] < size[a] /\ size'[a] = size[a]
      BY <1>1, <2>2 DEF ReadItem, ActorsTyped
    <3>5. BoundsTyped'
      BY <1>1, <2>2 DEF ReadItem, BoundsTyped, bounds
    <3> QED BY <2>2, <3>3, <3>4, <3>5 DEF ReadItem, ReaderPlace
  <2> QED BY <2>1, <2>2
<1>3. UNCHANGED <<redis, strategy, mysql, held, request>>
  BY DEF ReadLength, ReadItem
<1>4. StoresTyped'
  BY <1>1, <1>3 DEF StoresTyped, redis, mysql, request
<1>5. OnlyOf(a)
  BY <1>2, <1>3 DEF OnlyOf, redis, request
<1>6. ASSUME a \in Consumers
      PROVE  ConsumerPlace(a)'
  BY <1>1, <1>2, <1>3, <1>6 DEF Shaped, ConsumerPlace
<1>7. ASSUME a \in Requests
      PROVE  RequestPlace(a)'
  BY <1>1, <1>2, <1>3, <1>7 DEF Shaped, RequestPlace, redis, request
<1> QED BY <1>1, <1>2, <1>4, <1>5, <1>6, <1>7, OthersShaped, TypesSplitNext DEF ShapeInv

\* The steps of a consumer keep types and places.
LEMMA ConsumerKeepsShape ==
  ASSUME ShapeInv, NEW c \in Consumers, ConsumerStep(c)
  PROVE  ShapeInv' /\ OnlyOf(c)
<1>1. c \in Actors /\ c \notin Requests
  BY NamesDiffer
<1>2. ActorsTyped /\ StoresTyped /\ BoundsTyped /\ Shaped
  BY TypesSplit DEF ShapeInv
<1>3. /\ ConsumerPlace(c) /\ ReaderPlace(c)
      /\ <<>> \in Seq(Messages)
      /\ {"length", "item", "pop", "work", "strategy"} \subseteq Commands
      /\ {"state", "select", "none"} \subseteq Jobs
  BY <1>1, <1>2 DEF Shaped, Commands, Jobs
<1> DEFINE Kept == /\ ActorsTyped' /\ StoresTyped' /\ BoundsTyped' /\ OnlyOf(c)
                   /\ ConsumerPlace(c)' /\ ReaderPlace(c)'
<1>4. Kept => ShapeInv' /\ OnlyOf(c)
  BY <1>1, <1>2, OthersShaped, TypesSplitNext DEF ShapeInv
<1>5. ASSUME UNCHANGED <<redis, strategy, mysql, held, request, bounds, raced, skewed>>
      PROVE  StoresTyped'
  BY <1>2, <1>5 DEF StoresTyped, redis, mysql, request
<1>6. ASSUME UNCHANGED <<bounds, raced, skewed>>, disturbed' \in [Actors -> BOOLEAN]
      PROVE  BoundsTyped'
  BY <1>2, <1>6 DEF BoundsTyped, bounds
<1>7. disturbed \in [Actors -> BOOLEAN] /\ [disturbed EXCEPT ![c] = FALSE] \in [Actors -> BOOLEAN]
  BY <1>2 DEF BoundsTyped
<1>8. ASSUME NEW next \in {"length", "pop", "work"}, NEW purpose \in {"state", "select", "none"},
             Go(c, next, purpose, <<>>), next = "length" <=> purpose # "none",
             next = "work" => \E m \in Messages : held'[c] = <<m>>,
             next # "work" => held'[c] = <<>>
      PROVE  ActorsTyped' /\ ReaderPlace(c)' /\ ConsumerPlace(c)'
  <2>0. next \in Commands /\ purpose \in Jobs /\ Go(c, next, purpose, <<>>)
    BY <1>3, <1>8
  <2>1. /\ ActorsTyped'
        /\ step'[c] = next /\ job'[c] = purpose /\ seen'[c] = <<>>
        /\ size'[c] = 0 /\ index'[c] = 0
    <3>1. <<>> \in Seq(Messages) /\ ActorsTyped
      BY <1>2, <1>3
    <3>2. ActorsTyped'
      BY <1>1, <2>0, <3>1, GoDoes
    <3>3. step'[c] = next /\ job'[c] = purpose /\ seen'[c] = <<>>
      BY <1>1, <2>0, <3>1 DEF Go, ActorsTyped
    <3>4. size'[c] = 0 /\ index'[c] = 0
      BY <1>1, <2>0, <3>1, GoDoes
    <3> QED BY <3>2, <3>3, <3>4
  <2>2. ReaderPlace(c)'
    BY <1>8, <2>1 DEF ReaderPlace
  <2>3. ConsumerPlace(c)'
    BY <1>8, <2>1 DEF ConsumerPlace
  <2> QED BY <2>1, <2>2, <2>3
<1>9. ASSUME NEW next \in {"length", "pop", "work"}, NEW purpose \in {"state", "select", "none"},
             Go(c, next, purpose, <<>>), UNCHANGED <<legacy, request>>,
             \A d \in Consumers \ {c} : held'[d] = held[d]
      PROVE  OnlyOf(c)
  <2>1. \A b \in Actors \ {c} : /\ step'[b] = step[b] /\ job'[b] = job[b] /\ seen'[b] = seen[b]
                                /\ size'[b] = size[b] /\ index'[b] = index[b]
    BY <1>1, <1>2, <1>3, <1>9, GoDoes
  <2> QED BY <1>9, <2>1 DEF OnlyOf, request
<1>10. CASE GetStrategy(c)
  <2>1. /\ step[c] = "strategy" /\ UNCHANGED <<legacy, request, held>> /\ held[c] = <<>>
        /\ \/ Go(c, "length", "state", <<>>)
           \/ Go(c, "pop", "none", <<>>)
    BY <1>3, <1>10 DEF GetStrategy, Read, redis, ConsumerPlace
  <2>2. ActorsTyped' /\ ReaderPlace(c)' /\ ConsumerPlace(c)' /\ OnlyOf(c)
    BY <2>1, <1>8, <1>9
  <2> QED BY <1>4, <1>5, <1>6, <1>7, <1>10, <2>2 DEF GetStrategy
<1>11. CASE ReadPriorityState(c)
  <2>1. /\ step[c] = "item" /\ UNCHANGED <<legacy, request, held>> /\ held[c] = <<>>
        /\ \/ Go(c, "length", "select", <<>>)
           \/ Go(c, "pop", "none", <<>>)
    BY <1>3, <1>11 DEF ReadPriorityState, ListRead, Read, redis, ConsumerPlace
  <2>2. ActorsTyped' /\ ReaderPlace(c)' /\ ConsumerPlace(c)' /\ OnlyOf(c)
    BY <2>1, <1>8, <1>9
  <2> QED BY <1>4, <1>5, <1>6, <1>7, <1>11, <2>2 DEF ReadPriorityState
<1>12. CASE NothingElevated(c)
  <2>1. /\ step[c] = "item" /\ UNCHANGED <<legacy, request, held>> /\ held[c] = <<>>
        /\ Go(c, "pop", "none", <<>>)
    BY <1>3, <1>12 DEF NothingElevated, ListRead, redis, ConsumerPlace
  <2>2. ActorsTyped' /\ ReaderPlace(c)' /\ ConsumerPlace(c)' /\ OnlyOf(c)
    BY <2>1, <1>8, <1>9
  <2> QED BY <1>4, <1>5, <1>6, <1>7, <1>12, <2>2 DEF NothingElevated
<1>13. CASE PopHighestPriority(c)
  <2>1. /\ step[c] = "item" /\ Go(c, "work", "none", <<>>) /\ UNCHANGED <<legacy, request>>
        /\ held' = [held EXCEPT ![c] = <<Selected(c)>>]
    BY <1>13 DEF PopHighestPriority, ListRead
  <2>2. Selected(c) \in Messages
    BY <1>1, <1>2, <1>13, SelectedTyped DEF PopHighestPriority
  <2>3. /\ held' \in [Consumers -> Seq(Messages)]
        /\ held'[c] = <<Selected(c)>> /\ \A d \in Consumers \ {c} : held'[d] = held[d]
    BY <1>2, <2>1, <2>2 DEF StoresTyped
  <2>4. ActorsTyped' /\ ReaderPlace(c)' /\ ConsumerPlace(c)' /\ OnlyOf(c)
    BY <2>1, <2>2, <2>3, <1>8, <1>9
  <2>5. StoresTyped'
    <3>1. Remove(list, Selected(c)) \in Seq(Messages)
      BY <1>2, <2>2, RemoveItems DEF StoresTyped
    <3> QED BY <1>2, <1>13, <2>3, <3>1 DEF PopHighestPriority, StoresTyped, mysql, request
  <2>6. BoundsTyped'
    <3>1. disturbed' \in [Actors -> BOOLEAN]
      BY <1>13, DisturbDoes DEF PopHighestPriority
    <3>2. Selected(c).unit \in Units
      BY <2>2 DEF Messages
    <3> QED BY <1>2, <1>13, <3>1, <3>2 DEF PopHighestPriority, BoundsTyped, bounds
  <2> QED BY <1>4, <2>4, <2>5, <2>6
<1>14. ASSUME NEW next \in {"work", "strategy", "item"}, step' = [step EXCEPT ![c] = next],
              UNCHANGED <<job, size, index, seen>>
       PROVE  /\ ActorsTyped' /\ step'[c] = next
              /\ \A b \in Actors \ {c} : step'[b] = step[b]
  <2>1. next \in Commands
    BY DEF Commands
  <2> QED BY <1>1, <1>2, <1>14, <2>1 DEF ActorsTyped
<1>15. CASE BlockingPop(c)
  <2>1. Head(list) \in Messages /\ Tail(list) \in Seq(Messages)
    BY <1>2, <1>15, TailItems DEF BlockingPop, StoresTyped
  <2>2. /\ held' \in [Consumers -> Seq(Messages)]
        /\ held'[c] = <<Head(list)>> /\ \A d \in Consumers \ {c} : held'[d] = held[d]
    BY <1>2, <1>15, <2>1 DEF BlockingPop, StoresTyped
  <2>3. ActorsTyped' /\ step'[c] = "work" /\ \A b \in Actors \ {c} : step'[b] = step[b]
    BY <1>14, <1>15 DEF BlockingPop, reads
  <2>4. OnlyOf(c) /\ ReaderPlace(c)' /\ ConsumerPlace(c)'
    BY <1>3, <1>15, <2>1, <2>2, <2>3
       DEF BlockingPop, OnlyOf, ReaderPlace, ConsumerPlace, reads, request
  <2>5. StoresTyped'
    BY <1>2, <1>15, <2>1, <2>2 DEF BlockingPop, StoresTyped, mysql, request
  <2>6. BoundsTyped'
    BY <1>6, <1>15, DisturbDoes DEF BlockingPop
  <2> QED BY <1>4, <2>3, <2>4, <2>5, <2>6
<1>16. CASE PopTimesOut(c)
  <2>1. ActorsTyped' /\ step'[c] = "strategy" /\ \A b \in Actors \ {c} : step'[b] = step[b]
    BY <1>14, <1>16 DEF PopTimesOut, reads
  <2>2. OnlyOf(c) /\ ReaderPlace(c)' /\ ConsumerPlace(c)'
    BY <1>3, <1>16, <2>1
       DEF PopTimesOut, OnlyOf, ReaderPlace, ConsumerPlace, reads, request, redis
  <2> QED BY <1>4, <1>5, <1>6, <1>7, <1>16, <2>1, <2>2 DEF PopTimesOut
<1>17. CASE WorkEnds(c)
  <2>1. /\ held' \in [Consumers -> Seq(Messages)]
        /\ held'[c] = <<>> /\ \A d \in Consumers \ {c} : held'[d] = held[d]
    BY <1>2, <1>3, <1>17 DEF WorkEnds, StoresTyped
  <2>2. ActorsTyped' /\ step'[c] = "strategy" /\ \A b \in Actors \ {c} : step'[b] = step[b]
    BY <1>14, <1>17 DEF WorkEnds, reads
  <2>3. OnlyOf(c) /\ ReaderPlace(c)' /\ ConsumerPlace(c)'
    BY <1>3, <1>17, <2>1, <2>2
       DEF WorkEnds, OnlyOf, ReaderPlace, ConsumerPlace, reads, request, redis
  <2>4. StoresTyped'
    BY <1>2, <1>17, <2>1 DEF WorkEnds, StoresTyped, redis, request
  <2> QED BY <1>4, <1>6, <1>7, <1>17, <2>2, <2>3, <2>4 DEF WorkEnds
<1>18. CASE Retry(c)
  <2>1. PICK m \in Messages : held[c] = <<m>>
    BY <1>3, <1>18 DEF Retry, ConsumerPlace
  <2>2. Requeued(m) \in Messages /\ held[c][1] = m
    <3>1. m.retry \in 0..Retries /\ m.retry < Retries /\ held[c][1] = m
      BY <1>18, <2>1 DEF Retry, Messages
    <3>2. m.retry + 1 \in 0..Retries
      BY <3>1, QueueAssumption
    <3> QED BY <3>1, <3>2 DEF Requeued, Messages
  <2>3. /\ held' \in [Consumers -> Seq(Messages)]
        /\ held'[c] = <<>> /\ \A d \in Consumers \ {c} : held'[d] = held[d]
    BY <1>2, <1>3, <1>18 DEF Retry, StoresTyped
  <2>4. ActorsTyped' /\ step'[c] = "strategy" /\ \A b \in Actors \ {c} : step'[b] = step[b]
    BY <1>14, <1>18 DEF Retry, reads
  <2>5. OnlyOf(c) /\ ReaderPlace(c)' /\ ConsumerPlace(c)'
    BY <1>3, <1>18, <2>3, <2>4
       DEF Retry, OnlyOf, ReaderPlace, ConsumerPlace, reads, request
  <2>6. StoresTyped'
    <3>1. Append(list, Requeued(m)) \in Seq(Messages)
      BY <1>2, <2>2, AppendItems DEF StoresTyped
    <3> QED BY <1>2, <1>18, <2>2, <2>3, <3>1 DEF Retry, StoresTyped, request
  <2>7. BoundsTyped'
    BY <1>6, <1>18, DisturbDoes DEF Retry
  <2> QED BY <1>4, <2>4, <2>5, <2>6, <2>7
<1>19. CASE ReadLength(c) \/ ReadItem(c)
  <2>1. /\ ShapeInv' /\ OnlyOf(c)
    BY <1>1, <1>19, ReadingKeepsShape
  <2> QED BY <2>1
<1> QED BY <1>10, <1>11, <1>12, <1>13, <1>15, <1>16, <1>17, <1>18, <1>19 DEF ConsumerStep

\* What a request's next command may be, and with what.
Allowed(r, next, purpose, messages) ==
  /\ next \in {"idle", "length", "delete", "push", "adjust", "clear_list", "clear_legacy"}
  /\ purpose \in (CASE next = "length" -> {"normalize", "collect", "update"}
                    [] next \in {"delete", "push"} -> {"normalize", "update"}
                    [] next = "adjust" -> {"update"}
                    [] OTHER -> {"none"})
  /\ messages \in Seq(Messages) /\ Distinct(messages)
  /\ next = "push" => messages # <<>> /\ legacy' = <<>>
  /\ next \notin {"delete", "push"} => messages = <<>>
  /\ purpose # "update" => targets'[r] = {}
  /\ purpose \in {"collect", "update"} => asked'[r] # Nobody
  /\ purpose = "none" => asked'[r] = Nobody

LEMMA RequestGoes ==
  ASSUME ActorsTyped, NEW r \in Requests, NEW next, NEW purpose, NEW messages,
         Allowed(r, next, purpose, messages), Go(r, next, purpose, messages)
  PROVE  /\ ActorsTyped' /\ RequestPlace(r)' /\ ReaderPlace(r)'
         /\ step'[r] = next /\ job'[r] = purpose /\ seen'[r] = messages
         /\ \A b \in Actors \ {r} : /\ step'[b] = step[b] /\ job'[b] = job[b] /\ seen'[b] = seen[b]
                                    /\ size'[b] = size[b] /\ index'[b] = index[b]
<1>1. next \in Commands /\ purpose \in Jobs /\ messages \in Seq(Messages) /\ r \in Actors
  BY NamesDiffer DEF Allowed, Commands, Jobs
<1>2. /\ ActorsTyped'
      /\ step'[r] = next /\ job'[r] = purpose /\ seen'[r] = messages
      /\ size'[r] = 0 /\ index'[r] = 0
      /\ \A b \in Actors \ {r} : /\ step'[b] = step[b] /\ job'[b] = job[b] /\ seen'[b] = seen[b]
                                 /\ size'[b] = size[b] /\ index'[b] = index[b]
  BY <1>1, GoDoes
<1>3. RequestPlace(r)'
  BY <1>2 DEF RequestPlace, Allowed
<1>4. ReaderPlace(r)'
  BY <1>2 DEF ReaderPlace, Allowed
<1> QED BY <1>2, <1>3, <1>4

\* A request's step gives it an allowed next command.
Goes(r) == \E next, purpose, messages :
             Allowed(r, next, purpose, messages) /\ Go(r, next, purpose, messages)

LEMMA AfterRewriteGoes ==
  ASSUME NEW r \in Requests, AfterRewrite(r), RequestPlace(r),
         step[r] \in {"delete_legacy", "push"}, asked'[r] = asked[r], targets'[r] = targets[r]
  PROVE  Goes(r)
<1>1. <<>> \in Seq(Messages) /\ Distinct(<<>>)
  BY EmptyIsDistinct
<1>2. /\ job[r] \in {"normalize", "update"}
      /\ job[r] # "update" => targets[r] = {}
      /\ job[r] = "update" => asked[r] # Nobody
  BY DEF RequestPlace
<1>3. CASE job[r] = "update"
  <2>1. Go(r, "adjust", "update", <<>>)
    BY <1>2, <1>3 DEF AfterRewrite
  <2>2. Allowed(r, "adjust", "update", <<>>)
    BY <1>1, <1>2, <1>3 DEF Allowed
  <2> QED BY <2>1, <2>2 DEF Goes
<1>4. CASE job[r] # "update" /\ asked[r] = Nobody
  <2>1. Go(r, "idle", "none", <<>>)
    BY <1>4 DEF AfterRewrite
  <2>2. Allowed(r, "idle", "none", <<>>)
    BY <1>1, <1>2, <1>4 DEF Allowed
  <2> QED BY <2>1, <2>2 DEF Goes
<1>5. CASE job[r] # "update" /\ asked[r] # Nobody
  <2>1. Go(r, "length", "collect", <<>>)
    BY <1>5 DEF AfterRewrite, Read
  <2>2. Allowed(r, "length", "collect", <<>>)
    BY <1>1, <1>2, <1>5 DEF Allowed
  <2> QED BY <2>1, <2>2 DEF Goes
<1> QED BY <1>3, <1>4, <1>5

LEMMA RequestKeepsShape ==
  ASSUME ShapeInv, NEW r \in Requests,
         RequestAct(r)
  PROVE  ShapeInv' /\ OnlyOf(r)
<1>1. r \in Actors /\ r \notin Consumers
  BY NamesDiffer
<1>2. ActorsTyped /\ StoresTyped /\ BoundsTyped /\ Shaped
  BY TypesSplit DEF ShapeInv
<1>3. /\ RequestPlace(r) /\ ReaderPlace(r)
      /\ <<>> \in Seq(Messages) /\ Distinct(<<>>)
  BY <1>1, <1>2, EmptyIsDistinct DEF Shaped
<1> DEFINE Stays == /\ \A c \in Consumers : held'[c] = held[c]
                    /\ \A q \in Requests \ {r} : asked'[q] = asked[q] /\ targets'[q] = targets[q]
                    /\ legacy' \in {legacy, <<>>}
<1>4. ASSUME Goes(r), Stays, StoresTyped', BoundsTyped'
      PROVE  ShapeInv' /\ OnlyOf(r)
  <2>1. PICK next, purpose, messages :
          Allowed(r, next, purpose, messages) /\ Go(r, next, purpose, messages)
    BY <1>4 DEF Goes
  <2>2. /\ ActorsTyped' /\ RequestPlace(r)' /\ ReaderPlace(r)'
        /\ \A b \in Actors \ {r} : /\ step'[b] = step[b] /\ job'[b] = job[b] /\ seen'[b] = seen[b]
                                   /\ size'[b] = size[b] /\ index'[b] = index[b]
    BY <1>2, <2>1, RequestGoes
  <2>3. OnlyOf(r)
    BY <1>1, <1>4, <2>2 DEF OnlyOf
  <2> QED BY <1>1, <1>2, <1>4, <2>2, <2>3, OthersShaped, TypesSplitNext DEF ShapeInv
<1>5. ASSUME UNCHANGED <<redis, mysql, held, targets>>, strategy' \in {"fifo", "priority"},
             DOMAIN asked' = Requests, \A q \in Requests : asked'[q] \in Asks(q),
             \A q \in Requests \ {r} : asked'[q] = asked[q]
      PROVE  StoresTyped' /\ Stays
  BY <1>2, <1>5 DEF StoresTyped, redis, mysql
<1>6. \A m \in 0..MaxRequests : m < MaxRequests => m + 1 \in 0..MaxRequests
  BY QueueAssumption
<1>7. CASE ViewProducts(r)
  <2>1. /\ UNCHANGED <<redis, strategy, mysql, held, asked, targets, failures, disturbed, raced, skewed>>
        /\ step[r] = "idle" /\ requested' = requested + 1 /\ requested < MaxRequests
        /\ Go(r, "length", "normalize", <<>>)
    BY <1>7 DEF ViewProducts, Accept, Read, request
  <2>2. asked[r] = Nobody /\ targets[r] = {}
    BY <1>3, <2>1 DEF RequestPlace
  <2>3. Allowed(r, "length", "normalize", <<>>)
    BY <1>3, <2>1, <2>2 DEF Allowed
  <2>4. BoundsTyped'
    BY <1>2, <1>6, <2>1 DEF BoundsTyped
  <2>5. StoresTyped' /\ Stays
    BY <1>2, <1>5, <2>1 DEF StoresTyped
  <2> QED BY <1>4, <2>1, <2>3, <2>4, <2>5 DEF Goes
<1>8. CASE ApplyPriority(r)
  <2>1. /\ UNCHANGED <<redis, mysql, held, targets, failures, disturbed, raced, skewed>>
        /\ step[r] = "idle" /\ requested' = requested + 1 /\ requested < MaxRequests
        /\ Go(r, "length", "normalize", <<>>)
    BY <1>8 DEF ApplyPriority, Accept, Read
  <2>2. PICK ask \in Asks(r) \ {Nobody} : /\ asked' = [asked EXCEPT ![r] = ask]
                                          /\ strategy' \in {"fifo", "priority"}
    BY <1>8 DEF ApplyPriority
  <2>3. targets[r] = {} /\ DOMAIN asked = Requests /\ \A q \in Requests : asked[q] \in Asks(q)
    BY <1>2, <1>3, <2>1 DEF RequestPlace, StoresTyped
  <2>4. Allowed(r, "length", "normalize", <<>>)
    BY <1>3, <2>1, <2>3 DEF Allowed
  <2>5. BoundsTyped'
    BY <1>2, <1>6, <2>1 DEF BoundsTyped
  <2>6. /\ \A q \in Requests \ {r} : asked'[q] = asked[q]
        /\ asked'[r] \in Asks(r)
    BY <2>2, <2>3
  <2>7. StoresTyped' /\ Stays
    BY <1>5, <2>1, <2>2, <2>3, <2>6
  <2> QED BY <1>4, <2>1, <2>4, <2>5, <2>7 DEF Goes
<1>9. CASE ClearLength(r)
  <2>1. /\ UNCHANGED <<redis, strategy, mysql, held, asked, targets, failures, disturbed, raced, skewed>>
        /\ step[r] = "idle" /\ requested' = requested + 1 /\ requested < MaxRequests
    BY <1>9 DEF ClearLength, Accept, request
  <2>2. PICK next \in {"clear_legacy", "clear_list"} : Go(r, next, "none", <<>>)
    BY <1>9 DEF ClearLength
  <2>3. asked[r] = Nobody /\ targets[r] = {}
    BY <1>3, <2>1 DEF RequestPlace
  <2>4. Allowed(r, next, "none", <<>>)
    BY <1>3, <2>1, <2>3 DEF Allowed
  <2>5. BoundsTyped'
    BY <1>2, <1>6, <2>1 DEF BoundsTyped
  <2>6. StoresTyped' /\ Stays
    BY <1>2, <1>5, <2>1 DEF StoresTyped
  <2> QED BY <1>4, <2>2, <2>4, <2>5, <2>6 DEF Goes
<1>10. CASE ReadForNormalize(r)
  <2>1. /\ UNCHANGED <<redis, strategy, mysql, held, request, bounds, disturbed, raced, skewed>>
        /\ step[r] = "item" /\ job[r] = "normalize"
        /\ Go(r, "delete", "normalize", QueueRead(r))
    BY <1>10 DEF ReadForNormalize, ListRead
  <2>2. QueueRead(r) \in Seq(Messages) /\ Distinct(QueueRead(r))
    BY <1>1, <1>2, QueueReadTyped
  <2>3. targets'[r] = {}
    BY <1>3, <2>1 DEF RequestPlace, request
  <2>4. Allowed(r, "delete", "normalize", QueueRead(r))
    BY <2>2, <2>3 DEF Allowed
  <2>5. BoundsTyped' /\ StoresTyped' /\ Stays
    BY <1>2, <2>1 DEF BoundsTyped, StoresTyped, bounds, redis, mysql, request
  <2> QED BY <1>4, <2>1, <2>4, <2>5 DEF Goes
<1>11. CASE CollectTasks(r)
  <2>1. /\ UNCHANGED <<redis, strategy, mysql, held, bounds, raced, skewed>>
        /\ step[r] = "item" /\ job[r] = "collect"
        /\ targets' = [targets EXCEPT ![r] = QueuedTasks(r)]
        /\ disturbed' = [disturbed EXCEPT ![r] = FALSE]
    BY <1>11 DEF CollectTasks, ListRead
  <2>2. QueuedTasks(r) \in SUBSET Tasks
    <3>1. UnitsIn(QueueRead(r)) \subseteq Units
      BY <1>1, <1>2, QueueReadTyped, TypedItems
    <3>2. TaskOf \in [Units -> Tasks]
      BY QueueAssumption
    <3> QED BY <3>1, <3>2 DEF QueuedTasks
  <2>3. targets' \in [Requests -> SUBSET Tasks] /\ targets'[r] = QueuedTasks(r)
        /\ \A q \in Requests \ {r} : targets'[q] = targets[q]
    BY <1>2, <2>1, <2>2 DEF StoresTyped
  <2>4. BoundsTyped'
    BY <1>2, <2>1 DEF BoundsTyped, bounds
  <2>5. asked[r] # Nobody
    BY <1>3, <2>1 DEF RequestPlace
  <2>6. CASE QueuedTasks(r) = {}
    <3>1. Go(r, "idle", "none", <<>>) /\ asked' = [asked EXCEPT ![r] = Nobody]
      BY <1>11, <2>6 DEF CollectTasks
    <3>2. /\ DOMAIN asked' = Requests /\ asked'[r] = Nobody
          /\ \A q \in Requests \ {r} : asked'[q] = asked[q]
      BY <1>2, <3>1 DEF StoresTyped
    <3>3. Nobody \in Asks(r)
      BY DEF Asks
    <3>4. Allowed(r, "idle", "none", <<>>)
      BY <1>3, <2>3, <2>6, <3>2 DEF Allowed
    <3>5. StoresTyped' /\ Stays
      BY <1>2, <2>1, <2>3, <3>2, <3>3 DEF StoresTyped, redis, mysql
    <3> QED BY <1>4, <2>4, <3>1, <3>4, <3>5 DEF Goes
  <2>7. CASE QueuedTasks(r) # {}
    <3>1. Go(r, "length", "update", <<>>) /\ UNCHANGED asked
      BY <1>11, <2>7 DEF CollectTasks, Read
    <3>2. Allowed(r, "length", "update", <<>>)
      BY <1>3, <2>5, <3>1 DEF Allowed
    <3>3. StoresTyped' /\ Stays
      BY <1>2, <2>1, <2>3, <3>1 DEF StoresTyped, redis, mysql
    <3> QED BY <1>4, <2>4, <3>1, <3>2, <3>3 DEF Goes
  <2> QED BY <2>6, <2>7
<1>12. CASE ReadForUpdate(r)
  <2>1. /\ UNCHANGED <<redis, strategy, mysql, held, request, bounds, raced>>
        /\ step[r] = "item" /\ job[r] = "update"
        /\ skewed' = skewed \cup OutOfReach(r)
        /\ disturbed' = [disturbed EXCEPT ![r] = disturbed[r] /\ step'[r] = "delete"]
    BY <1>12 DEF ReadForUpdate, ListRead
  <2>2. asked[r] # Nobody /\ asked'[r] # Nobody /\ asked[r].action \in {"raise", "lower", "reset"}
    <3>1. asked[r] # Nobody /\ asked[r] \in Asks(r)
      BY <1>2, <1>3, <2>1 DEF RequestPlace, StoresTyped
    <3> QED BY <2>1, <3>1, AskedActions DEF request
  <2>3. QueueRead(r) \in Seq(Messages) /\ Distinct(QueueRead(r))
    BY <1>1, <1>2, QueueReadTyped
  <2> DEFINE new == Reprioritised(QueueRead(r), targets[r], asked[r].action)
  <2>4. new \in Seq(Messages) /\ Distinct(new)
    BY <2>2, <2>3, ReprioritisedItems
  <2>5. Go(r, "adjust", "update", <<>>) \/ Go(r, "delete", "update", new)
    BY <1>12 DEF ReadForUpdate
  <2> HIDE DEF new
  <2>6. Allowed(r, "adjust", "update", <<>>) /\ Allowed(r, "delete", "update", new)
    BY <1>3, <2>2, <2>4 DEF Allowed
  <2>7. BoundsTyped'
    <3>1. OutOfReach(r) \subseteq Units
      BY DEF OutOfReach
    <3>2. (disturbed[r] /\ step'[r] = "delete") \in BOOLEAN
      OBVIOUS
    <3>3. disturbed' \in [Actors -> BOOLEAN]
      BY <1>2, <2>1, <3>2 DEF BoundsTyped
    <3> QED BY <1>2, <2>1, <3>1, <3>3 DEF BoundsTyped, bounds
  <2>8. StoresTyped' /\ Stays
    BY <1>2, <2>1 DEF StoresTyped, redis, mysql, request
  <2> QED BY <1>4, <2>5, <2>6, <2>7, <2>8 DEF Goes
<1>13. CASE DeleteLegacy(r) \/ PushBack(r)
  <2>1. /\ step[r] \in {"delete_legacy", "push"} /\ UNCHANGED <<strategy, mysql, held, request, bounds, raced, skewed>>
        /\ Disturb(r) /\ legacy' \in {legacy, <<>>}
    BY <1>13 DEF DeleteLegacy, PushBack
  <2>2. /\ job[r] \in {"normalize", "update"}
        /\ job[r] # "update" => targets'[r] = {}
        /\ job[r] = "update" => asked'[r] # Nobody
        /\ asked'[r] = asked[r] /\ targets'[r] = targets[r]
        /\ seen[r] \in Seq(Messages) /\ Distinct(seen[r])
    BY <1>1, <1>2, <1>3, <2>1 DEF RequestPlace, request, ActorsTyped
  <2>3. Goes(r) /\ list' \in Seq(Messages)
    <3>1. CASE DeleteLegacy(r)
      <4>1. CASE seen[r] = <<>>
        BY <1>2, <1>3, <2>1, <2>2, <3>1, <4>1, AfterRewriteGoes DEF DeleteLegacy, StoresTyped
      <4>2. CASE seen[r] # <<>>
        <5>1. Go(r, "push", job[r], seen[r]) /\ legacy' = <<>> /\ list' = list
          BY <3>1, <4>2 DEF DeleteLegacy
        <5>2. Allowed(r, "push", job[r], seen[r])
          BY <2>2, <4>2, <5>1 DEF Allowed
        <5> QED BY <1>2, <5>1, <5>2 DEF Goes, StoresTyped
      <4> QED BY <4>1, <4>2
    <3>2. CASE PushBack(r)
      <4>1. seen[r] # <<>> /\ legacy = <<>> /\ legacy' = legacy
        BY <1>3, <3>2 DEF PushBack, RequestPlace
      <4>2. Head(seen[r]) \in Messages /\ Tail(seen[r]) \in Seq(Messages) /\ Distinct(Tail(seen[r]))
        BY <2>2, <4>1, TailItems
      <4>3. list' \in Seq(Messages)
        BY <1>2, <3>2, <4>2, AppendItems DEF PushBack, StoresTyped
      <4>4. CASE Tail(seen[r]) = <<>>
        BY <1>3, <2>1, <2>2, <3>2, <4>3, <4>4, AfterRewriteGoes DEF PushBack
      <4>5. CASE Tail(seen[r]) # <<>>
        <5>1. Go(r, "push", job[r], Tail(seen[r]))
          BY <3>2, <4>5 DEF PushBack
        <5>2. Allowed(r, "push", job[r], Tail(seen[r]))
          BY <2>2, <4>1, <4>2, <4>5 DEF Allowed
        <5> QED BY <4>3, <5>1, <5>2 DEF Goes
      <4> QED BY <4>4, <4>5
    <3> QED BY <1>13, <3>1, <3>2
  <2>4. BoundsTyped'
    BY <1>2, <2>1, DisturbDoes DEF BoundsTyped, bounds
  <2>5. StoresTyped' /\ Stays
    BY <1>2, <1>3, <2>1, <2>3 DEF StoresTyped, mysql, request
  <2> QED BY <1>4, <2>3, <2>4, <2>5
<1>14. ASSUME asked' = [asked EXCEPT ![r] = Nobody], targets' = [targets EXCEPT ![r] = {}],
              Go(r, "idle", "none", <<>>), UNCHANGED <<redis, strategy, stage, held>>,
              rowPriority' \in [Units -> Priorities]
       PROVE  Goes(r) /\ StoresTyped' /\ Stays
  <2>1. /\ DOMAIN asked' = Requests /\ asked'[r] = Nobody
        /\ \A q \in Requests \ {r} : asked'[q] = asked[q] /\ targets'[q] = targets[q]
        /\ targets' \in [Requests -> SUBSET Tasks] /\ targets'[r] = {}
    BY <1>2, <1>14 DEF StoresTyped
  <2>2. Nobody \in Asks(r)
    BY DEF Asks
  <2>3. Allowed(r, "idle", "none", <<>>)
    BY <1>3, <2>1 DEF Allowed
  <2>4. Goes(r)
    BY <1>14, <2>3 DEF Goes
  <2>5. StoresTyped' /\ Stays
    BY <1>2, <1>14, <2>1, <2>2 DEF StoresTyped, redis
  <2> QED BY <2>4, <2>5
<1>15. CASE AdjustRows(r)
  <2>1. /\ step[r] = "adjust" /\ UNCHANGED <<bounds, disturbed, raced, skewed>>
        /\ rowPriority' = [u \in Units |->
              IF Adjustable(u, r) THEN Adjusted(rowPriority[u], asked[r].action) ELSE rowPriority[u]]
    BY <1>15 DEF AdjustRows
  <2>2. asked[r].action \in {"raise", "lower", "reset"}
    <3>1. asked[r] # Nobody /\ asked[r] \in Asks(r)
      BY <1>2, <1>3, <2>1 DEF RequestPlace, StoresTyped
    <3> QED BY <3>1, AskedActions
  <2>3. \A u \in Units : rowPriority[u] \in Priorities
                         /\ Adjusted(rowPriority[u], asked[r].action) \in Priorities
    BY <1>2, <2>2, AdjustedTyped DEF StoresTyped
  <2>4. rowPriority' \in [Units -> Priorities]
    BY <2>1, <2>3
  <2>5. Goes(r) /\ StoresTyped' /\ Stays
    BY <1>14, <1>15, <2>4 DEF AdjustRows
  <2>6. BoundsTyped'
    BY <1>2, <2>1 DEF BoundsTyped, bounds
  <2> QED BY <1>4, <2>5, <2>6
<1>16. CASE RequestFails(r)
  <2>1. /\ failures < MaxFailures /\ failures' = failures + 1
        /\ raced' \in {raced, raced \cup UnitsIn(seen[r])}
        /\ skewed' \in {skewed, skewed \cup {u \in Units : TaskOf[u] \in targets[r]}}
        /\ disturbed' = [disturbed EXCEPT ![r] = FALSE]
        /\ UNCHANGED <<redis, strategy, mysql, held, requested>>
    BY <1>16 DEF RequestFails
  <2>2. failures' \in 0..MaxFailures
    BY <1>2, <2>1, QueueAssumption DEF BoundsTyped
  <2>3. UnitsIn(seen[r]) \subseteq Units
    BY <1>1, <1>2, TypedItems DEF ActorsTyped
  <2>4. BoundsTyped'
    BY <1>2, <2>1, <2>2, <2>3 DEF BoundsTyped
  <2>5. Goes(r) /\ StoresTyped' /\ Stays
    BY <1>2, <1>14, <1>16, <2>1 DEF RequestFails, mysql, StoresTyped
  <2> QED BY <1>4, <2>4, <2>5
<1>17. CASE ReadLength(r) \/ ReadItem(r)
  BY <1>1, <1>17, ReadingKeepsShape
<1>18. CASE DeleteList(r) \/ ClearList(r) \/ ClearLegacy(r)
  <2>1. /\ UNCHANGED <<strategy, mysql, job, size, index, seen, held, asked, targets, bounds>>
        /\ Disturb(r) /\ legacy' \in {legacy, <<>>} /\ list' \in {list, <<>>}
        /\ raced' \subseteq raced \cup Units /\ skewed' \subseteq skewed \cup UnitsIn(seen[r])
    <3>1. UnitsIn(list) \subseteq Units /\ UnitsIn(legacy) \subseteq Units
      BY <1>2, TypedItems DEF StoresTyped
    <3> QED BY <1>18, <3>1 DEF DeleteList, ClearList, ClearLegacy, reads, request
  <2>2. PICK next \in {"delete_legacy", "clear_legacy", "idle"} :
          /\ step' = [step EXCEPT ![r] = next]
          /\ next = "delete_legacy" => step[r] = "delete"
          /\ next # "delete_legacy" => step[r] \in {"clear_list", "clear_legacy"}
    BY <1>18 DEF DeleteList, ClearList, ClearLegacy
  <2>3. ActorsTyped' /\ step'[r] = next /\ \A b \in Actors \ {r} : step'[b] = step[b]
    BY <1>1, <1>2, <2>1, <2>2 DEF ActorsTyped, Commands
  <2>4. UnitsIn(seen[r]) \subseteq Units
    BY <1>1, <1>2, TypedItems DEF ActorsTyped
  <2>5. StoresTyped'
    BY <1>2, <1>3, <2>1 DEF StoresTyped, mysql
  <2>6. BoundsTyped'
    BY <1>2, <2>1, <2>4, DisturbDoes DEF BoundsTyped, bounds
  <2>7. OnlyOf(r)
    BY <2>1, <2>3 DEF OnlyOf
  <2>8. RequestPlace(r)' /\ ReaderPlace(r)'
    BY <1>3, <2>1, <2>2, <2>3 DEF RequestPlace, ReaderPlace
  <2> QED BY <1>1, <1>2, <2>3, <2>5, <2>6, <2>7, <2>8, OthersShaped, TypesSplitNext DEF ShapeInv
<1> QED
  BY <1>7, <1>8, <1>9, <1>10, <1>11, <1>12, <1>13, <1>15, <1>16, <1>17, <1>18 DEF RequestAct, RequestStep

\* Creating, publishing and choosing the strategy move no actor.
LEMMA OthersKeepShape ==
  ASSUME ShapeInv, OtherAct
  PROVE  ShapeInv' /\ OnlyOf("dispatcher")
<1>1. ActorsTyped /\ StoresTyped /\ BoundsTyped /\ Shaped
  BY TypesSplit DEF ShapeInv
<1>2. UNCHANGED <<legacy, step, job, size, index, seen, held, asked, targets>>
  BY DEF OtherAct, SetStrategy, CreateRow, ExpandAgain, CreateTask, InsertAgain, PushNew, redis,
         reads, request
<1>3. OnlyOf("dispatcher")
  BY <1>2 DEF OnlyOf
<1>4. ActorsTyped'
  BY <1>1, <1>2 DEF ActorsTyped
<1>5. StoresTyped' /\ BoundsTyped'
  <2>1. CASE SetStrategy
    <3>1. requested' \in 0..MaxRequests
      BY <1>1, <2>1, QueueAssumption DEF SetStrategy, BoundsTyped
    <3> QED BY <1>1, <1>2, <2>1, <3>1 DEF SetStrategy, StoresTyped, BoundsTyped, redis, mysql
  <2>2. ASSUME NEW u \in Units, CreateRow(u)
        PROVE  StoresTyped' /\ BoundsTyped'
    BY <1>1, <1>2, <2>2 DEF CreateRow, StoresTyped, BoundsTyped, redis, bounds
  <2>3. ASSUME NEW u \in Units, PushNew(u)
        PROVE  StoresTyped' /\ BoundsTyped'
    <3>1. [unit |-> u, priority |-> Given[u], retry |-> 0] \in Messages
      BY QueueAssumption DEF Messages
    <3>2. list' \in Seq(Messages)
      BY <1>1, <2>3, <3>1 DEF PushNew, StoresTyped
    <3>3. disturbed' \in [Actors -> BOOLEAN]
      BY <2>3, DisturbDoes DEF PushNew
    <3> QED BY <1>1, <1>2, <2>3, <3>2, <3>3 DEF PushNew, StoresTyped, BoundsTyped, bounds
  <2>4. ASSUME NEW u \in Units, InsertsAgain(u)
        PROVE  StoresTyped' /\ BoundsTyped'
    <3>1. PICK priority \in Priorities : InsertAgain(u, priority)
      BY <2>4, QueueAssumption DEF InsertsAgain, ExpandAgain, CreateTask
    <3>2. rowPriority' \in [Units -> Priorities]
      BY <1>1, <3>1 DEF InsertAgain, StoresTyped
    <3>3. requested' \in 0..MaxRequests
      BY <1>1, <2>4, QueueAssumption DEF InsertsAgain, ExpandAgain, CreateTask, BoundsTyped
    <3>4. skewed' \subseteq Units
      BY <1>1, <3>1 DEF InsertAgain, BoundsTyped
    <3> QED BY <1>1, <1>2, <3>1, <3>2, <3>3, <3>4 DEF InsertAgain, StoresTyped, BoundsTyped, redis
  <2> QED BY <2>1, <2>2, <2>3, <2>4 DEF OtherAct, InsertsAgain
<1> QED BY <1>1, <1>3, <1>4, <1>5, NamesDiffer, OthersShaped, TypesSplitNext DEF ShapeInv, Actors

-----------------------------------------------------------------------------
(* An undisturbed read shows the queue as it is.                           *)

Reads(a) == ReadLength(a) \/ ReadItem(a)
Chooses(r) == ReadForNormalize(r) \/ ReadForUpdate(r)

\* A step either leaves the queue alone or tells the readers.
Tells(a) ==
  \/ Disturb(a)
  \/ UNCHANGED <<list, legacy>> /\ \A b \in Actors \ {a} : disturbed'[b] = disturbed[b]

LEMMA EveryStepTells ==
  ASSUME ShapeInv
  PROVE  /\ \A c \in Consumers : ConsumerStep(c) => Tells(c)
         /\ \A r \in Requests : RequestAct(r) => Tells(r)
         /\ OtherAct => Tells("dispatcher")
<1>1. disturbed \in [Actors -> BOOLEAN]
  BY DEF ShapeInv, QueueTypeOK
<1>2. ASSUME NEW a \in Actors, NEW v, disturbed' = [disturbed EXCEPT ![a] = v]
      PROVE  \A b \in Actors \ {a} : disturbed'[b] = disturbed[b]
  BY <1>1, <1>2
<1>3. ASSUME NEW c \in Consumers, ConsumerStep(c)
      PROVE  Tells(c)
  <2>1. c \in Actors
    BY NamesDiffer
  <2>2. CASE BlockingPop(c) \/ PopHighestPriority(c) \/ Retry(c)
    BY <2>2 DEF BlockingPop, PopHighestPriority, Retry, Tells
  <2>3. CASE GetStrategy(c) \/ ReadItem(c) \/ PopTimesOut(c) \/ WorkEnds(c)
    BY <2>3 DEF GetStrategy, ReadItem, PopTimesOut, WorkEnds, Tells, redis
  <2>4. CASE ReadLength(c) \/ ReadPriorityState(c) \/ NothingElevated(c)
    <3>1. UNCHANGED <<list, legacy>> /\ disturbed' = [disturbed EXCEPT ![c] = FALSE]
      BY <2>4 DEF ReadLength, ReadPriorityState, NothingElevated, redis
    <3> QED BY <1>2, <2>1, <3>1 DEF Tells
  <2> QED BY <1>3, <2>2, <2>3, <2>4 DEF ConsumerStep
<1>4. ASSUME NEW r \in Requests, RequestAct(r)
      PROVE  Tells(r)
  <2>1. r \in Actors
    BY NamesDiffer
  <2>2. CASE DeleteList(r) \/ DeleteLegacy(r) \/ PushBack(r) \/ ClearList(r) \/ ClearLegacy(r)
    BY <2>2 DEF DeleteList, DeleteLegacy, PushBack, ClearList, ClearLegacy, Tells
  <2>3. CASE ViewProducts(r) \/ ApplyPriority(r) \/ ClearLength(r) \/ ReadItem(r)
             \/ ReadForNormalize(r) \/ AdjustRows(r)
    BY <2>3 DEF ViewProducts, ApplyPriority, ClearLength, ReadItem, ReadForNormalize, AdjustRows,
                Tells, redis
  <2>4. CASE ReadLength(r) \/ CollectTasks(r) \/ RequestFails(r)
    <3>1. UNCHANGED <<list, legacy>> /\ disturbed' = [disturbed EXCEPT ![r] = FALSE]
      BY <2>4 DEF ReadLength, CollectTasks, RequestFails, redis
    <3> QED BY <1>2, <2>1, <3>1 DEF Tells
  <2>5. CASE ReadForUpdate(r)
    <3>1. /\ UNCHANGED <<list, legacy>>
          /\ disturbed' = [disturbed EXCEPT ![r] = disturbed[r] /\ step'[r] = "delete"]
      BY <2>5 DEF ReadForUpdate, redis
    <3>2. \A b \in Actors \ {r} : disturbed'[b] = disturbed[b]
      BY <1>1, <3>1
    <3> QED BY <3>1, <3>2 DEF Tells
  <2> QED BY <1>4, <2>2, <2>3, <2>4, <2>5 DEF RequestAct, RequestStep
<1>5. ASSUME OtherAct
      PROVE  Tells("dispatcher")
  BY <1>5 DEF OtherAct, SetStrategy, CreateRow, ExpandAgain, CreateTask, InsertAgain, PushNew, Tells,
              redis
<1> QED BY <1>3, <1>4, <1>5

LEMMA OthersCurrent ==
  ASSUME ShapeInv, ReadsAreCurrent, NEW a, OnlyOf(a), Tells(a),
         a \in Actors => ReadIsCurrent(a)'
  PROVE  ReadsAreCurrent'
<1> SUFFICES ASSUME NEW b \in Actors, b # a
             PROVE  ReadIsCurrent(b)'
  BY DEF ReadsAreCurrent
<1>1. /\ step'[b] = step[b] /\ job'[b] = job[b] /\ seen'[b] = seen[b]
      /\ size'[b] = size[b] /\ index'[b] = index[b]
  BY DEF OnlyOf
<1>2. ReadIsCurrent(b)
  BY DEF ReadsAreCurrent
<1>3. CASE UNCHANGED <<list, legacy>> /\ disturbed'[b] = disturbed[b]
  BY <1>1, <1>2, <1>3 DEF ReadIsCurrent
<1>4. CASE Disturb(a)
  <2>1. disturbed'[b] \/ ~MayOutdate(b)
    BY <1>4, DisturbDoes
  <2>2. step[b] = "delete" => job[b] \in {"normalize", "update"}
    BY DEF ShapeInv, Shaped, Actors, ConsumerPlace, RequestPlace
  <2> QED BY <1>1, <2>1, <2>2 DEF ReadIsCurrent, MayOutdate
<1> QED BY <1>3, <1>4 DEF Tells

\* Only a read, or the choice of what to push back, leaves an actor reading.
LEMMA OnlyReadersRead ==
  ASSUME ShapeInv
  PROVE  /\ \A c \in Consumers : ConsumerStep(c) /\ ~Reads(c) => step'[c] \notin {"item", "delete"}
         /\ \A r \in Requests : RequestAct(r) /\ ~Reads(r) /\ ~Chooses(r) =>
                                  step'[r] \notin {"item", "delete"}
<1>1. step \in [Actors -> Commands] /\ Consumers \subseteq Actors /\ Requests \subseteq Actors
  BY NamesDiffer DEF ShapeInv, QueueTypeOK
<1>2. ASSUME NEW c \in Consumers, ConsumerStep(c), ~Reads(c)
      PROVE  step'[c] \notin {"item", "delete"}
  <2>1. \E next \in {"length", "pop", "work", "strategy"} : step' = [step EXCEPT ![c] = next]
    BY <1>2 DEF ConsumerStep, Reads, GetStrategy, ReadPriorityState, PopHighestPriority, NothingElevated,
                BlockingPop, PopTimesOut, WorkEnds, Retry, Read, Go
  <2> QED BY <1>1, <2>1
<1>3. ASSUME NEW r \in Requests, RequestAct(r), ~Reads(r), ~Chooses(r)
      PROVE  step'[r] \notin {"item", "delete"}
  <2>1. AfterRewrite(r) => \E next \in {"adjust", "idle", "length"} : step' = [step EXCEPT ![r] = next]
    BY DEF AfterRewrite, Read, Go
  <2>2. \E next \in {"length", "idle", "adjust", "push", "delete_legacy", "clear_list", "clear_legacy"} :
          step' = [step EXCEPT ![r] = next]
    BY <1>3, <2>1 DEF RequestAct, RequestFails, ViewProducts, ApplyPriority, ClearLength, RequestStep, Reads,
         Chooses,         CollectTasks, DeleteList, DeleteLegacy, PushBack, AdjustRows, ClearList, ClearLegacy, Read, Go
  <2> QED BY <1>1, <2>2
<1> QED BY <1>2, <1>3

\* A read that nobody disturbs sees the list place by place.
LEMMA ReadingKeepsCurrent ==
  ASSUME ShapeInv, ReadsAreCurrent, NEW a \in Actors, Reads(a)
  PROVE  ReadIsCurrent(a)'
<1>1. /\ list \in Seq(Messages) /\ ActorsTyped /\ ReaderPlace(a) /\ ReadIsCurrent(a)
      /\ disturbed \in [Actors -> BOOLEAN]
  BY TypesSplit DEF ShapeInv, Shaped, StoresTyped, BoundsTyped, ReadsAreCurrent
<1>2. CASE ReadLength(a)
  <2>1. /\ step'[a] = "item" /\ size'[a] = Len(list) /\ index'[a] = 0 /\ seen'[a] = <<>> /\ list' = list
    BY <1>1, <1>2 DEF ReadLength, ActorsTyped, ReaderPlace, redis
  <2> QED BY <2>1 DEF ReadIsCurrent
<1>3. CASE ReadItem(a)
  <2>1. /\ step[a] = "item" /\ UNCHANGED <<list, step, job, size, disturbed>>
        /\ index'[a] = index[a] + 1 /\ index[a] < size[a] /\ index[a] \in Nat
        /\ seen'[a] = IF index[a] < Len(list) THEN Append(seen[a], list[index[a] + 1]) ELSE seen[a]
        /\ seen[a] \in Seq(Messages)
    BY <1>1, <1>3 DEF ReadItem, ActorsTyped, redis
  <2> SUFFICES ASSUME ~disturbed[a], job[a] \in {"select", "normalize", "update"}
               PROVE  /\ size[a] = Len(list)
                      /\ Len(seen'[a]) = index[a] + 1
                      /\ \A i \in 1..(index[a] + 1) : seen'[a][i] = list[i]
    BY <2>1 DEF ReadIsCurrent
  <2>2. /\ size[a] = Len(list) /\ Len(seen[a]) = index[a]
        /\ \A i \in 1..index[a] : seen[a][i] = list[i]
    BY <1>1, <2>1 DEF ReadIsCurrent
  <2>3. seen'[a] = Append(seen[a], list[index[a] + 1])
    BY <2>1, <2>2
  <2> DEFINE t == seen[a]
             m == list[index[a] + 1]
  <2>4. Len(Append(t, m)) = index[a] + 1 /\ Append(t, m)[index[a] + 1] = m
        /\ \A i \in 1..index[a] : Append(t, m)[i] = t[i]
    BY <2>1, <2>2
  <2> HIDE DEF t, m
  <2>5. \A i \in 1..(index[a] + 1) : i \in 1..index[a] \/ i = index[a] + 1
    BY <2>1
  <2> QED BY <2>2, <2>3, <2>4, <2>5 DEF t, m
<1> QED BY <1>2, <1>3 DEF Reads

\* What an undisturbed reader of the whole list has seen is the list.
LEMMA CurrentReadIsList ==
  ASSUME ShapeInv, ReadsAreCurrent, NEW a \in Actors, ListRead(a), ~disturbed[a],
         job[a] \in {"select", "normalize", "update"}
  PROVE  seen[a] = list
<1>1. /\ list \in Seq(Messages) /\ seen[a] \in Seq(Messages)
      /\ Len(seen[a]) = Len(list) /\ \A i \in 1..Len(list) : seen[a][i] = list[i]
  BY TypesSplit DEF ShapeInv, StoresTyped, ActorsTyped, ReadsAreCurrent, ReadIsCurrent, ListRead
<1> QED BY <1>1, SameItems

\* So a request that goes on to rewrite the queue has all of its units.
LEMMA ChoosingKeepsCurrent ==
  ASSUME ShapeInv, ReadsAreCurrent, NEW r \in Requests, Chooses(r)
  PROVE  ReadIsCurrent(r)'
<1>1. /\ r \in Actors /\ ActorsTyped /\ StoresTyped /\ RequestPlace(r)
      /\ disturbed \in [Actors -> BOOLEAN]
  BY TypesSplit, NamesDiffer DEF ShapeInv, Shaped, BoundsTyped
<1>2. ListRead(r) /\ job[r] \in {"normalize", "update"} /\ UNCHANGED <<list, legacy>>
  BY DEF Chooses, ReadForNormalize, ReadForUpdate, redis
<1>3. ~disturbed[r] => UnitsIn(QueueRead(r)) = UnitsIn(list) \cup UnitsIn(legacy)
  BY <1>1, <1>2, CurrentReadIsList, QueueReadTyped
<1>4. CASE ReadForNormalize(r)
  <2>1. Go(r, "delete", "normalize", QueueRead(r)) /\ UNCHANGED disturbed
    BY <1>4 DEF ReadForNormalize
  <2>2. step'[r] = "delete" /\ seen'[r] = QueueRead(r)
    BY <1>1, <2>1 DEF Go, ActorsTyped
  <2> QED BY <1>2, <1>3, <2>1, <2>2 DEF ReadIsCurrent
<1>5. CASE ReadForUpdate(r)
  <2> DEFINE new == Reprioritised(QueueRead(r), targets[r], asked[r].action)
  <2>1. Go(r, "adjust", "update", <<>>) \/ Go(r, "delete", "update", new)
    BY <1>5 DEF ReadForUpdate
  <2>2. UnitsIn(new) = UnitsIn(QueueRead(r))
    <3>1. asked[r].action \in {"raise", "lower", "reset"}
      BY <1>1, <1>5, AskedActions DEF ReadForUpdate, RequestPlace, StoresTyped
    <3>2. QueueRead(r) \in Seq(Messages)
      BY <1>1, QueueReadTyped
    <3> QED BY <3>1, <3>2, ReprioritisedItems
  <2> HIDE DEF new
  <2>3. CASE Go(r, "adjust", "update", <<>>)
    <3>1. step'[r] = "adjust"
      BY <1>1, <2>3 DEF Go, ActorsTyped
    <3> QED BY <3>1 DEF ReadIsCurrent
  <2>4. CASE Go(r, "delete", "update", new)
    <3>1. step'[r] = "delete" /\ seen'[r] = new
      BY <1>1, <2>4 DEF Go, ActorsTyped
    <3>2. disturbed'[r] = (disturbed[r] /\ step'[r] = "delete")
      BY <1>1, <1>5 DEF ReadForUpdate
    <3> QED BY <1>2, <1>3, <2>2, <3>1, <3>2 DEF ReadIsCurrent
  <2> QED BY <2>1, <2>3, <2>4
<1> QED BY <1>4, <1>5 DEF Chooses

\* Both parts of the invariant are kept by every step.
CurrentInv == ShapeInv /\ ReadsAreCurrent

LEMMA CurrentInit == QueueInit => CurrentInv
<1> SUFFICES ASSUME QueueInit
             PROVE  CurrentInv
  OBVIOUS
<1>1. step \in [Actors -> {"strategy", "idle"}]
  BY DEF QueueInit, Actors
<1>2. ReadsAreCurrent
  BY <1>1 DEF ReadsAreCurrent, ReadIsCurrent
<1> QED BY <1>2, ShapeInit DEF CurrentInv

LEMMA CurrentKept ==
  ASSUME CurrentInv, [QueueNext]_queueVars
  PROVE  CurrentInv'
<1>1. ShapeInv /\ ReadsAreCurrent
  BY DEF CurrentInv
<1>2. ASSUME NEW c \in Consumers, ConsumerStep(c)
      PROVE  CurrentInv'
  <2>1. ShapeInv' /\ OnlyOf(c) /\ Tells(c) /\ c \in Actors
    BY <1>1, <1>2, ConsumerKeepsShape, EveryStepTells, NamesDiffer
  <2>2. ReadIsCurrent(c)'
    <3>1. CASE Reads(c)
      BY <1>1, <2>1, <3>1, ReadingKeepsCurrent
    <3>2. CASE ~Reads(c)
      <4>1. step'[c] \notin {"item", "delete"}
        BY <1>1, <1>2, <3>2, OnlyReadersRead
      <4> QED BY <4>1 DEF ReadIsCurrent
    <3> QED BY <3>1, <3>2
  <2> QED BY <1>1, <2>1, <2>2, OthersCurrent DEF CurrentInv
<1>3. ASSUME NEW r \in Requests, RequestAct(r)
      PROVE  CurrentInv'
  <2>1. ShapeInv' /\ OnlyOf(r) /\ Tells(r) /\ r \in Actors
    BY <1>1, <1>3, RequestKeepsShape, EveryStepTells, NamesDiffer
  <2>2. ReadIsCurrent(r)'
    <3>1. CASE Reads(r)
      BY <1>1, <2>1, <3>1, ReadingKeepsCurrent
    <3>2. CASE Chooses(r)
      BY <1>1, <3>2, ChoosingKeepsCurrent
    <3>3. CASE ~Reads(r) /\ ~Chooses(r)
      <4>1. step'[r] \notin {"item", "delete"}
        BY <1>1, <1>3, <3>3, OnlyReadersRead
      <4> QED BY <4>1 DEF ReadIsCurrent
    <3> QED BY <3>1, <3>2, <3>3
  <2> QED BY <1>1, <2>1, <2>2, OthersCurrent DEF CurrentInv
<1>4. ASSUME OtherAct
      PROVE  CurrentInv'
  <2>1. ShapeInv' /\ OnlyOf("dispatcher") /\ Tells("dispatcher")
    BY <1>1, <1>4, OthersKeepShape, EveryStepTells
  <2> QED BY <1>1, <2>1, NamesDiffer, OthersCurrent DEF CurrentInv
<1>5. CASE UNCHANGED queueVars
  BY <1>5 DEF CurrentInv, ShapeInv, QueueTypeOK, Asks, Shaped, ConsumerPlace, RequestPlace,
              ReaderPlace, ReadsAreCurrent, ReadIsCurrent,
              queueVars, redis, mysql, reads, request, bounds
<1> QED BY <1>2, <1>3, <1>4, <1>5, SomebodyActs

LEMMA AlwaysCurrent == QueueSpec => []CurrentInv
<1>1. CurrentInv /\ [QueueNext]_queueVars => CurrentInv'
  BY CurrentKept
<1> QED BY <1>1, CurrentInit, PTL DEF QueueSpec

\* Theorem.  Types; with them that every priority in Redis and MySQL stays in 0..100.
THEOREM QueueTypeCorrect == QueueSpec => []QueueTypeOK
<1>1. CurrentInv => QueueTypeOK
  BY DEF CurrentInv, ShapeInv
<1> QED BY <1>1, AlwaysCurrent, PTL

\* Theorem.  A priority pop whose read nobody disturbed takes the first of the
\* messages with the highest priority, and finds it in the list.
THEOREM PriorityPopsBest == QueueSpec => []PriorityPopIsBest
<1>1. CurrentInv => PriorityPopIsBest
  <2> SUFFICES ASSUME CurrentInv, NEW c \in Consumers,
                      ListRead(c), job[c] = "select", ~disturbed[c], Elevated(seen[c])
               PROVE  \E k \in DOMAIN list :
                        /\ list[k] = Selected(c)
                        /\ \A i \in DOMAIN list : /\ list[i].priority <= list[k].priority
                                                 /\ i < k => list[i].priority < list[k].priority
    BY DEF PriorityPopIsBest
  <2>1. seen[c] = list
    BY NamesDiffer, CurrentReadIsList DEF CurrentInv
  <2>2. list \in Seq(Messages) /\ list # <<>>
    BY <2>1 DEF CurrentInv, ShapeInv, QueueTypeOK, Elevated
  <2>3. /\ Best(list) \in DOMAIN list
        /\ \A j \in DOMAIN list :
             /\ list[j].priority <= list[Best(list)].priority
             /\ list[j].priority = list[Best(list)].priority => Best(list) <= j
    BY <2>2, BestExists
  <2>4. \A j \in DOMAIN list : j \in Nat /\ list[j].priority \in 0..100
    BY <2>2, TypedItems
  <2>5. \A j \in DOMAIN list : j < Best(list) => list[j].priority < list[Best(list)].priority
    <3> SUFFICES ASSUME NEW j \in DOMAIN list, j < Best(list)
                 PROVE  list[j].priority < list[Best(list)].priority
      OBVIOUS
    <3> DEFINE p == list[j].priority
               q == list[Best(list)].priority
    <3>1. p \in Int /\ q \in Int /\ j \in Int /\ Best(list) \in Int
      BY <2>3, <2>4
    <3>2. p <= q /\ (p = q => Best(list) <= j)
      BY <2>3
    <3> HIDE DEF p, q
    <3>3. p < q
      BY <3>1, <3>2
    <3> QED BY <3>3 DEF p, q
  <2> QED BY <2>1, <2>3, <2>5 DEF Selected
<1> QED BY <1>1, AlwaysCurrent, PTL

-----------------------------------------------------------------------------
(* A published unit is at one place.                                       *)

LEMMA SingleItem ==
  ASSUME NEW m
  PROVE  /\ Items(<<m>>) = {m} /\ UnitsIn(<<m>>) = {m.unit} /\ <<m>>[1] = m
         /\ Items(<<>>) = {} /\ UnitsIn(<<>>) = {}
BY DEF Items, UnitsIn

\* A step that leaves unit u where it is.
SameFor(u) ==
  /\ Once(list, u) => Once(list', u)
  /\ u \in UnitsIn(list') <=> u \in UnitsIn(list)
  /\ u \in UnitsIn(legacy') <=> u \in UnitsIn(legacy)
  /\ \A c \in Consumers : Held(u, c)' <=> Held(u, c)
  /\ \A r \in Requests : Rewritten(u, r)' <=> Rewritten(u, r)
  /\ u \in UnitsIn(legacy) =>
       \A r \in Requests : step'[r] = "delete_legacy" <=> step[r] = "delete_legacy"
  /\ stage'[u] = "pushed" <=> stage[u] = "pushed"

LEMMA SameStaysPlaced ==
  ASSUME NEW u \in Units, Placed(u), SameFor(u)
  PROVE  Placed(u)'
<1>1. Listed(u)'
  BY DEF Placed, Listed, SameFor
<1>2. Worked(u)'
  BY DEF Placed, Worked, SameFor
<1>3. PushedBack(u)'
  <2> SUFFICES ASSUME NEW r \in Requests
               PROVE  /\ Rewritten(u, r)' => /\ \A q \in Requests : Rewritten(u, q)' => q = r
                                             /\ u \in UnitsIn(legacy') => step'[r] = "delete_legacy"
                      /\ step'[r] = "delete_legacy" /\ u \in UnitsIn(legacy') => u \in UnitsIn(seen'[r])
    BY DEF PushedBack
  <2>1. Rewritten(u, r)' => /\ \A q \in Requests : Rewritten(u, q)' => q = r
                            /\ u \in UnitsIn(legacy') => step'[r] = "delete_legacy"
    BY DEF Placed, PushedBack, SameFor
  <2>2. ASSUME step'[r] = "delete_legacy", u \in UnitsIn(legacy')
        PROVE  u \in UnitsIn(seen'[r])
    <3>1. Rewritten(u, r)
      BY <2>2 DEF Placed, PushedBack, SameFor, Rewritten, Rewriting
    <3> QED BY <3>1 DEF SameFor, Rewritten
  <2> QED BY <2>1, <2>2
<1>4. Somewhere(u)' <=> stage'[u] = "pushed"
  BY DEF Placed, Somewhere, SameFor
<1> QED BY <1>1, <1>2, <1>3, <1>4 DEF Placed

\* Neither list nor holder changes, and who steps is not pushing anything back.
MovesNothing(a) ==
  /\ OnlyOf(a)
  /\ UNCHANGED <<list, legacy, held>>
  /\ a \in Requests => /\ step[a] \notin {"delete_legacy", "push"}
                       /\ step'[a] \notin {"delete_legacy", "push"}

LEMMA MovesNothingIsSame ==
  ASSUME NEW a, MovesNothing(a), NEW u, stage'[u] = "pushed" <=> stage[u] = "pushed"
  PROVE  SameFor(u)
<1>1. \A r \in Requests : r # a => step'[r] = step[r] /\ seen'[r] = seen[r]
  BY DEF MovesNothing, OnlyOf, Actors
<1>2. \A r \in Requests : Rewritten(u, r)' <=> Rewritten(u, r)
  BY <1>1 DEF MovesNothing, Rewritten, Rewriting
<1>3. \A r \in Requests : step'[r] = "delete_legacy" <=> step[r] = "delete_legacy"
  BY <1>1 DEF MovesNothing
<1>4. \A c \in Consumers : Held(u, c)' <=> Held(u, c)
  BY DEF MovesNothing, Held
<1> QED BY <1>2, <1>3, <1>4 DEF MovesNothing, SameFor

\* A step of a consumer leaves every request as it is.
LEMMA ConsumerLeavesRequests ==
  ASSUME NEW c \in Consumers, OnlyOf(c)
  PROVE  \A r \in Requests : /\ step'[r] = step[r] /\ seen'[r] = seen[r] /\ job'[r] = job[r]
                             /\ \A u : Rewritten(u, r)' <=> Rewritten(u, r)
BY NamesDiffer DEF OnlyOf, Rewritten, Rewriting

\* A consumer takes a message of the list, or one that is no longer there.
LEMMA TakingPlaces ==
  ASSUME CurrentInv, NEW c \in Consumers, OnlyOf(c), NEW u \in Units, Placed(u),
         NEW m \in Messages, held[c] = <<>>, held'[c] = <<m>>,
         UNCHANGED <<legacy, stage>>,
         Once(list, u) => Once(list', u),
         u # m.unit => (u \in UnitsIn(list') <=> u \in UnitsIn(list)),
         u = m.unit => u \in UnitsIn(list) /\ u \notin UnitsIn(list')
  PROVE  Placed(u)'
<1>1. \A d \in Consumers : d # c => held'[d] = held[d]
  BY DEF OnlyOf
<1>2. \A r \in Requests : step'[r] = step[r] /\ seen'[r] = seen[r] /\ (Rewritten(u, r)' <=> Rewritten(u, r))
  BY ConsumerLeavesRequests
<1>3. (Held(u, c)' <=> u = m.unit) /\ ~Held(u, c)
  BY SingleItem DEF Held
<1>4. CASE u # m.unit
  <2>1. \A d \in Consumers : Held(u, d)' <=> Held(u, d)
    BY <1>1, <1>3, <1>4 DEF Held
  <2>2. SameFor(u)
    BY <1>2, <1>4, <2>1 DEF SameFor
  <2> QED BY <2>2, SameStaysPlaced
<1>5. CASE u = m.unit
  <2>1. /\ u \notin UnitsIn(legacy) /\ \A r \in Requests : ~Rewritten(u, r)
        /\ \A d \in Consumers : ~Held(u, d)
        /\ stage[u] = "pushed" /\ Once(list, u)
    BY <1>5 DEF Placed, Listed, Somewhere
  <2>2. \A d \in Consumers : d # c => ~Held(u, d)'
    BY <1>1, <2>1 DEF Held
  <2>3. Listed(u)'
    BY <1>5, <2>1 DEF Listed
  <2>4. Worked(u)'
    BY <1>2, <2>1, <2>2 DEF Worked
  <2>5. PushedBack(u)'
    BY <1>2, <2>1 DEF PushedBack
  <2>6. Somewhere(u)' /\ stage'[u] = "pushed"
    BY <1>3, <1>5, <2>1 DEF Somewhere
  <2> QED BY <2>3, <2>4, <2>5, <2>6 DEF Placed
<1> QED BY <1>4, <1>5

LEMMA PopPlaces ==
  ASSUME CurrentInv, NEW c \in Consumers, OnlyOf(c), PopHighestPriority(c) \/ BlockingPop(c),
         NEW u \in Units \ raced', Placed(u)
  PROVE  Placed(u)'
<1>1. /\ list \in Seq(Messages) /\ ActorsTyped /\ held \in [Consumers -> Seq(Messages)]
      /\ ConsumerPlace(c) /\ c \in Actors
  BY TypesSplit, NamesDiffer DEF CurrentInv, ShapeInv, Shaped, StoresTyped
<1>2. Once(list, u)
  BY DEF Placed, Listed
<1>3. CASE BlockingPop(c)
  <2>1. list # <<>> /\ held[c] = <<>> /\ UNCHANGED <<legacy, stage>> /\ list' = Tail(list)
    BY <1>1, <1>3 DEF BlockingPop, ConsumerPlace, mysql
  <2>2. /\ Head(list) \in Messages
        /\ UnitsIn(list) = {Head(list).unit} \cup UnitsIn(Tail(list))
        /\ Once(Tail(list), u) /\ (u = Head(list).unit => u \notin UnitsIn(Tail(list)))
    BY <1>1, <1>2, <2>1, TailItems
  <2>3. held'[c] = <<Head(list)>>
    BY <1>1, <1>3 DEF BlockingPop
  <2> QED BY <2>1, <2>2, <2>3, TakingPlaces
<1>4. CASE PopHighestPriority(c)
  <2> DEFINE m == Selected(c)
  <2>1. m \in Messages
    BY <1>1, <1>4, SelectedTyped DEF PopHighestPriority
  <2>2. held[c] = <<>> /\ held'[c] = <<m>> /\ UNCHANGED <<legacy, stage>> /\ list' = Remove(list, m)
    BY <1>1, <1>4 DEF PopHighestPriority, ConsumerPlace, ListRead, mysql
  <2>3. m \in Items(list) \/ m.unit \in raced'
    BY <1>4 DEF PopHighestPriority, Items
  <2> HIDE DEF m
  <2>4. /\ Items(list') \subseteq Items(list) /\ list' \in Seq(Messages)
        /\ Once(list', u)
        /\ u # m.unit /\ u \in UnitsIn(list) => u \in UnitsIn(list')
        /\ m \in Items(list) /\ u = m.unit => u \notin UnitsIn(list')
    BY <1>1, <1>2, <2>1, <2>2, RemoveItems
  <2>5. u = m.unit => m \in Items(list)
    BY <2>3
  <2>6. m \in Items(list) => m.unit \in UnitsIn(list)
    BY DEF Items, UnitsIn
  <2>7. UnitsIn(list') \subseteq UnitsIn(list)
    <3>1. UnitsIn(list) = {x.unit : x \in Items(list)} /\ UnitsIn(list') = {x.unit : x \in Items(list')}
      BY <1>1, <2>4, TypedItems
    <3> QED BY <2>4, <3>1
  <2> QED BY <2>1, <2>2, <2>4, <2>5, <2>6, <2>7, TakingPlaces
<1> QED BY <1>3, <1>4

\* A consumer gives its unit back to the list, or has finished it.
LEMMA GivingPlaces ==
  ASSUME CurrentInv, NEW c \in Consumers, OnlyOf(c), Retry(c) \/ WorkEnds(c),
         NEW u \in Units, Placed(u)
  PROVE  Placed(u)'
<1>1. /\ list \in Seq(Messages) /\ stage \in [Units -> {"new", "created", "pushed", "done"}]
      /\ held \in [Consumers -> Seq(Messages)] /\ ConsumerPlace(c)
  BY TypesSplit DEF CurrentInv, ShapeInv, Shaped, StoresTyped
<1>2. PICK m \in Messages : held[c] = <<m>>
  BY <1>1 DEF Retry, WorkEnds, ConsumerPlace
<1>3. held[c][1] = m /\ m.unit \in Units
  BY <1>2 DEF Messages
<1>4. held'[c] = <<>> /\ \A d \in Consumers : d # c => held'[d] = held[d]
  BY <1>1 DEF Retry, WorkEnds
<1>5. \A r \in Requests : step'[r] = step[r] /\ seen'[r] = seen[r] /\ (Rewritten(u, r)' <=> Rewritten(u, r))
  BY ConsumerLeavesRequests
<1>6. (Held(u, c) <=> u = m.unit) /\ ~Held(u, c)' /\ \A d \in Consumers : d # c => (Held(u, d)' <=> Held(u, d))
  BY <1>2, <1>4, SingleItem DEF Held
<1>7. legacy' = legacy /\ \A v \in Units : v # m.unit => stage'[v] = stage[v]
  BY <1>1, <1>3 DEF Retry, WorkEnds, redis
<1>8. CASE WorkEnds(c)
  <2>1. list' = list
    BY <1>8 DEF WorkEnds, redis
  <2>2. CASE u # m.unit
    <3>1. SameFor(u)
      BY <1>5, <1>6, <1>7, <2>1, <2>2 DEF SameFor
    <3> QED BY <3>1, SameStaysPlaced
  <2>3. CASE u = m.unit
    <3>1. stage'[u] # "pushed"
      BY <1>1, <1>3, <1>8, <2>3 DEF WorkEnds
    <3>2. /\ u \notin UnitsIn(list) /\ u \notin UnitsIn(legacy) /\ \A r \in Requests : ~Rewritten(u, r)
          /\ \A d \in Consumers : Held(u, d) => d = c
          /\ Once(list, u)
      BY <1>6, <2>3 DEF Placed, Listed, Worked
    <3>3. \A d \in Consumers : ~Held(u, d)'
      BY <1>6, <3>2
    <3>4. Listed(u)' /\ Worked(u)' /\ PushedBack(u)' /\ ~Somewhere(u)'
      BY <1>5, <1>7, <2>1, <3>2, <3>3 DEF Listed, Worked, PushedBack, Somewhere
    <3> QED BY <3>1, <3>4 DEF Placed
  <2> QED BY <2>2, <2>3
<1>9. CASE Retry(c)
  <2> DEFINE n == Requeued(m)
  <2>1. n \in Messages /\ n.unit = m.unit
    <3>1. m.retry \in 0..Retries /\ m.retry < Retries
      BY <1>3, <1>9 DEF Retry, Messages
    <3>2. m.retry + 1 \in 0..Retries
      BY <3>1, QueueAssumption
    <3> QED BY <3>1, <3>2 DEF Requeued, Messages
  <2>2. list' = Append(list, n) /\ stage'[m.unit] = "pushed"
    BY <1>1, <1>3, <1>9 DEF Retry
  <2> HIDE DEF n
  <2>3. /\ UnitsIn(list') = UnitsIn(list) \cup {m.unit}
        /\ Once(list, u) /\ (u = m.unit => u \notin UnitsIn(list)) => Once(list', u)
    BY <1>1, <2>1, <2>2, AppendItems
  <2>4. CASE u # m.unit
    <3>1. SameFor(u)
      BY <1>5, <1>6, <1>7, <2>3, <2>4 DEF SameFor
    <3> QED BY <3>1, SameStaysPlaced
  <2>5. CASE u = m.unit
    <3>1. /\ u \notin UnitsIn(list) /\ u \notin UnitsIn(legacy) /\ \A r \in Requests : ~Rewritten(u, r)
          /\ \A d \in Consumers : Held(u, d) => d = c
          /\ Once(list, u)
      BY <1>6, <2>5 DEF Placed, Listed, Worked
    <3>2. \A d \in Consumers : ~Held(u, d)'
      BY <1>6, <3>1
    <3>3. Listed(u)' /\ Worked(u)' /\ PushedBack(u)' /\ Somewhere(u)'
      BY <1>5, <1>7, <2>3, <2>5, <3>1, <3>2 DEF Listed, Worked, PushedBack, Somewhere
    <3> QED BY <2>2, <2>5, <3>3 DEF Placed
  <2> QED BY <2>4, <2>5
<1> QED BY <1>8, <1>9

\* A new unit is published.
LEMMA PublishPlaces ==
  ASSUME CurrentInv, NEW v \in Units, PushNew(v), NEW u \in Units, Placed(u)
  PROVE  Placed(u)'
<1>1. list \in Seq(Messages) /\ stage \in [Units -> {"new", "created", "pushed", "done"}]
  BY TypesSplit DEF CurrentInv, ShapeInv, StoresTyped
<1> DEFINE n == [unit |-> v, priority |-> Given[v], retry |-> 0]
<1>2. n \in Messages /\ n.unit = v
  BY QueueAssumption DEF Messages
<1>3. /\ list' = Append(list, n) /\ stage[v] = "created" /\ stage' = [stage EXCEPT ![v] = "pushed"]
      /\ UNCHANGED <<legacy, step, seen, held>>
  BY DEF PushNew, reads
<1> HIDE DEF n
<1>4. /\ UnitsIn(list') = UnitsIn(list) \cup {v}
      /\ Once(list, u) /\ (u = v => u \notin UnitsIn(list)) => Once(list', u)
  BY <1>1, <1>2, <1>3, AppendItems
<1>5. /\ \A c \in Consumers : Held(u, c)' <=> Held(u, c)
      /\ \A r \in Requests : Rewritten(u, r)' <=> Rewritten(u, r)
  BY <1>3 DEF Held, Rewritten, Rewriting
<1>6. CASE u # v
  <2>1. SameFor(u)
    BY <1>1, <1>3, <1>4, <1>5, <1>6 DEF SameFor
  <2> QED BY <2>1, SameStaysPlaced
<1>7. CASE u = v
  <2>1. ~Somewhere(u) /\ Once(list, u)
    BY <1>3, <1>7 DEF Placed, Listed
  <2>2. stage'[u] = "pushed"
    BY <1>1, <1>3, <1>7
  <2>3. Listed(u)' /\ Worked(u)' /\ PushedBack(u)' /\ Somewhere(u)'
    BY <1>3, <1>4, <1>5, <1>7, <2>1 DEF Listed, Worked, PushedBack, Somewhere
  <2> QED BY <2>2, <2>3 DEF Placed
<1> QED BY <1>6, <1>7

\* Where a request is after Go, and after a rewrite.
LEMMA StepAfter ==
  ASSUME ActorsTyped, NEW r \in Requests
  PROVE  /\ \A next, purpose, messages : Go(r, next, purpose, messages) =>
              step'[r] = next /\ job'[r] = purpose /\ seen'[r] = messages
         /\ AfterRewrite(r) => step'[r] \in {"adjust", "idle", "length"} /\ seen'[r] = <<>>
<1>1. \A next, purpose, messages : Go(r, next, purpose, messages) =>
        step'[r] = next /\ job'[r] = purpose /\ seen'[r] = messages
  BY NamesDiffer DEF Go, ActorsTyped
<1> QED BY <1>1 DEF AfterRewrite, Read

\* DEL of the list moves its units to the request that has read them.
LEMMA DeleteListPlaces ==
  ASSUME CurrentInv, NEW r \in Requests, OnlyOf(r), DeleteList(r),
         NEW u \in Units \ raced', Placed(u)
  PROVE  Placed(u)'
<1>1. ActorsTyped /\ r \in Actors /\ list \in Seq(Messages) /\ legacy \in Seq(Messages)
      /\ ReadIsCurrent(r)
  BY TypesSplit, NamesDiffer DEF CurrentInv, ShapeInv, StoresTyped, ReadsAreCurrent
<1>2. /\ step[r] = "delete" /\ step'[r] = "delete_legacy" /\ seen' = seen /\ list' = <<>>
      /\ legacy' = legacy /\ stage' = stage /\ held' = held
      /\ \A q \in Requests : q # r => step'[q] = step[q]
  BY <1>1 DEF DeleteList, ActorsTyped, mysql, reads, OnlyOf, Actors
<1>3. ~LostOrDoubled(u, r)
  BY DEF DeleteList
<1>4. u \in UnitsIn(seen[r]) <=> u \in UnitsIn(list) \/ u \in UnitsIn(legacy)
  <2>1. UnitsIn(list \o legacy) = UnitsIn(list) \cup UnitsIn(legacy)
    BY <1>1, ConcatItems
  <2> QED BY <1>1, <1>2, <1>3, <2>1 DEF LostOrDoubled, ReadIsCurrent
<1>5. u \in UnitsIn(seen[r]) => \A q \in Requests : q # r => ~Rewritten(u, q)
  BY <1>3 DEF LostOrDoubled, Rewritten
<1>6. /\ Rewritten(u, r)' <=> u \in UnitsIn(seen[r])
      /\ ~Rewritten(u, r)
      /\ \A q \in Requests : q # r => (Rewritten(u, q)' <=> Rewritten(u, q))
  BY <1>2 DEF Rewritten, Rewriting
<1>7. /\ UnitsIn(list') = {} /\ Once(list', u)
      /\ \A c \in Consumers : Held(u, c)' <=> Held(u, c)
  BY <1>2 DEF UnitsIn, Once, Held
<1>8. Listed(u) /\ Worked(u) /\ PushedBack(u)
  BY DEF Placed
<1>9. Listed(u)'
  BY <1>7 DEF Listed
<1>10. Worked(u)'
  <2>1. \A c \in Consumers : Held(u, c) => u \notin UnitsIn(seen[r])
    BY <1>4, <1>8 DEF Listed, Worked
  <2> QED BY <1>2, <1>6, <1>7, <1>8, <2>1 DEF Worked
<1>11. PushedBack(u)'
  <2>1. \A q, p \in Requests : Rewritten(u, q)' /\ Rewritten(u, p)' => q = p
    BY <1>5, <1>6, <1>8 DEF PushedBack
  <2>2. \A q \in Requests : Rewritten(u, q)' /\ u \in UnitsIn(legacy) => step'[q] = "delete_legacy"
    BY <1>2, <1>6, <1>8 DEF PushedBack
  <2>3. \A q \in Requests : step'[q] = "delete_legacy" /\ u \in UnitsIn(legacy) => u \in UnitsIn(seen[q])
    BY <1>2, <1>4, <1>8 DEF PushedBack
  <2> QED BY <1>2, <2>1, <2>2, <2>3 DEF PushedBack
<1>12. Somewhere(u)' <=> Somewhere(u)
  <2>1. CASE u \in UnitsIn(seen[r])
    BY <1>4, <1>6, <2>1 DEF Somewhere
  <2>2. CASE u \notin UnitsIn(seen[r])
    BY <1>2, <1>4, <1>6, <1>7, <2>2 DEF Somewhere
  <2> QED BY <2>1, <2>2
<1> QED BY <1>2, <1>9, <1>10, <1>11, <1>12 DEF Placed

\* DEL of the old set removes what the request is about to push back.
LEMMA DeleteLegacyPlaces ==
  ASSUME CurrentInv, NEW r \in Requests, OnlyOf(r), DeleteLegacy(r),
         NEW u \in Units, Placed(u)
  PROVE  Placed(u)'
<1>1. ActorsTyped /\ r \in Actors
  BY TypesSplit, NamesDiffer DEF CurrentInv, ShapeInv
<1>2. /\ step[r] = "delete_legacy" /\ step'[r] # "delete_legacy" /\ list' = list /\ legacy' = <<>>
      /\ stage' = stage /\ held' = held
      /\ \A q \in Requests : q # r => step'[q] = step[q] /\ seen'[q] = seen[q]
      /\ \/ seen[r] = <<>> /\ ~(step'[r] \in {"delete_legacy", "push"})
         \/ step'[r] = "push" /\ seen'[r] = seen[r]
  BY <1>1, StepAfter DEF DeleteLegacy, mysql, OnlyOf, Actors
<1>3. \A q \in Requests : Rewritten(u, q)' <=> Rewritten(u, q)
  BY <1>2, SingleItem DEF Rewritten, Rewriting
<1>4. /\ \A c \in Consumers : Held(u, c)' <=> Held(u, c)
      /\ UnitsIn(legacy') = {}
  BY <1>2 DEF Held, UnitsIn
<1>5. CASE u \notin UnitsIn(legacy)
  <2>1. SameFor(u)
    BY <1>2, <1>3, <1>4, <1>5 DEF SameFor
  <2> QED BY <2>1, SameStaysPlaced
<1>6. CASE u \in UnitsIn(legacy)
  <2>1. Rewritten(u, r) /\ \A q \in Requests : Rewritten(u, q) => q = r
    BY <1>2, <1>6 DEF Placed, PushedBack, Rewritten, Rewriting
  <2>2. /\ u \notin UnitsIn(list) /\ Once(list, u) /\ \A c \in Consumers : ~Held(u, c)
        /\ stage[u] = "pushed"
    BY <1>6 DEF Placed, Listed, Worked, Somewhere
  <2>3. Listed(u)' /\ Worked(u)'
    BY <1>2, <1>4, <2>2 DEF Listed, Worked
  <2>4. PushedBack(u)' /\ Somewhere(u)' /\ stage'[u] = "pushed"
    BY <1>2, <1>3, <1>4, <2>1, <2>2 DEF PushedBack, Somewhere
  <2> QED BY <2>3, <2>4 DEF Placed
<1> QED BY <1>5, <1>6

\* RPUSH gives one unit back to the list.
LEMMA PushBackPlaces ==
  ASSUME CurrentInv, NEW r \in Requests, OnlyOf(r), PushBack(r),
         NEW u \in Units, Placed(u)
  PROVE  Placed(u)'
<1>1. ActorsTyped /\ r \in Actors /\ list \in Seq(Messages) /\ RequestPlace(r) /\ step[r] = "push"
  BY TypesSplit, NamesDiffer DEF CurrentInv, ShapeInv, Shaped, StoresTyped, PushBack
<1>2. seen[r] \in Seq(Messages) /\ seen[r] # <<>> /\ Distinct(seen[r]) /\ legacy = <<>>
  BY <1>1 DEF ActorsTyped, RequestPlace
<1> DEFINE m == Head(seen[r])
           rest == Tail(seen[r])
<1>3. /\ m \in Messages
      /\ UnitsIn(seen[r]) = {m.unit} \cup UnitsIn(rest) /\ m.unit \notin UnitsIn(rest)
  BY <1>2, TailItems
<1>4. /\ list' = Append(list, m) /\ legacy' = legacy /\ stage' = stage /\ held' = held
      /\ \A q \in Requests : q # r => step'[q] = step[q] /\ seen'[q] = seen[q]
      /\ \/ rest = <<>> /\ ~(step'[r] \in {"delete_legacy", "push"})
         \/ step'[r] = "push" /\ seen'[r] = rest
  BY <1>1, StepAfter DEF PushBack, mysql, OnlyOf, Actors
<1> HIDE DEF m, rest
<1>5. /\ UnitsIn(list') = UnitsIn(list) \cup {m.unit}
      /\ Once(list, u) /\ (u = m.unit => u \notin UnitsIn(list)) => Once(list', u)
  BY <1>1, <1>3, <1>4, AppendItems
<1>6. /\ Rewritten(u, r)' <=> u \in UnitsIn(rest)
      /\ Rewritten(u, r) <=> u = m.unit \/ u \in UnitsIn(rest)
      /\ \A q \in Requests : q # r => (Rewritten(u, q)' <=> Rewritten(u, q))
  BY <1>1, <1>3, <1>4, SingleItem DEF Rewritten, Rewriting
<1>7. UnitsIn(legacy) = {} /\ \A c \in Consumers : Held(u, c)' <=> Held(u, c)
  BY <1>2, <1>4 DEF Held, UnitsIn
<1>8. CASE u # m.unit
  <2>1. SameFor(u)
    BY <1>4, <1>5, <1>6, <1>7, <1>8 DEF SameFor
  <2> QED BY <2>1, SameStaysPlaced
<1>9. CASE u = m.unit
  <2>1. Rewritten(u, r) /\ (\A q \in Requests : Rewritten(u, q) => q = r) /\ stage[u] = "pushed"
    BY <1>6, <1>9 DEF Placed, PushedBack, Somewhere
  <2>2. u \notin UnitsIn(list) /\ Once(list, u) /\ \A c \in Consumers : ~Held(u, c)
    BY <2>1 DEF Placed, Listed, Worked
  <2>3. \A q \in Requests : ~Rewritten(u, q)'
    BY <1>3, <1>6, <1>9, <2>1
  <2>4. Listed(u)' /\ Worked(u)' /\ PushedBack(u)' /\ Somewhere(u)' /\ stage'[u] = "pushed"
    BY <1>4, <1>5, <1>7, <1>9, <2>1, <2>2, <2>3 DEF Listed, Worked, PushedBack, Somewhere
  <2> QED BY <2>4 DEF Placed
<1> QED BY <1>8, <1>9

\* A clear and a request that fails move only units they give up.
LEMMA GivingUpPlaces ==
  ASSUME CurrentInv, NEW r \in Requests, OnlyOf(r), ClearList(r) \/ ClearLegacy(r) \/ RequestFails(r),
         NEW u \in Units \ raced', Placed(u)
  PROVE  Placed(u)'
<1>1. ActorsTyped /\ r \in Actors
  BY TypesSplit, NamesDiffer DEF CurrentInv, ShapeInv
<1>2. /\ \A q \in Requests : q # r => /\ step'[q] = step[q] /\ seen'[q] = seen[q]
                                      /\ Rewritten(u, q)' <=> Rewritten(u, q)
      /\ held' = held /\ stage' = stage /\ \A c \in Consumers : Held(u, c)' <=> Held(u, c)
  BY DEF OnlyOf, Actors, Rewritten, Rewriting, ClearList, ClearLegacy, RequestFails, mysql, Held
<1>3. SameFor(u)
  <2>1. CASE ClearList(r)
    <3>1. /\ list' = <<>> /\ legacy' = legacy /\ u \notin UnitsIn(list)
          /\ step[r] = "clear_list" /\ step'[r] = "clear_legacy"
      BY <1>1, <2>1 DEF ClearList, ActorsTyped
    <3>2. UnitsIn(list') = {} /\ Once(list', u)
      BY <3>1 DEF UnitsIn, Once
    <3>3. ~Rewritten(u, r) /\ ~Rewritten(u, r)'
      BY <3>1 DEF Rewritten, Rewriting
    <3> QED BY <1>2, <3>1, <3>2, <3>3 DEF SameFor
  <2>2. CASE ClearLegacy(r)
    <3>1. /\ list' = list /\ legacy' = <<>> /\ u \notin UnitsIn(legacy)
          /\ step[r] = "clear_legacy" /\ step'[r] = "idle"
      BY <1>1, <2>2 DEF ClearLegacy, ActorsTyped
    <3>2. UnitsIn(legacy') = {}
      BY <3>1 DEF UnitsIn
    <3>3. ~Rewritten(u, r) /\ ~Rewritten(u, r)'
      BY <3>1 DEF Rewritten, Rewriting
    <3> QED BY <1>2, <3>1, <3>2, <3>3 DEF SameFor
  <2>3. CASE RequestFails(r)
    <3>1. list' = list /\ legacy' = legacy /\ step'[r] = "idle"
      BY <1>1, <2>3, StepAfter DEF RequestFails, redis
    <3>2. ~Rewritten(u, r)
      BY <2>3 DEF RequestFails, Rewritten
    <3>3. ~Rewritten(u, r)'
      BY <3>1 DEF Rewritten, Rewriting
    <3>4. u \in UnitsIn(legacy) => step[r] # "delete_legacy"
      BY <3>2 DEF Placed, PushedBack, Rewritten, Rewriting
    <3> QED BY <1>2, <3>1, <3>2, <3>3, <3>4 DEF SameFor
  <2> QED BY <2>1, <2>2, <2>3
<1> QED BY <1>3, SameStaysPlaced

\* Every other step leaves every unit where it is.
Moves(a) ==
  \/ a \in Consumers /\ (PopHighestPriority(a) \/ BlockingPop(a) \/ Retry(a) \/ WorkEnds(a))
  \/ a \in Requests /\ \/ DeleteList(a) \/ DeleteLegacy(a) \/ PushBack(a)
                       \/ ClearList(a) \/ ClearLegacy(a) \/ RequestFails(a)

LEMMA OthersMoveNothing ==
  ASSUME CurrentInv
  PROVE  /\ \A c \in Consumers : ConsumerStep(c) /\ ~Moves(c) => MovesNothing(c) /\ stage' = stage
         /\ \A r \in Requests : RequestAct(r) /\ ~Moves(r) => MovesNothing(r) /\ stage' = stage
<1>1. ActorsTyped /\ ShapeInv
  BY TypesSplit DEF CurrentInv, ShapeInv
<1>2. ASSUME NEW c \in Consumers, ConsumerStep(c), ~Moves(c)
      PROVE  MovesNothing(c) /\ stage' = stage
  <2>1. OnlyOf(c) /\ c \notin Requests
    BY <1>1, <1>2, ConsumerKeepsShape, NamesDiffer
  <2>2. GetStrategy(c) \/ ReadLength(c) \/ ReadItem(c) \/ ReadPriorityState(c) \/ NothingElevated(c)
        \/ PopTimesOut(c)
    BY <1>2 DEF Moves, ConsumerStep
  <2>3. UNCHANGED <<list, legacy, held, stage>>
    BY <2>2 DEF GetStrategy, ReadLength, ReadItem, ReadPriorityState, NothingElevated, PopTimesOut,
                redis, mysql
  <2> QED BY <2>1, <2>3 DEF MovesNothing
<1>3. ASSUME NEW r \in Requests, RequestAct(r), ~Moves(r)
      PROVE  MovesNothing(r) /\ stage' = stage
  <2>1. OnlyOf(r) /\ r \in Actors
    BY <1>1, <1>3, RequestKeepsShape, NamesDiffer
  <2>2. ViewProducts(r) \/ ApplyPriority(r) \/ ClearLength(r) \/ ReadLength(r) \/ ReadItem(r)
        \/ ReadForNormalize(r) \/ CollectTasks(r) \/ ReadForUpdate(r) \/ AdjustRows(r)
    BY <1>3 DEF Moves, RequestAct, RequestStep
  <2>3. UNCHANGED <<list, legacy, held, stage>>
    BY <2>2 DEF ViewProducts, ApplyPriority, ClearLength, ReadLength, ReadItem, ReadForNormalize,
                CollectTasks, ReadForUpdate, AdjustRows, redis, mysql
  <2>4. step[r] \in {"idle", "length", "item", "adjust"}
    BY <2>2 DEF ViewProducts, ApplyPriority, ClearLength, Accept, ReadLength, ReadItem,
                ReadForNormalize, CollectTasks, ReadForUpdate, ListRead, AdjustRows
  <2>5. step'[r] \in {"idle", "length", "item", "delete", "adjust", "clear_list", "clear_legacy"}
    <3>1. CASE ReadLength(r) \/ ReadItem(r)
      BY <1>1, <2>1, <3>1 DEF ReadLength, ReadItem, ActorsTyped
    <3>2. CASE ~(ReadLength(r) \/ ReadItem(r))
      <4>1. \E next \in {"idle", "length", "delete", "adjust", "clear_list", "clear_legacy"} :
              \E purpose, messages : Go(r, next, purpose, messages)
        BY <2>2, <3>2 DEF ViewProducts, ApplyPriority, ClearLength, ReadForNormalize, CollectTasks,
                          ReadForUpdate, AdjustRows, Read
      <4> QED BY <1>1, <4>1, StepAfter
    <3> QED BY <3>1, <3>2
  <2> QED BY <2>1, <2>3, <2>4, <2>5 DEF MovesNothing
<1> QED BY <1>2, <1>3

\* No step makes a unit safe again.
LEMMA RacedStays == QueueNext => raced \subseteq raced' /\ skewed \subseteq skewed'
BY DEF QueueNext, CreateRow, ExpandAgain, CreateTask, InsertAgain, PushNew, ConsumerStep, RequestStep, SetStrategy, GetStrategy, ReadLength,
       ReadItem, ReadPriorityState, PopHighestPriority, NothingElevated, BlockingPop, PopTimesOut,
       WorkEnds, Retry, ViewProducts, ApplyPriority, ClearLength, ReadForNormalize, CollectTasks,
       ReadForUpdate, DeleteList, DeleteLegacy, PushBack, AdjustRows, ClearList, ClearLegacy,
       RequestFails

LEMMA PlacedInit == QueueInit => PlacedInv
<1> SUFFICES ASSUME QueueInit, NEW u \in Units
             PROVE  Placed(u)
  BY DEF PlacedInv
<1>1. /\ list = <<>> /\ \A c \in Consumers : held[c] = <<>>
      /\ \A r \in Requests : step[r] = "idle"
      /\ stage[u] = "pushed" <=> u \in UnitsIn(legacy)
  BY NamesDiffer DEF QueueInit
<1>2. /\ Once(list, u) /\ u \notin UnitsIn(list) /\ \A c \in Consumers : ~Held(u, c)
      /\ \A r \in Requests : ~Rewritten(u, r)
  BY <1>1 DEF Once, UnitsIn, Held, Rewritten, Rewriting
<1> QED BY <1>1, <1>2 DEF Placed, Listed, Worked, PushedBack, Somewhere

LEMMA PlacedKept == CurrentInv /\ PlacedInv /\ [QueueNext]_queueVars => PlacedInv'
<1> SUFFICES ASSUME CurrentInv, PlacedInv, [QueueNext]_queueVars, NEW u \in Units \ raced'
             PROVE  Placed(u)'
  BY DEF PlacedInv
<1>1. CASE UNCHANGED queueVars
  <2>1. UNCHANGED <<list, legacy, stage, step, seen, held, raced>>
    BY <1>1 DEF queueVars, redis, mysql, reads
  <2> QED BY <2>1 DEF PlacedInv, Placed, Listed, Worked, PushedBack, Somewhere, Once, Held, Rewritten, Rewriting
<1>2. CASE QueueNext
  <2>1. Placed(u)
    BY <1>2, RacedStays DEF PlacedInv
  <2>2. ASSUME NEW c \in Consumers, ConsumerStep(c)
        PROVE  Placed(u)'
    <3>1. OnlyOf(c) /\ c \notin Requests
      BY <2>2, ConsumerKeepsShape, NamesDiffer DEF CurrentInv
    <3>2. CASE Moves(c)
      BY <2>1, <3>1, <3>2, PopPlaces, GivingPlaces DEF Moves
    <3>3. CASE ~Moves(c)
      BY <2>1, <2>2, <3>3, OthersMoveNothing, MovesNothingIsSame, SameStaysPlaced
    <3> QED BY <3>2, <3>3
  <2>3. ASSUME NEW r \in Requests, RequestAct(r)
        PROVE  Placed(u)'
    <3>1. OnlyOf(r) /\ r \notin Consumers
      BY <2>3, RequestKeepsShape, NamesDiffer DEF CurrentInv
    <3>2. CASE Moves(r)
      BY <2>1, <3>1, <3>2, DeleteListPlaces, DeleteLegacyPlaces, PushBackPlaces, GivingUpPlaces
         DEF Moves
    <3>3. CASE ~Moves(r)
      BY <2>1, <2>3, <3>3, OthersMoveNothing, MovesNothingIsSame, SameStaysPlaced
    <3> QED BY <3>2, <3>3
  <2>4. CASE OtherAct
    <3>1. ASSUME NEW v \in Units, PushNew(v)
          PROVE  Placed(u)'
      BY <2>1, <3>1, PublishPlaces
    <3>2. ASSUME SetStrategy \/ \E v \in Units : CreateRow(v) \/ InsertsAgain(v)
          PROVE  Placed(u)'
      <4>1. OnlyOf("dispatcher") /\ "dispatcher" \notin Requests
        BY <2>4, OthersKeepShape, NamesDiffer DEF CurrentInv
      <4>2. UNCHANGED <<list, legacy, held>>
        BY <3>2 DEF SetStrategy, CreateRow, InsertsAgain, ExpandAgain, CreateTask, InsertAgain, redis
      <4>3. stage'[u] = "pushed" <=> stage[u] = "pushed"
        <5>1. stage \in [Units -> {"new", "created", "pushed", "done"}]
          BY DEF CurrentInv, ShapeInv, QueueTypeOK
        <5> QED BY <3>2, <5>1 DEF SetStrategy, CreateRow, InsertsAgain, ExpandAgain, CreateTask,
                                  InsertAgain, mysql
      <4> QED BY <2>1, <4>1, <4>2, <4>3, MovesNothingIsSame, SameStaysPlaced DEF MovesNothing
    <3> QED BY <2>4, <3>1, <3>2 DEF OtherAct, InsertsAgain
  <2> QED BY <1>2, <2>2, <2>3, <2>4, SomebodyActs
<1> QED BY <1>1, <1>2

LEMMA AlwaysPlaced == QueueSpec => [](CurrentInv /\ PlacedInv)
<1>1. QueueInit => CurrentInv /\ PlacedInv
  BY CurrentInit, PlacedInit
<1>2. CurrentInv /\ PlacedInv /\ [QueueNext]_queueVars => CurrentInv' /\ PlacedInv'
  BY CurrentKept, PlacedKept
<1> QED BY <1>1, <1>2, PTL DEF QueueSpec

\* A set with at most one member.
LEMMA AtMostOne ==
  ASSUME NEW S, \A x, y \in S : x = y
  PROVE  Cardinality(S) = IF S = {} THEN 0 ELSE 1
<1>1. CASE S = {}
  BY <1>1, FS_EmptySet
<1>2. CASE S # {}
  <2>1. PICK x \in S : TRUE
    BY <1>2
  <2>2. S = {x}
    BY <2>1
  <2> QED BY <1>2, <2>2, FS_Singleton
<1> QED BY <1>1, <1>2

\* Theorem.  A published unit that no race, clear or failed rewrite has touched
\* is at one place: in the list, with one consumer, or with one rewriting request,
\* or it still waits in the old sorted set.
THEOREM OneCopyQueued == QueueSpec => []OneQueuedCopy
<1>1. CurrentInv /\ PlacedInv => OneQueuedCopy
  <2> SUFFICES ASSUME CurrentInv, PlacedInv, NEW u \in Units \ raced
               PROVE  /\ Copies(u) <= 1
                      /\ Copies(u) = 1 => stage[u] = "pushed"
                      /\ stage[u] = "pushed" => Copies(u) = 1 \/ u \in UnitsIn(legacy)
    BY DEF OneQueuedCopy
  <2> DEFINE inList == {i \in DOMAIN list : list[i].unit = u}
             inWork == {c \in Consumers : u \in UnitsIn(held[c])}
             inRewrite == {r \in Requests : Rewriting(r) /\ u \in UnitsIn(seen[r])}
  <2>1. Listed(u) /\ Worked(u) /\ PushedBack(u) /\ (Somewhere(u) <=> stage[u] = "pushed")
    BY DEF PlacedInv, Placed
  <2>2. /\ inList # {} <=> u \in UnitsIn(list)
        /\ inWork # {} <=> \E c \in Consumers : Held(u, c)
        /\ inRewrite # {} <=> \E r \in Requests : Rewritten(u, r)
    BY DEF UnitsIn, Held, Rewritten
  <2>3. /\ \A i, j \in inList : i = j
        /\ \A c, d \in inWork : c = d
        /\ \A r, q \in inRewrite : r = q
    BY <2>1 DEF Listed, Once, Worked, Held, PushedBack, Rewritten
  <2>4. /\ Cardinality(inList) = IF inList = {} THEN 0 ELSE 1
        /\ Cardinality(inWork) = IF inWork = {} THEN 0 ELSE 1
        /\ Cardinality(inRewrite) = IF inRewrite = {} THEN 0 ELSE 1
    <3> HIDE DEF inList, inWork, inRewrite
    <3> QED BY <2>3, AtMostOne
  <2>5. Copies(u) = Cardinality(inList) + Cardinality(inWork) + Cardinality(inRewrite)
    BY DEF Copies
  <2>6. /\ inList # {} => inWork = {} /\ inRewrite = {}
        /\ inWork # {} => inRewrite = {}
    BY <2>1, <2>2 DEF Listed, Worked
  <2>7. Somewhere(u) <=> inList # {} \/ inWork # {} \/ inRewrite # {} \/ u \in UnitsIn(legacy)
    BY <2>2 DEF Somewhere
  <2> HIDE DEF inList, inWork, inRewrite
  <2> QED BY <2>1, <2>4, <2>5, <2>6, <2>7
<1> QED BY <1>1, AlwaysPlaced, PTL

-----------------------------------------------------------------------------
(* Redis and MySQL agree on priorities.                                    *)

\* The messages that may be delivered.
Live(m) ==
  \/ m \in Items(list)
  \/ \E c \in Consumers : m \in Items(held[c])
  \/ \E r \in Requests : Rewriting(r) /\ m \in Items(seen[r])

LiveMoved(u) ==
  \A m : Live(m)' /\ m.unit = u => \E n : Live(n) /\ n.unit = u /\ n.priority = m.priority

UpdatingFor(r, u) == Updating(r) /\ Targets(r, u)
PastFor(r, u) == Past(r) /\ Targets(r, u)

\* No request begins to change the unit.
FewerUpdates(u) ==
  /\ \A r \in Requests : UpdatingFor(r, u)' =>
       /\ UpdatingFor(r, u)
       /\ step'[r] = "delete" => step[r] = "delete" /\ seen'[r] = seen[r]
  /\ stage'[u] \in {"new", "created"} => stage[u] \in {"new", "created"}

\* The priority that the unit has to have stays.
SameRight(u) ==
  /\ rowPriority'[u] = rowPriority[u]
  /\ \A r \in Requests : /\ PastFor(r, u)' <=> PastFor(r, u)
                         /\ PastFor(r, u) => asked'[r] = asked[r]

\* No request goes on to MySQL while the unit is in the old set.
SameLegacy(u) ==
  /\ legacy' \in {legacy, <<>>}
  /\ rowPriority'[u] = rowPriority[u]
  /\ \A r \in Requests : step'[r] = "adjust" /\ Targets(r, u)' =>
       \/ legacy' = <<>>
       \/ step[r] = "adjust" /\ Targets(r, u) /\ asked'[r] = asked[r]

LEMMA LiveIsRight ==
  ASSUME NEW u
  PROVE  LiveRight(u) <=> \A m : Live(m) /\ m.unit = u => Right(u, m.priority)
BY DEF LiveRight, Live, AllRight

LEMMA LiveIsRightNext ==
  ASSUME NEW u
  PROVE  LiveRight(u)' <=> \A m : Live(m)' /\ m.unit = u => Right(u, m.priority)'
<1>1. LiveRight(u)' <=> /\ \A m \in Items(list') : m.unit = u => Right(u, m.priority)'
                        /\ \A c \in Consumers : \A m \in Items(held'[c]) : m.unit = u => Right(u, m.priority)'
                        /\ \A r \in Requests : Rewriting(r)' =>
                             \A m \in Items(seen'[r]) : m.unit = u => Right(u, m.priority)'
  BY DEF LiveRight, AllRight, Items
<1>2. \A m : Live(m)' <=> \/ m \in Items(list')
                          \/ \E c \in Consumers : m \in Items(held'[c])
                          \/ \E r \in Requests : Rewriting(r)' /\ m \in Items(seen'[r])
  BY DEF Live, Items
<1> QED BY <1>1, <1>2

LEMMA SameRightMeans ==
  ASSUME NEW u, SameRight(u)
  PROVE  \A p : Right(u, p)' <=> Right(u, p)
BY DEF SameRight, PastFor, Right

LEMMA LiveStaysRight ==
  ASSUME NEW u, LiveRight(u), LiveMoved(u), \A p : Right(u, p)' <=> Right(u, p)
  PROVE  LiveRight(u)'
BY LiveIsRight, LiveIsRightNext DEF LiveMoved

LEMMA FewerStaysOne ==
  ASSUME NEW u, OneUpdate(u), FewerUpdates(u)
  PROVE  OneUpdate(u)'
BY DEF OneUpdate, FewerUpdates, UpdatingFor

LEMMA LegacyStaysRight ==
  ASSUME NEW u, LegacyRight(u), SameLegacy(u)
  PROVE  LegacyRight(u)'
<1>1. Items(<<>>) = {} /\ UnitsIn(<<>>) = {}
  BY SingleItem
<1>2. \A m \in Items(legacy') : m.unit = u => m.priority = rowPriority'[u]
  BY <1>1 DEF LegacyRight, SameLegacy
<1>3. u \in UnitsIn(legacy') => \A r \in Requests : step'[r] = "adjust" /\ Targets(r, u)' =>
        Adjusted(rowPriority'[u], asked'[r].action) = rowPriority'[u]
  <2> SUFFICES ASSUME u \in UnitsIn(legacy'), NEW r \in Requests, step'[r] = "adjust", Targets(r, u)'
               PROVE  Adjusted(rowPriority'[u], asked'[r].action) = rowPriority'[u]
    OBVIOUS
  <2>1. legacy' = legacy /\ step[r] = "adjust" /\ Targets(r, u) /\ asked'[r] = asked[r]
    BY <1>1 DEF SameLegacy
  <2> QED BY <2>1 DEF LegacyRight, SameLegacy
<1> QED BY <1>2, <1>3 DEF LegacyRight

\* What others are about to push back stays right, or they learn that it is not.
LEMMA RewriteStaysRight ==
  ASSUME ShapeInv, NEW a, OnlyOf(a), Tells(a), NEW u, RewriteRight(u),
         rowPriority'[u] = rowPriority[u], \A p : Right(u, p)' <=> Right(u, p),
         Disturb(a) \/ \A q \in Requests : Rewritten(u, q) => Rewritten(u, q)',
         a \in Requests => RewriteRightOf(a, u)'
  PROVE  RewriteRight(u)'
<1> SUFFICES ASSUME NEW r \in Requests, r # a, step'[r] = "delete", ~disturbed'[r]
             PROVE  RewriteRightOf(r, u)'
  BY DEF RewriteRight, RewriteRightOf
<1>1. /\ r \in Actors /\ step[r] = "delete" /\ job'[r] = job[r] /\ seen'[r] = seen[r]
      /\ asked'[r] = asked[r] /\ targets'[r] = targets[r]
  BY NamesDiffer DEF OnlyOf
<1>2. job[r] \in {"normalize", "update"}
  BY <1>1 DEF ShapeInv, Shaped, RequestPlace
<1>3. ~Disturb(a)
  BY <1>1, <1>2, DisturbDoes DEF MayOutdate
<1>4. ~disturbed[r]
  BY <1>1, <1>3 DEF Tells
<1>5. AllRight(seen[r], u)' <=> AllRight(seen[r], u)
  BY <1>1 DEF AllRight
<1> QED BY <1>1, <1>3, <1>4, <1>5 DEF RewriteRight, RewriteRightOf, Targets

AgreedSoFar == CurrentInv /\ PlacedInv /\ AgreedInv

LEMMA AgreedParts ==
  ASSUME AgreedSoFar
  PROVE  /\ ShapeInv /\ CurrentInv /\ PlacedInv /\ AgreedInv
         /\ ActorsTyped /\ StoresTyped /\ disturbed \in [Actors -> BOOLEAN]
         /\ \A c \in Consumers : ConsumerPlace(c) /\ c \in Actors /\ c \notin Requests
         /\ \A r \in Requests : RequestPlace(r) /\ r \in Actors /\ r \notin Consumers
         /\ \A u \in Units \ (raced \cup skewed) : Agreed(u) /\ Placed(u)
BY TypesSplit, NamesDiffer
   DEF AgreedSoFar, CurrentInv, ShapeInv, Shaped, BoundsTyped, PlacedInv, AgreedInv

\* Frame: requests and rows as before, messages moved.
LEMMA MovingKeepsAgreed ==
  ASSUME ShapeInv, NEW a, OnlyOf(a), Tells(a), NEW u, Agreed(u),
         FewerUpdates(u), SameRight(u), SameLegacy(u), LiveMoved(u) \/ LiveRight(u)',
         Disturb(a) \/ \A q \in Requests : Rewritten(u, q) => Rewritten(u, q)',
         a \in Requests => RewriteRightOf(a, u)'
  PROVE  Agreed(u)'
<1>1. \A p : Right(u, p)' <=> Right(u, p)
  BY SameRightMeans
<1>2. OneUpdate(u)'
  BY FewerStaysOne DEF Agreed
<1>3. LiveRight(u)'
  BY <1>1, LiveStaysRight DEF Agreed
<1>4. RewriteRight(u)'
  BY <1>1, RewriteStaysRight DEF Agreed, SameRight
<1>5. LegacyRight(u)'
  BY LegacyStaysRight DEF Agreed
<1>6. stage'[u] \in {"new", "created"} => rowPriority'[u] = Given[u]
  BY DEF Agreed, FewerUpdates, SameRight
<1> QED BY <1>2, <1>3, <1>4, <1>5, <1>6 DEF Agreed

\* Whoever is not a request leaves all requests as they are.
LEMMA RequestsUntouched ==
  ASSUME NEW a, a \notin Requests, OnlyOf(a), NEW u, rowPriority'[u] = rowPriority[u],
         stage'[u] \in {"new", "created"} => stage[u] \in {"new", "created"}
  PROVE  /\ FewerUpdates(u) /\ SameRight(u) /\ SameLegacy(u)
         /\ \A r \in Requests : /\ Rewritten(u, r)' <=> Rewritten(u, r)
                                /\ Rewriting(r)' <=> Rewriting(r)
                                /\ seen'[r] = seen[r]
<1>1. \A r \in Requests : /\ step'[r] = step[r] /\ job'[r] = job[r] /\ seen'[r] = seen[r]
                          /\ asked'[r] = asked[r] /\ targets'[r] = targets[r]
  BY DEF OnlyOf, Actors
<1>2. legacy' \in {legacy, <<>>}
  BY DEF OnlyOf
<1>3. \A r \in Requests : /\ Updating(r)' <=> Updating(r)
                          /\ Past(r)' <=> Past(r)
                          /\ Targets(r, u)' <=> Targets(r, u)
                          /\ Rewriting(r)' <=> Rewriting(r)
  BY <1>1 DEF Updating, Past, Targets, Rewriting
<1>4. FewerUpdates(u)
  BY <1>1, <1>3 DEF FewerUpdates, UpdatingFor
<1>5. SameRight(u)
  BY <1>1, <1>3 DEF SameRight, PastFor
<1>6. SameLegacy(u)
  BY <1>1, <1>2, <1>3 DEF SameLegacy
<1> QED BY <1>1, <1>3, <1>4, <1>5, <1>6 DEF Rewritten

\* A consumer takes a message as it is and gives it back with its priority.
LEMMA ConsumerAgrees ==
  ASSUME AgreedSoFar, NEW c \in Consumers, ConsumerStep(c),
         NEW u \in Units \ raced', Agreed(u)
  PROVE  Agreed(u)'
<1>1. /\ ShapeInv /\ CurrentInv /\ ActorsTyped /\ StoresTyped /\ ConsumerPlace(c)
      /\ c \in Actors /\ c \notin Requests
  BY AgreedParts
<1>2. OnlyOf(c) /\ Tells(c)
  BY <1>1, ConsumerKeepsShape, EveryStepTells
<1>3. /\ list \in Seq(Messages) /\ held \in [Consumers -> Seq(Messages)]
      /\ stage \in [Units -> {"new", "created", "pushed", "done"}]
  BY <1>1 DEF StoresTyped
<1>4. rowPriority' = rowPriority
  BY <1>2 DEF ConsumerStep, GetStrategy, ReadLength, ReadItem, ReadPriorityState, PopHighestPriority,
       NothingElevated, BlockingPop, PopTimesOut, WorkEnds, Retry, mysql
<1>5. Moves(c) \/ (MovesNothing(c) /\ stage' = stage)
  BY <1>1, OthersMoveNothing
<1>6. stage'[u] \in {"new", "created"} => stage[u] \in {"new", "created"}
  <2>1. CASE Retry(c) \/ WorkEnds(c)
    <3>1. \E v, s : s \in {"done", "pushed"} /\ stage' = [stage EXCEPT ![v] = s]
      BY <2>1 DEF Retry, WorkEnds
    <3> QED BY <1>3, <3>1
  <2>2. CASE PopHighestPriority(c) \/ BlockingPop(c)
    BY <2>2 DEF PopHighestPriority, BlockingPop, mysql
  <2> QED BY <1>1, <1>5, <2>1, <2>2 DEF Moves
<1>7. /\ FewerUpdates(u) /\ SameRight(u) /\ SameLegacy(u)
      /\ \A r \in Requests : /\ Rewritten(u, r)' <=> Rewritten(u, r)
                             /\ Rewriting(r)' <=> Rewriting(r)
                             /\ seen'[r] = seen[r]
  BY <1>1, <1>2, <1>4, <1>6, RequestsUntouched
<1>8. \A d \in Consumers : d # c => held'[d] = held[d]
  BY <1>2 DEF OnlyOf
<1>9. LiveMoved(u)
  <2> SUFFICES ASSUME NEW m, Live(m)', m.unit = u
               PROVE  \E n : Live(n) /\ n.unit = u /\ n.priority = m.priority
    BY DEF LiveMoved
  <2>1. m \in Items(list') \/ m \in Items(held'[c]) \/ Live(m)
    BY <1>7, <1>8 DEF Live
  <2>2. (m \in Items(list) => Live(m)) /\ (m \in Items(held[c]) => Live(m))
    BY DEF Live
  <2>3. CASE MovesNothing(c)
    BY <2>1, <2>2, <2>3 DEF MovesNothing
  <2>4. CASE PopHighestPriority(c)
    <3>1. Selected(c) \in Messages
      BY <1>1, <2>4, SelectedTyped DEF PopHighestPriority
    <3>2. list' = Remove(list, Selected(c)) /\ held'[c] = <<Selected(c)>>
      BY <1>3, <2>4 DEF PopHighestPriority
    <3>3. Items(list') \subseteq Items(list)
      BY <1>3, <3>1, <3>2, RemoveItems
    <3>4. Items(held'[c]) = {Selected(c)}
      BY <3>2, SingleItem
    <3>5. CASE m = Selected(c) /\ Selected(c) \in Items(list)
      BY <2>2, <3>5
    <3>6. CASE m = Selected(c) /\ Selected(c) \notin Items(list)
      <4>1. u \in raced'
        BY <2>4, <3>6 DEF PopHighestPriority, Items
      <4> QED BY <4>1
    <3> QED BY <2>1, <2>2, <3>3, <3>4, <3>5, <3>6
  <2>5. CASE BlockingPop(c)
    <3>1. list' = Tail(list) /\ list # <<>> /\ held'[c] = <<Head(list)>>
      BY <1>3, <2>5 DEF BlockingPop
    <3>2. Items(list) = {Head(list)} \cup Items(Tail(list))
      BY <1>3, <3>1, TailItems
    <3>3. Items(held'[c]) = {Head(list)}
      BY <3>1, SingleItem
    <3> QED BY <2>1, <2>2, <3>1, <3>2, <3>3
  <2>6. CASE WorkEnds(c)
    <3>1. list' = list /\ held'[c] = <<>>
      BY <1>3, <2>6 DEF WorkEnds, redis
    <3> QED BY <2>1, <2>2, <3>1, SingleItem
  <2>7. CASE Retry(c)
    <3>1. PICK n \in Messages : held[c] = <<n>>
      BY <1>1, <2>7 DEF Retry, ConsumerPlace
    <3>2. /\ Requeued(n) \in Messages /\ Requeued(n).unit = n.unit
          /\ Requeued(n).priority = n.priority
      <4>1. n.retry \in 0..Retries /\ n.retry < Retries
        BY <2>7, <3>1 DEF Retry, Messages
      <4>2. n.retry + 1 \in 0..Retries
        BY <4>1, QueueAssumption
      <4> QED BY <4>2 DEF Requeued, Messages
    <3>3. list' = Append(list, Requeued(n)) /\ held'[c] = <<>>
      BY <1>3, <2>7, <3>1 DEF Retry
    <3>4. Items(list') = Items(list) \cup {Requeued(n)}
      BY <1>3, <3>2, <3>3, AppendItems
    <3>5. Live(n)
      BY <3>1, SingleItem DEF Live
    <3> QED BY <2>1, <2>2, <3>2, <3>3, <3>4, <3>5, SingleItem
  <2> QED BY <1>1, <1>5, <2>3, <2>4, <2>5, <2>6, <2>7 DEF Moves
<1> QED BY <1>1, <1>2, <1>7, <1>9, MovingKeepsAgreed

\* A new unit is published with the priority of its row, which nobody changes yet; a row
\* that is inserted again with another priority is no longer spoken of.
LEMMA OtherAgrees ==
  ASSUME AgreedSoFar, OtherAct, NEW u \in Units \ skewed', Agreed(u)
  PROVE  Agreed(u)'
<1>1. /\ ShapeInv /\ CurrentInv /\ StoresTyped /\ "dispatcher" \notin Requests
  BY AgreedParts, NamesDiffer
<1>2. OnlyOf("dispatcher") /\ Tells("dispatcher")
  BY <1>1, OthersKeepShape, EveryStepTells
<1>3. rowPriority'[u] = rowPriority[u] /\ held' = held
  <2>1. rowPriority \in [Units -> Priorities]
    BY <1>1 DEF StoresTyped
  <2>2. ASSUME NEW v \in Units, NEW priority, InsertAgain(v, priority)
        PROVE  rowPriority'[u] = rowPriority[u] /\ held' = held
    BY <2>1, <2>2 DEF InsertAgain
  <2>3. CASE \E v \in Units : InsertsAgain(v)
    BY <2>2, <2>3 DEF InsertsAgain, ExpandAgain, CreateTask
  <2> QED BY <2>3 DEF OtherAct, InsertsAgain, SetStrategy, CreateRow, PushNew, mysql
<1>4. stage'[u] \in {"new", "created"} => stage[u] \in {"new", "created"}
  <2>1. stage \in [Units -> {"new", "created", "pushed", "done"}]
    BY <1>1 DEF StoresTyped
  <2> QED BY <2>1 DEF OtherAct, SetStrategy, CreateRow, ExpandAgain, CreateTask, InsertAgain, PushNew,
                      mysql
<1>5. /\ FewerUpdates(u) /\ SameRight(u) /\ SameLegacy(u)
      /\ \A r \in Requests : /\ Rewritten(u, r)' <=> Rewritten(u, r)
                             /\ Rewriting(r)' <=> Rewriting(r)
                             /\ seen'[r] = seen[r]
  BY <1>1, <1>2, <1>3, <1>4, RequestsUntouched
<1>6. LiveRight(u)'
  <2>1. \A p : Right(u, p)' <=> Right(u, p)
    BY <1>5, SameRightMeans
  <2>2. \A m : Live(m)' => m \in Items(list') \/ Live(m)
    BY <1>3, <1>5 DEF Live
  <2>3. CASE ~\E v \in Units : PushNew(v)
    <3>1. list' = list
      BY <2>3 DEF OtherAct, SetStrategy, CreateRow, ExpandAgain, CreateTask, InsertAgain, redis
    <3>2. LiveMoved(u)
      BY <2>2, <3>1 DEF LiveMoved, Live
    <3> QED BY <2>1, <3>2, LiveStaysRight DEF Agreed
  <2>4. ASSUME NEW v \in Units, PushNew(v)
        PROVE  LiveRight(u)'
    <3> DEFINE n == [unit |-> v, priority |-> Given[v], retry |-> 0]
    <3>1. n \in Messages /\ n.unit = v /\ n.priority = Given[v]
      BY QueueAssumption DEF Messages
    <3>2. list' = Append(list, n) /\ stage[v] = "created"
      BY <2>4 DEF PushNew
    <3> HIDE DEF n
    <3>3. Items(list') = Items(list) \cup {n}
      BY <1>1, <3>1, <3>2, AppendItems DEF StoresTyped
    <3>4. u = v => Right(u, Given[u])
      <4>1. u = v => rowPriority[u] = Given[u] /\ \A r \in Requests : ~PastFor(r, u)
        BY <3>2 DEF Agreed, OneUpdate, PastFor, Past, Updating
      <4> QED BY <4>1 DEF Right, PastFor
    <3>5. \A m : Live(m)' => Live(m) \/ m = n
      BY <2>2, <3>3 DEF Live
    <3> QED BY <2>1, <3>1, <3>4, <3>5, LiveIsRight, LiveIsRightNext DEF Agreed
  <2> QED BY <2>3, <2>4
<1>7. \A q \in Requests : Rewritten(u, q) => Rewritten(u, q)'
  BY <1>5
<1> QED BY <1>1, <1>2, <1>5, <1>6, <1>7, MovingKeepsAgreed

\* Most steps of a request neither begin nor end a change of priorities.
Changes(r) == DeleteList(r) \/ ReadForUpdate(r) \/ AdjustRows(r)

PlainFor(r, u) ==
  /\ UpdatingFor(r, u)' => UpdatingFor(r, u) /\ step'[r] # "delete"
  /\ PastFor(r, u)' <=> PastFor(r, u)
  /\ PastFor(r, u) => asked'[r] = asked[r]
  /\ step'[r] = "adjust" /\ Targets(r, u)' => legacy' = <<>>

LEMMA PlainGives ==
  ASSUME NEW r \in Requests, OnlyOf(r), UNCHANGED <<rowPriority, stage>>, NEW u, PlainFor(r, u)
  PROVE  FewerUpdates(u) /\ SameRight(u) /\ SameLegacy(u)
<1>1. \A q \in Requests : q # r =>
        /\ step'[q] = step[q] /\ job'[q] = job[q] /\ seen'[q] = seen[q]
        /\ asked'[q] = asked[q] /\ targets'[q] = targets[q]
  BY DEF OnlyOf, Actors
<1>2. \A q \in Requests : q # r => /\ UpdatingFor(q, u)' <=> UpdatingFor(q, u)
                                   /\ PastFor(q, u)' <=> PastFor(q, u)
                                   /\ Targets(q, u)' <=> Targets(q, u)
  BY <1>1 DEF UpdatingFor, Updating, PastFor, Past, Targets
<1>3. FewerUpdates(u)
  BY <1>1, <1>2 DEF FewerUpdates, PlainFor
<1>4. SameRight(u)
  BY <1>1, <1>2 DEF SameRight, PlainFor
<1>5. SameLegacy(u)
  BY <1>1, <1>2 DEF SameLegacy, PlainFor, OnlyOf
<1> QED BY <1>3, <1>4, <1>5

LEMMA PlainRequest ==
  ASSUME AgreedSoFar, NEW r \in Requests, RequestAct(r), ~Changes(r),
         NEW u \in Units \ skewed'
  PROVE  PlainFor(r, u) /\ UNCHANGED <<rowPriority, stage>>
<1>1. ShapeInv /\ ActorsTyped /\ RequestPlace(r) /\ r \in Actors
  BY AgreedParts
<1>2. CASE ViewProducts(r) \/ ApplyPriority(r) \/ ClearLength(r) \/ ReadLength(r) \/ ReadItem(r)
           \/ ReadForNormalize(r) \/ CollectTasks(r) \/ ClearList(r) \/ ClearLegacy(r)
  <2>1. ~Updating(r) /\ ~Past(r) /\ UNCHANGED <<rowPriority, stage>>
    BY <1>2 DEF ViewProducts, ApplyPriority, ClearLength, Accept, ReadLength, ReadItem, ReadForNormalize,
                CollectTasks, ListRead, ClearList, ClearLegacy, Updating, Past, mysql
  <2>2. \/ step'[r] \in {"idle", "length", "item", "clear_list", "clear_legacy"}
        \/ step'[r] = "delete" /\ job'[r] = "normalize"
    <3>1. CASE ReadLength(r) \/ ReadItem(r) \/ ClearList(r) \/ ClearLegacy(r)
      BY <1>1, <3>1 DEF ReadLength, ReadItem, ClearList, ClearLegacy, ActorsTyped
    <3>2. CASE ReadForNormalize(r)
      BY <1>1, <3>2, StepAfter DEF ReadForNormalize
    <3>3. CASE ViewProducts(r) \/ ApplyPriority(r) \/ ClearLength(r) \/ CollectTasks(r)
      <4>1. \E next \in {"idle", "length", "clear_list", "clear_legacy"} :
              \E purpose, messages : Go(r, next, purpose, messages)
        BY <3>3 DEF ViewProducts, ApplyPriority, ClearLength, CollectTasks, Read
      <4> QED BY <1>1, <4>1, StepAfter
    <3> QED BY <1>2, <3>1, <3>2, <3>3
  <2> QED BY <2>1, <2>2 DEF PlainFor, UpdatingFor, PastFor, Updating, Past
<1>3. CASE DeleteLegacy(r) \/ PushBack(r)
  <2>1. /\ step[r] \in {"delete_legacy", "push"} /\ UNCHANGED <<asked, targets, rowPriority, stage>>
        /\ legacy' = <<>>
    BY <1>1, <1>3 DEF DeleteLegacy, PushBack, RequestPlace, request, mysql
  <2>2. \/ step'[r] = "push" /\ job'[r] = job[r]
        \/ job[r] = "update" /\ step'[r] = "adjust" /\ job'[r] = "update"
        \/ job[r] # "update" /\ step'[r] \in {"idle", "length"}
    <3>1. AfterRewrite(r) => \/ job[r] = "update" /\ step'[r] = "adjust" /\ job'[r] = "update"
                             \/ job[r] # "update" /\ step'[r] \in {"idle", "length"}
      <4>1. CASE job[r] = "update"
        <5>1. AfterRewrite(r) => Go(r, "adjust", "update", <<>>)
          BY <1>1, <4>1 DEF AfterRewrite, RequestPlace
        <5> QED BY <1>1, <4>1, <5>1, StepAfter
      <4>2. CASE job[r] # "update"
        <5>1. AfterRewrite(r) => Go(r, "idle", "none", <<>>) \/ Go(r, "length", "collect", <<>>)
          BY <4>2 DEF AfterRewrite, Read
        <5> QED BY <1>1, <4>2, <5>1, StepAfter
      <4> QED BY <4>1, <4>2
    <3>2. AfterRewrite(r) \/ \E messages : Go(r, "push", job[r], messages)
      BY <1>3 DEF DeleteLegacy, PushBack
    <3> QED BY <1>1, <3>1, <3>2, StepAfter
  <2>3. (Past(r)' <=> Past(r)) /\ (Updating(r)' => Updating(r) /\ step'[r] # "delete")
    BY <2>1, <2>2 DEF Past, Updating
  <2>4. Targets(r, u)' <=> Targets(r, u)
    BY <2>1 DEF Targets
  <2> QED BY <2>1, <2>3, <2>4 DEF PlainFor, UpdatingFor, PastFor
<1>4. CASE RequestFails(r)
  <2>1. step'[r] = "idle" /\ UNCHANGED <<rowPriority, stage>>
    BY <1>1, <1>4, StepAfter DEF RequestFails, mysql
  <2>2. ~(Updating(r) /\ step[r] # "delete" /\ Targets(r, u))
    BY <1>4 DEF RequestFails, Targets
  <2>3. ~PastFor(r, u)
    BY <2>2 DEF PastFor, Past, Updating
  <2> QED BY <2>1, <2>3 DEF PlainFor, UpdatingFor, PastFor, Updating, Past
<1> QED BY <1>2, <1>3, <1>4 DEF RequestAct, RequestStep, Changes

\* Such a step moves no message.
LEMMA NoMessageMoves ==
  ASSUME NEW a, MovesNothing(a), NEW u
  PROVE  /\ \A m : Live(m)' <=> Live(m)
         /\ LiveMoved(u)
         /\ \A q \in Requests : Rewritten(u, q)' <=> Rewritten(u, q)
<1>1. \A r \in Requests : r # a => step'[r] = step[r] /\ seen'[r] = seen[r]
  BY DEF MovesNothing, OnlyOf, Actors
<1>2. \A r \in Requests : /\ Rewriting(r)' <=> Rewriting(r)
                          /\ Rewriting(r) => seen'[r] = seen[r]
  BY <1>1 DEF MovesNothing, Rewriting
<1>3. \A m : Live(m)' <=> Live(m)
  BY <1>2 DEF MovesNothing, Live
<1> QED BY <1>2, <1>3 DEF LiveMoved, Rewritten

\* What a request reads undisturbed has the right priorities, unless a rewrite that
\* is about to push the unit back makes them obsolete.
LEMMA QueueReadIsRight ==
  ASSUME AgreedSoFar, NEW r \in Requests, ListRead(r), job[r] \in {"normalize", "update"},
         ~disturbed[r], NEW u \in Units, Agreed(u), Placed(u)
  PROVE  \/ \E q \in Requests : Rewritten(u, q) /\ PastFor(q, u)
         \/ \A m \in Items(QueueRead(r)) : m.unit = u => Right(u, m.priority)
<1> SUFFICES ASSUME \A q \in Requests : ~(Rewritten(u, q) /\ PastFor(q, u)),
                    NEW m \in Items(QueueRead(r)), m.unit = u
             PROVE  Right(u, m.priority)
  OBVIOUS
<1>1. ShapeInv /\ CurrentInv /\ ActorsTyped /\ StoresTyped /\ r \in Actors
  BY AgreedParts
<1>2. seen[r] = list
  BY <1>1, CurrentReadIsList DEF CurrentInv
<1>3. m \in Items(list) \/ m \in Items(legacy)
  BY <1>1, <1>2, QueueReadTyped
<1>4. CASE m \in Items(list)
  BY <1>4 DEF Agreed, LiveRight, AllRight
<1>5. CASE m \in Items(legacy)
  <2>1. u \in UnitsIn(legacy) /\ m.priority = rowPriority[u]
    BY <1>5 DEF Agreed, LegacyRight, Items, UnitsIn
  <2>2. ASSUME NEW q \in Requests, PastFor(q, u)
        PROVE  Adjusted(rowPriority[u], asked[q].action) = rowPriority[u]
    <3>1. step[q] # "delete_legacy"
      BY <2>1, <2>2 DEF Placed, PushedBack, Rewritten, Rewriting
    <3>2. step[q] # "push"
      <4>1. step[q] = "push" => legacy = <<>>
        BY AgreedParts DEF RequestPlace
      <4> QED BY <2>1, <4>1, SingleItem
    <3>3. step[q] = "adjust"
      BY <2>2, <3>1, <3>2 DEF PastFor, Past
    <3> QED BY <2>1, <2>2, <3>3 DEF Agreed, LegacyRight, PastFor
  <2> QED BY <2>1, <2>2 DEF Right, PastFor
<1> QED BY <1>3, <1>4, <1>5

\* A request that neither begins nor ends a change of priorities.
LEMMA PlainAgrees ==
  ASSUME AgreedSoFar, NEW r \in Requests, RequestAct(r), ~Changes(r),
         NEW u \in Units \ (raced' \cup skewed'), Agreed(u), Placed(u)
  PROVE  Agreed(u)'
<1>1. ShapeInv /\ CurrentInv /\ ActorsTyped /\ StoresTyped /\ RequestPlace(r) /\ r \in Actors
      /\ r \notin Consumers
  BY AgreedParts
<1>2. OnlyOf(r) /\ Tells(r)
  BY <1>1, RequestKeepsShape, EveryStepTells
<1>3. PlainFor(r, u) /\ UNCHANGED <<rowPriority, stage>>
  BY PlainRequest
<1>4. FewerUpdates(u) /\ SameRight(u) /\ SameLegacy(u)
  BY <1>2, <1>3, PlainGives
<1>5. \A q \in Requests : q # r => /\ step'[q] = step[q] /\ seen'[q] = seen[q]
                                   /\ Rewriting(q)' <=> Rewriting(q)
  BY <1>2 DEF OnlyOf, Actors, Rewriting
<1>6. /\ LiveMoved(u)
      /\ Disturb(r) \/ \A q \in Requests : Rewritten(u, q) => Rewritten(u, q)'
  <2>1. CASE ~Moves(r)
    BY <1>1, <2>1, OthersMoveNothing, NoMessageMoves
  <2>2. ASSUME held' = held, Items(list') \subseteq Items(list),
               Rewriting(r)' => Rewriting(r) /\ Items(seen'[r]) \subseteq Items(seen[r])
        PROVE  LiveMoved(u)
    <3>1. \A m : Live(m)' => Live(m)
      BY <1>5, <2>2 DEF Live
    <3> QED BY <3>1 DEF LiveMoved
  <2>3. CASE ClearList(r) \/ ClearLegacy(r)
    <3>1. /\ held' = held /\ list' \in {list, <<>>} /\ Disturb(r)
          /\ step'[r] \in {"idle", "clear_legacy"}
      BY <1>1, <2>3 DEF ClearList, ClearLegacy, ActorsTyped
    <3> QED BY <2>2, <3>1, SingleItem DEF Rewriting
  <2>4. CASE RequestFails(r)
    <3>1. /\ held' = held /\ list' = list /\ step'[r] = "idle" /\ ~Rewritten(u, r)
      BY <1>1, <2>4, StepAfter DEF RequestFails, redis, Rewritten
    <3>2. \A q \in Requests : Rewritten(u, q) => Rewritten(u, q)'
      BY <1>5, <3>1 DEF Rewritten
    <3> QED BY <2>2, <3>1, <3>2 DEF Rewriting
  <2>5. CASE DeleteLegacy(r)
    <3>1. /\ held' = held /\ list' = list /\ Disturb(r) /\ Rewriting(r)
          /\ seen'[r] \in {seen[r], <<>>}
      BY <1>1, <2>5, StepAfter DEF DeleteLegacy, Rewriting
    <3> QED BY <2>2, <3>1, SingleItem
  <2>6. CASE PushBack(r)
    <3>1. /\ seen[r] \in Seq(Messages) /\ seen[r] # <<>> /\ list \in Seq(Messages)
          /\ Rewriting(r) /\ held' = held /\ Disturb(r) /\ list' = Append(list, Head(seen[r]))
          /\ seen'[r] \in {Tail(seen[r]), <<>>}
      BY <1>1, <2>6, StepAfter DEF PushBack, RequestPlace, ActorsTyped, StoresTyped, Rewriting
    <3>2. /\ Head(seen[r]) \in Messages
          /\ Items(seen[r]) = {Head(seen[r])} \cup Items(Tail(seen[r]))
      BY <3>1, TailItems
    <3>3. Items(list') = Items(list) \cup {Head(seen[r])}
      BY <3>1, <3>2, AppendItems
    <3>4. Items(seen'[r]) \subseteq Items(seen[r])
      BY <3>1, <3>2, SingleItem
    <3>5. \A m \in Items(seen[r]) : Live(m)
      BY <3>1 DEF Live
    <3>6. Live(Head(seen[r]))
      BY <3>2, <3>5
    <3>7. \A m : Live(m)' => Live(m)
      BY <1>5, <3>1, <3>3, <3>4, <3>5, <3>6 DEF Live
    <3> QED BY <3>1, <3>7 DEF LiveMoved
  <2> QED BY <1>1, <2>1, <2>3, <2>4, <2>5, <2>6 DEF Moves, Changes
<1>7. RewriteRightOf(r, u)'
  <2>1. CASE ~Chooses(r) /\ ~Reads(r)
    <3>1. step'[r] # "delete"
      BY <1>1, <2>1, OnlyReadersRead
    <3> QED BY <3>1 DEF RewriteRightOf
  <2>2. CASE Reads(r)
    <3>1. step'[r] = "item"
      BY <1>1, <2>2 DEF Reads, ReadLength, ReadItem, ActorsTyped
    <3> QED BY <3>1 DEF RewriteRightOf
  <2>3. CASE ReadForNormalize(r)
    <3>1. /\ ListRead(r) /\ job[r] = "normalize" /\ job'[r] = "normalize" /\ seen'[r] = QueueRead(r)
          /\ disturbed' = disturbed
      BY <1>1, <2>3, StepAfter DEF ReadForNormalize
    <3>2. \A q \in Requests : Rewritten(u, q)' <=> Rewritten(u, q)
      <4>1. held' = held /\ list' = list /\ legacy' = legacy /\ step[r] = "item" /\ step'[r] = "delete"
        BY <1>1, <2>3, StepAfter DEF ReadForNormalize, ListRead, redis
      <4> QED BY <1>2, <4>1, NoMessageMoves DEF MovesNothing
    <3>3. \A p : Right(u, p)' <=> Right(u, p)
      BY <1>4, SameRightMeans
    <3> SUFFICES ASSUME ~disturbed[r]
                 PROVE  AllRight(seen[r], u)' \/ \E q \in Requests : Rewritten(u, q)'
      BY <3>1 DEF RewriteRightOf
    <3>4. \/ \E q \in Requests : Rewritten(u, q)
          \/ \A m \in Items(QueueRead(r)) : m.unit = u => Right(u, m.priority)
      BY <3>1, QueueReadIsRight
    <3> QED BY <3>1, <3>2, <3>3, <3>4 DEF AllRight
  <2> QED BY <2>1, <2>2, <2>3 DEF Chooses, Changes
<1> QED BY <1>1, <1>2, <1>4, <1>6, <1>7, MovingKeepsAgreed

\* DEL of the list makes what the request read the only copy, with new priorities
\* when it updates them: those of other requests and consumers have no such unit.
LEMMA DeleteListAgrees ==
  ASSUME AgreedSoFar, NEW r \in Requests, DeleteList(r),
         NEW u \in Units \ (raced' \cup skewed'), Agreed(u), Placed(u), Placed(u)'
  PROVE  Agreed(u)'
<1>1. ShapeInv /\ CurrentInv /\ ActorsTyped /\ StoresTyped /\ RequestPlace(r) /\ r \in Actors
      /\ r \notin Consumers
  BY AgreedParts
<1>2. OnlyOf(r) /\ Disturb(r)
  BY <1>1, RequestKeepsShape DEF DeleteList, RequestAct, RequestStep
<1>3. /\ step[r] = "delete" /\ step'[r] = "delete_legacy" /\ list' = <<>>
      /\ UNCHANGED <<job, seen, held, asked, targets, legacy, rowPriority, stage>>
      /\ \A q \in Requests : q # r => step'[q] = step[q]
  BY <1>1, <1>2 DEF DeleteList, ActorsTyped, mysql, reads, request, OnlyOf, Actors
<1>4. job[r] \in {"normalize", "update"}
  BY <1>1, <1>3 DEF RequestPlace
<1>5. u \in UnitsIn(seen[r]) => ~disturbed[r]
  BY DEF DeleteList
<1>6. /\ \A q \in Requests : /\ Updating(q)' <=> Updating(q)
                             /\ Targets(q, u)' <=> Targets(q, u)
                             /\ q # r => (Past(q)' <=> Past(q))
                             /\ q # r => (Rewriting(q)' <=> Rewriting(q))
      /\ Past(r)' <=> job[r] = "update"
      /\ ~Past(r) /\ Rewriting(r)'
  BY <1>3 DEF Updating, Past, Targets, Rewriting
<1>7. OneUpdate(u)'
  <2>1. FewerUpdates(u)
    BY <1>3, <1>6 DEF FewerUpdates, UpdatingFor
  <2> QED BY <2>1, FewerStaysOne DEF Agreed
<1>8. RewriteRight(u)'
  <2> SUFFICES ASSUME NEW q \in Requests, step'[q] = "delete"
               PROVE  disturbed'[q]
    BY DEF RewriteRight, RewriteRightOf
  <2>1. q # r /\ step[q] = "delete" /\ q \in Actors
    BY <1>3, AgreedParts
  <2>2. job[q] \in {"normalize", "update"}
    BY <2>1, AgreedParts DEF RequestPlace
  <2> QED BY <1>2, <2>1, <2>2, DisturbDoes DEF MayOutdate
<1>9. LegacyRight(u)'
  <2>1. SameLegacy(u)
    BY <1>3, <1>6 DEF SameLegacy
  <2> QED BY <2>1, LegacyStaysRight DEF Agreed
<1>10. \A m : m \in Items(seen[r]) /\ m.unit = u => u \in UnitsIn(seen[r])
  BY DEF Items, UnitsIn
<1>11. /\ \A m : Live(m)' /\ m.unit = u =>
            \/ m \in Items(seen[r])
            \/ Live(m) /\ u \notin UnitsIn(seen[r])
       /\ u \in UnitsIn(seen[r]) => \A q \in Requests : ~Rewritten(u, q)
  <2> SUFFICES ASSUME TRUE
               PROVE  /\ \A m : Live(m)' /\ m.unit = u /\ m \notin Items(seen[r]) =>
                           Live(m) /\ u \notin UnitsIn(seen[r])
                      /\ u \in UnitsIn(seen[r]) => \A q \in Requests : ~Rewritten(u, q)
    OBVIOUS
  <2>1. /\ Rewritten(u, r)' <=> u \in UnitsIn(seen[r])
        /\ \A q \in Requests : q # r => (Rewritten(u, q)' <=> Rewritten(u, q))
        /\ ~Rewritten(u, r)
        /\ \A c \in Consumers : Held(u, c)' <=> Held(u, c)
    BY <1>3, <1>6 DEF Rewritten, Rewriting, Held
  <2>2. u \in UnitsIn(seen[r]) => /\ \A q \in Requests : ~Rewritten(u, q)
                                  /\ \A c \in Consumers : ~Held(u, c)
    BY <2>1 DEF Placed, PushedBack, Worked
  <2>3. ASSUME NEW m, Live(m)', m.unit = u, m \notin Items(seen[r])
        PROVE  Live(m) /\ u \notin UnitsIn(seen[r])
    <3>1. \/ \E c \in Consumers : m \in Items(held[c])
          \/ \E q \in Requests : q # r /\ Rewriting(q) /\ m \in Items(seen[q])
      BY <1>3, <1>6, <2>3, SingleItem DEF Live
    <3>2. \/ \E c \in Consumers : Held(u, c)
          \/ \E q \in Requests : Rewritten(u, q)
      BY <2>3, <3>1 DEF Held, Rewritten, Items, UnitsIn
    <3> QED BY <2>2, <3>1, <3>2 DEF Live
  <2> QED BY <2>2, <2>3
<1>12. LiveRight(u)'
  <2>1. CASE job[r] = "update" /\ Targets(r, u)
    <3>1. u \in UnitsIn(seen[r]) /\ \A q \in Requests : PastFor(q, u)' => q = r
      BY <1>3, <1>6, <2>1 DEF Agreed, OneUpdate, Updating, PastFor, Past
    <3>2. \A p : Right(u, p)' <=> p = Adjusted(rowPriority[u], asked[r].action)
      BY <1>3, <1>6, <2>1, <3>1 DEF Right, PastFor
    <3>3. \A m \in Items(seen[r]) : m.unit = u =>
            m.priority = Adjusted(rowPriority[u], asked[r].action)
      BY <1>3, <1>5, <2>1, <3>1 DEF Agreed, RewriteRight, RewriteRightOf
    <3> QED BY <1>11, <3>1, <3>2, <3>3, LiveIsRightNext
  <2>2. CASE ~(job[r] = "update" /\ Targets(r, u))
    <3>1. SameRight(u)
      BY <1>3, <1>6, <2>2 DEF SameRight, PastFor
    <3>2. \A p : Right(u, p)' <=> Right(u, p)
      BY <3>1, SameRightMeans
    <3>3. u \in UnitsIn(seen[r]) => AllRight(seen[r], u)
      BY <1>3, <1>5, <1>11, <2>2 DEF Agreed, RewriteRight, RewriteRightOf
    <3> QED BY <1>10, <1>11, <3>2, <3>3, LiveIsRight, LiveIsRightNext DEF AllRight, Agreed
  <2> QED BY <2>1, <2>2
<1>13. stage'[u] \in {"new", "created"} => rowPriority'[u] = Given[u]
  BY <1>3 DEF Agreed
<1> QED BY <1>7, <1>8, <1>9, <1>12, <1>13 DEF Agreed

\* The UPDATE gives the row the priority that the messages already have.
LEMMA AdjustRowsAgrees ==
  ASSUME AgreedSoFar, NEW r \in Requests, AdjustRows(r),
         NEW u \in Units, Agreed(u), Placed(u)
  PROVE  Agreed(u)'
<1>1. ShapeInv /\ CurrentInv /\ ActorsTyped /\ StoresTyped /\ RequestPlace(r) /\ r \in Actors
      /\ r \notin Consumers
  BY AgreedParts
<1>2. OnlyOf(r) /\ Tells(r)
  BY <1>1, RequestKeepsShape, EveryStepTells DEF RequestAct, RequestStep
<1>3. /\ step[r] = "adjust" /\ step'[r] = "idle" /\ job[r] = "update"
      /\ UNCHANGED <<list, legacy, held, stage>>
      /\ \A q \in Requests : q # r => /\ step'[q] = step[q] /\ job'[q] = job[q] /\ seen'[q] = seen[q]
                                      /\ asked'[q] = asked[q] /\ targets'[q] = targets[q]
  BY <1>1, <1>2, StepAfter DEF AdjustRows, RequestPlace, redis, OnlyOf, Actors
<1>4. MovesNothing(r)
  BY <1>2, <1>3 DEF MovesNothing
<1>5. /\ ~Updating(r)' /\ ~Past(r)' /\ Updating(r) /\ Past(r)
      /\ \A q \in Requests : q # r => /\ Updating(q)' <=> Updating(q)
                                      /\ Past(q)' <=> Past(q)
                                      /\ Targets(q, u)' <=> Targets(q, u)
  BY <1>3 DEF Updating, Past, Targets
<1>6. OneUpdate(u)'
  <2>1. FewerUpdates(u)
    BY <1>3, <1>5 DEF FewerUpdates, UpdatingFor
  <2> QED BY <2>1, FewerStaysOne DEF Agreed
<1>7. rowPriority'[u] = IF Targets(r, u) /\ stage[u] \in {"created", "pushed"}
                        THEN Adjusted(rowPriority[u], asked[r].action) ELSE rowPriority[u]
  BY DEF AdjustRows, Adjustable, Targets
<1>8. CASE ~Targets(r, u)
  <2>1. SameRight(u)
    BY <1>3, <1>5, <1>7, <1>8 DEF SameRight, PastFor
  <2>2. SameLegacy(u) /\ FewerUpdates(u)
    BY <1>3, <1>5, <1>7, <1>8 DEF SameLegacy, FewerUpdates, UpdatingFor
  <2>3. RewriteRightOf(r, u)'
    BY <1>3 DEF RewriteRightOf
  <2> QED BY <1>1, <1>2, <1>4, <2>1, <2>2, <2>3, NoMessageMoves, MovingKeepsAgreed
<1>9. CASE Targets(r, u)
  <2>1. /\ \A q \in Requests : UpdatingFor(q, u) => q = r
        /\ stage[u] \notin {"new", "created"}
    BY <1>5, <1>9 DEF Agreed, OneUpdate, UpdatingFor
  <2>2. /\ \A p : Right(u, p) <=> p = Adjusted(rowPriority[u], asked[r].action)
        /\ \A p : Right(u, p)' <=> p = rowPriority'[u]
    <3>1. \A q \in Requests : /\ Past(q) /\ Targets(q, u) <=> q = r
                              /\ ~(Past(q) /\ Targets(q, u))'
      BY <1>5, <1>9, <2>1 DEF UpdatingFor, Updating, Past
    <3> QED BY <3>1 DEF Right
  <2>3. CASE stage[u] = "pushed"
    <3>1. \A p : Right(u, p)' <=> Right(u, p)
      BY <1>7, <1>9, <2>2, <2>3
    <3>2. LiveRight(u)'
      BY <1>4, <3>1, NoMessageMoves, LiveStaysRight DEF Agreed
    <3>3. RewriteRight(u)'
      <4> SUFFICES ASSUME NEW q \in Requests, step'[q] = "delete", ~disturbed'[q]
                   PROVE  AllRight(seen[q], u)' \/ \E o \in Requests : Rewritten(u, o)'
        <5>1. \A q \in Requests : step'[q] = "delete" => ~(job'[q] = "update" /\ Targets(q, u)')
          BY <1>3, <1>5, <2>1 DEF UpdatingFor, Updating
        <5> QED BY <5>1 DEF RewriteRight, RewriteRightOf
      <4>1. q # r /\ step[q] = "delete" /\ seen'[q] = seen[q] /\ q \in Actors
        BY <1>3, AgreedParts
      <4>2. ~disturbed[q]
        <5>1. job[q] \in {"normalize", "update"}
          BY <4>1, AgreedParts DEF RequestPlace
        <5> QED BY <1>2, <4>1, <5>1, DisturbDoes DEF Tells, MayOutdate
      <4>3. ~(job[q] = "update" /\ Targets(q, u))
        BY <2>1, <4>1 DEF UpdatingFor, Updating
      <4>4. AllRight(seen[q], u) \/ \E o \in Requests : Rewritten(u, o)
        BY <4>1, <4>2, <4>3 DEF Agreed, RewriteRight, RewriteRightOf
      <4>5. AllRight(seen[q], u)' <=> AllRight(seen[q], u)
        BY <3>1, <4>1 DEF AllRight
      <4> QED BY <1>4, <4>4, <4>5, NoMessageMoves
    <3>4. LegacyRight(u)'
      <4>1. \A q \in Requests : step'[q] = "adjust" => ~Targets(q, u)'
        <5>1. \A q \in Requests : step[q] = "adjust" => Updating(q)
          BY AgreedParts DEF RequestPlace, Updating
        <5> QED BY <1>3, <1>5, <2>1, <5>1 DEF UpdatingFor
      <4>2. u \in UnitsIn(legacy) => rowPriority'[u] = rowPriority[u]
        BY <1>3, <1>7, <1>9, <2>3 DEF Agreed, LegacyRight
      <4>3. \A m \in Items(legacy) : m.unit = u => m.priority = rowPriority'[u]
        BY <4>2 DEF Agreed, LegacyRight, Items, UnitsIn
      <4> QED BY <1>3, <4>1, <4>3 DEF LegacyRight
    <3> QED BY <1>3, <1>6, <2>1, <3>2, <3>3, <3>4 DEF Agreed
  <2>4. CASE stage[u] # "pushed"
    <3>1. ~Somewhere(u)
      BY <2>4 DEF Placed
    <3>2. \A m : Live(m) => m.unit # u
      BY <3>1 DEF Live, Somewhere, Held, Rewritten, Items, UnitsIn
    <3>3. LiveRight(u)'
      BY <1>4, <3>2, NoMessageMoves, LiveIsRightNext
    <3>4. RewriteRight(u)'
      <4> SUFFICES ASSUME NEW q \in Requests, step'[q] = "delete", ~disturbed'[q]
                   PROVE  AllRight(seen[q], u)'
        <5>1. \A q \in Requests : step'[q] = "delete" => ~(job'[q] = "update" /\ Targets(q, u)')
          BY <1>3, <1>5, <2>1 DEF UpdatingFor, Updating
        <5> QED BY <5>1 DEF RewriteRight, RewriteRightOf
      <4>1. q # r /\ step[q] = "delete" /\ seen'[q] = seen[q] /\ q \in Actors
        BY <1>3, AgreedParts
      <4>2. ~disturbed[q]
        <5>1. job[q] \in {"normalize", "update"}
          BY <4>1, AgreedParts DEF RequestPlace
        <5> QED BY <1>2, <4>1, <5>1, DisturbDoes DEF Tells, MayOutdate
      <4>3. UnitsIn(seen[q]) = UnitsIn(list) \cup UnitsIn(legacy)
        BY <1>1, <4>1, <4>2 DEF CurrentInv, ReadsAreCurrent, ReadIsCurrent
      <4>4. \A m \in Items(seen[q]) : m.unit # u
        BY <3>1, <4>3 DEF Somewhere, Items, UnitsIn
      <4> QED BY <4>1, <4>4 DEF AllRight
    <3>5. LegacyRight(u)'
      <4>1. u \notin UnitsIn(legacy') /\ \A m \in Items(legacy') : m.unit # u
        BY <1>3, <3>1 DEF Somewhere, Items, UnitsIn
      <4> QED BY <4>1 DEF LegacyRight
    <3> QED BY <1>3, <1>6, <2>1, <3>3, <3>4, <3>5 DEF Agreed
  <2> QED BY <2>3, <2>4
<1> QED BY <1>8, <1>9

\* A request that goes on to change priorities has in hand every unit it will change.
LEMMA ReadForUpdateAgrees ==
  ASSUME AgreedSoFar, NEW r \in Requests, ReadForUpdate(r),
         NEW u \in Units \ (raced' \cup skewed'), Agreed(u), Placed(u)
  PROVE  Agreed(u)'
<1>1. ShapeInv /\ CurrentInv /\ ActorsTyped /\ StoresTyped /\ RequestPlace(r) /\ r \in Actors
      /\ r \notin Consumers /\ disturbed \in [Actors -> BOOLEAN]
  BY AgreedParts
<1>2. OnlyOf(r) /\ Tells(r)
  BY <1>1, RequestKeepsShape, EveryStepTells DEF RequestAct, RequestStep
<1> DEFINE s == QueueRead(r)
           new == Reprioritised(s, targets[r], asked[r].action)
<1>3. s \in Seq(Messages) /\ UnitsIn(s) = UnitsIn(seen[r]) \cup UnitsIn(legacy)
      /\ Items(s) \subseteq Items(seen[r]) \cup Items(legacy)
  BY <1>1, QueueReadTyped
<1>4. /\ ListRead(r) /\ step[r] = "item" /\ job[r] = "update" /\ job'[r] = "update"
      /\ UNCHANGED <<list, legacy, held, asked, targets, rowPriority, stage>>
      /\ \/ step'[r] = "adjust" /\ new = s
         \/ step'[r] = "delete" /\ seen'[r] = new
      /\ disturbed'[r] <=> disturbed[r] /\ step'[r] = "delete"
      /\ \A q \in Requests : q # r => /\ step'[q] = step[q] /\ job'[q] = job[q] /\ seen'[q] = seen[q]
                                      /\ asked'[q] = asked[q] /\ targets'[q] = targets[q]
  <2>1. /\ ListRead(r) /\ step[r] = "item" /\ job[r] = "update"
        /\ UNCHANGED <<list, legacy, held, asked, targets, rowPriority, stage>>
    BY DEF ReadForUpdate, ListRead, redis, mysql, request
  <2>2. \/ new = s /\ Go(r, "adjust", "update", <<>>)
        \/ Go(r, "delete", "update", new)
    BY DEF ReadForUpdate
  <2>3. /\ job'[r] = "update"
        /\ \/ step'[r] = "adjust" /\ new = s
           \/ step'[r] = "delete" /\ seen'[r] = new
    <3> HIDE DEF new, s
    <3> QED BY <1>1, <2>2, StepAfter
  <2>4. disturbed'[r] <=> disturbed[r] /\ step'[r] = "delete"
    BY <1>1 DEF ReadForUpdate
  <2>5. \A q \in Requests : q # r => /\ step'[q] = step[q] /\ job'[q] = job[q] /\ seen'[q] = seen[q]
                                     /\ asked'[q] = asked[q] /\ targets'[q] = targets[q]
    BY <1>2 DEF OnlyOf, Actors
  <2> QED BY <2>1, <2>3, <2>4, <2>5
<1>5. asked[r].action \in {"raise", "lower", "reset"}
  <2>1. asked[r] # Nobody /\ asked[r] \in Asks(r)
    BY <1>1, <1>4 DEF RequestPlace, StoresTyped
  <2> QED BY <2>1, AskedActions
<1>6. /\ new \in Seq(Messages) /\ UnitsIn(new) = UnitsIn(s)
      /\ Len(new) = Len(s)
      /\ \A i \in DOMAIN s :
           /\ new[i].unit = s[i].unit
           /\ new[i].priority = IF TaskOf[s[i].unit] \in targets[r]
                                THEN Adjusted(s[i].priority, asked[r].action) ELSE s[i].priority
  <2> HIDE DEF s
  <2> QED BY <1>3, <1>5, ReprioritisedItems
<1>7. u \notin OutOfReach(r)
  BY DEF ReadForUpdate
<1> HIDE DEF s, new
<1>8. \A m \in Items(new) : m.unit = u => \E n \in Items(s) :
        /\ n.unit = u
        /\ m.priority = IF Targets(r, u) THEN Adjusted(n.priority, asked[r].action) ELSE n.priority
  <2>1. DOMAIN new = DOMAIN s
    BY <1>3, <1>6, TypedItems
  <2> QED BY <1>6, <2>1 DEF Items, Targets
<1>9. MovesNothing(r)
  BY <1>2, <1>4 DEF MovesNothing
<1>10. /\ ~Updating(r) /\ ~Past(r)
       /\ Past(r)' <=> step'[r] = "adjust"
       /\ \A q \in Requests : /\ Targets(q, u)' <=> Targets(q, u)
                              /\ q # r => (Updating(q)' <=> Updating(q))
                              /\ q # r => (Past(q)' <=> Past(q))
  BY <1>4 DEF Updating, Past, Targets
<1>11. ~disturbed[r] => \/ \E q \in Requests : Rewritten(u, q) /\ PastFor(q, u)
                        \/ \A m \in Items(s) : m.unit = u => Right(u, m.priority)
  BY <1>4, QueueReadIsRight DEF s
<1>12. CASE ~Targets(r, u)
  <2>1. SameRight(u)
    BY <1>4, <1>10, <1>12 DEF SameRight, PastFor
  <2>2. FewerUpdates(u) /\ SameLegacy(u)
    BY <1>4, <1>10, <1>12 DEF FewerUpdates, UpdatingFor, SameLegacy
  <2>3. RewriteRightOf(r, u)'
    <3> SUFFICES ASSUME step'[r] = "delete", ~disturbed'[r]
                 PROVE  AllRight(seen[r], u)' \/ \E q \in Requests : Rewritten(u, q)'
      BY <1>10, <1>12 DEF RewriteRightOf
    <3>1. CASE \E q \in Requests : Rewritten(u, q)
      BY <1>9, <3>1, NoMessageMoves
    <3>2. CASE ~\E q \in Requests : Rewritten(u, q)
      <4>1. \A m \in Items(s) : m.unit = u => Right(u, m.priority)
        BY <1>4, <1>11, <3>2
      <4>2. \A m \in Items(seen'[r]) : m.unit = u => Right(u, m.priority)'
        BY <1>4, <1>8, <1>12, <2>1, <4>1, SameRightMeans
      <4> QED BY <4>2 DEF AllRight
    <3> QED BY <3>1, <3>2
  <2> QED BY <1>1, <1>2, <1>9, <2>1, <2>2, <2>3, NoMessageMoves, MovingKeepsAgreed
<1>13. CASE Targets(r, u)
  <2>1. /\ u \in UnitsIn(s) /\ ~disturbed[r]
        /\ \A q \in Requests : q # r => ~UpdatingFor(q, u)
    BY <1>7, <1>13 DEF OutOfReach, Targets, UpdatingFor, s
  <2>2. \A q \in Requests : ~UpdatingFor(q, u) /\ ~PastFor(q, u)
    BY <1>10, <2>1 DEF UpdatingFor, PastFor, Past, Updating
  <2>3. \A m \in Items(s) : m.unit = u => m.priority = rowPriority[u]
    <3>1. \A m \in Items(s) : m.unit = u => Right(u, m.priority)
      BY <1>11, <2>1, <2>2
    <3> QED BY <2>2, <3>1 DEF Right, PastFor
  <2>4. stage[u] = "pushed"
    <3>1. seen[r] = list
      BY <1>1, <1>4, <2>1, CurrentReadIsList DEF CurrentInv
    <3> QED BY <1>3, <2>1, <3>1 DEF Placed, Somewhere
  <2>5. step'[r] = "adjust" => Adjusted(rowPriority[u], asked[r].action) = rowPriority[u]
    <3> SUFFICES ASSUME step'[r] = "adjust"
                 PROVE  Adjusted(rowPriority[u], asked[r].action) = rowPriority[u]
      OBVIOUS
    <3>1. new = s
      BY <1>4
    <3>2. PICK i \in DOMAIN s : s[i].unit = u
      BY <2>1 DEF UnitsIn
    <3>3. s[i].priority = rowPriority[u]
      BY <2>3, <3>2 DEF Items
    <3>4. new[i].priority = Adjusted(s[i].priority, asked[r].action)
      BY <1>6, <1>13, <3>2 DEF Targets
    <3> QED BY <3>1, <3>3, <3>4
  <2>6. \A p : Right(u, p)' <=> Right(u, p)
    <3>1. \A p : Right(u, p) <=> p = rowPriority[u]
      BY <2>2 DEF Right, PastFor
    <3>2. \A q \in Requests : Past(q)' /\ Targets(q, u)' => q = r /\ step'[r] = "adjust"
      BY <1>10, <2>2 DEF PastFor
    <3>3. \A p : Right(u, p)' <=> p = rowPriority[u]
      BY <1>4, <2>5, <3>2 DEF Right
    <3> QED BY <3>1, <3>3
  <2>7. OneUpdate(u)'
    <3> SUFFICES ASSUME NEW q \in Requests, Updating(q)', Targets(q, u)'
                 PROVE  /\ \A o \in Requests : Updating(o)' /\ Targets(o, u)' => o = q
                        /\ stage'[u] \notin {"new", "created"}
                        /\ step'[q] = "delete" => u \in UnitsIn(seen'[q])
      BY DEF OneUpdate
    <3>1. q = r /\ \A o \in Requests : Updating(o)' /\ Targets(o, u)' => o = r
      BY <1>10, <2>2 DEF UpdatingFor
    <3> QED BY <1>4, <1>6, <2>1, <2>4, <3>1
  <2>8. LiveRight(u)'
    BY <1>9, <2>6, NoMessageMoves, LiveStaysRight DEF Agreed
  <2>9. RewriteRight(u)'
    <3>1. RewriteRightOf(r, u)'
      <4> SUFFICES ASSUME step'[r] = "delete"
                   PROVE  \A m \in Items(seen'[r]) : m.unit = u =>
                            m.priority = Adjusted(rowPriority'[u], asked'[r].action)
        BY <1>4, <1>10, <1>13 DEF RewriteRightOf
      <4> QED BY <1>4, <1>8, <1>13, <2>3
    <3>2. \A q \in Requests : Rewritten(u, q) => Rewritten(u, q)'
      BY <1>9, NoMessageMoves
    <3> QED BY <1>1, <1>2, <1>4, <2>6, <3>1, <3>2, RewriteStaysRight DEF Agreed
  <2>10. LegacyRight(u)'
    <3>1. \A m \in Items(legacy') : m.unit = u => m.priority = rowPriority'[u]
      BY <1>4 DEF Agreed, LegacyRight
    <3>2. \A q \in Requests : step'[q] = "adjust" /\ Targets(q, u)' => q = r
      <4>1. \A q \in Requests : step[q] = "adjust" => Updating(q)
        BY AgreedParts DEF RequestPlace, Updating
      <4> QED BY <1>4, <1>10, <2>2, <4>1 DEF UpdatingFor
    <3> QED BY <1>4, <2>5, <3>1, <3>2 DEF LegacyRight
  <2> QED BY <1>4, <2>4, <2>7, <2>8, <2>9, <2>10 DEF Agreed
<1> QED BY <1>12, <1>13

\* The messages that an earlier version left in the sorted set have the priorities
\* their units were published with, which are those of the rows.
LegacyAsGiven == \A i \in DOMAIN Legacy : Legacy[i].priority = Given[Legacy[i].unit]

LEMMA AgreedInit == LegacyAsGiven /\ QueueInit => AgreedInv
<1> SUFFICES ASSUME LegacyAsGiven, QueueInit, NEW u \in Units
             PROVE  Agreed(u)
  BY DEF AgreedInv
<1>1. /\ list = <<>> /\ \A c \in Consumers : held[c] = <<>>
      /\ \A r \in Requests : step[r] = "idle"
      /\ rowPriority = Given
  BY NamesDiffer DEF QueueInit
<1>2. /\ \A r \in Requests : ~Updating(r) /\ ~Past(r) /\ ~Rewriting(r)
      /\ \A m : ~Live(m)
  BY <1>1, SingleItem DEF Updating, Past, Rewriting, Live
<1>3. LiveRight(u)
  BY <1>2, LiveIsRight
<1>4. \A m \in Items(legacy) : m.unit = u => m.priority = rowPriority[u]
  <2>1. legacy = Legacy \/ Items(legacy) = {}
    BY SingleItem DEF QueueInit
  <2> QED BY <1>1, <2>1 DEF LegacyAsGiven, Items
<1> QED BY <1>1, <1>2, <1>3, <1>4 DEF Agreed, OneUpdate, RewriteRight, RewriteRightOf, LegacyRight

LEMMA AgreedKept == AgreedSoFar /\ [QueueNext]_queueVars => AgreedSoFar'
<1> SUFFICES ASSUME AgreedSoFar, [QueueNext]_queueVars
             PROVE  AgreedSoFar'
  OBVIOUS
<1>1. CurrentInv' /\ PlacedInv'
  BY CurrentKept, PlacedKept DEF AgreedSoFar
<1>2. CASE UNCHANGED queueVars
  <2>1. AgreedInv'
    BY <1>2 DEF AgreedSoFar, AgreedInv, Agreed, OneUpdate, LiveRight, RewriteRight, RewriteRightOf,
                LegacyRight, AllRight, Items, Right, Updating, Past, Targets, Rewriting, Rewritten,
                queueVars, redis, mysql, reads, request, bounds
  <2> QED BY <1>1, <2>1 DEF AgreedSoFar
<1>3. CASE QueueNext
  <2> SUFFICES ASSUME NEW u \in Units \ (raced' \cup skewed')
               PROVE  Agreed(u)'
    BY <1>1 DEF AgreedSoFar, AgreedInv
  <2>1. Agreed(u) /\ Placed(u)
    BY <1>3, RacedStays, AgreedParts
  <2>2. Placed(u)'
    BY <1>1 DEF PlacedInv
  <2>3. ASSUME NEW c \in Consumers, ConsumerStep(c)
        PROVE  Agreed(u)'
    BY <2>1, <2>3, ConsumerAgrees
  <2>4. ASSUME NEW r \in Requests, RequestAct(r)
        PROVE  Agreed(u)'
    BY <2>1, <2>2, <2>4, PlainAgrees, DeleteListAgrees, ReadForUpdateAgrees, AdjustRowsAgrees
       DEF Changes
  <2>5. CASE OtherAct
    BY <2>1, <2>5, OtherAgrees
  <2> QED BY <1>3, <2>3, <2>4, <2>5, SomebodyActs
<1> QED BY <1>2, <1>3

\* Theorem.  For every unit that no race, clear, failure or overlapping change has
\* touched, Redis and MySQL agree: its message in the list, or with a consumer, has
\* the priority of its row, except while a request is between the two stores.
THEOREM RedisAndMySQLAgree == LegacyAsGiven => (QueueSpec => []StoresAgree)
<1> SUFFICES ASSUME LegacyAsGiven
             PROVE  QueueSpec => []StoresAgree
  OBVIOUS
<1>1. QueueInit => AgreedSoFar
  BY CurrentInit, PlacedInit, AgreedInit DEF AgreedSoFar
<1>2. AgreedSoFar => StoresAgree
  <2> SUFFICES ASSUME AgreedSoFar, NEW u \in Units \ (raced \cup skewed),
                      ~\E r \in Requests : Updating(r) /\ TaskOf[u] \in targets[r]
               PROVE  /\ \A i \in DOMAIN list : list[i].unit = u => list[i].priority = rowPriority[u]
                      /\ \A c \in Consumers : u \in UnitsIn(held[c]) => held[c][1].priority = rowPriority[u]
    BY DEF StoresAgree
  <2>1. LiveRight(u)
    BY AgreedParts DEF Agreed
  <2>2. \A p : Right(u, p) <=> p = rowPriority[u]
    BY DEF Right, Past, Updating, Targets
  <2>3. \A i \in DOMAIN list : list[i].unit = u => list[i].priority = rowPriority[u]
    BY <2>1, <2>2 DEF LiveRight, AllRight, Items
  <2>4. ASSUME NEW c \in Consumers, u \in UnitsIn(held[c])
        PROVE  held[c][1].priority = rowPriority[u]
    <3>1. ConsumerPlace(c)
      BY AgreedParts
    <3>2. held[c] # <<>>
      BY <2>4, SingleItem
    <3>3. PICK m \in Messages : held[c] = <<m>>
      BY <3>1, <3>2 DEF ConsumerPlace
    <3>4. UnitsIn(held[c]) = {m.unit} /\ Items(held[c]) = {m} /\ held[c][1] = m
      BY <3>3, SingleItem
    <3> QED BY <2>1, <2>2, <2>4, <3>4 DEF LiveRight, AllRight
  <2> QED BY <2>3, <2>4
<1>3. AgreedSoFar /\ [QueueNext]_queueVars => AgreedSoFar'
  BY AgreedKept
<1> QED BY <1>1, <1>2, <1>3, PTL DEF QueueSpec

=============================================================================

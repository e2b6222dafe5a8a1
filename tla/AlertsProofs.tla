---------------------------- MODULE AlertsProofs ----------------------------
(***************************************************************************)
(* What the alert manager promises about its events, however many threads  *)
(* trigger, resolve, acknowledge and clear at once.                        *)
(***************************************************************************)
EXTENDS Alerts, FiniteSetTheorems, SequenceTheorems, WellFoundedInduction, TLAPS

Events == [id : Nat \ {0}, name : Names, resolved : BOOLEAN, acknowledged : BOOLEAN]

\* Ids are given once, in order.
IdsAreUnique ==
  /\ issued \in Nat
  /\ memory \subseteq Events
  /\ \A e \in memory : e.id <= issued
  /\ \A e, f \in memory : e.id = f.id => e = f

EventInv == IdsAreUnique /\ OneUnresolvedEvent

\* What forgets events, or resolves them, keeps the invariant.
LEMMA FewerEvents ==
  ASSUME EventInv, memory' \subseteq memory, UNCHANGED issued
  PROVE  EventInv'
BY DEF EventInv, IdsAreUnique, OneUnresolvedEvent

\* Every step keeps it: a trigger creates an event under the lock, after it has found
\* no unresolved one.
LEMMA EventStep ==
  ASSUME EventInv, [AlertsNext]_alertVars
  PROVE  EventInv'
<1> USE DEF manager, environment, monitors, actor
<1>1. ASSUME UNCHANGED <<memory, issued>> PROVE EventInv'
  BY <1>1 DEF EventInv, IdsAreUnique, OneUnresolvedEvent
<1>2. ASSUME NEW s \in Sources, MonitorWakes(s) \/ ConditionChanges(s) PROVE EventInv'
  BY <1>1, <1>2 DEF MonitorWakes, StartCheck, ConditionChanges
<1>3. ASSUME NEW a \in Callers, NEW s \in Sources, CheckStep(a, s) PROVE EventInv'
  BY <1>1, <1>3 DEF CheckStep, ForceCheck, StartCheck, LoadStates, Observe, Decide, Settle,
                    ResetStates, Forget
<1>4. ASSUME NEW a \in Callers, NEW n \in Names, ManagerStep(a, n) PROVE EventInv'
  <2>1. CASE TriggerDisabled(a, n) \/ TriggerSuppressed(a, n) \/ TriggerFindsRow(a, n)
             \/ TriggerFindsEvent(a, n) \/ UpdateRow(a, n) \/ ResolveRows(a, n)
             \/ DeleteRow(a, n)
    BY <1>1, <2>1 DEF TriggerDisabled, TriggerSuppressed, TriggerFindsRow, TriggerFindsEvent,
                      UpdateRow, ResolveRows, DeleteRow
  <2>2. CASE TriggerCreates(a, n)
    <3> DEFINE new == [id |-> issued + 1, name |-> n, resolved |-> FALSE,
                       acknowledged |-> FALSE]
    <3>1. memory' \subseteq memory \cup {new} /\ issued' = issued + 1
      BY <2>2 DEF TriggerCreates, Kept
    <3>2. \A e \in memory : e.name = n => e.resolved
      BY <2>2 DEF TriggerCreates, Mergeable, Unresolved
    <3>3. issued \in Nat /\ new \in Events
      BY DEF EventInv, IdsAreUnique, Events
    <3>4. /\ new.id = issued + 1 /\ new.name = n /\ ~new.resolved
          /\ \A e \in memory : e \in Events /\ e.id \in Nat /\ e.id <= issued
      BY DEF EventInv, IdsAreUnique, Events
    <3> HIDE DEF new
    <3>5. IdsAreUnique'
      BY <3>1, <3>3, <3>4 DEF EventInv, IdsAreUnique
    <3>6. OneUnresolvedEvent'
      BY <3>1, <3>2, <3>4 DEF EventInv, OneUnresolvedEvent
    <3> QED BY <3>5, <3>6 DEF EventInv
  <2>3. CASE ResolveMemory(a, n)
    <3>1. UNCHANGED issued /\ memory' = {Resolved(e, n) : e \in memory}
      BY <2>3 DEF ResolveMemory
    <3>2. ASSUME NEW e \in memory
          PROVE  /\ Resolved(e, n) \in Events
                 /\ Resolved(e, n).id = e.id /\ Resolved(e, n).name = e.name
                 /\ ~Resolved(e, n).resolved => Resolved(e, n) = e
      BY DEF EventInv, IdsAreUnique, Events, Resolved
    <3> QED BY <3>1, <3>2 DEF EventInv, IdsAreUnique, OneUnresolvedEvent
  <2>4. CASE DeleteMemory(a, n)
    BY <2>4, FewerEvents DEF DeleteMemory, WithoutEvent
  <2> QED BY <1>4, <2>1, <2>2, <2>3, <2>4 DEF ManagerStep
<1>5. ASSUME NEW a \in Callers, ClearRows(a) \/ ClearMemory(a) PROVE EventInv'
  BY <1>5, FewerEvents DEF ClearRows, ClearMemory
<1>6. ASSUME NEW n \in Scope, Acknowledge(n) PROVE EventInv'
  <2>1. CASE DatabaseUp
    BY <1>1, <1>6, <2>1 DEF Acknowledge
  <2>2. CASE ~DatabaseUp
    <3> DEFINE Marked(e) == [e EXCEPT !.acknowledged = @ \/ e \in Unresolved(n)]
    <3>1. UNCHANGED issued /\ memory' = {Marked(e) : e \in memory}
      BY <1>6, <2>2 DEF Acknowledge
    <3>2. ASSUME NEW e \in memory
          PROVE  /\ Marked(e) \in Events
                 /\ Marked(e).id = e.id /\ Marked(e).name = e.name
                 /\ Marked(e).resolved = e.resolved
      <4> DEFINE flag == e.acknowledged \/ e \in Unresolved(n)
      <4>1. flag \in BOOLEAN
        BY Zenon
      <4>2. Marked(e) = [e EXCEPT !.acknowledged = flag]
        BY Zenon
      <4> HIDE DEF flag, Marked
      <4> QED BY <4>1, <4>2 DEF EventInv, IdsAreUnique, Events
    <3> HIDE DEF Marked
    <3> QED BY <3>1, <3>2 DEF EventInv, IdsAreUnique, OneUnresolvedEvent
  <2> QED BY <2>1, <2>2
<1>7. ASSUME NEW n \in Scope, SaveConfig(n) \/ IntervalEnds(n) PROVE EventInv'
  BY <1>1, <1>7 DEF SaveConfig, IntervalEnds
<1>8. CASE PostClear \/ \E s \in Sources, clear \in BOOLEAN : PostForceCheck(s, clear)
  BY <1>1, <1>8 DEF PostClear, PostForceCheck
<1>9. CASE MasterRestarts
  BY <1>9, FewerEvents DEF MasterRestarts
<1>10. CASE UNCHANGED alertVars
  BY <1>1, <1>10 DEF alertVars
<1> QED
  BY <1>2, <1>3, <1>4, <1>5, <1>6, <1>7, <1>8, <1>9, <1>10 DEF AlertsNext

\* An alert has at most one unresolved event in memory: monitors and requests that
\* trigger it at the same moment are merged into one (alert_manager.py trigger).
THEOREM NoDuplicateAlerts == AlertsSpec => []OneUnresolvedEvent
<1>1. AlertsInit => EventInv
  BY DEF AlertsInit, EventInv, IdsAreUnique, OneUnresolvedEvent
<1>2. EventInv /\ [AlertsNext]_alertVars => EventInv'
  BY EventStep
<1>3. EventInv => OneUnresolvedEvent
  BY DEF EventInv
<1> QED BY <1>1, <1>2, <1>3, PTL DEF AlertsSpec

-----------------------------------------------------------------------------
(* The types.                                                              *)

Operands == Sources \cup Names \cup {"all"}
Calls == Operations \X Operands

CallsTyped == calls \in [Callers -> Seq(Calls)] /\ found \in [Callers -> 0..2]

\* A trigger puts the update of a row at the head of what is ahead; all else is plain.
Plain == (Operations \ {"update"}) \X Operands

LEMMA CallTypes ==
  /\ Names = {"warning", "critical", "redis", "low", "error", "timeout", "rate", "memory",
              "database"}
  /\ \A k \in Operations, x \in Operands : <<k, x>> \in Calls /\ << <<k, x>> >> \in Seq(Calls)
  /\ <<>> \in Seq(Calls)
<1>1. Names = {"warning", "critical", "redis", "low", "error", "timeout", "rate", "memory",
               "database"}
  BY DEF Names, NamesOf, Sources
<1>2. \A x \in Calls : <<x>> \in Seq(Calls)
  OBVIOUS
<1> QED BY <1>1, <1>2 DEF Calls

LEMMA PlainTypes ==
  /\ \A k \in Operations \ {"update"}, x \in Operands :
       <<k, x>> \in Plain /\ << <<k, x>> >> \in Seq(Plain)
  /\ <<>> \in Seq(Plain)
  /\ Seq(Plain) \subseteq Seq(Calls)
<1>1. \A x \in Plain : <<x>> \in Seq(Plain)
  OBVIOUS
<1>2. Plain \subseteq Calls
  BY DEF Plain, Calls
<1>3. Seq(Plain) \subseteq Seq(Calls)
  BY <1>2
<1> QED BY <1>1, <1>3 DEF Plain

LEMMA ContinueTyped ==
  ASSUME CallsTyped, NEW a \in Callers, calls[a] # <<>>, NEW more \in Seq(Calls),
         Continue(a, more)
  PROVE  CallsTyped'
<1>1. calls[a] \in Seq(Calls) /\ Tail(calls[a]) \in Seq(Calls)
  BY HeadTailProperties DEF CallsTyped
<1>2. more \o Tail(calls[a]) \in Seq(Calls)
  BY <1>1, ConcatProperties
<1>3. calls' = [calls EXCEPT ![a] = more \o Tail(calls[a])]
  BY DEF Continue
<1>4. \/ found' = [found EXCEPT ![a] = 0]
      \/ found' = [found EXCEPT ![a] = found[a]]
  BY DEF Continue
<1>5. calls' \in [Callers -> Seq(Calls)]
  BY <1>2, <1>3 DEF CallsTyped
<1>6. found' \in [Callers -> 0..2]
  BY <1>4 DEF CallsTyped
<1> QED BY <1>5, <1>6 DEF CallsTyped

\* Two lists of operations in a row.
LEMMA BothPlain ==
  /\ \A p, q \in Seq(Plain) : p \o q \in Seq(Plain)
  /\ \A p \in Seq(Plain), test \in BOOLEAN : When(test, p) \in Seq(Plain)
  /\ \A n \in Names : Trigger(n) \in Seq(Plain) /\ Resolve(n) \in Seq(Plain)
  /\ \A s \in Sources : /\ Settling(s) \in Seq(Plain) /\ << <<"load", s>> >> \in Seq(Plain)
                        /\ CheckOps(s) \in Seq(Plain)
<1>1. \A p, q \in Seq(Plain) : p \o q \in Seq(Plain)
  BY ConcatProperties
<1>2. \A p \in Seq(Plain), test \in BOOLEAN : When(test, p) \in Seq(Plain)
  BY PlainTypes DEF When
<1>3. Names \subseteq Operands /\ Sources \subseteq Operands
  BY DEF Operands
<1>4. \A n \in Names : Trigger(n) \in Seq(Plain) /\ Resolve(n) \in Seq(Plain)
  BY <1>3, PlainTypes DEF Trigger, Resolve, Operations
<1>5. \A s \in Sources : Settling(s) \in Seq(Plain) /\ << <<"load", s>> >> \in Seq(Plain)
  BY <1>3, PlainTypes DEF Settling, Operations
<1>6. ASSUME NEW s \in Sources PROVE CheckOps(s) \in Seq(Plain)
  <2>1. <<"load", s>> \in Plain /\ <<"observe", s>> \in Plain
    BY <1>3, PlainTypes DEF Operations
  <2>2. << <<"observe", s>> >> \in Seq(Plain) /\ << <<"load", s>>, <<"observe", s>> >> \in Seq(Plain)
    BY <2>1
  <2> QED BY <2>2 DEF CheckOps, Sources
<1> QED BY <1>1, <1>2, <1>4, <1>5, <1>6

LEMMA DecisionPlain ==
  ASSUME NEW s \in Sources, NEW old \in Nat, NEW new \in 0..2
  PROVE  Decision(s, old, new) \in Seq(Plain)
<1> USE BothPlain
<1>n. Sources \ {"queue"} \subseteq Names /\ {"warning", "critical"} \subseteq Names
  BY CallTypes DEF Sources
<1>b. \A n : (n = old) \in BOOLEAN
  OBVIOUS
<1>1. CASE s = "queue"
  <2>1. LengthDecision(old, new) \in Seq(Plain)
    <3>1. CASE new = old
      BY <3>1, PlainTypes DEF LengthDecision
    <3>2. CASE new # old /\ new = 2
      <4>1. LengthDecision(old, new) = Resolve("warning") \o Trigger("critical")
        BY <3>2 DEF LengthDecision
      <4> QED BY <4>1, <1>n
    <3>3. CASE new # old /\ new = 1
      <4>1. LengthDecision(old, new) = When(old = 2, Resolve("critical")) \o Trigger("warning")
        BY <3>3 DEF LengthDecision
      <4>2. When(old = 2, Resolve("critical")) \in Seq(Plain)
        BY <1>n
      <4> QED BY <4>1, <4>2, <1>n
    <3>4. CASE new # old /\ new = 0
      <4>1. LengthDecision(old, new) = Resolve("warning") \o Resolve("critical")
        BY <3>4 DEF LengthDecision
      <4> QED BY <4>1, <1>n
    <3> QED BY <3>1, <3>2, <3>3, <3>4
  <2> QED BY <1>1, <2>1 DEF Decision
<1>2. CASE s \in {"redis", "database"}
  <2>1. When(new = 1, Trigger(s)) \in Seq(Plain) /\ Resolve(s) \o Settling(s) \in Seq(Plain)
    BY <1>2, <1>n
  <2>2. Recovered(old, new) \in BOOLEAN
    BY DEF Recovered
  <2>3. When(Recovered(old, new), Resolve(s) \o Settling(s)) \in Seq(Plain)
    BY <2>1, <2>2
  <2>4. HealthDecision(s, old, new) \in Seq(Plain)
    BY <2>1, <2>3 DEF HealthDecision
  <2> QED BY <1>2, <2>4 DEF Decision
<1>3. CASE s \in {"low", "error"}
  <2>1. When(new \notin {0, old}, Trigger(s)) \in Seq(Plain)
    BY <1>3, <1>n
  <2>2. AccountDecision(s, old, new) \in Seq(Plain)
    BY <2>1 DEF AccountDecision
  <2> QED BY <1>3, <2>2 DEF Decision
<1>4. CASE s = "timeout"
  <2>1. << <<"delete", "timeout">> >> \in Seq(Plain)
    <3>1. "timeout" \in Operands /\ "delete" \in Operations \ {"update"}
      BY DEF Operands, Operations, Sources
    <3> HIDE DEF Operations, Operands
    <3> QED BY <3>1, PlainTypes
  <2>2. /\ When(new = 2, Trigger("timeout")) \in Seq(Plain)
        /\ When(new = 2 /\ old = 0, Settling("timeout")) \in Seq(Plain)
    BY <1>4, <1>n
  <2>3. Recovered(old, new) \in BOOLEAN
    BY DEF Recovered
  <2>4. When(Recovered(old, new), << <<"delete", "timeout">> >>) \in Seq(Plain)
    BY <2>1, <2>3
  <2>5. When(new = 2, Trigger("timeout")) \o When(new = 2 /\ old = 0, Settling("timeout"))
          \in Seq(Plain)
    BY <2>2
  <2>6. TimeoutDecision(old, new) \in Seq(Plain)
    BY <2>4, <2>5 DEF TimeoutDecision
  <2> QED BY <1>4, <2>6 DEF Decision
<1>5. CASE s = "rate"
  <2>1. When(new = 1, Trigger("rate")) \in Seq(Plain) /\ Recovered(old, new) \in BOOLEAN
    BY <1>5, <1>n DEF Recovered
  <2>2. When(Recovered(old, new), Resolve("rate")) \in Seq(Plain)
    BY <1>5, <1>n, <2>1
  <2>3. RateDecision(old, new) \in Seq(Plain)
    BY <2>1, <2>2 DEF RateDecision
  <2> QED BY <1>5, <2>3 DEF Decision
<1>6. CASE s = "memory"
  <2>1. MemoryDecision(new) \in Seq(Plain)
    BY <1>6, <1>n DEF MemoryDecision
  <2> QED BY <1>6, <2>1 DEF Decision
<1> QED BY <1>1, <1>2, <1>3, <1>4, <1>5, <1>6 DEF Sources

WorldTyped ==
  /\ watched \in Scenarios /\ condition \in [Sources -> 0..2]
  /\ requests \in 0..MaxPosts /\ restarts \in 0..MaxRestarts

MonitorsTyped ==
  /\ belief \in [Sources -> Nat] /\ loaded \subseteq Sources
  /\ source \in [Callers -> Sources \cup {"none"}]
  /\ event \in [Callers -> {<<>>} \cup Seq(Nat)]

TableTyped ==
  /\ DOMAIN rows \subseteq Names /\ rows \in [DOMAIN rows -> BOOLEAN]
  /\ recent \subseteq Suppressible /\ disabled \subseteq Names /\ excused \subseteq Names
  /\ overtaken \subseteq Names

MemoryTyped ==
  /\ issued \in 0..MaxIssued
  /\ memory \subseteq [id : 1..issued, name : Names, resolved : BOOLEAN, acknowledged : BOOLEAN]
  /\ IsFiniteSet(memory) /\ Cardinality(memory) <= MaxEvents

\* The type invariant in parts, and with them that ids are not given twice.
AlertsTyped ==
  WorldTyped /\ CallsTyped /\ MonitorsTyped /\ TableTyped /\ MemoryTyped /\ IdsAreUnique

LEMMA AlertsParameters ==
  /\ Scenarios \subseteq SUBSET Sources /\ Old \subseteq SUBSET Names
  /\ MaxEvents \in Nat \ {0} /\ MaxIssued \in Nat /\ MaxPosts \in Nat /\ MaxRestarts \in Nat
BY AlertsAssumption

LEMMA TypedIsOK == AlertsTyped => AlertsTypeOK
BY DEF AlertsTyped, WorldTyped, CallsTyped, MonitorsTyped, TableTyped, MemoryTyped, AlertsTypeOK,
       Calls, Operands

LEMMA InitTypes == AlertsInit => AlertsTyped
<1> SUFFICES ASSUME AlertsInit PROVE AlertsTyped
  OBVIOUS
<1>1. WorldTyped /\ MonitorsTyped /\ CallsTyped
  BY DEF AlertsInit, WorldTyped, MonitorsTyped, CallsTyped
<1>2. TableTyped
  <2>1. PICK old \in Old : rows = [n \in old \cap Scope |-> FALSE]
    BY DEF AlertsInit
  <2>2. old \subseteq Names
    BY AlertsParameters
  <2> QED BY <2>1, <2>2 DEF TableTyped, AlertsInit
<1>3. MemoryTyped /\ IdsAreUnique
  BY FS_EmptySet, AlertsParameters DEF AlertsInit, MemoryTyped, IdsAreUnique
<1> QED BY <1>1, <1>2, <1>3 DEF AlertsTyped

\* What leaves events out keeps their types.
LEMMA FewerTyped ==
  ASSUME MemoryTyped, IdsAreUnique, memory' \subseteq memory, UNCHANGED issued
  PROVE  MemoryTyped' /\ IdsAreUnique'
<1>1. IsFiniteSet(memory') /\ Cardinality(memory') <= Cardinality(memory)
  BY FS_Subset DEF MemoryTyped
<1>2. Cardinality(memory) \in Nat /\ Cardinality(memory') \in Nat
  BY <1>1, FS_CardinalityType DEF MemoryTyped
<1>3. Cardinality(memory') <= MaxEvents
  BY <1>1, <1>2, AlertsParameters DEF MemoryTyped
<1> QED BY <1>1, <1>3 DEF MemoryTyped, IdsAreUnique

\* So does what marks some, one event each.
LEMMA MarkedTyped ==
  ASSUME MemoryTyped, IdsAreUnique, UNCHANGED issued,
         NEW f \in [memory -> [id : 1..issued, name : Names, resolved : BOOLEAN,
                               acknowledged : BOOLEAN]],
         memory' = {f[e] : e \in memory}, \A e \in memory : f[e].id = e.id
  PROVE  MemoryTyped' /\ IdsAreUnique'
<1>1. f \in Surjection(memory, memory')
  <2>1. DOMAIN f = memory /\ f = [e \in DOMAIN f |-> f[e]]
    OBVIOUS
  <2>2. \A e \in memory : f[e] \in memory'
    OBVIOUS
  <2>3. f \in [memory -> memory']
    BY <2>1, <2>2, Zenon
  <2>4. \A t \in memory' : \E e \in memory : f[e] = t
    OBVIOUS
  <2> QED BY <2>3, <2>4 DEF Surjection
<1>2. IsFiniteSet(memory') /\ Cardinality(memory') <= Cardinality(memory)
  BY <1>1, FS_Surjection DEF MemoryTyped
<1>3. Cardinality(memory) \in Nat /\ Cardinality(memory') \in Nat
  BY <1>2, FS_CardinalityType DEF MemoryTyped
<1>4. Cardinality(memory') <= MaxEvents
  BY <1>2, <1>3, AlertsParameters DEF MemoryTyped
<1>5. memory' \subseteq [id : 1..issued, name : Names, resolved : BOOLEAN, acknowledged : BOOLEAN]
  OBVIOUS
<1>6. \A e, g \in memory' : e.id = g.id => e = g
  BY DEF IdsAreUnique
<1>7. issued \in Nat /\ \A e \in memory' : e \in Events /\ e.id <= issued
  BY <1>5 DEF IdsAreUnique, Events
<1> QED BY <1>2, <1>4, <1>5, <1>6, <1>7 DEF MemoryTyped, IdsAreUnique

\* Of some ids one is the least.
LEMMA LeastId == \A T \in SUBSET Nat : T # {} => \E x \in T : \A y \in T : x <= y
<1> SUFFICES ASSUME NEW T \in SUBSET Nat, T # {}
             PROVE  \E x \in T : \A y \in T : x <= y
  OBVIOUS
<1> DEFINE R == {ss \in Nat \X Nat : ss[1] < ss[2]}
<1>1. IsWellFoundedOn(R, Nat)
  BY NatLessThanWellFounded DEF OpToRel
<1>2. PICK x \in T : \A y \in T : ~(<<y, x>> \in R)
  <2> HIDE DEF R
  <2> QED BY <1>1, WFMin
<1>3. \A y \in T : ~(y < x)
  BY <1>2
<1> QED BY <1>3

\* The event with the highest id is among those that are kept, and no more than
\* MaxEvents are.
LEMMA KeptEvents ==
  ASSUME NEW events, IsFiniteSet(events), \A e \in events : e.id \in Nat,
         \A e, f \in events : e.id = f.id => e = f
  PROVE  /\ Kept(events) \subseteq events /\ Cardinality(Kept(events)) <= MaxEvents
         /\ \A e \in events : (\A f \in events : f.id <= e.id) => e \in Kept(events)
<1> DEFINE Later(e) == {f \in events : f.id > e.id}
           kept == Kept(events)
<1>1. kept \subseteq events /\ \A e \in events : e \in kept <=> Cardinality(Later(e)) < MaxEvents
  BY DEF Kept
<1>2. MaxEvents \in Nat \ {0}
  BY AlertsParameters
<1>3. \A e \in events : (\A f \in events : f.id <= e.id) => e \in kept
  <2> SUFFICES ASSUME NEW e \in events, \A f \in events : f.id <= e.id PROVE e \in kept
    OBVIOUS
  <2>1. Later(e) = {}
    OBVIOUS
  <2>2. Cardinality({}) = 0
    BY FS_EmptySet
  <2>3. Cardinality(Later(e)) < MaxEvents
    BY <1>2, <2>1, <2>2, Zenon, SMT
  <2> QED BY <1>1, <2>3
<1>4. Cardinality(kept) <= MaxEvents
  <2>1. CASE kept = {}
    BY <1>2, <2>1, FS_EmptySet
  <2>2. CASE kept # {}
    <3> DEFINE Ids == {e.id : e \in kept}
    <3>1. Ids \in SUBSET Nat /\ Ids # {}
      BY <1>1, <2>2
    <3>2. PICK i \in Ids : \A j \in Ids : i <= j
      <4> HIDE DEF Ids
      <4> QED BY <3>1, LeastId
    <3>3. PICK e \in kept : e.id = i
      OBVIOUS
    <3>4. \A f \in kept : e.id <= f.id
      BY <3>2, <3>3
    <3>5. e \in events /\ Cardinality(Later(e)) < MaxEvents
      BY <1>1, <3>3
    <3>6. kept \ {e} \subseteq Later(e)
      <4> SUFFICES ASSUME NEW f \in kept, f # e PROVE f \in events /\ f.id > e.id
        OBVIOUS
      <4>1. f \in events /\ f.id # e.id /\ e.id <= f.id
        BY <1>1, <3>4, <3>5
      <4> QED BY <3>5, <4>1
    <3>7. IsFiniteSet(kept) /\ IsFiniteSet(Later(e))
      <4>1. Later(e) \subseteq events
        OBVIOUS
      <4> QED BY <1>1, <4>1, FS_Subset
    <3> HIDE DEF Later, kept
    <3>8. Cardinality(kept \ {e}) = Cardinality(kept) - 1 /\ IsFiniteSet(kept \ {e})
      BY <3>3, <3>7, FS_RemoveElement
    <3>9. Cardinality(kept \ {e}) <= Cardinality(Later(e))
      BY <3>6, <3>7, FS_Subset
    <3>10. Cardinality(kept) \in Nat /\ Cardinality(Later(e)) \in Nat
      BY <3>7, FS_CardinalityType
    <3> QED BY <1>2, <3>5, <3>8, <3>9, <3>10
  <2> QED BY <2>1, <2>2
<1> QED BY <1>1, <1>3, <1>4

LEMMA CheckTyped ==
  ASSUME AlertsTyped, NEW a \in Callers, NEW s \in Sources, CheckStep(a, s)
  PROVE  AlertsTyped'
<1> USE DEF AlertsTyped, environment, monitors, manager
<1>p. Seq(Plain) \subseteq Seq(Calls)
  BY PlainTypes
<1>c. ASSUME NEW more \in Seq(Calls), NEW kind, Op(a, kind, s), Continue(a, more)
      PROVE  CallsTyped'
  BY <1>c, ContinueTyped DEF Op
<1>n. NamesOf(s) \subseteq Names /\ s \in Operands
  BY DEF Names, Operands
<1>f. belief[s] \in Nat /\ found[a] \in 0..2
  BY DEF MonitorsTyped, CallsTyped
<1>e. ASSUME NEW kind \in Operations, NEW x \in Operands PROVE << <<kind, x>> >> \in Seq(Calls)
  BY CallTypes
<1>0. <<>> \in Seq(Calls)
  BY CallTypes
<1>1. CASE ForceCheck(a, s)
  <2>1. CallsTyped'
    BY <1>1, <1>c, <1>p, BothPlain DEF ForceCheck
  <2> QED BY <1>1, <1>n, <2>1 DEF ForceCheck, StartCheck, WorldTyped, MonitorsTyped, TableTyped,
                                  MemoryTyped, IdsAreUnique
<1>2. CASE LoadStates(a, s)
  <2>1. PICK v \in IF Recalled(s) = {} THEN {belief[s]} ELSE Recalled(s) :
          /\ belief' = [belief EXCEPT ![s] = v]
          /\ Continue(a, IF s \notin {"low", "error"} THEN <<>>
                         ELSE IF v # 0 /\ found[a] = 0 THEN << <<"resolve", s>>, <<"settle", s>> >>
                              ELSE << <<"settle", s>> >>)
    BY <1>2 DEF LoadStates
  <2>2. v \in Nat
    BY <1>f DEF Recalled, FromRows
  <2>3. <<"resolve", s>> \in Calls /\ <<"settle", s>> \in Calls
    BY <1>n DEF Calls, Operations
  <2>4. << <<"resolve", s>>, <<"settle", s>> >> \in Seq(Calls) /\ << <<"settle", s>> >> \in Seq(Calls)
    BY <2>3
  <2>5. CallsTyped'
    BY <1>0, <1>2, <1>c, <2>1, <2>4 DEF LoadStates
  <2>6. belief' \in [Sources -> Nat] /\ loaded' \subseteq Sources
        /\ UNCHANGED <<source, event>>
    BY <1>2, <2>1, <2>2 DEF LoadStates, MonitorsTyped
  <2>7. excused' \subseteq Names
    BY <1>2, <1>n DEF LoadStates, TableTyped
  <2> QED BY <1>2, <2>5, <2>6, <2>7 DEF LoadStates, WorldTyped, MonitorsTyped, TableTyped,
                                        MemoryTyped, IdsAreUnique
<1>3. CASE Observe(a, s)
  <2>1. calls[a] # <<>> /\ calls[a] \in Seq(Calls)
    BY <1>3 DEF Observe, Op, CallsTyped
  <2>2. Tail(calls[a]) \in Seq(Calls)
    BY <2>1, HeadTailProperties
  <2>3. Readable(s) \in BOOLEAN
    BY DEF Readable, RedisUp, DatabaseUp
  <2>4. When(Readable(s), << <<"decide", s>> >>) \in Seq(Calls)
    <3>1. << <<"decide", s>> >> \in Seq(Plain)
      BY <1>n, PlainTypes DEF Operations
    <3> QED BY <1>p, <2>3, <3>1, BothPlain
  <2>5. When(Readable(s), << <<"decide", s>> >>) \o Tail(calls[a]) \in Seq(Calls)
    BY <2>2, <2>4, ConcatProperties
  <2>6. calls' = [calls EXCEPT ![a] = When(Readable(s), << <<"decide", s>> >>) \o Tail(calls[a])]
    BY <1>3 DEF Observe
  <2>7. (IF Readable(s) THEN condition[s] ELSE 0) \in 0..2
    BY DEF WorldTyped
  <2>8. found' = [found EXCEPT ![a] = IF Readable(s) THEN condition[s] ELSE 0]
    BY <1>3 DEF Observe
  <2>9. CallsTyped'
    BY <2>5, <2>6, <2>7, <2>8 DEF CallsTyped
  <2> QED BY <1>3, <2>9 DEF Observe, WorldTyped, MonitorsTyped, TableTyped, MemoryTyped,
                            IdsAreUnique
<1>4. CASE Decide(a, s)
  <2>1. Decision(s, belief[s], found[a]) \in Seq(Calls)
    BY <1>f, <1>p, DecisionPlain
  <2>2. CallsTyped'
    BY <1>4, <1>c, <2>1 DEF Decide
  <2>3. Remembered(s, belief[s], found[a]) \in Nat
    BY <1>f DEF Remembered, Sources
  <2>4. Tracked(s) \in {<<>>} \cup Seq(Nat)
    <3>1. belief[s] # 0 => belief[s] - 1 \in Nat
      BY <1>f
    <3> QED BY <3>1 DEF Tracked
  <2>5. MonitorsTyped'
    BY <1>4, <2>3, <2>4 DEF Decide, MonitorsTyped
  <2> QED BY <1>4, <2>2, <2>5 DEF Decide, WorldTyped, TableTyped, MemoryTyped, IdsAreUnique
<1>5. CASE Settle(a, s)
  <2>1. CallsTyped'
    BY <1>0, <1>5, <1>c DEF Settle
  <2>2. event[a] # <<>> => event[a][1] \in Nat
    <3>1. event[a] \in {<<>>} \cup Seq(Nat)
      BY DEF MonitorsTyped
    <3> QED BY <3>1
  <2>3. (IF s # "timeout" THEN found[a] ELSE IF event[a] = <<>> THEN belief[s] ELSE event[a][1] + 1)
          \in Nat
    BY <1>f, <2>2
  <2>4. belief' = [belief EXCEPT ![s] = IF s # "timeout" THEN found[a]
                     ELSE IF event[a] = <<>> THEN belief[s] ELSE event[a][1] + 1]
    BY <1>5 DEF Settle
  <2>5. MonitorsTyped'
    BY <1>5, <2>3, <2>4 DEF Settle, MonitorsTyped
  <2> QED BY <1>5, <2>1, <2>5 DEF Settle, WorldTyped, TableTyped, MemoryTyped, IdsAreUnique
<1>6. CASE ResetStates(a, s)
  <2>1. <<"forget", s>> \in Calls /\ <<"resolve", s>> \in Calls /\ <<"delete", s>> \in Calls
    BY <1>n DEF Calls, Operations
  <2>2. /\ << <<"forget", s>> >> \in Seq(Calls) /\ << <<"delete", s>> >> \in Seq(Calls)
        /\ << <<"resolve", s>>, <<"forget", s>> >> \in Seq(Calls)
    BY <2>1
  <2>3. (IF belief[s] = 0 THEN <<>> ELSE << <<"delete", s>> >>) \o << <<"forget", s>> >>
          \in Seq(Calls)
    BY <1>0, <2>2, ConcatProperties
  <2>4. ResetOps(s) \in Seq(Calls)
    BY <1>0, <2>2, <2>3 DEF ResetOps, Sources
  <2>5. CallsTyped'
    BY <1>6, <1>c, <2>4 DEF ResetStates
  <2>6. Tracked(s) \in {<<>>} \cup Seq(Nat)
    <3>1. belief[s] # 0 => belief[s] - 1 \in Nat
      BY <1>f
    <3> QED BY <3>1 DEF Tracked
  <2> QED BY <1>6, <2>5, <2>6 DEF ResetStates, WorldTyped, MonitorsTyped, TableTyped, MemoryTyped,
                                  IdsAreUnique
<1>7. CASE Forget(a, s)
  <2>1. CallsTyped'
    BY <1>0, <1>7, <1>c DEF Forget
  <2> QED BY <1>7, <2>1 DEF Forget, WorldTyped, MonitorsTyped, TableTyped, MemoryTyped, IdsAreUnique
<1> QED BY <1>1, <1>2, <1>3, <1>4, <1>5, <1>6, <1>7 DEF CheckStep

LEMMA ManagerTyped ==
  ASSUME AlertsTyped, NEW a \in Callers, NEW n \in Names, ManagerStep(a, n)
  PROVE  AlertsTyped'
<1> USE DEF AlertsTyped, environment, monitors
<1>c. ASSUME NEW more \in Seq(Calls), NEW kind, Op(a, kind, n), Continue(a, more)
      PROVE  CallsTyped'
  BY <1>c, ContinueTyped DEF Op
<1>0. <<>> \in Seq(Calls) /\ n \in Operands
  BY CallTypes DEF Operands
<1>e. /\ << <<"update", n>> >> \in Seq(Calls)
      /\ << <<"resolve_memory", n>> >> \in Seq(Calls)
      /\ << <<"delete_memory", n>> >> \in Seq(Calls)
  BY <1>0, CallTypes DEF Operations
<1>r. ASSUME NEW e \in Seq(Nat), Returned(a, e), UNCHANGED <<monitors, source>>
      PROVE  MonitorsTyped'
  <2>1. event' = [event EXCEPT ![a] = e] \/ event' = [event EXCEPT ![a] = <<>>]
    BY <1>r DEF Returned
  <2> QED BY <1>r, <2>1 DEF MonitorsTyped
<1>i. /\ issued \in Nat /\ <<>> \in Seq(Nat) /\ <<0>> \in Seq(Nat) /\ <<issued + 1>> \in Seq(Nat)
      /\ \A e \in memory : e.id \in Nat /\ <<e.id>> \in Seq(Nat) /\ e.name \in Names
  BY DEF IdsAreUnique, Events
<1>w. (UNCHANGED environment) => WorldTyped'
  BY DEF WorldTyped
<1>m. (UNCHANGED <<memory, issued>>) => MemoryTyped' /\ IdsAreUnique'
  BY DEF MemoryTyped, IdsAreUnique
<1>t. Timed(n) \subseteq Suppressible
  BY DEF Timed, TableTyped
<1>1. CASE TriggerDisabled(a, n)
  <2>1. CallsTyped' /\ MonitorsTyped'
    BY <1>0, <1>1, <1>c, <1>i, <1>r DEF TriggerDisabled
  <2>2. TableTyped'
    BY <1>1 DEF TriggerDisabled, TableTyped, manager
  <2> QED BY <1>1, <1>m, <1>w, <2>1, <2>2 DEF TriggerDisabled, manager
<1>2. CASE TriggerSuppressed(a, n)
  <2>1. (IF InTable(n) THEN << <<"update", n>> >> ELSE <<>>) \in Seq(Calls)
    BY <1>0, <1>e
  <2>2. CallsTyped' /\ MonitorsTyped'
    BY <1>0, <1>2, <1>c, <1>i, <1>r, <2>1 DEF TriggerSuppressed
  <2>3. TableTyped'
    BY <1>2 DEF TriggerSuppressed, TableTyped, manager
  <2> QED BY <1>2, <1>m, <1>w, <2>2, <2>3 DEF TriggerSuppressed, manager
<1>3. CASE TriggerFindsRow(a, n)
  <2>1. CallsTyped' /\ MonitorsTyped'
    BY <1>3, <1>c, <1>e, <1>i, <1>r DEF TriggerFindsRow
  <2>2. TableTyped'
    BY <1>3, <1>t DEF TriggerFindsRow, TableTyped
  <2> QED BY <1>3, <1>m, <1>w, <2>1, <2>2 DEF TriggerFindsRow
<1>4. CASE TriggerFindsEvent(a, n)
  <2>1. PICK e \in Mergeable(n) : Returned(a, <<e.id>>)
    BY <1>4 DEF TriggerFindsEvent
  <2>2. e \in memory
    BY DEF Mergeable, Unresolved
  <2>3. CallsTyped' /\ MonitorsTyped'
    BY <1>0, <1>4, <1>c, <1>i, <1>r, <2>1, <2>2 DEF TriggerFindsEvent
  <2>4. TableTyped'
    BY <1>4, <1>t DEF TriggerFindsEvent, TableTyped
  <2> QED BY <1>4, <1>m, <1>w, <2>3, <2>4 DEF TriggerFindsEvent
<1>5. CASE TriggerCreates(a, n)
  <2> DEFINE new == [id |-> issued + 1, name |-> n, resolved |-> FALSE, acknowledged |-> FALSE]
             lost == {e.name : e \in {e \in memory \ memory' : ~e.resolved}}
  <2>1. CallsTyped' /\ MonitorsTyped'
    BY <1>0, <1>5, <1>c, <1>i, <1>r DEF TriggerCreates
  <2>2. /\ memory' = Kept(memory \cup {new}) /\ issued' = issued + 1
        /\ excused' = excused \cup lost
                        \cup IF n = "timeout" /\ belief[n] # 0 THEN {n} ELSE {}
    BY <1>5 DEF TriggerCreates
  <2>3. /\ new \in [id : 1..(issued + 1), name : Names, resolved : BOOLEAN, acknowledged : BOOLEAN]
        /\ new \in Events /\ new.id = issued + 1
    BY <1>i DEF Events
  <2>4. \A e \in memory : e \in Events /\ e.id <= issued /\ e.id # issued + 1
    BY <1>i DEF IdsAreUnique
  <2>5. IsFiniteSet(memory \cup {new})
    BY FS_AddElement DEF MemoryTyped
  <2>6. \A e \in memory : e \in [id : 1..(issued + 1), name : Names, resolved : BOOLEAN,
                                 acknowledged : BOOLEAN]
    BY <1>i DEF MemoryTyped
  <2>7. lost \subseteq Names
    BY <1>i
  <2> HIDE DEF new, lost
  <2>8. /\ \A e \in memory \cup {new} : e.id \in Nat
        /\ \A e, f \in memory \cup {new} : e.id = f.id => e = f
    BY <1>i, <2>3, <2>4 DEF IdsAreUnique
  <2>9. memory' \subseteq memory \cup {new} /\ Cardinality(memory') <= MaxEvents
    BY <2>2, <2>5, <2>8, KeptEvents
  <2>10. IsFiniteSet(memory')
    BY <2>5, <2>9, FS_Subset
  <2>11. issued' \in 0..MaxIssued
    BY <1>5, <1>i, AlertsParameters DEF TriggerCreates
  <2>12. memory' \subseteq [id : 1..issued', name : Names, resolved : BOOLEAN,
                            acknowledged : BOOLEAN]
    BY <2>2, <2>3, <2>6, <2>9
  <2>13. MemoryTyped'
    BY <2>9, <2>10, <2>11, <2>12 DEF MemoryTyped
  <2>14. IdsAreUnique'
    <3>1. issued' \in Nat /\ memory' \subseteq Events
      BY <1>i, <2>2, <2>3, <2>4, <2>9
    <3>2. \A e \in memory' : e.id <= issued'
      BY <1>i, <2>2, <2>3, <2>4, <2>9
    <3>3. \A e, f \in memory' : e.id = f.id => e = f
      BY <2>8, <2>9
    <3> QED BY <3>1, <3>2, <3>3 DEF IdsAreUnique
  <2>15. TableTyped'
    BY <1>5, <1>t, <2>2, <2>7 DEF TriggerCreates, TableTyped
  <2> QED BY <1>5, <1>w, <2>1, <2>13, <2>14, <2>15 DEF TriggerCreates
<1>6. CASE UpdateRow(a, n)
  <2>1. CallsTyped' /\ MonitorsTyped'
    BY <1>0, <1>6, <1>c DEF UpdateRow, MonitorsTyped
  <2>2. TableTyped'
    BY <1>6 DEF UpdateRow, TableTyped
  <2> QED BY <1>6, <1>m, <1>w, <2>1, <2>2 DEF UpdateRow
<1>7. CASE ResolveRows(a, n)
  <2>1. CallsTyped' /\ MonitorsTyped'
    BY <1>7, <1>c, <1>e DEF ResolveRows, MonitorsTyped
  <2>2. TableTyped'
    BY <1>7 DEF ResolveRows, TableTyped, Without
  <2> QED BY <1>7, <1>m, <1>w, <2>1, <2>2 DEF ResolveRows
<1>8. CASE ResolveMemory(a, n)
  <2>1. CallsTyped' /\ MonitorsTyped' /\ TableTyped'
    BY <1>0, <1>8, <1>c DEF ResolveMemory, MonitorsTyped, TableTyped
  <2> DEFINE f == [e \in memory |-> Resolved(e, n)]
  <2>2. \A e \in memory : /\ Resolved(e, n) \in [id : 1..issued, name : Names, resolved : BOOLEAN,
                                                 acknowledged : BOOLEAN]
                          /\ Resolved(e, n).id = e.id
    BY DEF MemoryTyped, Resolved
  <2>3. f \in [memory -> [id : 1..issued, name : Names, resolved : BOOLEAN,
                          acknowledged : BOOLEAN]]
        /\ \A e \in memory : f[e] = Resolved(e, n)
    BY <2>2
  <2> HIDE DEF f
  <2>4. memory' = {f[e] : e \in memory} /\ issued' = issued
    BY <1>8, <2>3 DEF ResolveMemory
  <2>5. MemoryTyped' /\ IdsAreUnique'
    BY <2>2, <2>3, <2>4, MarkedTyped
  <2> QED BY <1>8, <1>w, <2>1, <2>5 DEF ResolveMemory
<1>9. CASE DeleteRow(a, n)
  <2>1. CallsTyped' /\ MonitorsTyped'
    BY <1>9, <1>c, <1>e DEF DeleteRow, MonitorsTyped
  <2>2. TableTyped'
    BY <1>9 DEF DeleteRow, TableTyped, Without
  <2> QED BY <1>9, <1>m, <1>w, <2>1, <2>2 DEF DeleteRow
<1>10. CASE DeleteMemory(a, n)
  <2>1. CallsTyped'
    BY <1>0, <1>10, <1>c DEF DeleteMemory
  <2>2. MonitorsTyped' /\ TableTyped'
    BY <1>10 DEF DeleteMemory, MonitorsTyped, TableTyped
  <2>3. MemoryTyped' /\ IdsAreUnique'
    BY <1>10, FewerTyped DEF DeleteMemory, WithoutEvent
  <2> QED BY <1>10, <1>w, <2>1, <2>2, <2>3 DEF DeleteMemory
<1> QED BY <1>1, <1>2, <1>3, <1>4, <1>5, <1>6, <1>7, <1>8, <1>9, <1>10 DEF ManagerStep

LEMMA RequestTyped ==
  ASSUME AlertsTyped,
         \/ \E n \in Scope : Acknowledge(n) \/ SaveConfig(n)
         \/ PostClear \/ \E s \in Sources, clear \in BOOLEAN : PostForceCheck(s, clear)
         \/ \E a \in Callers : ClearRows(a) \/ ClearMemory(a)
  PROVE  AlertsTyped'
<1> USE DEF AlertsTyped, monitors
<1>n. Scope \subseteq Names
  BY AlertsParameters DEF WorldTyped, Scope, Names
<1>m. (UNCHANGED <<memory, issued>>) => MemoryTyped' /\ IdsAreUnique'
  BY DEF MemoryTyped, IdsAreUnique
<1>w. Requested /\ UNCHANGED <<watched, condition, restarts>> => WorldTyped'
  BY AlertsParameters DEF Requested, WorldTyped
<1>a. (UNCHANGED <<monitors, source, event>>) => MonitorsTyped'
  BY DEF MonitorsTyped
<1>1. ASSUME NEW n \in Scope, Acknowledge(n) PROVE AlertsTyped'
  <2>1. WorldTyped' /\ MonitorsTyped' /\ CallsTyped'
    BY <1>1, <1>a, <1>w DEF Acknowledge, CallsTyped, actor
  <2>2. CASE DatabaseUp
    <3>1. TableTyped'
      BY <1>1, <1>n, <2>2 DEF Acknowledge, TableTyped
    <3> QED BY <1>1, <1>m, <2>1, <2>2, <3>1 DEF Acknowledge
  <2>3. CASE ~DatabaseUp
    <3>1. TableTyped'
      BY <1>1, <2>3 DEF Acknowledge, TableTyped
    <3> DEFINE Marked(e) == [e EXCEPT !.acknowledged = @ \/ e \in Unresolved(n)]
               f == [e \in memory |-> Marked(e)]
    <3>2. UNCHANGED issued /\ memory' = {Marked(e) : e \in memory}
      BY <1>1, <2>3 DEF Acknowledge
    <3>3. ASSUME NEW e \in memory
          PROVE  /\ Marked(e) \in [id : 1..issued, name : Names, resolved : BOOLEAN,
                                   acknowledged : BOOLEAN]
                 /\ Marked(e).id = e.id
      <4> DEFINE flag == e.acknowledged \/ e \in Unresolved(n)
      <4>1. flag \in BOOLEAN
        BY Zenon
      <4>2. Marked(e) = [e EXCEPT !.acknowledged = flag]
        BY Zenon
      <4> HIDE DEF flag, Marked
      <4> QED BY <4>1, <4>2 DEF MemoryTyped
    <3> HIDE DEF Marked
    <3>4. f \in [memory -> [id : 1..issued, name : Names, resolved : BOOLEAN,
                            acknowledged : BOOLEAN]]
          /\ \A e \in memory : f[e] = Marked(e)
      BY <3>3
    <3> HIDE DEF f
    <3>5. memory' = {f[e] : e \in memory}
      BY <3>2, <3>4
    <3>6. MemoryTyped' /\ IdsAreUnique'
      BY <3>2, <3>3, <3>4, <3>5, MarkedTyped
    <3> QED BY <2>1, <3>1, <3>6
  <2> QED BY <2>2, <2>3
<1>2. ASSUME NEW n \in Scope, SaveConfig(n) PROVE AlertsTyped'
  <2>1. TableTyped'
    BY <1>2, <1>n DEF SaveConfig, TableTyped
  <2> QED BY <1>2, <1>a, <1>m, <1>w, <2>1 DEF SaveConfig, CallsTyped, actor
<1>3. CASE PostClear
  <2>1. << <<"clear", "all">> >> \in Seq(Calls)
    BY CallTypes DEF Operations, Operands
  <2>2. CallsTyped' /\ TableTyped'
    BY <1>3, <2>1 DEF PostClear, CallsTyped, TableTyped, manager
  <2> QED BY <1>3, <1>a, <1>m, <1>w, <2>2 DEF PostClear, manager
<1>4. ASSUME NEW s \in Sources, NEW clear \in BOOLEAN, PostForceCheck(s, clear)
      PROVE  AlertsTyped'
  <2>1. <<"clear", "all">> \in Calls /\ <<"reset", s>> \in Calls /\ <<"check", s>> \in Calls
    BY CallTypes DEF Operations, Operands, Calls
  <2>2. /\ << <<"clear", "all">>, <<"reset", s>> >> \in Seq(Calls)
        /\ << <<"check", s>> >> \in Seq(Calls)
        /\ <<>> \in Seq(Calls)
    BY <2>1
  <2>3. (IF clear THEN << <<"clear", "all">>, <<"reset", s>> >> ELSE <<>>) \o << <<"check", s>> >>
          \in Seq(Calls)
    BY <2>2, ConcatProperties
  <2>4. calls' = [calls EXCEPT !["request"] =
                    (IF clear THEN << <<"clear", "all">>, <<"reset", s>> >> ELSE <<>>)
                      \o << <<"check", s>> >>]
        /\ found' = found
    BY <1>4 DEF PostForceCheck
  <2>5. CallsTyped'
    BY <2>3, <2>4 DEF CallsTyped
  <2>6. NamesOf(s) \subseteq Names
    BY DEF Names
  <2>7. TableTyped'
    BY <1>4, <2>6 DEF PostForceCheck, TableTyped, manager
  <2> QED BY <1>4, <1>a, <1>m, <1>w, <2>5, <2>7 DEF PostForceCheck, manager
<1>5. ASSUME NEW a \in Callers, ClearRows(a) \/ ClearMemory(a) PROVE AlertsTyped'
  <2>1. /\ calls[a] # <<>>
        /\ Continue(a, <<>>) \/ Continue(a, << <<"clear_memory", "all">> >>)
    BY <1>5 DEF ClearRows, ClearMemory, Op
  <2>2. CallsTyped'
    <3>1. << <<"clear_memory", "all">> >> \in Seq(Calls) /\ <<>> \in Seq(Calls)
      BY CallTypes DEF Operations, Operands
    <3> QED BY <2>1, <3>1, ContinueTyped
  <2>3. MemoryTyped' /\ IdsAreUnique'
    BY <1>5, FewerTyped DEF ClearRows, ClearMemory
  <2>4. TableTyped'
    <3>1. Removed \subseteq Names
      BY DEF Removed
    <3> QED BY <1>5, <3>1 DEF ClearRows, ClearMemory, TableTyped
  <2>5. WorldTyped'
    BY <1>5 DEF ClearRows, ClearMemory, WorldTyped, environment
  <2> QED BY <1>5, <1>a, <2>2, <2>3, <2>4, <2>5 DEF ClearRows, ClearMemory
<1> QED BY <1>1, <1>2, <1>3, <1>4, <1>5

LEMMA AlertsTypedStep == AlertsTyped /\ [AlertsNext]_alertVars => AlertsTyped'
<1> SUFFICES ASSUME AlertsTyped, [AlertsNext]_alertVars PROVE AlertsTyped'
  OBVIOUS
<1> USE DEF AlertsTyped
<1>1. ASSUME NEW s \in Sources, MonitorWakes(s) PROVE AlertsTyped'
  <2>1. CallsTyped'
    <3>1. CheckOps(s) \in Seq(Calls)
      BY BothPlain, PlainTypes
    <3> QED BY <1>1, <3>1 DEF MonitorWakes, CallsTyped
  <2>2. NamesOf(s) \subseteq Names
    BY DEF Names
  <2> QED BY <1>1, <2>1, <2>2 DEF MonitorWakes, StartCheck, WorldTyped, MonitorsTyped, TableTyped,
                MemoryTyped, IdsAreUnique, environment, monitors, manager
<1>2. ASSUME NEW s \in Sources, ConditionChanges(s) PROVE AlertsTyped'
  <2>1. condition' \in [Sources -> 0..2]
    BY <1>2 DEF ConditionChanges, WorldTyped, Values
  <2> QED BY <1>2, <2>1 DEF ConditionChanges, WorldTyped, CallsTyped, MonitorsTyped, TableTyped,
                MemoryTyped, IdsAreUnique, monitors, manager, actor
<1>3. ASSUME NEW n \in Scope, IntervalEnds(n) PROVE AlertsTyped'
  BY <1>3 DEF IntervalEnds, WorldTyped, CallsTyped, MonitorsTyped, TableTyped, MemoryTyped,
              IdsAreUnique, environment, monitors, actor
<1>4. CASE MasterRestarts
  <2>1. MemoryTyped' /\ IdsAreUnique'
    BY <1>4, FewerTyped DEF MasterRestarts
  <2>2. WorldTyped'
    BY <1>4, AlertsParameters DEF MasterRestarts, WorldTyped
  <2>3. CallsTyped' /\ MonitorsTyped' /\ TableTyped'
    BY <1>4, CallTypes DEF MasterRestarts, CallsTyped, MonitorsTyped, TableTyped
  <2> QED BY <2>1, <2>2, <2>3
<1>5. CASE UNCHANGED alertVars
  BY <1>5 DEF alertVars, environment, monitors, manager, actor, WorldTyped, CallsTyped,
              MonitorsTyped, TableTyped, MemoryTyped, IdsAreUnique
<1>6. ASSUME NEW a \in Callers, NEW s \in Sources, CheckStep(a, s) PROVE AlertsTyped'
  BY <1>6, CheckTyped
<1>7. ASSUME NEW a \in Callers, NEW n \in Names, ManagerStep(a, n) PROVE AlertsTyped'
  BY <1>7, ManagerTyped
<1>8. ASSUME \/ \E n \in Scope : Acknowledge(n) \/ SaveConfig(n)
             \/ PostClear \/ \E s \in Sources, clear \in BOOLEAN : PostForceCheck(s, clear)
             \/ \E a \in Callers : ClearRows(a) \/ ClearMemory(a)
      PROVE  AlertsTyped'
  BY <1>8, RequestTyped
<1> QED BY <1>1, <1>2, <1>3, <1>4, <1>5, <1>6, <1>7, <1>8 DEF AlertsNext

\* The manager, its monitors and its table stay in their types: never more than
\* _max_events events in memory, and every operation ahead of a thread is one of the
\* manager's.
THEOREM AlertsTypeCorrect == AlertsSpec => []AlertsTypeOK
BY InitTypes, AlertsTypedStep, TypedIsOK, PTL DEF AlertsSpec

-----------------------------------------------------------------------------
(* What monitors believe.                                                  *)

\* An alert's state, seen by the monitor of its source: it is there; its row, if there is
\* one, is open; it is not in memory; it is not in the table; all of it is the event that
\* a timed-out task has.
Stored(n) == n \in DOMAIN rows /\ ~rows[n]
There(n) == Active(n) \/ n \in excused
OpenRow(n) == n \in DOMAIN rows /\ rows[n] => n \in excused
NotHeld(n) == Unresolved(n) = {} \/ n \in excused
NotStored(n) == ~Stored(n) \/ n \in excused
OnlyEvent(k) ==
  \/ "timeout" \in excused
  \/ (\A e \in Unresolved("timeout") : e.id = k) /\ (k # 0 => NotStored("timeout"))

Unheld(s) == \A n \in NamesOf(s) : NotHeld(n)
Gone(s) == \A n \in NamesOf(s) : NotHeld(n) /\ NotStored(n)
Excused(s) == NamesOf(s) \subseteq excused

\* The monitor of s believes in the alert n, or keeps no memory of its alerts.
Believes(s, n) ==
  IF s = "memory" THEN belief[s] = 0
  ELSE /\ belief[s] # 0 /\ n = NameOf(s, belief[s])
       /\ s = "timeout" => OnlyEvent(belief[s] - 1)

\* Between checks.
Agrees(s) ==
  \/ s = "memory" /\ belief[s] = 0
  \/ \E n \in NamesOf(s) : s # "memory" /\ Believes(s, n) /\ There(n)
  \/ /\ s # "memory" /\ belief[s] = 0
     /\ \A n \in NamesOf(s) : NotHeld(n) /\ (s \in loaded => NotStored(n))

\* A check that decides on a change has loaded.
Informed(s) == s \in {"low", "error", "memory"} \/ belief[s] # 0 \/ s \in loaded

Todo(a, ops) == calls[a] = ops
One(kind, n) == << <<kind, n>> >>
Two(kind, n, next, m) == << <<kind, n>>, <<next, m>> >>
Three(kind, n, next, m, last, k) == << <<kind, n>>, <<next, m>>, <<last, k>> >>

Settles == {"redis", "database", "low", "error"}

\* What is ahead of a request before it checks.
Preparing(a, s) ==
  \/ /\ \/ Todo(a, Three("clear", "all", "reset", s, "check", s))
        \/ Todo(a, Three("clear_memory", "all", "reset", s, "check", s))
     /\ Excused(s) \/ Agrees(s)
  \/ /\ Todo(a, Two("reset", s, "check", s))
     /\ Excused(s) \/ (Agrees(s) /\ Unheld(s))
  \/ /\ s \in {"low", "error"}
     /\ \/ Todo(a, Three("resolve", s, "forget", s, "check", s))
        \/ /\ Todo(a, Three("resolve_memory", s, "forget", s, "check", s))
           /\ Excused(s) \/ NotStored(s)
  \/ /\ s = "timeout" /\ event[a] # <<>>
     /\ \/ Todo(a, Three("delete", s, "forget", s, "check", s))
        \/ Todo(a, Three("delete_memory", s, "forget", s, "check", s))
     /\ Excused(s) \/ Unheld(s)
  \/ /\ s \notin {"memory", "database"}
     /\ Todo(a, Two("forget", s, "check", s))
     /\ Excused(s) \/ (Unheld(s) /\ (s \in {"low", "error"} => NotStored(s)))
  \/ /\ Todo(a, One("check", s))
     /\ Excused(s) \/ Agrees(s)

\* A check up to its decision.
Checking(a, s) ==
  \/ /\ s \notin {"low", "error", "memory"}
     /\ Todo(a, Two("load", s, "observe", s))
     /\ Excused(s) \/ Agrees(s)
  \/ /\ Todo(a, One("observe", s)) \/ Todo(a, One("decide", s))
     /\ Excused(s) \/ (Agrees(s) /\ Informed(s))

\* A monitor that has decided to trigger, and remembers that it did.
Alerting(a, s) ==
  /\ s \notin {"low", "error"}
  /\ \E n \in NamesOf(s) :
       \/ /\ \/ Todo(a, One("trigger", n))
             \/ \E m \in NamesOf(s) \ {n} : \/ Todo(a, Two("resolve", m, "trigger", n))
                                            \/ Todo(a, Two("resolve_memory", m, "trigger", n))
          /\ Excused(s) \/ Believes(s, n)
       \/ /\ Todo(a, One("update", n))
          /\ Excused(s) \/ (Believes(s, n) /\ There(n) /\ OpenRow(n))

\* One that has decided to resolve all, and remembers that it did.
Clearing(a, s) ==
  \/ /\ s = "queue"
     /\ \/ /\ Todo(a, Two("resolve", "warning", "resolve", "critical"))
           /\ Excused(s) \/ belief[s] = 0
        \/ /\ Todo(a, Two("resolve_memory", "warning", "resolve", "critical"))
           /\ Excused(s) \/ (belief[s] = 0 /\ NotStored("warning"))
  \/ /\ s \in {"queue", "rate", "memory"}
     /\ \E n \in {"critical", "rate", "memory"} \cap NamesOf(s) :
          \/ /\ Todo(a, One("resolve", n))
             /\ \/ Excused(s)
                \/ belief[s] = 0 /\ \A m \in NamesOf(s) \ {n} : NotHeld(m) /\ NotStored(m)
          \/ /\ Todo(a, One("resolve_memory", n))
             /\ \/ Excused(s)
                \/ /\ belief[s] = 0 /\ NotStored(n)
                   /\ \A m \in NamesOf(s) \ {n} : NotHeld(m) /\ NotStored(m)

\* One that remembers what it found at its end.
Ending(a, s) ==
  /\ s \in Settles
  /\ \/ /\ Todo(a, Two("resolve", s, "settle", s))
        /\ Excused(s) \/ found[a] = 0
     \/ /\ Todo(a, Two("resolve_memory", s, "settle", s))
        /\ Excused(s) \/ (found[a] = 0 /\ NotStored(s))
     \/ /\ Todo(a, One("settle", s))
        /\ Excused(s) \/ (IF found[a] = 0 THEN Gone(s) ELSE There(s))

\* One that loads after it has triggered.
Recalling(a, s) ==
  /\ s \in {"low", "error"}
  /\ \/ /\ Todo(a, Two("trigger", s, "load", s))
        /\ Excused(s) \/ found[a] # 0
     \/ /\ Todo(a, Two("update", s, "load", s))
        /\ Excused(s) \/ (found[a] # 0 /\ There(s))
     \/ /\ Todo(a, One("load", s))
        /\ Excused(s) \/ (IF found[a] = 0 THEN Agrees(s) ELSE There(s))

\* A task that has timed out for the first time, or no more.
Timing(a, s) ==
  /\ s = "timeout"
  /\ \/ /\ Todo(a, Two("trigger", s, "settle", s))
        /\ Excused(s) \/ (belief[s] = 0 /\ Gone(s))
     \/ /\ Todo(a, Two("update", s, "settle", s))
        /\ Excused(s)
     \/ /\ Todo(a, One("settle", s))
        /\ \/ Excused(s)
           \/ event[a] # <<>> /\ There(s) /\ OnlyEvent(event[a][1])
     \/ /\ Todo(a, One("delete", s)) /\ event[a] # <<>>
        /\ Excused(s) \/ (belief[s] = 0 /\ OnlyEvent(event[a][1]))
     \/ /\ Todo(a, One("delete_memory", s)) /\ event[a] # <<>>
        /\ \/ Excused(s)
           \/ belief[s] = 0 /\ OnlyEvent(event[a][1]) /\ NotStored(s)

Proceeds(a, s) ==
  \/ Preparing(a, s) \/ Checking(a, s) \/ Alerting(a, s) \/ Clearing(a, s)
  \/ Ending(a, s) \/ Recalling(a, s) \/ Timing(a, s)

\* Whom an operation is about.
About(x) == IF x \in {"warning", "critical"} THEN "queue" ELSE x
At(a, s) == calls[a] # <<>> /\ About(calls[a][Len(calls[a])][2]) = s

Stands(a) ==
  \/ calls[a] = <<>>
  \/ /\ a = "request"
     /\ Todo(a, One("clear", "all")) \/ Todo(a, One("clear_memory", "all"))
  \/ \E s \in Sources : Proceeds(a, s) /\ (a = "monitor" => source[a] = s)

Followed(s) ==
  \/ Excused(s)
  \/ /\ ~At("monitor", s) \/ ~At("request", s)
     /\ At("monitor", s) \/ At("request", s) \/ Agrees(s)

\* What the task monitor remembers are ids of its own events.
Followable(k) == k <= issued /\ \A e \in memory : e.id = k => e.name = "timeout"
TracksOwn ==
  /\ belief["timeout"] # 0 => Followable(belief["timeout"] - 1)
  /\ \A a \in Callers : event[a] # <<>> => Len(event[a]) = 1 /\ Followable(event[a][1])

FollowInv ==
  /\ \A a \in Callers : Stands(a)
  /\ \A s \in Sources : Followed(s)
  /\ TracksOwn

\* A check that goes on, or has ended and left monitor and alerts in agreement.
GoesOn(a, s) == Proceeds(a, s) \/ (calls[a] = <<>> /\ (Excused(s) \/ Agrees(s)))

LEMMA SourceNames ==
  /\ \A s \in Sources : s # "queue" => NamesOf(s) = {s}
  /\ NamesOf("queue") = {"warning", "critical"}
  /\ \A s \in Sources : \A n \in NamesOf(s) : n \in Names /\ About(n) = s
  /\ \A s \in Sources : About(s) = s
  /\ About("all") \notin Sources
  /\ \A n \in Names : About(n) \in Sources /\ n \in NamesOf(About(n))
BY DEF Sources, Names, NamesOf, About

LEMMA ListsAre ==
  ASSUME NEW k, NEW n, NEW l, NEW m, NEW i, NEW j
  PROVE  /\ Tail(One(k, n)) = <<>> /\ Tail(Two(k, n, l, m)) = One(l, m)
         /\ Tail(Three(k, n, l, m, i, j)) = Two(l, m, i, j)
         /\ Head(One(k, n)) = <<k, n>> /\ Head(Two(k, n, l, m)) = <<k, n>>
         /\ Head(Three(k, n, l, m, i, j)) = <<k, n>>
         /\ One(k, n) # <<>> /\ Two(k, n, l, m) # <<>> /\ Three(k, n, l, m, i, j) # <<>>
BY DEF One, Two, Three

\* Short lists, one after the other.
LEMMA TuplesJoin ==
  ASSUME NEW x, NEW y, NEW z
  PROVE  /\ <<x>> \o <<>> = <<x>> /\ <<x, y>> \o <<>> = <<x, y>>
         /\ <<x, y, z>> \o <<>> = <<x, y, z>>
         /\ <<>> \o <<x>> = <<x>> /\ <<>> \o <<x, y>> = <<x, y>>
         /\ <<x>> \o <<y>> = <<x, y>>
         /\ <<x>> \o <<y, z>> = <<x, y, z>> /\ <<x, y>> \o <<z>> = <<x, y, z>>
<1> DEFINE S == {x, y, z}
<1>1. /\ <<x>> \o <<>> = <<x>> /\ <<x, y>> \o <<>> = <<x, y>>
      /\ <<x, y, z>> \o <<>> = <<x, y, z>>
      /\ <<>> \o <<x>> = <<x>> /\ <<>> \o <<x, y>> = <<x, y>>
  OBVIOUS
<1>2. <<x>> \o <<y>> = <<x, y>>
  <2> DEFINE p == <<x>>
             q == <<y>>
             r == <<x, y>>
  <2>1. /\ p \in Seq(S) /\ q \in Seq(S) /\ r \in Seq(S)
        /\ Len(p) = 1 /\ Len(q) = 1 /\ Len(r) = 2
        /\ p[1] = x /\ q[1] = y /\ r[1] = x /\ r[2] = y
    OBVIOUS
  <2> HIDE DEF S, p, q, r
  <2>2. /\ p \o q \in Seq(S) /\ Len(p \o q) = 2
        /\ \A i \in 1..2 : (p \o q)[i] = IF i <= 1 THEN p[i] ELSE q[i - 1]
    <3>1. /\ p \o q \in Seq(S) /\ Len(p \o q) = Len(p) + Len(q)
          /\ \A i \in 1..(Len(p) + Len(q)) :
               (p \o q)[i] = IF i <= Len(p) THEN p[i] ELSE q[i - Len(p)]
      BY <2>1, ConcatProperties, Zenon
    <3>2. Len(p) + Len(q) = 2
      BY <2>1
    <3> QED BY <2>1, <3>1, <3>2, Zenon
  <2>3. \A i \in 1..2 : (p \o q)[i] = r[i]
    BY <2>1, <2>2
  <2>4. p \o q = r
    BY <2>1, <2>2, <2>3, SeqEqual
  <2> QED BY <2>4 DEF p, q, r
<1>3. <<x>> \o <<y, z>> = <<x, y, z>>
  <2> DEFINE p == <<x>>
             q == <<y, z>>
             r == <<x, y, z>>
  <2>1. /\ p \in Seq(S) /\ q \in Seq(S) /\ r \in Seq(S)
        /\ Len(p) = 1 /\ Len(q) = 2 /\ Len(r) = 3
        /\ p[1] = x /\ q[1] = y /\ q[2] = z /\ r[1] = x /\ r[2] = y /\ r[3] = z
    OBVIOUS
  <2> HIDE DEF S, p, q, r
  <2>2. /\ p \o q \in Seq(S) /\ Len(p \o q) = 3
        /\ \A i \in 1..3 : (p \o q)[i] = IF i <= 1 THEN p[i] ELSE q[i - 1]
    <3>1. /\ p \o q \in Seq(S) /\ Len(p \o q) = Len(p) + Len(q)
          /\ \A i \in 1..(Len(p) + Len(q)) :
               (p \o q)[i] = IF i <= Len(p) THEN p[i] ELSE q[i - Len(p)]
      BY <2>1, ConcatProperties, Zenon
    <3>2. Len(p) + Len(q) = 3
      BY <2>1
    <3> QED BY <2>1, <3>1, <3>2, Zenon
  <2>3. \A i \in 1..3 : (p \o q)[i] = r[i]
    <3>1. (p \o q)[1] = r[1]
      BY <2>1, <2>2
    <3>2. (p \o q)[2] = r[2]
      BY <2>1, <2>2
    <3>3. (p \o q)[3] = r[3]
      BY <2>1, <2>2
    <3>4. \A i \in 1..3 : i = 1 \/ i = 2 \/ i = 3
      OBVIOUS
    <3> QED BY <3>1, <3>2, <3>3, <3>4
  <2>4. p \o q = r
    BY <2>1, <2>2, <2>3, SeqEqual
  <2> QED BY <2>4 DEF p, q, r
<1>4. <<x, y>> \o <<z>> = <<x, y, z>>
  <2> DEFINE p == <<x, y>>
             q == <<z>>
             r == <<x, y, z>>
  <2>1. /\ p \in Seq(S) /\ q \in Seq(S) /\ r \in Seq(S)
        /\ Len(p) = 2 /\ Len(q) = 1 /\ Len(r) = 3
        /\ p[1] = x /\ p[2] = y /\ q[1] = z /\ r[1] = x /\ r[2] = y /\ r[3] = z
    OBVIOUS
  <2> HIDE DEF S, p, q, r
  <2>2. /\ p \o q \in Seq(S) /\ Len(p \o q) = 3
        /\ \A i \in 1..3 : (p \o q)[i] = IF i <= 2 THEN p[i] ELSE q[i - 2]
    <3>1. /\ p \o q \in Seq(S) /\ Len(p \o q) = Len(p) + Len(q)
          /\ \A i \in 1..(Len(p) + Len(q)) :
               (p \o q)[i] = IF i <= Len(p) THEN p[i] ELSE q[i - Len(p)]
      BY <2>1, ConcatProperties, Zenon
    <3>2. Len(p) + Len(q) = 3
      BY <2>1
    <3> QED BY <2>1, <3>1, <3>2, Zenon
  <2>3. \A i \in 1..3 : (p \o q)[i] = r[i]
    <3>1. (p \o q)[1] = r[1]
      BY <2>1, <2>2
    <3>2. (p \o q)[2] = r[2]
      BY <2>1, <2>2
    <3>3. (p \o q)[3] = r[3]
      BY <2>1, <2>2
    <3>4. \A i \in 1..3 : i = 1 \/ i = 2 \/ i = 3
      OBVIOUS
    <3> QED BY <3>1, <3>2, <3>3, <3>4
  <2>4. p \o q = r
    BY <2>1, <2>2, <2>3, SeqEqual
  <2> QED BY <2>4 DEF p, q, r
<1> QED BY <1>1, <1>2, <1>3, <1>4

LEMMA JoinOne ==
  ASSUME NEW k, NEW n
  PROVE  /\ One(k, n) # <<>> /\ One(k, n) \o <<>> = One(k, n) /\ <<>> \o One(k, n) = One(k, n)
         /\ \A l, m : One(k, n) \o One(l, m) = Two(k, n, l, m)
         /\ \A l, m, i, j : One(k, n) \o Two(l, m, i, j) = Three(k, n, l, m, i, j)
<1> DEFINE x == <<k, n>>
<1>1. One(k, n) = <<x>> /\ One(k, n) # <<>>
  BY DEF One
<1>2. <<x>> \o <<>> = <<x>> /\ <<>> \o <<x>> = <<x>>
  OBVIOUS
<1>3. ASSUME NEW l, NEW m PROVE One(k, n) \o One(l, m) = Two(k, n, l, m)
  <2> DEFINE y == <<l, m>>
  <2>1. One(l, m) = <<y>> /\ Two(k, n, l, m) = <<x, y>>
    BY DEF One, Two
  <2> HIDE DEF x, y
  <2>2. <<x>> \o <<y>> = <<x, y>> /\ <<x, y>> \o <<y>> = <<x, y, y>>
    BY TuplesJoin
  <2> QED BY <1>1, <2>1, <2>2, Zenon
<1>4. ASSUME NEW l, NEW m, NEW i, NEW j
      PROVE  One(k, n) \o Two(l, m, i, j) = Three(k, n, l, m, i, j)
  <2> DEFINE y == <<l, m>>
             z == <<i, j>>
  <2>1. Two(l, m, i, j) = <<y, z>> /\ Three(k, n, l, m, i, j) = <<x, y, z>>
    BY DEF Two, Three
  <2> HIDE DEF x, y, z
  <2>2. <<x>> \o <<y, z>> = <<x, y, z>>
    BY TuplesJoin
  <2> QED BY <1>1, <2>1, <2>2, Zenon
<1> QED BY <1>1, <1>2, <1>3, <1>4, Zenon

LEMMA JoinTwo ==
  ASSUME NEW k, NEW n, NEW l, NEW m
  PROVE  /\ Two(k, n, l, m) # <<>>
         /\ Two(k, n, l, m) \o <<>> = Two(k, n, l, m)
         /\ <<>> \o Two(k, n, l, m) = Two(k, n, l, m)
         /\ \A i, j : Two(k, n, l, m) \o One(i, j) = Three(k, n, l, m, i, j)
<1> DEFINE x == <<k, n>>
           y == <<l, m>>
<1>1. Two(k, n, l, m) = <<x, y>> /\ Two(k, n, l, m) # <<>>
  BY DEF Two
<1>2. <<x, y>> \o <<>> = <<x, y>> /\ <<>> \o <<x, y>> = <<x, y>>
  OBVIOUS
<1>3. ASSUME NEW i, NEW j PROVE Two(k, n, l, m) \o One(i, j) = Three(k, n, l, m, i, j)
  <2> DEFINE z == <<i, j>>
  <2>1. One(i, j) = <<z>> /\ Three(k, n, l, m, i, j) = <<x, y, z>>
    BY DEF One, Three
  <2> HIDE DEF x, y, z
  <2>2. <<x, y>> \o <<z>> = <<x, y, z>>
    BY TuplesJoin
  <2> QED BY <1>1, <2>1, <2>2, Zenon
<1> QED BY <1>1, <1>2, <1>3, Zenon

LEMMA ContinueIs ==
  ASSUME CallsTyped, NEW a \in Callers, NEW more, Continue(a, more)
  PROVE  /\ calls'[a] = more \o Tail(calls[a])
         /\ \A b \in Callers \ {a} : calls'[b] = calls[b] /\ found'[b] = found[b]
         /\ calls'[a] # <<>> => found'[a] = found[a]
<1>1. /\ calls' = [calls EXCEPT ![a] = more \o Tail(calls[a])]
      /\ found' = [found EXCEPT ![a] = IF more \o Tail(calls[a]) = <<>> THEN 0 ELSE found[a]]
  BY DEF Continue
<1>2. calls \in [Callers -> Seq(Calls)] /\ found \in [Callers -> 0..2]
  BY DEF CallsTyped
<1> QED BY <1>1, <1>2, Zenon

LEMMA ListsAbout ==
  ASSUME NEW a \in Callers, NEW s \in Sources
  PROVE  /\ \A k, n : Todo(a, One(k, n)) => calls[a] # <<>> /\ (At(a, s) <=> About(n) = s)
         /\ \A k, n, l, m :
              Todo(a, Two(k, n, l, m)) => calls[a] # <<>> /\ (At(a, s) <=> About(m) = s)
         /\ \A k, n, l, m, i, j :
              Todo(a, Three(k, n, l, m, i, j)) => calls[a] # <<>> /\ (At(a, s) <=> About(j) = s)
<1>1. \A k, n : One(k, n)[Len(One(k, n))][2] = n /\ One(k, n) # <<>>
  BY DEF One
<1>2. \A k, n, l, m : /\ Two(k, n, l, m)[Len(Two(k, n, l, m))][2] = m
                      /\ Two(k, n, l, m) # <<>>
  BY DEF Two
<1>3. \A k, n, l, m, i, j :
        /\ Three(k, n, l, m, i, j)[Len(Three(k, n, l, m, i, j))][2] = j
        /\ Three(k, n, l, m, i, j) # <<>>
  BY DEF Three
<1> QED BY <1>1, <1>2, <1>3 DEF Todo, At

\* An operation is about the source of the list it is in.
LEMMA WhoseOperation ==
  ASSUME NEW a \in Callers, NEW s \in Sources, Proceeds(a, s)
  PROVE  calls[a] # <<>> /\ At(a, s)
<1>a. /\ \A k, n : Todo(a, One(k, n)) => calls[a] # <<>> /\ (At(a, s) <=> About(n) = s)
      /\ \A k, n, l, m :
           Todo(a, Two(k, n, l, m)) => calls[a] # <<>> /\ (At(a, s) <=> About(m) = s)
      /\ \A k, n, l, m, i, j :
           Todo(a, Three(k, n, l, m, i, j)) => calls[a] # <<>> /\ (At(a, s) <=> About(j) = s)
  BY ListsAbout
<1>s. About(s) = s /\ \A n \in NamesOf(s) : About(n) = s
  BY SourceNames
<1>q. s = "queue" => About("critical") = s
  BY SourceNames
<1>1. CASE Preparing(a, s)
  BY <1>1, <1>a, <1>s DEF Preparing
<1>2. CASE Checking(a, s)
  BY <1>2, <1>a, <1>s DEF Checking
<1>3. CASE Alerting(a, s)
  BY <1>3, <1>a, <1>s DEF Alerting
<1>4. CASE Clearing(a, s)
  BY <1>4, <1>a, <1>s, <1>q DEF Clearing
<1>5. CASE Ending(a, s)
  BY <1>5, <1>a, <1>s DEF Ending
<1>6. CASE Recalling(a, s)
  BY <1>6, <1>a, <1>s DEF Recalling
<1>7. CASE Timing(a, s)
  BY <1>7, <1>a, <1>s DEF Timing
<1> QED BY <1>1, <1>2, <1>3, <1>4, <1>5, <1>6, <1>7 DEF Proceeds

-----------------------------------------------------------------------------
(* What a step leaves alone.                                               *)

Spares(n) ==
  /\ There(n) => There(n)'
  /\ OpenRow(n) => OpenRow(n)'
  /\ NotHeld(n) => NotHeld(n)'
  /\ NotStored(n) => NotStored(n)'
  /\ n = "timeout" => \A k \in Nat : OnlyEvent(k) => OnlyEvent(k)'

SparesSource(s) ==
  /\ belief'[s] = belief[s] /\ (s \in loaded' <=> s \in loaded)
  /\ excused \subseteq excused'
  /\ \A n \in NamesOf(s) : Spares(n)

SparesActor(b) == calls'[b] = calls[b] /\ found'[b] = found[b] /\ event'[b] = event[b]

\* Fewer events of a name, and the same row, or an excuse.
LEMMA SparedName ==
  ASSUME NEW n \in Names, excused \subseteq excused',
         Stored(n)' => Stored(n),
         OpenRow(n) => OpenRow(n)',
         \A e \in Unresolved(n)' : \E f \in Unresolved(n) : f.id = e.id,
         Active(n) => Active(n)' \/ n \in excused'
  PROVE  Spares(n)
<1>1. There(n) => There(n)'
  BY DEF There, Active, Stored
<1>2. NotHeld(n) => NotHeld(n)'
  BY DEF NotHeld
<1>3. NotStored(n) => NotStored(n)'
  BY DEF NotStored, Stored
<1>5. OpenRow(n) => OpenRow(n)'
  OBVIOUS
<1>4. n = "timeout" => \A k \in Nat : OnlyEvent(k) => OnlyEvent(k)'
  <2> SUFFICES ASSUME n = "timeout", NEW k \in Nat, OnlyEvent(k) PROVE OnlyEvent(k)'
    OBVIOUS
  <2>1. CASE n \in excused
    BY <2>1 DEF OnlyEvent
  <2>2. CASE (\A e \in Unresolved(n) : e.id = k) /\ (k # 0 => NotStored(n))
    <3>1. \A e \in Unresolved(n)' : e.id = k
      BY <2>2
    <3> QED BY <1>3, <2>2, <3>1 DEF OnlyEvent
  <2> QED BY <2>1, <2>2 DEF OnlyEvent
<1> QED BY <1>1, <1>2, <1>3, <1>4, <1>5 DEF Spares

LEMMA SparedAlerts ==
  ASSUME UNCHANGED <<memory, rows>>, excused \subseteq excused', NEW n \in Names
  PROVE  Spares(n)
<1>1. Unresolved(n)' = Unresolved(n) /\ (Stored(n)' <=> Stored(n))
  BY DEF Unresolved, Stored
<1>2. (OpenRow(n) => OpenRow(n)') /\ (Active(n) => Active(n)')
  BY <1>1 DEF OpenRow, Active
<1> QED BY <1>1, <1>2, SparedName

\* What a monitor believes stays so.
LEMMA SparedBeliefs ==
  ASSUME NEW s \in Sources, SparesSource(s), belief[s] \in Nat
  PROVE  /\ Excused(s) => Excused(s)'
         /\ Agrees(s) => Agrees(s)'
         /\ Gone(s) => Gone(s)'
         /\ Unheld(s) => Unheld(s)'
         /\ Informed(s) => Informed(s)'
         /\ \A n \in NamesOf(s) : /\ Believes(s, n) => Believes(s, n)'
                                  /\ There(n) => There(n)'
                                  /\ OpenRow(n) => OpenRow(n)'
                                  /\ NotHeld(n) => NotHeld(n)'
                                  /\ NotStored(n) => NotStored(n)'
         /\ s = "timeout" => \A k \in Nat : OnlyEvent(k) => OnlyEvent(k)'
<1>1. \A n \in NamesOf(s) : /\ There(n) => There(n)'
                            /\ OpenRow(n) => OpenRow(n)'
                            /\ NotHeld(n) => NotHeld(n)'
                            /\ NotStored(n) => NotStored(n)'
  BY DEF SparesSource, Spares
<1>2. s = "timeout" => \A k \in Nat : OnlyEvent(k) => OnlyEvent(k)'
  <2>1. s = "timeout" => "timeout" \in NamesOf(s)
    BY DEF NamesOf
  <2> QED BY <2>1 DEF SparesSource, Spares
<1>3. belief'[s] = belief[s] /\ (s \in loaded' <=> s \in loaded) /\ excused \subseteq excused'
  BY DEF SparesSource
<1>4. Excused(s) => Excused(s)'
  BY <1>3 DEF Excused
<1>5. (Gone(s) => Gone(s)') /\ (Unheld(s) => Unheld(s)')
  BY <1>1 DEF Gone, Unheld
<1>6. Informed(s) => Informed(s)'
  BY <1>3 DEF Informed
<1>7. ASSUME NEW n \in NamesOf(s), Believes(s, n) PROVE Believes(s, n)'
  <2>1. CASE s = "memory"
    BY <1>3, <1>7, <2>1 DEF Believes
  <2>2. CASE s # "memory"
    <3>1. PICK b \in Nat : b = belief[s]
      OBVIOUS
    <3>2. b # 0 /\ n = NameOf(s, b) /\ (s = "timeout" => OnlyEvent(b - 1))
      BY <1>7, <2>2, <3>1 DEF Believes
    <3>3. s = "timeout" => OnlyEvent(b - 1)'
      BY <1>2, <3>2
    <3>4. belief'[s] = b
      BY <1>3, <3>1
    <3> QED BY <2>2, <3>2, <3>3, <3>4 DEF Believes
  <2> QED BY <2>1, <2>2
<1>8. ASSUME Agrees(s) PROVE Agrees(s)'
  <2>1. CASE s = "memory" /\ belief[s] = 0
    BY <1>3, <2>1 DEF Agrees
  <2>2. ASSUME NEW n \in NamesOf(s), s # "memory", Believes(s, n), There(n) PROVE Agrees(s)'
    BY <1>1, <1>7, <2>2 DEF Agrees
  <2>3. CASE /\ s # "memory" /\ belief[s] = 0
             /\ \A n \in NamesOf(s) : NotHeld(n) /\ (s \in loaded => NotStored(n))
    BY <1>1, <1>3, <2>3 DEF Agrees
  <2> QED BY <1>8, <2>1, <2>2, <2>3 DEF Agrees
<1> QED BY <1>1, <1>2, <1>4, <1>5, <1>6, <1>7, <1>8

\* So does the place of a thread in its check.
LEMMA SparedChecks ==
  ASSUME NEW b \in Callers, NEW s \in Sources, SparesSource(s), SparesActor(b),
         belief[s] \in Nat, event[b] # <<>> => event[b][1] \in Nat, Proceeds(b, s)
  PROVE  Proceeds(b, s)'
<1>1. /\ belief'[s] = belief[s] /\ (s \in loaded' <=> s \in loaded)
      /\ calls'[b] = calls[b] /\ found'[b] = found[b] /\ event'[b] = event[b]
  BY DEF SparesSource, SparesActor
<1>3. /\ Excused(s) => Excused(s)'
      /\ Agrees(s) => Agrees(s)'
      /\ Gone(s) => Gone(s)'
      /\ Unheld(s) => Unheld(s)'
      /\ Informed(s) => Informed(s)'
      /\ \A n \in NamesOf(s) : /\ Believes(s, n) => Believes(s, n)'
                               /\ There(n) => There(n)'
                               /\ OpenRow(n) => OpenRow(n)'
                               /\ NotHeld(n) => NotHeld(n)'
                               /\ NotStored(n) => NotStored(n)'
  BY SparedBeliefs
<1>4. s = "timeout" => \A k \in Nat : OnlyEvent(k) => OnlyEvent(k)'
  BY SparedBeliefs
<1>5. s # "queue" => s \in NamesOf(s)
  BY SourceNames
<1>6. s = "queue" => NamesOf(s) = {"warning", "critical"}
  BY SourceNames
<1>10. CASE Preparing(b, s)
  <2>1. Preparing(b, s)'
    BY <1>1, <1>3, <1>5, <1>10 DEF Preparing, Todo
  <2> QED BY <2>1 DEF Proceeds
<1>11. CASE Checking(b, s)
  <2>1. Checking(b, s)'
    BY <1>1, <1>3, <1>11 DEF Checking, Todo
  <2> QED BY <2>1 DEF Proceeds
<1>12. CASE Alerting(b, s)
  <2>1. Alerting(b, s)'
    BY <1>1, <1>3, <1>12 DEF Alerting, Todo
  <2> QED BY <2>1 DEF Proceeds
<1>13. CASE Clearing(b, s)
  <2>1. Clearing(b, s)'
    BY <1>1, <1>3, <1>6, <1>13 DEF Clearing, Todo
  <2> QED BY <2>1 DEF Proceeds
<1>14. CASE Ending(b, s)
  <2>1. s \in NamesOf(s)
    BY <1>5, <1>14 DEF Ending, Settles
  <2>2. Ending(b, s)'
    BY <1>1, <1>3, <1>14, <2>1 DEF Ending, Todo
  <2> QED BY <2>2 DEF Proceeds
<1>15. CASE Recalling(b, s)
  <2>1. s \in NamesOf(s)
    BY <1>5, <1>15 DEF Recalling
  <2>2. Recalling(b, s)'
    BY <1>1, <1>3, <1>15, <2>1 DEF Recalling, Todo
  <2> QED BY <2>2 DEF Proceeds
<1>16. CASE Timing(b, s)
  <2>1. s = "timeout" /\ s \in NamesOf(s)
    BY <1>5, <1>16 DEF Timing
  <2>2. CASE /\ event[b] # <<>>
             /\ \/ Todo(b, One("settle", s)) /\ There(s) /\ OnlyEvent(event[b][1])
                \/ Todo(b, One("delete", s)) /\ belief[s] = 0 /\ OnlyEvent(event[b][1])
                \/ /\ Todo(b, One("delete_memory", s)) /\ belief[s] = 0
                   /\ OnlyEvent(event[b][1]) /\ NotStored(s)
    <3>1. PICK k \in Nat : k = event[b][1]
      BY <2>2
    <3>2. OnlyEvent(k)' /\ event'[b][1] = k
      BY <1>1, <1>4, <2>1, <2>2, <3>1
    <3>3. Timing(b, s)'
      BY <1>1, <1>3, <2>1, <2>2, <3>2 DEF Timing, Todo
    <3> QED BY <3>3 DEF Proceeds
  <2>3. CASE \/ Todo(b, Two("trigger", s, "settle", s)) /\ (Excused(s) \/ (belief[s] = 0 /\ Gone(s)))
             \/ Todo(b, Two("update", s, "settle", s)) /\ Excused(s)
             \/ Todo(b, One("settle", s)) /\ Excused(s)
             \/ Todo(b, One("delete", s)) /\ event[b] # <<>> /\ Excused(s)
             \/ Todo(b, One("delete_memory", s)) /\ event[b] # <<>> /\ Excused(s)
    <3>1. Timing(b, s)'
      BY <1>1, <1>3, <2>1, <2>3 DEF Timing, Todo
    <3> QED BY <3>1 DEF Proceeds
  <2> QED BY <1>16, <2>2, <2>3 DEF Timing
<1> QED BY <1>10, <1>11, <1>12, <1>13, <1>14, <1>15, <1>16 DEF Proceeds

LEMMA ExcusedChecks ==
  ASSUME NEW b \in Callers, NEW s \in Sources, UNCHANGED <<calls[b], event[b]>>, Excused(s)',
         Proceeds(b, s)
  PROVE  Proceeds(b, s)'
<1>1. CASE Preparing(b, s)
  <2>1. Preparing(b, s)'
    BY <1>1 DEF Preparing, Todo
  <2> QED BY <2>1 DEF Proceeds
<1>2. CASE Checking(b, s)
  <2>1. Checking(b, s)'
    BY <1>2 DEF Checking, Todo
  <2> QED BY <2>1 DEF Proceeds
<1>3. CASE Alerting(b, s)
  <2>1. Alerting(b, s)'
    BY <1>3 DEF Alerting, Todo
  <2> QED BY <2>1 DEF Proceeds
<1>4. CASE Clearing(b, s)
  <2>1. Clearing(b, s)'
    BY <1>4 DEF Clearing, Todo
  <2> QED BY <2>1 DEF Proceeds
<1>5. CASE Ending(b, s)
  <2>1. Ending(b, s)'
    BY <1>5 DEF Ending, Todo
  <2> QED BY <2>1 DEF Proceeds
<1>6. CASE Recalling(b, s)
  <2>1. Recalling(b, s)'
    BY <1>6 DEF Recalling, Todo
  <2> QED BY <2>1 DEF Proceeds
<1>7. CASE Timing(b, s)
  <2>1. Timing(b, s)'
    BY <1>7 DEF Timing, Todo
  <2> QED BY <2>1 DEF Proceeds
<1> QED BY <1>1, <1>2, <1>3, <1>4, <1>5, <1>6, <1>7 DEF Proceeds

\* An operation of a monitor changes its own memory and place only.
LEMMA CheckSpares ==
  ASSUME AlertsTyped, NEW a \in Callers, NEW s \in Sources, CheckStep(a, s)
  PROVE  /\ UNCHANGED <<memory, rows, issued>> /\ excused \subseteq excused'
         /\ \A n \in Names : Spares(n)
         /\ \A t \in Sources \ {s} : SparesSource(t)
         /\ \A b \in Callers \ {a} : SparesActor(b) /\ source'[b] = source[b]
<1> USE DEF manager, environment, monitors
<1>1. UNCHANGED <<memory, rows, issued>> /\ excused \subseteq excused'
  BY DEF CheckStep, ForceCheck, StartCheck, LoadStates, Observe, Decide, Settle, ResetStates, Forget
<1>2. \A n \in Names : Spares(n)
  BY <1>1, SparedAlerts
<1>3. ASSUME NEW t \in Sources \ {s}
      PROVE  belief'[t] = belief[t] /\ (t \in loaded' <=> t \in loaded)
  <2>1. belief \in [Sources -> Nat]
    BY DEF AlertsTyped, MonitorsTyped
  <2> QED BY <1>3, <2>1 DEF CheckStep, ForceCheck, StartCheck, LoadStates, Observe, Decide, Settle,
                            ResetStates, Forget
<1>4. ASSUME NEW b \in Callers \ {a} PROVE SparesActor(b) /\ source'[b] = source[b]
  <2>0. /\ CallsTyped /\ event \in [Callers -> {<<>>} \cup Seq(Nat)]
        /\ source \in [Callers -> Sources \cup {"none"}]
    BY DEF AlertsTyped, MonitorsTyped
  <2>1. calls'[b] = calls[b] /\ found'[b] = found[b]
    <3>1. CASE \E more : Continue(a, more)
      BY <2>0, <3>1, ContinueIs
    <3>2. CASE Observe(a, s)
      BY <2>0, <3>2 DEF Observe, CallsTyped
    <3> QED BY <3>1, <3>2 DEF CheckStep, ForceCheck, LoadStates, Decide, Settle, ResetStates, Forget
  <2>2. event'[b] = event[b] /\ source'[b] = source[b]
    BY <2>0 DEF CheckStep, ForceCheck, StartCheck, LoadStates, Observe, Decide, Settle, ResetStates,
                Forget
  <2> QED BY <2>1, <2>2 DEF SparesActor
<1>5. ASSUME NEW t \in Sources \ {s} PROVE SparesSource(t)
  <2>1. \A n \in NamesOf(t) : n \in Names
    BY SourceNames
  <2> QED BY <1>1, <1>2, <1>3, <2>1 DEF SparesSource
<1> QED BY <1>1, <1>2, <1>4, <1>5

\* The manager changes the alert it is asked to, and drops or creates others' events
\* only with an excuse.
LEMMA ManagerSpares ==
  ASSUME AlertsTyped, TracksOwn, NEW a \in Callers, NEW n \in Names, ManagerStep(a, n),
         DeleteMemory(a, n) => n = "timeout" /\ event[a] # <<>>
  PROVE  /\ UNCHANGED <<belief, loaded, source>> /\ excused \subseteq excused'
         /\ \A m \in Names \ {n} : Spares(m)
         /\ \A b \in Callers \ {a} : SparesActor(b)
<1> USE DEF environment, monitors, manager
<1>1. UNCHANGED <<belief, loaded, source>> /\ excused \subseteq excused'
  BY DEF ManagerStep, TriggerDisabled, TriggerSuppressed, TriggerFindsRow, TriggerFindsEvent,
         TriggerCreates, UpdateRow, ResolveRows, ResolveMemory, DeleteRow, DeleteMemory
<1>2. ASSUME NEW b \in Callers \ {a} PROVE SparesActor(b)
  <2>1. CallsTyped /\ event \in [Callers -> {<<>>} \cup Seq(Nat)]
    BY DEF AlertsTyped, MonitorsTyped
  <2>2. \E more : Continue(a, more)
    BY DEF ManagerStep, TriggerDisabled, TriggerSuppressed, TriggerFindsRow, TriggerFindsEvent,
           TriggerCreates, UpdateRow, ResolveRows, ResolveMemory, DeleteRow, DeleteMemory
  <2>3. calls'[b] = calls[b] /\ found'[b] = found[b]
    BY <2>1, <2>2, ContinueIs
  <2>4. UNCHANGED event \/ \E e : event' = [event EXCEPT ![a] = e]
    BY DEF ManagerStep, TriggerDisabled, TriggerSuppressed, TriggerFindsRow, TriggerFindsEvent,
           TriggerCreates, UpdateRow, ResolveRows, ResolveMemory, DeleteRow, DeleteMemory, Returned
  <2>5. event'[b] = event[b]
    BY <2>1, <2>4
  <2> QED BY <2>3, <2>5 DEF SparesActor
<1>3. ASSUME NEW m \in Names \ {n} PROVE Spares(m)
  <2>1. CASE TriggerDisabled(a, n) \/ TriggerSuppressed(a, n) \/ TriggerFindsRow(a, n)
             \/ TriggerFindsEvent(a, n)
    <3>1. UNCHANGED <<memory, rows>>
      BY <2>1 DEF TriggerDisabled, TriggerSuppressed, TriggerFindsRow, TriggerFindsEvent
    <3> QED BY <1>1, <3>1, SparedAlerts
  <2>2. CASE TriggerCreates(a, n)
    <3> DEFINE new == [id |-> issued + 1, name |-> n, resolved |-> FALSE, acknowledged |-> FALSE]
               lost == {e.name : e \in {e \in memory \ memory' : ~e.resolved}}
    <3>1. /\ memory' = Kept(memory \cup {new}) /\ UNCHANGED rows
          /\ lost \subseteq excused'
      BY <2>2 DEF TriggerCreates
    <3>2. memory' \subseteq memory \cup {new} /\ new.name = n
      BY <3>1 DEF Kept
    <3>3. \A e \in memory : ~(e \in memory') /\ ~e.resolved => e.name \in excused'
      BY <3>1
    <3> HIDE DEF new, lost
    <3>4. \A e \in Unresolved(m)' : e \in Unresolved(m)
      BY <3>2 DEF Unresolved
    <3>5. \A e \in Unresolved(m) : e \in Unresolved(m)' \/ m \in excused'
      BY <3>3 DEF Unresolved
    <3>6. (Stored(m)' <=> Stored(m)) /\ (OpenRow(m) => OpenRow(m)')
      BY <1>1, <3>1 DEF Stored, OpenRow
    <3>7. Active(m) => Active(m)' \/ m \in excused'
      BY <3>5, <3>6 DEF Active, Stored
    <3> QED BY <1>1, <3>4, <3>6, <3>7, SparedName
  <2>3. CASE UpdateRow(a, n) \/ ResolveRows(a, n) \/ DeleteRow(a, n)
    <3>1. UNCHANGED memory /\ (UNCHANGED rows \/ rows' = [rows EXCEPT ![n] = FALSE]
                               \/ rows' = Without(n))
      BY <2>3 DEF UpdateRow, ResolveRows, DeleteRow
    <3>2. (Stored(m)' <=> Stored(m)) /\ (OpenRow(m) => OpenRow(m)')
      BY <1>1, <3>1 DEF Stored, Without, OpenRow
    <3>3. Unresolved(m)' = Unresolved(m)
      BY <3>1 DEF Unresolved
    <3>4. Active(m) => Active(m)'
      BY <3>2, <3>3 DEF Active, Stored
    <3> QED BY <1>1, <3>2, <3>3, <3>4, SparedName
  <2>4. CASE ResolveMemory(a, n)
    <3>1. UNCHANGED rows /\ memory' = {Resolved(e, n) : e \in memory}
      BY <2>4 DEF ResolveMemory
    <3>2. \A e \in memory : /\ e.name = m => Resolved(e, n) = e
                            /\ Resolved(e, n).name = e.name
      <4>1. memory \subseteq Events
        BY DEF AlertsTyped, IdsAreUnique
      <4> QED BY <4>1 DEF Resolved, Events
    <3>3. Unresolved(m)' = Unresolved(m)
      <4>1. \A e \in Unresolved(m) : e \in Unresolved(m)'
        BY <3>1, <3>2 DEF Unresolved
      <4>2. \A e \in Unresolved(m)' : e \in Unresolved(m)
        BY <3>1, <3>2 DEF Unresolved
      <4> QED BY <4>1, <4>2, Zenon
    <3>4. (Stored(m)' <=> Stored(m)) /\ (OpenRow(m) => OpenRow(m)')
      BY <1>1, <3>1 DEF Stored, OpenRow
    <3>5. Active(m) => Active(m)'
      BY <3>3, <3>4 DEF Active, Stored
    <3> QED BY <1>1, <3>3, <3>4, <3>5, SparedName
  <2>5. CASE DeleteMemory(a, n)
    <3>1. \A e \in memory : e.name = m => e.id # event[a][1]
      BY <2>5 DEF TracksOwn, Followable
    <3>2. memory' = {e \in memory : e.id # event[a][1]} /\ UNCHANGED rows
      BY <2>5 DEF DeleteMemory, WithoutEvent
    <3>3. (Stored(m)' <=> Stored(m)) /\ (OpenRow(m) => OpenRow(m)')
      BY <1>1, <3>2 DEF Stored, OpenRow
    <3>4. Unresolved(m)' = Unresolved(m)
      BY <3>1, <3>2 DEF Unresolved
    <3>5. Active(m) => Active(m)'
      BY <3>3, <3>4 DEF Active, Stored
    <3> QED BY <1>1, <3>3, <3>4, <3>5, SparedName
  <2> QED BY <2>1, <2>2, <2>3, <2>4, <2>5 DEF ManagerStep
<1> QED BY <1>1, <1>2, <1>3

\* Deleting everything, and an operator's acknowledgement, excuse what they take.
LEMMA RequestSpares ==
  ASSUME AlertsTyped, NEW m \in Names,
         \/ \E a \in Callers : ClearRows(a) \/ ClearMemory(a)
         \/ \E n \in Scope : Acknowledge(n)
  PROVE  excused \subseteq excused' /\ Spares(m)
<1>1. ASSUME NEW a \in Callers, ClearRows(a) \/ ClearMemory(a)
      PROVE  excused \subseteq excused' /\ Spares(m)
  <2>1. /\ memory' \subseteq memory /\ excused' = excused \cup Removed
        /\ rows' = [n \in {} |-> FALSE] \/ rows' = rows
    BY <1>1 DEF ClearRows, ClearMemory
  <2>2. Active(m) => Active(m)' \/ m \in excused'
    BY <2>1 DEF Removed
  <2>3. (Stored(m)' => Stored(m)) /\ (OpenRow(m) => OpenRow(m)')
    BY <2>1 DEF Stored, OpenRow
  <2>4. \A e \in Unresolved(m)' : e \in Unresolved(m)
    BY <2>1 DEF Unresolved
  <2> QED BY <2>1, <2>2, <2>3, <2>4, SparedName
<1>2. ASSUME NEW n \in Scope, Acknowledge(n) PROVE excused \subseteq excused' /\ Spares(m)
  <2>1. CASE DatabaseUp
    <3>1. /\ n \in DOMAIN rows /\ rows' = [rows EXCEPT ![n] = TRUE] /\ UNCHANGED memory
          /\ excused' = excused \cup {n}
      BY <1>2, <2>1 DEF Acknowledge
    <3>2. /\ Stored(m)' => Stored(m)
          /\ Stored(m) => Stored(m)' \/ m \in excused'
          /\ OpenRow(m) => OpenRow(m)'
      BY <3>1 DEF Stored, OpenRow
    <3>3. Unresolved(m)' = Unresolved(m)
      BY <3>1 DEF Unresolved
    <3>4. Active(m) => Active(m)' \/ m \in excused'
      BY <3>2, <3>3 DEF Active, Stored
    <3> QED BY <3>1, <3>2, <3>3, <3>4, SparedName
  <2>2. CASE ~DatabaseUp
    <3> DEFINE Marked(e) == [e EXCEPT !.acknowledged = @ \/ e \in Unresolved(n)]
    <3>1. memory' = {Marked(e) : e \in memory} /\ UNCHANGED <<rows, excused>>
      BY <1>2, <2>2 DEF Acknowledge
    <3>2. ASSUME NEW e \in memory
          PROVE  /\ Marked(e).id = e.id /\ Marked(e).name = e.name
                 /\ Marked(e).resolved = e.resolved
      <4> DEFINE flag == e.acknowledged \/ e \in Unresolved(n)
      <4>1. flag \in BOOLEAN
        BY Zenon
      <4>2. Marked(e) = [e EXCEPT !.acknowledged = flag]
        BY Zenon
      <4>3. e \in Events
        BY DEF AlertsTyped, IdsAreUnique
      <4> HIDE DEF flag, Marked
      <4> QED BY <4>1, <4>2, <4>3 DEF Events
    <3> HIDE DEF Marked
    <3>3. \A e \in Unresolved(m)' : \E f \in Unresolved(m) : f.id = e.id
      BY <3>1, <3>2 DEF Unresolved
    <3>4. \A e \in Unresolved(m) : Marked(e) \in Unresolved(m)'
      BY <3>1, <3>2 DEF Unresolved
    <3>5. (Stored(m)' <=> Stored(m)) /\ (OpenRow(m) => OpenRow(m)')
      BY <3>1 DEF Stored, OpenRow
    <3>6. Active(m) => Active(m)'
      BY <3>4, <3>5 DEF Active, Stored
    <3> QED BY <3>1, <3>3, <3>5, <3>6, SparedName
  <2> QED BY <2>1, <2>2
<1> QED BY <1>1, <1>2

-----------------------------------------------------------------------------
(* The steps of a check.                                                   *)

\* The operation that is done is the first of the list.
LEMMA HeadIs ==
  ASSUME NEW a \in Callers, NEW k, NEW x, Op(a, k, x)
  PROVE  /\ \A l, n : Todo(a, One(l, n)) => l = k /\ n = x
         /\ \A l, n, p, q : Todo(a, Two(l, n, p, q)) => l = k /\ n = x
         /\ \A l, n, p, q, i, j : Todo(a, Three(l, n, p, q, i, j)) => l = k /\ n = x
BY DEF Op, Todo, One, Two, Three

\* The list that is left, after what comes in its place.
LEMMA TailIs ==
  ASSUME CallsTyped, NEW a \in Callers, NEW more, Continue(a, more)
  PROVE  /\ \A l, n : Todo(a, One(l, n)) => calls'[a] = more \o <<>>
         /\ \A l, n, p, q : Todo(a, Two(l, n, p, q)) => calls'[a] = more \o One(p, q)
         /\ \A l, n, p, q, i, j :
              Todo(a, Three(l, n, p, q, i, j)) => calls'[a] = more \o Two(p, q, i, j)
<1>1. calls'[a] = more \o Tail(calls[a])
  BY ContinueIs
<1>2. ASSUME NEW l, NEW n, Todo(a, One(l, n)) PROVE calls'[a] = more \o <<>>
  <2>1. Tail(One(l, n)) = <<>>
    BY DEF One
  <2> QED BY <1>1, <1>2, <2>1 DEF Todo
<1>3. ASSUME NEW l, NEW n, NEW p, NEW q, Todo(a, Two(l, n, p, q))
      PROVE  calls'[a] = more \o One(p, q)
  <2>1. Tail(Two(l, n, p, q)) = One(p, q)
    BY DEF One, Two
  <2> QED BY <1>1, <1>3, <2>1 DEF Todo
<1>4. ASSUME NEW l, NEW n, NEW p, NEW q, NEW i, NEW j, Todo(a, Three(l, n, p, q, i, j))
      PROVE  calls'[a] = more \o Two(p, q, i, j)
  <2>1. Tail(Three(l, n, p, q, i, j)) = Two(p, q, i, j)
    BY ListsAre
  <2> QED BY <1>1, <1>4, <2>1 DEF Todo
<1> QED BY <1>2, <1>3, <1>4

LEMMA SparedPlace ==
  ASSUME NEW s \in Sources, UNCHANGED <<memory, rows>>, excused \subseteq excused',
         belief'[s] = belief[s], s \in loaded' <=> s \in loaded
  PROVE  SparesSource(s)
BY SparedAlerts, SourceNames DEF SparesSource

LEMMA OneCheck ==
  ASSUME NEW a \in Callers, NEW s \in Sources, NEW t \in Sources, NEW k,
         Op(a, k, s), Proceeds(a, t), k \in {"check", "observe", "decide", "load", "settle",
                                              "reset", "forget"}
  PROVE  /\ s = t
         /\ k = "check" => Todo(a, One("check", s)) /\ (Excused(s) \/ Agrees(s))
         /\ k = "observe" => Todo(a, One("observe", s))
                             /\ (Excused(s) \/ (Agrees(s) /\ Informed(s)))
         /\ k = "decide" => Todo(a, One("decide", s))
                            /\ (Excused(s) \/ (Agrees(s) /\ Informed(s)))
         /\ k = "load" => \/ /\ Todo(a, Two("load", s, "observe", s))
                             /\ s \notin {"low", "error", "memory"}
                             /\ Excused(s) \/ Agrees(s)
                          \/ /\ Todo(a, One("load", s)) /\ s \in {"low", "error"}
                             /\ Excused(s) \/ (IF found[a] = 0 THEN Agrees(s) ELSE There(s))
         /\ k = "settle" => \/ /\ Todo(a, One("settle", s)) /\ s \in Settles
                               /\ Excused(s) \/ (IF found[a] = 0 THEN Gone(s) ELSE There(s))
                            \/ /\ Todo(a, One("settle", s)) /\ s = "timeout"
                               /\ \/ Excused(s)
                                  \/ event[a] # <<>> /\ There(s) /\ OnlyEvent(event[a][1])
         /\ k = "reset" => Todo(a, Two("reset", s, "check", s))
                           /\ (Excused(s) \/ (Agrees(s) /\ Unheld(s)))
         /\ k = "forget" => /\ Todo(a, Two("forget", s, "check", s))
                            /\ \/ Excused(s)
                               \/ Unheld(s) /\ (s \in {"low", "error"} => NotStored(s))
                            /\ s \notin {"memory", "database"}
<1>h. /\ \A l, n : Todo(a, One(l, n)) => l = k /\ n = s
      /\ \A l, n, p, q : Todo(a, Two(l, n, p, q)) => l = k /\ n = s
      /\ \A l, n, p, q, i, j : Todo(a, Three(l, n, p, q, i, j)) => l = k /\ n = s
  BY HeadIs
<1>1. CASE Preparing(a, t)
  BY <1>1, <1>h DEF Preparing
<1>2. CASE Checking(a, t)
  BY <1>2, <1>h DEF Checking
<1>3. CASE Alerting(a, t)
  BY <1>3, <1>h DEF Alerting
<1>4. CASE Clearing(a, t)
  BY <1>4, <1>h DEF Clearing
<1>5. CASE Ending(a, t)
  BY <1>5, <1>h DEF Ending
<1>6. CASE Recalling(a, t)
  BY <1>6, <1>h DEF Recalling
<1>7. CASE Timing(a, t)
  BY <1>7, <1>h DEF Timing, Settles
<1> QED BY <1>1, <1>2, <1>3, <1>4, <1>5, <1>6, <1>7 DEF Proceeds

\* The list that is left, when one or two operations have come in place of the first.
LEMMA LeftIs ==
  ASSUME CallsTyped, NEW a \in Callers, NEW more, Continue(a, more)
  PROVE  /\ \A l, n : Todo(a, One(l, n)) =>
              /\ more = <<>> => calls'[a] = <<>>
              /\ \A x, y : more = One(x, y) => calls'[a] = One(x, y) /\ found'[a] = found[a]
              /\ \A x, y, z, w :
                   more = Two(x, y, z, w) => calls'[a] = Two(x, y, z, w) /\ found'[a] = found[a]
         /\ \A l, n, p, q : Todo(a, Two(l, n, p, q)) =>
              /\ more = <<>> => calls'[a] = One(p, q) /\ found'[a] = found[a]
              /\ \A x, y : more = One(x, y) => calls'[a] = Two(x, y, p, q) /\ found'[a] = found[a]
              /\ \A x, y, z, w :
                   more = Two(x, y, z, w) => calls'[a] = Three(x, y, z, w, p, q)
         /\ \A l, n, p, q, i, j : Todo(a, Three(l, n, p, q, i, j)) =>
              /\ more = <<>> => calls'[a] = Two(p, q, i, j) /\ found'[a] = found[a]
              /\ \A x, y : more = One(x, y) => calls'[a] = Three(x, y, p, q, i, j)
<1>1. calls'[a] # <<>> => found'[a] = found[a]
  BY ContinueIs
<1>2. ASSUME NEW l, NEW n, Todo(a, One(l, n))
      PROVE  /\ more = <<>> => calls'[a] = <<>>
             /\ \A x, y : more = One(x, y) => calls'[a] = One(x, y) /\ found'[a] = found[a]
             /\ \A x, y, z, w :
                  more = Two(x, y, z, w) => calls'[a] = Two(x, y, z, w) /\ found'[a] = found[a]
  <2>1. calls'[a] = more \o <<>>
    BY <1>2, TailIs
  <2>2. <<>> \o <<>> = <<>>
    OBVIOUS
  <2>3. ASSUME NEW x, NEW y, more = One(x, y) PROVE calls'[a] = One(x, y) /\ found'[a] = found[a]
    <3>1. One(x, y) \o <<>> = One(x, y) /\ One(x, y) # <<>>
      BY JoinOne
    <3> QED BY <1>1, <2>1, <2>3, <3>1, Zenon
  <2>4. ASSUME NEW x, NEW y, NEW z, NEW w, more = Two(x, y, z, w)
        PROVE  calls'[a] = Two(x, y, z, w) /\ found'[a] = found[a]
    <3>1. Two(x, y, z, w) \o <<>> = Two(x, y, z, w) /\ Two(x, y, z, w) # <<>>
      BY JoinTwo
    <3> QED BY <1>1, <2>1, <2>4, <3>1, Zenon
  <2> QED BY <2>1, <2>2, <2>3, <2>4, Zenon
<1>3. ASSUME NEW l, NEW n, NEW p, NEW q, Todo(a, Two(l, n, p, q))
      PROVE  /\ more = <<>> => calls'[a] = One(p, q) /\ found'[a] = found[a]
             /\ \A x, y : more = One(x, y) => calls'[a] = Two(x, y, p, q) /\ found'[a] = found[a]
             /\ \A x, y, z, w :
                  more = Two(x, y, z, w) => calls'[a] = Three(x, y, z, w, p, q)
  <2>1. calls'[a] = more \o One(p, q)
    BY <1>3, TailIs
  <2>2. ASSUME more = <<>> PROVE calls'[a] = One(p, q) /\ found'[a] = found[a]
    <3>1. <<>> \o One(p, q) = One(p, q) /\ One(p, q) # <<>>
      BY JoinOne
    <3> QED BY <1>1, <2>1, <2>2, <3>1, Zenon
  <2>3. ASSUME NEW x, NEW y, more = One(x, y)
        PROVE  calls'[a] = Two(x, y, p, q) /\ found'[a] = found[a]
    <3>1. One(x, y) \o One(p, q) = Two(x, y, p, q)
      BY JoinOne
    <3>2. Two(x, y, p, q) # <<>>
      BY JoinTwo
    <3> QED BY <1>1, <2>1, <2>3, <3>1, <3>2, Zenon
  <2>4. ASSUME NEW x, NEW y, NEW z, NEW w, more = Two(x, y, z, w)
        PROVE  calls'[a] = Three(x, y, z, w, p, q)
    <3>1. Two(x, y, z, w) \o One(p, q) = Three(x, y, z, w, p, q)
      BY JoinTwo
    <3> QED BY <2>1, <2>4, <3>1, Zenon
  <2> QED BY <2>2, <2>3, <2>4, Zenon
<1>4. ASSUME NEW l, NEW n, NEW p, NEW q, NEW i, NEW j, Todo(a, Three(l, n, p, q, i, j))
      PROVE  /\ more = <<>> => calls'[a] = Two(p, q, i, j) /\ found'[a] = found[a]
             /\ \A x, y : more = One(x, y) => calls'[a] = Three(x, y, p, q, i, j)
  <2>1. calls'[a] = more \o Two(p, q, i, j)
    BY <1>4, TailIs
  <2>2. ASSUME more = <<>> PROVE calls'[a] = Two(p, q, i, j) /\ found'[a] = found[a]
    <3>1. <<>> \o Two(p, q, i, j) = Two(p, q, i, j) /\ Two(p, q, i, j) # <<>>
      BY JoinTwo
    <3> QED BY <1>1, <2>1, <2>2, <3>1, Zenon
  <2>3. ASSUME NEW x, NEW y, more = One(x, y) PROVE calls'[a] = Three(x, y, p, q, i, j)
    <3>1. One(x, y) \o Two(p, q, i, j) = Three(x, y, p, q, i, j)
      BY JoinOne
    <3> QED BY <2>1, <2>3, <3>1, Zenon
  <2> QED BY <2>2, <2>3, Zenon
<1> QED BY <1>2, <1>3, <1>4, Zenon

LEMMA ForceCheckGoesOn ==
  ASSUME AlertsTyped, NEW a \in Callers, NEW s \in Sources, ForceCheck(a, s), Proceeds(a, s)
  PROVE  Proceeds(a, s)'
<1>1. Todo(a, One("check", s)) /\ (Excused(s) \/ Agrees(s))
  BY OneCheck DEF ForceCheck
<1>2. calls'[a] = CheckOps(s) \o <<>>
  BY <1>1, TailIs DEF ForceCheck, AlertsTyped
<1>3. SparesSource(s)
  BY SparedPlace DEF ForceCheck, StartCheck, monitors, manager
<1>4. Excused(s)' \/ Agrees(s)'
  BY <1>1, <1>3, SparedBeliefs DEF AlertsTyped, MonitorsTyped
<1>5. CASE s \in {"low", "error", "memory"}
  <2>1. CheckOps(s) = One("observe", s)
    BY <1>5 DEF CheckOps, One
  <2>2. calls'[a] = One("observe", s)
    BY <1>2, <2>1, JoinOne, JoinTwo
  <2>3. Informed(s)'
    BY <1>5 DEF Informed
  <2>4. Checking(a, s)'
    BY <1>4, <2>2, <2>3 DEF Checking, Todo
  <2> QED BY <2>4 DEF Proceeds
<1>6. CASE s \notin {"low", "error", "memory"}
  <2>1. CheckOps(s) = Two("load", s, "observe", s)
    BY <1>6 DEF CheckOps, Two, Sources
  <2>2. calls'[a] = Two("load", s, "observe", s)
    BY <1>2, <2>1, JoinOne, JoinTwo
  <2>3. Checking(a, s)'
    BY <1>4, <1>6, <2>2 DEF Checking, Todo
  <2> QED BY <2>3 DEF Proceeds
<1> QED BY <1>5, <1>6

\* What a load restores is in the table, and what it does not find is not there.
LEMMA LoadFinds ==
  ASSUME AlertsTyped, NEW a \in Callers, NEW s \in Sources, LoadStates(a, s), s # "memory"
  PROVE  \E v \in Nat :
           /\ belief'[s] = v
           /\ Continue(a, IF s \notin {"low", "error"} THEN <<>>
                          ELSE IF v # 0 /\ found[a] = 0
                               THEN << <<"resolve", s>>, <<"settle", s>> >>
                               ELSE << <<"settle", s>> >>)
           /\ SparesSource(s) \/ (MayLoad(s) /\ s \in loaded' /\ UNCHANGED <<memory, rows>>)
           /\ \/ Excused(s)'
              \/ v = belief[s] /\ ~MayLoad(s)
              \/ /\ v = belief[s] /\ MayLoad(s)
                 /\ v = 0 => \A n \in NamesOf(s) : ~Stored(n)
              \/ v # 0 /\ MayLoad(s) /\ Stored(NameOf(s, v)) /\ (s = "queue" \/ v = 1)
<1>1. PICK v \in IF Recalled(s) = {} THEN {belief[s]} ELSE Recalled(s) :
        /\ belief' = [belief EXCEPT ![s] = v]
        /\ Continue(a, IF s \notin {"low", "error"} THEN <<>>
                       ELSE IF v # 0 /\ found[a] = 0
                            THEN << <<"resolve", s>>, <<"settle", s>> >>
                            ELSE << <<"settle", s>> >>)
  BY DEF LoadStates
<1>2. belief \in [Sources -> Nat]
  BY DEF AlertsTyped, MonitorsTyped
<1>3. /\ UNCHANGED <<memory, rows>>
      /\ loaded' = IF MayLoad(s) THEN loaded \cup {s} ELSE loaded
      /\ excused' = IF MayLoad(s) /\ ~DatabaseUp THEN excused \cup NamesOf(s) ELSE excused
  BY DEF LoadStates, manager
<1>4. v \in Nat /\ belief'[s] = v
  BY <1>1, <1>2 DEF Recalled, FromRows
<1>5. CASE ~MayLoad(s)
  <2>1. v = belief[s]
    BY <1>1, <1>5 DEF Recalled
  <2>2. SparesSource(s)
    BY <1>3, <1>4, <1>5, <2>1, SparedPlace
  <2> QED BY <1>1, <1>4, <1>5, <2>1, <2>2
<1>6. CASE MayLoad(s) /\ ~DatabaseUp
  <2>1. Excused(s)'
    BY <1>3, <1>6 DEF Excused
  <2> QED BY <1>1, <1>3, <1>4, <1>6, <2>1
<1>7. CASE MayLoad(s) /\ DatabaseUp
  <2>1. Recalled(s) = FromRows(s) /\ s \in loaded'
    BY <1>3, <1>7 DEF Recalled
  <2>2. CASE FromRows(s) = {}
    <3>1. v = belief[s]
      BY <1>1, <2>1, <2>2
    <3>2. \A n \in NamesOf(s) : ~Stored(n)
      <4>1. CASE s = "queue"
        <5>1. ~Stored("warning") /\ ~Stored("critical")
          BY <2>2, <4>1 DEF FromRows, Stored
        <5> QED BY <4>1, <5>1, SourceNames
      <4>2. CASE s # "queue"
        <5>1. ~Stored(s)
          BY <2>2, <4>2 DEF FromRows, Stored
        <5> QED BY <4>2, <5>1, SourceNames
      <4> QED BY <4>1, <4>2
    <3> QED BY <1>1, <1>3, <1>4, <1>7, <2>1, <3>1, <3>2
  <2>3. CASE FromRows(s) # {}
    <3>1. v \in FromRows(s)
      BY <1>1, <2>1, <2>3
    <3>2. v # 0 /\ Stored(NameOf(s, v)) /\ (s = "queue" \/ v = 1)
      BY <3>1 DEF FromRows, NameOf, Stored
    <3> QED BY <1>1, <1>3, <1>4, <1>7, <2>1, <3>2
  <2> QED BY <2>2, <2>3
<1> QED BY <1>5, <1>6, <1>7

LEMMA LoadGoesOn ==
  ASSUME AlertsTyped, NEW a \in Callers, NEW s \in Sources, LoadStates(a, s), Proceeds(a, s)
  PROVE  Proceeds(a, s)'
<1>1. \/ /\ Todo(a, Two("load", s, "observe", s)) /\ s \notin {"low", "error", "memory"}
         /\ Excused(s) \/ Agrees(s)
      \/ /\ Todo(a, One("load", s)) /\ s \in {"low", "error"}
         /\ Excused(s) \/ (IF found[a] = 0 THEN Agrees(s) ELSE There(s))
  BY OneCheck DEF LoadStates
<1>2. s # "memory"
  BY <1>1
<1>3. PICK v \in Nat :
        /\ belief'[s] = v
        /\ Continue(a, IF s \notin {"low", "error"} THEN <<>>
                       ELSE IF v # 0 /\ found[a] = 0
                            THEN << <<"resolve", s>>, <<"settle", s>> >>
                            ELSE << <<"settle", s>> >>)
        /\ SparesSource(s) \/ (MayLoad(s) /\ s \in loaded' /\ UNCHANGED <<memory, rows>>)
        /\ \/ Excused(s)'
           \/ v = belief[s] /\ ~MayLoad(s)
           \/ /\ v = belief[s] /\ MayLoad(s)
              /\ v = 0 => \A n \in NamesOf(s) : ~Stored(n)
           \/ v # 0 /\ MayLoad(s) /\ Stored(NameOf(s, v)) /\ (s = "queue" \/ v = 1)
  BY <1>2, LoadFinds
<1>4. belief[s] \in Nat /\ CallsTyped
  BY DEF AlertsTyped, MonitorsTyped
<1>5. excused \subseteq excused' /\ UNCHANGED <<memory, rows>>
  BY DEF LoadStates, manager
<1>6. \A n \in NamesOf(s) : /\ There(n) => There(n)'
                            /\ NotHeld(n) => NotHeld(n)'
                            /\ s = "timeout" => \A k \in Nat : OnlyEvent(k) => OnlyEvent(k)'
  <2>1. \A n \in NamesOf(s) : Spares(n)
    BY <1>5, SparedAlerts, SourceNames
  <2>2. s = "timeout" => NamesOf(s) = {"timeout"}
    BY SourceNames
  <2> QED BY <2>1, <2>2 DEF Spares
<1>7. Excused(s) => Excused(s)'
  BY <1>5 DEF Excused
\* What the load leaves agrees, if what it found did.
<1>8. ASSUME Agrees(s) PROVE Excused(s)' \/ (Agrees(s)' /\ Informed(s)')
  <2>1. CASE Excused(s)'
    BY <2>1
  <2>2. CASE v = belief[s] /\ ~MayLoad(s)
    <3>1. SparesSource(s)
      BY <1>3, <2>2
    <3>2. Informed(s)
      BY <1>2, <2>2 DEF MayLoad, Informed
    <3> QED BY <1>4, <1>8, <3>1, <3>2, SparedBeliefs
  <2>3. CASE /\ v = belief[s] /\ MayLoad(s)
             /\ v = 0 => \A n \in NamesOf(s) : ~Stored(n)
    <3>1. s \in loaded'
      BY <2>3 DEF LoadStates
    <3>2. CASE v = 0
      <4>1. \A n \in NamesOf(s) : NotStored(n)'
        BY <1>5, <2>3, <3>2 DEF NotStored, Stored
      <4>2. \A n \in NamesOf(s) : NotHeld(n)
        BY <1>2, <1>8, <2>3, <3>2 DEF Agrees, Believes
      <4>3. Agrees(s)'
        BY <1>2, <1>3, <1>6, <3>2, <4>1, <4>2 DEF Agrees
      <4> QED BY <3>1, <4>3 DEF Informed
    <3>3. CASE v # 0
      <4>1. PICK n \in NamesOf(s) : Believes(s, n) /\ There(n)
        BY <1>8, <2>3, <3>3 DEF Agrees
      <4>2. n = NameOf(s, v) /\ (s = "timeout" => OnlyEvent(v - 1))
        BY <1>2, <2>3, <4>1 DEF Believes
      <4>3. s = "timeout" => OnlyEvent(v - 1)'
        BY <1>6, <3>3, <4>2
      <4>4. Believes(s, n)'
        BY <1>2, <1>3, <3>3, <4>2, <4>3 DEF Believes
      <4>5. Agrees(s)'
        BY <1>2, <1>6, <4>1, <4>4 DEF Agrees
      <4> QED BY <3>1, <4>5 DEF Informed
    <3> QED BY <3>2, <3>3
  <2>4. CASE v # 0 /\ MayLoad(s) /\ Stored(NameOf(s, v)) /\ (s = "queue" \/ v = 1)
    <3>1. NameOf(s, v) \in NamesOf(s)
      BY SourceNames DEF NameOf
    <3>2. PICK n \in NamesOf(s) : n = NameOf(s, v)
      BY <3>1
    <3>3. There(n)'
      BY <1>5, <2>4, <3>2 DEF There, Active, Stored
    <3>4. s = "timeout" => OnlyEvent(0)'
      <4>1. ASSUME s = "timeout" PROVE OnlyEvent(0)'
        <5>1. belief[s] = 0 /\ s \in NamesOf(s)
          BY <2>4, <4>1, SourceNames DEF MayLoad
        <5>2. NotHeld(s)
          BY <1>8, <2>4, <4>1, <5>1 DEF Agrees, Believes
        <5>3. NotHeld(s)'
          BY <1>6, <5>1, <5>2
        <5> QED BY <4>1, <5>3 DEF OnlyEvent, NotHeld
      <4> QED BY <4>1
    <3>5. s = "timeout" => v - 1 = 0
      BY <2>4
    <3>6. Believes(s, n)'
      BY <1>2, <1>3, <2>4, <3>2, <3>4, <3>5 DEF Believes
    <3>7. Agrees(s)' /\ Informed(s)'
      BY <1>2, <1>3, <2>4, <3>3, <3>6 DEF Agrees, Informed
    <3> QED BY <3>7
  <2> QED BY <1>3, <2>1, <2>2, <2>3, <2>4
<1>10. CASE /\ Todo(a, Two("load", s, "observe", s)) /\ s \notin {"low", "error", "memory"}
            /\ Excused(s) \/ Agrees(s)
  <2>1. Continue(a, <<>>)
    BY <1>3, <1>10
  <2>2. calls'[a] = One("observe", s)
    BY <1>4, <1>10, <2>1, LeftIs
  <2>3. Checking(a, s)'
    BY <1>7, <1>8, <1>10, <2>2 DEF Checking, Todo
  <2> QED BY <2>3 DEF Proceeds
<1>11. CASE /\ Todo(a, One("load", s)) /\ s \in {"low", "error"}
            /\ Excused(s) \/ (IF found[a] = 0 THEN Agrees(s) ELSE There(s))
  <2>0. s \in Settles /\ NamesOf(s) = {s}
    BY <1>11, SourceNames DEF Settles
  <2>1. CASE v # 0 /\ found[a] = 0
    <3>1. Continue(a, Two("resolve", s, "settle", s))
      BY <1>3, <1>11, <2>1 DEF Two
    <3>3. calls'[a] = Two("resolve", s, "settle", s) /\ found'[a] = found[a]
      BY <1>4, <1>11, <3>1, LeftIs
    <3>4. found'[a] = found[a]
      BY <3>3
    <3>5. Ending(a, s)'
      BY <2>0, <2>1, <3>3, <3>4 DEF Ending, Todo
    <3> QED BY <3>5 DEF Proceeds
  <2>2. CASE ~(v # 0 /\ found[a] = 0)
    <3>1. Continue(a, One("settle", s))
      BY <1>3, <1>11, <2>2 DEF One
    <3>3. calls'[a] = One("settle", s) /\ found'[a] = found[a]
      BY <1>4, <1>11, <3>1, LeftIs
    <3>4. found'[a] = found[a]
      BY <3>3
    <3>5. found[a] = 0 => Excused(s)' \/ Gone(s)'
      <4>1. ASSUME found[a] = 0, ~Excused(s)' PROVE Gone(s)'
        <5>1. v = 0 /\ Agrees(s)
          BY <1>7, <1>11, <2>2, <4>1
        <5>2. NotHeld(s)
          BY <1>2, <1>3, <2>0, <4>1, <5>1 DEF Agrees, Believes
        <5>3. NotStored(s)'
          <6>1. CASE \A n \in NamesOf(s) : ~Stored(n)
            BY <1>5, <2>0, <6>1 DEF NotStored, Stored
          <6>2. CASE v = belief[s] /\ ~MayLoad(s)
            <7>1. s \in loaded /\ belief[s] = 0
              BY <1>11, <5>1, <6>2 DEF MayLoad
            <7>2. NotStored(s)
              BY <1>2, <2>0, <5>1, <7>1 DEF Agrees, Believes
            <7>3. (Stored(s) <=> Stored(s)') /\ (s \in excused => s \in excused')
              BY <1>5 DEF Stored
            <7> QED BY <7>2, <7>3 DEF NotStored, Stored
          <6> QED BY <1>3, <4>1, <5>1, <6>1, <6>2
        <5> QED BY <1>6, <2>0, <5>2, <5>3 DEF Gone
      <4> QED BY <4>1
    <3>6. found[a] # 0 => Excused(s)' \/ There(s)'
      BY <1>6, <1>7, <1>11, <2>0
    <3>7. Ending(a, s)'
      BY <2>0, <3>3, <3>4, <3>5, <3>6 DEF Ending, Todo
    <3> QED BY <3>7 DEF Proceeds
  <2> QED BY <2>1, <2>2
<1> QED BY <1>1, <1>10, <1>11

LEMMA ObserveGoesOn ==
  ASSUME AlertsTyped, NEW a \in Callers, NEW s \in Sources, Observe(a, s), Proceeds(a, s)
  PROVE  GoesOn(a, s)'
<1>1. Todo(a, One("observe", s)) /\ (Excused(s) \/ (Agrees(s) /\ Informed(s)))
  BY OneCheck DEF Observe
<1>2. calls'[a] = When(Readable(s), << <<"decide", s>> >>) \o <<>>
  <2>1. Tail(One("observe", s)) = <<>>
    BY DEF One
  <2> QED BY <1>1, <2>1 DEF Observe, Todo, AlertsTyped, CallsTyped
<1>3. SparesSource(s)
  BY SparedPlace DEF Observe, monitors, manager
<1>4. Excused(s)' \/ (Agrees(s)' /\ Informed(s)')
  BY <1>1, <1>3, SparedBeliefs DEF AlertsTyped, MonitorsTyped
<1>5. CASE Readable(s)
  <2>1. calls'[a] = One("decide", s)
    BY <1>2, <1>5, JoinOne DEF When, One
  <2>2. Checking(a, s)'
    BY <1>4, <2>1 DEF Checking, Todo
  <2> QED BY <2>2 DEF Proceeds, GoesOn
<1>6. CASE ~Readable(s)
  <2>1. calls'[a] = <<>>
    BY <1>2, <1>6 DEF When
  <2> QED BY <1>4, <2>1 DEF GoesOn
<1> QED BY <1>5, <1>6

LEMMA SettleGoesOn ==
  ASSUME AlertsTyped, NEW a \in Callers, NEW s \in Sources, Settle(a, s), Proceeds(a, s)
  PROVE  GoesOn(a, s)'
<1>1. /\ Todo(a, One("settle", s))
      /\ \/ /\ s \in Settles
            /\ Excused(s) \/ (IF found[a] = 0 THEN Gone(s) ELSE There(s))
         \/ /\ s = "timeout"
            /\ \/ Excused(s)
               \/ event[a] # <<>> /\ There(s) /\ OnlyEvent(event[a][1])
  BY OneCheck DEF Settle
<1>2. calls'[a] = <<>>
  <2>1. calls'[a] = <<>> \o <<>>
    BY <1>1, TailIs DEF Settle, AlertsTyped
  <2> QED BY <2>1
<1>3. UNCHANGED <<memory, rows, excused>> /\ (s \in loaded' <=> s \in loaded)
  BY DEF Settle, manager
<1>4. NamesOf(s) = {s} /\ s \in Names
  BY <1>1, SourceNames DEF Settles
<1>5. Spares(s)
  BY <1>3, <1>4, SparedAlerts
<1>6. CASE Excused(s)
  <2>1. Excused(s)'
    BY <1>3, <1>6 DEF Excused
  <2> QED BY <1>2, <2>1 DEF GoesOn
<1>7. CASE s \in Settles /\ (IF found[a] = 0 THEN Gone(s) ELSE There(s))
  <2>1. belief'[s] = found[a] /\ s \notin {"queue", "timeout", "memory"}
    BY <1>7 DEF Settle, Settles, AlertsTyped, MonitorsTyped
  <2>2. CASE found[a] = 0
    <3>1. NotHeld(s)' /\ NotStored(s)'
      BY <1>4, <1>5, <1>7, <2>2 DEF Gone, Spares
    <3>2. Agrees(s)'
      BY <1>4, <2>1, <2>2, <3>1 DEF Agrees
    <3> QED BY <1>2, <3>2 DEF GoesOn
  <2>3. CASE found[a] # 0
    <3>1. There(s)'
      BY <1>5, <1>7, <2>3 DEF Spares
    <3>2. Believes(s, s)'
      BY <2>1, <2>3 DEF Believes, NameOf
    <3>3. Agrees(s)'
      BY <1>4, <2>1, <3>1, <3>2 DEF Agrees
    <3> QED BY <1>2, <3>3 DEF GoesOn
  <2> QED BY <2>2, <2>3
<1>8. CASE s = "timeout" /\ event[a] # <<>> /\ There(s) /\ OnlyEvent(event[a][1])
  <2>1. event[a] \in Seq(Nat)
    BY <1>8 DEF AlertsTyped, MonitorsTyped
  <2>2. event[a][1] \in Nat
    BY <1>8, <2>1
  <2>3. PICK k \in Nat : k = event[a][1]
    BY <2>2
  <2>4. belief'[s] = k + 1
    BY <1>8, <2>3 DEF Settle, AlertsTyped, MonitorsTyped
  <2>5. There(s)' /\ OnlyEvent(k)'
    BY <1>5, <1>8, <2>3 DEF Spares
  <2>6. belief'[s] # 0 /\ belief'[s] - 1 = k
    BY <2>4
  <2>7. Believes(s, s)'
    BY <1>8, <2>5, <2>6 DEF Believes, NameOf
  <2>8. Agrees(s)'
    BY <1>4, <1>8, <2>5, <2>7 DEF Agrees
  <2> QED BY <1>2, <2>8 DEF GoesOn
<1> QED BY <1>1, <1>6, <1>7, <1>8

LEMMA ForgetGoesOn ==
  ASSUME AlertsTyped, NEW a \in Callers, NEW s \in Sources, Forget(a, s), Proceeds(a, s)
  PROVE  Proceeds(a, s)'
<1>1. /\ Todo(a, Two("forget", s, "check", s))
      /\ Excused(s) \/ (Unheld(s) /\ (s \in {"low", "error"} => NotStored(s)))
      /\ s \notin {"memory", "database"}
  BY OneCheck DEF Forget
<1>2. calls'[a] = One("check", s)
  <2>1. calls'[a] = <<>> \o One("check", s)
    BY <1>1, TailIs DEF Forget, AlertsTyped
  <2> QED BY <2>1, JoinOne, JoinTwo
<1>3. UNCHANGED <<memory, rows, excused>> /\ belief'[s] = 0
  BY DEF Forget, manager, AlertsTyped, MonitorsTyped
<1>4. ASSUME Unheld(s), s \in {"low", "error"} => NotStored(s) PROVE Agrees(s)'
  <2>1. \A n \in NamesOf(s) : Spares(n)
    BY <1>3, SparedAlerts, SourceNames
  <2>2. \A n \in NamesOf(s) : NotHeld(n)'
    BY <1>4, <2>1 DEF Unheld, Spares
  <2>3. s \in {"low", "error"} => NamesOf(s) = {s}
    BY SourceNames
  <2>4. s \notin {"low", "error"} => s \notin loaded'
    BY DEF Forget
  <2> QED BY <1>1, <1>3, <1>4, <2>1, <2>2, <2>3, <2>4 DEF Agrees, Spares
<1>5. Excused(s) => Excused(s)'
  BY <1>3 DEF Excused
<1>6. Preparing(a, s)'
  BY <1>1, <1>2, <1>4, <1>5 DEF Preparing, Todo
<1> QED BY <1>6 DEF Proceeds

LEMMA ResetGoesOn ==
  ASSUME AlertsTyped, NEW a \in Callers, NEW s \in Sources, ResetStates(a, s), Proceeds(a, s)
  PROVE  Proceeds(a, s)'
<1>1. Todo(a, Two("reset", s, "check", s)) /\ (Excused(s) \/ (Agrees(s) /\ Unheld(s)))
  BY OneCheck DEF ResetStates
<1>2. calls'[a] = ResetOps(s) \o One("check", s)
  BY <1>1, TailIs DEF ResetStates, AlertsTyped
<1>3. SparesSource(s)
  BY SparedPlace DEF ResetStates, monitors, manager
<1>4. belief[s] \in Nat /\ event' = [event EXCEPT ![a] = Tracked(s)]
      /\ event \in [Callers -> {<<>>} \cup Seq(Nat)]
  BY DEF ResetStates, AlertsTyped, MonitorsTyped
<1>5. Excused(s)' \/ (Agrees(s)' /\ Unheld(s)')
  BY <1>1, <1>3, <1>4, SparedBeliefs
<1>6. CASE \/ s \in {"memory", "database"}
           \/ s \in {"low", "error"} /\ belief[s] = 0
  <2>1. ResetOps(s) = <<>>
    BY <1>6 DEF ResetOps
  <2>2. calls'[a] = One("check", s)
    BY <1>2, <2>1, JoinOne, JoinTwo
  <2>3. Preparing(a, s)'
    BY <1>5, <2>2 DEF Preparing, Todo
  <2> QED BY <2>3 DEF Proceeds
<1>7. CASE \/ s \in {"queue", "redis", "rate"}
           \/ s = "timeout" /\ belief[s] = 0
  <2>1. ResetOps(s) = One("forget", s)
    <3>1. CASE s \in {"queue", "redis", "rate"}
      BY <3>1 DEF ResetOps, One
    <3>2. CASE s = "timeout" /\ belief[s] = 0
      <4>1. ResetOps(s) = <<>> \o One("forget", s)
        BY <3>2 DEF ResetOps, One
      <4> QED BY <4>1, JoinOne
    <3> QED BY <1>7, <3>1, <3>2
  <2>2. calls'[a] = Two("forget", s, "check", s)
    <3>1. One("forget", s) \o One("check", s) = Two("forget", s, "check", s)
      BY JoinOne
    <3> QED BY <1>2, <2>1, <3>1, Zenon
  <2>3. Preparing(a, s)'
    BY <1>5, <1>7, <2>2 DEF Preparing, Todo
  <2> QED BY <2>3 DEF Proceeds
<1>8. CASE s \in {"low", "error"} /\ belief[s] # 0
  <2>1. ResetOps(s) = Two("resolve", s, "forget", s)
    BY <1>8 DEF ResetOps, Two
  <2>2. calls'[a] = Three("resolve", s, "forget", s, "check", s)
    <3>1. Two("resolve", s, "forget", s) \o One("check", s)
            = Three("resolve", s, "forget", s, "check", s)
      BY JoinTwo
    <3> QED BY <1>2, <2>1, <3>1, Zenon
  <2>3. Preparing(a, s)'
    BY <1>5, <1>8, <2>2 DEF Preparing, Todo
  <2> QED BY <2>3 DEF Proceeds
<1>9. CASE s = "timeout" /\ belief[s] # 0
  <2>1. ResetOps(s) = One("delete", s) \o One("forget", s)
    BY <1>9 DEF ResetOps, One
  <2>2. ResetOps(s) = Two("delete", s, "forget", s)
    BY <2>1, JoinOne
  <2>3. calls'[a] = Three("delete", s, "forget", s, "check", s)
    BY <1>2, <2>2, JoinTwo
  <2>4. event'[a] # <<>>
    BY <1>4, <1>9 DEF Tracked
  <2>5. Preparing(a, s)'
    BY <1>5, <1>9, <2>3, <2>4 DEF Preparing, Todo
  <2> QED BY <2>5 DEF Proceeds
<1> QED BY <1>6, <1>7, <1>8, <1>9 DEF Sources

\* What a check decides, as a list.
LEMMA DecisionIs ==
  ASSUME NEW s \in Sources, NEW old \in Nat, NEW new \in 0..2
  PROVE  /\ s = "queue" =>
              /\ new = old => Decision(s, old, new) = <<>>
              /\ new # old /\ new = 2 =>
                   Decision(s, old, new) = Two("resolve", "warning", "trigger", "critical")
              /\ new # old /\ new = 1 /\ old = 2 =>
                   Decision(s, old, new) = Two("resolve", "critical", "trigger", "warning")
              /\ new # old /\ new = 1 /\ old # 2 =>
                   Decision(s, old, new) = One("trigger", "warning")
              /\ new # old /\ new = 0 =>
                   Decision(s, old, new) = Two("resolve", "warning", "resolve", "critical")
         /\ s \in {"redis", "database"} =>
              /\ new = 1 => Decision(s, old, new) = One("trigger", s)
              /\ new = 0 /\ old # 0 => Decision(s, old, new) = Two("resolve", s, "settle", s)
              /\ new = 2 \/ (new = 0 /\ old = 0) => Decision(s, old, new) = <<>>
         /\ s \in {"low", "error"} =>
              /\ new \notin {0, old} => Decision(s, old, new) = Two("trigger", s, "load", s)
              /\ new \in {0, old} => Decision(s, old, new) = One("load", s)
         /\ s = "timeout" =>
              /\ new = 2 /\ old = 0 => Decision(s, old, new) = Two("trigger", s, "settle", s)
              /\ new = 2 /\ old # 0 => Decision(s, old, new) = One("trigger", s)
              /\ new = 0 /\ old # 0 => Decision(s, old, new) = One("delete", s)
              /\ new = 1 \/ (new = 0 /\ old = 0) => Decision(s, old, new) = <<>>
         /\ s = "rate" =>
              /\ new = 1 => Decision(s, old, new) = One("trigger", s)
              /\ new = 0 /\ old # 0 => Decision(s, old, new) = One("resolve", s)
              /\ new = 2 \/ (new = 0 /\ old = 0) => Decision(s, old, new) = <<>>
         /\ s = "memory" =>
              /\ new = 1 => Decision(s, old, new) = One("trigger", s)
              /\ new # 1 => Decision(s, old, new) = One("resolve", s)
<1>o. \A n : /\ Trigger(n) = One("trigger", n) /\ Resolve(n) = One("resolve", n)
             /\ Settling(n) = One("settle", n)
  BY DEF Trigger, Resolve, Settling, One
<1>e. <<>> \o <<>> = <<>>
  OBVIOUS
<1>1. ASSUME s = "queue"
      PROVE  /\ new = old => Decision(s, old, new) = <<>>
             /\ new # old /\ new = 2 =>
                  Decision(s, old, new) = Two("resolve", "warning", "trigger", "critical")
             /\ new # old /\ new = 1 /\ old = 2 =>
                  Decision(s, old, new) = Two("resolve", "critical", "trigger", "warning")
             /\ new # old /\ new = 1 /\ old # 2 =>
                  Decision(s, old, new) = One("trigger", "warning")
             /\ new # old /\ new = 0 =>
                  Decision(s, old, new) = Two("resolve", "warning", "resolve", "critical")
  <2>1. Decision(s, old, new) = LengthDecision(old, new)
    BY <1>1 DEF Decision
  <2>2. /\ One("resolve", "warning") \o One("trigger", "critical")
             = Two("resolve", "warning", "trigger", "critical")
        /\ One("resolve", "critical") \o One("trigger", "warning")
             = Two("resolve", "critical", "trigger", "warning")
        /\ <<>> \o One("trigger", "warning") = One("trigger", "warning")
        /\ One("resolve", "warning") \o One("resolve", "critical")
             = Two("resolve", "warning", "resolve", "critical")
    BY JoinOne
  <2>3. ASSUME new = old PROVE Decision(s, old, new) = <<>>
    BY <2>1, <2>3 DEF LengthDecision
  <2>4. ASSUME new # old, new = 2
        PROVE  Decision(s, old, new) = Two("resolve", "warning", "trigger", "critical")
    <3>1. LengthDecision(old, new) = Resolve("warning") \o Trigger("critical")
      BY <2>4 DEF LengthDecision
    <3> QED BY <1>o, <2>1, <2>2, <3>1, Zenon
  <2>5. ASSUME new # old, new = 1
        PROVE  LengthDecision(old, new) = When(old = 2, Resolve("critical")) \o Trigger("warning")
    BY <2>5 DEF LengthDecision
  <2>6. ASSUME new # old, new = 1, old = 2
        PROVE  Decision(s, old, new) = Two("resolve", "critical", "trigger", "warning")
    <3>1. When(old = 2, Resolve("critical")) = Resolve("critical")
      BY <2>6 DEF When
    <3> QED BY <1>o, <2>1, <2>2, <2>5, <2>6, <3>1, Zenon
  <2>7. ASSUME new # old, new = 1, old # 2
        PROVE  Decision(s, old, new) = One("trigger", "warning")
    <3>1. When(old = 2, Resolve("critical")) = <<>>
      BY <2>7 DEF When
    <3> QED BY <1>o, <2>1, <2>2, <2>5, <2>7, <3>1, Zenon
  <2>8. ASSUME new # old, new = 0
        PROVE  Decision(s, old, new) = Two("resolve", "warning", "resolve", "critical")
    <3>1. LengthDecision(old, new) = Resolve("warning") \o Resolve("critical")
      BY <2>8 DEF LengthDecision
    <3> QED BY <1>o, <2>1, <2>2, <3>1, Zenon
  <2> QED BY <2>3, <2>4, <2>6, <2>7, <2>8, Zenon
<1>2. ASSUME s \in {"redis", "database"}
      PROVE  /\ new = 1 => Decision(s, old, new) = One("trigger", s)
             /\ new = 0 /\ old # 0 => Decision(s, old, new) = Two("resolve", s, "settle", s)
             /\ new = 2 \/ (new = 0 /\ old = 0) => Decision(s, old, new) = <<>>
  <2>1. Decision(s, old, new) = HealthDecision(s, old, new)
    BY <1>2 DEF Decision
  <2>2. /\ One("trigger", s) \o <<>> = One("trigger", s)
        /\ One("resolve", s) \o One("settle", s) = Two("resolve", s, "settle", s)
        /\ <<>> \o Two("resolve", s, "settle", s) = Two("resolve", s, "settle", s)
    BY JoinOne, JoinTwo
  <2>3. HealthDecision(s, old, new)
          = When(new = 1, Trigger(s)) \o When(Recovered(old, new), Resolve(s) \o Settling(s))
    BY DEF HealthDecision
  <2>4. /\ new = 1 => When(new = 1, Trigger(s)) = One("trigger", s)
        /\ new # 1 => When(new = 1, Trigger(s)) = <<>>
        /\ ~(new = 0 /\ old # 0) => When(Recovered(old, new), Resolve(s) \o Settling(s)) = <<>>
        /\ new = 0 /\ old # 0 => When(Recovered(old, new), Resolve(s) \o Settling(s))
                                  = One("resolve", s) \o One("settle", s)
    BY <1>o DEF When, Recovered
  <2>5. ASSUME new = 1 PROVE Decision(s, old, new) = One("trigger", s)
    <3>1. ~(new = 0 /\ old # 0)
      BY <2>5
    <3> QED BY <2>1, <2>2, <2>3, <2>4, <2>5, <3>1, Zenon
  <2>6. ASSUME new = 0, old # 0 PROVE Decision(s, old, new) = Two("resolve", s, "settle", s)
    <3>1. new # 1
      BY <2>6
    <3> QED BY <2>1, <2>2, <2>3, <2>4, <2>6, <3>1, Zenon
  <2>7. ASSUME new = 2 \/ (new = 0 /\ old = 0) PROVE Decision(s, old, new) = <<>>
    <3>1. new # 1 /\ ~(new = 0 /\ old # 0)
      BY <2>7
    <3> QED BY <1>e, <2>1, <2>3, <2>4, <3>1, Zenon
  <2> QED BY <2>5, <2>6, <2>7, Zenon
<1>3. ASSUME s \in {"low", "error"}
      PROVE  /\ new \notin {0, old} => Decision(s, old, new) = Two("trigger", s, "load", s)
             /\ new \in {0, old} => Decision(s, old, new) = One("load", s)
  <2>1. Decision(s, old, new) = AccountDecision(s, old, new)
    BY <1>3 DEF Decision
  <2>2. /\ One("trigger", s) \o One("load", s) = Two("trigger", s, "load", s)
        /\ <<>> \o One("load", s) = One("load", s)
    BY JoinOne
  <2>3. << <<"load", s>> >> = One("load", s)
    BY DEF One
  <2> QED BY <1>o, <2>1, <2>2, <2>3 DEF AccountDecision, When
<1>4. ASSUME s = "timeout"
      PROVE  /\ new = 2 /\ old = 0 => Decision(s, old, new) = Two("trigger", s, "settle", s)
             /\ new = 2 /\ old # 0 => Decision(s, old, new) = One("trigger", s)
             /\ new = 0 /\ old # 0 => Decision(s, old, new) = One("delete", s)
             /\ new = 1 \/ (new = 0 /\ old = 0) => Decision(s, old, new) = <<>>
  <2>1. Decision(s, old, new) = TimeoutDecision(old, new)
    BY <1>4 DEF Decision
  <2>2. /\ One("trigger", s) \o One("settle", s) = Two("trigger", s, "settle", s)
        /\ Two("trigger", s, "settle", s) \o <<>> = Two("trigger", s, "settle", s)
        /\ One("trigger", s) \o <<>> = One("trigger", s)
        /\ <<>> \o One("delete", s) = One("delete", s)
    BY JoinOne, JoinTwo
  <2>3. << <<"delete", s>> >> = One("delete", s)
    BY DEF One
  <2>4. TimeoutDecision(old, new)
          = When(new = 2, Trigger("timeout")) \o When(new = 2 /\ old = 0, Settling("timeout"))
              \o When(Recovered(old, new), One("delete", "timeout"))
    BY <1>4, <2>3 DEF TimeoutDecision
  <2>5. /\ new = 2 => When(new = 2, Trigger(s)) = One("trigger", s)
        /\ new # 2 => When(new = 2, Trigger(s)) = <<>>
        /\ new = 2 /\ old = 0 => When(new = 2 /\ old = 0, Settling(s)) = One("settle", s)
        /\ ~(new = 2 /\ old = 0) => When(new = 2 /\ old = 0, Settling(s)) = <<>>
        /\ new = 0 /\ old # 0 => When(Recovered(old, new), One("delete", s)) = One("delete", s)
        /\ ~(new = 0 /\ old # 0) => When(Recovered(old, new), One("delete", s)) = <<>>
    BY <1>o DEF When, Recovered
  <2>6. ASSUME new = 2, old = 0 PROVE Decision(s, old, new) = Two("trigger", s, "settle", s)
    <3>1. ~(new = 0 /\ old # 0)
      BY <2>6
    <3> QED BY <1>4, <2>1, <2>2, <2>4, <2>5, <2>6, <3>1, Zenon
  <2>7. ASSUME new = 2, old # 0 PROVE Decision(s, old, new) = One("trigger", s)
    <3>1. ~(new = 2 /\ old = 0) /\ ~(new = 0 /\ old # 0)
      BY <2>7
    <3> QED BY <1>4, <2>1, <2>2, <2>4, <2>5, <2>7, <3>1, Zenon
  <2>8. ASSUME new = 0, old # 0 PROVE Decision(s, old, new) = One("delete", s)
    <3>1. new # 2 /\ ~(new = 2 /\ old = 0)
      BY <2>8
    <3> QED BY <1>e, <1>4, <2>1, <2>2, <2>4, <2>5, <2>8, <3>1, Zenon
  <2>9. ASSUME new = 1 \/ (new = 0 /\ old = 0) PROVE Decision(s, old, new) = <<>>
    <3>1. new # 2 /\ ~(new = 2 /\ old = 0) /\ ~(new = 0 /\ old # 0)
      BY <2>9
    <3> QED BY <1>e, <1>4, <2>1, <2>4, <2>5, <3>1, Zenon
  <2> QED BY <2>6, <2>7, <2>8, <2>9, Zenon
<1>5. ASSUME s = "rate"
      PROVE  /\ new = 1 => Decision(s, old, new) = One("trigger", s)
             /\ new = 0 /\ old # 0 => Decision(s, old, new) = One("resolve", s)
             /\ new = 2 \/ (new = 0 /\ old = 0) => Decision(s, old, new) = <<>>
  <2>1. Decision(s, old, new) = RateDecision(old, new)
    BY <1>5 DEF Decision
  <2>2. /\ One("trigger", s) \o <<>> = One("trigger", s)
        /\ <<>> \o One("resolve", s) = One("resolve", s)
    BY JoinOne
  <2>3. RateDecision(old, new)
          = When(new = 1, Trigger("rate")) \o When(Recovered(old, new), Resolve("rate"))
    BY DEF RateDecision
  <2>4. /\ new = 1 => When(new = 1, Trigger(s)) = One("trigger", s)
        /\ new # 1 => When(new = 1, Trigger(s)) = <<>>
        /\ new = 0 /\ old # 0 => When(Recovered(old, new), Resolve(s)) = One("resolve", s)
        /\ ~(new = 0 /\ old # 0) => When(Recovered(old, new), Resolve(s)) = <<>>
    BY <1>o DEF When, Recovered
  <2>5. ASSUME new = 1 PROVE Decision(s, old, new) = One("trigger", s)
    <3>1. ~(new = 0 /\ old # 0)
      BY <2>5
    <3> QED BY <1>5, <2>1, <2>2, <2>3, <2>4, <2>5, <3>1, Zenon
  <2>6. ASSUME new = 0, old # 0 PROVE Decision(s, old, new) = One("resolve", s)
    <3>1. new # 1
      BY <2>6
    <3> QED BY <1>5, <2>1, <2>2, <2>3, <2>4, <2>6, <3>1, Zenon
  <2>7. ASSUME new = 2 \/ (new = 0 /\ old = 0) PROVE Decision(s, old, new) = <<>>
    <3>1. new # 1 /\ ~(new = 0 /\ old # 0)
      BY <2>7
    <3> QED BY <1>e, <1>5, <2>1, <2>3, <2>4, <3>1, Zenon
  <2> QED BY <2>5, <2>6, <2>7, Zenon
<1>6. ASSUME s = "memory"
      PROVE  /\ new = 1 => Decision(s, old, new) = One("trigger", s)
             /\ new # 1 => Decision(s, old, new) = One("resolve", s)
  BY <1>o, <1>6 DEF Decision, MemoryDecision
<1> QED BY <1>1, <1>2, <1>3, <1>4, <1>5, <1>6

\* What a decision leaves: the list that it decided, and the memory that goes with it.
LEMMA DecideIs ==
  ASSUME AlertsTyped, NEW a \in Callers, NEW s \in Sources, Decide(a, s), Proceeds(a, s)
  PROVE  \E old \in Nat, new \in 0..2 :
           /\ old = belief[s] /\ belief'[s] = Remembered(s, old, new)
           /\ s = "timeout" /\ old # 0 => event'[a] = <<old - 1>>
           /\ Decision(s, old, new) = <<>> => calls'[a] = <<>>
           /\ \A x, y : Decision(s, old, new) = One(x, y) =>
                          calls'[a] = One(x, y) /\ found'[a] = new
           /\ \A x, y, z, w : Decision(s, old, new) = Two(x, y, z, w) =>
                                calls'[a] = Two(x, y, z, w) /\ found'[a] = new
           /\ Excused(s)' \/ (Agrees(s) /\ Informed(s))
           /\ belief'[s] = old => Excused(s)' \/ Agrees(s)'
           /\ \A n \in NamesOf(s) : /\ There(n) => There(n)'
                                    /\ NotHeld(n) => NotHeld(n)'
                                    /\ NotStored(n) => NotStored(n)'
           /\ s = "timeout" => \A k \in Nat : OnlyEvent(k) => OnlyEvent(k)'
<1>1. Todo(a, One("decide", s)) /\ (Excused(s) \/ (Agrees(s) /\ Informed(s)))
  BY OneCheck DEF Decide
<1>2. PICK old \in Nat : old = belief[s]
  BY DEF AlertsTyped, MonitorsTyped
<1>3. PICK new \in 0..2 : new = found[a]
  BY DEF AlertsTyped, CallsTyped
<1>4. Continue(a, Decision(s, old, new))
  BY <1>2, <1>3 DEF Decide
<1>5. /\ Decision(s, old, new) = <<>> => calls'[a] = <<>>
      /\ \A x, y : Decision(s, old, new) = One(x, y) =>
                     calls'[a] = One(x, y) /\ found'[a] = new
      /\ \A x, y, z, w : Decision(s, old, new) = Two(x, y, z, w) =>
                           calls'[a] = Two(x, y, z, w) /\ found'[a] = new
  BY <1>1, <1>3, <1>4, LeftIs DEF AlertsTyped
<1>6. /\ belief'[s] = Remembered(s, old, new)
      /\ event' = [event EXCEPT ![a] = Tracked(s)]
      /\ UNCHANGED <<memory, rows, excused, loaded>>
  <2>1. belief' = [belief EXCEPT ![s] = Remembered(s, belief[s], found[a])]
    BY DEF Decide
  <2>2. belief \in [Sources -> Nat]
    BY DEF AlertsTyped, MonitorsTyped
  <2> QED BY <1>2, <1>3, <2>1, <2>2 DEF Decide, manager
<1>7. s = "timeout" /\ old # 0 => event'[a] = <<old - 1>>
  BY <1>2, <1>6 DEF Tracked, AlertsTyped, MonitorsTyped
<1>8. Excused(s) => Excused(s)'
  BY <1>6 DEF Excused
<1>9. belief'[s] = old => Excused(s)' \/ Agrees(s)'
  <2>1. ASSUME belief'[s] = old PROVE Excused(s)' \/ Agrees(s)'
    <3>1. SparesSource(s)
      BY <1>2, <1>6, <2>1, SparedPlace
    <3> QED BY <1>1, <1>2, <3>1, SparedBeliefs
  <2> QED BY <2>1
<1>10. \A n \in NamesOf(s) : Spares(n)
  BY <1>6, SparedAlerts, SourceNames
<1>11. s = "timeout" => "timeout" \in NamesOf(s)
  BY DEF NamesOf
<1> QED BY <1>1, <1>2, <1>5, <1>6, <1>7, <1>8, <1>9, <1>10, <1>11 DEF Spares

LEMMA DecideGoesOn ==
  ASSUME AlertsTyped, NEW a \in Callers, NEW s \in Sources, Decide(a, s), Proceeds(a, s)
  PROVE  GoesOn(a, s)'
<1>1. PICK old \in Nat, new \in 0..2 :
        /\ old = belief[s] /\ belief'[s] = Remembered(s, old, new)
        /\ s = "timeout" /\ old # 0 => event'[a] = <<old - 1>>
        /\ Decision(s, old, new) = <<>> => calls'[a] = <<>>
        /\ \A x, y : Decision(s, old, new) = One(x, y) =>
                       calls'[a] = One(x, y) /\ found'[a] = new
        /\ \A x, y, z, w : Decision(s, old, new) = Two(x, y, z, w) =>
                             calls'[a] = Two(x, y, z, w) /\ found'[a] = new
        /\ Excused(s)' \/ (Agrees(s) /\ Informed(s))
        /\ belief'[s] = old => Excused(s)' \/ Agrees(s)'
        /\ \A n \in NamesOf(s) : /\ There(n) => There(n)'
                                 /\ NotHeld(n) => NotHeld(n)'
                                 /\ NotStored(n) => NotStored(n)'
        /\ s = "timeout" => \A k \in Nat : OnlyEvent(k) => OnlyEvent(k)'
  BY DecideIs
<1>2. ASSUME Decision(s, old, new) = <<>>, belief'[s] = old PROVE GoesOn(a, s)'
  BY <1>1, <1>2 DEF GoesOn
<1>3. s # "queue" => NamesOf(s) = {s}
  BY SourceNames
\* A monitor that has decided to trigger, alone or after another alert is resolved.
<1>4. ASSUME s \notin {"low", "error"}, NEW n \in NamesOf(s), Excused(s)' \/ Believes(s, n)',
             \/ Decision(s, old, new) = One("trigger", n)
             \/ \E m \in NamesOf(s) \ {n} :
                  Decision(s, old, new) = Two("resolve", m, "trigger", n)
      PROVE  GoesOn(a, s)'
  <2>1. \/ calls'[a] = One("trigger", n)
        \/ \E m \in NamesOf(s) \ {n} : calls'[a] = Two("resolve", m, "trigger", n)
    BY <1>1, <1>4
  <2>2. Alerting(a, s)'
    BY <1>4, <2>1 DEF Alerting, Todo
  <2> QED BY <2>2 DEF GoesOn, Proceeds
<1>5. CASE s = "queue"
  <2>1. belief'[s] = new
    BY <1>1, <1>5 DEF Remembered
  <2>2. NamesOf(s) = {"warning", "critical"}
    BY <1>5, SourceNames
  <2>3. CASE new = old
    <3>1. Decision(s, old, new) = <<>>
      BY <1>5, <2>3, DecisionIs
    <3> QED BY <1>2, <2>1, <2>3, <3>1
  <2>4. CASE new # old /\ new = 2
    <3>1. Decision(s, old, new) = Two("resolve", "warning", "trigger", "critical")
      BY <1>5, <2>4, DecisionIs
    <3>2. Believes(s, "critical")'
      BY <1>5, <2>1, <2>4 DEF Believes, NameOf
    <3>3. "critical" \in NamesOf(s) /\ "warning" \in NamesOf(s) \ {"critical"}
      BY <2>2
    <3> QED BY <1>4, <1>5, <3>1, <3>2, <3>3
  <2>5. CASE new # old /\ new = 1
    <3>1. \/ Decision(s, old, new) = Two("resolve", "critical", "trigger", "warning")
          \/ Decision(s, old, new) = One("trigger", "warning")
      BY <1>5, <2>5, DecisionIs
    <3>2. Believes(s, "warning")'
      BY <1>5, <2>1, <2>5 DEF Believes, NameOf
    <3>3. "warning" \in NamesOf(s) /\ "critical" \in NamesOf(s) \ {"warning"}
      BY <2>2
    <3> QED BY <1>4, <1>5, <3>1, <3>2, <3>3
  <2>6. CASE new # old /\ new = 0
    <3>1. Decision(s, old, new) = Two("resolve", "warning", "resolve", "critical")
      BY <1>5, <2>6, DecisionIs
    <3>2. calls'[a] = Two("resolve", "warning", "resolve", "critical")
      BY <1>1, <3>1
    <3>3. Clearing(a, s)'
      BY <1>5, <2>1, <2>6, <3>2 DEF Clearing, Todo
    <3> QED BY <3>3 DEF GoesOn, Proceeds
  <2> QED BY <2>3, <2>4, <2>5, <2>6
<1>6. CASE s \in {"redis", "database"}
  <2>0. s \in NamesOf(s) /\ s \in Settles
    BY <1>3, <1>6 DEF Settles
  <2>1. CASE new = 1
    <3>1. Decision(s, old, new) = One("trigger", s)
      BY <1>6, <2>1, DecisionIs
    <3>2. belief'[s] = 1
      BY <1>1, <1>6, <2>1 DEF Remembered
    <3>3. Believes(s, s)'
      BY <1>6, <3>2 DEF Believes, NameOf
    <3> QED BY <1>4, <1>6, <2>0, <3>1, <3>3
  <2>2. CASE new = 0 /\ old # 0
    <3>1. Decision(s, old, new) = Two("resolve", s, "settle", s)
      BY <1>6, <2>2, DecisionIs
    <3>2. calls'[a] = Two("resolve", s, "settle", s) /\ found'[a] = 0
      BY <1>1, <2>2, <3>1
    <3>3. Ending(a, s)'
      BY <2>0, <3>2 DEF Ending, Todo
    <3> QED BY <3>3 DEF GoesOn, Proceeds
  <2>3. CASE new = 2 \/ (new = 0 /\ old = 0)
    <3>1. Decision(s, old, new) = <<>>
      BY <1>6, <2>3, DecisionIs
    <3>2. belief'[s] = old
      BY <1>1, <1>6, <2>3 DEF Remembered
    <3> QED BY <1>2, <3>1, <3>2
  <2> QED BY <2>1, <2>2, <2>3
<1>7. CASE s \in {"low", "error"}
  <2>1. belief'[s] = old
    BY <1>1, <1>7 DEF Remembered
  <2>2. CASE new \notin {0, old}
    <3>1. Decision(s, old, new) = Two("trigger", s, "load", s)
      BY <1>7, <2>2, DecisionIs
    <3>2. calls'[a] = Two("trigger", s, "load", s) /\ found'[a] # 0
      BY <1>1, <2>2, <3>1
    <3>3. Recalling(a, s)'
      BY <1>7, <3>2 DEF Recalling, Todo
    <3> QED BY <3>3 DEF GoesOn, Proceeds
  <2>3. CASE new \in {0, old}
    <3>1. Decision(s, old, new) = One("load", s)
      BY <1>7, <2>3, DecisionIs
    <3>2. calls'[a] = One("load", s) /\ found'[a] = new
      BY <1>1, <3>1
    <3>3. new = 0 => Excused(s)' \/ Agrees(s)'
      BY <1>1, <2>1
    <3>4. new # 0 => Excused(s)' \/ There(s)'
      <4>1. ASSUME new # 0, ~Excused(s)' PROVE There(s)'
        <5>1. Agrees(s) /\ belief[s] # 0
          BY <1>1, <2>3, <4>1
        <5>2. There(s)
          BY <1>3, <1>7, <5>1 DEF Agrees
        <5> QED BY <1>1, <1>3, <1>7, <5>2
      <4> QED BY <4>1
    <3>5. Recalling(a, s)'
      BY <1>7, <3>2, <3>3, <3>4 DEF Recalling, Todo
    <3> QED BY <3>5 DEF GoesOn, Proceeds
  <2> QED BY <2>2, <2>3
<1>8. CASE s = "timeout"
  <2>0. NamesOf(s) = {s}
    BY <1>3, <1>8
  <2>1. belief'[s] = IF new = 0 THEN 0 ELSE old
    BY <1>1, <1>8 DEF Remembered
  <2>2. old # 0 => Excused(s)' \/ OnlyEvent(old - 1)'
    <3>1. ASSUME old # 0, ~Excused(s)' PROVE OnlyEvent(old - 1)'
      <4>1. Believes(s, s)
        BY <1>1, <1>8, <2>0, <3>1 DEF Agrees
      <4>2. OnlyEvent(old - 1) /\ old - 1 \in Nat
        BY <1>1, <1>8, <3>1, <4>1 DEF Believes
      <4> QED BY <1>1, <1>8, <4>2
    <3> QED BY <3>1
  <2>3. CASE new = 2 /\ old = 0
    <3>1. Decision(s, old, new) = Two("trigger", s, "settle", s)
      BY <1>8, <2>3, DecisionIs
    <3>2. calls'[a] = Two("trigger", s, "settle", s)
      BY <1>1, <3>1
    <3>3. ~Excused(s)' => NotHeld(s) /\ NotStored(s)
      BY <1>1, <1>8, <2>0, <2>3 DEF Agrees, Informed, Believes
    <3>4. ~Excused(s)' => Gone(s)'
      BY <1>1, <2>0, <3>3 DEF Gone
    <3>5. Timing(a, s)'
      BY <1>8, <2>1, <2>3, <3>2, <3>4 DEF Timing, Todo
    <3> QED BY <3>5 DEF GoesOn, Proceeds
  <2>4. CASE new = 2 /\ old # 0
    <3>1. Decision(s, old, new) = One("trigger", s)
      BY <1>8, <2>4, DecisionIs
    <3>2. belief'[s] = old
      BY <2>1, <2>4
    <3>3. Excused(s)' \/ Believes(s, s)'
      BY <1>8, <2>2, <2>4, <3>2 DEF Believes, NameOf
    <3> QED BY <1>4, <1>8, <2>0, <3>1, <3>3
  <2>5. CASE new = 0 /\ old # 0
    <3>1. Decision(s, old, new) = One("delete", s)
      BY <1>8, <2>5, DecisionIs
    <3>2. calls'[a] = One("delete", s) /\ event'[a] = <<old - 1>>
      BY <1>1, <1>8, <2>5, <3>1
    <3>3. event'[a] # <<>> /\ event'[a][1] = old - 1
      BY <3>2
    <3>4. Timing(a, s)'
      BY <1>8, <2>1, <2>2, <2>5, <3>2, <3>3 DEF Timing, Todo
    <3> QED BY <3>4 DEF GoesOn, Proceeds
  <2>6. CASE new = 1 \/ (new = 0 /\ old = 0)
    <3>1. Decision(s, old, new) = <<>>
      BY <1>8, <2>6, DecisionIs
    <3>2. belief'[s] = old
      BY <2>1, <2>6
    <3> QED BY <1>2, <3>1, <3>2
  <2> QED BY <2>3, <2>4, <2>5, <2>6
<1>9. CASE s = "rate"
  <2>0. NamesOf(s) = {s}
    BY <1>3, <1>9
  <2>1. belief'[s] = IF new = 2 THEN old ELSE new
    BY <1>1, <1>9 DEF Remembered
  <2>2. CASE new = 1
    <3>1. Decision(s, old, new) = One("trigger", s)
      BY <1>9, <2>2, DecisionIs
    <3>2. Believes(s, s)'
      BY <1>9, <2>1, <2>2 DEF Believes, NameOf
    <3> QED BY <1>4, <1>9, <2>0, <3>1, <3>2
  <2>3. CASE new = 0 /\ old # 0
    <3>1. Decision(s, old, new) = One("resolve", s)
      BY <1>9, <2>3, DecisionIs
    <3>2. calls'[a] = One("resolve", s)
      BY <1>1, <3>1
    <3>3. Clearing(a, s)'
      BY <1>9, <2>0, <2>1, <2>3, <3>2 DEF Clearing, Todo
    <3> QED BY <3>3 DEF GoesOn, Proceeds
  <2>4. CASE new = 2 \/ (new = 0 /\ old = 0)
    <3>1. Decision(s, old, new) = <<>>
      BY <1>9, <2>4, DecisionIs
    <3>2. belief'[s] = old
      BY <2>1, <2>4
    <3> QED BY <1>2, <3>1, <3>2
  <2> QED BY <2>2, <2>3, <2>4
<1>10. CASE s = "memory"
  <2>0. NamesOf(s) = {s}
    BY <1>3, <1>10
  <2>1. Excused(s)' \/ belief'[s] = 0
    BY <1>1, <1>10 DEF Remembered, Agrees
  <2>2. CASE new = 1
    <3>1. Decision(s, old, new) = One("trigger", s)
      BY <1>10, <2>2, DecisionIs
    <3>2. Excused(s)' \/ Believes(s, s)'
      BY <1>10, <2>1 DEF Believes
    <3> QED BY <1>4, <1>10, <2>0, <3>1, <3>2
  <2>3. CASE new # 1
    <3>1. Decision(s, old, new) = One("resolve", s)
      BY <1>10, <2>3, DecisionIs
    <3>2. calls'[a] = One("resolve", s)
      BY <1>1, <3>1
    <3>3. Clearing(a, s)'
      BY <1>10, <2>0, <2>1, <3>2 DEF Clearing, Todo
    <3> QED BY <3>3 DEF GoesOn, Proceeds
  <2> QED BY <2>2, <2>3
<1> QED BY <1>5, <1>6, <1>7, <1>8, <1>9, <1>10 DEF Sources

-----------------------------------------------------------------------------
(* The calls to the manager.                                               *)

Triggers(a, n) ==
  \/ TriggerDisabled(a, n) \/ TriggerSuppressed(a, n) \/ TriggerFindsRow(a, n)
  \/ TriggerFindsEvent(a, n) \/ TriggerCreates(a, n)

\* The new event is among those that are kept.
LEMMA NewIsKept ==
  ASSUME AlertsTyped, NEW a \in Callers, NEW n \in Names, TriggerCreates(a, n)
  PROVE  \E e \in memory' : /\ e.id = issued + 1 /\ e.name = n /\ ~e.resolved
                            /\ memory' \subseteq memory \cup {e}
<1> DEFINE new == [id |-> issued + 1, name |-> n, resolved |-> FALSE, acknowledged |-> FALSE]
           all == memory \cup {new}
<1>1. /\ issued \in Nat /\ memory \subseteq Events /\ \A e \in memory : e.id <= issued
      /\ \A f, g \in memory : f.id = g.id => f = g
  BY DEF AlertsTyped, IdsAreUnique
<1>2. IsFiniteSet(memory)
  BY DEF AlertsTyped, MemoryTyped
<1>3. memory' = Kept(all)
  BY DEF TriggerCreates
<1>4. new.id = issued + 1 /\ new.name = n /\ ~new.resolved /\ new.id \in Nat
  BY <1>1
<1>5. \A e \in memory : e.id \in Nat
  BY <1>1 DEF Events
<1> HIDE DEF new
<1>6. IsFiniteSet(all)
  BY <1>2, FS_AddElement
<1>7. \A e \in all : e.id \in Nat /\ e.id <= new.id
  BY <1>1, <1>4, <1>5
<1>8. \A e, f \in all : e.id = f.id => e = f
  <2>1. \A e \in memory : e.id # new.id
    BY <1>1, <1>4, <1>5
  <2> QED BY <1>1, <2>1
<1>9. new \in memory' /\ memory' \subseteq all
  <2> HIDE DEF all
  <2>1. new \in all
    BY DEF all
  <2> QED BY <1>3, <1>6, <1>7, <1>8, <2>1, KeptEvents
<1> QED BY <1>4, <1>9

\* Whatever trigger finds, the alert is there afterwards, or excused.
LEMMA TriggerLeaves ==
  ASSUME AlertsTyped, NEW a \in Callers, NEW n \in Names, Triggers(a, n)
  PROVE  /\ Continue(a, <<>>) \/ (Continue(a, One("update", n)) /\ OpenRow(n)')
         /\ UNCHANGED <<belief, loaded, rows>> /\ excused \subseteq excused'
         /\ There(n)'
         /\ n = "timeout" /\ belief[n] # 0 => \A k \in Nat : OnlyEvent(k) => OnlyEvent(k)'
<1> USE DEF environment, monitors, manager
<1>1. Continue(a, <<>>) \/ (Continue(a, One("update", n)) /\ OpenRow(n)')
  BY DEF Triggers, TriggerDisabled, TriggerSuppressed, TriggerFindsRow, TriggerFindsEvent,
         TriggerCreates, One, OpenRow, InTable
<1>2. UNCHANGED <<belief, loaded, rows>> /\ excused \subseteq excused'
  BY DEF Triggers, TriggerDisabled, TriggerSuppressed, TriggerFindsRow, TriggerFindsEvent,
         TriggerCreates
<1>3. CASE TriggerDisabled(a, n)
  <2>1. n \in excused' /\ UNCHANGED memory
    BY <1>3 DEF TriggerDisabled
  <2> QED BY <1>1, <1>2, <2>1 DEF There, OnlyEvent
<1>4. CASE TriggerSuppressed(a, n) \/ TriggerFindsRow(a, n) \/ TriggerFindsEvent(a, n)
  <2>1. UNCHANGED memory /\ (Active(n) \/ n \in excused')
    BY <1>4 DEF TriggerSuppressed, TriggerFindsRow, TriggerFindsEvent, Active, InTable, Mergeable
  <2>2. Spares(n)
    BY <1>2, <2>1, SparedAlerts
  <2>3. There(n)'
    BY <1>2, <2>1 DEF There, Active, Unresolved
  <2> QED BY <1>1, <1>2, <2>2, <2>3 DEF Spares
<1>5. CASE TriggerCreates(a, n)
  <2>1. There(n)'
    <3>1. PICK e \in memory' : e.name = n /\ ~e.resolved
      BY <1>5, NewIsKept
    <3> QED BY <3>1 DEF There, Active, Unresolved
  <2>2. n = "timeout" /\ belief[n] # 0 => n \in excused'
    BY <1>5 DEF TriggerCreates
  <2> QED BY <1>1, <1>2, <2>1, <2>2 DEF OnlyEvent
<1> QED BY <1>3, <1>4, <1>5 DEF Triggers

\* A task that had no alert has the event that trigger returns, and no other.
LEMMA FirstTrigger ==
  ASSUME AlertsTyped, NEW a \in Callers, Triggers(a, "timeout"), Gone("timeout"),
         Todo(a, Two("trigger", "timeout", "settle", "timeout"))
  PROVE  \/ Excused("timeout")'
         \/ Continue(a, <<>>) /\ \E k \in Nat : event'[a] = <<k>> /\ OnlyEvent(k)'
<1> USE DEF environment, monitors, manager
<1> DEFINE n == "timeout"
<1>1. NamesOf(n) = {n} /\ n \in Names
  BY SourceNames DEF Sources
<1>2. n \in excused \/ (Unresolved(n) = {} /\ ~Stored(n))
  BY <1>1 DEF Gone, NotHeld, NotStored, Stored
<1>3. CASE n \in excused
  <2>1. Excused(n)'
    BY <1>1, <1>3, TriggerLeaves DEF Excused
  <2> QED BY <2>1
<1>4. CASE Unresolved(n) = {} /\ ~Stored(n)
  <2>1. CASE TriggerDisabled(a, n) \/ TriggerSuppressed(a, n)
    <3>1. n \in excused'
      BY <1>4, <2>1 DEF TriggerDisabled, TriggerSuppressed, Active, Stored
    <3> QED BY <1>1, <3>1 DEF Excused
  <2>2. CASE TriggerFindsRow(a, n) \/ TriggerFindsEvent(a, n)
    BY <1>4, <2>2 DEF TriggerFindsRow, TriggerFindsEvent, InTable, Stored, Mergeable
  <2>3. CASE TriggerCreates(a, n)
    <3>1. PICK e \in memory' : /\ e.id = issued + 1 /\ e.name = n /\ ~e.resolved
                               /\ memory' \subseteq memory \cup {e}
      BY <1>1, <2>3, NewIsKept
    <3>2. \A f \in Unresolved(n)' : f.id = issued + 1
      BY <1>4, <3>1 DEF Unresolved
    <3>3. NotStored(n)'
      BY <1>4, <2>3 DEF TriggerCreates, Stored, NotStored
    <3>4. PICK i \in Nat : i = issued
      BY DEF AlertsTyped, IdsAreUnique
    <3>5. OnlyEvent(i + 1)'
      BY <3>2, <3>3, <3>4 DEF OnlyEvent
    <3>6. event'[a] = <<issued + 1>>
      <4>1. calls[a] = << <<"trigger", n>>, <<"settle", n>> >>
        BY DEF Todo, Two
      <4>2. 2 \in DOMAIN calls[a] /\ calls[a][2] = <<"settle", n>>
        BY <4>1
      <4>3. \E j \in DOMAIN calls[a] : calls[a][j] = <<"settle", n>>
        BY <4>2
      <4>4. event' = [event EXCEPT ![a] = <<issued + 1>>]
        BY <2>3, <4>3 DEF TriggerCreates, Returned
      <4> QED BY <4>4 DEF AlertsTyped, MonitorsTyped
    <3>7. event'[a] = <<i + 1>> /\ i + 1 \in Nat
      BY <3>4, <3>6
    <3> QED BY <2>3, <3>5, <3>7 DEF TriggerCreates
  <2> QED BY <2>1, <2>2, <2>3 DEF Triggers
<1> QED BY <1>2, <1>3, <1>4

\* Where a check is when it calls the manager.
LEMMA OneTrigger ==
  ASSUME NEW a \in Callers, NEW t \in Sources, NEW n, Op(a, "trigger", n), Proceeds(a, t)
  PROVE  \/ /\ t \notin {"low", "error"} /\ n \in NamesOf(t) /\ Todo(a, One("trigger", n))
            /\ Excused(t) \/ Believes(t, n)
         \/ /\ t \in {"low", "error"} /\ n = t /\ Todo(a, Two("trigger", t, "load", t))
            /\ Excused(t) \/ found[a] # 0
         \/ /\ t = "timeout" /\ n = t /\ Todo(a, Two("trigger", t, "settle", t))
            /\ Excused(t) \/ (belief[t] = 0 /\ Gone(t))
<1>h. /\ \A l, m : Todo(a, One(l, m)) => l = "trigger" /\ m = n
      /\ \A l, m, p, q : Todo(a, Two(l, m, p, q)) => l = "trigger" /\ m = n
      /\ \A l, m, p, q, i, j : Todo(a, Three(l, m, p, q, i, j)) => l = "trigger" /\ m = n
  BY HeadIs
<1>1. CASE Preparing(a, t)
  BY <1>1, <1>h DEF Preparing
<1>2. CASE Checking(a, t)
  BY <1>2, <1>h DEF Checking
<1>3. CASE Alerting(a, t)
  BY <1>3, <1>h DEF Alerting
<1>4. CASE Clearing(a, t)
  BY <1>4, <1>h DEF Clearing
<1>5. CASE Ending(a, t)
  BY <1>5, <1>h DEF Ending
<1>6. CASE Recalling(a, t)
  BY <1>6, <1>h DEF Recalling
<1>7. CASE Timing(a, t)
  BY <1>7, <1>h DEF Timing
<1> QED BY <1>1, <1>2, <1>3, <1>4, <1>5, <1>6, <1>7 DEF Proceeds

LEMMA OneRowUpdate ==
  ASSUME NEW a \in Callers, NEW t \in Sources, NEW n, Op(a, "update", n), Proceeds(a, t)
  PROVE  \/ /\ t \notin {"low", "error"} /\ n \in NamesOf(t) /\ Todo(a, One("update", n))
            /\ Excused(t) \/ (Believes(t, n) /\ There(n) /\ OpenRow(n))
         \/ /\ t \in {"low", "error"} /\ n = t /\ Todo(a, Two("update", t, "load", t))
            /\ Excused(t) \/ (found[a] # 0 /\ There(t))
         \/ /\ t = "timeout" /\ n = t /\ Todo(a, Two("update", t, "settle", t))
            /\ Excused(t)
<1>h. /\ \A l, m : Todo(a, One(l, m)) => l = "update" /\ m = n
      /\ \A l, m, p, q : Todo(a, Two(l, m, p, q)) => l = "update" /\ m = n
      /\ \A l, m, p, q, i, j : Todo(a, Three(l, m, p, q, i, j)) => l = "update" /\ m = n
  BY HeadIs
<1>1. CASE Preparing(a, t)
  BY <1>1, <1>h DEF Preparing
<1>2. CASE Checking(a, t)
  BY <1>2, <1>h DEF Checking
<1>3. CASE Alerting(a, t)
  BY <1>3, <1>h DEF Alerting
<1>4. CASE Clearing(a, t)
  BY <1>4, <1>h DEF Clearing
<1>5. CASE Ending(a, t)
  BY <1>5, <1>h DEF Ending
<1>6. CASE Recalling(a, t)
  BY <1>6, <1>h DEF Recalling
<1>7. CASE Timing(a, t)
  BY <1>7, <1>h DEF Timing
<1> QED BY <1>1, <1>2, <1>3, <1>4, <1>5, <1>6, <1>7 DEF Proceeds

LEMMA OneResolve ==
  ASSUME NEW a \in Callers, NEW t \in Sources, NEW n, NEW k \in {"resolve", "resolve_memory"},
         Op(a, k, n), Proceeds(a, t)
  PROVE  \/ /\ t \in {"low", "error"} /\ n = t /\ Todo(a, Three(k, t, "forget", t, "check", t))
            /\ Excused(t) \/ (k = "resolve_memory" => NotStored(t))
         \/ /\ t \notin {"low", "error"} /\ n \in NamesOf(t)
            /\ \E m \in NamesOf(t) \ {n} : /\ Todo(a, Two(k, n, "trigger", m))
                                           /\ Excused(t) \/ Believes(t, m)
         \/ /\ t = "queue" /\ n = "warning" /\ Todo(a, Two(k, "warning", "resolve", "critical"))
            /\ \/ Excused(t)
               \/ belief[t] = 0 /\ (k = "resolve_memory" => NotStored("warning"))
         \/ /\ t \in {"queue", "rate", "memory"}
            /\ n \in {"critical", "rate", "memory"} \cap NamesOf(t) /\ Todo(a, One(k, n))
            /\ \/ Excused(t)
               \/ /\ belief[t] = 0 /\ (k = "resolve_memory" => NotStored(n))
                  /\ \A m \in NamesOf(t) \ {n} : NotHeld(m) /\ NotStored(m)
         \/ /\ t \in Settles /\ n = t /\ Todo(a, Two(k, t, "settle", t))
            /\ Excused(t) \/ (found[a] = 0 /\ (k = "resolve_memory" => NotStored(t)))
<1>h. /\ \A l, m : Todo(a, One(l, m)) => l = k /\ m = n
      /\ \A l, m, p, q : Todo(a, Two(l, m, p, q)) => l = k /\ m = n
      /\ \A l, m, p, q, i, j : Todo(a, Three(l, m, p, q, i, j)) => l = k /\ m = n
  BY HeadIs
<1>1. CASE Preparing(a, t)
  BY <1>1, <1>h DEF Preparing
<1>2. CASE Checking(a, t)
  BY <1>2, <1>h DEF Checking
<1>3. CASE Alerting(a, t)
  BY <1>3, <1>h DEF Alerting
<1>4. CASE Clearing(a, t)
  BY <1>4, <1>h DEF Clearing
<1>5. CASE Ending(a, t)
  BY <1>5, <1>h DEF Ending
<1>6. CASE Recalling(a, t)
  BY <1>6, <1>h DEF Recalling
<1>7. CASE Timing(a, t)
  BY <1>7, <1>h DEF Timing
<1> QED BY <1>1, <1>2, <1>3, <1>4, <1>5, <1>6, <1>7 DEF Proceeds

LEMMA OneDelete ==
  ASSUME NEW a \in Callers, NEW t \in Sources, NEW n, NEW k \in {"delete", "delete_memory"},
         Op(a, k, n), Proceeds(a, t)
  PROVE  /\ t = "timeout" /\ n = t /\ event[a] # <<>>
         /\ \/ /\ Todo(a, Three(k, t, "forget", t, "check", t))
               /\ Excused(t) \/ Unheld(t)
            \/ /\ Todo(a, One(k, t))
               /\ \/ Excused(t)
                  \/ /\ belief[t] = 0 /\ OnlyEvent(event[a][1])
                     /\ k = "delete_memory" => NotStored(t)
<1>h. /\ \A l, m : Todo(a, One(l, m)) => l = k /\ m = n
      /\ \A l, m, p, q : Todo(a, Two(l, m, p, q)) => l = k /\ m = n
      /\ \A l, m, p, q, i, j : Todo(a, Three(l, m, p, q, i, j)) => l = k /\ m = n
  BY HeadIs
<1>1. CASE Preparing(a, t)
  BY <1>1, <1>h DEF Preparing
<1>2. CASE Checking(a, t)
  BY <1>2, <1>h DEF Checking
<1>3. CASE Alerting(a, t)
  BY <1>3, <1>h DEF Alerting
<1>4. CASE Clearing(a, t)
  BY <1>4, <1>h DEF Clearing
<1>5. CASE Ending(a, t)
  BY <1>5, <1>h DEF Ending
<1>6. CASE Recalling(a, t)
  BY <1>6, <1>h DEF Recalling
<1>7. CASE Timing(a, t)
  BY <1>7, <1>h DEF Timing
<1> QED BY <1>1, <1>2, <1>3, <1>4, <1>5, <1>6, <1>7 DEF Proceeds

LEMMA TriggerGoesOn ==
  ASSUME AlertsTyped, NEW a \in Callers, NEW t \in Sources, NEW n \in Names, Triggers(a, n),
         Proceeds(a, t)
  PROVE  GoesOn(a, t)'
<1>1. /\ Continue(a, <<>>) \/ (Continue(a, One("update", n)) /\ OpenRow(n)')
      /\ UNCHANGED <<belief, loaded, rows>> /\ excused \subseteq excused'
      /\ There(n)'
      /\ n = "timeout" /\ belief[n] # 0 => \A k \in Nat : OnlyEvent(k) => OnlyEvent(k)'
  BY TriggerLeaves
<1>2. Op(a, "trigger", n)
  BY DEF Triggers, TriggerDisabled, TriggerSuppressed, TriggerFindsRow, TriggerFindsEvent,
         TriggerCreates
<1>3. CallsTyped /\ belief[t] \in Nat
  BY DEF AlertsTyped, MonitorsTyped
<1>4. Excused(t) => Excused(t)'
  BY <1>1 DEF Excused
<1>5. CASE /\ t \notin {"low", "error"} /\ n \in NamesOf(t) /\ Todo(a, One("trigger", n))
           /\ Excused(t) \/ Believes(t, n)
  <2>1. Believes(t, n) => Believes(t, n)'
    <3>1. ASSUME Believes(t, n), t # "memory" PROVE Believes(t, n)'
      <4>1. PICK b \in Nat : b = belief[t]
        BY <1>3
      <4>2. b # 0 /\ n = NameOf(t, b) /\ (t = "timeout" => OnlyEvent(b - 1))
        BY <3>1, <4>1 DEF Believes
      <4>3. t = "timeout" => n = "timeout"
        BY <4>2 DEF NameOf
      <4>4. t = "timeout" => OnlyEvent(b - 1)'
        BY <1>1, <4>1, <4>2, <4>3
      <4>5. belief'[t] = b
        BY <1>1, <4>1
      <4> QED BY <3>1, <4>2, <4>4, <4>5 DEF Believes
    <3>2. t = "memory" /\ Believes(t, n) => Believes(t, n)'
      BY <1>1 DEF Believes
    <3> QED BY <3>1, <3>2
  <2>2. CASE Continue(a, <<>>)
    <3>1. calls'[a] = <<>>
      BY <1>3, <1>5, <2>2, LeftIs
    <3>2. Believes(t, n)' => Agrees(t)'
      BY <1>1, <1>5 DEF Agrees, Believes
    <3> QED BY <1>4, <1>5, <2>1, <3>1, <3>2 DEF GoesOn
  <2>3. CASE Continue(a, One("update", n)) /\ OpenRow(n)'
    <3>1. calls'[a] = One("update", n)
      BY <1>3, <1>5, <2>3, LeftIs
    <3>2. Alerting(a, t)'
      BY <1>1, <1>4, <1>5, <2>1, <2>3, <3>1 DEF Alerting, Todo
    <3> QED BY <3>2 DEF GoesOn, Proceeds
  <2> QED BY <1>1, <2>2, <2>3
<1>6. CASE /\ t \in {"low", "error"} /\ n = t /\ Todo(a, Two("trigger", t, "load", t))
           /\ Excused(t) \/ found[a] # 0
  <2>1. CASE Continue(a, <<>>)
    <3>1. calls'[a] = One("load", t) /\ found'[a] = found[a]
      BY <1>3, <1>6, <2>1, LeftIs
    <3>2. Recalling(a, t)'
      BY <1>1, <1>4, <1>6, <3>1 DEF Recalling, Todo
    <3> QED BY <3>2 DEF GoesOn, Proceeds
  <2>2. CASE Continue(a, One("update", n))
    <3>1. calls'[a] = Two("update", t, "load", t) /\ found'[a] = found[a]
      BY <1>3, <1>6, <2>2, LeftIs
    <3>2. Recalling(a, t)'
      BY <1>1, <1>4, <1>6, <3>1 DEF Recalling, Todo
    <3> QED BY <3>2 DEF GoesOn, Proceeds
  <2> QED BY <1>1, <2>1, <2>2
<1>7. CASE /\ t = "timeout" /\ n = t /\ Todo(a, Two("trigger", t, "settle", t))
           /\ Excused(t) \/ (belief[t] = 0 /\ Gone(t))
  <2>1. CASE Excused(t)'
    <3>1. calls'[a] = One("settle", t) \/ calls'[a] = Two("update", t, "settle", t)
      BY <1>1, <1>3, <1>7, LeftIs
    <3>2. Timing(a, t)'
      BY <1>7, <2>1, <3>1 DEF Timing, Todo
    <3> QED BY <3>2 DEF GoesOn, Proceeds
  <2>2. CASE ~Excused(t)'
    <3>1. Gone("timeout")
      BY <1>4, <1>7, <2>2
    <3>2. Continue(a, <<>>) /\ \E k \in Nat : event'[a] = <<k>> /\ OnlyEvent(k)'
      BY <1>7, <2>2, <3>1, FirstTrigger
    <3>3. PICK k \in Nat : event'[a] = <<k>> /\ OnlyEvent(k)'
      BY <3>2
    <3>4. calls'[a] = One("settle", t)
      BY <1>3, <1>7, <3>2, LeftIs
    <3>5. event'[a] # <<>> /\ event'[a][1] = k
      BY <3>3
    <3>6. Timing(a, t)'
      BY <1>1, <1>7, <3>3, <3>4, <3>5 DEF Timing, Todo
    <3> QED BY <3>6 DEF GoesOn, Proceeds
  <2> QED BY <2>1, <2>2
<1> QED BY <1>2, <1>5, <1>6, <1>7, OneTrigger

LEMMA UpdateGoesOn ==
  ASSUME AlertsTyped, NEW a \in Callers, NEW t \in Sources, NEW n \in Names, UpdateRow(a, n),
         Proceeds(a, t)
  PROVE  GoesOn(a, t)'
<1> USE DEF environment, monitors, manager
<1>1. /\ Continue(a, <<>>) /\ Op(a, "update", n)
      /\ UNCHANGED <<belief, loaded, memory, event>> /\ excused \subseteq excused'
  BY DEF UpdateRow
<1>2. Unresolved(n)' = Unresolved(n)
  BY <1>1 DEF Unresolved
<1>3. CallsTyped /\ belief[t] \in Nat
  BY DEF AlertsTyped, MonitorsTyped
<1>4. Excused(t) => Excused(t)'
  BY <1>1 DEF Excused
<1>5. There(n) => There(n)'
  <2>1. Stored(n) => Stored(n)'
    BY DEF UpdateRow, Stored
  <2> QED BY <1>1, <1>2, <2>1 DEF There, Active, Stored
<1>6. CASE /\ t \notin {"low", "error"} /\ n \in NamesOf(t) /\ Todo(a, One("update", n))
           /\ Excused(t) \/ (Believes(t, n) /\ There(n) /\ OpenRow(n))
  <2>1. calls'[a] = <<>>
    BY <1>1, <1>3, <1>6, LeftIs
  <2>2. ASSUME Believes(t, n), There(n), OpenRow(n) PROVE Agrees(t)'
    <3>1. There(n)'
      BY <1>5, <2>2
    <3>2. CASE t = "memory"
      BY <1>1, <2>2, <3>2 DEF Believes, Agrees
    <3>3. CASE t # "memory"
      <4>1. PICK b \in Nat : b = belief[t]
        BY <1>3
      <4>2. b # 0 /\ n = NameOf(t, b) /\ (t = "timeout" => OnlyEvent(b - 1))
        BY <2>2, <3>3, <4>1 DEF Believes
      <4>3. t = "timeout" => OnlyEvent(b - 1)'
        <5>1. ASSUME t = "timeout", "timeout" \notin excused' PROVE OnlyEvent(b - 1)'
          <6>1. n = "timeout" /\ n \notin excused
            BY <1>1, <4>2, <5>1 DEF NameOf
          <6>2. Stored(n)' => Stored(n)
            BY <2>2, <6>1 DEF OpenRow, Stored, UpdateRow
          <6>3. /\ b - 1 # 0 => ~Stored(n)
                /\ \A e \in Unresolved(n) : e.id = b - 1
            BY <4>2, <5>1, <6>1 DEF OnlyEvent, NotStored
          <6>4. \A e \in Unresolved(n)' : e.id = b - 1
            BY <1>2, <6>3
          <6>5. b - 1 # 0 => NotStored(n)'
            BY <6>2, <6>3 DEF NotStored
          <6> QED BY <6>1, <6>4, <6>5 DEF OnlyEvent
        <5> QED BY <5>1 DEF OnlyEvent
      <4>4. belief'[t] = b
        BY <1>1, <4>1
      <4>5. Believes(t, n)'
        BY <3>3, <4>2, <4>3, <4>4 DEF Believes
      <4> QED BY <1>6, <3>1, <3>3, <4>5 DEF Agrees
    <3> QED BY <3>2, <3>3
  <2> QED BY <1>4, <1>6, <2>1, <2>2 DEF GoesOn
<1>7. CASE /\ t \in {"low", "error"} /\ n = t /\ Todo(a, Two("update", t, "load", t))
           /\ Excused(t) \/ (found[a] # 0 /\ There(t))
  <2>1. calls'[a] = One("load", t) /\ found'[a] = found[a]
    BY <1>1, <1>3, <1>7, LeftIs
  <2>2. Recalling(a, t)'
    BY <1>4, <1>5, <1>7, <2>1 DEF Recalling, Todo
  <2> QED BY <2>2 DEF GoesOn, Proceeds
<1>8. CASE t = "timeout" /\ n = t /\ Todo(a, Two("update", t, "settle", t)) /\ Excused(t)
  <2>1. calls'[a] = One("settle", t)
    BY <1>1, <1>3, <1>8, LeftIs
  <2>2. Timing(a, t)'
    BY <1>4, <1>8, <2>1 DEF Timing, Todo
  <2> QED BY <2>2 DEF GoesOn, Proceeds
<1> QED BY <1>1, <1>6, <1>7, <1>8, OneRowUpdate

\* Only a queue has a second name, and a monitor that believes in it keeps on.
LEMMA OtherBelief ==
  ASSUME NEW t \in Sources, NEW n \in NamesOf(t), NEW m \in NamesOf(t) \ {n}, Believes(t, m),
         UNCHANGED belief
  PROVE  Believes(t, m)'
<1>1. t = "queue"
  BY SourceNames
<1> QED BY <1>1 DEF Believes

LEMMA ResolveRowsGoesOn ==
  ASSUME AlertsTyped, TracksOwn, NEW a \in Callers, NEW t \in Sources, NEW n \in Names,
         ResolveRows(a, n), Proceeds(a, t)
  PROVE  GoesOn(a, t)'
<1> USE DEF environment, monitors, manager
<1>1. /\ Continue(a, One("resolve_memory", n)) /\ Op(a, "resolve", n)
      /\ UNCHANGED <<belief, loaded, memory>> /\ excused \subseteq excused'
  BY DEF ResolveRows, One
<1>2. NotStored(n)' /\ (NotHeld(n) => NotHeld(n)')
  <2>1. Unresolved(n)' = Unresolved(n)
    BY <1>1 DEF Unresolved
  <2>2. NotStored(n)'
    BY DEF ResolveRows, NotStored, Stored, Without
  <2> QED BY <1>1, <2>1, <2>2 DEF NotHeld
<1>3. CallsTyped
  BY DEF AlertsTyped
<1>4. Excused(t) => Excused(t)'
  BY <1>1 DEF Excused
<1>5. \A m \in NamesOf(t) \ {n} : Spares(m)
  <2>1. ManagerStep(a, n)
    BY DEF ManagerStep
  <2>2. ~DeleteMemory(a, n)
    BY DEF DeleteMemory, ResolveRows, Op
  <2> QED BY <2>1, <2>2, ManagerSpares, SourceNames
<1>6. CASE /\ t \in {"low", "error"} /\ n = t
           /\ Todo(a, Three("resolve", t, "forget", t, "check", t))
  <2>1. calls'[a] = Three("resolve_memory", t, "forget", t, "check", t)
    BY <1>1, <1>3, <1>6, LeftIs
  <2>2. Preparing(a, t)'
    BY <1>2, <1>6, <2>1 DEF Preparing, Todo
  <2> QED BY <2>2 DEF GoesOn, Proceeds
<1>7. ASSUME t \notin {"low", "error"}, n \in NamesOf(t), NEW m \in NamesOf(t) \ {n},
             Todo(a, Two("resolve", n, "trigger", m)), Excused(t) \/ Believes(t, m)
      PROVE  GoesOn(a, t)'
  <2>1. calls'[a] = Two("resolve_memory", n, "trigger", m)
    BY <1>1, <1>3, <1>7, LeftIs
  <2>2. Excused(t)' \/ Believes(t, m)'
    BY <1>1, <1>4, <1>7, OtherBelief
  <2>3. m \in NamesOf(t) /\ n \in NamesOf(t) \ {m}
    BY <1>7
  <2>4. Alerting(a, t)'
    BY <1>7, <2>1, <2>2, <2>3 DEF Alerting, Todo
  <2> QED BY <2>4 DEF GoesOn, Proceeds
<1>8. CASE /\ t = "queue" /\ n = "warning"
           /\ Todo(a, Two("resolve", "warning", "resolve", "critical"))
           /\ Excused(t) \/ belief[t] = 0
  <2>1. calls'[a] = Two("resolve_memory", "warning", "resolve", "critical")
    BY <1>1, <1>3, <1>8, LeftIs
  <2>2. Clearing(a, t)'
    BY <1>1, <1>2, <1>4, <1>8, <2>1 DEF Clearing, Todo
  <2> QED BY <2>2 DEF GoesOn, Proceeds
<1>9. CASE /\ t \in {"queue", "rate", "memory"}
           /\ n \in {"critical", "rate", "memory"} \cap NamesOf(t) /\ Todo(a, One("resolve", n))
           /\ \/ Excused(t)
              \/ belief[t] = 0 /\ \A m \in NamesOf(t) \ {n} : NotHeld(m) /\ NotStored(m)
  <2>1. calls'[a] = One("resolve_memory", n)
    BY <1>1, <1>3, <1>9, LeftIs
  <2>2. \/ Excused(t)'
        \/ /\ belief'[t] = 0 /\ NotStored(n)'
           /\ \A m \in NamesOf(t) \ {n} : NotHeld(m)' /\ NotStored(m)'
    BY <1>1, <1>2, <1>4, <1>5, <1>9 DEF Spares
  <2>3. Clearing(a, t)'
    BY <1>9, <2>1, <2>2 DEF Clearing, Todo
  <2> QED BY <2>3 DEF GoesOn, Proceeds
<1>10. CASE /\ t \in Settles /\ n = t /\ Todo(a, Two("resolve", t, "settle", t))
            /\ Excused(t) \/ found[a] = 0
  <2>1. calls'[a] = Two("resolve_memory", t, "settle", t) /\ found'[a] = found[a]
    BY <1>1, <1>3, <1>10, LeftIs
  <2>2. Ending(a, t)'
    BY <1>2, <1>4, <1>10, <2>1 DEF Ending, Todo
  <2> QED BY <2>2 DEF GoesOn, Proceeds
<1> QED
  <2>1. \/ /\ t \in {"low", "error"} /\ n = t
           /\ Todo(a, Three("resolve", t, "forget", t, "check", t))
        \/ /\ t \notin {"low", "error"} /\ n \in NamesOf(t)
           /\ \E m \in NamesOf(t) \ {n} : /\ Todo(a, Two("resolve", n, "trigger", m))
                                          /\ Excused(t) \/ Believes(t, m)
        \/ /\ t = "queue" /\ n = "warning"
           /\ Todo(a, Two("resolve", "warning", "resolve", "critical"))
           /\ Excused(t) \/ belief[t] = 0
        \/ /\ t \in {"queue", "rate", "memory"}
           /\ n \in {"critical", "rate", "memory"} \cap NamesOf(t) /\ Todo(a, One("resolve", n))
           /\ \/ Excused(t)
              \/ belief[t] = 0 /\ \A m \in NamesOf(t) \ {n} : NotHeld(m) /\ NotStored(m)
        \/ /\ t \in Settles /\ n = t /\ Todo(a, Two("resolve", t, "settle", t))
           /\ Excused(t) \/ found[a] = 0
    BY <1>1, OneResolve
  <2> QED BY <1>6, <1>7, <1>8, <1>9, <1>10, <2>1

LEMMA ResolveMemoryGoesOn ==
  ASSUME AlertsTyped, TracksOwn, NEW a \in Callers, NEW t \in Sources, NEW n \in Names,
         ResolveMemory(a, n), Proceeds(a, t)
  PROVE  GoesOn(a, t)'
<1> USE DEF environment, monitors, manager
<1> DEFINE k == "resolve_memory"
<1>1. /\ Continue(a, <<>>) /\ Op(a, k, n)
      /\ UNCHANGED <<belief, loaded, rows, excused>>
  BY DEF ResolveMemory
<1>2. NotHeld(n)' /\ (NotStored(n) => NotStored(n)')
  <2>1. memory' = {Resolved(e, n) : e \in memory} /\ memory \subseteq Events
    BY DEF ResolveMemory, AlertsTyped, IdsAreUnique
  <2>2. \A e \in memory : Resolved(e, n).name = n => Resolved(e, n).resolved
    BY <2>1 DEF Resolved, Events
  <2>3. Unresolved(n)' = {}
    BY <2>1, <2>2 DEF Unresolved
  <2> QED BY <1>1, <2>3 DEF NotHeld, NotStored, Stored
<1>3. CallsTyped
  BY DEF AlertsTyped
<1>4. Excused(t) => Excused(t)'
  BY <1>1 DEF Excused
<1>5. \A m \in NamesOf(t) \ {n} : Spares(m)
  <2>1. ManagerStep(a, n)
    BY DEF ManagerStep
  <2>2. ~DeleteMemory(a, n)
    BY DEF DeleteMemory, ResolveMemory, Op
  <2> QED BY <2>1, <2>2, ManagerSpares, SourceNames
<1>6. CASE /\ t \in {"low", "error"} /\ n = t
           /\ Todo(a, Three(k, t, "forget", t, "check", t))
           /\ Excused(t) \/ NotStored(t)
  <2>1. calls'[a] = Two("forget", t, "check", t)
    BY <1>1, <1>3, <1>6, LeftIs
  <2>2. NamesOf(t) = {t}
    BY <1>6, SourceNames
  <2>3. Unheld(t)' /\ (NotStored(t) => NotStored(t)')
    BY <1>2, <1>6, <2>2 DEF Unheld
  <2>4. Preparing(a, t)'
    BY <1>4, <1>6, <2>1, <2>3 DEF Preparing, Todo
  <2> QED BY <2>4 DEF GoesOn, Proceeds
<1>7. ASSUME t \notin {"low", "error"}, n \in NamesOf(t), NEW m \in NamesOf(t) \ {n},
             Todo(a, Two(k, n, "trigger", m)), Excused(t) \/ Believes(t, m)
      PROVE  GoesOn(a, t)'
  <2>1. calls'[a] = One("trigger", m)
    BY <1>1, <1>3, <1>7, LeftIs
  <2>2. Excused(t)' \/ Believes(t, m)'
    BY <1>1, <1>4, <1>7, OtherBelief
  <2>3. Alerting(a, t)'
    BY <1>7, <2>1, <2>2 DEF Alerting, Todo
  <2> QED BY <2>3 DEF GoesOn, Proceeds
<1>8. CASE /\ t = "queue" /\ n = "warning"
           /\ Todo(a, Two(k, "warning", "resolve", "critical"))
           /\ Excused(t) \/ (belief[t] = 0 /\ NotStored("warning"))
  <2>1. calls'[a] = One("resolve", "critical")
    BY <1>1, <1>3, <1>8, LeftIs
  <2>2. NamesOf(t) \ {"critical"} = {"warning"} /\ "critical" \in NamesOf(t)
    BY <1>8, SourceNames
  <2>3. \/ Excused(t)'
        \/ /\ belief'[t] = 0
           /\ \A m \in NamesOf(t) \ {"critical"} : NotHeld(m)' /\ NotStored(m)'
    BY <1>1, <1>2, <1>4, <1>8, <2>2
  <2>4. Clearing(a, t)'
    BY <1>8, <2>1, <2>2, <2>3 DEF Clearing, Todo
  <2> QED BY <2>4 DEF GoesOn, Proceeds
<1>9. CASE /\ t \in {"queue", "rate", "memory"}
           /\ n \in {"critical", "rate", "memory"} \cap NamesOf(t) /\ Todo(a, One(k, n))
           /\ \/ Excused(t)
              \/ /\ belief[t] = 0 /\ NotStored(n)
                 /\ \A m \in NamesOf(t) \ {n} : NotHeld(m) /\ NotStored(m)
  <2>1. calls'[a] = <<>>
    BY <1>1, <1>3, <1>9, LeftIs
  <2>2. Excused(t)' \/ (belief'[t] = 0 /\ \A m \in NamesOf(t) : NotHeld(m)' /\ NotStored(m)')
    BY <1>1, <1>2, <1>4, <1>5, <1>9 DEF Spares
  <2>3. Excused(t)' \/ Agrees(t)'
    BY <2>2 DEF Agrees
  <2> QED BY <2>1, <2>3 DEF GoesOn
<1>10. CASE /\ t \in Settles /\ n = t /\ Todo(a, Two(k, t, "settle", t))
            /\ Excused(t) \/ (found[a] = 0 /\ NotStored(t))
  <2>1. calls'[a] = One("settle", t) /\ found'[a] = found[a]
    BY <1>1, <1>3, <1>10, LeftIs
  <2>2. NamesOf(t) = {t}
    BY <1>10, SourceNames DEF Settles
  <2>3. NotStored(t) => Gone(t)'
    BY <1>2, <1>10, <2>2 DEF Gone
  <2>4. Ending(a, t)'
    BY <1>4, <1>10, <2>1, <2>3 DEF Ending, Todo
  <2> QED BY <2>4 DEF GoesOn, Proceeds
<1> QED
  <2>1. \/ /\ t \in {"low", "error"} /\ n = t
           /\ Todo(a, Three(k, t, "forget", t, "check", t))
           /\ Excused(t) \/ NotStored(t)
        \/ /\ t \notin {"low", "error"} /\ n \in NamesOf(t)
           /\ \E m \in NamesOf(t) \ {n} : /\ Todo(a, Two(k, n, "trigger", m))
                                          /\ Excused(t) \/ Believes(t, m)
        \/ /\ t = "queue" /\ n = "warning"
           /\ Todo(a, Two(k, "warning", "resolve", "critical"))
           /\ Excused(t) \/ (belief[t] = 0 /\ NotStored("warning"))
        \/ /\ t \in {"queue", "rate", "memory"}
           /\ n \in {"critical", "rate", "memory"} \cap NamesOf(t) /\ Todo(a, One(k, n))
           /\ \/ Excused(t)
              \/ /\ belief[t] = 0 /\ NotStored(n)
                 /\ \A m \in NamesOf(t) \ {n} : NotHeld(m) /\ NotStored(m)
        \/ /\ t \in Settles /\ n = t /\ Todo(a, Two(k, t, "settle", t))
           /\ Excused(t) \/ (found[a] = 0 /\ NotStored(t))
    BY <1>1, OneResolve
  <2> QED BY <1>6, <1>7, <1>8, <1>9, <1>10, <2>1

\* The id that a thread of the task monitor has to delete.
LEMMA HeldId ==
  ASSUME AlertsTyped, TracksOwn, NEW a \in Callers, event[a] # <<>>
  PROVE  \E k \in Nat : event[a] = <<k>> /\ event[a][1] = k
<1>1. event[a] \in Seq(Nat) /\ Len(event[a]) = 1
  BY DEF AlertsTyped, MonitorsTyped, TracksOwn
<1>2. event[a][1] \in Nat /\ event[a] = <<event[a][1]>>
  BY <1>1
<1> QED BY <1>2

LEMMA DeleteRowGoesOn ==
  ASSUME AlertsTyped, TracksOwn, NEW a \in Callers, NEW t \in Sources, NEW n \in Names,
         DeleteRow(a, n), Proceeds(a, t)
  PROVE  GoesOn(a, t)'
<1> USE DEF environment, monitors, manager
<1>1. /\ Continue(a, One("delete_memory", n)) /\ Op(a, "delete", n)
      /\ UNCHANGED <<belief, loaded, memory, event>> /\ excused \subseteq excused'
  BY DEF DeleteRow, One
<1>2. /\ t = "timeout" /\ n = t /\ event[a] # <<>>
      /\ \/ /\ Todo(a, Three("delete", t, "forget", t, "check", t))
            /\ Excused(t) \/ Unheld(t)
         \/ /\ Todo(a, One("delete", t))
            /\ Excused(t) \/ (belief[t] = 0 /\ OnlyEvent(event[a][1]))
  BY <1>1, OneDelete
<1>3. CallsTyped /\ NamesOf(t) = {t}
  BY <1>2, SourceNames DEF AlertsTyped
<1>4. Excused(t) => Excused(t)'
  BY <1>1 DEF Excused
<1>5. PICK k \in Nat : event[a] = <<k>> /\ event[a][1] = k
  BY <1>2, HeldId
<1>6. /\ rows' = IF DatabaseUp /\ k = 0 THEN Without(n) ELSE rows
      /\ ~DatabaseUp /\ k = 0 => n \in excused'
  <2>1. event[a] = <<0>> <=> k = 0
    BY <1>5
  <2> QED BY <2>1 DEF DeleteRow
<1>7. Unresolved(n)' = Unresolved(n)
  BY <1>1 DEF Unresolved
<1>8. CASE /\ Todo(a, Three("delete", t, "forget", t, "check", t))
           /\ Excused(t) \/ Unheld(t)
  <2>1. calls'[a] = Three("delete_memory", t, "forget", t, "check", t)
    BY <1>1, <1>2, <1>3, <1>8, LeftIs
  <2>2. Unheld(t) => Unheld(t)'
    BY <1>1, <1>2, <1>3, <1>7 DEF Unheld, NotHeld
  <2>3. Preparing(a, t)'
    BY <1>1, <1>2, <1>4, <1>8, <2>1, <2>2 DEF Preparing, Todo
  <2> QED BY <2>3 DEF GoesOn, Proceeds
<1>9. CASE /\ Todo(a, One("delete", t))
           /\ Excused(t) \/ (belief[t] = 0 /\ OnlyEvent(k))
  <2>1. calls'[a] = One("delete_memory", t)
    BY <1>1, <1>2, <1>3, <1>9, LeftIs
  <2>2. ASSUME OnlyEvent(k), ~Excused(t)' PROVE OnlyEvent(k)' /\ NotStored(n)'
    <3>1. n \notin excused
      BY <1>2, <1>3, <1>4, <2>2 DEF Excused
    <3>2. \A e \in Unresolved(n)' : e.id = k
      BY <1>2, <1>7, <2>2, <3>1 DEF OnlyEvent
    <3>3. NotStored(n)'
      <4>1. CASE k = 0
        BY <1>6, <4>1 DEF NotStored, Stored, Without
      <4>2. CASE k # 0
        BY <1>1, <1>2, <1>6, <2>2, <3>1, <4>2 DEF OnlyEvent, NotStored, Stored
      <4> QED BY <4>1, <4>2
    <3> QED BY <1>2, <3>2, <3>3 DEF OnlyEvent
  <2>3. event'[a] # <<>> /\ event'[a][1] = k
    BY <1>1, <1>2, <1>5
  <2>4. Timing(a, t)'
    BY <1>1, <1>2, <1>4, <1>9, <2>1, <2>2, <2>3 DEF Timing, Todo
  <2> QED BY <2>4 DEF GoesOn, Proceeds
<1> QED BY <1>2, <1>5, <1>8, <1>9

LEMMA DeleteMemoryGoesOn ==
  ASSUME AlertsTyped, TracksOwn, NEW a \in Callers, NEW t \in Sources, NEW n \in Names,
         DeleteMemory(a, n), Proceeds(a, t)
  PROVE  GoesOn(a, t)' /\ n = "timeout" /\ t = n /\ event[a] # <<>>
<1> USE DEF environment, monitors, manager
<1>1. /\ Continue(a, <<>>) /\ Op(a, "delete_memory", n)
      /\ UNCHANGED <<belief, loaded, rows, excused>>
  BY DEF DeleteMemory
<1>2. /\ t = "timeout" /\ n = t /\ event[a] # <<>>
      /\ \/ /\ Todo(a, Three("delete_memory", t, "forget", t, "check", t))
            /\ Excused(t) \/ Unheld(t)
         \/ /\ Todo(a, One("delete_memory", t))
            /\ \/ Excused(t)
               \/ belief[t] = 0 /\ OnlyEvent(event[a][1]) /\ NotStored(t)
  BY <1>1, OneDelete
<1>3. CallsTyped /\ NamesOf(t) = {t}
  BY <1>2, SourceNames DEF AlertsTyped
<1>4. Excused(t) => Excused(t)'
  BY <1>1 DEF Excused
<1>5. PICK k \in Nat : event[a] = <<k>> /\ event[a][1] = k
  BY <1>2, HeldId
<1>6. memory' = {e \in memory : e.id # k}
  BY <1>5 DEF DeleteMemory, WithoutEvent
<1>7. NotStored(n) => NotStored(n)'
  BY <1>1 DEF NotStored, Stored
<1>8. CASE /\ Todo(a, Three("delete_memory", t, "forget", t, "check", t))
           /\ Excused(t) \/ Unheld(t)
  <2>1. calls'[a] = Two("forget", t, "check", t)
    BY <1>1, <1>3, <1>8, LeftIs
  <2>2. Unheld(t) => Unheld(t)'
    BY <1>1, <1>6 DEF Unheld, NotHeld, Unresolved
  <2>3. Preparing(a, t)'
    BY <1>2, <1>4, <1>8, <2>1, <2>2 DEF Preparing, Todo
  <2> QED BY <1>2, <2>3 DEF GoesOn, Proceeds
<1>9. CASE /\ Todo(a, One("delete_memory", t))
           /\ Excused(t) \/ (belief[t] = 0 /\ OnlyEvent(k) /\ NotStored(t))
  <2>1. calls'[a] = <<>>
    BY <1>1, <1>3, <1>9, LeftIs
  <2>2. ASSUME belief[t] = 0, OnlyEvent(k), NotStored(t), ~Excused(t)' PROVE Agrees(t)'
    <3>1. n \notin excused
      BY <1>2, <1>3, <1>4, <2>2 DEF Excused
    <3>2. \A e \in Unresolved(n) : e.id = k
      BY <1>2, <2>2, <3>1 DEF OnlyEvent
    <3>3. NotHeld(n)'
      BY <1>6, <3>2 DEF NotHeld, Unresolved
    <3> QED BY <1>1, <1>2, <1>3, <1>7, <2>2, <3>3 DEF Agrees
  <2> QED BY <1>2, <1>4, <1>9, <2>1, <2>2 DEF GoesOn
<1> QED BY <1>2, <1>5, <1>8, <1>9

\* What is cleared is gone, or excused.
LEMMA ClearGoesOn ==
  ASSUME AlertsTyped, NEW a \in Callers, NEW t \in Sources, ClearRows(a) \/ ClearMemory(a),
         Proceeds(a, t)
  PROVE  Proceeds(a, t)'
<1> USE DEF environment, monitors, manager
<1>1. /\ ClearRows(a) => /\ Continue(a, One("clear_memory", "all"))
                         /\ Op(a, "clear", "all")
      /\ ClearMemory(a) => Continue(a, <<>>) /\ Op(a, "clear_memory", "all")
      /\ UNCHANGED <<belief, loaded>>
  BY DEF ClearRows, ClearMemory, One
<1>2. CallsTyped /\ belief[t] \in Nat
  BY DEF AlertsTyped, MonitorsTyped
<1> DEFINE k == IF ClearRows(a) THEN "clear" ELSE "clear_memory"
<1>a. Op(a, k, "all")
  BY <1>1
<1>b. k \in {"clear", "clear_memory"}
  OBVIOUS
<1>c. k = "clear" <=> ClearRows(a)
  OBVIOUS
<1> HIDE DEF k
<1>3. Todo(a, Three(k, "all", "reset", t, "check", t)) /\ (Excused(t) \/ Agrees(t))
  <2>h. /\ \A l, m : Todo(a, One(l, m)) => l = k /\ m = "all"
        /\ \A l, m, p, q : Todo(a, Two(l, m, p, q)) => l = k /\ m = "all"
        /\ \A l, m, p, q, i, j : Todo(a, Three(l, m, p, q, i, j)) => l = k /\ m = "all"
    BY <1>a, HeadIs
  <2>1. CASE Preparing(a, t)
    BY <1>b, <2>1, <2>h DEF Preparing
  <2>2. CASE Checking(a, t)
    BY <1>b, <2>2, <2>h DEF Checking
  <2>3. CASE Alerting(a, t)
    BY <1>b, <2>3, <2>h DEF Alerting
  <2>4. CASE Clearing(a, t)
    BY <1>b, <2>4, <2>h DEF Clearing
  <2>5. CASE Ending(a, t)
    BY <1>b, <2>5, <2>h DEF Ending
  <2>6. CASE Recalling(a, t)
    BY <1>b, <2>6, <2>h DEF Recalling
  <2>7. CASE Timing(a, t)
    BY <1>b, <2>7, <2>h DEF Timing
  <2> QED BY <2>1, <2>2, <2>3, <2>4, <2>5, <2>6, <2>7 DEF Proceeds
<1>5. SparesSource(t)
  <2>1. \A m \in NamesOf(t) : excused \subseteq excused' /\ Spares(m)
    BY RequestSpares, SourceNames
  <2>2. NamesOf(t) # {}
    BY SourceNames
  <2> QED BY <1>1, <2>1, <2>2 DEF SparesSource
<1>6. Excused(t)' \/ Agrees(t)'
  BY <1>2, <1>3, <1>5, SparedBeliefs
<1>7. CASE ClearRows(a)
  <2>1. calls'[a] = Three("clear_memory", "all", "reset", t, "check", t)
    BY <1>1, <1>2, <1>3, <1>7, LeftIs
  <2>2. Preparing(a, t)'
    BY <1>6, <2>1 DEF Preparing, Todo
  <2> QED BY <2>2 DEF Proceeds
<1>8. CASE ClearMemory(a)
  <2>1. calls'[a] = Two("reset", t, "check", t)
    BY <1>1, <1>2, <1>3, <1>8, LeftIs
  <2>2. Unheld(t)'
    BY <1>8 DEF ClearMemory, Unheld, NotHeld, Unresolved
  <2>3. Preparing(a, t)'
    BY <1>6, <2>1, <2>2 DEF Preparing, Todo
  <2> QED BY <2>3 DEF Proceeds
<1> QED BY <1>7, <1>8

-----------------------------------------------------------------------------
(* The ids that the task monitor remembers.                                *)

\* An id keeps its name for as long as there is an event with it.
LEMMA IdsKeepNames ==
  ASSUME AlertsTyped, [AlertsNext]_alertVars, NEW k \in Nat, Followable(k)
  PROVE  Followable(k)'
<1> USE DEF environment, monitors, manager, actor
<1>1. issued \in Nat /\ memory \subseteq Events /\ \A e \in memory : e.id <= issued
  BY DEF AlertsTyped, IdsAreUnique
<1>2. k <= issued /\ \A e \in memory : e.id = k => e.name = "timeout"
  BY DEF Followable
<1>3. ASSUME UNCHANGED issued, \A e \in memory' : \E f \in memory : f.id = e.id /\ f.name = e.name
      PROVE  Followable(k)'
  BY <1>2, <1>3 DEF Followable
<1>4. ASSUME UNCHANGED <<memory, issued>> PROVE Followable(k)'
  BY <1>2, <1>4 DEF Followable
<1>5. ASSUME NEW s \in Sources, MonitorWakes(s) \/ ConditionChanges(s) PROVE Followable(k)'
  BY <1>4, <1>5 DEF MonitorWakes, StartCheck, ConditionChanges
<1>6. ASSUME NEW a \in Callers, NEW s \in Sources, CheckStep(a, s) PROVE Followable(k)'
  BY <1>4, <1>6 DEF CheckStep, ForceCheck, StartCheck, LoadStates, Observe, Decide, Settle,
                    ResetStates, Forget
<1>7. ASSUME NEW a \in Callers, NEW n \in Names, ManagerStep(a, n) PROVE Followable(k)'
  <2>1. CASE TriggerDisabled(a, n) \/ TriggerSuppressed(a, n) \/ TriggerFindsRow(a, n)
             \/ TriggerFindsEvent(a, n) \/ UpdateRow(a, n) \/ ResolveRows(a, n)
             \/ DeleteRow(a, n)
    BY <1>4, <2>1 DEF TriggerDisabled, TriggerSuppressed, TriggerFindsRow, TriggerFindsEvent,
                      UpdateRow, ResolveRows, DeleteRow
  <2>2. CASE TriggerCreates(a, n)
    <3>1. PICK new \in memory' : new.id = issued + 1 /\ memory' \subseteq memory \cup {new}
      BY <2>2, NewIsKept
    <3>2. issued' = issued + 1
      BY <2>2 DEF TriggerCreates
    <3>3. ASSUME NEW e \in memory', e.id = k PROVE e.name = "timeout"
      <4>1. e # new
        BY <1>1, <1>2, <3>1, <3>3
      <4> QED BY <1>2, <3>1, <3>3, <4>1
    <3>4. k <= issued'
      BY <1>1, <1>2, <3>2
    <3> QED BY <3>3, <3>4 DEF Followable
  <2>3. CASE ResolveMemory(a, n)
    <3>1. memory' = {Resolved(e, n) : e \in memory} /\ UNCHANGED issued
      BY <2>3 DEF ResolveMemory
    <3>2. \A e \in memory : Resolved(e, n).id = e.id /\ Resolved(e, n).name = e.name
      BY <1>1 DEF Resolved, Events
    <3> QED BY <1>3, <3>1, <3>2
  <2>4. CASE DeleteMemory(a, n)
    <3>1. memory' \subseteq memory /\ UNCHANGED issued
      BY <2>4 DEF DeleteMemory, WithoutEvent
    <3> QED BY <1>3, <3>1
  <2> QED BY <1>7, <2>1, <2>2, <2>3, <2>4 DEF ManagerStep
<1>8. ASSUME NEW n \in Scope, Acknowledge(n) PROVE Followable(k)'
  <2>1. CASE DatabaseUp
    BY <1>4, <1>8, <2>1 DEF Acknowledge
  <2>2. CASE ~DatabaseUp
    <3> DEFINE Marked(e) == [e EXCEPT !.acknowledged = @ \/ e \in Unresolved(n)]
    <3>1. memory' = {Marked(e) : e \in memory} /\ UNCHANGED issued
      BY <1>8, <2>2 DEF Acknowledge
    <3>2. ASSUME NEW e \in memory PROVE Marked(e).id = e.id /\ Marked(e).name = e.name
      BY <1>1 DEF Events
    <3> HIDE DEF Marked
    <3> QED BY <1>3, <3>1, <3>2
  <2> QED BY <2>1, <2>2
<1>9. ASSUME NEW n \in Scope, SaveConfig(n) \/ IntervalEnds(n) PROVE Followable(k)'
  BY <1>4, <1>9 DEF SaveConfig, IntervalEnds
<1>10. ASSUME PostClear \/ \E s \in Sources, clear \in BOOLEAN : PostForceCheck(s, clear)
       PROVE  Followable(k)'
  BY <1>4, <1>10 DEF PostClear, PostForceCheck
<1>11. ASSUME MasterRestarts \/ \E a \in Callers : ClearRows(a) \/ ClearMemory(a)
       PROVE  Followable(k)'
  BY <1>3, <1>11 DEF MasterRestarts, ClearRows, ClearMemory
<1>12. CASE UNCHANGED alertVars
  BY <1>4, <1>12 DEF alertVars
<1> QED BY <1>5, <1>6, <1>7, <1>8, <1>9, <1>10, <1>11, <1>12 DEF AlertsNext

\* What a check leaves in the two places where the task monitor keeps an id.
LEMMA TracksStep ==
  ASSUME AlertsTyped, [AlertsNext]_alertVars, TracksOwn, \A a \in Callers : Stands(a)
  PROVE  TracksOwn'
<1> USE DEF environment, monitors, manager, actor
<1>1. /\ belief \in [Sources -> Nat] /\ event \in [Callers -> {<<>>} \cup Seq(Nat)]
      /\ issued \in Nat /\ memory \subseteq Events /\ \A e \in memory : e.id <= issued
      /\ "timeout" \in Sources
      /\ \A e, f \in memory : e.id = f.id => e = f
  BY DEF AlertsTyped, MonitorsTyped, IdsAreUnique, Sources
<1> DEFINE Remembers == \/ belief'["timeout"] \in {belief["timeout"], 0}
                        \/ \E k \in Nat : belief'["timeout"] = k + 1 /\ Followable(k)'
           Holds(b) == \/ event'[b] = event[b] \/ event'[b] = <<>>
                       \/ \E k \in Nat : event'[b] = <<k>> /\ Followable(k)'
\* What the monitor and the threads had they may keep.
<1>2. \A k \in Nat : Followable(k) => Followable(k)'
  BY IdsKeepNames
<1>3. ASSUME NEW b \in Callers, event[b] # <<>>
      PROVE  \E k \in Nat : event[b] = <<k>> /\ event[b][1] = k /\ Followable(k)
  <2>1. event[b] \in Seq(Nat) /\ Len(event[b]) = 1
    BY <1>1, <1>3 DEF TracksOwn
  <2>2. PICK k \in Nat : event[b] = <<k>>
    <3>1. event[b][1] \in Nat /\ event[b] = <<event[b][1]>>
      BY <2>1
    <3> QED BY <3>1
  <2>3. event[b][1] = k
    BY <2>2
  <2>4. Followable(k)
    BY <1>3, <2>3 DEF TracksOwn
  <2> QED BY <2>2, <2>3, <2>4
<1>4. ASSUME belief["timeout"] # 0
      PROVE  \E k \in Nat : belief["timeout"] = k + 1 /\ belief["timeout"] - 1 = k /\ Followable(k)
  <2>1. PICK k \in Nat : k = belief["timeout"] - 1
    BY <1>1, <1>4
  <2> QED BY <1>1, <1>4, <2>1 DEF TracksOwn
<1>5. ASSUME Remembers, \A b \in Callers : Holds(b) PROVE TracksOwn'
  <2>1. ASSUME belief'["timeout"] # 0
        PROVE  \E k \in Nat : belief'["timeout"] = k + 1 /\ Followable(k)'
    BY <1>2, <1>4, <1>5, <2>1
  <2>2. belief'["timeout"] # 0 => Followable(belief["timeout"] - 1)'
    <3>1. ASSUME belief'["timeout"] # 0 PROVE Followable(belief["timeout"] - 1)'
      <4>1. PICK k \in Nat : belief'["timeout"] = k + 1 /\ Followable(k)'
        BY <2>1, <3>1
      <4>2. belief'["timeout"] - 1 = k
        BY <4>1
      <4> QED BY <4>1, <4>2 DEF Followable
    <3> QED BY <3>1
  <2>3. ASSUME NEW b \in Callers, event'[b] # <<>>
        PROVE  Len(event'[b]) = 1 /\ Followable(event[b][1])'
    <3>1. PICK k \in Nat : event'[b] = <<k>> /\ Followable(k)'
      BY <1>2, <1>3, <1>5, <2>3
    <3>2. Len(event'[b]) = 1 /\ event'[b][1] = k
      BY <3>1
    <3> QED BY <3>1, <3>2 DEF Followable
  <2> QED BY <2>2, <2>3 DEF TracksOwn
<1>6. ASSUME UNCHANGED event PROVE \A b \in Callers : Holds(b)
  BY <1>6
<1>7. ASSUME NEW s \in Sources, MonitorWakes(s) \/ ConditionChanges(s)
      PROVE  Remembers /\ \A b \in Callers : Holds(b)
  BY <1>7 DEF MonitorWakes, StartCheck, ConditionChanges
<1>8. ASSUME NEW a \in Callers, NEW s \in Sources, CheckStep(a, s)
      PROVE  Remembers /\ \A b \in Callers : Holds(b)
  <2>t. \/ Tracked(s) = <<>>
        \/ \E k \in Nat : Tracked(s) = <<k>> /\ Followable(k)'
    BY <1>2, <1>4 DEF Tracked
  <2>e. ASSUME event' = [event EXCEPT ![a] = Tracked(s)] PROVE \A b \in Callers : Holds(b)
    BY <1>1, <2>e, <2>t
  <2>1. CASE ForceCheck(a, s) \/ Observe(a, s)
    BY <2>1 DEF ForceCheck, StartCheck, Observe
  <2>2. CASE LoadStates(a, s)
    <3>1. PICK v \in IF Recalled(s) = {} THEN {belief[s]} ELSE Recalled(s) :
            belief' = [belief EXCEPT ![s] = v]
      BY <2>2 DEF LoadStates
    <3>2. s = "timeout" => v = belief[s] \/ v = 0 + 1
      BY <3>1 DEF Recalled, FromRows
    <3>3. Followable(0)
      BY <1>1 DEF Followable, Events
    <3>4. Remembers
      BY <1>1, <1>2, <3>1, <3>2, <3>3
    <3> QED BY <1>6, <2>2, <3>4 DEF LoadStates
  <2>3. CASE Decide(a, s)
    <3>1. belief' = [belief EXCEPT ![s] = Remembered(s, belief[s], found[a])]
      BY <2>3 DEF Decide
    <3>2. s = "timeout" => Remembered(s, belief[s], found[a]) \in {0, belief[s]}
      BY DEF Remembered
    <3>3. Remembers
      BY <1>1, <3>1, <3>2
    <3> QED BY <2>3, <2>e, <3>3 DEF Decide
  <2>4. CASE Settle(a, s)
    <3>1. belief' = [belief EXCEPT ![s] = IF s # "timeout" THEN found[a]
                                          ELSE IF event[a] = <<>> THEN belief[s]
                                               ELSE event[a][1] + 1]
      BY <2>4 DEF Settle
    <3>2. CASE s # "timeout" \/ event[a] = <<>>
      <4>1. Remembers
        BY <1>1, <3>1, <3>2
      <4> QED BY <1>1, <2>4, <4>1 DEF Settle
    <3>3. CASE s = "timeout" /\ event[a] # <<>>
      <4>1. PICK k \in Nat : event[a][1] = k /\ Followable(k)
        BY <1>3, <3>3
      <4>2. belief'["timeout"] = k + 1
        BY <1>1, <3>1, <3>3, <4>1
      <4>3. Remembers
        BY <1>2, <4>1, <4>2
      <4> QED BY <1>1, <2>4, <4>3 DEF Settle
    <3> QED BY <3>2, <3>3
  <2>5. CASE ResetStates(a, s)
    BY <2>5, <2>e DEF ResetStates
  <2>6. CASE Forget(a, s)
    <3>1. Remembers
      BY <1>1, <2>6 DEF Forget
    <3> QED BY <1>6, <2>6, <3>1 DEF Forget
  <2> QED BY <1>8, <2>1, <2>2, <2>3, <2>4, <2>5, <2>6 DEF CheckStep
<1>9. ASSUME NEW a \in Callers, NEW n \in Names, ManagerStep(a, n)
      PROVE  Remembers /\ \A b \in Callers : Holds(b)
  <2>1. Remembers
    <3>1. UNCHANGED belief
      BY <1>9 DEF ManagerStep, TriggerDisabled, TriggerSuppressed, TriggerFindsRow,
                  TriggerFindsEvent, TriggerCreates, UpdateRow, ResolveRows, ResolveMemory,
                  DeleteRow, DeleteMemory
    <3> QED BY <3>1
\* What trigger returns is kept for a timed-out task only.
  <2>2. ASSUME NEW k \in Nat, Op(a, "trigger", n), Returned(a, <<k>>),
               n = "timeout" => Followable(k)'
        PROVE  \A b \in Callers : Holds(b)
    <3>1. CASE \E i \in DOMAIN calls[a] : calls[a][i] = <<"settle", "timeout">>
      <4>1. PICK t \in Sources : Proceeds(a, t)
        <5>1. /\ ~Todo(a, One("clear", "all")) /\ ~Todo(a, One("clear_memory", "all"))
              /\ calls[a] # <<>>
          BY <2>2, HeadIs DEF Op
        <5> QED BY <5>1 DEF Stands
      <4>2. n = "timeout"
        <5>1. Todo(a, One("trigger", n)) => FALSE
          BY <3>1 DEF Todo, One
        <5>2. Todo(a, Two("trigger", t, "load", t)) => FALSE
          <6>1. ASSUME Todo(a, Two("trigger", t, "load", t)) PROVE FALSE
            <7>1. calls[a] = << <<"trigger", t>>, <<"load", t>> >>
              BY <6>1 DEF Todo, Two
            <7>2. PICK i \in {1, 2} : calls[a][i] = <<"settle", "timeout">>
              BY <3>1, <7>1
            <7>3. <<"trigger", t>> # <<"settle", "timeout">> /\ <<"load", t>> # <<"settle", "timeout">>
              OBVIOUS
            <7> QED BY <7>1, <7>2, <7>3
          <6> QED BY <6>1
        <5> QED BY <2>2, <4>1, <5>1, <5>2, OneTrigger
      <4>3. event'[a] = <<k>>
        BY <1>1, <2>2, <3>1 DEF Returned
      <4>4. \A b \in Callers \ {a} : event'[b] = event[b]
        BY <1>1, <2>2 DEF Returned
      <4> QED BY <2>2, <4>2, <4>3, <4>4
    <3>2. CASE ~\E i \in DOMAIN calls[a] : calls[a][i] = <<"settle", "timeout">>
      BY <1>1, <2>2, <3>2 DEF Returned
    <3> QED BY <3>1, <3>2
  <2>3. ASSUME Returned(a, <<>>) PROVE \A b \in Callers : Holds(b)
    BY <1>1, <2>3 DEF Returned
  <2>4. CASE TriggerDisabled(a, n) \/ TriggerSuppressed(a, n)
    BY <2>1, <2>3, <2>4 DEF TriggerDisabled, TriggerSuppressed
  <2>5. CASE TriggerFindsRow(a, n)
    <3>1. Followable(0)
      BY <1>1 DEF Followable, Events
    <3>2. Followable(0)'
      BY <1>2, <3>1
    <3> QED BY <2>1, <2>2, <2>5, <3>2 DEF TriggerFindsRow
  <2>6. CASE TriggerFindsEvent(a, n)
    <3>1. PICK e \in Mergeable(n) : Returned(a, <<e.id>>)
      BY <2>6 DEF TriggerFindsEvent
    <3>2. e \in memory /\ e.name = n
      BY DEF Mergeable, Unresolved
    <3>3. PICK k \in Nat : k = e.id
      BY <1>1, <3>2 DEF Events
    <3>4. n = "timeout" => Followable(k)
      BY <1>1, <3>2, <3>3 DEF Followable
    <3>5. n = "timeout" => Followable(k)'
      BY <1>2, <3>4
    <3>6. Returned(a, <<k>>) /\ Op(a, "trigger", n)
      BY <2>6, <3>1, <3>3 DEF TriggerFindsEvent
    <3> QED BY <2>1, <2>2, <3>5, <3>6
  <2>7. CASE TriggerCreates(a, n)
    <3>1. PICK new \in memory' : /\ new.id = issued + 1 /\ new.name = n
                                 /\ memory' \subseteq memory \cup {new}
      BY <2>7, NewIsKept
    <3>2. PICK k \in Nat : k = issued + 1
      BY <1>1
    <3>3. issued' = k
      BY <2>7, <3>2 DEF TriggerCreates
    <3>4. \A e \in memory : e.id # k
      BY <1>1, <3>2
    <3>5. n = "timeout" => Followable(k)'
      BY <3>1, <3>2, <3>3, <3>4 DEF Followable
    <3>6. Returned(a, <<k>>) /\ Op(a, "trigger", n)
      BY <2>7, <3>2 DEF TriggerCreates
    <3> QED BY <2>1, <2>2, <3>5, <3>6
  <2>8. CASE UpdateRow(a, n) \/ ResolveRows(a, n) \/ ResolveMemory(a, n) \/ DeleteRow(a, n)
    BY <1>6, <2>1, <2>8 DEF UpdateRow, ResolveRows, ResolveMemory, DeleteRow
  <2>9. CASE DeleteMemory(a, n)
    <3>1. event' = [event EXCEPT ![a] = <<>>]
      BY <2>9 DEF DeleteMemory
    <3>2. \A b \in Callers : Holds(b)
      BY <1>1, <3>1
    <3> QED BY <2>1, <3>2
  <2> QED BY <1>9, <2>4, <2>5, <2>6, <2>7, <2>8, <2>9 DEF ManagerStep
<1>10. ASSUME NEW n \in Scope, Acknowledge(n) \/ SaveConfig(n) \/ IntervalEnds(n)
       PROVE  Remembers /\ \A b \in Callers : Holds(b)
  BY <1>10 DEF Acknowledge, SaveConfig, IntervalEnds
<1>11. ASSUME \/ PostClear \/ \E s \in Sources, clear \in BOOLEAN : PostForceCheck(s, clear)
              \/ \E a \in Callers : ClearRows(a) \/ ClearMemory(a)
       PROVE  Remembers /\ \A b \in Callers : Holds(b)
  BY <1>11 DEF PostClear, PostForceCheck, ClearRows, ClearMemory
<1>12. ASSUME MasterRestarts PROVE Remembers /\ \A b \in Callers : Holds(b)
  BY <1>1, <1>12 DEF MasterRestarts
<1>13. ASSUME UNCHANGED alertVars PROVE Remembers /\ \A b \in Callers : Holds(b)
  BY <1>13 DEF alertVars
<1> HIDE DEF Remembers, Holds
<1>14. Remembers /\ \A b \in Callers : Holds(b)
  <2>1. CASE AlertsNext
    BY <1>7, <1>8, <1>9, <1>10, <1>11, <1>12, <2>1 DEF AlertsNext
  <2> QED BY <1>13, <2>1
<1> QED BY <1>5, <1>14

-----------------------------------------------------------------------------
(* Every step.                                                             *)

\* Whose operations are ahead, in a formula that holds in the next state too.
PlacesAreClear ==
  \A a \in Callers, s \in Sources :
    Proceeds(a, s) => /\ calls[a] # <<>> /\ At(a, s)
                      /\ \A u \in Sources : At(a, u) => u = s

LEMMA PlacesStayClear == PlacesAreClear /\ PlacesAreClear'
<1>1. PlacesAreClear
  BY WhoseOperation DEF PlacesAreClear, At
<1> QED BY <1>1, PTL

\* A thread whose step this is not stays where it is: what it relies on is spared, or
\* excused.
LEMMA StandsOn ==
  ASSUME AlertsTyped, TracksOwn, NEW b \in Callers, Stands(b), SparesActor(b),
         source'[b] = source[b],
         \A u \in Sources : Proceeds(b, u) => SparesSource(u) \/ Excused(u)'
  PROVE  Stands(b)'
<1>1. CASE \/ calls[b] = <<>>
           \/ /\ b = "request"
              /\ Todo(b, One("clear", "all")) \/ Todo(b, One("clear_memory", "all"))
  BY <1>1 DEF Stands, SparesActor, Todo
<1>2. ASSUME NEW u \in Sources, Proceeds(b, u), b = "monitor" => source[b] = u PROVE Stands(b)'
  <2>1. belief[u] \in Nat /\ (event[b] # <<>> => event[b][1] \in Nat)
    <3>1. belief[u] \in Nat /\ event[b] \in {<<>>} \cup Seq(Nat)
      BY DEF AlertsTyped, MonitorsTyped
    <3>2. event[b] # <<>> => Len(event[b]) = 1
      BY DEF TracksOwn
    <3> QED BY <3>1, <3>2
  <2>2. Proceeds(b, u)'
    <3>1. CASE SparesSource(u)
      BY <1>2, <2>1, <3>1, SparedChecks
    <3>2. CASE Excused(u)'
      <4>1. UNCHANGED <<calls[b], event[b]>>
        BY DEF SparesActor
      <4> QED BY <1>2, <3>2, <4>1, ExcusedChecks
    <3> QED BY <1>2, <3>1, <3>2
  <2> QED BY <1>2, <2>2 DEF Stands
<1> QED BY <1>1, <1>2 DEF Stands

\* A step of the check of t: the other thread may be in a check of t only when the
\* alerts of t are excused.
LEMMA OwnStep ==
  ASSUME AlertsTyped, FollowInv, TracksOwn', NEW a \in Callers, NEW t \in Sources,
         Proceeds(a, t), GoesOn(a, t)', a = "monitor" => source'[a] = t,
         excused \subseteq excused',
         \A b \in Callers \ {a} : SparesActor(b) /\ source'[b] = source[b],
         \A u \in Sources \ {t} : SparesSource(u)
  PROVE  FollowInv'
<1>1. Callers = {"monitor", "request"} /\ \A u \in Sources : belief[u] \in Nat
  BY DEF Callers, AlertsTyped, MonitorsTyped
<1>2. PlacesAreClear /\ PlacesAreClear'
  BY PlacesStayClear
<1>3. At(a, t) /\ \A u \in Sources \ {t} : ~At(a, u)
  BY <1>2 DEF PlacesAreClear
<1>4. \A u \in Sources \ {t} : ~At(a, u)'
  BY <1>2 DEF PlacesAreClear, GoesOn, At
<1>5. \A b \in Callers \ {a}, u \in Sources : At(b, u)' <=> At(b, u)
  BY DEF At, SparesActor
<1>6. Excused(t) => Excused(t)'
  BY DEF Excused
<1>7. ASSUME NEW b \in Callers \ {a}, At(b, t) PROVE Excused(t)
  BY <1>1, <1>3, <1>7 DEF FollowInv, Followed
<1>8. ASSUME NEW b \in Callers PROVE Stands(b)'
  <2>1. CASE b = a
    BY <2>1 DEF GoesOn, Stands
  <2>2. CASE b # a
    <3>1. \A u \in Sources : Proceeds(b, u) => SparesSource(u) \/ Excused(u)'
      BY <1>2, <1>6, <1>7, <2>2 DEF PlacesAreClear
    <3> QED BY <2>2, <3>1, StandsOn DEF FollowInv
  <2> QED BY <2>1, <2>2
<1>9. ASSUME NEW u \in Sources \ {t} PROVE Followed(u)'
  <2>1. /\ Excused(u) => Excused(u)'
        /\ Agrees(u) => Agrees(u)'
    BY <1>1, SparedBeliefs
  <2>2. \A b \in Callers : At(b, u)' <=> At(b, u)
    BY <1>3, <1>4, <1>5
  <2> QED BY <1>1, <2>1, <2>2 DEF FollowInv, Followed
<1>10. Followed(t)'
  <2>1. CASE Excused(t)
    BY <1>6, <2>1 DEF Followed
  <2>2. CASE ~Excused(t)
    <3>1. \A b \in Callers \ {a} : ~At(b, t)'
      BY <1>5, <1>7, <2>2
    <3>2. At(a, t)' \/ Excused(t)' \/ Agrees(t)'
      BY <1>2 DEF PlacesAreClear, GoesOn
    <3> QED BY <1>1, <3>1, <3>2 DEF Followed
  <2> QED BY <2>1, <2>2
<1> QED BY <1>8, <1>9, <1>10 DEF FollowInv

\* A step that takes nothing from anybody.
LEMMA SparingStep ==
  ASSUME AlertsTyped, FollowInv, TracksOwn', NEW A \in SUBSET Callers,
         \A b \in Callers \ A : SparesActor(b) /\ source'[b] = source[b],
         \A u \in Sources : SparesSource(u),
         \A a \in A : Stands(a)' /\ \A u \in Sources : ~At(a, u) /\ ~At(a, u)'
  PROVE  FollowInv'
<1>1. Callers = {"monitor", "request"} /\ \A u \in Sources : belief[u] \in Nat
  BY DEF Callers, AlertsTyped, MonitorsTyped
<1>2. \A b \in Callers, u \in Sources : At(b, u)' <=> At(b, u)
  BY DEF At, SparesActor
<1>3. ASSUME NEW b \in Callers PROVE Stands(b)'
  BY StandsOn DEF FollowInv
<1>4. ASSUME NEW u \in Sources PROVE Followed(u)'
  <2>1. /\ Excused(u) => Excused(u)'
        /\ Agrees(u) => Agrees(u)'
    BY <1>1, SparedBeliefs
  <2> QED BY <1>1, <1>2, <2>1 DEF FollowInv, Followed
<1> QED BY <1>3, <1>4 DEF FollowInv

\* A check that starts, while the other thread is elsewhere or the alerts are excused.
LEMMA StartStep ==
  ASSUME AlertsTyped, FollowInv, TracksOwn', NEW a \in Callers, NEW s \in Sources,
         calls[a] = <<>>, Proceeds(a, s)', a = "monitor" => source'[a] = s,
         \A b \in Callers \ {a} : /\ SparesActor(b) /\ source'[b] = source[b]
                                  /\ At(b, s) => Excused(s)',
         \A u \in Sources : SparesSource(u)
  PROVE  FollowInv'
<1>1. Callers = {"monitor", "request"} /\ \A u \in Sources : belief[u] \in Nat
  BY DEF Callers, AlertsTyped, MonitorsTyped
<1>2. PlacesAreClear'
  BY PlacesStayClear
<1>3. \A b \in Callers \ {a}, u \in Sources : At(b, u)' <=> At(b, u)
  BY DEF At, SparesActor
<1>4. \A u \in Sources \ {s} : ~At(a, u) /\ ~At(a, u)'
  BY <1>2 DEF PlacesAreClear, At
<1>5. ~At(a, s) /\ At(a, s)'
  BY <1>2 DEF PlacesAreClear, At
<1>6. ASSUME NEW b \in Callers PROVE Stands(b)'
  <2>1. CASE b = a
    BY <2>1 DEF Stands
  <2>2. CASE b # a
    BY <2>2, StandsOn DEF FollowInv
  <2> QED BY <2>1, <2>2
<1>7. ASSUME NEW u \in Sources PROVE Followed(u)'
  <2>1. /\ Excused(u) => Excused(u)'
        /\ Agrees(u) => Agrees(u)'
    BY <1>1, SparedBeliefs
  <2>2. CASE u # s
    <3>1. \A b \in Callers : At(b, u)' <=> At(b, u)
      BY <1>3, <1>4, <2>2
    <3> QED BY <1>1, <2>1, <3>1 DEF FollowInv, Followed
  <2>3. CASE u = s
    BY <1>1, <1>3, <1>5, <2>3 DEF Followed
  <2> QED BY <2>2, <2>3
<1> QED BY <1>6, <1>7 DEF FollowInv

\* Whose check an operation belongs to.
LEMMA WhoCalls ==
  ASSUME NEW a \in Callers, Stands(a), NEW k, NEW x, Op(a, k, x),
         k \notin {"clear", "clear_memory"}
  PROVE  \E t \in Sources : Proceeds(a, t) /\ (a = "monitor" => source[a] = t)
<1>1. /\ calls[a] # <<>>
      /\ ~Todo(a, One("clear", "all")) /\ ~Todo(a, One("clear_memory", "all"))
  BY HeadIs DEF Op
<1> QED BY <1>1 DEF Stands

LEMMA CheckFollows ==
  ASSUME AlertsTyped, FollowInv, TracksOwn', NEW a \in Callers, NEW s \in Sources,
         CheckStep(a, s)
  PROVE  FollowInv'
<1> USE DEF environment, monitors, manager
<1>1. PICK k \in {"check", "observe", "decide", "load", "settle", "reset", "forget"} :
        Op(a, k, s)
  BY DEF CheckStep, ForceCheck, LoadStates, Observe, Decide, Settle, ResetStates, Forget
<1>2. PICK t \in Sources : Proceeds(a, t) /\ (a = "monitor" => source[a] = t)
  BY <1>1, WhoCalls DEF FollowInv
<1>3. s = t
  BY <1>1, <1>2, OneCheck
<1>4. GoesOn(a, s)'
  <2>1. ForceCheck(a, s) => Proceeds(a, s)'
    BY <1>2, <1>3, ForceCheckGoesOn
  <2>2. LoadStates(a, s) => Proceeds(a, s)'
    BY <1>2, <1>3, LoadGoesOn
  <2>3. Observe(a, s) => GoesOn(a, s)'
    BY <1>2, <1>3, ObserveGoesOn
  <2>4. Decide(a, s) => GoesOn(a, s)'
    BY <1>2, <1>3, DecideGoesOn
  <2>5. Settle(a, s) => GoesOn(a, s)'
    BY <1>2, <1>3, SettleGoesOn
  <2>6. ResetStates(a, s) => Proceeds(a, s)'
    BY <1>2, <1>3, ResetGoesOn
  <2>7. Forget(a, s) => Proceeds(a, s)'
    BY <1>2, <1>3, ForgetGoesOn
  <2>8. Proceeds(a, s)' => GoesOn(a, s)'
    BY DEF GoesOn
  <2> QED BY <2>1, <2>2, <2>3, <2>4, <2>5, <2>6, <2>7, <2>8 DEF CheckStep
<1>5. source'[a] = source[a] \/ source'[a] = s
  BY DEF CheckStep, ForceCheck, StartCheck, LoadStates, Observe, Decide, Settle, ResetStates,
         Forget, AlertsTyped, MonitorsTyped
<1>6. /\ excused \subseteq excused'
      /\ \A u \in Sources \ {s} : SparesSource(u)
      /\ \A b \in Callers \ {a} : SparesActor(b) /\ source'[b] = source[b]
  BY CheckSpares
<1> QED BY <1>2, <1>3, <1>4, <1>5, <1>6, OwnStep

LEMMA ManagerFollows ==
  ASSUME AlertsTyped, FollowInv, TracksOwn', NEW a \in Callers, NEW n \in Names,
         ManagerStep(a, n)
  PROVE  FollowInv'
<1>1. PICK k \in {"trigger", "update", "resolve", "resolve_memory", "delete",
                  "delete_memory"} : Op(a, k, n)
  BY DEF ManagerStep, TriggerDisabled, TriggerSuppressed, TriggerFindsRow, TriggerFindsEvent,
         TriggerCreates, UpdateRow, ResolveRows, ResolveMemory, DeleteRow, DeleteMemory
<1>2. PICK t \in Sources : Proceeds(a, t) /\ (a = "monitor" => source[a] = t)
  BY <1>1, WhoCalls DEF FollowInv
<1>3. TracksOwn
  BY DEF FollowInv
<1>4. n \in NamesOf(t)
  <2>1. k = "trigger" => n \in NamesOf(t)
    BY <1>1, <1>2, OneTrigger, SourceNames
  <2>2. k = "update" => n \in NamesOf(t)
    BY <1>1, <1>2, OneRowUpdate, SourceNames
  <2>3. k \in {"resolve", "resolve_memory"} => n \in NamesOf(t)
    BY <1>1, <1>2, OneResolve, SourceNames DEF Settles
  <2>4. k \in {"delete", "delete_memory"} => n \in NamesOf(t)
    BY <1>1, <1>2, OneDelete, SourceNames
  <2> QED BY <2>1, <2>2, <2>3, <2>4
<1>5. GoesOn(a, t)'
  <2>1. Triggers(a, n) => GoesOn(a, t)'
    BY <1>2, TriggerGoesOn
  <2>2. UpdateRow(a, n) => GoesOn(a, t)'
    BY <1>2, UpdateGoesOn
  <2>3. ResolveRows(a, n) => GoesOn(a, t)'
    BY <1>2, <1>3, ResolveRowsGoesOn
  <2>4. ResolveMemory(a, n) => GoesOn(a, t)'
    BY <1>2, <1>3, ResolveMemoryGoesOn
  <2>5. DeleteRow(a, n) => GoesOn(a, t)'
    BY <1>2, <1>3, DeleteRowGoesOn
  <2>6. DeleteMemory(a, n) => GoesOn(a, t)'
    BY <1>2, <1>3, DeleteMemoryGoesOn
  <2> QED BY <2>1, <2>2, <2>3, <2>4, <2>5, <2>6 DEF ManagerStep, Triggers
<1>6. DeleteMemory(a, n) => n = "timeout" /\ event[a] # <<>>
  BY <1>2, <1>3, DeleteMemoryGoesOn
<1>7. /\ UNCHANGED <<belief, loaded, source>> /\ excused \subseteq excused'
      /\ \A m \in Names \ {n} : Spares(m)
      /\ \A b \in Callers \ {a} : SparesActor(b)
  BY <1>3, <1>6, ManagerSpares
<1>8. ASSUME NEW u \in Sources \ {t} PROVE SparesSource(u)
  <2>1. \A m \in NamesOf(u) : m \in Names /\ m # n
    BY <1>4, SourceNames
  <2> QED BY <1>7, <2>1 DEF SparesSource
<1> QED BY <1>2, <1>5, <1>7, <1>8, OwnStep

LEMMA RequestFollows ==
  ASSUME AlertsTyped, FollowInv, TracksOwn', NEW a \in Callers, ClearRows(a) \/ ClearMemory(a)
  PROVE  FollowInv'
<1> USE DEF environment, monitors, manager
<1>1. /\ ClearRows(a) => /\ Continue(a, One("clear_memory", "all"))
                         /\ Op(a, "clear", "all")
      /\ ClearMemory(a) => Continue(a, <<>>) /\ Op(a, "clear_memory", "all")
      /\ UNCHANGED <<belief, loaded, source, event>>
  BY DEF ClearRows, ClearMemory, One
<1>2. CallsTyped
  BY DEF AlertsTyped
<1>3. ASSUME NEW b \in Callers \ {a} PROVE SparesActor(b) /\ source'[b] = source[b]
  BY <1>1, <1>2, ContinueIs DEF SparesActor
<1>4. ASSUME NEW u \in Sources PROVE SparesSource(u)
  <2>1. \A m \in NamesOf(u) : excused \subseteq excused' /\ Spares(m)
    BY RequestSpares, SourceNames
  <2>2. NamesOf(u) # {}
    BY SourceNames
  <2> QED BY <1>1, <2>1, <2>2 DEF SparesSource
<1>5. CASE Todo(a, One("clear", "all")) \/ Todo(a, One("clear_memory", "all"))
  <2>1. calls'[a] = <<>> \/ calls'[a] = One("clear_memory", "all")
    BY <1>1, <1>2, <1>5, LeftIs
  <2>2. a = "request"
    <3>1. ASSUME NEW t \in Sources, Proceeds(a, t) PROVE FALSE
      BY <1>5, <3>1, WhoseOperation, ListsAbout, SourceNames
    <3>2. calls[a] # <<>>
      BY <1>1 DEF Op
    <3> QED BY <3>1, <3>2 DEF FollowInv, Stands
  <2>3. Stands(a)' /\ \A u \in Sources : ~At(a, u) /\ ~At(a, u)'
    <3>1. \A u \in Sources : ~At(a, u)
      BY <1>5, ListsAbout, SourceNames
    <3>2. One("clear_memory", "all")[Len(One("clear_memory", "all"))][2] = "all"
      BY DEF One
    <3> QED BY <2>1, <2>2, <3>1, <3>2, SourceNames DEF Stands, At, Todo
  <2>4. {a} \in SUBSET Callers
    OBVIOUS
  <2> QED BY <1>3, <1>4, <2>3, <2>4, SparingStep
<1>6. CASE ~Todo(a, One("clear", "all")) /\ ~Todo(a, One("clear_memory", "all"))
  <2>1. PICK t \in Sources : Proceeds(a, t) /\ (a = "monitor" => source[a] = t)
    BY <1>1, <1>6 DEF FollowInv, Stands, Op
  <2>2. GoesOn(a, t)'
    BY <2>1, ClearGoesOn DEF GoesOn
  <2>3. excused \subseteq excused'
    BY <1>4, <2>1 DEF SparesSource
  <2> QED BY <1>1, <1>3, <1>4, <2>1, <2>2, <2>3, OwnStep
<1> QED BY <1>5, <1>6

\* The two ways in which a check starts.
LEMMA WakeFollows ==
  ASSUME AlertsTyped, FollowInv, TracksOwn', NEW s \in Sources, MonitorWakes(s)
  PROVE  FollowInv'
<1> USE DEF environment, monitors, manager
<1> DEFINE a == "monitor"
<1>1. /\ a \in Callers /\ calls[a] = <<>> /\ calls' = [calls EXCEPT ![a] = CheckOps(s)]
      /\ source' = [source EXCEPT ![a] = s] /\ Callers \ {a} = {"request"}
      /\ UNCHANGED <<belief, loaded, memory, rows, found, event>>
      /\ excused' = IF \E b \in {"request"} : Busy(b, s) THEN excused \cup NamesOf(s)
                    ELSE excused
  BY DEF MonitorWakes, StartCheck, Callers
<1>2. calls'[a] = CheckOps(s) /\ source'[a] = s
  BY <1>1 DEF AlertsTyped, CallsTyped, MonitorsTyped
<1>3. \A u \in Sources : SparesSource(u)
  BY <1>1, SparedPlace
<1>4. ASSUME NEW b \in Callers \ {a}
      PROVE  SparesActor(b) /\ source'[b] = source[b] /\ (At(b, s) => Excused(s)')
  <2>1. SparesActor(b) /\ source'[b] = source[b]
    BY <1>1 DEF SparesActor, AlertsTyped, CallsTyped, MonitorsTyped
  <2>2. At(b, s) => Excused(s)'
    BY <1>1 DEF At, Busy, Excused
  <2> QED BY <2>1, <2>2
<1>5. Excused(s)' \/ Agrees(s)'
  <2>1. Excused(s) \/ Agrees(s) \/ At("request", s)
    BY <1>1 DEF FollowInv, Followed, At
  <2>2. (Excused(s) => Excused(s)') /\ (Agrees(s) => Agrees(s)')
    BY <1>3, SparedBeliefs DEF AlertsTyped, MonitorsTyped
  <2> QED BY <1>1, <1>4, <2>1, <2>2
<1>6. Proceeds(a, s)'
  <2>1. CASE s \in {"low", "error", "memory"}
    <3>1. calls'[a] = One("observe", s)
      BY <1>2, <2>1 DEF CheckOps, One
    <3>2. Checking(a, s)'
      BY <1>5, <2>1, <3>1 DEF Checking, Todo, Informed
    <3> QED BY <3>2 DEF Proceeds
  <2>2. CASE s \notin {"low", "error", "memory"}
    <3>1. calls'[a] = Two("load", s, "observe", s)
      BY <1>2, <2>2 DEF CheckOps, Two, Sources
    <3>2. Checking(a, s)'
      BY <1>5, <2>2, <3>1 DEF Checking, Todo
    <3> QED BY <3>2 DEF Proceeds
  <2> QED BY <2>1, <2>2
<1> HIDE DEF a
<1> QED BY <1>1, <1>2, <1>3, <1>4, <1>6, StartStep

LEMMA ForceFollows ==
  ASSUME AlertsTyped, FollowInv, TracksOwn', NEW s \in Sources, NEW clear \in BOOLEAN,
         PostForceCheck(s, clear)
  PROVE  FollowInv'
<1> USE DEF environment, monitors, manager
<1> DEFINE a == "request"
           first == IF clear THEN << <<"clear", "all">>, <<"reset", s>> >> ELSE <<>>
<1>1. /\ a \in Callers /\ calls[a] = <<>> /\ Callers \ {a} = {"monitor"} /\ a # "monitor"
      /\ calls' = [calls EXCEPT ![a] = first \o << <<"check", s>> >>]
      /\ UNCHANGED <<belief, loaded, memory, rows, found, event, source>>
      /\ excused' = IF Busy("monitor", s) THEN excused \cup NamesOf(s) ELSE excused
  BY DEF PostForceCheck, Callers
<1>2. calls'[a] = first \o One("check", s)
  BY <1>1 DEF AlertsTyped, CallsTyped, One
<1>3. \A u \in Sources : SparesSource(u)
  BY <1>1, SparedPlace
<1>4. ASSUME NEW b \in Callers \ {a}
      PROVE  SparesActor(b) /\ source'[b] = source[b] /\ (At(b, s) => Excused(s)')
  <2>1. SparesActor(b) /\ source'[b] = source[b]
    BY <1>1 DEF SparesActor, AlertsTyped, CallsTyped
  <2>2. ASSUME At("monitor", s) PROVE Excused(s)'
    <3>1. calls["monitor"] # <<>>
      BY <2>2 DEF At
    <3>2. PICK t \in Sources : Proceeds("monitor", t) /\ source["monitor"] = t
      BY <1>1, <3>1 DEF FollowInv, Stands
    <3>3. t = s
      BY <1>1, <2>2, <3>2, PlacesStayClear DEF PlacesAreClear
    <3> QED BY <1>1, <3>1, <3>2, <3>3 DEF Busy, Excused
  <2> QED BY <1>1, <2>1, <2>2
<1>5. Excused(s)' \/ Agrees(s)'
  <2>1. Excused(s) \/ Agrees(s) \/ At("monitor", s)
    BY <1>1 DEF FollowInv, Followed, At
  <2>2. (Excused(s) => Excused(s)') /\ (Agrees(s) => Agrees(s)')
    BY <1>3, SparedBeliefs DEF AlertsTyped, MonitorsTyped
  <2> QED BY <1>1, <1>4, <2>1, <2>2
<1>6. Proceeds(a, s)'
  <2>1. CASE clear
    <3>1. first = Two("clear", "all", "reset", s)
      BY <2>1 DEF Two
    <3>2. Two("clear", "all", "reset", s) \o One("check", s)
            = Three("clear", "all", "reset", s, "check", s)
      BY JoinTwo
    <3>3. calls'[a] = Three("clear", "all", "reset", s, "check", s)
      BY <1>2, <3>1, <3>2, Zenon
    <3>4. Preparing(a, s)'
      BY <1>5, <3>3 DEF Preparing, Todo
    <3> QED BY <3>4 DEF Proceeds
  <2>2. CASE ~clear
    <3>1. calls'[a] = <<>> \o One("check", s) /\ <<>> \o One("check", s) = One("check", s)
      BY <1>2, <2>2, JoinOne
    <3>2. calls'[a] = One("check", s)
      BY <3>1
    <3>3. Preparing(a, s)'
      BY <1>5, <3>2 DEF Preparing, Todo
    <3> QED BY <3>3 DEF Proceeds
  <2> QED BY <2>1, <2>2
<1> HIDE DEF a
<1> QED BY <1>1, <1>3, <1>4, <1>6, StartStep

LEMMA ElseFollows ==
  ASSUME AlertsTyped, FollowInv, TracksOwn',
         \/ \E s \in Sources : ConditionChanges(s)
         \/ \E n \in Scope : Acknowledge(n) \/ SaveConfig(n) \/ IntervalEnds(n)
         \/ PostClear \/ UNCHANGED alertVars
  PROVE  FollowInv'
<1> USE DEF environment, monitors, manager, actor
<1>1. CASE PostClear
  <2>1. /\ "request" \in Callers /\ calls["request"] = <<>>
        /\ calls' = [calls EXCEPT !["request"] = << <<"clear", "all">> >>]
        /\ UNCHANGED <<belief, loaded, memory, rows, found, event, source, excused>>
    BY <1>1 DEF PostClear, Callers
  <2>2. calls'["request"] = One("clear", "all")
    BY <2>1 DEF AlertsTyped, CallsTyped, One
  <2>3. \A u \in Sources : SparesSource(u)
    BY <2>1, SparedPlace
  <2>4. \A b \in Callers \ {"request"} : SparesActor(b) /\ source'[b] = source[b]
    BY <2>1 DEF SparesActor, AlertsTyped, CallsTyped
  <2>5. Stands("request")'
    BY <2>2 DEF Stands, Todo
  <2>6. \A u \in Sources : ~At("request", u) /\ ~At("request", u)'
    <3>1. One("clear", "all")[Len(One("clear", "all"))][2] = "all"
      BY DEF One
    <3> QED BY <2>1, <2>2, <3>1, SourceNames DEF At
  <2>7. {"request"} \in SUBSET Callers
    BY <2>1
  <2> QED BY <2>3, <2>4, <2>5, <2>6, <2>7, SparingStep
<1>2. CASE ~PostClear
  <2>1. UNCHANGED <<belief, loaded, calls, source, found, event>>
    BY <1>2 DEF ConditionChanges, Acknowledge, SaveConfig, IntervalEnds, alertVars
  <2>2. ASSUME NEW u \in Sources PROVE SparesSource(u)
    <3>1. CASE \E n \in Scope : Acknowledge(n)
      <4>1. \A m \in NamesOf(u) : excused \subseteq excused' /\ Spares(m)
        BY <3>1, RequestSpares, SourceNames
      <4>2. NamesOf(u) # {}
        BY SourceNames
      <4> QED BY <2>1, <4>1, <4>2 DEF SparesSource
    <3>2. CASE ~\E n \in Scope : Acknowledge(n)
      <4>1. UNCHANGED <<memory, rows, excused>>
        BY <1>2, <3>2 DEF ConditionChanges, SaveConfig, IntervalEnds, alertVars
      <4> QED BY <2>1, <4>1, SparedPlace
    <3> QED BY <3>1, <3>2
  <2>3. \A b \in Callers : SparesActor(b) /\ source'[b] = source[b]
    BY <2>1 DEF SparesActor
  <2>4. {} \in SUBSET Callers
    OBVIOUS
  <2> QED BY <2>2, <2>3, <2>4, SparingStep
<1> QED BY <1>1, <1>2

\* A master that starts remembers nothing, and has nothing in memory.
LEMMA FreshStart ==
  ASSUME calls = [a \in Callers |-> <<>>], belief = [s \in Sources |-> 0], loaded = {},
         memory = {}, event = [a \in Callers |-> <<>>]
  PROVE  FollowInv
<1>1. \A a \in Callers : Stands(a)
  BY DEF Stands
<1>2. ASSUME NEW s \in Sources PROVE Followed(s)
  <2>1. \A a \in Callers : ~At(a, s)
    BY DEF At
  <2>2. belief[s] = 0 /\ \A n \in NamesOf(s) : NotHeld(n)
    BY DEF NotHeld, Unresolved
  <2>3. Agrees(s)
    BY <2>2 DEF Agrees
  <2> QED BY <2>1, <2>3 DEF Followed, Callers
<1>3. TracksOwn
  <2>1. belief["timeout"] = 0
    BY DEF Sources
  <2> QED BY <2>1 DEF TracksOwn
<1> QED BY <1>1, <1>2, <1>3 DEF FollowInv

LEMMA FollowStep == AlertsTyped /\ FollowInv /\ [AlertsNext]_alertVars => FollowInv'
<1> SUFFICES ASSUME AlertsTyped, FollowInv, [AlertsNext]_alertVars PROVE FollowInv'
  OBVIOUS
<1>1. TracksOwn'
  BY TracksStep DEF FollowInv
<1>2. CASE MasterRestarts
  <2>1. /\ calls' = [a \in Callers |-> <<>>] /\ belief' = [s \in Sources |-> 0]
        /\ loaded' = {} /\ memory' = {} /\ event' = [a \in Callers |-> <<>>]
    BY <1>2 DEF MasterRestarts
  <2>2. \A a \in Callers : Stands(a)'
    BY <2>1 DEF Stands
  <2>3. ASSUME NEW s \in Sources PROVE Followed(s)'
    <3>1. \A a \in Callers : ~At(a, s)'
      BY <2>1 DEF At
    <3>2. /\ belief'[s] = 0 /\ s \notin loaded'
          /\ \A n \in NamesOf(s) : NotHeld(n)'
      BY <2>1 DEF NotHeld, Unresolved
    <3>3. Agrees(s)'
      BY <3>2 DEF Agrees
    <3> QED BY <3>1, <3>3 DEF Followed, Callers
  <2> QED BY <1>1, <2>2, <2>3 DEF FollowInv
<1>3. CASE \E a \in Callers, s \in Sources : CheckStep(a, s)
  BY <1>1, <1>3, CheckFollows
<1>4. CASE \E a \in Callers, n \in Names : ManagerStep(a, n)
  BY <1>1, <1>4, ManagerFollows
<1>5. CASE \E a \in Callers : ClearRows(a) \/ ClearMemory(a)
  BY <1>1, <1>5, RequestFollows
<1>6. CASE \E s \in Sources : MonitorWakes(s)
  BY <1>1, <1>6, WakeFollows
<1>7. CASE \E s \in Sources, clear \in BOOLEAN : PostForceCheck(s, clear)
  BY <1>1, <1>7, ForceFollows
<1>8. CASE \/ \E s \in Sources : ConditionChanges(s)
           \/ \E n \in Scope : Acknowledge(n) \/ SaveConfig(n) \/ IntervalEnds(n)
           \/ PostClear \/ UNCHANGED alertVars
  BY <1>1, <1>8, ElseFollows
<1> QED BY <1>2, <1>3, <1>4, <1>5, <1>6, <1>7, <1>8 DEF AlertsNext

\* Nobody is at a check that is quiet, so the monitor and the alerts agree.
LEMMA FollowIsEnough == FollowInv => AlertsFollowChecks
<1> SUFFICES ASSUME FollowInv, NEW s \in Sources, Quiet(s)
             PROVE  BadIsAlerted(s) /\ GoodIsResolved(s)
  BY DEF AlertsFollowChecks
<1>1. ~At("request", s)
  BY DEF Quiet, Busy, At, Callers
<1>2. ~At("monitor", s)
  <2>1. ASSUME At("monitor", s) PROVE FALSE
    <3>1. calls["monitor"] # <<>>
      BY <2>1 DEF At
    <3>2. PICK t \in Sources : Proceeds("monitor", t) /\ source["monitor"] = t
      BY <3>1 DEF FollowInv, Stands, Callers
    <3>3. t = s
      BY <2>1, <3>2, PlacesStayClear DEF PlacesAreClear, Callers
    <3> QED BY <3>1, <3>2, <3>3 DEF Quiet, Busy, Callers
  <2> QED BY <2>1
<1>3. CASE Excused(s)
  <2>1. NameOf(s, belief[s]) \in NamesOf(s)
    BY SourceNames DEF NameOf
  <2> QED BY <1>3, <2>1 DEF BadIsAlerted, GoodIsResolved, Excused
<1>4. CASE Agrees(s)
  <2>1. BadIsAlerted(s)
    BY <1>4 DEF Agrees, Believes, There, BadIsAlerted
  <2>2. GoodIsResolved(s)
    <3>1. ASSUME s # "memory", belief[s] = 0, s \in loaded, NEW n \in NamesOf(s), Active(n)
          PROVE  n \in excused
      <4>1. NotHeld(n) /\ NotStored(n)
        BY <1>4, <3>1 DEF Agrees, Believes
      <4> QED BY <3>1, <4>1 DEF NotHeld, NotStored, Stored, Active
    <3> QED BY <3>1 DEF GoodIsResolved
  <2> QED BY <2>1, <2>2
<1> QED BY <1>1, <1>2, <1>3, <1>4 DEF FollowInv, Followed

\* Once a source has been checked and nothing of that check is still under way, a monitor
\* that believes its condition is bad finds the alert active, and one that has loaded and
\* believes it is good finds none, whatever monitors, forced checks, operators and task
\* time-outs did to the manager between the steps of each other's checks (_evaluate_state
\* and clear_state of the monitors, against trigger, resolve and clear of the manager).
THEOREM MonitorsAndAlertsAgree == AlertsSpec => []AlertsFollowChecks
<1>1. AlertsInit => FollowInv
  BY FreshStart DEF AlertsInit
<1>2. AlertsInit => AlertsTyped
  BY InitTypes
<1>3. AlertsTyped /\ FollowInv /\ [AlertsNext]_alertVars => AlertsTyped' /\ FollowInv'
  BY AlertsTypedStep, FollowStep
<1>4. FollowInv => AlertsFollowChecks
  BY FollowIsEnough
<1> QED BY <1>1, <1>2, <1>3, <1>4, PTL DEF AlertsSpec

-----------------------------------------------------------------------------
(* Acknowledgements.                                                       *)

\* An update is the next operation of its thread, never a later one; the lock lets one
\* thread at a time be at one; and if its row is acknowledged, that was after the search.
SearchInv ==
  /\ \A a \in Callers : calls[a] # <<>> => Tail(calls[a]) \in Seq(Plain)
  /\ \A a, b \in Callers, n, m \in Names : Op(a, "update", n) /\ Op(b, "update", m) => a = b
  /\ \A a \in Callers, n \in DOMAIN rows : Op(a, "update", n) /\ rows[n] => n \in overtaken

\* Steps seen from the table: it loses rows at most, and somebody goes on to an operation
\* that is no update; or somebody has found an open row and goes on to its update.
TableShrinks ==
  /\ DOMAIN rows' \subseteq DOMAIN rows /\ \A n \in DOMAIN rows' : rows'[n] = rows[n]
  /\ overtaken' = overtaken

PlainStep ==
  /\ TableShrinks
  /\ \/ UNCHANGED calls
     \/ \E a \in Callers, p \in Seq(Plain) : calls' = [calls EXCEPT ![a] = p]

SearchStep ==
  /\ TableShrinks
  /\ \E a \in Callers, n \in Names :
       /\ LockFree(a) /\ InTable(n) /\ calls[a] # <<>>
       /\ calls' = [calls EXCEPT ![a] = << <<"update", n>> >> \o Tail(calls[a])]

LEMMA PlainAhead ==
  ASSUME NEW p \in Seq(Plain), p # <<>>
  PROVE  Tail(p) \in Seq(Plain) /\ \A n : Head(p) # <<"update", n>>
<1>1. Head(p) \in Plain /\ Tail(p) \in Seq(Plain)
  BY HeadTailProperties
<1> QED BY <1>1 DEF Plain

LEMMA ContinuePlain ==
  ASSUME CallsTyped, SearchInv, TableShrinks, NEW a \in Callers, calls[a] # <<>>,
         NEW more \in Seq(Plain), Continue(a, more)
  PROVE  PlainStep
<1>1. Tail(calls[a]) \in Seq(Plain)
  BY DEF SearchInv
<1>2. more \o Tail(calls[a]) \in Seq(Plain)
  BY <1>1, ConcatProperties
<1>3. calls' = [calls EXCEPT ![a] = more \o Tail(calls[a])]
  BY DEF Continue
<1> QED BY <1>2, <1>3 DEF PlainStep

LEMMA ContinueSearch ==
  ASSUME TableShrinks, NEW a \in Callers, calls[a] # <<>>, NEW n \in Names, LockFree(a),
         InTable(n), Continue(a, << <<"update", n>> >>)
  PROVE  SearchStep
<1>1. calls' = [calls EXCEPT ![a] = << <<"update", n>> >> \o Tail(calls[a])]
  BY DEF Continue
<1> QED BY <1>1 DEF SearchStep

LEMMA CheckIsPlain ==
  ASSUME AlertsTyped, SearchInv, NEW a \in Callers, NEW s \in Sources, CheckStep(a, s)
  PROVE  PlainStep
<1> USE DEF AlertsTyped
<1>c. ASSUME NEW more \in Seq(Plain), NEW kind, Op(a, kind, s), Continue(a, more),
             UNCHANGED <<rows, overtaken>>
      PROVE  PlainStep
  BY <1>c, ContinuePlain DEF Op, TableShrinks
<1>k. /\ {"resolve", "settle", "forget", "delete", "decide"} \subseteq Operations \ {"update"}
      /\ s \in Operands
  BY DEF Operations, Operands
<1>e. \A k \in {"resolve", "settle", "forget", "delete", "decide"} :
        <<k, s>> \in Plain /\ << <<k, s>> >> \in Seq(Plain)
  BY <1>k, PlainTypes
<1>f. belief[s] \in Nat /\ found[a] \in 0..2
  BY DEF MonitorsTyped, CallsTyped
<1>0. <<>> \in Seq(Plain)
  BY PlainTypes
<1>2p. << <<"resolve", s>>, <<"settle", s>> >> \in Seq(Plain)
       /\ << <<"resolve", s>>, <<"forget", s>> >> \in Seq(Plain)
  <2>1. <<"resolve", s>> \in Plain /\ <<"settle", s>> \in Plain /\ <<"forget", s>> \in Plain
    BY <1>e
  <2> QED BY <2>1
<1>1. CASE ForceCheck(a, s)
  BY <1>1, <1>c, BothPlain DEF ForceCheck, StartCheck, manager
<1>2. CASE LoadStates(a, s)
  <2>1. PICK v \in IF Recalled(s) = {} THEN {belief[s]} ELSE Recalled(s) :
          Continue(a, IF s \notin {"low", "error"} THEN <<>>
                      ELSE IF v # 0 /\ found[a] = 0 THEN << <<"resolve", s>>, <<"settle", s>> >>
                           ELSE << <<"settle", s>> >>)
    BY <1>2 DEF LoadStates
  <2>2. (IF s \notin {"low", "error"} THEN <<>>
         ELSE IF v # 0 /\ found[a] = 0 THEN << <<"resolve", s>>, <<"settle", s>> >>
              ELSE << <<"settle", s>> >>) \in Seq(Plain)
    BY <1>0, <1>2p, <1>e
  <2> QED BY <1>2, <1>c, <2>1, <2>2 DEF LoadStates, manager
<1>3. CASE Observe(a, s)
  <2>1. calls[a] # <<>> /\ Tail(calls[a]) \in Seq(Plain)
    BY <1>3 DEF Observe, Op, SearchInv
  <2>2. Readable(s) \in BOOLEAN
    BY DEF Readable, RedisUp, DatabaseUp
  <2>3. When(Readable(s), << <<"decide", s>> >>) \in Seq(Plain)
    BY <1>e, <2>2, BothPlain
  <2>4. When(Readable(s), << <<"decide", s>> >>) \o Tail(calls[a]) \in Seq(Plain)
    BY <2>1, <2>3, ConcatProperties
  <2>5. calls' = [calls EXCEPT ![a] = When(Readable(s), << <<"decide", s>> >>) \o Tail(calls[a])]
        /\ UNCHANGED <<rows, overtaken>>
    BY <1>3 DEF Observe, manager
  <2> QED BY <2>4, <2>5 DEF PlainStep, TableShrinks
<1>4. CASE Decide(a, s)
  <2>1. Decision(s, belief[s], found[a]) \in Seq(Plain)
    BY <1>f, DecisionPlain
  <2> QED BY <1>4, <1>c, <2>1 DEF Decide, manager
<1>5. CASE Settle(a, s)
  BY <1>0, <1>5, <1>c DEF Settle, manager
<1>6. CASE ResetStates(a, s)
  <2>1. (IF belief[s] = 0 THEN <<>> ELSE << <<"delete", s>> >>) \o << <<"forget", s>> >>
          \in Seq(Plain)
    BY <1>0, <1>e, ConcatProperties
  <2>2. ResetOps(s) \in Seq(Plain)
    BY <1>0, <1>2p, <1>e, <2>1 DEF ResetOps, Sources
  <2> QED BY <1>6, <1>c, <2>2 DEF ResetStates, manager
<1>7. CASE Forget(a, s)
  BY <1>0, <1>7, <1>c DEF Forget, manager
<1> QED BY <1>1, <1>2, <1>3, <1>4, <1>5, <1>6, <1>7 DEF CheckStep

LEMMA ManagerIsPlain ==
  ASSUME AlertsTyped, SearchInv, NEW a \in Callers, NEW n \in Names, ManagerStep(a, n),
         ~UpdateRow(a, n)
  PROVE  PlainStep \/ SearchStep
<1> USE DEF AlertsTyped
<1>c. ASSUME NEW more \in Seq(Plain), NEW kind, Op(a, kind, n), Continue(a, more), TableShrinks
      PROVE  PlainStep
  BY <1>c, ContinuePlain DEF Op
<1>k. /\ {"resolve_memory", "delete_memory"} \subseteq Operations \ {"update"}
      /\ n \in Operands
  BY DEF Operations, Operands
<1>e. /\ << <<"resolve_memory", n>> >> \in Seq(Plain)
      /\ << <<"delete_memory", n>> >> \in Seq(Plain) /\ <<>> \in Seq(Plain)
  BY <1>k, PlainTypes
<1>u. (UNCHANGED <<rows, overtaken>>) => TableShrinks
  BY DEF TableShrinks
<1>w. (rows' = Without(n) \/ rows' = rows) /\ overtaken' = overtaken => TableShrinks
  BY DEF TableShrinks, Without
<1>1. CASE TriggerDisabled(a, n)
  BY <1>1, <1>c, <1>e, <1>u DEF TriggerDisabled, manager
<1>2. CASE TriggerSuppressed(a, n)
  <2>1. Op(a, "trigger", n) /\ LockFree(a) /\ TableShrinks /\ calls[a] # <<>>
    BY <1>2, <1>u DEF TriggerSuppressed, manager, Op
  <2>2. CASE InTable(n)
    <3>1. Continue(a, << <<"update", n>> >>)
      BY <1>2, <2>2 DEF TriggerSuppressed
    <3> QED BY <2>1, <2>2, <3>1, ContinueSearch
  <2>3. CASE ~InTable(n)
    <3>1. Continue(a, <<>>)
      BY <1>2, <2>3 DEF TriggerSuppressed
    <3> QED BY <1>c, <1>e, <2>1, <3>1
  <2> QED BY <2>2, <2>3
<1>3. CASE TriggerFindsRow(a, n)
  <2>1. LockFree(a) /\ InTable(n) /\ TableShrinks /\ calls[a] # <<>>
        /\ Continue(a, << <<"update", n>> >>)
    BY <1>3, <1>u DEF TriggerFindsRow, Op
  <2> QED BY <2>1, ContinueSearch
<1>4. CASE TriggerFindsEvent(a, n)
  BY <1>4, <1>c, <1>e, <1>u DEF TriggerFindsEvent
<1>5. CASE TriggerCreates(a, n)
  BY <1>5, <1>c, <1>e, <1>u DEF TriggerCreates
<1>6. CASE ResolveRows(a, n)
  BY <1>6, <1>c, <1>e, <1>w DEF ResolveRows
<1>7. CASE ResolveMemory(a, n)
  BY <1>7, <1>c, <1>e, <1>u DEF ResolveMemory
<1>8. CASE DeleteRow(a, n)
  BY <1>8, <1>c, <1>e, <1>w DEF DeleteRow
<1>9. CASE DeleteMemory(a, n)
  BY <1>9, <1>c, <1>e, <1>u DEF DeleteMemory
<1> QED BY <1>1, <1>2, <1>3, <1>4, <1>5, <1>6, <1>7, <1>8, <1>9 DEF ManagerStep

LEMMA StepKinds ==
  ASSUME AlertsTyped, SearchInv, [AlertsNext]_alertVars
  PROVE  \/ PlainStep \/ SearchStep \/ MasterRestarts
         \/ \E n \in Names : Acknowledge(n) /\ DatabaseUp
         \/ \E a \in Callers, n \in Names : UpdateRow(a, n)
<1>t. (UNCHANGED <<rows, overtaken>>) => TableShrinks
  BY DEF TableShrinks
<1>u. (UNCHANGED <<rows, overtaken, calls>>) => PlainStep
  BY <1>t DEF PlainStep
<1>1. ASSUME NEW s \in Sources, MonitorWakes(s) PROVE PlainStep
  <2>1. CheckOps(s) \in Seq(Plain) /\ "monitor" \in Callers
    BY BothPlain DEF Callers
  <2>2. calls' = [calls EXCEPT !["monitor"] = CheckOps(s)] /\ UNCHANGED <<rows, overtaken>>
    BY <1>1 DEF MonitorWakes, StartCheck, manager
  <2> QED BY <1>t, <2>1, <2>2 DEF PlainStep
<1>2. ASSUME NEW s \in Sources, ConditionChanges(s) PROVE PlainStep
  BY <1>2, <1>u DEF ConditionChanges, manager, actor
<1>3. ASSUME NEW a \in Callers, ClearRows(a) \/ ClearMemory(a) PROVE PlainStep
  <2>1. /\ calls[a] # <<>> /\ TableShrinks
        /\ Continue(a, <<>>) \/ Continue(a, << <<"clear_memory", "all">> >>)
    BY <1>3 DEF ClearRows, ClearMemory, Op, TableShrinks
  <2>2. << <<"clear_memory", "all">> >> \in Seq(Plain) /\ <<>> \in Seq(Plain)
    <3>1. "clear_memory" \in Operations \ {"update"} /\ "all" \in Operands
      BY DEF Operations, Operands
    <3> QED BY <3>1, PlainTypes
  <2> QED BY <2>1, <2>2, ContinuePlain DEF AlertsTyped
<1>4. ASSUME NEW n \in Scope, Acknowledge(n)
      PROVE  PlainStep \/ \E m \in Names : Acknowledge(m) /\ DatabaseUp
  <2>1. n \in Names
    BY AlertsParameters DEF AlertsTyped, WorldTyped, Scope, Names
  <2>2. CASE DatabaseUp
    BY <1>4, <2>1, <2>2
  <2>3. CASE ~DatabaseUp
    BY <1>4, <1>u, <2>3 DEF Acknowledge, actor
  <2> QED BY <2>2, <2>3
<1>5. ASSUME NEW n \in Scope, SaveConfig(n) \/ IntervalEnds(n) PROVE PlainStep
  BY <1>5, <1>u DEF SaveConfig, IntervalEnds, actor
<1>6. CASE PostClear
  <2>1. << <<"clear", "all">> >> \in Seq(Plain) /\ "request" \in Callers
    <3>1. "clear" \in Operations \ {"update"} /\ "all" \in Operands
      BY DEF Operations, Operands
    <3> QED BY <3>1, PlainTypes DEF Callers
  <2>2. calls' = [calls EXCEPT !["request"] = << <<"clear", "all">> >>]
        /\ UNCHANGED <<rows, overtaken>>
    BY <1>6 DEF PostClear, manager
  <2> QED BY <1>t, <2>1, <2>2 DEF PlainStep
<1>7. ASSUME NEW s \in Sources, NEW clear \in BOOLEAN, PostForceCheck(s, clear) PROVE PlainStep
  <2> DEFINE ops == (IF clear THEN << <<"clear", "all">>, <<"reset", s>> >> ELSE <<>>)
                      \o << <<"check", s>> >>
  <2>1. <<"clear", "all">> \in Plain /\ <<"reset", s>> \in Plain /\ <<"check", s>> \in Plain
    <3>1. /\ {"clear", "reset", "check"} \subseteq Operations \ {"update"}
          /\ "all" \in Operands /\ s \in Operands
      BY DEF Operations, Operands
    <3> QED BY <3>1, PlainTypes
  <2>2. /\ << <<"clear", "all">>, <<"reset", s>> >> \in Seq(Plain)
        /\ << <<"check", s>> >> \in Seq(Plain) /\ <<>> \in Seq(Plain)
    BY <2>1
  <2>3. ops \in Seq(Plain)
    BY <2>2, ConcatProperties
  <2>4. calls' = [calls EXCEPT !["request"] = ops] /\ UNCHANGED <<rows, overtaken>>
    BY <1>7 DEF PostForceCheck, manager
  <2> HIDE DEF ops
  <2> QED BY <1>t, <2>3, <2>4 DEF PlainStep, Callers
<1>8. CASE UNCHANGED alertVars
  BY <1>8, <1>u DEF alertVars, manager, actor
<1>9. ASSUME NEW a \in Callers, NEW s \in Sources, CheckStep(a, s) PROVE PlainStep
  BY <1>9, CheckIsPlain
<1>10. ASSUME NEW a \in Callers, NEW n \in Names, ManagerStep(a, n)
       PROVE  PlainStep \/ SearchStep \/ UpdateRow(a, n)
  BY <1>10, ManagerIsPlain
<1> QED BY <1>1, <1>2, <1>3, <1>4, <1>5, <1>6, <1>7, <1>8, <1>9, <1>10 DEF AlertsNext

\* What a step of each kind does to the searches and to acknowledged rows.
AckKept == \A n \in DOMAIN rows \cap DOMAIN rows' : rows[n] /\ ~rows'[n] => n \in overtaken

LEMMA PlainKeeps == ASSUME CallsTyped, SearchInv, PlainStep PROVE SearchInv' /\ AckKept
<1>1. DOMAIN rows' \subseteq DOMAIN rows /\ (\A n \in DOMAIN rows' : rows'[n] = rows[n])
      /\ overtaken' = overtaken
  BY DEF PlainStep, TableShrinks
<1>2. ASSUME NEW b \in Callers, calls'[b] # calls[b], calls'[b] # <<>>
      PROVE  Tail(calls'[b]) \in Seq(Plain) /\ \A n : ~Op(b, "update", n)'
  <2>1. PICK a \in Callers, p \in Seq(Plain) : calls' = [calls EXCEPT ![a] = p]
    BY <1>2 DEF PlainStep
  <2>2. calls'[b] = p
    BY <1>2, <2>1 DEF CallsTyped
  <2>3. Tail(p) \in Seq(Plain) /\ \A n : Head(p) # <<"update", n>>
    BY <1>2, <2>2, PlainAhead
  <2> QED BY <2>2, <2>3 DEF Op
<1>3. ASSUME NEW b \in Callers, NEW n, Op(b, "update", n)'
      PROVE  Op(b, "update", n)
  BY <1>2, <1>3 DEF Op
<1>4. \A b \in Callers : calls'[b] # <<>> => Tail(calls'[b]) \in Seq(Plain)
  BY <1>2 DEF SearchInv
<1>5. \A a, b \in Callers, n, m \in Names : Op(a, "update", n)' /\ Op(b, "update", m)' => a = b
  BY <1>3 DEF SearchInv
<1>6. \A a \in Callers, n \in DOMAIN rows' : Op(a, "update", n)' /\ rows'[n] => n \in overtaken'
  BY <1>1, <1>3 DEF SearchInv
<1>7. AckKept
  BY <1>1 DEF AckKept
<1> QED BY <1>4, <1>5, <1>6, <1>7 DEF SearchInv

LEMMA SearchKeeps ==
  ASSUME AlertsTyped, SearchInv, SearchStep PROVE SearchInv' /\ AckKept
<1>1. DOMAIN rows' \subseteq DOMAIN rows /\ (\A n \in DOMAIN rows' : rows'[n] = rows[n])
      /\ overtaken' = overtaken
  BY DEF SearchStep, TableShrinks
<1>2. PICK a \in Callers, n \in Names :
        /\ LockFree(a) /\ InTable(n) /\ calls[a] # <<>>
        /\ calls' = [calls EXCEPT ![a] = << <<"update", n>> >> \o Tail(calls[a])]
  BY DEF SearchStep
<1>3. calls[a] \in Seq(Calls) /\ Tail(calls[a]) \in Seq(Plain)
  BY <1>2 DEF AlertsTyped, CallsTyped, SearchInv
<1>4. /\ Head(<< <<"update", n>> >> \o Tail(calls[a])) = <<"update", n>>
      /\ Tail(<< <<"update", n>> >> \o Tail(calls[a])) = Tail(calls[a])
  BY <1>3
<1>5. calls'[a] = << <<"update", n>> >> \o Tail(calls[a])
      /\ \A b \in Callers \ {a} : calls'[b] = calls[b]
  BY <1>2 DEF AlertsTyped, CallsTyped
<1>6. ASSUME NEW b \in Callers, NEW m \in Names, Op(b, "update", m)'
      PROVE  b = a /\ m = n
  <2>1. b = a
    BY <1>2, <1>5, <1>6 DEF LockFree, Op
  <2>2. Head(calls'[a]) = <<"update", m>> /\ Head(calls'[a]) = <<"update", n>>
    BY <1>4, <1>5, <1>6, <2>1 DEF Op
  <2> QED BY <2>1, <2>2
<1>7. \A b \in Callers : calls'[b] # <<>> => Tail(calls'[b]) \in Seq(Plain)
  BY <1>3, <1>4, <1>5 DEF SearchInv
<1>8. \A b, c \in Callers, k, m \in Names : Op(b, "update", k)' /\ Op(c, "update", m)' => b = c
  BY <1>6
<1>9. ASSUME NEW b \in Callers, NEW m \in DOMAIN rows', Op(b, "update", m)', rows'[m]
      PROVE  FALSE
  <2>1. m \in Names
    BY <1>1 DEF AlertsTyped, TableTyped
  <2>2. m = n
    BY <1>6, <1>9, <2>1
  <2> QED BY <1>1, <1>2, <1>9, <2>2 DEF InTable
<1>10. AckKept
  BY <1>1 DEF AckKept
<1> QED BY <1>7, <1>8, <1>9, <1>10 DEF SearchInv

LEMMA UpdateKeeps ==
  ASSUME AlertsTyped, SearchInv, NEW a \in Callers, NEW n \in Names, UpdateRow(a, n)
  PROVE  SearchInv' /\ AckKept
<1>1. Op(a, "update", n) /\ calls[a] # <<>> /\ Continue(a, <<>>)
  BY DEF UpdateRow, Op
<1>2. Tail(calls[a]) \in Seq(Plain) /\ <<>> \o Tail(calls[a]) = Tail(calls[a])
  BY <1>1, ConcatEmptySeq DEF SearchInv
<1>3. calls' = [calls EXCEPT ![a] = Tail(calls[a])]
  BY <1>1, <1>2 DEF Continue
<1>4. calls'[a] = Tail(calls[a]) /\ \A b \in Callers \ {a} : calls'[b] = calls[b]
  BY <1>3 DEF AlertsTyped, CallsTyped
<1>5. ASSUME NEW b \in Callers, calls'[b] # <<>> PROVE Tail(calls'[b]) \in Seq(Plain)
  <2>1. CASE b = a
    BY <1>2, <1>4, <1>5, <2>1, PlainAhead
  <2>2. CASE b # a
    BY <1>4, <1>5, <2>2 DEF SearchInv
  <2> QED BY <2>1, <2>2
<1>6. ASSUME NEW b \in Callers, NEW m \in Names, Op(b, "update", m)' PROVE FALSE
  <2>1. CASE b = a
    BY <1>2, <1>4, <1>6, <2>1, PlainAhead DEF Op
  <2>2. CASE b # a
    BY <1>1, <1>4, <1>6, <2>2 DEF Op, SearchInv
  <2> QED BY <2>1, <2>2
<1>7. DOMAIN rows' = DOMAIN rows /\ DOMAIN rows \subseteq Names
  BY DEF UpdateRow, AlertsTyped, TableTyped
<1>8. AckKept
  <2> SUFFICES ASSUME NEW m \in DOMAIN rows, rows[m], ~rows'[m] PROVE m \in overtaken
    BY DEF AckKept
  <2>1. m = n
    BY DEF UpdateRow, AlertsTyped, TableTyped
  <2> QED BY <1>1, <2>1 DEF SearchInv
<1>9. \A b \in Callers, m \in DOMAIN rows' : ~Op(b, "update", m)'
  BY <1>6, <1>7
<1> QED BY <1>5, <1>6, <1>8, <1>9 DEF SearchInv

LEMMA AcknowledgeKeeps ==
  ASSUME AlertsTyped, SearchInv, NEW n \in Names, Acknowledge(n), DatabaseUp
  PROVE  SearchInv' /\ AckKept
<1>1. /\ n \in DOMAIN rows /\ rows' = [rows EXCEPT ![n] = TRUE] /\ calls' = calls
      /\ overtaken' = IF \E a \in Callers : Op(a, "update", n) THEN overtaken \cup {n}
                      ELSE overtaken
  BY DEF Acknowledge, actor
<1>2. \A a \in Callers : \A m : Op(a, "update", m)' <=> Op(a, "update", m)
  BY <1>1 DEF Op
<1>3. DOMAIN rows' = DOMAIN rows /\ rows'[n] = TRUE
      /\ \A m \in DOMAIN rows \ {n} : rows'[m] = rows[m]
  BY <1>1 DEF AlertsTyped, TableTyped
<1>4. ASSUME NEW a \in Callers, NEW m \in DOMAIN rows', Op(a, "update", m)', rows'[m]
      PROVE  m \in overtaken'
  <2>1. CASE m = n
    BY <1>1, <1>2, <1>4, <2>1
  <2>2. CASE m # n
    BY <1>1, <1>2, <1>3, <1>4, <2>2 DEF SearchInv
  <2> QED BY <2>1, <2>2
<1>5. AckKept
  BY <1>3 DEF AckKept
<1> QED BY <1>1, <1>2, <1>4, <1>5 DEF SearchInv

LEMMA SearchInvStep ==
  AlertsTyped /\ SearchInv /\ [AlertsNext]_alertVars => SearchInv' /\ AckKept
<1> SUFFICES ASSUME AlertsTyped, SearchInv, [AlertsNext]_alertVars PROVE SearchInv' /\ AckKept
  OBVIOUS
<1>1. CASE MasterRestarts
  <2>1. calls' = [a \in Callers |-> <<>>] /\ rows' = rows
    BY <1>1 DEF MasterRestarts
  <2>2. \A a \in Callers : \A n : calls'[a] = <<>> /\ ~Op(a, "update", n)'
    BY <2>1 DEF Op
  <2> QED BY <2>1, <2>2 DEF SearchInv, AckKept
<1>2. CASE PlainStep
  BY <1>2, PlainKeeps DEF AlertsTyped
<1>3. CASE SearchStep
  BY <1>3, SearchKeeps
<1>4. CASE \E n \in Names : Acknowledge(n) /\ DatabaseUp
  BY <1>4, AcknowledgeKeeps
<1>5. CASE \E a \in Callers, n \in Names : UpdateRow(a, n)
  BY <1>5, UpdateKeeps
<1> QED BY <1>1, <1>2, <1>3, <1>4, <1>5, StepKinds

\* An acknowledged row is open again only when it was acknowledged while a trigger was
\* between its search for open rows and its write: the search (find_active_event) never
\* returns an acknowledged row, the lock lets no second trigger write what it read before
\* the first one's write, and nothing else of monitors, requests or a restart opens a row.
THEOREM AcknowledgementsStay == AlertsSpec => AcknowledgedStays
<1>1. AlertsInit => AlertsTyped /\ SearchInv
  <2>1. AlertsInit => SearchInv
    BY DEF AlertsInit, SearchInv, Op
  <2> QED BY <2>1, InitTypes
<1>2. AlertsTyped /\ SearchInv /\ [AlertsNext]_alertVars => AlertsTyped' /\ SearchInv'
  BY AlertsTypedStep, SearchInvStep
<1>3. AlertsTyped /\ SearchInv /\ [AlertsNext]_alertVars => [AckKept]_alertVars
  BY SearchInvStep
<1> QED BY <1>1, <1>2, <1>3, PTL DEF AlertsSpec, AcknowledgedStays, AckKept

=============================================================================

------------------------------- MODULE Alerts -------------------------------
(***************************************************************************)
(* The alert manager with its events in memory and in MySQL, the monitors  *)
(* that trigger and resolve alerts, each from its own memory of what it    *)
(* saw last, and the requests of the dashboard that acknowledge, delete,   *)
(* clear and force checks while a monitor thread is at work.               *)
(*                                                                         *)
(* A source is one check of a monitor, for one model, platform, account or *)
(* task: queue, redis (QueueMonitor), timeout, rate (TaskMonitor), low,    *)
(* error (AccountMonitor), memory, database (SystemMonitor).  Its          *)
(* condition is what the check would find: 0 is normal.  A check is a      *)
(* sequence of operations; each is one call to the manager, MySQL or Redis.*)
(*                                                                         *)
(* The INSERT of a new event always fails (13 placeholders, 10 values) and *)
(* the error is logged: the table holds rows of earlier versions only,     *)
(* here at most one of each name.                                          *)
(***************************************************************************)
EXTENDS Naturals, Sequences, FiniteSets

CONSTANTS
  Scenarios,    (* sets of sources whose conditions change together        *)
  Old,          (* alternatives for the rows that are in the table         *)
  MaxEvents,    (* _max_events                                             *)
  MaxIssued,    (* bound of the model: events created                      *)
  MaxPosts,     (* bound of the model: requests that change something      *)
  MaxRestarts   (* bound of the model: restarts of the master              *)

Sources == {"queue", "redis", "low", "error", "timeout", "rate", "memory", "database"}
NamesOf(s) == IF s = "queue" THEN {"warning", "critical"} ELSE {s}
Names == UNION {NamesOf(s) : s \in Sources}

ASSUME AlertsAssumption ==
  /\ Scenarios \subseteq SUBSET Sources
  /\ Old \subseteq SUBSET Names
  /\ MaxEvents \in Nat \ {0}
  /\ {MaxIssued, MaxPosts, MaxRestarts} \subseteq Nat

VARIABLES
  watched,    (* the sources whose conditions change                       *)
  condition,  (* what each check would find                                *)
  belief,     (* each monitor's memory of what it found last; of a timed-out *)
              (* task: 1 + the id of its event                             *)
  loaded,     (* checks that have restored their memory from the table     *)
  memory,     (* _events, in the order of their ids                        *)
  rows,       (* alert_events: whether each row is acknowledged            *)
  recent,     (* names within their suppression interval                   *)
  disabled,   (* names whose configuration is disabled                     *)
  issued,     (* events created so far                                     *)
  calls,      (* each actor: the operations ahead of it                    *)
  source,     (* the source it checks                                      *)
  found,      (* the condition it found                                    *)
  event,      (* the event that trigger returned, if any                   *)
  requests,   (* requests so far                                           *)
  restarts,   (* restarts so far                                           *)
  excused,    (* history: names whose alert was suppressed, or removed or  *)
              (* kept without their monitor knowing                        *)
  overtaken   (* history: names whose row was acknowledged since the       *)
              (* update ahead read it                                      *)

environment == <<watched, condition, requests, restarts>>
monitors == <<belief, loaded>>
manager == <<memory, rows, recent, disabled, issued>>
actor == <<calls, source, found, event>>
alertVars == <<environment, monitors, manager, actor, excused, overtaken>>

Callers == {"monitor", "request"}
Values(s) == IF s \in {"queue", "low", "error", "timeout", "rate"} THEN 0..2 ELSE 0..1
DatabaseUp == condition["database"] = 0
RedisUp == condition["redis"] = 0

\* The names that are triggered with suppress_seconds.
Suppressible == {"redis", "rate", "memory", "database"}

Scope == UNION {NamesOf(s) : s \in watched}

Unresolved(n) == {e \in memory : e.name = n /\ ~e.resolved}
Active(n) == Unresolved(n) # {} \/ (n \in DOMAIN rows /\ ~rows[n])

AlertsInit ==
  /\ watched \in Scenarios
  /\ condition = [s \in Sources |-> 0]
  /\ belief = [s \in Sources |-> 0]
  /\ loaded = {}
  /\ memory = {}
  /\ rows \in {[n \in old \cap Scope |-> FALSE] : old \in Old}
  /\ recent = {}
  /\ disabled = {}
  /\ issued = 0
  /\ calls = [a \in Callers |-> <<>>]
  /\ source = [a \in Callers |-> "none"]
  /\ found = [a \in Callers |-> 0]
  /\ event = [a \in Callers |-> <<>>]
  /\ requests \in 0..MaxPosts
  /\ restarts \in 0..MaxRestarts
  /\ excused = {}
  /\ overtaken = {}

-----------------------------------------------------------------------------
(* The operations of a check.                                              *)

Op(a, kind, n) == calls[a] # <<>> /\ Head(calls[a]) = <<kind, n>>

\* The lock of the manager is held from the search for a row to its update.
LockFree(a) == \A b \in Callers \ {a}, n \in Names : ~Op(b, "update", n)

\* The operation ahead is done, and more may come in its place; with the last one
\* the check is over and its local value dead.
Continue(a, more) ==
  /\ calls' = [calls EXCEPT ![a] = more \o Tail(@)]
  /\ found' = [found EXCEPT ![a] = IF more \o Tail(calls[a]) = <<>> THEN 0 ELSE @]

\* What the unacknowledged rows of a source say it found before a restart; the
\* row of a name has the id 0.
FromRows(s) ==
  IF s = "queue"
  THEN {v \in 1..2 : LET n == IF v = 2 THEN "critical" ELSE "warning"
                     IN  n \in DOMAIN rows /\ ~rows[n]}
  ELSE {v \in {1} : s \in DOMAIN rows /\ ~rows[s]}

Tracked(s) == IF s = "timeout" /\ belief[s] # 0 THEN <<belief[s] - 1>> ELSE <<>>

Trigger(n) == << <<"trigger", n>> >>
Resolve(n) == << <<"resolve", n>> >>
When(test, ops) == IF test THEN ops ELSE <<>>

\* Fault: a queue that is normal again keeps its critical alert.
LengthDecisionKept(old, new) ==
  CASE new = old               -> <<>>
    [] new # old /\ new = 2    -> Resolve("warning") \o Trigger("critical")
    [] new # old /\ new = 1    -> When(old = 2, Resolve("critical")) \o Trigger("warning")
    [] new # old /\ new = 0    -> Resolve("warning")

\* _evaluate_length: only a change has consequences.
LengthDecision(old, new) ==
  CASE new = old               -> <<>>
    [] new # old /\ new = 2    -> Resolve("warning") \o Trigger("critical")
    [] new # old /\ new = 1    -> When(old = 2, Resolve("critical")) \o Trigger("warning")
    [] new # old /\ new = 0    -> Resolve("warning") \o Resolve("critical")

Settling(s) == << <<"settle", s>> >>
Recovered(old, new) == new = 0 /\ old # 0

\* Redis, and likewise the database.
HealthDecision(s, old, new) ==
  When(new = 1, Trigger(s)) \o When(Recovered(old, new), Resolve(s) \o Settling(s))

\* Account checks load their memory in the middle.
AccountDecision(s, old, new) == When(new \notin {0, old}, Trigger(s)) \o << <<"load", s>> >>

\* A running task (1) that is past its limit (2) is triggered in every check; its
\* first event is remembered, and deleted when the task does not run any more.
TimeoutDecision(old, new) ==
  When(new = 2, Trigger("timeout")) \o When(new = 2 /\ old = 0, Settling("timeout"))
    \o When(Recovered(old, new), << <<"delete", "timeout">> >>)

RateDecision(old, new) ==
  When(new = 1, Trigger("rate")) \o When(Recovered(old, new), Resolve("rate"))

MemoryDecision(new) == IF new = 1 THEN Trigger("memory") ELSE Resolve("memory")

\* What a check decides to do.
Decision(s, old, new) ==
  CASE s = "queue"                 -> LengthDecision(old, new)
    [] s \in {"redis", "database"} -> HealthDecision(s, old, new)
    [] s \in {"low", "error"}      -> AccountDecision(s, old, new)
    [] s = "timeout"               -> TimeoutDecision(old, new)
    [] s = "rate"                  -> RateDecision(old, new)
    [] s = "memory"                -> MemoryDecision(new)

\* What the monitor remembers before it calls the manager.
Remembered(s, old, new) ==
  CASE s = "queue" -> new
    [] s \in {"redis", "database"} -> IF new = 1 THEN 1 ELSE old
    [] s \in {"low", "error", "memory"} -> old
    [] s = "timeout" -> IF new = 0 THEN 0 ELSE old
    [] s = "rate" -> IF new = 2 THEN old ELSE new

CheckOps(s) ==
  CASE s \in {"low", "error", "memory"} -> << <<"observe", s>> >>
    [] s \in {"queue", "redis", "timeout", "rate", "database"} ->
         << <<"load", s>>, <<"observe", s>> >>

Busy(b, s) == calls[b] # <<>> /\ (b = "request" \/ source[b] = s)

\* Two checks of one source at once may undo each other's work.
StartCheck(a, s) ==
  /\ source' = [source EXCEPT ![a] = s]
  /\ excused' = IF \E b \in Callers \ {a} : Busy(b, s) THEN excused \cup NamesOf(s) ELSE excused
  /\ UNCHANGED <<environment, monitors, manager, event, overtaken>>

MonitorWakes(s) ==
  /\ calls["monitor"] = <<>>
  /\ s \in watched
  /\ calls' = [calls EXCEPT !["monitor"] = CheckOps(s)]
  /\ UNCHANGED found
  /\ StartCheck("monitor", s)

ForceCheck(a, s) ==
  /\ Op(a, "check", s)
  /\ Continue(a, CheckOps(s))
  /\ StartCheck(a, s)

\* Most checks load only while they remember nothing, and none loads again.
MayLoad(s) == s \notin loaded /\ (s \in {"queue", "redis"} \/ belief[s] = 0)
Recalled(s) == IF MayLoad(s) /\ DatabaseUp THEN FromRows(s) ELSE {}

\* An error of the load is only logged.  An account check goes on to resolve
\* what it remembered or has loaded and did not find.
LoadStates(a, s) ==
  /\ Op(a, "load", s)
  /\ \E v \in IF Recalled(s) = {} THEN {belief[s]} ELSE Recalled(s) :
       /\ belief' = [belief EXCEPT ![s] = v]
       /\ Continue(a, IF s \notin {"low", "error"} THEN <<>>
                      ELSE IF v # 0 /\ found[a] = 0 THEN << <<"resolve", s>>, <<"settle", s>> >>
                           ELSE << <<"settle", s>> >>)
  /\ loaded' = IF MayLoad(s) THEN loaded \cup {s} ELSE loaded
  /\ excused' = IF MayLoad(s) /\ ~DatabaseUp THEN excused \cup NamesOf(s) ELSE excused
  /\ UNCHANGED <<environment, manager, source, event, overtaken>>

\* A check that cannot read what it watches ends with a logged error.
Readable(s) ==
  /\ s = "queue" => RedisUp
  /\ s \in {"low", "error", "timeout", "rate"} => DatabaseUp

Observe(a, s) ==
  /\ Op(a, "observe", s)
  /\ calls' = [calls EXCEPT ![a] = When(Readable(s), << <<"decide", s>> >>) \o Tail(@)]
  /\ found' = [found EXCEPT ![a] = IF Readable(s) THEN condition[s] ELSE 0]
  /\ UNCHANGED <<environment, monitors, manager, source, event, excused, overtaken>>

Decide(a, s) ==
  /\ Op(a, "decide", s)
  /\ belief' = [belief EXCEPT ![s] = Remembered(s, @, found[a])]
  /\ Continue(a, Decision(s, belief[s], found[a]))
  /\ event' = [event EXCEPT ![a] = Tracked(s)]
  /\ UNCHANGED <<environment, loaded, manager, source, excused, overtaken>>

\* What the check found, or the id of the event it got for a timed-out task.
Settle(a, s) ==
  /\ Op(a, "settle", s)
  /\ belief' = [belief EXCEPT ![s] =
                  IF s # "timeout" THEN found[a]
                  ELSE IF event[a] = <<>> THEN @ ELSE event[a][1] + 1]
  /\ event' = [event EXCEPT ![a] = <<>>]
  /\ Continue(a, <<>>)
  /\ UNCHANGED <<environment, loaded, manager, source, excused, overtaken>>

-----------------------------------------------------------------------------
(* AlertManager.                                                           *)

\* What trigger returns is only used for the event of a timed-out task.
Returned(a, e) ==
  LET isUsed == \E i \in DOMAIN calls[a] : calls[a][i] = <<"settle", "timeout">>
  IN  event' = [event EXCEPT ![a] = IF isUsed THEN e ELSE <<>>]

\* Fault: an acknowledged row is found too.
InTableAtAll(n) == DatabaseUp /\ n \in DOMAIN rows

InTable(n) == DatabaseUp /\ n \in DOMAIN rows /\ ~rows[n]
Silent(n) == n \in recent \cap Suppressible
Timed(n) == recent \cup ({n} \cap Suppressible)

TriggerDisabled(a, n) ==
  /\ Op(a, "trigger", n)
  /\ n \in disabled
  /\ Continue(a, <<>>)
  /\ Returned(a, <<>>)
  /\ excused' = excused \cup {n}
  /\ UNCHANGED <<environment, monitors, manager, source, overtaken>>

\* Within the suppression interval only the metadata is refreshed, of an alert
\* that was resolved meanwhile too.
TriggerSuppressed(a, n) ==
  /\ Op(a, "trigger", n)
  /\ LockFree(a)
  /\ n \notin disabled
  /\ Silent(n)
  /\ Continue(a, IF InTable(n) THEN << <<"update", n>> >> ELSE <<>>)
  /\ Returned(a, <<>>)
  /\ excused' = IF Active(n) THEN excused ELSE excused \cup {n}
  /\ UNCHANGED <<environment, monitors, manager, source, overtaken>>

\* An unacknowledged row is found first, and written back in a second statement.
TriggerFindsRow(a, n) ==
  /\ Op(a, "trigger", n)
  /\ LockFree(a)
  /\ n \notin disabled /\ ~Silent(n)
  /\ InTable(n)
  /\ recent' = Timed(n)
  /\ Continue(a, << <<"update", n>> >>)
  /\ Returned(a, <<0>>)
  /\ UNCHANGED <<environment, monitors, memory, rows, disabled, issued, source, excused,
                 overtaken>>

\* Fault: while MySQL answers, only the table is searched.
MergeableInTable(n) == IF DatabaseUp THEN {} ELSE Unresolved(n)

\* Then an unresolved event, acknowledged or not.
Mergeable(n) == Unresolved(n)

TriggerFindsEvent(a, n) ==
  /\ Op(a, "trigger", n)
  /\ LockFree(a)
  /\ n \notin disabled /\ ~Silent(n) /\ ~InTable(n)
  /\ \E e \in Mergeable(n) :
       /\ \A f \in Mergeable(n) : f.id <= e.id
       /\ Returned(a, <<e.id>>)
  /\ recent' = Timed(n)
  /\ Continue(a, <<>>)
  /\ UNCHANGED <<environment, monitors, memory, rows, disabled, issued, source, excused,
                 overtaken>>

\* The oldest events are dropped, resolved or not.  The monitor of a timed-out
\* task keeps the id of its first event, and does not know of a second.
Kept(events) == {e \in events : Cardinality({f \in events : f.id > e.id}) < MaxEvents}

TriggerCreates(a, n) ==
  /\ Op(a, "trigger", n)
  /\ LockFree(a)
  /\ n \notin disabled /\ ~Silent(n) /\ ~InTable(n)
  /\ Mergeable(n) = {}
  /\ issued < MaxIssued
  /\ issued' = issued + 1
  /\ memory' = Kept(memory \cup {[id |-> issued + 1, name |-> n,
                                  resolved |-> FALSE, acknowledged |-> FALSE]})
  /\ excused' = excused \cup {e.name : e \in {e \in memory \ memory' : ~e.resolved}}
                        \cup IF n = "timeout" /\ belief[n] # 0 THEN {n} ELSE {}
  /\ recent' = Timed(n)
  /\ Continue(a, <<>>)
  /\ Returned(a, <<issued + 1>>)
  /\ UNCHANGED <<environment, monitors, rows, disabled, source, overtaken>>

\* The row is written as it was read: not acknowledged.  It may be gone by now.
UpdateRow(a, n) ==
  /\ Op(a, "update", n)
  /\ rows' = IF DatabaseUp /\ n \in DOMAIN rows THEN [rows EXCEPT ![n] = FALSE] ELSE rows
  /\ excused' = IF n \in DOMAIN rows THEN excused ELSE excused \cup {n}
  /\ overtaken' = overtaken \ {n}
  /\ Continue(a, <<>>)
  /\ UNCHANGED <<environment, monitors, memory, recent, disabled, issued, source, event>>

Without(n) == [m \in DOMAIN rows \ {n} |-> rows[m]]

\* auto_resolve: the rows are deleted, then the events marked.
ResolveRows(a, n) ==
  /\ Op(a, "resolve", n)
  /\ rows' = IF DatabaseUp THEN Without(n) ELSE rows
  /\ excused' = IF ~DatabaseUp /\ n \in DOMAIN rows THEN excused \cup {n} ELSE excused
  /\ Continue(a, << <<"resolve_memory", n>> >>)
  /\ UNCHANGED <<environment, monitors, memory, recent, disabled, issued, source, event,
                 overtaken>>

Resolved(e, n) == IF e.name = n THEN [e EXCEPT !.resolved = TRUE] ELSE e

ResolveMemory(a, n) ==
  /\ Op(a, "resolve_memory", n)
  /\ LockFree(a)
  /\ memory' = {Resolved(e, n) : e \in memory}
  /\ Continue(a, <<>>)
  /\ UNCHANGED <<environment, monitors, rows, recent, disabled, issued, source, event, excused,
                 overtaken>>

WithoutEvent(id) == {e \in memory : e.id # id}

\* delete_event by a monitor: the id it remembered, whatever event there is now; in
\* MySQL without the lock, then in memory with it.
DeleteRow(a, n) ==
  /\ Op(a, "delete", n)
  /\ rows' = IF DatabaseUp /\ event[a] = <<0>> THEN Without(n) ELSE rows
  /\ excused' = IF ~DatabaseUp /\ event[a] = <<0>> THEN excused \cup {n} ELSE excused
  /\ Continue(a, << <<"delete_memory", n>> >>)
  /\ UNCHANGED <<environment, monitors, memory, recent, disabled, issued, source, event,
                 overtaken>>

DeleteMemory(a, n) ==
  /\ Op(a, "delete_memory", n)
  /\ LockFree(a)
  /\ memory' = WithoutEvent(event[a][1])
  /\ event' = [event EXCEPT ![a] = <<>>]
  /\ Continue(a, <<>>)
  /\ UNCHANGED <<environment, monitors, rows, recent, disabled, issued, source, excused,
                 overtaken>>

-----------------------------------------------------------------------------
(* Requests of the dashboard, next to the monitors.                        *)

Requested ==
  /\ requests < MaxPosts
  /\ requests' = requests + 1

\* While MySQL answers only rows can be acknowledged, all events else.
Acknowledge(n) ==
  /\ Requested
  /\ IF DatabaseUp
     THEN /\ n \in DOMAIN rows /\ ~rows[n]
          /\ rows' = [rows EXCEPT ![n] = TRUE]
          /\ excused' = excused \cup {n}
          /\ overtaken' = IF \E a \in Callers : Op(a, "update", n) THEN overtaken \cup {n}
                          ELSE overtaken
          /\ UNCHANGED memory
     ELSE /\ Unresolved(n) # {}
          /\ memory' = {[e EXCEPT !.acknowledged = @ \/ e \in Unresolved(n)] : e \in memory}
          /\ UNCHANGED <<rows, excused, overtaken>>
  /\ UNCHANGED <<watched, condition, restarts, monitors, recent, disabled, issued, actor>>

\* A configuration is saved with the other value of enabled.
SaveConfig(n) ==
  /\ Requested
  /\ disabled' = IF n \in disabled THEN disabled \ {n} ELSE disabled \cup {n}
  /\ UNCHANGED <<watched, condition, restarts, monitors, memory, rows, recent, issued, actor,
                 excused, overtaken>>

\* POST /clear, or the first step of a forced check, which resets every monitor
\* and checks what it watches; without clear_history it only checks.
PostClear ==
  /\ Requested
  /\ calls["request"] = <<>>
  /\ calls' = [calls EXCEPT !["request"] = << <<"clear", "all">> >>]
  /\ UNCHANGED <<watched, condition, restarts, monitors, manager, source, found, event,
                 excused, overtaken>>

PostForceCheck(s, clear) ==
  /\ Requested
  /\ calls["request"] = <<>>
  /\ s \in watched
  /\ calls' = [calls EXCEPT !["request"] =
                 (IF clear THEN << <<"clear", "all">>, <<"reset", s>> >> ELSE <<>>)
                   \o << <<"check", s>> >>]
  /\ excused' = IF Busy("monitor", s) THEN excused \cup NamesOf(s) ELSE excused
  /\ UNCHANGED <<watched, condition, restarts, monitors, manager, source, found, event,
                 overtaken>>

\* The names whose last alert a step has removed.
Removed == {n \in Names : Active(n) /\ ~Active(n)'}

\* clear_events: the table without the lock, then the memory with it.
ClearRows(a) ==
  /\ Op(a, "clear", "all")
  /\ rows' = IF DatabaseUp THEN [n \in {} |-> FALSE] ELSE rows
  /\ UNCHANGED memory
  /\ excused' = excused \cup Removed
  /\ Continue(a, << <<"clear_memory", "all">> >>)
  /\ UNCHANGED <<environment, monitors, recent, disabled, issued, source, event, overtaken>>

ClearMemory(a) ==
  /\ Op(a, "clear_memory", "all")
  /\ LockFree(a)
  /\ memory' = {}
  /\ UNCHANGED rows
  /\ excused' = excused \cup Removed
  /\ Continue(a, <<>>)
  /\ UNCHANGED <<environment, monitors, recent, disabled, issued, source, event, overtaken>>

\* Account monitors resolve what they remember, the task monitor deletes its
\* event; the system monitor has nothing to reset.
ResetOps(s) ==
  CASE s \in {"queue", "redis", "rate"} -> << <<"forget", s>> >>
    [] s \in {"low", "error"} ->
         IF belief[s] = 0 THEN <<>> ELSE << <<"resolve", s>>, <<"forget", s>> >>
    [] s = "timeout" ->
         (IF belief[s] = 0 THEN <<>> ELSE << <<"delete", s>> >>) \o << <<"forget", s>> >>
    [] s \in {"memory", "database"} -> <<>>

ResetStates(a, s) ==
  /\ Op(a, "reset", s)
  /\ Continue(a, ResetOps(s))
  /\ event' = [event EXCEPT ![a] = Tracked(s)]
  /\ UNCHANGED <<environment, monitors, manager, source, excused, overtaken>>

Forget(a, s) ==
  /\ Op(a, "forget", s)
  /\ belief' = [belief EXCEPT ![s] = 0]
  /\ loaded' = IF s \in {"low", "error"} THEN loaded ELSE loaded \ {s}
  /\ Continue(a, <<>>)
  /\ UNCHANGED <<environment, manager, source, event, excused, overtaken>>

-----------------------------------------------------------------------------
(* The world.                                                              *)

\* The condition changes, or the thresholds it is measured with.
ConditionChanges(s) ==
  /\ s \in watched
  /\ \E v \in Values(s) \ {condition[s]} : condition' = [condition EXCEPT ![s] = v]
  /\ UNCHANGED <<watched, requests, restarts, monitors, manager, actor, excused, overtaken>>

IntervalEnds(n) ==
  /\ n \in recent
  /\ recent' = recent \ {n}
  /\ UNCHANGED <<environment, monitors, memory, rows, disabled, issued, actor, excused,
                 overtaken>>

\* Everything but the table is lost.
MasterRestarts ==
  /\ restarts < MaxRestarts
  /\ restarts' = restarts + 1
  /\ belief' = [s \in Sources |-> 0]
  /\ loaded' = {}
  /\ memory' = {}
  /\ recent' = {}
  /\ disabled' = {}
  /\ calls' = [a \in Callers |-> <<>>]
  /\ source' = [a \in Callers |-> "none"]
  /\ found' = [a \in Callers |-> 0]
  /\ event' = [a \in Callers |-> <<>>]
  /\ excused' = {}
  /\ overtaken' = {}
  /\ UNCHANGED <<watched, condition, requests, rows, issued>>

CheckStep(a, s) ==
  ForceCheck(a, s) \/ LoadStates(a, s) \/ Observe(a, s) \/ Decide(a, s) \/ Settle(a, s)
    \/ ResetStates(a, s) \/ Forget(a, s)

ManagerStep(a, n) ==
  \/ TriggerDisabled(a, n) \/ TriggerSuppressed(a, n) \/ TriggerFindsRow(a, n)
  \/ TriggerFindsEvent(a, n) \/ TriggerCreates(a, n) \/ UpdateRow(a, n)
  \/ ResolveRows(a, n) \/ ResolveMemory(a, n) \/ DeleteRow(a, n) \/ DeleteMemory(a, n)

AlertsNext ==
  \/ \E s \in Sources : MonitorWakes(s) \/ ConditionChanges(s)
  \/ \E a \in Callers, s \in Sources : CheckStep(a, s)
  \/ \E a \in Callers, n \in Names : ManagerStep(a, n)
  \/ \E a \in Callers : ClearRows(a) \/ ClearMemory(a)
  \/ \E n \in Scope : Acknowledge(n) \/ SaveConfig(n) \/ IntervalEnds(n)
  \/ PostClear \/ \E s \in Sources, clear \in BOOLEAN : PostForceCheck(s, clear)
  \/ MasterRestarts

AlertsSpec == AlertsInit /\ [][AlertsNext]_alertVars

-----------------------------------------------------------------------------
(* Properties.                                                             *)

Operations == {"load", "observe", "decide", "settle", "trigger", "update", "resolve",
               "resolve_memory", "delete", "delete_memory", "clear", "clear_memory", "reset",
               "forget", "check"}

\* Type invariant.
AlertsTypeOK ==
  /\ watched \in Scenarios
  /\ condition \in [Sources -> 0..2]
  /\ belief \in [Sources -> Nat]
  /\ loaded \subseteq Sources
  /\ memory \subseteq [id : 1..issued, name : Names, resolved : BOOLEAN, acknowledged : BOOLEAN]
  /\ Cardinality(memory) <= MaxEvents
  /\ DOMAIN rows \subseteq Names /\ rows \in [DOMAIN rows -> BOOLEAN]
  /\ recent \subseteq Suppressible
  /\ disabled \subseteq Names
  /\ issued \in 0..MaxIssued
  /\ calls \in [Callers -> Seq(Operations \X (Sources \cup Names \cup {"all"}))]
  /\ source \in [Callers -> Sources \cup {"none"}]
  /\ found \in [Callers -> 0..2]
  /\ event \in [Callers -> {<<>>} \cup Seq(Nat)]
  /\ requests \in 0..MaxPosts
  /\ restarts \in 0..MaxRestarts
  /\ excused \subseteq Names
  /\ overtaken \subseteq Names

\* However many threads trigger it, an alert has one unresolved event in memory.
OneUnresolvedEvent ==
  \A e, f \in memory : e.name = f.name /\ ~e.resolved /\ ~f.resolved => e = f

\* The name that a monitor has triggered when it remembers v.
NameOf(s, v) == IF s = "queue" THEN (IF v = 2 THEN "critical" ELSE "warning") ELSE s

\* Nobody is in a check of s, and no request is about to reset it.
Quiet(s) == \A a \in Callers : ~Busy(a, s)

BadIsAlerted(s) ==
  belief[s] # 0 => LET n == NameOf(s, belief[s]) IN Active(n) \/ n \in excused

GoodIsResolved(s) ==
  s # "memory" /\ belief[s] = 0 /\ s \in loaded =>
    \A n \in NamesOf(s) : Active(n) => n \in excused

\* Between checks, what a monitor remembers as bad has an alert, unless it was
\* suppressed: most monitors trigger only on a change, so an alert they believe in
\* but that is not there would stay away.  What it remembers as normal has no alert
\* left: nothing else would resolve it.
AlertsFollowChecks == \A s \in Sources : Quiet(s) => BadIsAlerted(s) /\ GoodIsResolved(s)

\* What an operator has acknowledged does not come back: a row is open again only when
\* it was acknowledged while a trigger was between its search for open rows and its
\* write of the row as it read it.
AcknowledgedStays ==
  [][\A n \in DOMAIN rows \cap DOMAIN rows' :
       rows[n] /\ ~rows'[n] => n \in overtaken]_alertVars

=============================================================================

-------------------------- MODULE MCPlatformParts ---------------------------
(***************************************************************************)
(* Four parts of the platform on small instances, one of them at a time:   *)
(* the queue in Redis, a consumer's time window, the dispatcher's cycle    *)
(* and the alerts.  The others stay in an initial state; the state space   *)
(* is the disjoint union of theirs.                                        *)
(***************************************************************************)
EXTENDS QueueStore, ConsumerWindow, DispatchCycle, Alerts, TLC

CONSTANTS u1, u2, t1, t2, p1, r1, r2

VARIABLE part

partVars == <<part, queueVars, windowVars, cycleVars, alertVars>>

-----------------------------------------------------------------------------
(* Values.                                                                 *)

MCTaskOf == (u1 :> t1) @@ (u2 :> t2)
MCProductOf == (t1 :> p1) @@ (t2 :> p1)
MCGiven == (u1 :> 50) @@ (u2 :> 95)
MCLegacy == <<[unit |-> u2, priority |-> 95, retry |-> 0]>>
MCOffered == (r1 :> {"raise", "view"}) @@ (r2 :> {"reset", "view", "clear"})

Row(task, question, bad) == [task |-> task, question |-> question, bad |-> bad]
MCTable ==
  <<Row("one", "a", FALSE), Row("one", "a", FALSE), Row("one", "b", FALSE),
    Row("one", "c", FALSE),
    Row("two", "b", FALSE), Row("three", "a", FALSE), Row("three", "b", TRUE),
    Row("four", "a", TRUE), Row("five", "a", FALSE)>>
MCMaxRounds == [one |-> 2, two |-> 0, three |-> 1, four |-> 1, five |-> 1]

MCScenarios == {{s} : s \in Sources} \cup {{"queue", "redis"}}
MCOld == {{}, Names \ {"memory"}}

Symmetry == Permutations(Consumers)

-----------------------------------------------------------------------------
(* Initial states.                                                         *)

Running == {c \in Consumers : step[c] # "idle"}

\* Two consumers without requests; a consumer and a request while an old sorted set
\* is there; two requests that race; a request that fails half-way.
QueueScenarios ==
  \/ Running = Consumers /\ requested = MaxRequests /\ failures = MaxFailures
  \/ /\ Cardinality(Running) = 1 /\ legacy # <<>> /\ strategy = "priority"
     /\ requested = MaxRequests - 1 /\ failures = MaxFailures
  \/ Running = {} /\ legacy = <<>> /\ requested = 0 /\ failures = MaxFailures
  \/ Running = {} /\ requested = MaxRequests - 1 /\ failures = MaxFailures - 1

\* The strategy matters to consumers alone.
StrategyMatters == part = "queue" /\ Running = {} => strategy = "fifo"

QueueAtRest ==
  /\ legacy = <<>> /\ strategy = "fifo" /\ Running = {}
  /\ requested = 0 /\ failures = 0

WindowAtRest == window = [start |-> 0, end |-> 1, weekdays |-> {0}] /\ timeout = 1 /\ now = 0

\* A source with a request of the dashboard, or with a restart of the master, or two
\* sources.
AlertsScenarios ==
  \/ Cardinality(watched) = 1 /\ requests = 0 /\ restarts = MaxRestarts
  \/ watched = {"redis"} /\ requests = MaxPosts /\ restarts = 0
  \/ Cardinality(watched) > 1 /\ requests = MaxPosts /\ restarts = MaxRestarts

AlertsAtRest ==
  watched = {"memory"} /\ rows = <<>> /\ requests = 0 /\ restarts = 0

PartsInit ==
  /\ part \in {"queue", "window", "cycle", "alerts"}
  /\ QueueInit
  /\ IF part = "queue" THEN QueueScenarios ELSE QueueAtRest
  /\ WindowInit
  /\ part # "window" => WindowAtRest
  /\ CycleInit
  /\ AlertsInit
  /\ IF part = "alerts" THEN AlertsScenarios ELSE AlertsAtRest

PartsNext ==
  \/ part = "queue" /\ QueueNext /\ UNCHANGED <<part, windowVars, cycleVars, alertVars>>
  \/ part = "window" /\ WindowNext /\ UNCHANGED <<part, queueVars, cycleVars, alertVars>>
  \/ part = "cycle" /\ CycleNext /\ UNCHANGED <<part, queueVars, windowVars, alertVars>>
  \/ part = "alerts" /\ AlertsNext /\ UNCHANGED <<part, queueVars, windowVars, cycleVars>>

PartsSpec == PartsInit /\ [][PartsNext]_partVars

\* Type invariant of the part that runs.
PartsTypeOK ==
  /\ part = "queue" => QueueTypeOK
  /\ part = "window" => WindowTypeOK
  /\ part = "cycle" => CycleTypeOK
  /\ part = "alerts" => AlertsTypeOK

=============================================================================

-------------------------- MODULE MCFleetAndCrawl ---------------------------
(***************************************************************************)
(* The fleet of consumers and their heartbeats, the listeners that crawl   *)
(* without the platform, and one run of a crawler, on small instances and  *)
(* one of them at a time: the others stay in an initial state, and only    *)
(* the one that runs is fair.  The state space is the disjoint union of    *)
(* theirs.                                                                 *)
(***************************************************************************)
EXTENDS ConsumerFleet, Heartbeat, CrawlRun, CrawlListener, TLC

CONSTANTS q1, q2

VARIABLE part

mcVars == <<part, fleetVars, beatVars, crawlVars, listenerVars>>

-----------------------------------------------------------------------------
(* Values.                                                                 *)

Run(mode, tasks, cookies, offered, bound) ==
  [mode |-> mode, jobs |-> tasks, cookies |-> cookies, offered |-> offered, faults |-> bound]

\* Two questions of one task in a pool of two threads, with switches of the account;
\* a question that all of six files fail to answer; two tasks by one instance; two
\* tasks of AFu; accounts of which none is available.
MCRuns ==
  {Run("pool", <<1, 1>>, <<"f1", "f2">>, <<"f2", "f1">>, 2),
   Run("pool", <<1>>, <<"f1", "f2", "f3", "f4", "f5", "f6">>, <<"f2", "f1">>, 6),
   Run("single", <<1, 2>>, <<"f1", "f2">>, <<"f1", "f2">>, 2),
   Run("afu", <<1, 2>>, <<"f1", "f2", "f3">>, <<"f1", "f2", "f3">>, 2),
   Run("pool", <<1, 2>>, <<"f1", "f2">>, <<>>, 1)}

\* A question in a pool, with a second file for the retry.
MCOneQuestion == {Run("pool", <<1>>, <<"f1", "f2">>, <<"f1", "f2">>, 1)}

\* Two tasks of one second, one of them with two rounds; one without a model and one
\* of a model that is not run; two of AFu, and two that disturb it.
MCKind ==
  1 :> "web" @@ 2 :> "web" @@ 3 :> "keyless" @@ 4 :> "unknown"
    @@ 5 :> "afu" @@ 6 :> "afu" @@ 7 :> "afu"
MCCreated == 1 :> 1 @@ 2 :> 1 @@ 3 :> 2 @@ 4 :> 2 @@ 5 :> 1 @@ 6 :> 1 @@ 7 :> 2
MCRounds == 1 :> 2 @@ 2 :> Null @@ 3 :> 1 @@ 4 :> 1 @@ 5 :> 2 @@ 6 :> 0 @@ 7 :> Null

\* In the last world every status update of a run may fail, so that its task is found
\* again.
MCWorlds ==
  {[tasks |-> {1, 2, 4}, rushed |-> FALSE, mishaps |-> 1],
   [tasks |-> {1, 3}, rushed |-> TRUE, mishaps |-> 1],
   [tasks |-> {5, 6, 7}, rushed |-> FALSE, mishaps |-> 1],
   [tasks |-> {1}, rushed |-> TRUE, mishaps |-> 3]}

-----------------------------------------------------------------------------

FleetAtRest == ~managed

CrawlAtRest == run = Run("single", <<1, 2>>, <<"f1", "f2">>, <<"f1", "f2">>, 2)

ListenerAtRest == world = [tasks |-> {1, 3}, rushed |-> TRUE, mishaps |-> 1]

MCInit ==
  /\ part \in {"fleet", "heartbeat", "crawl", "listener"}
  /\ FleetInit
  /\ part # "fleet" => FleetAtRest
  /\ HeartbeatInit
  /\ CrawlInit
  /\ part # "crawl" => CrawlAtRest
  /\ ListenerInit
  /\ part # "listener" => ListenerAtRest

MCNext ==
  \/ part = "fleet" /\ FleetNext /\ UNCHANGED <<part, beatVars, crawlVars, listenerVars>>
  \/ part = "heartbeat" /\ HeartbeatNext /\ UNCHANGED <<part, fleetVars, crawlVars, listenerVars>>
  \/ part = "crawl" /\ CrawlNext /\ UNCHANGED <<part, fleetVars, beatVars, listenerVars>>
  \/ part = "listener" /\ ListenerNext /\ UNCHANGED <<part, fleetVars, beatVars, crawlVars>>

\* The fairness of the fleet, of the heartbeats and of the listeners, each while it is
\* the part that runs.
MCFairness ==
  /\ \A w \in Workers : /\ WF_fleetVars(part = "fleet" /\ WorkerBeats(w))
                        /\ WF_fleetVars(part = "fleet" /\ WorkerDrains(w))
  /\ WF_fleetVars(part = "fleet" /\ (PopCommand \/ HandleIncrement \/ HandleDecrement))
  /\ WF_fleetVars(part = "fleet" /\ (CountWorkers \/ PublishCount))
  /\ \A c \in Consumers : /\ WF_beatVars(part = "heartbeat" /\ WorkerStep(c))
                          /\ WF_beatVars(part = "heartbeat" /\ BeaterStep(c))
  /\ WF_beatVars(part = "heartbeat" /\ CheckStep)
  /\ WF_beatVars(part = "heartbeat" /\ Tick)
  /\ WF_listenerVars(part = "listener" /\ ListenerStep)
  /\ WF_listenerVars(part = "listener" /\ AfuStep)

MCSpec == MCInit /\ [][MCNext]_mcVars /\ MCFairness

\* Type invariant of the part that runs.
PartTypeOK ==
  /\ part = "fleet" => FleetTypeOK
  /\ part = "heartbeat" => HeartbeatTypeOK
  /\ part = "crawl" => CrawlTypeOK
  /\ part = "listener" => ListenerTypeOK

=============================================================================

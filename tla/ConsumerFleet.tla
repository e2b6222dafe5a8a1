--------------------------- MODULE ConsumerFleet ----------------------------
(***************************************************************************)
(* The consumer threads of one model, owned either by the ConsumerManager  *)
(* inside main_server (managed) or by a ConsumerSupervisor that a script   *)
(* runs and the dashboard steers through Redis: a command list that        *)
(* outlives the supervisor and a published count with a time to live.      *)
(*                                                                         *)
(* Workers are numbered in the order they are spawned, which is the order  *)
(* of the worker list.  A worker ends only when it sees its stop event     *)
(* (draining) or when its run raises (a crash); both remove its consumer   *)
(* heartbeat key.                                                          *)
(***************************************************************************)
EXTENDS Naturals, Sequences, FiniteSets

CONSTANTS
  MinConsumers,  (* ConsumerSupervisor.min_consumers                       *)
  Defaults,      (* possible --default-consumers-per-model                 *)
  MaxWorkers,    (* bound of the model: workers ever spawned               *)
  MaxCommands,   (* bound of the model: dashboard increments, decrements   *)
  MaxCrashes,    (* bound of the model: worker, thread and process ends    *)
  Unpublished    (* the supervisor's key is absent                         *)

ASSUME FleetAssumption ==
  /\ MinConsumers \in Nat \ {0}
  /\ Defaults \subseteq Nat
  /\ {MaxWorkers, MaxCommands, MaxCrashes} \subseteq Nat
  /\ MinConsumers <= MaxWorkers
  /\ \A d \in Defaults : d <= MaxWorkers
  /\ Unpublished \notin Nat

VARIABLES
  managed,     (* the in-process manager owns the workers                  *)
  stage,       (* the owner: starting, running, ending, cleared, ended     *)
  desired,     (* _desired_counts[model], _desired_consumers               *)
  spawned,     (* workers spawned so far                                   *)
  alive,       (* workers whose thread is alive                            *)
  draining,    (* workers whose stop event is set                          *)
  listed,      (* workers in the owner's list                              *)
  keyOf,       (* the consumer id of each worker, named by its first user  *)
  keys,        (* consumer heartbeat keys in Redis                         *)
  pending,     (* control:consumer-supervisor:<model>, a Redis list        *)
  control,     (* the supervisor's control thread: up or down              *)
  taken,       (* the command it has popped and not handled yet, or none   *)
  beat,        (* its heartbeat thread: count, publish, down               *)
  counted,     (* the count that thread is about to publish                *)
  published,   (* heartbeat:consumer-supervisor:<model>: active_consumers  *)
  commands,    (* commands accepted so far                                 *)
  crashes,     (* workers, threads and processes ended so far              *)
  lost,        (* history: running workers crashed since the last scaling  *)
  early        (* history: a decrement was handled before the first spawn  *)

owner == <<managed, stage, desired>>
workers == <<spawned, alive, draining, listed, keyOf>>
supervisor == <<control, taken, beat, counted>>
fleetVars == <<owner, workers, keys, pending, supervisor, published, commands, crashes,
               lost, early>>

Workers == 1..MaxWorkers
Running == (listed \cap alive) \ draining
RunningCount == Cardinality(Running)

\* A part of a set is its last n workers, in list order.
AreLast(last, n, set) ==
  /\ Cardinality(last) = n
  /\ \A w \in last, v \in set \ last : v < w

FleetInit ==
  /\ managed \in BOOLEAN
  /\ stage = "starting"
  /\ desired \in IF managed THEN Defaults ELSE {MinConsumers}
  /\ spawned = 0
  /\ alive = {}
  /\ draining = {}
  /\ listed = {}
  /\ keyOf = [w \in Workers |-> w]
  /\ keys = {}
  /\ pending = <<>>
  /\ control = "up"
  /\ taken = "none"
  /\ beat = "count"
  /\ counted = 0
  /\ published = Unpublished
  /\ commands = 0
  /\ crashes = 0
  /\ lost = 0
  /\ early = FALSE

-----------------------------------------------------------------------------
(* Worker threads.                                                         *)

\* _spawn_worker for n workers.  A consumer id is a host name and a millisecond:
\* consumers built in the same millisecond share it.
Spawn(n, list) ==
  LET new == (spawned + 1)..(spawned + n)
  IN  /\ spawned + n <= MaxWorkers
      /\ spawned' = spawned + n
      /\ alive' = alive \cup new
      /\ listed' = list \cup new
      /\ \E same \in BOOLEAN :
           keyOf' = [w \in Workers |-> IF same /\ w \in new THEN spawned + 1 ELSE keyOf[w]]

WorkerBeats(w) ==
  /\ w \in alive
  /\ keyOf[w] \notin keys
  /\ keys' = keys \cup {keyOf[w]}
  /\ UNCHANGED <<owner, workers, pending, supervisor, published, commands, crashes, lost,
                 early>>

\* The thread leaves run, which clears the key whoever else uses it.
Leaves(w) ==
  /\ alive' = alive \ {w}
  /\ keys' = keys \ {keyOf[w]}
  /\ UNCHANGED <<owner, spawned, draining, listed, keyOf, pending, supervisor, published,
                 commands, early>>

WorkerDrains(w) ==
  /\ w \in alive \cap draining
  /\ Leaves(w)
  /\ UNCHANGED <<crashes, lost>>

WorkerCrashes(w) ==
  /\ w \in alive
  /\ crashes < MaxCrashes
  /\ crashes' = crashes + 1
  /\ lost' = IF managed /\ w \in Running THEN lost + 1 ELSE lost
  /\ Leaves(w)

Alive == listed \cap alive

-----------------------------------------------------------------------------
(* ConsumerManager: every operation under one lock.                        *)

\* Fault: a worker that drains counts as one that works.
DrainingToo == Alive

Working == Alive \ draining

\* scale_to: clean up, then spawn what is missing or stop the last ones.
ScaleTo(n) ==
  LET count == Cardinality(Working)
  IN  /\ desired' = n
      /\ lost' = 0
      /\ IF n > count
         THEN Spawn(n - count, Alive) /\ UNCHANGED draining
         ELSE /\ \E last \in SUBSET Working :
                   AreLast(last, count - n, Working) /\ draining' = draining \cup last
              /\ listed' = Alive
              /\ UNCHANGED <<spawned, alive, keyOf>>

StartDefaults ==
  /\ managed
  /\ stage = "starting"
  /\ stage' = "running"
  /\ ScaleTo(desired)
  /\ UNCHANGED <<managed, keys, pending, supervisor, published, commands, crashes, early>>

AcceptCommand ==
  /\ commands < MaxCommands
  /\ commands' = commands + 1

IncrementManaged ==
  /\ managed
  /\ stage = "running"
  /\ AcceptCommand
  /\ ScaleTo(desired + 1)
  /\ UNCHANGED <<managed, stage, keys, pending, supervisor, published, crashes, early>>

\* max(1, desired - 1): with a default of 0 a decrement starts a worker.
DecrementManaged ==
  /\ managed
  /\ stage = "running"
  /\ AcceptCommand
  /\ ScaleTo(IF desired > 1 THEN desired - 1 ELSE 1)
  /\ UNCHANGED <<managed, stage, keys, pending, supervisor, published, crashes, early>>

\* A status request, or the supervisor's loop, forgets the dead.
Cleanup ==
  /\ listed # Alive
  /\ stage \in {"starting", "running"}
  /\ listed' = Alive
  /\ UNCHANGED <<owner, spawned, alive, draining, keyOf, keys, pending, supervisor, published,
                 commands, crashes, lost, early>>

ShutdownManaged ==
  /\ managed
  /\ stage = "running"
  /\ stage' = "ending"
  /\ desired' = 0
  /\ lost' = 0
  /\ draining' = draining \cup listed
  /\ UNCHANGED <<managed, spawned, alive, listed, keyOf, keys, pending, supervisor, published,
                 commands, crashes, early>>

\* The joins have time limits, after them the process ends with its daemon
\* threads: a worker that is still crawling leaves its key behind.
ProcessEnds ==
  /\ stage = IF managed THEN "ending" ELSE "cleared"
  /\ stage' = "ended"
  /\ alive' = {}
  /\ listed' = {}
  /\ draining' = {}
  /\ taken' = "none"
  /\ UNCHANGED <<managed, desired, spawned, keyOf, keys, pending, control, beat, counted,
                 published, commands, crashes, lost, early>>

-----------------------------------------------------------------------------
(* ConsumerSupervisor: main, control and heartbeat threads.                *)

\* The control thread is started first and may handle commands before this.
SpawnMinimum ==
  /\ ~managed
  /\ stage = "starting"
  /\ stage' = "running"
  /\ Spawn(MinConsumers, listed)
  /\ UNCHANGED <<managed, desired, draining, keys, pending, supervisor, published, commands,
                 crashes, lost, early>>

\* _control_loop: its last pop may come up to two seconds after the stop event.
PopCommand ==
  /\ ~managed
  /\ stage # "ended"
  /\ control = "up"
  /\ taken = "none"
  /\ pending # <<>>
  /\ taken' = Head(pending)
  /\ pending' = Tail(pending)
  /\ UNCHANGED <<owner, workers, keys, control, beat, counted, published, commands, crashes,
                 lost, early>>

\* The loop ends when it sees the stop event.
Handles(command) ==
  /\ ~managed
  /\ taken = command
  /\ taken' = "none"
  /\ control' = IF stage \in {"starting", "running"} THEN control ELSE "down"

ControlLoopEnds ==
  /\ ~managed
  /\ stage \in {"ending", "cleared"}
  /\ control = "up"
  /\ taken = "none"
  /\ control' = "down"
  /\ UNCHANGED <<owner, workers, keys, pending, taken, beat, counted, published, commands,
                 crashes, lost, early>>

\* A worker spawned after the stop event is not told to stop.
HandleIncrement ==
  /\ Handles("increment")
  /\ desired' = desired + 1
  /\ Spawn(1, listed)
  /\ UNCHANGED <<managed, stage, draining, keys, pending, beat, counted, published, commands,
                 crashes, lost, early>>

\* Fault: the workers that really run are not counted.
StopsAnyway == TRUE

MayStop == RunningCount > MinConsumers

\* Ignored at the minimum; a worker is stopped only while more than the minimum run.
HandleDecrement ==
  /\ Handles("decrement")
  /\ IF desired <= MinConsumers
     THEN UNCHANGED <<desired, draining, early>>
     ELSE /\ desired' = desired - 1
          /\ IF MayStop
             THEN \E last \in SUBSET Running :
                    AreLast(last, 1, Running) /\ draining' = draining \cup last
             ELSE UNCHANGED draining
          /\ early' = (early \/ stage = "starting")
  /\ UNCHANGED <<managed, stage, spawned, alive, listed, keyOf, keys, pending, beat, counted,
                 published, commands, crashes, lost>>

\* Fault: the count is published once.
OnlyFirst == published = Unpublished

Outdated == published # RunningCount

\* The counts are taken under the lock and published after it is released.
CountWorkers ==
  /\ ~managed
  /\ stage \in {"starting", "running"}
  /\ beat = "count"
  /\ Outdated
  /\ listed' = Alive
  /\ counted' = RunningCount
  /\ beat' = "publish"
  /\ UNCHANGED <<owner, spawned, alive, draining, keyOf, keys, pending, control, taken,
                 published, commands, crashes, lost, early>>

\* Also after the supervisor has cleared its key, as long as its process lives.
PublishCount ==
  /\ ~managed
  /\ stage # "ended"
  /\ beat = "publish"
  /\ published' = counted
  /\ beat' = "count"
  /\ UNCHANGED <<owner, workers, keys, pending, control, taken, counted, commands, crashes,
                 lost, early>>

\* The end of the loop, by an interrupt: every worker is told to stop.
Interrupt ==
  /\ ~managed
  /\ stage = "running"
  /\ stage' = "ending"
  /\ draining' = draining \cup listed
  /\ UNCHANGED <<managed, desired, spawned, alive, listed, keyOf, keys, pending, supervisor,
                 published, commands, crashes, lost, early>>

ClearPublished ==
  /\ ~managed
  /\ stage = "ending"
  /\ stage' = "cleared"
  /\ published' = Unpublished
  /\ UNCHANGED <<managed, desired, workers, keys, pending, supervisor, commands, crashes,
                 lost, early>>

\* The heartbeat loop clears the key too when it sees the stop event.
BeatLoopEnds ==
  /\ ~managed
  /\ stage \in {"ending", "cleared"}
  /\ beat = "count"
  /\ beat' = "down"
  /\ published' = Unpublished
  /\ UNCHANGED <<owner, workers, keys, pending, control, taken, counted, commands, crashes,
                 lost, early>>

\* Nothing publishes any more and the 15 seconds of the key are over.
PublishedExpires ==
  /\ stage = "ended" \/ beat = "down"
  /\ published # Unpublished
  /\ published' = Unpublished
  /\ UNCHANGED <<owner, workers, keys, pending, supervisor, commands, crashes, lost, early>>

\* _send_command: refused only when the key is absent.
SendCommand(command) ==
  /\ ~managed
  /\ published # Unpublished
  /\ AcceptCommand
  /\ pending' = Append(pending, command)
  /\ UNCHANGED <<owner, workers, keys, supervisor, published, crashes, lost, early>>

-----------------------------------------------------------------------------
(* Failures: neither loop catches an error of Redis.                       *)

\* A command that it has popped is lost.
ControlDies ==
  /\ ~managed
  /\ stage \in {"starting", "running"}
  /\ control = "up"
  /\ crashes < MaxCrashes
  /\ crashes' = crashes + 1
  /\ control' = "down"
  /\ taken' = "none"
  /\ UNCHANGED <<owner, workers, keys, pending, beat, counted, published, commands, lost,
                 early>>

BeatDies ==
  /\ ~managed
  /\ stage \in {"starting", "running"}
  /\ beat # "down"
  /\ crashes < MaxCrashes
  /\ crashes' = crashes + 1
  /\ beat' = "down"
  /\ UNCHANGED <<owner, workers, keys, pending, control, taken, counted, published, commands,
                 lost, early>>

\* The script's process is killed: its keys and commands stay in Redis, but for the
\* command that it was about to handle.
SupervisorKilled ==
  /\ ~managed
  /\ stage # "ended"
  /\ crashes < MaxCrashes
  /\ crashes' = crashes + 1
  /\ stage' = "ended"
  /\ alive' = {}
  /\ listed' = {}
  /\ draining' = {}
  /\ taken' = "none"
  /\ UNCHANGED <<managed, desired, spawned, keyOf, keys, pending, control, beat, counted,
                 published, commands, lost, early>>

\* A new supervisor finds the commands left over from the one before.
SupervisorRestarts ==
  /\ ~managed
  /\ stage = "ended"
  /\ spawned + MinConsumers + Len(pending) + (MaxCommands - commands) <= MaxWorkers
  /\ stage' = "starting"
  /\ desired' = MinConsumers
  /\ control' = "up"
  /\ beat' = "count"
  /\ early' = FALSE
  /\ UNCHANGED <<managed, workers, keys, pending, taken, counted, published, commands, crashes,
                 lost>>

-----------------------------------------------------------------------------

FleetNext ==
  \/ \E w \in Workers : WorkerBeats(w) \/ WorkerDrains(w) \/ WorkerCrashes(w)
  \/ StartDefaults \/ IncrementManaged \/ DecrementManaged \/ ShutdownManaged
  \/ Cleanup \/ ProcessEnds
  \/ SpawnMinimum \/ PopCommand \/ HandleIncrement \/ HandleDecrement \/ ControlLoopEnds
  \/ CountWorkers \/ PublishCount \/ BeatLoopEnds
  \/ Interrupt \/ ClearPublished \/ PublishedExpires
  \/ \E command \in {"increment", "decrement"} : SendCommand(command)
  \/ ControlDies \/ BeatDies \/ SupervisorKilled \/ SupervisorRestarts

\* Threads that are up go on; nobody has to start, stop or ask for anything.
FleetFairness ==
  /\ \A w \in Workers : WF_fleetVars(WorkerBeats(w)) /\ WF_fleetVars(WorkerDrains(w))
  /\ WF_fleetVars(PopCommand \/ HandleIncrement \/ HandleDecrement)
  /\ WF_fleetVars(CountWorkers \/ PublishCount)

FleetSpec == FleetInit /\ [][FleetNext]_fleetVars /\ FleetFairness

-----------------------------------------------------------------------------
(* Properties.                                                             *)

\* Type invariant.
FleetTypeOK ==
  /\ managed \in BOOLEAN
  /\ stage \in {"starting", "running", "ending", "cleared", "ended"}
  /\ desired \in Nat
  /\ spawned \in 0..MaxWorkers
  /\ alive \subseteq Workers
  /\ draining \subseteq Workers
  /\ listed \subseteq Workers
  /\ keyOf \in [Workers -> Workers]
  /\ keys \subseteq Workers
  /\ pending \in Seq({"increment", "decrement"})
  /\ control \in {"up", "down"}
  /\ taken \in {"none", "increment", "decrement"}
  /\ beat \in {"count", "publish", "down"}
  /\ counted \in Nat
  /\ published \in Nat \cup {Unpublished}
  /\ commands \in 0..MaxCommands
  /\ crashes \in 0..MaxCrashes
  /\ lost \in Nat
  /\ early \in BOOLEAN

\* Never more workers take messages than the owner wants, draining ones aside; a
\* supervisor that handled a decrement before it spawned its minimum keeps up to
\* that minimum too many.  Under the manager the workers that are missing are
\* exactly those that crashed since the last scaling: one that is still draining is
\* not counted, so scaling up again adds a real one, and nothing but a scaling
\* replaces a crashed one.
RunningAsWanted ==
  /\ RunningCount <= desired + (IF early THEN MinConsumers ELSE 0)
  /\ managed /\ stage = "running" => RunningCount + lost = desired

\* A supervisor that is up never reduces its running workers below the minimum,
\* whatever crashes its wanted count has not noticed.
SupervisorKeepsMinimum ==
  [][~managed /\ crashes' = crashes /\ stage' = stage /\ stage \in {"starting", "running"} =>
       RunningCount' >= RunningCount \/ RunningCount' >= MinConsumers]_fleetVars

\* A command that the dashboard was told is accepted is handled, unless the control
\* thread or the supervisor has ended.
CommandsHandled ==
  (pending = <<>> /\ taken = "none") \/ control = "down" \/ stage # "running"

\* A live worker is listed, even after one with the same consumer id cleared their
\* common key.
LiveListed == \A w \in alive : keyOf[w] \in keys

\* The dashboard's count is that of the running workers, while the supervisor and its
\* heartbeat thread are up.
CountCurrent == managed \/ stage # "running" \/ beat = "down" \/ published = RunningCount

\* Through commands, crashes and shared ids the fleet comes to rest as it should.
FleetSettles == []<>(CommandsHandled /\ LiveListed /\ CountCurrent)

=============================================================================

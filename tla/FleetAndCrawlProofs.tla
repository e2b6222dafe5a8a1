-------------------------- MODULE FleetAndCrawlProofs --------------------------
(***************************************************************************)
(* What the managers of the consumer threads promise about their number,   *)
(* for every minimum, every default and every sequence of commands and     *)
(* crashes; what py_main.py asks, for every table of tasks and however its *)
(* statements fail; and that the runs of these, of the heartbeats and of a *)
(* crawler that are checked together are runs of each.                     *)
(***************************************************************************)
EXTENDS MCFleetAndCrawl, HeartbeatProofs, CrawlRunProofs, FiniteSetTheorems

-----------------------------------------------------------------------------
(* The fleet.                                                              *)

\* Workers are numbered from one.
FleetBounds ==
  /\ spawned \in Nat
  /\ listed \subseteq 1..spawned
  /\ alive \subseteq 1..spawned
  /\ draining \subseteq 1..spawned

\* Finitely many run, and each that comes or goes counts.
LEMMA RunningIsFinite ==
  ASSUME FleetBounds
  PROVE  IsFiniteSet(Running) /\ RunningCount \in Nat
<1>1. Running \in SUBSET (1..spawned) /\ IsFiniteSet(1..spawned)
  BY FS_Interval DEF FleetBounds, Running
<1>2. IsFiniteSet(Running)
  BY <1>1, FS_Subset
<1> QED BY <1>2, FS_CardinalityType DEF RunningCount

LEMMA PartLess ==
  ASSUME NEW S, IsFiniteSet(S), NEW T \in SUBSET S
  PROVE  /\ IsFiniteSet(S \ T) /\ IsFiniteSet(T)
         /\ Cardinality(S \ T) \in Nat /\ Cardinality(T) \in Nat /\ Cardinality(S) \in Nat
         /\ Cardinality(S \ T) = Cardinality(S) - Cardinality(T)
<1>1. IsFiniteSet(T) /\ IsFiniteSet(S \ T)
  BY FS_Subset
<1>2. Cardinality(T) \in Nat /\ Cardinality(S \ T) \in Nat /\ Cardinality(S) \in Nat
  BY <1>1, FS_CardinalityType
<1>3. Cardinality((S \ T) \cup T) =
        Cardinality(S \ T) + Cardinality(T) - Cardinality((S \ T) \cap T)
  BY <1>1, FS_Union
<1>4. (S \ T) \cup T = S /\ (S \ T) \cap T = {}
  OBVIOUS
<1>5. Cardinality((S \ T) \cap T) = 0
  BY <1>4, FS_EmptySet
<1>6. Cardinality(S) = Cardinality((S \ T) \cup T)
  BY <1>4
<1>7. Cardinality(S \ T) = Cardinality(S) - Cardinality(T)
  BY <1>2, <1>3, <1>5, <1>6
<1> QED BY <1>1, <1>2, <1>7

\* Spawned workers run, next to those that did.
LEMMA SpawnAdds ==
  ASSUME FleetBounds, NEW n \in Nat, NEW list, list \in {listed, Alive}, Spawn(n, list),
         UNCHANGED draining
  PROVE  /\ FleetBounds'
         /\ RunningCount' = RunningCount + n
<1> DEFINE new == (spawned + 1)..(spawned + n)
<1>1. /\ spawned' = spawned + n /\ alive' = alive \cup new /\ listed' = list \cup new
  BY DEF Spawn
<1>2. list \subseteq listed /\ list \cap alive = listed \cap alive
  BY DEF Alive
<1>3. /\ new \subseteq 1..spawned' /\ 1..spawned \subseteq 1..spawned' /\ spawned' \in Nat
      /\ new \cap (1..spawned) = {}
  BY <1>1 DEF FleetBounds
<1>4. IsFiniteSet(new) /\ Cardinality(new) = n
  BY FS_Interval DEF FleetBounds
<1> HIDE DEF new
<1>5. FleetBounds'
  BY <1>1, <1>2, <1>3 DEF FleetBounds
<1>6. Running' = Running \cup new /\ Running \cap new = {}
  BY <1>1, <1>2, <1>3 DEF Running, FleetBounds
<1>7. IsFiniteSet(Running) /\ RunningCount \in Nat
  BY RunningIsFinite
<1>8. Cardinality(Running \cup new) =
        Cardinality(Running) + Cardinality(new) - Cardinality(Running \cap new)
  BY <1>4, <1>7, FS_Union
<1>9. Cardinality(Running \cap new) = 0
  BY <1>6, FS_EmptySet
<1> QED BY <1>4, <1>5, <1>6, <1>7, <1>8, <1>9 DEF RunningCount

\* The last n of those that run are told to stop.
LEMMA StopTakes ==
  ASSUME FleetBounds, NEW n \in Nat, NEW stopped \in SUBSET Running, AreLast(stopped, n, Running),
         draining' = draining \cup stopped, listed' \in {listed, Alive}, UNCHANGED <<spawned, alive>>
  PROVE  /\ FleetBounds'
         /\ RunningCount' = RunningCount - n
<1>1. FleetBounds'
  BY DEF FleetBounds, Running, Alive
<1>2. Running' = Running \ stopped
  BY DEF Running, Alive
<1>3. Cardinality(stopped) = n
  BY DEF AreLast
<1> QED BY <1>1, <1>2, <1>3, RunningIsFinite, PartLess DEF RunningCount

\* scale_to leaves as many running as it was asked for.
LEMMA ScaleToScales ==
  ASSUME FleetBounds, NEW n \in Nat, ScaleTo(n)
  PROVE  /\ FleetBounds' /\ RunningCount' = n
         /\ desired' = n /\ lost' = 0
<1>1. Working = Running /\ RunningCount \in Nat
  BY RunningIsFinite DEF Working, Alive, Running
<1>2. CASE n > RunningCount
  <2>1. Spawn(n - RunningCount, Alive) /\ UNCHANGED draining
    BY <1>1, <1>2 DEF ScaleTo, RunningCount
  <2>2. n - RunningCount \in Nat
    BY <1>1, <1>2
  <2>3. FleetBounds' /\ RunningCount' = RunningCount + (n - RunningCount)
    BY <2>1, <2>2, SpawnAdds
  <2> QED BY <1>1, <2>3 DEF ScaleTo
<1>3. CASE ~(n > RunningCount)
  <2>1. PICK stopped \in SUBSET Running :
          AreLast(stopped, RunningCount - n, Running) /\ draining' = draining \cup stopped
    BY <1>1, <1>3 DEF ScaleTo, RunningCount
  <2>2. listed' = Alive /\ UNCHANGED <<spawned, alive>>
    BY <1>1, <1>3 DEF ScaleTo, RunningCount
  <2>3. RunningCount - n \in Nat
    BY <1>1, <1>3
  <2>4. FleetBounds' /\ RunningCount' = RunningCount - (RunningCount - n)
    BY <2>1, <2>2, <2>3, StopTakes
  <2> QED BY <1>1, <2>4 DEF ScaleTo
<1> QED BY <1>2, <1>3

\* A worker that leaves was running or not.
LEMMA LeavingTakes ==
  ASSUME FleetBounds, NEW w \in alive, Leaves(w)
  PROVE  /\ FleetBounds'
         /\ RunningCount' = IF w \in Running THEN RunningCount - 1 ELSE RunningCount
<1>1. alive' = alive \ {w} /\ UNCHANGED <<spawned, draining, listed>>
  BY DEF Leaves
<1>2. FleetBounds' /\ Running' = Running \ {w}
  BY <1>1 DEF FleetBounds, Running
<1> QED BY <1>2, RunningIsFinite, FS_RemoveElement DEF RunningCount

-----------------------------------------------------------------------------
Extra == IF early THEN MinConsumers ELSE 0

\* A supervisor that has yet to spawn its minimum keeps room for it, or has handled a
\* decrement too early; one that ends has told every worker to stop.
FleetWanted ==
  /\ managed \in BOOLEAN /\ early \in BOOLEAN
  /\ desired \in Nat /\ lost \in Nat
  /\ stage \in {"starting", "running", "ending", "cleared", "ended"}
  /\ managed => ~early
  /\ stage = "ended" => taken = "none"
  /\ stage = "ended" \/ (managed /\ stage \notin {"starting", "running"}) => Running = {}
  /\ managed /\ stage = "starting" => listed = {} /\ alive = {}
  /\ ~managed /\ stage = "starting" => MinConsumers + RunningCount <= desired + Extra
  /\ stage \in {"running", "ending", "cleared"} => RunningCount <= desired + Extra
  /\ managed /\ stage = "running" => RunningCount + lost = desired

FleetInv == FleetBounds /\ FleetWanted

\* The minimum is a positive number.
LEMMA MinimumIsPositive == MinConsumers \in Nat \ {0}
BY FleetAssumption DEF FleetAssumption

\* Steps after which the same workers run.
LEMMA SameRunning ==
  ASSUME FleetInv, FleetBounds', Running' = Running,
         UNCHANGED <<managed, stage, desired, early, lost, alive>>, listed' \subseteq listed,
         stage = "ended" => taken' = taken
  PROVE  FleetInv'
BY DEF FleetInv, FleetWanted, RunningCount, Extra

\* Workers beat, drain and crash.
LEMMA FleetWorkerStep ==
  ASSUME FleetInv, NEW w \in Workers, WorkerBeats(w) \/ WorkerDrains(w) \/ WorkerCrashes(w)
  PROVE  FleetInv'
<1> USE DEF FleetInv
<1>1. CASE WorkerBeats(w)
  BY <1>1, SameRunning DEF WorkerBeats, owner, workers, supervisor, FleetBounds, Running
<1>2. CASE WorkerDrains(w)
  <2>1. w \in alive /\ Leaves(w) /\ w \notin Running
        /\ UNCHANGED <<owner, lost, early, listed, taken>>
    BY <1>2 DEF WorkerDrains, Running, Leaves, supervisor
  <2>2. FleetBounds' /\ RunningCount' = RunningCount /\ alive' \subseteq alive
    BY <2>1, LeavingTakes DEF Leaves
  <2>3. Running' \subseteq Running
    BY <2>1 DEF Running, Leaves
  <2> QED BY <2>1, <2>2, <2>3 DEF FleetWanted, owner, Extra
<1>3. CASE WorkerCrashes(w)
  <2>1. w \in alive /\ Leaves(w) /\ UNCHANGED <<owner, early, listed, taken>>
        /\ lost' = IF managed /\ w \in Running THEN lost + 1 ELSE lost
    BY <1>3 DEF WorkerCrashes, Leaves, supervisor
  <2>2. /\ FleetBounds' /\ alive' \subseteq alive
        /\ RunningCount' = IF w \in Running THEN RunningCount - 1 ELSE RunningCount
    BY <2>1, LeavingTakes DEF Leaves
  <2>3. Running' \subseteq Running
    BY <2>1 DEF Running, Leaves
  <2>4. RunningCount \in Nat
    BY RunningIsFinite
  <2> QED BY <2>1, <2>2, <2>3, <2>4, MinimumIsPositive DEF FleetWanted, owner, Extra
<1> QED BY <1>1, <1>2, <1>3

\* The manager scales.
LEMMA ManagerStep ==
  ASSUME FleetInv, StartDefaults \/ IncrementManaged \/ DecrementManaged
  PROVE  FleetInv'
<1> USE DEF FleetInv
<1> DEFINE n == IF StartDefaults THEN desired
                ELSE IF IncrementManaged THEN desired + 1
                ELSE IF desired > 1 THEN desired - 1 ELSE 1
<1>1. /\ managed /\ stage' = "running" /\ UNCHANGED <<managed, early>>
      /\ \E k \in {desired, desired + 1, IF desired > 1 THEN desired - 1 ELSE 1} : ScaleTo(k)
  BY DEF StartDefaults, IncrementManaged, DecrementManaged
<1>2. PICK k \in {desired, desired + 1, IF desired > 1 THEN desired - 1 ELSE 1} : ScaleTo(k)
  BY <1>1
<1>3. k \in Nat
  BY DEF FleetWanted
<1>4. FleetBounds' /\ RunningCount' = k /\ desired' = k /\ lost' = 0
  BY <1>2, <1>3, ScaleToScales
<1> QED BY <1>1, <1>3, <1>4 DEF FleetWanted, Extra

\* The dead are forgotten.
LEMMA CleanupStep ==
  ASSUME FleetInv, Cleanup \/ CountWorkers
  PROVE  FleetInv'
<1>1. listed' = Alive
      /\ UNCHANGED <<managed, stage, desired, early, lost, spawned, alive, draining, taken>>
  BY DEF Cleanup, CountWorkers, owner, supervisor
<1>2. Running' = Running /\ listed' \subseteq listed
  BY <1>1 DEF Running, Alive
<1>3. FleetBounds'
  BY <1>1, <1>2 DEF FleetInv, FleetBounds
<1> QED BY <1>1, <1>2, <1>3, SameRunning

\* Everybody is told to stop, or has ended.
LEMMA EndStep ==
  ASSUME FleetInv, ShutdownManaged \/ Interrupt \/ ProcessEnds \/ SupervisorKilled
  PROVE  FleetInv'
<1> USE DEF FleetInv
<1>1. FleetBounds'
  BY DEF FleetBounds, ShutdownManaged, Interrupt, ProcessEnds, SupervisorKilled
<1>2. Running' = {}
  BY DEF Running, ShutdownManaged, Interrupt, ProcessEnds, SupervisorKilled
<1>3. /\ stage' \in {"ending", "ended"} /\ UNCHANGED <<managed, early>>
      /\ desired' \in {0, desired} /\ lost' \in {0, lost}
      /\ stage' = "ended" => taken' = "none"
  BY DEF ShutdownManaged, Interrupt, ProcessEnds, SupervisorKilled
<1>4. RunningCount' = 0
  BY <1>2, FS_EmptySet DEF RunningCount
<1>5. Extra' \in Nat /\ desired' \in Nat /\ lost' \in Nat
  BY <1>3, MinimumIsPositive DEF FleetWanted, Extra
<1>6. RunningCount' <= desired' + Extra'
  <2>1. ASSUME NEW a \in Nat, NEW b \in Nat PROVE 0 <= a + b
    OBVIOUS
  <2> QED BY <1>4, <1>5, <2>1
<1> QED BY <1>1, <1>2, <1>3, <1>5, <1>6 DEF FleetWanted

\* The supervisor spawns its minimum.
LEMMA SpawnMinimumStep ==
  ASSUME FleetInv, SpawnMinimum
  PROVE  FleetInv'
<1> USE DEF FleetInv
<1>1. FleetBounds' /\ RunningCount' = RunningCount + MinConsumers
  BY SpawnAdds, MinimumIsPositive DEF SpawnMinimum
<1>2. ~managed /\ stage = "starting" /\ stage' = "running"
      /\ UNCHANGED <<managed, desired, early, lost>>
  BY DEF SpawnMinimum
<1>3. RunningCount \in Nat
  BY RunningIsFinite
<1> QED BY <1>1, <1>2, <1>3, MinimumIsPositive DEF FleetWanted, Extra

\* It handles an increment.
LEMMA IncrementStep ==
  ASSUME FleetInv, HandleIncrement
  PROVE  FleetInv'
<1> USE DEF FleetInv
<1>1. FleetBounds' /\ RunningCount' = RunningCount + 1
  BY SpawnAdds DEF HandleIncrement
<1>2. ~managed /\ stage # "ended" /\ desired' = desired + 1
      /\ UNCHANGED <<managed, stage, early, lost>>
  BY DEF HandleIncrement, Handles, FleetWanted
<1>3. RunningCount \in Nat
  BY RunningIsFinite
<1> QED BY <1>1, <1>2, <1>3, MinimumIsPositive DEF FleetWanted, Extra

\* What a decrement leaves running: one less, or no more than the minimum.
LEMMA DecrementTakes ==
  ASSUME FleetBounds, HandleDecrement, desired \in Nat, desired > MinConsumers
  PROVE  /\ FleetBounds' /\ UNCHANGED <<listed, alive>>
         /\ \/ RunningCount > MinConsumers /\ RunningCount' = RunningCount - 1
            \/ RunningCount <= MinConsumers /\ RunningCount' = RunningCount
<1>1. UNCHANGED <<spawned, alive, listed>>
  BY DEF HandleDecrement
<1>2. RunningCount \in Nat /\ MinConsumers \in Nat
  BY RunningIsFinite, MinimumIsPositive
<1>3. CASE MayStop
  <2>1. PICK stopped \in SUBSET Running : AreLast(stopped, 1, Running) /\ draining' = draining \cup stopped
    BY <1>2, <1>3 DEF HandleDecrement
  <2>2. FleetBounds' /\ RunningCount' = RunningCount - 1
    BY <1>1, <2>1, StopTakes
  <2> QED BY <1>1, <1>3, <2>2 DEF MayStop
<1>4. CASE ~MayStop
  <2>1. UNCHANGED draining
    BY <1>2, <1>4 DEF HandleDecrement
  <2>2. FleetBounds' /\ RunningCount' = RunningCount
    BY <1>1, <2>1 DEF FleetBounds, RunningCount, Running
  <2> QED BY <1>1, <1>2, <1>4, <2>2 DEF MayStop
<1> QED BY <1>3, <1>4

\* It handles a decrement.
LEMMA DecrementStep ==
  ASSUME FleetInv, HandleDecrement
  PROVE  FleetInv'
<1> USE DEF FleetInv
<1>1. ~managed /\ stage # "ended"
      /\ UNCHANGED <<managed, stage, lost, spawned, alive, listed>>
  BY DEF HandleDecrement, Handles, FleetWanted
<1>2. RunningCount \in Nat /\ MinConsumers \in Nat \ {0} /\ desired \in Nat
  BY RunningIsFinite, MinimumIsPositive DEF FleetWanted
<1>3. CASE desired <= MinConsumers
  <2>1. UNCHANGED <<desired, draining, early>>
    BY <1>3 DEF HandleDecrement
  <2> QED BY <1>1, <2>1, SameRunning DEF FleetBounds, Running
<1>4. CASE desired > MinConsumers
  <2>1. desired' = desired - 1 /\ early' = (early \/ stage = "starting")
    BY <1>2, <1>4 DEF HandleDecrement
  <2>2. /\ FleetBounds'
        /\ \/ RunningCount > MinConsumers /\ RunningCount' = RunningCount - 1
           \/ RunningCount <= MinConsumers /\ RunningCount' = RunningCount
    BY <1>2, <1>4, DecrementTakes
  <2>3. Extra' = IF early \/ stage = "starting" THEN MinConsumers ELSE 0
    BY <2>1 DEF Extra
  <2>4. early' \in BOOLEAN
    BY <2>1, Zenon
  <2>5. CASE stage = "starting"
    <3>1. RunningCount <= desired
      <4>1. MinConsumers + RunningCount <= desired + Extra /\ Extra \in 0..MinConsumers
        BY <1>1, <1>2, <2>5 DEF FleetWanted, Extra
      <4> QED BY <1>2, <4>1
    <3>2. Extra' = MinConsumers
      BY <2>3, <2>5
    <3>3. MinConsumers + RunningCount' <= desired' + Extra'
      BY <1>2, <1>4, <2>1, <2>2, <3>1, <3>2
    <3> QED BY <1>1, <1>2, <1>4, <2>1, <2>2, <2>4, <2>5, <3>3 DEF FleetWanted
  <2>6. CASE stage # "starting"
    <3>1. RunningCount <= desired + Extra
      BY <1>1, <2>6 DEF FleetWanted
    <3>2. Extra' = Extra /\ Extra \in 0..MinConsumers
      BY <1>2, <2>3, <2>6 DEF Extra
    <3>3. RunningCount' <= desired' + Extra'
      BY <1>2, <1>4, <2>1, <2>2, <3>1, <3>2
    <3> QED BY <1>1, <1>2, <1>4, <2>1, <2>2, <2>4, <2>6, <3>3 DEF FleetWanted
  <2> QED BY <1>1, <2>5, <2>6
<1> QED BY <1>2, <1>3, <1>4

\* The steps of the dashboard and of the other threads of the supervisor.
LEMMA OtherStep ==
  ASSUME FleetInv,
         \/ PublishCount \/ BeatLoopEnds \/ ClearPublished \/ PublishedExpires
         \/ \E command \in {"increment", "decrement"} : SendCommand(command)
         \/ PopCommand \/ ControlLoopEnds
         \/ ControlDies \/ BeatDies \/ SupervisorRestarts \/ UNCHANGED fleetVars
  PROVE  FleetInv'
<1> USE DEF FleetInv
<1>1. FleetBounds' /\ Running' = Running /\ UNCHANGED <<listed, alive>>
  BY DEF FleetBounds, Running, PublishCount, BeatLoopEnds, ClearPublished, PublishedExpires,
         SendCommand, PopCommand, ControlLoopEnds, ControlDies, BeatDies, SupervisorRestarts,
         fleetVars, workers
<1>2. CASE SupervisorRestarts
  <2>1. /\ stage = "ended" /\ stage' = "starting" /\ desired' = MinConsumers /\ ~managed
        /\ early' = FALSE /\ UNCHANGED <<managed, lost>>
    BY <1>2 DEF SupervisorRestarts
  <2>2. RunningCount' = 0
    BY <1>1, <2>1, FS_EmptySet DEF FleetWanted, RunningCount
  <2>3. Extra' = 0
    BY <2>1 DEF Extra
  <2>4. ~managed' /\ ~early' /\ managed' \in BOOLEAN /\ early' \in BOOLEAN
    BY <2>1 DEF FleetWanted
  <2>5. lost' \in Nat /\ MinConsumers + RunningCount' <= desired' + Extra' /\ desired' \in Nat
    BY <2>1, <2>2, <2>3, MinimumIsPositive DEF FleetWanted
  <2> QED BY <1>1, <2>1, <2>4, <2>5 DEF FleetWanted
<1>3. CASE ClearPublished
  <2>1. stage = "ending" /\ stage' = "cleared" /\ UNCHANGED <<managed, desired, early, lost>>
    BY <1>3 DEF ClearPublished
  <2>2. RunningCount' = RunningCount /\ Extra' = Extra
    BY <1>1, <2>1 DEF RunningCount, Extra
  <2> QED BY <1>1, <2>1, <2>2 DEF FleetWanted
<1>4. ASSUME UNCHANGED <<managed, stage, desired, early, lost>>, stage = "ended" => taken' = taken
      PROVE  FleetInv'
  BY <1>1, <1>4, SameRunning
<1>5. CASE \/ PublishCount \/ BeatLoopEnds \/ PublishedExpires
           \/ \E command \in {"increment", "decrement"} : SendCommand(command)
           \/ PopCommand \/ ControlLoopEnds
           \/ ControlDies \/ BeatDies \/ UNCHANGED fleetVars
  BY <1>4, <1>5 DEF PublishCount, BeatLoopEnds, PublishedExpires, SendCommand, PopCommand,
                    ControlLoopEnds, ControlDies, BeatDies, fleetVars, owner, supervisor
<1> QED BY <1>2, <1>3, <1>5

\* The invariant holds at first, and every step keeps it.
LEMMA FleetInvariant ==
  /\ FleetInit => FleetInv
  /\ FleetInv /\ [FleetNext]_fleetVars => FleetInv'
<1>1. ASSUME FleetInit PROVE FleetInv
  <2>1. FleetBounds
    BY <1>1 DEF FleetInit, FleetBounds
  <2>2. RunningCount = 0
    BY <1>1, FS_EmptySet DEF FleetInit, RunningCount, Running
  <2>3. desired \in Nat /\ (managed \/ desired = MinConsumers) /\ managed \in BOOLEAN
    BY <1>1, FleetAssumption DEF FleetInit, FleetAssumption
  <2>4. Extra = 0
    BY <1>1 DEF FleetInit, Extra
  <2>5. ~managed => MinConsumers + RunningCount <= desired + Extra
    BY <2>2, <2>3, <2>4, MinimumIsPositive
  <2> QED BY <1>1, <2>1, <2>3, <2>5 DEF FleetInit, FleetInv, FleetWanted
<1>2. ASSUME FleetInv, FleetNext PROVE FleetInv'
  BY <1>2, FleetWorkerStep, ManagerStep, CleanupStep, EndStep, SpawnMinimumStep, IncrementStep,
     DecrementStep, OtherStep
  DEF FleetNext
<1> QED BY <1>1, <1>2, OtherStep

\* Crashes are counted.
CrashCount == crashes \in Nat

LEMMA CrashesAreCounted ==
  /\ FleetInit => CrashCount
  /\ CrashCount /\ [FleetNext]_fleetVars => CrashCount'
<1> USE DEF CrashCount, owner, workers, supervisor, Leaves
<1>1. FleetInit => crashes \in Nat
  BY DEF FleetInit
<1>2. ASSUME crashes \in Nat, [FleetNext]_fleetVars PROVE crashes' \in Nat
  <2>1. ASSUME NEW w \in Workers, WorkerBeats(w) \/ WorkerDrains(w) \/ WorkerCrashes(w)
        PROVE  crashes' \in Nat
    BY <1>2, <2>1 DEF WorkerBeats, WorkerDrains, WorkerCrashes
  <2>2. CASE StartDefaults \/ IncrementManaged \/ DecrementManaged \/ ShutdownManaged
             \/ Cleanup \/ ProcessEnds
    BY <1>2, <2>2 DEF StartDefaults, IncrementManaged, DecrementManaged, ShutdownManaged,
                      Cleanup, ProcessEnds
  <2>3. CASE SpawnMinimum \/ PopCommand \/ HandleIncrement \/ HandleDecrement \/ ControlLoopEnds
    BY <1>2, <2>3 DEF SpawnMinimum, PopCommand, HandleIncrement, HandleDecrement,
                      ControlLoopEnds
  <2>4. CASE CountWorkers \/ PublishCount \/ BeatLoopEnds
    BY <1>2, <2>4 DEF CountWorkers, PublishCount, BeatLoopEnds
  <2>5. CASE Interrupt \/ ClearPublished \/ PublishedExpires
    BY <1>2, <2>5 DEF Interrupt, ClearPublished, PublishedExpires
  <2>6. CASE \E command \in {"increment", "decrement"} : SendCommand(command)
    BY <1>2, <2>6 DEF SendCommand
  <2>7. CASE ControlDies \/ BeatDies \/ SupervisorKilled \/ SupervisorRestarts
    BY <1>2, <2>7 DEF ControlDies, BeatDies, SupervisorKilled, SupervisorRestarts
  <2>8. CASE UNCHANGED fleetVars
    BY <1>2, <2>8 DEF fleetVars
  <2> QED BY <1>2, <2>1, <2>2, <2>3, <2>4, <2>5, <2>6, <2>7, <2>8 DEF FleetNext
<1> QED BY <1>1, <1>2

-----------------------------------------------------------------------------
\* Never more workers run than are wanted, save for a minimum spawned after a decrement;
\* and the manager is short of just those that crashed since it scaled last
\* (consumers/manager.py scale_to, consumers/supervisor.py).
THEOREM FleetRunsAsWanted == FleetSpec => []RunningAsWanted
<1>1. FleetInv => RunningAsWanted
  <2>1. ASSUME FleetInv, stage = "ended" PROVE RunningCount = 0
    BY <2>1, FS_EmptySet DEF FleetInv, FleetWanted, RunningCount
  <2>2. ASSUME FleetInv PROVE RunningCount \in Nat /\ Extra \in Nat
    BY <2>2, RunningIsFinite, MinimumIsPositive DEF FleetInv, FleetWanted, Extra
  <2>3. ASSUME FleetInv, stage = "starting" PROVE RunningCount <= desired + Extra
    <3>1. CASE managed
      <4>1. Running = {}
        BY <2>3, <3>1 DEF FleetInv, FleetWanted, Running
      <4>2. RunningCount = 0
        BY <4>1, FS_EmptySet DEF RunningCount
      <4> QED BY <2>2, <2>3, <4>2 DEF FleetInv, FleetWanted
    <3>2. CASE ~managed
      BY <2>2, <2>3, <3>2, MinimumIsPositive DEF FleetInv, FleetWanted
    <3> QED BY <3>1, <3>2
  <2>4. ASSUME FleetInv PROVE RunningCount <= desired + Extra
    BY <2>1, <2>2, <2>3, <2>4 DEF FleetInv, FleetWanted
  <2> QED BY <2>4 DEF FleetInv, FleetWanted, RunningAsWanted, Extra
<1> QED BY <1>1, FleetInvariant, PTL DEF FleetSpec

\* A supervisor stops no worker while no more than its minimum run, whatever has crashed
\* since (consumers/supervisor.py _handle_decrement).
THEOREM MinimumIsKept == FleetSpec => SupervisorKeepsMinimum
<1>1. FleetInv /\ CrashCount /\ [FleetNext]_fleetVars =>
        [~managed /\ crashes' = crashes /\ stage' = stage /\ stage \in {"starting", "running"} =>
           RunningCount' >= RunningCount \/ RunningCount' >= MinConsumers]_fleetVars
  <2> SUFFICES ASSUME FleetInv, CrashCount, [FleetNext]_fleetVars, ~managed,
                      crashes' = crashes, stage' = stage,
                      stage \in {"starting", "running"}
               PROVE  RunningCount' >= RunningCount \/ RunningCount' >= MinConsumers
    OBVIOUS
  <2>1. RunningCount \in Nat /\ MinConsumers \in Nat /\ desired \in Nat /\ crashes \in Nat
    BY RunningIsFinite, MinimumIsPositive DEF CrashCount, FleetInv, FleetWanted
  <2>2. CASE HandleIncrement
    BY <2>1, <2>2, SpawnAdds DEF HandleIncrement, FleetInv
  <2>3. CASE HandleDecrement
    <3>1. CASE desired <= MinConsumers
      <4>1. UNCHANGED <<draining, listed, alive>>
        BY <3>1, <2>3 DEF HandleDecrement
      <4> QED BY <2>1, <4>1 DEF RunningCount, Running
    <3>2. CASE desired > MinConsumers
      BY <2>1, <2>3, <3>2, DecrementTakes DEF FleetInv
    <3> QED BY <2>1, <3>1, <3>2
  <2>4. ASSUME Running' = Running PROVE RunningCount' >= RunningCount
    BY <2>1, <2>4 DEF RunningCount
  <2>5. ASSUME NEW w \in Workers, WorkerBeats(w) \/ WorkerDrains(w)
        PROVE  Running' = Running
    BY <2>5 DEF WorkerBeats, WorkerDrains, Leaves, Running, workers
  <2>6. CASE Cleanup \/ CountWorkers
    <3>1. Running' = Running
      BY <2>6 DEF Cleanup, CountWorkers, Running, Alive
    <3> QED BY <2>4, <3>1
  <2>7. CASE \/ PublishCount \/ BeatLoopEnds \/ ClearPublished \/ PublishedExpires
             \/ \E command \in {"increment", "decrement"} : SendCommand(command)
             \/ PopCommand \/ ControlLoopEnds \/ UNCHANGED fleetVars
    <3>1. Running' = Running
      BY <2>7 DEF PublishCount, BeatLoopEnds, ClearPublished, PublishedExpires, SendCommand,
                  PopCommand, ControlLoopEnds, fleetVars, workers, Running
    <3> QED BY <2>4, <3>1
  <2>8. ~StartDefaults /\ ~IncrementManaged /\ ~DecrementManaged /\ ~ShutdownManaged
    BY DEF StartDefaults, IncrementManaged, DecrementManaged, ShutdownManaged
  <2>9. ~ProcessEnds /\ ~SpawnMinimum /\ ~Interrupt /\ ~SupervisorRestarts
    BY DEF ProcessEnds, SpawnMinimum, Interrupt, SupervisorRestarts
  <2>10. /\ ~ControlDies /\ ~BeatDies /\ ~SupervisorKilled
         /\ \A w \in Workers : ~WorkerCrashes(w)
    BY <2>1 DEF ControlDies, BeatDies, SupervisorKilled, WorkerCrashes
  <2> QED
    BY <2>2, <2>3, <2>4, <2>5, <2>6, <2>7, <2>8, <2>9, <2>10 DEF FleetNext
<1> QED BY <1>1, FleetInvariant, CrashesAreCounted, PTL DEF FleetSpec, SupervisorKeepsMinimum

-----------------------------------------------------------------------------
(* The listeners.                                                          *)

\* The job of the first round of a pair.
First(p) == <<p[1], p[2], 1>>
PairOf(j) == <<j[1], j[2]>>

\* What there is to ask of a pair that is found.
Askable(p) == Kind[p[1]] = "web" /\ 1 \in 1..RoundsOf(p[1])

\* The number of rounds is a natural number.
LEMMA RoundsAreNatural ==
  ASSUME NEW t \in LegacyTasks
  PROVE  RoundsOf(t) \in Nat
BY ListenerAssumption DEF ListenerAssumption, RoundsOf

\* group_tasks_by_model makes a tuple for each round of an askable pair, 1 among them.
LEMMA ExpandedTuples ==
  ASSUME NEW pairs \in SUBSET Pairs
  PROVE  /\ \A j \in Expanded(pairs) :
              /\ j \in LegacyTasks \X Questions \X (Nat \ {0})
              /\ PairOf(j) \in pairs /\ Askable(PairOf(j))
              /\ First(PairOf(j)) \in Expanded(pairs)
         /\ \A p \in pairs : Askable(p) => First(p) \in Expanded(pairs)
<1>1. ASSUME NEW p \in pairs, Kind[p[1]] = "web", NEW r \in 1..RoundsOf(p[1])
      PROVE  <<p[1], p[2], r>> \in Expanded(pairs)
  BY <1>1 DEF Expanded
<1>2. \A p \in pairs : Askable(p) => First(p) \in Expanded(pairs)
  BY <1>1 DEF Askable, First
<1>3. ASSUME NEW j \in Expanded(pairs)
      PROVE  /\ j \in LegacyTasks \X Questions \X (Nat \ {0})
             /\ PairOf(j) \in pairs /\ Askable(PairOf(j))
             /\ First(PairOf(j)) \in Expanded(pairs)
  <2>1. PICK p \in pairs : Kind[p[1]] = "web" /\ \E r \in 1..RoundsOf(p[1]) : j = <<p[1], p[2], r>>
    BY DEF Expanded
  <2>2. PICK r \in 1..RoundsOf(p[1]) : j = <<p[1], p[2], r>>
    BY <2>1
  <2>3. p \in LegacyTasks \X Questions /\ RoundsOf(p[1]) \in Nat
    BY RoundsAreNatural DEF Pairs
  <2>4. PairOf(j) = p
    BY <2>2, <2>3 DEF PairOf
  <2>5. Askable(p) /\ r \in Nat \ {0}
    BY <2>1, <2>3 DEF Askable
  <2> QED BY <2>2, <2>3, <2>4, <2>5, <1>2
<1> QED BY <1>2, <1>3

\* run_concurrent is left with the first round of each.
LEMMA ScheduledFirst ==
  ASSUME NEW pairs \in SUBSET Pairs
  PROVE  /\ \A j \in Scheduled(Expanded(pairs)) :
              /\ j \in LegacyTasks \X Questions \X Nat
              /\ PairOf(j) \in pairs /\ Askable(PairOf(j)) /\ j = First(PairOf(j))
         /\ \A p \in pairs : Askable(p) => First(p) \in Scheduled(Expanded(pairs))
<1> DEFINE tuples == Expanded(pairs)
<1>1. ASSUME NEW j \in Scheduled(tuples)
      PROVE  /\ j \in LegacyTasks \X Questions \X Nat
             /\ PairOf(j) \in pairs /\ Askable(PairOf(j)) /\ j = First(PairOf(j))
  <2>1. PICK i \in tuples : /\ \A k \in tuples : SameQuestion(i, k) => i[3] <= k[3]
                            /\ \E r \in 1..i[3] : j = <<i[1], i[2], r>>
    BY DEF Scheduled
  <2>2. /\ i \in LegacyTasks \X Questions \X (Nat \ {0})
        /\ PairOf(i) \in pairs /\ Askable(PairOf(i)) /\ First(PairOf(i)) \in tuples
    BY ExpandedTuples
  <2>3. i[3] <= 1
    <3>1. SameQuestion(i, First(PairOf(i))) /\ First(PairOf(i))[3] = 1
      BY DEF SameQuestion, First, PairOf
    <3> QED BY <2>1, <2>2, <3>1
  <2>4. i[3] \in Nat \ {0}
    BY <2>2
  <2>5. j = <<i[1], i[2], 1>>
    BY <2>1, <2>3, <2>4
  <2>6. PairOf(j) = PairOf(i) /\ j = First(PairOf(j))
    BY <2>5 DEF PairOf, First
  <2> QED BY <2>2, <2>5, <2>6
<1>2. ASSUME NEW p \in pairs, Askable(p)
      PROVE  First(p) \in Scheduled(tuples)
  <2>1. First(p) \in tuples
    BY <1>2, ExpandedTuples
  <2>2. ASSUME NEW k \in tuples PROVE First(p)[3] <= k[3]
    <3>1. k \in LegacyTasks \X Questions \X (Nat \ {0})
      BY ExpandedTuples
    <3> QED BY <3>1 DEF First
  <2> DEFINE Least == {i \in tuples : \A k \in tuples : SameQuestion(i, k) => i[3] <= k[3]}
             Of(i) == {<<i[1], i[2], r>> : r \in 1..i[3]}
  <2>3. First(p) \in Least
    BY <2>1, <2>2
  <2>4. First(p) \in Of(First(p))
    BY DEF First
  <2>5. Scheduled(tuples) = UNION {Of(i) : i \in Least}
    BY DEF Scheduled
  <2> HIDE DEF Least, Of
  <2> QED BY <2>3, <2>4, <2>5
<1> QED BY <1>1, <1>2

-----------------------------------------------------------------------------
\* The run is for pairs that are not processed, each of them asked or to be asked,
\* and for all of a task that was found and never asked.
RunInv ==
  /\ processed \subseteq Pairs
  /\ fresh \subseteq Pairs
  /\ fresh \cap processed = {}
  /\ doing = "sleeping" => fresh = {} /\ jobs = {}
  /\ \A j \in jobs : /\ j \in LegacyTasks \X Questions \X Nat
                     /\ PairOf(j) \in fresh /\ Askable(PairOf(j)) /\ j = First(PairOf(j))
  /\ doing = "completing" => jobs = {}

\* A pair has been asked once for each restart, and once more if it is done with.
CountInv ==
  /\ restarts \in Nat
  /\ times \in [Pairs -> Nat]
  /\ \A p \in Pairs : times[p] <= 1 + restarts
  /\ \A p \in Pairs : \/ times[p] <= restarts
                      \/ p \in processed
                      \/ p \in fresh /\ First(p) \notin jobs

\* AFu's loop asks for its own tasks.
AfuInv ==
  /\ \A t \in afuTasks : Kind[t] = "afu"
  /\ \A j \in afuJobs : Kind[j[1]] = "afu"
  /\ \A j \in asked : Kind[j[1]] = "web" => j[3] = 1

\* What was found and not asked is not done.
FoundInv ==
  /\ visible \subseteq LegacyTasks
  /\ seen \subseteq Pairs
  /\ linked \in [LegacyTasks -> SUBSET Questions]
  /\ \A p \in seen : p[1] \in visible /\ p[2] \in linked[p[1]]
  /\ fresh \subseteq seen
  /\ \A p \in fresh : Askable(p) => First(p) \in asked \cup jobs
  /\ \A t \in LegacyTasks : Kind[t] = "web" /\ state[t] = "done" => 1 \in 1..RoundsOf(t)
  /\ \A p \in seen : Askable(p) /\ First(p) \notin asked /\ p \notin abandoned =>
       state[p[1]] # "done" /\ p \notin processed /\ (p[1] \in Tasks(fresh) => p \in fresh)

ListenerInv == RunInv /\ CountInv /\ AfuInv /\ FoundInv

\* The steps that touch neither the run nor what it has asked.
LEMMA ListenerIdles ==
  ASSUME ListenerInv, UNCHANGED <<listener, past, afuTasks, afuJobs, restarts, state>>,
         visible \subseteq visible', visible' \subseteq LegacyTasks,
         linked' \in [LegacyTasks -> SUBSET Questions],
         \A t \in visible : linked[t] \subseteq linked'[t]
  PROVE  ListenerInv'
BY DEF ListenerInv, RunInv, CountInv, AfuInv, FoundInv, listener, past, Tasks

\* A statement sets the status of some of the tasks it names.
LEMMA StatusWritten ==
  ASSUME NEW tasks, NEW s, SetState(tasks, s) \/ SetEach(tasks, s)
  PROVE  \A t \in LegacyTasks : state'[t] = state[t] \/ (t \in tasks /\ state'[t] = s)
BY DEF SetState, SetEach, Written

\* When the run has nothing left to ask, its tasks are asked all that was found.
LEMMA GroupIsAsked ==
  ASSUME ListenerInv, jobs = {}, NEW t \in Group
  PROVE  /\ 1 \in 1..RoundsOf(t)
         /\ \A p \in seen : p[1] = t /\ Askable(p) => First(p) \in asked \/ p \in abandoned
<1> USE DEF ListenerInv
<1>1. PICK j \in Scheduled(Expanded(fresh)) : j[1] = t
  BY DEF Group, Tasks
<1>2. fresh \in SUBSET Pairs
  BY DEF RunInv
<1>3. PairOf(j) \in fresh /\ Askable(PairOf(j)) /\ PairOf(j)[1] = t
  BY <1>1, <1>2, ScheduledFirst DEF PairOf
<1>4. t \in Tasks(fresh)
  BY <1>3 DEF Tasks
<1>5. ASSUME NEW p \in seen, p[1] = t, Askable(p)
      PROVE  First(p) \in asked \/ p \in abandoned
  <2>1. p \in fresh => First(p) \in asked
    BY <1>5 DEF FoundInv
  <2> QED BY <1>4, <1>5, <2>1 DEF FoundInv
<1> QED BY <1>3, <1>5 DEF Askable

\* A status that is not done, or done when all of the run is asked.
LEMMA StatusKeepsFound ==
  ASSUME ListenerInv, NEW tasks, NEW s,
         \A t \in LegacyTasks : state'[t] = state[t] \/ (t \in tasks /\ state'[t] = s),
         \/ s # "done"
         \/ \A t \in tasks : Kind[t] = "afu"
         \/ tasks = Group /\ jobs = {},
         UNCHANGED <<visible, linked, fresh, jobs, seen, asked, abandoned, processed>>
  PROVE  FoundInv'
<1> USE DEF ListenerInv
<1>1. ASSUME NEW t \in LegacyTasks, Kind[t] = "web", state'[t] = "done", state[t] # "done"
      PROVE  /\ 1 \in 1..RoundsOf(t)
             /\ \A p \in seen : p[1] = t /\ Askable(p) => First(p) \in asked \/ p \in abandoned
  <2>1. t \in Group /\ jobs = {}
    BY <1>1
  <2> QED BY <2>1, GroupIsAsked
<1>2. \A t \in LegacyTasks : Kind[t] = "web" /\ state'[t] = "done" => 1 \in 1..RoundsOf(t)
  BY <1>1 DEF FoundInv
<1>3. \A p \in seen : p[1] \in LegacyTasks
  BY DEF FoundInv
<1>4. ASSUME NEW p \in seen, Askable(p), First(p) \notin asked, p \notin abandoned
      PROVE  state'[p[1]] # "done" /\ p \notin processed /\ (p[1] \in Tasks(fresh) => p \in fresh)
  BY <1>1, <1>3, <1>4 DEF FoundInv, Askable
<1> QED BY <1>2, <1>4 DEF FoundInv, Tasks, Askable, First

-----------------------------------------------------------------------------
\* What the query finds.
LEMMA FoundPairs ==
  ASSUME ListenerInv
  PROVE  /\ Found \in SUBSET Pairs /\ Found \cap processed = {}
         /\ \A p \in Found : p[1] \in visible /\ p[2] \in linked[p[1]] /\ state[p[1]] = "new"
         /\ \A p \in Pairs : /\ p[1] \in Tasks(Found)
                             /\ p[2] \in linked[p[1]] /\ p \notin processed
                             => p \in Found
<1>1. NewRows \subseteq visible /\ \A t \in NewRows : state[t] = "new"
  BY DEF NewRows, New
<1>2. visible \subseteq LegacyTasks /\ \A t \in LegacyTasks : linked[t] \subseteq Questions
  BY DEF ListenerInv, FoundInv
<1>3. ASSUME NEW p \in Found
      PROVE  /\ p \in Pairs /\ p \notin processed /\ p[1] \in NewRows /\ p[2] \in linked[p[1]]
  <2>1. PICK t \in NewRows : p \in {t} \X linked[t]
    BY DEF Found
  <2>2. p \notin processed
    BY DEF Found
  <2>3. p = <<p[1], p[2]>> /\ p[1] = t /\ p[2] \in linked[t]
    BY <2>1
  <2> QED BY <1>1, <1>2, <2>1, <2>2, <2>3 DEF Pairs
<1>4. ASSUME NEW p \in Pairs, p[1] \in Tasks(Found), p[2] \in linked[p[1]], p \notin processed
      PROVE  p \in Found
  <2>1. p[1] \in NewRows
    BY <1>3, <1>4 DEF Tasks
  <2>2. p \in {p[1]} \X linked[p[1]]
    BY <1>4 DEF Pairs
  <2> QED BY <1>4, <2>1, <2>2 DEF Found
<1> QED BY <1>1, <1>3, <1>4

\* The listener finds pairs: a task that it finds again it finds with all of them.
LEMMA ListenerCheckStep ==
  ASSUME ListenerInv, Check
  PROVE  ListenerInv'
<1> USE DEF ListenerInv
<1>1. /\ doing = "sleeping" /\ fresh = {} /\ jobs = {} /\ seen' = seen \cup Found
      /\ UNCHANGED <<table, failed, afuLoop, mishaps, restarts, asked, times, abandoned>>
  BY DEF Check, RunInv
<1>2. /\ Found \in SUBSET Pairs /\ Found \cap processed = {}
      /\ \A p \in Found : p[1] \in visible /\ p[2] \in linked[p[1]] /\ state[p[1]] = "new"
  BY FoundPairs
<1>3. ASSUME NEW p \in seen, p[1] \in Tasks(Found), p \notin processed
      PROVE  p \in Found
  BY <1>3, FoundPairs DEF FoundInv
<1>4. CASE Expanded(Found) = {}
  <2>1. fresh' = {} /\ jobs' = {} /\ doing' = "sleeping" /\ processed' \subseteq processed \cup Found
        /\ processed \subseteq processed'
    BY <1>1, <1>4 DEF Check
  <2>2. \A p \in Found : ~Askable(p)
    BY <1>2, <1>4, ExpandedTuples
  <2>3. RunInv'
    BY <1>2, <2>1 DEF RunInv
  <2>4. CountInv'
    BY <1>1, <2>1 DEF CountInv
  <2>5. AfuInv'
    BY <1>1 DEF AfuInv, afuLoop
  <2>6. FoundInv'
    <3>1. visible' \subseteq LegacyTasks /\ seen' \subseteq Pairs /\ fresh' \subseteq seen'
          /\ linked' \in [LegacyTasks -> SUBSET Questions]
          /\ \A p \in seen' : p[1] \in visible' /\ p[2] \in linked'[p[1]]
      BY <1>1, <1>2, <2>1 DEF FoundInv, table
    <3>2. \A t \in LegacyTasks : Kind[t] = "web" /\ state'[t] = "done" => 1 \in 1..RoundsOf(t)
      BY <1>1 DEF FoundInv, table
    <3>3. \A p \in seen' : Askable(p) /\ First(p) \notin asked /\ p \notin abandoned =>
            p \in seen /\ state[p[1]] # "done" /\ p \notin processed'
      BY <1>1, <1>2, <2>1, <2>2 DEF FoundInv
    <3> QED BY <1>1, <2>1, <3>1, <3>2, <3>3 DEF FoundInv, table, Tasks, Askable
  <2> QED BY <2>3, <2>4, <2>5, <2>6
<1>5. CASE Expanded(Found) # {}
  <2>1. doing' = "marking" /\ fresh' = Found /\ jobs' = Scheduled(Expanded(Found))
        /\ UNCHANGED processed
    BY <1>1, <1>5 DEF Check
  <2>2. RunInv'
    BY <1>2, <2>1, ScheduledFirst DEF RunInv, PairOf, First, Askable
  <2>3. CountInv'
    BY <1>1, <2>1 DEF CountInv
  <2>4. AfuInv'
    BY <1>1 DEF AfuInv, afuLoop
  <2>5. FoundInv'
    <3>1. visible' \subseteq LegacyTasks /\ seen' \subseteq Pairs /\ fresh' \subseteq seen'
          /\ linked' \in [LegacyTasks -> SUBSET Questions]
          /\ \A p \in seen' : p[1] \in visible' /\ p[2] \in linked'[p[1]]
      BY <1>1, <1>2, <2>1 DEF FoundInv, table
    <3>2. \A t \in LegacyTasks : Kind[t] = "web" /\ state'[t] = "done" => 1 \in 1..RoundsOf(t)
      BY <1>1 DEF FoundInv, table
    <3>3. \A p \in seen' : Askable(p) /\ First(p) \notin asked /\ p \notin abandoned =>
            /\ state[p[1]] # "done" /\ p \notin processed
            /\ p[1] \in Tasks(Found) => p \in Found
      BY <1>1, <1>2, <1>3 DEF FoundInv
    <3>4. \A p \in Found : Askable(p) => First(p) \in jobs'
      BY <1>2, <2>1, ScheduledFirst
    <3> QED BY <1>1, <2>1, <3>1, <3>2, <3>3, <3>4 DEF FoundInv, table, Tasks, Askable, First
  <2> QED BY <2>2, <2>3, <2>4, <2>5
<1> QED BY <1>4, <1>5

\* A job is asked.
LEMMA AskStep ==
  ASSUME ListenerInv, NEW j \in jobs, Ask(j)
  PROVE  ListenerInv'
<1> USE DEF ListenerInv
<1> DEFINE p == PairOf(j)
<1>1. /\ p \in fresh /\ p \in Pairs /\ j = First(p) /\ Kind[j[1]] = "web" /\ p \notin processed
  BY DEF RunInv, Askable, PairOf
<1>2. /\ doing = "asking" /\ jobs' = jobs \ {j} /\ asked' = asked \cup {j}
      /\ times' = [times EXCEPT ![p] = times[p] + 1]
      /\ UNCHANGED <<table, last, processed, doing, fresh, afuLoop, mishaps, restarts, seen,
                     abandoned>>
  BY DEF Ask, PairOf
<1>3. times[p] <= restarts
  BY <1>1 DEF CountInv
<1>4. RunInv'
  BY <1>2 DEF RunInv, Askable, PairOf, First
<1>5. CountInv'
  <2>1. \A q \in Pairs : times'[q] = IF q = p THEN times[q] + 1 ELSE times[q]
    BY <1>1, <1>2 DEF CountInv
  <2>2. times' \in [Pairs -> Nat] /\ restarts' \in Nat /\ restarts' = restarts
    BY <1>1, <1>2 DEF CountInv
  <2>3. First(p) \notin jobs'
    BY <1>1, <1>2
  <2> HIDE DEF p
  <2> QED BY <1>1, <1>2, <1>3, <2>1, <2>2, <2>3 DEF CountInv, First
<1>6. AfuInv'
  BY <1>1, <1>2 DEF AfuInv, afuLoop, First
<1>7. FoundInv'
  BY <1>2 DEF FoundInv, table, Tasks, Askable, First
<1> QED BY <1>4, <1>5, <1>6, <1>7

\* The listener's steps.
LEMMA RunStep ==
  ASSUME ListenerInv, ListenerStep \/ Restart
  PROVE  ListenerInv'
<1> USE DEF ListenerInv
<1>1. CASE Mark
  <2>1. FoundInv'
    BY <1>1, StatusWritten, StatusKeepsFound DEF Mark, past
  <2>2. RunInv' /\ CountInv' /\ AfuInv'
    BY <1>1 DEF Mark, RunInv, CountInv, AfuInv, past, afuLoop, Askable, First, PairOf
  <2> QED BY <2>1, <2>2
<1>2. CASE Start
  <2>1. FoundInv'
    BY <1>2, StatusWritten, StatusKeepsFound DEF Start, past
  <2>2. RunInv' /\ CountInv' /\ AfuInv'
    BY <1>2 DEF Start, RunInv, CountInv, AfuInv, past, afuLoop
  <2> QED BY <2>1, <2>2
<1>3. CASE StartFails
  BY <1>3 DEF StartFails, RunInv, CountInv, AfuInv, FoundInv, past, afuLoop, table, Tasks
<1>4. CASE Check
  BY <1>4, ListenerCheckStep
<1>5. CASE \E j \in jobs : Ask(j)
  BY <1>5, AskStep
<1>6. CASE Finish
  <2>1. FoundInv'
    <3>1. CASE failed
      BY <1>6, <3>1 DEF Finish, past, FoundInv, Tasks
    <3>2. CASE ~failed
      BY <1>6, <3>2, StatusWritten, StatusKeepsFound DEF Finish, past
    <3> QED BY <3>1, <3>2
  <2>2. RunInv' /\ CountInv' /\ AfuInv'
    BY <1>6 DEF Finish, RunInv, CountInv, AfuInv, past, afuLoop
  <2> QED BY <2>1, <2>2
<1>7. CASE CompleteGroup
  <2>1. jobs = {}
    BY <1>7 DEF CompleteGroup, RunInv
  <2>2. \A t \in LegacyTasks : state'[t] = state[t] \/ t \in Group
    BY <1>7, StatusWritten DEF CompleteGroup
  <2>3. \A t \in LegacyTasks : Kind[t] = "web" /\ state'[t] = "done" => 1 \in 1..RoundsOf(t)
    BY <2>1, <2>2, GroupIsAsked DEF FoundInv
  <2>4. ASSUME NEW p \in seen, Askable(p), First(p) \notin asked, p \notin abandoned
        PROVE  state'[p[1]] # "done" /\ p \notin processed \cup fresh
    <3>1. p \notin fresh /\ p \notin processed /\ p[1] \in LegacyTasks /\ state[p[1]] # "done"
      BY <2>1, <2>4 DEF FoundInv
    <3>2. p[1] \notin Group
      BY <2>1, <2>4, GroupIsAsked
    <3> QED BY <2>2, <3>1, <3>2
  <2>5. FoundInv'
    BY <1>7, <2>3, <2>4 DEF CompleteGroup, past, FoundInv, Tasks
  <2>6. RunInv' /\ CountInv' /\ AfuInv'
    BY <1>7, <2>1 DEF CompleteGroup, RunInv, CountInv, AfuInv, past, afuLoop
  <2> QED BY <2>5, <2>6
<1>8. CASE Restart
  BY <1>8 DEF Restart, RunInv, CountInv, AfuInv, FoundInv, past, afuLoop, table, Tasks
<1> QED BY <1>1, <1>2, <1>3, <1>4, <1>5, <1>6, <1>7, <1>8 DEF ListenerStep

\* AFu's loop asks and completes tasks of its own.
LEMMA AfuStepKeeps ==
  ASSUME ListenerInv, AfuStep
  PROVE  ListenerInv'
<1> USE DEF ListenerInv
<1>1. UNCHANGED <<world, visible, linked, listener, restarts, seen, times, abandoned>>
  BY DEF AfuStep, AfuTake, AfuMark, AfuAsk, AfuComplete, table, past
<1>2. RunInv' /\ CountInv'
  BY <1>1 DEF RunInv, CountInv, listener
<1>3. CASE AfuTake
  <2>1. \A p \in Unique : Kind[p[1]] = "afu"
    BY DEF Unique, AfuRows
  <2>2. \A t \in afuTasks' : Kind[t] = "afu"
    BY <1>3, <2>1 DEF AfuTake, Tasks
  <2>3. \A j \in afuJobs' : Kind[j[1]] = "afu"
    BY <1>3, <2>1 DEF AfuTake
  <2>4. AfuInv'
    BY <1>3, <2>2, <2>3 DEF AfuTake, AfuInv, past
  <2>5. FoundInv'
    BY <1>3 DEF AfuTake, FoundInv, listener, table, past, Tasks
  <2> QED BY <1>2, <2>4, <2>5
<1>4. CASE AfuMark
  <2>1. FoundInv'
    BY <1>4, StatusWritten, StatusKeepsFound DEF AfuMark, past, listener
  <2>2. AfuInv'
    BY <1>4 DEF AfuMark, AfuInv, past
  <2> QED BY <1>2, <2>1, <2>2
<1>5. CASE AfuAsk
  <2>1. AfuInv'
    BY <1>5 DEF AfuAsk, AfuInv
  <2>2. FoundInv'
    BY <1>5 DEF AfuAsk, FoundInv, listener, table, Tasks
  <2> QED BY <1>2, <2>1, <2>2
<1>6. CASE AfuComplete
  <2>1. \A t \in afuTasks : Kind[t] = "afu"
    BY DEF AfuInv
  <2>2. FoundInv'
    BY <1>6, <2>1, StatusWritten, StatusKeepsFound DEF AfuComplete, past, listener
  <2>3. AfuInv'
    BY <1>6 DEF AfuComplete, AfuInv, past
  <2> QED BY <1>2, <2>2, <2>3
<1> QED BY <1>3, <1>4, <1>5, <1>6 DEF AfuStep

\* Rows appear, and questions are linked to them.
LEMMA TableStep ==
  ASSUME ListenerInv,
         \/ \E t \in LegacyTasks, qs \in SUBSET Questions : Appear(t, qs)
         \/ \E t \in LegacyTasks, q \in Questions : Link(t, q)
  PROVE  ListenerInv'
<1>1. visible \subseteq LegacyTasks /\ linked \in [LegacyTasks -> SUBSET Questions]
  BY DEF ListenerInv, FoundInv
<1>2. ASSUME NEW t \in LegacyTasks, NEW qs \in SUBSET Questions, Appear(t, qs)
      PROVE  ListenerInv'
  BY <1>1, <1>2, ListenerIdles DEF Appear, afuLoop
<1>3. ASSUME NEW t \in LegacyTasks, NEW q \in Questions, Link(t, q)
      PROVE  ListenerInv'
  BY <1>1, <1>3, ListenerIdles DEF Link, afuLoop
<1> QED BY <1>2, <1>3

\* All of it holds at first, and every step keeps it.
LEMMA ListenerInvariant ==
  /\ ListenerInit => ListenerInv
  /\ ListenerInv /\ [ListenerNext]_listenerVars => ListenerInv'
<1>1. ASSUME ListenerInit PROVE ListenerInv
  <2>1. RunInv /\ AfuInv
    BY <1>1 DEF ListenerInit, RunInv, AfuInv
  <2>2. CountInv
    BY <1>1 DEF ListenerInit, CountInv
  <2>3. FoundInv
    BY <1>1 DEF ListenerInit, FoundInv
  <2> QED BY <2>1, <2>2, <2>3 DEF ListenerInv
<1>2. ASSUME ListenerInv, UNCHANGED listenerVars PROVE ListenerInv'
  <2>1. visible \subseteq LegacyTasks /\ linked \in [LegacyTasks -> SUBSET Questions]
    BY <1>2 DEF ListenerInv, FoundInv
  <2> QED BY <1>2, <2>1, ListenerIdles DEF listenerVars, table, afuLoop
<1> QED BY <1>1, <1>2, RunStep, AfuStepKeeps, TableStep DEF ListenerNext

-----------------------------------------------------------------------------
\* py_main.py asks a question of a task at most once between two of its starts,
\* whichever of its status updates fail, and one round of it, whatever MaxRounds says
\* (the round numbers it expands are read as repetitions by run_concurrent).
THEOREM ListenerAsksOnce == ListenerSpec => []AskedOnce
<1>1. ListenerInv => AskedOnce
  BY DEF ListenerInv, CountInv, AfuInv, AskedOnce
<1> QED BY <1>1, ListenerInvariant, PTL DEF ListenerSpec

\* A task that is set to done has been asked all that the listener ever found for it,
\* save in a run that raised before it began (py_main.py run_single_model).
THEOREM ListenerCompletesWhatItAsked == ListenerSpec => []DoneMeansAsked
<1>1. ListenerInv => DoneMeansAsked
  <2>1. ASSUME ListenerInv, NEW p \in seen, Kind[p[1]] = "web", state[p[1]] = "done"
        PROVE  First(p) \in asked \/ p \in abandoned
    <3>1. p[1] \in LegacyTasks
      BY <2>1 DEF ListenerInv, FoundInv
    <3>2. Askable(p)
      BY <2>1, <3>1 DEF ListenerInv, FoundInv, Askable
    <3> QED BY <2>1, <3>2 DEF ListenerInv, FoundInv
  <2> QED BY <2>1 DEF DoneMeansAsked, First
<1> QED BY <1>1, ListenerInvariant, PTL DEF ListenerSpec

\* The rest of the types of the fleet.
FleetRest ==
  /\ spawned <= MaxWorkers
  /\ keyOf \in [Workers -> Workers]
  /\ keys \subseteq Workers
  /\ pending \in Seq({"increment", "decrement"})
  /\ control \in {"up", "down"}
  /\ taken \in {"none", "increment", "decrement"}
  /\ beat \in {"count", "publish", "down"}
  /\ counted \in Nat
  /\ published \in Nat \cup {Unpublished}
  /\ commands \in 0..MaxCommands
  /\ crashes \in 0..MaxCrashes

\* Spawning names the new workers by workers.
LEMMA SpawnNames ==
  ASSUME FleetInv, FleetRest, NEW n \in Nat, NEW list, Spawn(n, list)
  PROVE  spawned' <= MaxWorkers /\ keyOf' \in [Workers -> Workers]
<1>1. spawned \in Nat /\ MaxWorkers \in Nat /\ spawned' = spawned + n /\ spawned + n <= MaxWorkers
  BY FleetAssumption DEF FleetAssumption, FleetInv, FleetBounds, Spawn
<1>2. PICK same \in BOOLEAN :
        keyOf' = [w \in Workers |-> IF same /\ w \in (spawned + 1)..(spawned + n)
                                    THEN spawned + 1 ELSE keyOf[w]]
  BY DEF Spawn
<1>3. \A w \in (spawned + 1)..(spawned + n) : spawned + 1 \in Workers
  BY <1>1 DEF Workers
<1>4. \A w \in Workers : keyOf[w] \in Workers
  BY DEF FleetRest
<1> QED BY <1>1, <1>2, <1>3, <1>4

LEMMA FleetRestKept ==
  FleetInv /\ FleetRest /\ [FleetNext]_fleetVars => FleetRest'
<1> SUFFICES ASSUME FleetInv, FleetRest, [FleetNext]_fleetVars PROVE FleetRest'
  OBVIOUS
<1> USE DEF owner, workers, supervisor
<1>1. MaxWorkers \in Nat /\ MaxCommands \in Nat /\ MaxCrashes \in Nat /\ MinConsumers \in Nat
  BY FleetAssumption DEF FleetAssumption
<1>2. ASSUME NEW w \in Workers, WorkerBeats(w) \/ WorkerDrains(w) \/ WorkerCrashes(w)
      PROVE  FleetRest'
  <2>1. UNCHANGED <<spawned, keyOf, pending, supervisor, published, commands>>
    BY <1>2 DEF WorkerBeats, WorkerDrains, WorkerCrashes, Leaves
  <2>2. keys' \subseteq Workers
    BY <1>2 DEF WorkerBeats, WorkerDrains, WorkerCrashes, Leaves, FleetRest
  <2>3. crashes' \in 0..MaxCrashes
    BY <1>1, <1>2 DEF WorkerBeats, WorkerDrains, WorkerCrashes, FleetRest
  <2> QED BY <2>1, <2>2, <2>3 DEF FleetRest
<1>3. CASE StartDefaults \/ IncrementManaged \/ DecrementManaged
  <2>1. /\ UNCHANGED <<keys, pending, supervisor, published, crashes>>
        /\ commands' = commands \/ AcceptCommand
        /\ \E k \in {desired, desired + 1, IF desired > 1 THEN desired - 1 ELSE 1} : ScaleTo(k)
    BY <1>3 DEF StartDefaults, IncrementManaged, DecrementManaged
  <2>2. PICK k \in {desired, desired + 1, IF desired > 1 THEN desired - 1 ELSE 1} : ScaleTo(k)
    BY <2>1
  <2>3. k \in Nat
    BY DEF FleetInv, FleetWanted
  <2>4. \/ \E n \in Nat : Spawn(n, Alive)
        \/ UNCHANGED <<spawned, keyOf>>
    <3>1. Working = Running
      BY DEF Working, Running, Alive
    <3>2. Cardinality(Working) \in Nat
      BY <3>1, RunningIsFinite DEF FleetInv, RunningCount
    <3>3. k > Cardinality(Working) => k - Cardinality(Working) \in Nat
      BY <2>3, <3>2
    <3> QED BY <2>2, <3>3 DEF ScaleTo
  <2>5. spawned' <= MaxWorkers /\ keyOf' \in [Workers -> Workers]
    BY <2>4, SpawnNames DEF FleetRest
  <2>6. commands' \in 0..MaxCommands
    BY <1>1, <2>1 DEF AcceptCommand, FleetRest
  <2> QED BY <2>1, <2>5, <2>6 DEF FleetRest
<1>4. CASE ShutdownManaged \/ Cleanup \/ ProcessEnds \/ Interrupt
  <2>1. UNCHANGED <<spawned, keyOf, keys, pending, control, beat, counted, published, commands,
                    crashes>>
        /\ taken' \in {taken, "none"}
    BY <1>4 DEF ShutdownManaged, Cleanup, ProcessEnds, Interrupt
  <2> QED BY <2>1 DEF FleetRest
<1>5. CASE SpawnMinimum \/ HandleIncrement
  <2>1. /\ UNCHANGED <<keys, pending, beat, counted, published, commands, crashes>>
        /\ \E n \in Nat : Spawn(n, listed)
    BY <1>1, <1>5 DEF SpawnMinimum, HandleIncrement
  <2>2. taken' \in {taken, "none"} /\ control' \in {control, "down"}
    BY <1>5 DEF SpawnMinimum, HandleIncrement, Handles
  <2>3. spawned' <= MaxWorkers /\ keyOf' \in [Workers -> Workers]
    BY <2>1, SpawnNames
  <2> QED BY <2>1, <2>2, <2>3 DEF FleetRest
<1>6. CASE HandleDecrement \/ ControlLoopEnds
  <2>1. UNCHANGED <<spawned, keyOf, keys, pending, beat, counted, published, commands, crashes>>
    BY <1>6 DEF HandleDecrement, ControlLoopEnds
  <2>2. taken' \in {taken, "none"} /\ control' \in {control, "down"}
    BY <1>6 DEF HandleDecrement, ControlLoopEnds, Handles
  <2> QED BY <2>1, <2>2 DEF FleetRest
<1>10. CASE PopCommand
  <2>1. UNCHANGED <<spawned, keyOf, keys, control, beat, counted, published, commands, crashes>>
    BY <1>10 DEF PopCommand
  <2>2. pending' \in Seq({"increment", "decrement"}) /\ taken' \in {"increment", "decrement"}
    BY <1>10 DEF PopCommand, FleetRest
  <2> QED BY <2>1, <2>2 DEF FleetRest
<1>7. CASE CountWorkers \/ PublishCount \/ BeatLoopEnds \/ ClearPublished \/ PublishedExpires
             \/ \E command \in {"increment", "decrement"} : SendCommand(command)
  <2>1. UNCHANGED <<spawned, keyOf, keys, control, taken, crashes>>
    BY <1>7 DEF CountWorkers, PublishCount, BeatLoopEnds, ClearPublished, PublishedExpires,
       SendCommand
  <2>2. RunningCount \in Nat
    BY RunningIsFinite DEF FleetInv
  <2>3. /\ beat' \in {"count", "publish", "down"} /\ counted' \in Nat
        /\ published' \in Nat \cup {Unpublished}
    BY <1>7, <2>2 DEF CountWorkers, PublishCount, BeatLoopEnds, ClearPublished,
       PublishedExpires,
       SendCommand, FleetRest
  <2>4. commands' \in 0..MaxCommands
    BY <1>1, <1>7 DEF CountWorkers, PublishCount, BeatLoopEnds, ClearPublished,
       PublishedExpires,
       SendCommand, AcceptCommand, FleetRest
  <2>5. pending' \in Seq({"increment", "decrement"})
    <3>1. \/ pending' = pending
          \/ \E command \in {"increment", "decrement"} : pending' = Append(pending, command)
      BY <1>7 DEF CountWorkers, PublishCount, BeatLoopEnds, ClearPublished, PublishedExpires,
         SendCommand
    <3>2. pending \in Seq({"increment", "decrement"})
      BY DEF FleetRest
    <3>3. ASSUME NEW command \in {"increment", "decrement"}
          PROVE  Append(pending, command) \in Seq({"increment", "decrement"})
      BY <3>2
    <3> QED BY <3>1, <3>2, <3>3
  <2> QED BY <2>1, <2>3, <2>4, <2>5 DEF FleetRest
<1>8. CASE ControlDies \/ BeatDies \/ SupervisorKilled \/ SupervisorRestarts
  <2>1. UNCHANGED <<spawned, keyOf, keys, pending, counted, published, commands>>
    BY <1>8 DEF ControlDies, BeatDies, SupervisorKilled, SupervisorRestarts
  <2>2. /\ control' \in {"up", "down"} /\ beat' \in {"count", "publish", "down"}
        /\ taken' \in {taken, "none"}
    BY <1>8 DEF ControlDies, BeatDies, SupervisorKilled, SupervisorRestarts, FleetRest
  <2>3. crashes' \in 0..MaxCrashes
    BY <1>1, <1>8 DEF ControlDies, BeatDies, SupervisorKilled, SupervisorRestarts, FleetRest
  <2> QED BY <2>1, <2>2, <2>3 DEF FleetRest
<1>9. CASE UNCHANGED fleetVars
  BY <1>9 DEF fleetVars, FleetRest
<1> QED BY <1>2, <1>3, <1>4, <1>5, <1>6, <1>7, <1>8, <1>9, <1>10 DEF FleetNext

LEMMA FleetTypes ==
  /\ FleetInit => FleetRest
  /\ FleetInv /\ FleetRest => FleetTypeOK
<1>1. FleetInit => FleetRest
  BY FleetAssumption DEF FleetAssumption, FleetInit, FleetRest, Workers
<1>2. ASSUME FleetInv, FleetRest PROVE FleetTypeOK
  <2>1. spawned \in 0..MaxWorkers /\ 1..spawned \subseteq Workers
    BY <1>2, FleetAssumption DEF FleetAssumption, FleetInv, FleetBounds, FleetRest, Workers
  <2> QED BY <1>2, <2>1 DEF FleetInv, FleetBounds, FleetWanted, FleetRest, FleetTypeOK
<1> QED BY <1>1, <1>2

\* The types of the fleet.
THEOREM FleetTypeCorrect == FleetSpec => []FleetTypeOK
BY FleetInvariant, FleetRestKept, FleetTypes, PTL DEF FleetSpec

-----------------------------------------------------------------------------
\* The rest of the types of the listeners.
ListenerRest ==
  /\ world \in Worlds
  /\ state \in [LegacyTasks -> {"new", "running", "done"}]
  /\ last \in Nat
  /\ doing \in {"sleeping", "marking", "starting", "asking", "completing"}
  /\ failed \in BOOLEAN
  /\ afu \in {"sleeping", "marking", "asking", "completing"}
  /\ afuTasks \subseteq LegacyTasks
  /\ afuJobs \subseteq LegacyTasks \X (Questions \cup {NoQuestion}) \X Nat
  /\ mishaps \in 0..world.mishaps
  /\ restarts <= MaxRestarts
  /\ asked \subseteq LegacyTasks \X (Questions \cup {NoQuestion}) \X Nat
  /\ abandoned \subseteq Pairs

\* Of finitely many numbers one is the greatest.
LEMMA GreatestNumber ==
  ASSUME NEW S \in SUBSET Nat, IsFiniteSet(S), S # {}
  PROVE  \E m \in S : \A i \in S : i <= m
<1>1. PICK n \in Nat : ExistsBijection(1..n, S)
  BY FS_NatBijection
<1>2. PICK f \in Bijection(1..n, S) : TRUE
  BY <1>1 DEF ExistsBijection
<1>3. f \in [1..n -> S]
  BY <1>2 DEF Bijection, Injection
<1>4. \A x \in S : \E i \in 1..n : f[i] = x
  BY <1>2 DEF Bijection, Surjection
<1> DEFINE Dominated(k) == \E m \in S : \A i \in 1..k : f[i] <= m
           Undominated == {k \in 0..n : ~Dominated(k)}
<1>5. Dominated(0)
  <2>1. PICK m \in S : TRUE
    OBVIOUS
  <2>2. \A i \in 1..0 : f[i] <= m
    OBVIOUS
  <2> QED BY <2>2
<1>6. ASSUME NEW k \in 1..n, Dominated(k - 1) PROVE Dominated(k)
  <2>1. PICK m \in S : \A i \in 1..(k - 1) : f[i] <= m
    BY <1>6
  <2>2. f[k] \in S /\ f[k] \in Int /\ m \in Int
    <3>1. \A j \in 1..n : f[j] \in S
      BY <1>3
    <3>2. f[k] \in S /\ m \in S
      BY <3>1
    <3>3. \A j \in S : j \in Int
      OBVIOUS
    <3> QED BY <3>2, <3>3
  <2>3. \A i \in 1..k : i \in 1..(k - 1) \/ i = k
    OBVIOUS
  <2>4. CASE f[k] <= m
    <3>1. \A i \in 1..k : f[i] <= m
      BY <2>1, <2>3, <2>4
    <3> QED BY <3>1
  <2>5. CASE m <= f[k]
    <3>1. ASSUME NEW i \in 1..k PROVE f[i] <= f[k]
      <4>1. i \in 1..n
        OBVIOUS
      <4>2. f[i] \in Int
        <5>1. f[i] \in S
          BY <1>3, <4>1
        <5>2. \A j \in S : j \in Int
          OBVIOUS
        <5> QED BY <5>1, <5>2
      <4>3. i = k \/ f[i] <= m
        BY <2>1, <2>3
      <4> QED BY <2>2, <2>5, <4>2, <4>3
    <3> QED BY <2>2, <3>1
  <2> QED BY <2>2, <2>4, <2>5
<1> HIDE DEF Dominated
<1>7. Dominated(n)
  <2> SUFFICES ASSUME ~Dominated(n) PROVE FALSE
    OBVIOUS
  <2>1. Undominated \in SUBSET Nat /\ n \in Undominated
    OBVIOUS
  <2>2. PICK k \in Undominated : \A u \in Undominated : k <= u
    BY <2>1, LeastTask
  <2>3. k \in 0..n /\ ~Dominated(k)
    OBVIOUS
  <2>4. k \in 1..n
    BY <1>5, <2>3
  <2>5. ~(k - 1 \in Undominated)
    BY <2>2, <2>4
  <2>6. Dominated(k - 1)
    BY <2>4, <2>5
  <2> QED BY <1>6, <2>3, <2>4, <2>6
<1>8. PICK m \in S : \A i \in 1..n : f[i] <= m
  BY <1>7 DEF Dominated
<1> QED BY <1>4, <1>8

\* The rows have a newest, and those of AFu an oldest.
LEMMA NewestIs ==
  ASSUME NEW tasks \in SUBSET LegacyTasks, tasks # {}
  PROVE  Newest(tasks) \in Nat
<1> DEFINE S == {Created[t] : t \in tasks}
<1>1. S \in SUBSET Nat /\ S # {}
  <2>1. \A t \in tasks : Created[t] \in Nat
    BY ListenerAssumption DEF ListenerAssumption
  <2> QED BY <2>1
<1>2. IsFiniteSet(S)
  <2>1. IsFiniteSet(tasks)
    BY ListenerAssumption, FS_Subset DEF ListenerAssumption
  <2> DEFINE f == [t \in tasks |-> Created[t]]
  <2>2. f \in Surjection(tasks, S)
    <3>1. f \in [tasks -> S]
      OBVIOUS
    <3>2. \A s \in S : \E t \in tasks : f[t] = s
      OBVIOUS
    <3> QED BY <3>1, <3>2, Zenon DEF Surjection
  <2> QED BY <2>1, <2>2, FS_Surjection, Zenon
<1>3. PICK m \in S : \A i \in S : i <= m
  BY <1>1, <1>2, GreatestNumber
<1>4. \A t \in tasks : Created[t] <= m
  BY <1>3
<1>5. Newest(tasks) \in S
  BY <1>4 DEF Newest
<1> QED BY <1>1, <1>5

LEMMA OldestIs ==
  ASSUME visible \subseteq LegacyTasks, AfuRows # {}
  PROVE  Oldest \in AfuRows
<1>1. /\ AfuRows \subseteq LegacyTasks
      /\ \A t \in LegacyTasks : t \in Nat /\ Created[t] \in Nat
  BY ListenerAssumption DEF ListenerAssumption, AfuRows, New
<1> DEFINE S == {Created[t] : t \in AfuRows}
<1>2. PICK m \in S : \A i \in S : m <= i
  <2>1. S \in SUBSET Nat /\ S # {}
    BY <1>1
  <2> QED BY <2>1, LeastTask
<1> DEFINE T == {t \in AfuRows : Created[t] = m}
<1>3. PICK t \in T : \A u \in T : t <= u
  <2>1. T \in SUBSET Nat /\ T # {}
    BY <1>1, <1>2
  <2> QED BY <2>1, LeastTask
<1>4. ASSUME NEW u \in AfuRows PROVE Before(t, u)
  <2>1. m <= Created[u] /\ Created[u] \in Nat /\ m \in Nat /\ Created[t] = m
    BY <1>1, <1>2, <1>3
  <2> QED BY <1>3, <2>1 DEF Before
<1> QED BY <1>3, <1>4 DEF Oldest

\* The tasks of a run are tasks.
LEMMA GroupIs ==
  ASSUME ListenerInv
  PROVE  Group \subseteq LegacyTasks
<1>1. fresh \in SUBSET Pairs
  BY DEF ListenerInv, RunInv
<1>2. \A j \in Scheduled(Expanded(fresh)) : j[1] \in LegacyTasks
  BY <1>1, ScheduledFirst
<1> QED BY <1>2 DEF Group, Tasks

\* What a statement sets are statuses, and it may fail but so often.
LEMMA StatusTyped ==
  ASSUME ListenerRest, NEW tasks, NEW s \in {"running", "done"},
         SetState(tasks, s) \/ SetEach(tasks, s)
  PROVE  /\ state' \in [LegacyTasks -> {"new", "running", "done"}]
         /\ mishaps' \in 0..world.mishaps
<1>1. world.mishaps \in Nat
  BY ListenerAssumption DEF ListenerAssumption, ListenerRest
<1>2. (\E some : Written(some, s)) /\ (UNCHANGED mishaps \/ Mishap)
  BY DEF SetState, SetEach
<1>3. state' \in [LegacyTasks -> {"new", "running", "done"}]
  BY <1>2 DEF Written, ListenerRest
<1> QED BY <1>1, <1>2, <1>3 DEF Mishap, ListenerRest

LEMMA ListenerRestKept ==
  ListenerInv /\ ListenerRest /\ [ListenerNext]_listenerVars => ListenerRest'
<1> SUFFICES ASSUME ListenerInv, ListenerRest, [ListenerNext]_listenerVars PROVE ListenerRest'
  OBVIOUS
<1> USE DEF table, listener, afuLoop, past
<1>1. world.mishaps \in Nat /\ MaxRestarts \in Nat
  BY ListenerAssumption DEF ListenerAssumption, ListenerRest
<1>2. CASE UNCHANGED listenerVars
  BY <1>2 DEF listenerVars, ListenerRest
<1>3. ASSUME NEW t \in LegacyTasks,
             (\E qs \in SUBSET Questions : Appear(t, qs)) \/ (\E q \in Questions : Link(t, q))
      PROVE  ListenerRest'
  BY <1>3 DEF Appear, Link, ListenerRest
<1>4. CASE Check
  <2>1. NewRows \in SUBSET LegacyTasks
    BY DEF NewRows, New, ListenerInv, FoundInv
  <2>2. last' \in Nat
    BY <1>4, <2>1, NewestIs DEF Check
  <2>3. doing' \in {"sleeping", "marking"}
    BY <1>4 DEF Check
  <2>4. UNCHANGED <<table, failed, afuLoop, mishaps, restarts, asked, abandoned>>
    BY <1>4 DEF Check
  <2> QED BY <2>2, <2>3, <2>4 DEF ListenerRest
<1>5. CASE Mark \/ Start \/ CompleteGroup
  <2>1. /\ SetState(Group, "running") \/ SetEach(Group, "running") \/ SetState(Group, "done")
        /\ doing' \in {"starting", "asking", "sleeping"} /\ failed' \in BOOLEAN
        /\ UNCHANGED <<world, last, afuLoop, restarts, asked, abandoned>>
    BY <1>5 DEF Mark, Start, CompleteGroup, ListenerRest
  <2>2. /\ state' \in [LegacyTasks -> {"new", "running", "done"}]
        /\ mishaps' \in 0..world.mishaps
    BY <2>1, StatusTyped
  <2> QED BY <2>1, <2>2 DEF ListenerRest
<1>6. CASE StartFails
  BY <1>1, <1>6 DEF StartFails, Mishap, ListenerRest, ListenerInv, RunInv
<1>7. ASSUME NEW j \in jobs, Ask(j) PROVE ListenerRest'
  <2>1. j \in LegacyTasks \X Questions \X Nat
    BY DEF ListenerInv, RunInv
  <2>2. j \in LegacyTasks \X (Questions \cup {NoQuestion}) \X Nat
    BY <2>1
  <2> QED BY <1>7, <2>2 DEF Ask, ListenerRest
<1>8. CASE Finish
  <2>1. /\ UNCHANGED <<state, mishaps>> \/ SetEach(Group, "done")
        /\ doing' = "completing"
        /\ UNCHANGED <<world, last, failed, afuLoop, restarts, asked, abandoned>>
    BY <1>8 DEF Finish
  <2>2. /\ state' \in [LegacyTasks -> {"new", "running", "done"}]
        /\ mishaps' \in 0..world.mishaps
    BY <2>1, StatusTyped DEF ListenerRest
  <2> QED BY <2>1, <2>2 DEF ListenerRest
<1>9. CASE AfuTake
  <2>1. AfuRows \subseteq LegacyTasks /\ visible \subseteq LegacyTasks
    BY DEF AfuRows, New, ListenerInv, FoundInv
  <2>2. Rounds[Oldest] \in Nat
    <3>1. Oldest \in LegacyTasks
      BY <1>9, <2>1, OldestIs DEF AfuTake
    <3> QED BY <1>9, <3>1, ListenerAssumption DEF AfuTake, ListenerAssumption
  <2>3. Unique \subseteq LegacyTasks \X (Questions \cup {NoQuestion})
    BY <2>1 DEF Unique
  <2>4. afuTasks' \subseteq LegacyTasks
    BY <1>9, <2>3 DEF AfuTake, Tasks
  <2>5. afuJobs' \subseteq LegacyTasks \X (Questions \cup {NoQuestion}) \X Nat
    <3>1. \A p \in Unique : \A r \in 1..Rounds[Oldest] :
            <<p[1], p[2], r>> \in LegacyTasks \X (Questions \cup {NoQuestion}) \X Nat
      BY <2>2, <2>3
    <3> QED BY <1>9, <3>1 DEF AfuTake
  <2> QED BY <1>9, <2>4, <2>5 DEF AfuTake, ListenerRest
<1>10. CASE AfuMark \/ AfuComplete
  <2>1. /\ SetEach(afuTasks, "running") \/ SetEach(afuTasks, "done")
        /\ afu' \in {"asking", "sleeping"}
        /\ UNCHANGED <<afuTasks, afuJobs>> \/ (afuTasks' = {} /\ afuJobs' = {})
        /\ UNCHANGED <<world, listener, restarts, asked, abandoned>>
    BY <1>10 DEF AfuMark, AfuComplete
  <2>2. /\ state' \in [LegacyTasks -> {"new", "running", "done"}]
        /\ mishaps' \in 0..world.mishaps
    BY <2>1, StatusTyped
  <2> QED BY <2>1, <2>2 DEF ListenerRest
<1>11. CASE AfuAsk
  BY <1>11 DEF AfuAsk, ListenerRest
<1>12. CASE Restart
  <2>1. restarts \in Nat
    BY DEF ListenerInv, CountInv
  <2>2. restarts' <= MaxRestarts
    BY <1>1, <1>12, <2>1 DEF Restart
  <2> QED BY <1>12, <2>2 DEF Restart, ListenerRest
<1> QED BY <1>2, <1>3, <1>4, <1>5, <1>6, <1>7, <1>8, <1>9, <1>10, <1>11, <1>12
        DEF ListenerNext, ListenerStep, AfuStep

LEMMA ListenerTypes ==
  /\ ListenerInit => ListenerRest
  /\ ListenerInv /\ ListenerRest => ListenerTypeOK
<1>1. ASSUME ListenerInit PROVE ListenerRest
  <2>1. world.mishaps \in Nat /\ MaxRestarts \in Nat
    BY <1>1, ListenerAssumption DEF ListenerAssumption, ListenerInit
  <2>2. /\ afuTasks = {} /\ afuJobs = {} /\ asked = {} /\ abandoned = {}
        /\ mishaps = 0 /\ restarts = 0 /\ last = 0
    BY <1>1 DEF ListenerInit
  <2>3. mishaps \in 0..world.mishaps /\ restarts <= MaxRestarts
    BY <2>1, <2>2
  <2>4. /\ world \in Worlds /\ state \in [LegacyTasks -> {"new", "running", "done"}]
        /\ last \in Nat /\ failed \in BOOLEAN
        /\ doing = "sleeping" /\ afu = "sleeping"
    BY <1>1 DEF ListenerInit
  <2> QED BY <2>2, <2>3, <2>4 DEF ListenerRest
<1>2. ASSUME ListenerInv, ListenerRest PROVE ListenerTypeOK
  <2>1. restarts \in 0..MaxRestarts /\ MaxRestarts \in Nat
    BY <1>2, ListenerAssumption DEF ListenerAssumption, ListenerInv, CountInv, ListenerRest
  <2>2. times \in [Pairs -> 0..(1 + MaxRestarts)]
    <3>1. \A p \in Pairs : times[p] \in 0..(1 + MaxRestarts)
      BY <1>2, <2>1 DEF ListenerInv, CountInv
    <3> QED BY <1>2, <3>1 DEF ListenerInv, CountInv
  <2>3. jobs \subseteq LegacyTasks \X Questions \X Nat /\ fresh \subseteq Pairs
        /\ processed \subseteq Pairs
    BY <1>2 DEF ListenerInv, RunInv
  <2>4. visible \subseteq LegacyTasks /\ seen \subseteq Pairs
        /\ linked \in [LegacyTasks -> SUBSET Questions]
    BY <1>2 DEF ListenerInv, FoundInv
  <2> QED BY <1>2, <2>1, <2>2, <2>3, <2>4 DEF ListenerRest, ListenerTypeOK
<1> QED BY <1>1, <1>2

\* The types of the listeners.
THEOREM ListenerTypeCorrect == ListenerSpec => []ListenerTypeOK
BY ListenerInvariant, ListenerRestKept, ListenerTypes, PTL DEF ListenerSpec

-----------------------------------------------------------------------------
(* The parts together.                                                     *)

\* A step of one part leaves the others as they are.
LEMMA PartSteps ==
  [MCNext]_mcVars => /\ [FleetNext]_fleetVars
                     /\ [HeartbeatNext]_beatVars
                     /\ [CrawlNext]_crawlVars
                     /\ [ListenerNext]_listenerVars
BY DEF MCNext, mcVars

\* Every run of the four that are checked together is a run of each of them.
THEOREM PartsRunAlone ==
  MCSpec => /\ FleetInit /\ [][FleetNext]_fleetVars
            /\ HeartbeatSpec
            /\ CrawlSpec
            /\ ListenerInit /\ [][ListenerNext]_listenerVars
<1>1. MCInit => FleetInit /\ HeartbeatInit /\ CrawlInit /\ ListenerInit
  BY DEF MCInit
<1> QED BY <1>1, PartSteps, PTL DEF MCSpec, HeartbeatSpec, CrawlSpec

\* The types of the four, for all that they are given: no thread of a consumer overstays
\* its step, a cookie file is in use only while some thread of the crawler works, and its
\* alerts come after every sixth failed attempt.
THEOREM PartsAreTyped == MCSpec => []PartTypeOK
<1>1. FleetTypeOK /\ HeartbeatTypeOK /\ CrawlTypeOK /\ ListenerTypeOK => PartTypeOK
  BY DEF PartTypeOK
<1>2. FleetInit /\ [][FleetNext]_fleetVars => []FleetTypeOK
  BY FleetInvariant, FleetRestKept, FleetTypes, PTL
<1>3. ListenerInit /\ [][ListenerNext]_listenerVars => []ListenerTypeOK
  BY ListenerInvariant, ListenerRestKept, ListenerTypes, PTL
<1> QED BY <1>1, <1>2, <1>3, PartsRunAlone, TypeCorrect, RunTypeCorrect, PTL

=============================================================================

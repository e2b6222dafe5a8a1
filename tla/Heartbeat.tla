------------------------------- MODULE Heartbeat -------------------------------
(***************************************************************************)
(* Consumer heartbeats: every consumer has a worker thread and a beater    *)
(* thread, both of which write the consumer's Redis key with a timestamp   *)
(* and an expiry; the master's health checker reads the keys and reports   *)
(* the consumers whose timestamp is too old.                               *)
(*                                                                         *)
(* Time passes in ticks.  A timer counts the ticks a thread has spent in   *)
(* its present step; a key carries the age of its timestamp and the ticks  *)
(* left until Redis drops it (0: there is no key).  All clocks agree.      *)
(***************************************************************************)
EXTENDS Integers

CONSTANTS
  Consumers,     (* consumer ids: one per life, taken to be distinct (they *)
                 (* carry the millisecond the consumer was built in)       *)
  Ttl,           (* ConsumerHeartbeat.ttl_seconds                          *)
  BeatEvery,     (* wait of the beater thread between two beats            *)
  CheckEvery,    (* --health-check-interval                                *)
  StaleAfter,    (* --stale-after                                          *)
  MaxLate,       (* bound of the model: ticks that one Redis call may take *)
  CheckMayFail   (* whether a round of the checker may end in an exception *)

ASSUME HeartbeatAssumption ==
  /\ Ttl \in Nat \ {0}
  /\ BeatEvery \in Nat
  /\ CheckEvery \in Nat
  /\ StaleAfter \in Nat
  /\ MaxLate \in Nat
  /\ CheckMayFail \in BOOLEAN

VARIABLES
  worker,        (* consumer thread: new, run, beat, closing, gone, killed *)
  workerTimer,   (* ticks since the worker took the timestamp of its beat  *)
  beater,        (* beater thread: off, check, prepare, write, wait        *)
  beaterTimer,   (* ticks the beater has spent in this step                *)
  age,           (* age of the timestamp in the consumer's key             *)
  expiry,        (* ticks until the key expires                            *)
  checker,       (* health checker: wait, read                             *)
  checkerTimer,  (* ticks the checker has spent in this step               *)
  unread,        (* keys it listed and has not read yet                    *)
  found,         (* stale consumers it has found in this round             *)
  reported       (* history: consumers it ever reported                    *)

key      == <<age, expiry>>
threads  == <<worker, workerTimer, beater, beaterTimer>>
check    == <<checker, checkerTimer, unread, found, reported>>
beatVars == <<threads, key, check>>

WorkerSteps == {"new", "run", "beat", "closing", "gone", "killed"}
BeaterSteps == {"off", "check", "prepare", "write", "wait"}

HeartbeatInit ==
  /\ worker = [c \in Consumers |-> "new"]
  /\ workerTimer = [c \in Consumers |-> 0]
  /\ beater = [c \in Consumers |-> "off"]
  /\ beaterTimer = [c \in Consumers |-> 0]
  /\ age = [c \in Consumers |-> 0]
  /\ expiry = [c \in Consumers |-> 0]
  /\ checker = "wait"
  /\ checkerTimer = CheckEvery
  /\ unread = {}
  /\ found = {}
  /\ reported = {}

-----------------------------------------------------------------------------
(* The key.                                                                *)

\* Fault: the key is written without an expiry of its own (SET ... KEEPTTL).
StoreKeepingExpiry(c, stamp) ==
  /\ age' = [age EXCEPT ![c] = stamp]
  /\ expiry' = [expiry EXCEPT ![c] = IF @ = 0 THEN Ttl ELSE @]

\* SET key payload EX ttl.
Store(c, stamp) ==
  /\ age' = [age EXCEPT ![c] = stamp]
  /\ expiry' = [expiry EXCEPT ![c] = Ttl]

Delete(c) ==
  /\ age' = [age EXCEPT ![c] = 0]
  /\ expiry' = [expiry EXCEPT ![c] = 0]

Listed == {c \in Consumers : expiry[c] > 0}

-----------------------------------------------------------------------------
(* The worker thread: BaseQueueConsumer.run around consume_once.           *)

\* Fault: the beater thread does not look at its stop event.
StopUnseen(c) == FALSE

\* The stop event of the beater thread.
Stopping(c) == worker[c] \in {"closing", "gone"}

GoTo(c, step) == worker' = [worker EXCEPT ![c] = step]

StartWorker(c) ==
  /\ worker[c] = "new"
  /\ GoTo(c, "run")
  /\ beater' = [beater EXCEPT ![c] = "check"]
  /\ UNCHANGED <<workerTimer, beaterTimer, key, check>>

\* consume_once beats when it is idle, when it takes a task and when it ends one.
WorkerStamps(c) ==
  /\ worker[c] = "run"
  /\ GoTo(c, "beat")
  /\ workerTimer' = [workerTimer EXCEPT ![c] = 0]
  /\ UNCHANGED <<beater, beaterTimer, key, check>>

WorkerStores(c) ==
  /\ worker[c] = "beat"
  /\ Store(c, workerTimer[c])
  /\ GoTo(c, "run")
  /\ workerTimer' = [workerTimer EXCEPT ![c] = 0]
  /\ UNCHANGED <<beater, beaterTimer, check>>

\* The loop ends, by its stop event or by an exception: finally sets the event.
WorkerCloses(c) ==
  /\ worker[c] \in {"run", "beat"}
  /\ GoTo(c, "closing")
  /\ workerTimer' = [workerTimer EXCEPT ![c] = 0]
  /\ UNCHANGED <<beater, beaterTimer, key, check>>

\* join(timeout=1) waits for the beater, but not while it is stuck in a Redis call.
WorkerClears(c) ==
  /\ worker[c] = "closing"
  /\ beater[c] \in {"off", "prepare", "write"}
  /\ Delete(c)
  /\ GoTo(c, "gone")
  /\ UNCHANGED <<workerTimer, beater, beaterTimer, check>>

Killed(c) ==
  /\ worker[c] \in {"run", "beat", "closing"}
  /\ GoTo(c, "killed")
  /\ workerTimer' = [workerTimer EXCEPT ![c] = 0]
  /\ beater' = [beater EXCEPT ![c] = "off"]
  /\ beaterTimer' = [beaterTimer EXCEPT ![c] = 0]
  /\ UNCHANGED <<key, check>>

WorkerStep(c) == WorkerStores(c) \/ WorkerClears(c)

-----------------------------------------------------------------------------
(* The beater thread: _heartbeat_loop.                                     *)

BeaterGoes(c, step) ==
  /\ beater' = [beater EXCEPT ![c] = step]
  /\ beaterTimer' = [beaterTimer EXCEPT ![c] = 0]
  /\ UNCHANGED <<worker, workerTimer, check>>

BeaterChecks(c) ==
  /\ beater[c] = "check"
  /\ BeaterGoes(c, IF Stopping(c) THEN "off" ELSE "prepare")
  /\ UNCHANGED key

\* The throughput for the payload is read from Redis before the timestamp is taken.
BeaterStamps(c) ==
  /\ beater[c] = "prepare"
  /\ BeaterGoes(c, "write")
  /\ UNCHANGED key

BeaterStores(c) ==
  /\ beater[c] = "write"
  /\ Store(c, beaterTimer[c])
  /\ BeaterGoes(c, "wait")

BeaterWakes(c) ==
  /\ beater[c] = "wait"
  /\ beaterTimer[c] = BeatEvery \/ Stopping(c)
  /\ BeaterGoes(c, "check")
  /\ UNCHANGED key

\* Nothing catches a Redis error in this thread; the worker goes on without it.
BeaterDies(c) ==
  /\ beater[c] \in {"prepare", "write"}
  /\ BeaterGoes(c, "off")
  /\ UNCHANGED key

BeaterStep(c) ==
  BeaterChecks(c) \/ BeaterStamps(c) \/ BeaterStores(c) \/ BeaterWakes(c)

-----------------------------------------------------------------------------
(* The health checker thread: find_stale_consumers.                        *)

\* now is read first, then the keys are listed, then each is read.
CheckStarts ==
  /\ checker = "wait"
  /\ checkerTimer = CheckEvery
  /\ checker' = "read"
  /\ checkerTimer' = 0
  /\ unread' = Listed
  /\ found' = {}
  /\ UNCHANGED <<threads, key, reported>>

\* Fault: a timestamp exactly as old as the threshold counts as stale.
StaleAtThreshold(c) == age[c] - checkerTimer >= StaleAfter

\* How old the timestamp was when the checker read the clock.
Stale(c) == age[c] - checkerTimer > StaleAfter

CheckReads(c) ==
  /\ checker = "read"
  /\ c \in unread
  /\ unread' = unread \ {c}
  /\ found' = IF c \in Listed /\ Stale(c) THEN found \cup {c} ELSE found
  /\ UNCHANGED <<threads, key, checker, checkerTimer, reported>>

CheckReports ==
  /\ checker = "read"
  /\ unread = {}
  /\ reported' = reported \cup found
  /\ checker' = "wait"
  /\ checkerTimer' = 0
  /\ found' = {}
  /\ UNCHANGED <<threads, key, unread>>

\* run_health_checker catches the exception: what the round has found is not reported.
CheckFails ==
  /\ CheckMayFail
  /\ checker = "read"
  /\ checker' = "wait"
  /\ checkerTimer' = 0
  /\ unread' = {}
  /\ found' = {}
  /\ UNCHANGED <<threads, key, reported>>

CheckStep == CheckStarts \/ CheckReports \/ \E c \in Consumers : CheckReads(c)

-----------------------------------------------------------------------------
(* Time.                                                                   *)

\* Sleeps end on time, and a Redis call returns within MaxLate ticks.
MayWait(c) ==
  /\ worker[c] = "beat" => workerTimer[c] < MaxLate
  /\ beater[c] # "check"
  /\ beater[c] \in {"prepare", "write"} => beaterTimer[c] < MaxLate
  /\ beater[c] = "wait" => beaterTimer[c] < BeatEvery /\ ~Stopping(c)

CheckerMayWait ==
  IF checker = "wait" THEN checkerTimer < CheckEvery ELSE checkerTimer < MaxLate

\* Fault: a key that is not there is counted down as well.
CountedDown(c) == expiry[c] - 1

Remaining(c) == IF expiry[c] = 0 THEN 0 ELSE expiry[c] - 1

Tick ==
  /\ \A c \in Consumers : MayWait(c)
  /\ CheckerMayWait
  /\ workerTimer' = [c \in Consumers |-> IF worker[c] = "beat" THEN workerTimer[c] + 1 ELSE 0]
  /\ beaterTimer' = [c \in Consumers |-> IF beater[c] = "off" THEN 0 ELSE beaterTimer[c] + 1]
  /\ checkerTimer' = checkerTimer + 1
  /\ expiry' = [c \in Consumers |-> Remaining(c)]
  /\ age' = [c \in Consumers |-> IF Remaining(c) = 0 THEN 0 ELSE age[c] + 1]
  /\ UNCHANGED <<worker, beater, checker, unread, found, reported>>

-----------------------------------------------------------------------------
HeartbeatNext ==
  \/ \E c \in Consumers :
       \/ StartWorker(c)  \/ WorkerStamps(c) \/ WorkerStep(c)
       \/ WorkerCloses(c) \/ Killed(c)
       \/ BeaterStep(c)   \/ BeaterDies(c)
  \/ CheckStep
  \/ CheckFails
  \/ Tick

HeartbeatSpec == HeartbeatInit /\ [][HeartbeatNext]_beatVars

\* Threads that have begun something go on, and time passes.
HeartbeatFairness ==
  /\ \A c \in Consumers : WF_beatVars(WorkerStep(c)) /\ WF_beatVars(BeaterStep(c))
  /\ WF_beatVars(CheckStep)
  /\ WF_beatVars(Tick)

HeartbeatFairSpec == HeartbeatSpec /\ HeartbeatFairness

-----------------------------------------------------------------------------
\* Every variable has its type; no thread overstays its step.
HeartbeatTypeOK ==
  /\ worker \in [Consumers -> WorkerSteps]
  /\ workerTimer \in [Consumers -> 0..MaxLate]
  /\ beater \in [Consumers -> BeaterSteps]
  /\ beaterTimer \in [Consumers -> Nat]
  /\ \A c \in Consumers : beater[c] \in {"prepare", "write"} => beaterTimer[c] <= MaxLate
  /\ \A c \in Consumers : beater[c] = "wait" => beaterTimer[c] <= BeatEvery
  /\ age \in [Consumers -> Nat]
  /\ expiry \in [Consumers -> 0..Ttl]
  /\ checker \in {"wait", "read"}
  /\ checkerTimer \in Nat
  /\ unread \subseteq Consumers
  /\ found \subseteq Consumers
  /\ reported \subseteq Consumers

\* Once a consumer is listed, its key never expires as long as its beater thread lives,
\* however late the beats are stored and whichever thread stored the last one; only the
\* worker's own clear takes it away.  It needs BeatEvery + 2 * MaxLate < Ttl.
BeatingStaysListed ==
  [][\A c \in Consumers :
       c \in Listed /\ beater[c] # "off" /\ worker'[c] # "gone" => c \in Listed']_beatVars

\* The health checker never reports a consumer whose beater thread lives, although it
\* reads the clock before the keys and a late beat may overwrite a newer one.  It needs
\* BeatEvery + 3 * MaxLate <= StaleAfter.
NoFalseAlarm == \A c \in reported : beater[c] = "off"

\* A consumer that is gone drops out of every listing and stays out, even if its
\* beater stored a late beat after the worker had cleared the key.
GoneIsUnlisted ==
  \A c \in Consumers : worker[c] \in {"gone", "killed"} ~> [](expiry[c] = 0)

\* README 3.6: a consumer whose timestamp is older than stale_after is judged abnormal;
\* a consumer killed with its key in place never beats again, so it is to be reported
\* sooner or later.
KilledIsReported ==
  \A c \in Consumers : worker[c] = "killed" /\ c \in Listed ~> c \in reported
=============================================================================

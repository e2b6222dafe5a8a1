---------------------------- MODULE HeartbeatProofs ----------------------------
(***************************************************************************)
(* What the numbers of the heartbeat protocol promise, for every value of  *)
(* them: an alarm needs a threshold below the ttl, a false alarm or a key  *)
(* that drops out needs beats later than the margins allow.                *)
(***************************************************************************)
EXTENDS Heartbeat, TLAPS

\* Every step keeps HeartbeatTypeOK.
LEMMA TypeStep ==
  ASSUME HeartbeatTypeOK, [HeartbeatNext]_beatVars
  PROVE  HeartbeatTypeOK'
<1> USE HeartbeatAssumption DEF HeartbeatAssumption, HeartbeatTypeOK, WorkerSteps, BeaterSteps
<1> USE DEF threads, key, check
<1>1. ASSUME NEW c \in Consumers, StartWorker(c) PROVE HeartbeatTypeOK'
  BY <1>1 DEF StartWorker, GoTo
<1>2. ASSUME NEW c \in Consumers, WorkerStamps(c) PROVE HeartbeatTypeOK'
  BY <1>2 DEF WorkerStamps, GoTo
<1>3. ASSUME NEW c \in Consumers, WorkerStores(c) PROVE HeartbeatTypeOK'
  BY <1>3 DEF WorkerStores, GoTo, Store
<1>4. ASSUME NEW c \in Consumers, WorkerCloses(c) PROVE HeartbeatTypeOK'
  BY <1>4 DEF WorkerCloses, GoTo
<1>5. ASSUME NEW c \in Consumers, WorkerClears(c) PROVE HeartbeatTypeOK'
  BY <1>5 DEF WorkerClears, GoTo, Delete
<1>6. ASSUME NEW c \in Consumers, Killed(c) PROVE HeartbeatTypeOK'
  BY <1>6 DEF Killed, GoTo
<1>7. ASSUME NEW c \in Consumers, BeaterChecks(c) PROVE HeartbeatTypeOK'
  BY <1>7 DEF BeaterChecks, BeaterGoes
<1>8. ASSUME NEW c \in Consumers, BeaterStamps(c) PROVE HeartbeatTypeOK'
  BY <1>8 DEF BeaterStamps, BeaterGoes
<1>9. ASSUME NEW c \in Consumers, BeaterStores(c) PROVE HeartbeatTypeOK'
  BY <1>9 DEF BeaterStores, BeaterGoes, Store
<1>10. ASSUME NEW c \in Consumers, BeaterWakes(c) PROVE HeartbeatTypeOK'
  BY <1>10 DEF BeaterWakes, BeaterGoes
<1>11. ASSUME NEW c \in Consumers, BeaterDies(c) PROVE HeartbeatTypeOK'
  BY <1>11 DEF BeaterDies, BeaterGoes
<1>12. CASE CheckStarts
  BY <1>12 DEF CheckStarts, Listed
<1>13. ASSUME NEW c \in Consumers, CheckReads(c) PROVE HeartbeatTypeOK'
  BY <1>13 DEF CheckReads
<1>14. CASE CheckReports
  BY <1>14 DEF CheckReports
<1>15. CASE Tick
  <2>1. \A c \in Consumers : MayWait(c) /\ Remaining(c) \in 0..Ttl
    BY <1>15 DEF Tick, Remaining
  <2>2. /\ workerTimer' \in [Consumers -> 0..MaxLate]
        /\ beaterTimer' \in [Consumers -> Nat]
        /\ \A c \in Consumers : beater[c] \in {"prepare", "write"} => beaterTimer'[c] <= MaxLate
        /\ \A c \in Consumers : beater[c] = "wait" => beaterTimer'[c] <= BeatEvery
    BY <1>15, <2>1 DEF Tick, MayWait
  <2>3. age' \in [Consumers -> Nat] /\ expiry' \in [Consumers -> 0..Ttl]
    BY <1>15, <2>1 DEF Tick
  <2> QED
    BY <1>15, <2>2, <2>3 DEF Tick
<1>16. CASE CheckFails
  BY <1>16 DEF CheckFails
<1>17. CASE UNCHANGED beatVars
  BY <1>17 DEF beatVars
<1> QED
  BY <1>1, <1>2, <1>3, <1>4, <1>5, <1>6, <1>7, <1>8,
     <1>9, <1>10, <1>11, <1>12, <1>13, <1>14, <1>15, <1>16, <1>17
  DEF HeartbeatNext, WorkerStep, BeaterStep, CheckStep

-----------------------------------------------------------------------------
\* A timestamp is stored at most MaxLate ticks old, and its key lives Ttl ticks.
KeysAgeOut == \A c \in Consumers : expiry[c] > 0 => age[c] + expiry[c] <= Ttl + MaxLate

\* Every step keeps KeysAgeOut.
LEMMA KeysAgeOutStep ==
  ASSUME HeartbeatTypeOK, KeysAgeOut, [HeartbeatNext]_beatVars
  PROVE  KeysAgeOut'
<1> USE HeartbeatAssumption DEF HeartbeatAssumption, HeartbeatTypeOK, KeysAgeOut, threads, key,
check
<1>1. ASSUME NEW c \in Consumers, StartWorker(c) PROVE KeysAgeOut'
  BY <1>1 DEF StartWorker, GoTo
<1>2. ASSUME NEW c \in Consumers, WorkerStamps(c) PROVE KeysAgeOut'
  BY <1>2 DEF WorkerStamps, GoTo
<1>3. ASSUME NEW c \in Consumers, WorkerStores(c) PROVE KeysAgeOut'
  BY <1>3 DEF WorkerStores, GoTo, Store
<1>4. ASSUME NEW c \in Consumers, WorkerCloses(c) PROVE KeysAgeOut'
  BY <1>4 DEF WorkerCloses, GoTo
<1>5. ASSUME NEW c \in Consumers, WorkerClears(c) PROVE KeysAgeOut'
  BY <1>5 DEF WorkerClears, GoTo, Delete
<1>6. ASSUME NEW c \in Consumers, Killed(c) PROVE KeysAgeOut'
  BY <1>6 DEF Killed, GoTo
<1>7. ASSUME NEW c \in Consumers, BeaterChecks(c) PROVE KeysAgeOut'
  BY <1>7 DEF BeaterChecks, BeaterGoes
<1>8. ASSUME NEW c \in Consumers, BeaterStamps(c) PROVE KeysAgeOut'
  BY <1>8 DEF BeaterStamps, BeaterGoes
<1>9. ASSUME NEW c \in Consumers, BeaterStores(c) PROVE KeysAgeOut'
  BY <1>9 DEF BeaterStores, BeaterGoes, Store
<1>10. ASSUME NEW c \in Consumers, BeaterWakes(c) PROVE KeysAgeOut'
  BY <1>10 DEF BeaterWakes, BeaterGoes
<1>11. ASSUME NEW c \in Consumers, BeaterDies(c) PROVE KeysAgeOut'
  BY <1>11 DEF BeaterDies, BeaterGoes
<1>12. CASE CheckStarts
  BY <1>12 DEF CheckStarts
<1>13. ASSUME NEW c \in Consumers, CheckReads(c) PROVE KeysAgeOut'
  BY <1>13 DEF CheckReads
<1>14. CASE CheckReports
  BY <1>14 DEF CheckReports
<1>15. CASE Tick
  BY <1>15 DEF Tick, Remaining
<1>16. CASE CheckFails
  BY <1>16 DEF CheckFails
<1>17. CASE UNCHANGED beatVars
  BY <1>17 DEF beatVars
<1> QED
  BY <1>1, <1>2, <1>3, <1>4, <1>5, <1>6, <1>7, <1>8,
     <1>9, <1>10, <1>11, <1>12, <1>13, <1>14, <1>15, <1>16, <1>17
  DEF HeartbeatNext, WorkerStep, BeaterStep, CheckStep

-----------------------------------------------------------------------------
\* As long as the beater thread lives, the timestamp in the key is as young and the
\* key has as many ticks left as the beater's progress towards its next beat allows.
Margin(c) ==
  expiry[c] > 0 =>
    /\ beater[c] = "wait" =>
         age[c] <= MaxLate + beaterTimer[c] /\ expiry[c] >= Ttl - beaterTimer[c]
    /\ beater[c] = "check" =>
         age[c] <= MaxLate + BeatEvery /\ expiry[c] >= Ttl - BeatEvery
    /\ beater[c] = "prepare" =>
         /\ age[c] <= MaxLate + BeatEvery + beaterTimer[c]
         /\ expiry[c] >= Ttl - BeatEvery - beaterTimer[c]
    /\ beater[c] = "write" =>
         /\ age[c] <= 2 * MaxLate + BeatEvery + beaterTimer[c]
         /\ expiry[c] >= Ttl - BeatEvery - MaxLate - beaterTimer[c]

\* Nobody beats for a consumer that was never started.
Unstarted(c) == worker[c] = "new" => expiry[c] = 0 /\ beater[c] = "off"

Margins == \A c \in Consumers : Margin(c) /\ Unstarted(c)

\* Every step keeps Margins.
LEMMA MarginsStep ==
  ASSUME HeartbeatTypeOK, Margins, [HeartbeatNext]_beatVars
  PROVE  Margins'
<1> USE HeartbeatAssumption DEF HeartbeatAssumption, HeartbeatTypeOK, BeaterSteps
<1> USE DEF Margins, Margin, Unstarted
<1> USE DEF threads, key, check
<1>1. ASSUME NEW c \in Consumers, StartWorker(c) PROVE Margins'
  BY <1>1 DEF StartWorker, GoTo
<1>2. ASSUME NEW c \in Consumers, WorkerStamps(c) PROVE Margins'
  BY <1>2 DEF WorkerStamps, GoTo
<1>3. ASSUME NEW c \in Consumers, WorkerStores(c) PROVE Margins'
  BY <1>3 DEF WorkerStores, GoTo, Store
<1>4. ASSUME NEW c \in Consumers, WorkerCloses(c) PROVE Margins'
  BY <1>4 DEF WorkerCloses, GoTo
<1>5. ASSUME NEW c \in Consumers, WorkerClears(c) PROVE Margins'
  BY <1>5 DEF WorkerClears, GoTo, Delete
<1>6. ASSUME NEW c \in Consumers, Killed(c) PROVE Margins'
  BY <1>6 DEF Killed, GoTo
<1>7. ASSUME NEW c \in Consumers, BeaterChecks(c) PROVE Margins'
  BY <1>7 DEF BeaterChecks, BeaterGoes
<1>8. ASSUME NEW c \in Consumers, BeaterStamps(c) PROVE Margins'
  BY <1>8 DEF BeaterStamps, BeaterGoes
<1>9. ASSUME NEW c \in Consumers, BeaterStores(c) PROVE Margins'
  BY <1>9 DEF BeaterStores, BeaterGoes, Store
<1>10. ASSUME NEW c \in Consumers, BeaterWakes(c) PROVE Margins'
  BY <1>10 DEF BeaterWakes, BeaterGoes
<1>11. ASSUME NEW c \in Consumers, BeaterDies(c) PROVE Margins'
  BY <1>11 DEF BeaterDies, BeaterGoes
<1>12. CASE CheckStarts
  BY <1>12 DEF CheckStarts
<1>13. ASSUME NEW c \in Consumers, CheckReads(c) PROVE Margins'
  BY <1>13 DEF CheckReads
<1>14. CASE CheckReports
  BY <1>14 DEF CheckReports
<1>15. CASE Tick
  <2> SUFFICES ASSUME NEW c \in Consumers PROVE Margin(c)' /\ Unstarted(c)'
    OBVIOUS
  <2>1. MayWait(c)
    BY <1>15 DEF Tick
  <2>2. expiry[c] = 0 => expiry'[c] = 0
    BY <1>15 DEF Tick, Remaining
  <2>3. expiry'[c] > 0 => expiry'[c] = expiry[c] - 1 /\ age'[c] = age[c] + 1
    BY <1>15 DEF Tick, Remaining
  <2>4. /\ beater'[c] = beater[c] /\ worker'[c] = worker[c]
        /\ beater[c] # "off" => beaterTimer'[c] = beaterTimer[c] + 1
    BY <1>15 DEF Tick
  <2> QED
    BY <2>1, <2>2, <2>3, <2>4 DEF MayWait
<1>16. CASE CheckFails
  BY <1>16 DEF CheckFails
<1>17. CASE UNCHANGED beatVars
  BY <1>17 DEF beatVars
<1> QED
  BY <1>1, <1>2, <1>3, <1>4, <1>5, <1>6, <1>7, <1>8,
     <1>9, <1>10, <1>11, <1>12, <1>13, <1>14, <1>15, <1>16, <1>17
  DEF HeartbeatNext, WorkerStep, BeaterStep, CheckStep

-----------------------------------------------------------------------------
\* A consumer that is found stale has been listed, so its threads were started, and its
\* beater thread, once off, is never started again.
AlarmsSound == \A c \in found \cup reported : beater[c] = "off" /\ worker[c] # "new"

\* With a threshold above the margins, every step keeps AlarmsSound.
LEMMA AlarmsSoundStep ==
  ASSUME BeatEvery + 3 * MaxLate <= StaleAfter, HeartbeatTypeOK, Margins, AlarmsSound, [HeartbeatNext]_beatVars
  PROVE  AlarmsSound'
<1> USE HeartbeatAssumption DEF HeartbeatAssumption, HeartbeatTypeOK, BeaterSteps, AlarmsSound
<1> USE DEF threads, key, check
<1>1. ASSUME NEW c \in Consumers, StartWorker(c) PROVE AlarmsSound'
  BY <1>1 DEF StartWorker, GoTo
<1>2. ASSUME NEW c \in Consumers, WorkerStamps(c) PROVE AlarmsSound'
  BY <1>2 DEF WorkerStamps, GoTo
<1>3. ASSUME NEW c \in Consumers, WorkerStores(c) PROVE AlarmsSound'
  BY <1>3 DEF WorkerStores, GoTo, Store
<1>4. ASSUME NEW c \in Consumers, WorkerCloses(c) PROVE AlarmsSound'
  BY <1>4 DEF WorkerCloses, GoTo
<1>5. ASSUME NEW c \in Consumers, WorkerClears(c) PROVE AlarmsSound'
  BY <1>5 DEF WorkerClears, GoTo, Delete
<1>6. ASSUME NEW c \in Consumers, Killed(c) PROVE AlarmsSound'
  BY <1>6 DEF Killed, GoTo
<1>7. ASSUME NEW c \in Consumers, BeaterChecks(c) PROVE AlarmsSound'
  BY <1>7 DEF BeaterChecks, BeaterGoes
<1>8. ASSUME NEW c \in Consumers, BeaterStamps(c) PROVE AlarmsSound'
  BY <1>8 DEF BeaterStamps, BeaterGoes
<1>9. ASSUME NEW c \in Consumers, BeaterStores(c) PROVE AlarmsSound'
  BY <1>9 DEF BeaterStores, BeaterGoes, Store
<1>10. ASSUME NEW c \in Consumers, BeaterWakes(c) PROVE AlarmsSound'
  BY <1>10 DEF BeaterWakes, BeaterGoes
<1>11. ASSUME NEW c \in Consumers, BeaterDies(c) PROVE AlarmsSound'
  BY <1>11 DEF BeaterDies, BeaterGoes
<1>12. CASE CheckStarts
  BY <1>12 DEF CheckStarts
<1>13. ASSUME NEW c \in Consumers, CheckReads(c) PROVE AlarmsSound'
  <2>1. c \in Listed /\ Stale(c) => beater[c] = "off" /\ worker[c] # "new"
    BY DEF Margins, Margin, Unstarted, Listed, Stale
  <2> QED
    BY <1>13, <2>1 DEF CheckReads
<1>14. CASE CheckReports
  BY <1>14 DEF CheckReports
<1>15. CASE Tick
  BY <1>15 DEF Tick, Remaining
<1>16. CASE CheckFails
  BY <1>16 DEF CheckFails
<1>17. CASE UNCHANGED beatVars
  BY <1>17 DEF beatVars
<1> QED
  BY <1>1, <1>2, <1>3, <1>4, <1>5, <1>6, <1>7, <1>8,
     <1>9, <1>10, <1>11, <1>12, <1>13, <1>14, <1>15, <1>16, <1>17
  DEF HeartbeatNext, WorkerStep, BeaterStep, CheckStep

-----------------------------------------------------------------------------
(* The theorems.                                                           *)

\* Initially nobody is listed, and nothing is found or reported.
LEMMA InitOK == HeartbeatInit => HeartbeatTypeOK /\ KeysAgeOut /\ Margins /\ AlarmsSound
BY HeartbeatAssumption DEF HeartbeatAssumption, HeartbeatInit, HeartbeatTypeOK, WorkerSteps,
   BeaterSteps,
   KeysAgeOut, Margins, Margin, Unstarted, AlarmsSound

\* Every reachable state of the heartbeat protocol is well typed.
THEOREM TypeCorrect == HeartbeatSpec => []HeartbeatTypeOK
<1>1. HeartbeatInit => HeartbeatTypeOK
  BY InitOK
<1>2. HeartbeatTypeOK /\ [HeartbeatNext]_beatVars => HeartbeatTypeOK'
  BY TypeStep
<1> QED
  BY <1>1, <1>2, PTL DEF HeartbeatSpec

\* With a threshold of at least the ttl plus the lateness of a call, as the defaults have
\* it, the health checker never reports anybody, whatever consumers are killed.
THEOREM NobodyIsEverReported ==
  ASSUME Ttl + MaxLate <= StaleAfter
  PROVE  HeartbeatSpec => [](reported = {})
<1> DEFINE Quiet == HeartbeatTypeOK /\ KeysAgeOut /\ found = {} /\ reported = {}
<1>1. HeartbeatInit => Quiet
  BY InitOK DEF HeartbeatInit
<1>2. Quiet /\ [HeartbeatNext]_beatVars => Quiet'
  <2> SUFFICES ASSUME Quiet, [HeartbeatNext]_beatVars PROVE Quiet'
    OBVIOUS
  <2>1. HeartbeatTypeOK' /\ KeysAgeOut'
    BY TypeStep, KeysAgeOutStep
  <2>2. \A c \in Consumers : ~(c \in Listed /\ Stale(c))
    BY HeartbeatAssumption DEF HeartbeatAssumption, HeartbeatTypeOK, KeysAgeOut, Listed, Stale
  <2>3. found' = {} /\ reported' = {}
    BY <2>2 DEF HeartbeatNext, beatVars, check, WorkerStep, BeaterStep, CheckStep, StartWorker,
       WorkerStamps, WorkerStores, WorkerCloses, WorkerClears, Killed, BeaterChecks,
       BeaterStamps, BeaterStores, BeaterWakes, BeaterDies, BeaterGoes, CheckStarts,
       CheckReads, CheckReports, CheckFails, Tick
  <2> QED
    BY <2>1, <2>3
<1>3. Quiet => reported = {}
  OBVIOUS
<1> QED
  BY <1>1, <1>2, <1>3, PTL DEF HeartbeatSpec

\* With a threshold above the margins of a live beater thread, the health checker
\* reports only consumers whose beater thread is off.
THEOREM NoFalseAlarmAlways ==
  ASSUME BeatEvery + 3 * MaxLate <= StaleAfter
  PROVE  HeartbeatSpec => []NoFalseAlarm
<1> DEFINE Inv == HeartbeatTypeOK /\ Margins /\ AlarmsSound
<1>1. HeartbeatInit => Inv
  BY InitOK
<1>2. Inv /\ [HeartbeatNext]_beatVars => Inv'
  BY TypeStep, MarginsStep, AlarmsSoundStep
<1>3. Inv => NoFalseAlarm
  BY DEF AlarmsSound, NoFalseAlarm
<1> QED
  BY <1>1, <1>2, <1>3, PTL DEF HeartbeatSpec

\* With a ttl above the longest gap between two beats, the key of a consumer whose
\* beater thread lives is only ever taken away by the worker's own clear.
THEOREM BeatingAlwaysStaysListed ==
  ASSUME BeatEvery + 2 * MaxLate < Ttl
  PROVE  HeartbeatSpec => BeatingStaysListed
<1> DEFINE Inv == HeartbeatTypeOK /\ Margins
<1> DEFINE Stays ==
      \A c \in Consumers :
        c \in Listed /\ beater[c] # "off" /\ worker'[c] # "gone" => c \in Listed'
<1>1. HeartbeatInit => Inv
  BY InitOK
<1>2. Inv /\ [HeartbeatNext]_beatVars => Inv'
  BY TypeStep, MarginsStep
<1>3. Inv /\ [HeartbeatNext]_beatVars => [Stays]_beatVars
  <2> SUFFICES ASSUME Inv, HeartbeatNext, NEW c \in Consumers,
                      c \in Listed, beater[c] # "off", worker'[c] # "gone"
               PROVE  expiry'[c] > 0
    BY DEF Listed
  <2> USE HeartbeatAssumption DEF HeartbeatAssumption, HeartbeatTypeOK, BeaterSteps, Listed
  <2>1. CASE Tick
    <3>1. MayWait(c) /\ expiry'[c] = Remaining(c)
      BY <2>1 DEF Tick
    <3>2. expiry[c] > 1
      BY <3>1 DEF MayWait, Margins, Margin
    <3> QED
      BY <3>1, <3>2 DEF Remaining
  <2>2. ASSUME NEW d \in Consumers, WorkerStores(d) \/ BeaterStores(d) PROVE expiry'[c] > 0
    BY <2>2 DEF WorkerStores, BeaterStores, Store
  <2>3. ASSUME NEW d \in Consumers, WorkerClears(d) PROVE expiry'[c] > 0
    BY <2>3 DEF WorkerClears, GoTo, Delete
  <2>4. CASE UNCHANGED expiry
    BY <2>4
  <2>5. HeartbeatNext => \/ Tick
                \/ \E d \in Consumers : WorkerStores(d) \/ BeaterStores(d) \/ WorkerClears(d)
                \/ UNCHANGED expiry
    BY DEF HeartbeatNext, key, WorkerStep, BeaterStep, CheckStep, StartWorker, WorkerStamps,
       WorkerCloses, Killed, BeaterChecks, BeaterStamps, BeaterWakes, BeaterDies,
       CheckStarts, CheckReads, CheckReports, CheckFails
  <2> QED
    BY <2>1, <2>2, <2>3, <2>4, <2>5
<1> QED
  BY <1>1, <1>2, <1>3, PTL DEF HeartbeatSpec, BeatingStaysListed
=============================================================================

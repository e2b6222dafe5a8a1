--------------------------- MODULE CrawlListener ---------------------------
(***************************************************************************)
(* The two loops that crawl without the platform: py_main.py watches the   *)
(* table of tasks and gives the new ones to run_concurrent of DeepSeek and *)
(* YuanBao, AFu's run_concurrent watches it for its own.  Rows appear in   *)
(* the order their transactions commit in, questions are linked to them    *)
(* whenever they are.  What a run does is in CrawlRun; here it asks its    *)
(* jobs, some fail, and it sets the statuses of its tasks.                 *)
(*                                                                         *)
(* Statuses are written with statements that may fail: the error is logged *)
(* and the result ignored.                                                 *)
(***************************************************************************)
EXTENDS Naturals, FiniteSets

CONSTANTS
  LegacyTasks,  (* the tasks, natural numbers                              *)
  Questions,    (* the questions                                           *)
  NoQuestion,   (* what a row of a task without a question has             *)
  Null,         (* MaxRounds that is not set                               *)
  Kind,         (* what the listener makes of the LlmKey of a task         *)
  Created,      (* CreatedTime of each task                                *)
  Rounds,       (* MaxRounds of each task                                  *)
  Worlds,       (* alternatives: the tasks that appear, in order or not,   *)
                (* and the bound of the model on errors                    *)
  MaxRestarts   (* bound of the model: restarts of the listener            *)

\* A model it runs, one it does not know or excludes, no model, and AFu's.
Kinds == {"web", "unknown", "keyless", "afu"}

ASSUME ListenerAssumption ==
  /\ LegacyTasks \subseteq Nat
  /\ IsFiniteSet(LegacyTasks)
  /\ NoQuestion \notin Questions
  /\ Null \notin Nat
  /\ Kind \in [LegacyTasks -> Kinds]
  /\ Created \in [LegacyTasks -> Nat]
  /\ \A t \in LegacyTasks : Rounds[t] = Null \/ Rounds[t] \in Nat
  /\ \A w \in Worlds :
       w.tasks \subseteq LegacyTasks /\ w.rushed \in BOOLEAN /\ w.mishaps \in Nat
  /\ MaxRestarts \in Nat

VARIABLES
  world,      (* which tasks appear, and how                               *)
  visible,    (* the tasks in the table                                    *)
  linked,     (* the questions of each                                     *)
  state,      (* Status                                                    *)
  last,       (* last_check_time                                           *)
  processed,  (* processed_tasks: pairs of task and question               *)
  doing,      (* the listener: sleeping, marking, starting, asking,        *)
              (* completing                                                *)
  fresh,      (* the pairs it found                                        *)
  jobs,       (* those of them it has yet to ask, with their rounds        *)
  failed,     (* whether a job of the run failed                           *)
  afu,        (* AFu's loop: sleeping, marking, asking, completing         *)
  afuTasks,   (* the tasks of its run                                      *)
  afuJobs,    (* and its jobs                                              *)
  mishaps,    (* errors so far                                             *)
  restarts,   (* restarts so far                                           *)
  seen,       (* history: pairs the listener ever found                    *)
  asked,      (* history: jobs that were asked                             *)
  times,      (* history: how often the listener asked each pair           *)
  abandoned   (* history: pairs of runs that never began                   *)

table == <<world, visible, linked, state>>
listener == <<last, processed, doing, fresh, jobs, failed>>
afuLoop == <<afu, afuTasks, afuJobs>>
past == <<seen, asked, times, abandoned>>
listenerVars == <<table, listener, afuLoop, mishaps, restarts, past>>

Pairs == LegacyTasks \X Questions
Tasks(pairs) == {p[1] : p \in pairs}

ListenerInit ==
  /\ world \in Worlds
  /\ visible = {}
  /\ linked = [t \in LegacyTasks |-> {}]
  /\ state = [t \in LegacyTasks |-> "new"]
  /\ last = 0
  /\ processed = {}
  /\ doing = "sleeping"
  /\ fresh = {}
  /\ jobs = {}
  /\ failed = FALSE
  /\ afu = "sleeping"
  /\ afuTasks = {}
  /\ afuJobs = {}
  /\ mishaps = 0
  /\ restarts = 0
  /\ seen = {}
  /\ asked = {}
  /\ times = [p \in Pairs |-> 0]
  /\ abandoned = {}

\* A statement fails.
Mishap == mishaps < world.mishaps /\ mishaps' = mishaps + 1

\* Status of the tasks is set, by a statement for all of them ...
Written(tasks, s) == state' = [t \in LegacyTasks |-> IF t \in tasks THEN s ELSE state[t]]
SetState(tasks, s) ==
  \/ Written(tasks, s) /\ UNCHANGED mishaps
  \/ Written({}, s) /\ Mishap

\* ... or one for each.
SetEach(tasks, s) ==
  \/ Written(tasks, s) /\ UNCHANGED mishaps
  \/ \E some \in SUBSET tasks : some # tasks /\ Written(some, s) /\ Mishap

-----------------------------------------------------------------------------
(* The table.                                                              *)

\* In order, a task comes after all that were created before it, with questions.
Appear(t, questions) ==
  /\ t \in world.tasks \ visible
  /\ ~world.rushed =>
       questions # {} /\ \A u \in world.tasks : Created[u] < Created[t] => u \in visible
  /\ visible' = visible \cup {t}
  /\ linked' = [linked EXCEPT ![t] = questions]
  /\ UNCHANGED <<world, state, listener, afuLoop, mishaps, restarts, past>>

Link(t, q) ==
  /\ world.rushed
  /\ t \in visible
  /\ q \notin linked[t]
  /\ linked' = [linked EXCEPT ![t] = @ \cup {q}]
  /\ UNCHANGED <<world, visible, state, listener, afuLoop, mishaps, restarts, past>>

-----------------------------------------------------------------------------
(* The listener.                                                           *)

New == {t \in visible : state[t] = "new"}

\* Fault: only newer than the newest it has fetched.
NewerRows == {t \in New : Created[t] > last}

\* get_new_tasks: not older than the newest it has fetched.
NewRows == {t \in New : Created[t] >= last}
Newest(tasks) == CHOOSE c \in {Created[t] : t \in tasks} : \A t \in tasks : Created[t] <= c

\* Fault: what is processed is found again while its status says it is new.
FoundAgain == UNION {{t} \X linked[t] : t \in NewRows}

Found == (UNION {{t} \X linked[t] : t \in NewRows}) \ processed

\* group_tasks_by_model: NULL is one round.
RoundsOf(t) == IF Rounds[t] = Null THEN 1 ELSE Rounds[t]
Expanded(pairs) ==
  UNION {{<<p[1], p[2], r>> : r \in 1..RoundsOf(p[1])} :
           p \in {p \in pairs : Kind[p[1]] = "web"}}

\* Fault: one question of a task is kept.
OnePerTask(tuples) == {CHOOSE j \in tuples : j[1] = i[1] /\ j[3] = 1 : i \in tuples}

\* run_concurrent takes the round of such a tuple for the number of its rounds, and
\* drops a question that it has seen: the later rounds.
SameQuestion(i, j) == i[1] = j[1] /\ i[2] = j[2]
Scheduled(tuples) ==
  UNION {{<<i[1], i[2], r>> : r \in 1..i[3]} :
           i \in {i \in tuples : \A j \in tuples : SameQuestion(i, j) => i[3] <= j[3]}}

\* Tasks without a model are not processed when nothing else is found, tasks of
\* models it does not run are.
Check ==
  /\ doing = "sleeping"
  /\ NewRows # {}
  /\ last' = Newest(NewRows)
  /\ seen' = seen \cup Found
  /\ LET tuples == Expanded(Found)
         keyed == \E p \in Found : Kind[p[1]] # "keyless"
     IN  IF tuples = {}
         THEN /\ processed' = IF keyed THEN processed \cup Found ELSE processed
              /\ UNCHANGED <<doing, fresh, jobs>>
         ELSE /\ doing' = "marking"
              /\ fresh' = Found
              /\ jobs' = Scheduled(tuples)
              /\ UNCHANGED processed
  /\ UNCHANGED <<table, failed, afuLoop, mishaps, restarts, asked, times, abandoned>>

\* Its tasks, of the model that runs.
Group == Tasks(Scheduled(Expanded(fresh)))

\* run_single_model.
Mark ==
  /\ doing = "marking"
  /\ SetState(Group, "running")
  /\ doing' = "starting"
  /\ UNCHANGED <<world, visible, linked, last, processed, fresh, jobs, failed, afuLoop,
                 restarts, past>>

\* run_concurrent sets the statuses again.
Start ==
  /\ doing = "starting"
  /\ SetEach(Group, "running")
  /\ doing' = "asking"
  /\ failed' = FALSE
  /\ UNCHANGED <<world, visible, linked, last, processed, fresh, jobs, afuLoop, restarts, past>>

\* An error before its try block reaches the listener: nothing is asked or completed,
\* and the pairs count as processed.
StartFails ==
  /\ doing = "starting"
  /\ Mishap
  /\ doing' = "sleeping"
  /\ processed' = processed \cup fresh
  /\ abandoned' = abandoned \cup fresh
  /\ fresh' = {}
  /\ jobs' = {}
  /\ UNCHANGED <<table, last, failed, afuLoop, restarts, seen, asked, times>>

Ask(j) ==
  /\ doing = "asking"
  /\ j \in jobs
  /\ jobs' = jobs \ {j}
  /\ asked' = asked \cup {j}
  /\ times' = [times EXCEPT ![<<j[1], j[2]>>] = @ + 1]
  /\ failed' \in {failed, TRUE}
  /\ UNCHANGED <<table, last, processed, doing, fresh, afuLoop, mishaps, restarts, seen,
                 abandoned>>

\* The run keeps the statuses when a job failed ...
Finish ==
  /\ doing = "asking"
  /\ jobs = {}
  /\ IF failed THEN UNCHANGED <<state, mishaps>> ELSE SetEach(Group, "done")
  /\ doing' = "completing"
  /\ UNCHANGED <<world, visible, linked, last, processed, fresh, jobs, failed, afuLoop,
                 restarts, past>>

\* ... but says nothing of it: the listener completes the tasks all the same.
CompleteGroup ==
  /\ doing = "completing"
  /\ SetState(Group, "done")
  /\ doing' = "sleeping"
  /\ processed' = processed \cup fresh
  /\ fresh' = {}
  /\ failed' = FALSE
  /\ UNCHANGED <<world, visible, linked, last, jobs, afuLoop, restarts, past>>

Restart ==
  /\ restarts < MaxRestarts
  /\ restarts' = restarts + 1
  /\ last' = 0
  /\ processed' = {}
  /\ doing' = "sleeping"
  /\ fresh' = {}
  /\ jobs' = {}
  /\ failed' = FALSE
  /\ UNCHANGED <<table, afuLoop, mishaps, past>>

-----------------------------------------------------------------------------
(* AFu's loop.                                                             *)

AfuRows == {t \in New : Kind[t] = "afu"}
Before(t, u) == Created[t] < Created[u] \/ (Created[t] = Created[u] /\ t <= u)
Oldest == CHOOSE t \in AfuRows : \A u \in AfuRows : Before(t, u)

\* A task without questions has a row with none, which is asked like the others; a
\* question that several tasks have is asked for the first.
RowsOf(t) == IF linked[t] = {} THEN {NoQuestion} ELSE linked[t]
Unique ==
  {p \in AfuRows \X (Questions \cup {NoQuestion}) :
     /\ p[2] \in RowsOf(p[1])
     /\ \A u \in AfuRows : p[2] \in RowsOf(u) => Before(p[1], u)}

\* The rounds of the first question are those of all; NULL is a TypeError, and the
\* loop goes on to meet it again.
AfuTake ==
  /\ afu = "sleeping"
  /\ AfuRows # {}
  /\ Rounds[Oldest] # Null
  /\ afuTasks' = Tasks(Unique)
  /\ afuJobs' = {<<p[1], p[2], r>> : p \in Unique, r \in 1..Rounds[Oldest]}
  /\ afu' = "marking"
  /\ UNCHANGED <<table, listener, mishaps, restarts, past>>

AfuMark ==
  /\ afu = "marking"
  /\ SetEach(afuTasks, "running")
  /\ afu' = "asking"
  /\ UNCHANGED <<world, visible, linked, listener, afuTasks, afuJobs, restarts, past>>

\* Failures are logged.
AfuAsk ==
  /\ afu = "asking"
  /\ asked' = asked \cup afuJobs
  /\ afu' = "completing"
  /\ UNCHANGED <<table, listener, afuTasks, afuJobs, mishaps, restarts, seen, times, abandoned>>

AfuComplete ==
  /\ afu = "completing"
  /\ SetEach(afuTasks, "done")
  /\ afu' = "sleeping"
  /\ afuTasks' = {}
  /\ afuJobs' = {}
  /\ UNCHANGED <<world, visible, linked, listener, restarts, past>>

ListenerStep ==
  Check \/ Mark \/ Start \/ StartFails \/ (\E j \in jobs : Ask(j)) \/ Finish \/ CompleteGroup
AfuStep == AfuTake \/ AfuMark \/ AfuAsk \/ AfuComplete

ListenerNext ==
  \/ \E t \in LegacyTasks, qs \in SUBSET Questions : Appear(t, qs)
  \/ \E t \in LegacyTasks, q \in Questions : Link(t, q)
  \/ ListenerStep \/ AfuStep \/ Restart

\* Both loops go on; the table need not change.
ListenerFairness == WF_listenerVars(ListenerStep) /\ WF_listenerVars(AfuStep)

ListenerSpec == ListenerInit /\ [][ListenerNext]_listenerVars /\ ListenerFairness

-----------------------------------------------------------------------------
(* Properties.                                                             *)

\* Type invariant.
ListenerTypeOK ==
  /\ world \in Worlds
  /\ visible \subseteq LegacyTasks
  /\ linked \in [LegacyTasks -> SUBSET Questions]
  /\ state \in [LegacyTasks -> {"new", "running", "done"}]
  /\ last \in Nat
  /\ processed \subseteq Pairs
  /\ doing \in {"sleeping", "marking", "starting", "asking", "completing"}
  /\ fresh \subseteq Pairs
  /\ jobs \subseteq LegacyTasks \X Questions \X Nat
  /\ failed \in BOOLEAN
  /\ afu \in {"sleeping", "marking", "asking", "completing"}
  /\ afuTasks \subseteq LegacyTasks
  /\ afuJobs \subseteq LegacyTasks \X (Questions \cup {NoQuestion}) \X Nat
  /\ mishaps \in 0..world.mishaps
  /\ restarts \in 0..MaxRestarts
  /\ seen \subseteq Pairs
  /\ asked \subseteq LegacyTasks \X (Questions \cup {NoQuestion}) \X Nat
  /\ times \in [Pairs -> 0..(1 + MaxRestarts)]
  /\ abandoned \subseteq Pairs

\* However the status updates fail, the listener asks a question of a task once
\* between two of its starts, and for the first round alone, whatever MaxRounds says:
\* the rounds it expands are taken for repetitions.
AskedOnce ==
  /\ \A p \in Pairs : times[p] <= 1 + restarts
  /\ \A j \in asked : Kind[j[1]] = "web" => j[3] = 1

\* A task that the listener completes has been asked every question it ever found
\* for it, save in a run that never began.
DoneMeansAsked ==
  \A p \in seen : Kind[p[1]] = "web" /\ state[p[1]] = "done" =>
    <<p[1], p[2], 1>> \in asked \/ p \in abandoned

\* Nothing but its Status keeps py_main.py from a task, or that its pairs are processed.
Taken(t) == state[t] # "new" \/ t \in Tasks(processed)
OfKind(k) == {t \in visible : Kind[t] = k}

\* The loops get through whatever there is.  py_main.py takes every task that appears
\* in the order of its creation, with its questions, though two be of the same
\* second; AFu's loop, the only one that sets the Status of its tasks, gets them all
\* done in any order, if no update fails, until it meets one without MaxRounds.
EveryTaskIsTaken ==
  []<>(/\ ~world.rushed => \A t \in OfKind("web") : Taken(t)
       /\ (mishaps = 0 /\ \A t \in OfKind("afu") : Rounds[t] # Null) =>
            \A t \in OfKind("afu") : state[t] = "done")

=============================================================================

------------------------------ MODULE CrawlRun ------------------------------
(***************************************************************************)
(* One run of a crawler outside the platform: the questions of some tasks  *)
(* are asked on a web page, by a pool of threads with a cookie file (for   *)
(* AFu a browser profile) each, and the replies, the pages they cite and   *)
(* the cited snippets are stored, the last two by background threads.      *)
(*                                                                         *)
(* A job is a question in a round.  A crawler runs in one of three ways:   *)
(* "pool" (run_concurrent of DeepSeek and YuanBao, twins of each other:    *)
(* every job gets an instance of the crawler), "single" (their run: one    *)
(* instance asks all questions in turn) and "afu" (run_concurrent of AFu). *)
(* What the page shows is not known in advance; a page that never stops    *)
(* writing its answer is not modelled.                                     *)
(***************************************************************************)
EXTENDS Naturals, Sequences, FiniteSets

CONSTANTS
  Threads,    (* threads of the pool                                       *)
  Runs,       (* what may be run: [mode, jobs, cookies, offered, faults]   *)
  Default     (* the cookie file that is used when none is offered         *)

(* jobs: for every job its task; cookies: the files in the folder, in      *)
(* order; offered: those of them whose account is available, in the order  *)
(* the run shuffled them into; faults: bound of the model on what fails.   *)
Modes == {"pool", "single", "afu"}

ASSUME CrawlAssumption ==
  \A r \in Runs :
    /\ r.mode \in Modes
    /\ r.jobs \in Seq(Nat \ {0}) /\ r.jobs # <<>>
    /\ r.faults \in Nat
    /\ r.offered \in Seq({r.cookies[k] : k \in DOMAIN r.cookies})
    /\ \E k \in DOMAIN r.cookies : r.cookies[k] = Default

VARIABLES
  run,        (* what is run                                               *)
  phase,      (* the main thread: marking, working, completing, ended      *)
  unmarked,   (* tasks whose status the main thread has yet to set         *)
  status,     (* the status of each task in MySQL                          *)
  queue,      (* the jobs no thread has taken, in order                    *)
  pc,         (* what each thread does                                     *)
  batch,      (* the jobs its instance has left, the current one first     *)
  cookie,     (* the cookie file of the attempt                            *)
  left,       (* the cookie files it has not tried, by their positions     *)
  switched,   (* whether the attempt is made by a temporary instance       *)
  errors,     (* total_errors and total_errors_num                         *)
  inUse,      (* _cookies_in_use                                           *)
  result,     (* what each job ended with: none, true, false               *)
  reply,      (* each instance: the job of its current_reply_content_id    *)
  pending_snippets, (* each instance: the job of its pending_snippets      *)
  current,    (* each instance: the job of its task id and round           *)
  webs,       (* each instance: the job of its search_web_id_map           *)
  background, (* the background thread of each job                         *)
  replies,    (* rows of replies of each job                               *)
  pages,      (* rows of pages: by whose thread, as whose task and round   *)
  snippets,   (* rows of snippets: by, and of which reply, text and page   *)
  faults,     (* faults so far                                             *)
  silent,     (* history: jobs that went without a reply unnoticed         *)
  refused,    (* history: tasks whose status was not set                   *)
  repeats,    (* history: each job's repeated rows and late failures       *)
  misses,     (* history: attempts of the thread's question that failed    *)
  alerts      (* DingTalk messages: the misses each was sent after         *)

main == <<run, phase, unmarked, status, queue>>
thread == <<pc, batch, cookie, left, switched, errors, misses>>
instance == <<reply, pending_snippets, current, webs>>
stored == <<replies, pages, snippets>>
history == <<silent, refused, repeats, alerts>>
crawlVars == <<main, thread, inUse, result, instance, background, stored, faults, history>>

Jobs == DOMAIN run.jobs
CrawlTasks == {run.jobs[j] : j \in Jobs}
Files(r) == {r.cookies[k] : k \in DOMAIN r.cookies}

\* Fault: the jobs share an instance.
OneInstance(j) == 0

\* run_single of every job builds an instance; run shares one, 0.  An attempt with
\* another file has a temporary instance, save in AFu.
InstanceOf(j) == IF run.mode = "single" THEN 0 ELSE j
Temporary(j) == Len(run.jobs) + j
Instances == 0..(2 * Len(run.jobs))

CrawlInit ==
  /\ run \in Runs
  /\ phase = "marking"
  /\ unmarked = CrawlTasks
  /\ status = [t \in CrawlTasks |-> "new"]
  /\ queue = [i \in 1..Len(run.jobs) |-> i]
  /\ pc = [w \in Threads |-> "idle"]
  /\ batch = [w \in Threads |-> <<>>]
  /\ cookie = [w \in Threads |-> Default]
  /\ left = [w \in Threads |-> {}]
  /\ switched = [w \in Threads |-> FALSE]
  /\ errors = [w \in Threads |-> [total |-> 0, num |-> 0]]
  /\ inUse = {}
  /\ result = [j \in Jobs |-> "none"]
  /\ reply = [i \in Instances |-> 0]
  /\ pending_snippets = [i \in Instances |-> 0]
  /\ current = [i \in Instances |-> 0]
  /\ webs = [i \in Instances |-> 0]
  /\ background = [j \in Jobs |-> "none"]
  /\ replies = [j \in Jobs |-> 0]
  /\ pages = {}
  /\ snippets = {}
  /\ faults = 0
  /\ silent = {}
  /\ refused = {}
  /\ repeats = [j \in Jobs |-> 0]
  /\ misses = [w \in Threads |-> 0]
  /\ alerts = {}

\* Something outside fails.
Fault == faults < run.faults /\ faults' = faults + 1

-----------------------------------------------------------------------------
(* The main thread.                                                        *)

NextTask == CHOOSE t \in unmarked : \A u \in unmarked : t <= u

\* update_product_llm_task_status gives up after three attempts and returns None,
\* which nobody looks at.
SetStatus(s) ==
  /\ unmarked # {}
  /\ \/ status' = [status EXCEPT ![NextTask] = s] /\ UNCHANGED <<faults, refused>>
     \/ Fault /\ refused' = refused \cup {NextTask} /\ UNCHANGED status
  /\ unmarked' = unmarked \ {NextTask}
  /\ UNCHANGED <<run, queue, thread, inUse, result, instance, background, stored,
                 silent, repeats, alerts>>

MarkRunning == phase = "marking" /\ SetStatus("running") /\ UNCHANGED phase

StartPool ==
  /\ phase = "marking"
  /\ unmarked = {}
  /\ phase' = "working"
  /\ UNCHANGED <<run, unmarked, status, queue, thread, inUse, result, instance, background,
                 stored, faults, history>>

AllDone == \A j \in Jobs : result[j] # "none"

\* Fault: what the jobs return is not looked at.
FailuresIgnored == FALSE

HasFailures == \E j \in Jobs : result[j] = "false"

\* A failed job keeps all tasks of the run as they are.  The pool's with statement
\* waits for its threads.
Collect ==
  /\ run.mode = "pool"
  /\ phase = "working"
  /\ AllDone
  /\ phase' = IF HasFailures THEN "ended" ELSE "completing"
  /\ unmarked' = IF HasFailures THEN {} ELSE CrawlTasks
  /\ UNCHANGED <<run, status, queue, thread, inUse, result, instance, background, stored,
                 faults, history>>

\* AFu only logs what its workers raise.
CollectAfu ==
  /\ run.mode = "afu"
  /\ phase = "working"
  /\ AllDone
  /\ phase' = "completing"
  /\ unmarked' = CrawlTasks
  /\ UNCHANGED <<run, status, queue, thread, inUse, result, instance, background, stored,
                 faults, history>>

Complete ==
  \/ phase = "completing" /\ SetStatus("done") /\ UNCHANGED phase
  \/ /\ phase = "completing"
     /\ unmarked = {}
     /\ phase' = "ended"
     /\ UNCHANGED <<run, unmarked, status, queue, thread, inUse, result, instance, background,
                    stored, faults, history>>

-----------------------------------------------------------------------------
(* A thread with its instance.                                             *)

Job(w) == Head(batch[w])

\* build_round_interleaved_tasks: the offered files in turn.
OwnCookie(j) ==
  IF run.offered = <<>> THEN Default ELSE run.offered[1 + ((j - 1) % Len(run.offered))]

\* Which is not checked to be free.
TakeJob(w) ==
  /\ phase = "working"
  /\ run.mode # "single"
  /\ pc[w] = "idle"
  /\ queue # <<>>
  /\ queue' = Tail(queue)
  /\ batch' = [batch EXCEPT ![w] = <<Head(queue)>>]
  /\ cookie' = [cookie EXCEPT ![w] = OwnCookie(Head(queue))]
  /\ inUse' = inUse \cup {OwnCookie(Head(queue))}
  /\ pc' = [pc EXCEPT ![w] = "opening"]
  /\ UNCHANGED <<run, phase, unmarked, status, left, switched, errors, misses, result, instance,
                 background, stored, faults, history>>

\* run without questions: all of them, with the default file, which is not marked
\* as in use.
RunAll(w) ==
  /\ phase = "working"
  /\ run.mode = "single"
  /\ queue # <<>>
  /\ queue' = <<>>
  /\ batch' = [batch EXCEPT ![w] = queue]
  /\ pc' = [pc EXCEPT ![w] = "opening"]
  /\ UNCHANGED <<run, phase, unmarked, status, cookie, left, switched, errors, misses, inUse,
                 result, instance, background, stored, faults, history>>

Others(own) == {k \in DOMAIN run.cookies : run.cookies[k] # own}

\* process_questions: the instance turns to its next question, and the retry tries
\* its own file before all other files of the folder, offered or not.
Turn(w, rest, own) ==
  /\ batch' = [batch EXCEPT ![w] = rest]
  /\ current' = [current EXCEPT ![InstanceOf(Head(rest))] = Head(rest)]
  /\ cookie' = [cookie EXCEPT ![w] = own]
  /\ left' = [left EXCEPT ![w] = Others(own)]
  /\ switched' = [switched EXCEPT ![w] = FALSE]
  /\ misses' = [misses EXCEPT ![w] = 0]

Open(w) ==
  /\ pc[w] = "opening"
  /\ Turn(w, batch[w], cookie[w])
  /\ pc' = [pc EXCEPT ![w] = "asking"]
  /\ UNCHANGED <<main, errors, inUse, result, reply, pending_snippets, webs, background, stored,
                 faults, history>>

\* A login that fails ends run with a logged error and no exception: it looks like
\* a success.  AFu raises.
LoginFails(w) ==
  /\ pc[w] = "opening"
  /\ run.mode # "afu"
  /\ Fault
  /\ silent' = silent \cup {batch[w][i] : i \in DOMAIN batch[w]}
  /\ pc' = [pc EXCEPT ![w] = "leaving"]
  /\ UNCHANGED <<main, batch, cookie, left, switched, errors, misses, inUse, result, instance,
                 background, stored, refused, repeats, alerts>>

BrowserFails(w) ==
  /\ pc[w] = "opening"
  /\ Fault
  /\ pc' = [pc EXCEPT ![w] = "raising"]
  /\ UNCHANGED <<main, batch, cookie, left, switched, errors, misses, inUse, result, instance,
                 background, stored, history>>

\* Fault: a serious error is enough.
AlarmsSooner(e) == e.total = 2

\* The second serious error.
Alarms(e) == e.total = 2 /\ e.num = 1

\* Three errors make a serious one, and two of these a message; AFu does not count.
Counted(e) ==
  IF run.mode = "afu" \/ Alarms(e) THEN [total |-> 0, num |-> 0]
  ELSE IF e.total = 2 THEN [total |-> 0, num |-> e.num + 1] ELSE [e EXCEPT !.total = @ + 1]

CountError(w) ==
  /\ errors' = [errors EXCEPT ![w] = Counted(@)]
  /\ misses' = [misses EXCEPT ![w] = @ + 1]
  /\ alerts' = IF run.mode # "afu" /\ Alarms(errors[w])
               THEN alerts \cup {misses[w] + 1} ELSE alerts

\* Fault: the success of a temporary attempt is lost.
SucceedsOnce(w) == pc' = [pc EXCEPT ![w] = IF switched[w] THEN "failed" ELSE "answered"]

Succeeds(w) == pc' = [pc EXCEPT ![w] = "answered"]
Raises(w) == pc' = [pc EXCEPT ![w] = "failed"]
SameThread == UNCHANGED <<batch, cookie, left, switched>>

\* The instance that asks.
Asker(w) == IF switched[w] /\ run.mode # "afu" THEN Temporary(Job(w)) ELSE InstanceOf(Job(w))

\* A page without its input box or its button only logs, and counts the first: the
\* question passes as answered.
PageIsBlank(w) ==
  /\ pc[w] = "asking"
  /\ run.mode # "afu"
  /\ Fault
  /\ silent' = silent \cup {Job(w)}
  /\ Succeeds(w)
  /\ CountError(w) \/ UNCHANGED <<errors, misses, alerts>>
  /\ SameThread
  /\ UNCHANGED <<main, inUse, result, instance, background, stored, refused, repeats>>

NoAnswer(w) ==
  /\ pc[w] = "asking"
  /\ Fault
  /\ Raises(w)
  /\ CountError(w)
  /\ SameThread
  /\ UNCHANGED <<main, inUse, result, instance, background, stored, silent, refused, repeats>>

InsertReply(w) ==
  /\ replies' = [replies EXCEPT ![Job(w)] = @ + 1]
  /\ reply' = [reply EXCEPT ![Asker(w)] = Job(w)]
  /\ UNCHANGED <<faults, silent, repeats>>

\* retry_on_db_error: an insert whose commit is done when the connection breaks is
\* made again, with another id; after three attempts the result is None.
RetryReply(w) ==
  /\ Fault
  /\ \/ /\ replies' = [replies EXCEPT ![Job(w)] = @ + 2]
        /\ reply' = [reply EXCEPT ![Asker(w)] = Job(w)]
        /\ repeats' = [repeats EXCEPT ![Job(w)] = @ + 1]
        /\ UNCHANGED silent
     \/ /\ reply' = [reply EXCEPT ![Asker(w)] = 0]
        /\ silent' = silent \cup {Job(w)}
        /\ UNCHANGED <<replies, repeats>>

AnswerComes(w) ==
  /\ pc[w] = "asking"
  /\ InsertReply(w) \/ RetryReply(w)
  /\ pc' = [pc EXCEPT ![w] = "parsing"]
  /\ SameThread
  /\ UNCHANGED <<main, errors, misses, inUse, result, pending_snippets, current, webs,
                 background, pages, snippets, refused, alerts>>

\* dp_api_deepseek gives the snippets, or None when it failed three times.
Parse(w) ==
  /\ pc[w] = "parsing"
  /\ \/ pending_snippets' = [pending_snippets EXCEPT ![Asker(w)] = Job(w)] /\ UNCHANGED faults
     \/ Fault /\ pending_snippets' = [pending_snippets EXCEPT ![Asker(w)] = 0]
  /\ pc' = [pc EXCEPT ![w] = "collecting"]
  /\ SameThread
  /\ UNCHANGED <<main, errors, misses, inUse, result, reply, current, webs, background, stored,
                 history>>

\* The reply is stored by now; the next attempt stores another one.  In AFu what
\* comes after the reply is caught.
FailsLate(w) ==
  /\ pc[w] \in {"parsing", "collecting"}
  /\ run.mode # "afu"
  /\ Fault
  /\ repeats' = [repeats EXCEPT ![Job(w)] = @ + 1]
  /\ Raises(w)
  /\ CountError(w)
  /\ SameThread
  /\ UNCHANGED <<main, inUse, result, instance, background, stored, silent, refused>>

\* The thread that stores pages and snippets; YuanBao starts none without links, and
\* a page may have no button for them.
Collects(w) ==
  /\ pc[w] = "collecting"
  /\ \E starts \in BOOLEAN :
       background' = IF starts
                     THEN [background EXCEPT ![Job(w)] =
                             IF switched[w] THEN "switched" ELSE "own"]
                     ELSE background
  /\ Succeeds(w)
  /\ SameThread
  /\ UNCHANGED <<main, errors, misses, inUse, result, instance, stored, faults, history>>

-----------------------------------------------------------------------------
(* ask_one_question_with_retry.                                            *)

\* The file of a temporary attempt is free again.
GivenBack(w) == IF switched[w] THEN inUse \ {cookie[w]} ELSE inUse
Reset(w) == errors' = [errors EXCEPT ![w] = [total |-> 0, num |-> 0]]

\* The next file nobody uses; the files in use are skipped for good.
Switch(w) ==
  /\ pc[w] = "failed"
  /\ \E k \in left[w] :
       /\ \A i \in left[w] : i < k => run.cookies[i] \in GivenBack(w)
       /\ run.cookies[k] \notin GivenBack(w)
       /\ inUse' = GivenBack(w) \cup {run.cookies[k]}
       /\ cookie' = [cookie EXCEPT ![w] = run.cookies[k]]
       /\ left' = [left EXCEPT ![w] = {i \in left[w] : i > k}]
  /\ switched' = [switched EXCEPT ![w] = TRUE]
  /\ current' = [current EXCEPT ![Temporary(Job(w))] = current[InstanceOf(Job(w))]]
  /\ pc' = [pc EXCEPT ![w] = "asking"]
  /\ UNCHANGED <<main, batch, errors, misses, result, reply, pending_snippets, webs,
                 background, stored, faults, history>>

\* Without a browser a temporary attempt is over before it is counted.
TemporaryBrowserFails(w) ==
  /\ pc[w] = "asking"
  /\ switched[w]
  /\ Fault
  /\ Raises(w)
  /\ SameThread
  /\ UNCHANGED <<main, errors, misses, inUse, result, instance, background, stored, history>>

GiveUp(w) ==
  /\ pc[w] = "failed"
  /\ \A k \in left[w] : run.cookies[k] \in GivenBack(w)
  /\ inUse' = GivenBack(w)
  /\ Reset(w)
  /\ pc' = [pc EXCEPT ![w] = "raising"]
  /\ UNCHANGED <<main, batch, cookie, left, switched, misses, result, instance, background,
                 stored, faults, history>>

\* The instance keeps the file that worked as its own.
Answered(w) ==
  /\ pc[w] = "answered"
  /\ inUse' = GivenBack(w)
  /\ Reset(w)
  /\ IF Len(batch[w]) > 1
     THEN /\ Turn(w, Tail(batch[w]), cookie[w])
          /\ result' = [result EXCEPT ![Job(w)] = "true"]
          /\ pc' = [pc EXCEPT ![w] = "asking"]
     ELSE /\ pc' = [pc EXCEPT ![w] = "returning"]
          /\ UNCHANGED <<batch, cookie, left, switched, misses, current, result>>
  /\ UNCHANGED <<main, reply, pending_snippets, webs, background, stored, faults, history>>

-----------------------------------------------------------------------------
(* The end of run_single and of run.                                       *)

\* Fault: nobody joins the background threads.
NoneAwaited(w) == {}

\* The background threads an instance waits for; a temporary instance of DeepSeek
\* has its own, which nobody waits for.
Awaited(w) ==
  {j \in Jobs :
     /\ InstanceOf(j) = InstanceOf(Job(w))
     /\ \/ background[j] \in {"own", "own2"}
        \/ run.mode = "afu" /\ background[j] \in {"switched", "switched2"}}

Finished(w, value) ==
  /\ result' = [j \in Jobs |-> IF \E i \in DOMAIN batch[w] : batch[w][i] = j THEN value
                               ELSE result[j]]
  /\ inUse' = IF run.mode = "single" THEN inUse ELSE inUse \ {OwnCookie(Job(w))}
  /\ pc' = [pc EXCEPT ![w] = "idle"]
  /\ batch' = [batch EXCEPT ![w] = <<>>]
  /\ left' = [left EXCEPT ![w] = {}]
  /\ cookie' = [cookie EXCEPT ![w] = Default]
  /\ switched' = [switched EXCEPT ![w] = FALSE]
  /\ UNCHANGED <<errors, misses, instance, background, stored, faults, history>>

\* AFu closes its monitor, all close their browser.
Return(w) ==
  /\ pc[w] = "returning"
  /\ run.mode # "single"
  /\ Awaited(w) = {}
  /\ Finished(w, "true")
  /\ UNCHANGED main

\* run sets the statuses before it waits for its background threads.
ReturnAll(w) ==
  /\ pc[w] = "returning"
  /\ run.mode = "single"
  /\ Finished(w, "true")
  /\ phase' = "completing"
  /\ unmarked' = CrawlTasks
  /\ UNCHANGED <<run, status, queue>>

\* run stays on the page for three seconds first: if it is closed meanwhile the job
\* has failed, with its reply stored.
PageCloses(w) ==
  /\ pc[w] = "returning"
  /\ run.mode # "afu"
  /\ Fault
  /\ pc' = [pc EXCEPT ![w] = "raising"]
  /\ SameThread
  /\ UNCHANGED <<main, errors, misses, inUse, result, instance, background, stored, history>>

\* run without a login: nothing is asked, and no status set.
Leave(w) ==
  /\ pc[w] = "leaving"
  /\ Finished(w, "true")
  /\ phase' = IF run.mode = "single" THEN "ended" ELSE phase
  /\ UNCHANGED <<run, unmarked, status, queue>>

\* Nobody waits for background threads then, and the other questions of the
\* instance are not asked.
Raise(w) ==
  /\ pc[w] = "raising"
  /\ Finished(w, "false")
  /\ phase' = IF run.mode = "single" THEN "ended" ELSE phase
  /\ UNCHANGED <<run, unmarked, status, queue>>

-----------------------------------------------------------------------------
(* Background threads.  Those of DeepSeek and YuanBao read the fields of   *)
(* their instance when they need them; those of AFu are given theirs.      *)

Owner(j) ==
  IF background[j] \in {"switched", "switched2"} /\ run.mode # "afu"
  THEN Temporary(j) ELSE InstanceOf(j)

\* The page is in the map whether its row is stored or not.
InsertSearchWeb(j) ==
  /\ \/ pages' = pages \cup {[by |-> j, as |-> current[Owner(j)]]} /\ UNCHANGED faults
     \/ Fault /\ UNCHANGED pages
  /\ webs' = [webs EXCEPT ![Owner(j)] = j]

\* Without an id a page is skipped.
NoWebContent(j) ==
  /\ Fault
  /\ webs' = [webs EXCEPT ![Owner(j)] = 0]
  /\ UNCHANGED pages

\* The cited pages, each in its own statements: with any of them failed the next
\* are stored all the same.
StorePages(j) ==
  /\ background[j] \in {"own", "switched"}
  /\ InsertSearchWeb(j) \/ NoWebContent(j)
  /\ background' = [background EXCEPT ![j] = IF @ = "own" THEN "own2" ELSE "switched2"]
  /\ UNCHANGED <<main, thread, inUse, result, reply, pending_snippets, current, replies,
                 snippets, history>>

\* The analysis for AFu may have ended with None, which its thread cannot iterate.
ThreadDies(j) ==
  /\ run.mode = "afu"
  /\ background[j] \in {"own", "switched"}
  /\ pending_snippets[Owner(j)] = 0
  /\ background' = [background EXCEPT ![j] = "ended"]
  /\ UNCHANGED <<main, thread, inUse, result, instance, stored, faults, history>>

InsertSnippet(r) ==
  \/ snippets' = snippets \cup {r} /\ UNCHANGED faults
  \/ Fault /\ UNCHANGED snippets

\* The snippets of the instance's last reply and analysis, with the pages in its map.
StoreSnippets(j) ==
  /\ background[j] \in {"own2", "switched2"}
  /\ LET r == [by |-> j, reply |-> reply[Owner(j)], text |-> pending_snippets[Owner(j)],
               page |-> webs[Owner(j)]]
     IN  IF 0 \in {r.reply, r.text, r.page}
         THEN UNCHANGED <<snippets, faults>> ELSE InsertSnippet(r)
  /\ background' = [background EXCEPT ![j] = "ended"]
  /\ UNCHANGED <<main, thread, inUse, result, instance, replies, pages, history>>

ThreadStep(w) ==
  \/ TakeJob(w) \/ RunAll(w) \/ Open(w) \/ LoginFails(w) \/ BrowserFails(w)
  \/ PageIsBlank(w) \/ NoAnswer(w) \/ AnswerComes(w) \/ Parse(w) \/ FailsLate(w) \/ Collects(w)
  \/ Switch(w) \/ TemporaryBrowserFails(w) \/ GiveUp(w) \/ Answered(w)
  \/ PageCloses(w) \/ Return(w) \/ ReturnAll(w) \/ Leave(w) \/ Raise(w)

MainStep == MarkRunning \/ StartPool \/ Collect \/ CollectAfu \/ Complete

BackgroundStep == \E j \in Jobs : StorePages(j) \/ StoreSnippets(j) \/ ThreadDies(j)

CrawlNext == MainStep \/ BackgroundStep \/ \E w \in Threads : ThreadStep(w)

CrawlSpec == CrawlInit /\ [][CrawlNext]_crawlVars

-----------------------------------------------------------------------------
(* Properties.                                                             *)

Steps == {"idle", "opening", "asking", "parsing", "collecting", "answered", "failed",
          "returning", "leaving", "raising"}

\* Type invariant.  Whatever fails, a file is in use only while some thread works;
\* an alert is sent after every sixth attempt of one question that failed, never
\* after another.
CrawlTypeOK ==
  /\ run \in Runs
  /\ phase \in {"marking", "working", "completing", "ended"}
  /\ unmarked \subseteq CrawlTasks
  /\ status \in [CrawlTasks -> {"new", "running", "done"}]
  /\ queue \in Seq(Jobs)
  /\ pc \in [Threads -> Steps]
  /\ batch \in [Threads -> Seq(Jobs)]
  /\ cookie \in [Threads -> Files(run)]
  /\ left \in [Threads -> SUBSET DOMAIN run.cookies]
  /\ switched \in [Threads -> BOOLEAN]
  /\ errors \in [Threads -> [total : 0..2, num : 0..1]]
  /\ inUse \subseteq Files(run)
  /\ (\A w \in Threads : pc[w] = "idle") => inUse = {}
  /\ result \in [Jobs -> {"none", "true", "false"}]
  /\ \A f \in {reply, pending_snippets, current, webs} : f \in [Instances -> {0} \cup Jobs]
  /\ background \in [Jobs -> {"none", "own", "switched", "own2", "switched2", "ended"}]
  /\ replies \in [Jobs -> Nat]
  /\ pages \subseteq [by : Jobs, as : {0} \cup Jobs]
  /\ snippets \subseteq [by : Jobs, reply : Jobs, text : Jobs, page : Jobs]
  /\ faults \in 0..run.faults
  /\ silent \subseteq Jobs
  /\ refused \subseteq CrawlTasks
  /\ repeats \in [Jobs -> Nat]
  /\ misses \in [Threads -> Nat]
  /\ \A n \in alerts : n > 0 /\ n % 6 = 0

CompleteHasReplies ==
  run.mode # "afu" =>
    \A j \in Jobs : status[run.jobs[j]] = "done" => replies[j] > 0 \/ j \in silent

StrandedExplained ==
  phase = "ended" =>
    \A t \in CrawlTasks : status[t] = "done" \/ t \in refused \/ HasFailures \/ silent = Jobs

\* A task that DeepSeek or YuanBao complete has a reply for each of its jobs, unless
\* the page was blank, the login failed or MySQL refused it: these alone are not
\* noticed.  A task stays incomplete only when some job of the run, its own or not,
\* failed, nothing could be asked, or MySQL refused its status.
StatusExplained == CompleteHasReplies /\ StrandedExplained

\* A job has no second reply but for a failure after its first one was stored, and
\* for a commit whose answer was lost.
RepliesExplained == \A j \in Jobs : replies[j] <= 1 + repeats[j]


\* With an instance for every job, pages and snippets are stored with the reply they
\* belong to, however the threads interleave.
OwnSnippets ==
  run.mode # "single" =>
    /\ \A p \in pages : p.as = p.by
    /\ \A s \in snippets : s.reply = s.by /\ s.text = s.by /\ s.page = s.by

\* A job that is reported as a success has stored its pages and snippets, unless it
\* was answered after a switch (of DeepSeek or YuanBao).
StoredBeforeReported ==
  run.mode # "single" =>
    \A j \in Jobs :
      result[j] = "true" =>
        background[j] \in {"none", "ended"}
          \cup (IF run.mode = "afu" THEN {} ELSE {"switched", "switched2"})

=============================================================================

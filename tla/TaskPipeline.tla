----------------------------- MODULE TaskPipeline -----------------------------
(***************************************************************************)
(* The path of an execution unit through the platform: a master's          *)
(* dispatcher thread inserts a task_master_status row and pushes a message *)
(* to the model queue, a consumer pops it, runs the crawler and retries or *)
(* reports, and a master's result listener stores the result and closes    *)
(* the business task.                                                      *)
(*                                                                         *)
(* Every action is one Redis command or one MySQL transaction, because any *)
(* other thread or process can step in between two of them.  The queue is  *)
(* one model queue under the default strategy (fifo), where a consumer     *)
(* only ever issues BLPOP.  A dashboard that shows or changes priorities   *)
(* rewrites that queue under any strategy.  A failure between two steps    *)
(* (an exception that ends the thread, a killed process) is an action of   *)
(* its own.                                                                *)
(***************************************************************************)
EXTENDS Naturals, Sequences, FiniteSets

CONSTANTS
  Tasks,        (* business tasks: rows of ent_data_product_llm_task       *)
  Unroutable,   (* the tasks among them that have no LlmKey                *)
  Units,        (* execution units: (task, question, round)                *)
  TaskOf,       (* the business task of each unit                          *)
  RowOf,        (* position of the unit's (task, question) row in the      *)
                (* ORDER BY of the pending query                           *)
  RoundOf,      (* the unit's round number                                 *)
  Masters,      (* main_server processes (dispatcher + result listener)    *)
  Consumers,    (* consumer threads of the model queue                     *)
  Limit,        (* rows fetched per dispatch cycle (--limit)               *)
  MaxRetries,   (* CONSUMER_MAX_RETRIES                                    *)
  Operations,   (* other dashboard operations that an operator may issue   *)
  MaxRewrites,  (* bound of the model: rewrites of the queue               *)
  MaxFaults,    (* bound of the model: crashes and exceptions              *)
  Nothing       (* a thread holds no unit, message or result               *)

ASSUME PipelineAssumption ==
  /\ TaskOf \in [Units -> Tasks]
  /\ RowOf \in [Units -> Nat]
  /\ RoundOf \in [Units -> Nat]
  /\ Unroutable \subseteq Tasks
  /\ Limit \in Nat
  /\ MaxRetries \in Nat
  /\ MaxRewrites \in Nat
  /\ MaxFaults \in Nat
  /\ Operations \subseteq {"cancel", "create", "clear", "pause"}
  /\ Nothing \notin Units

VARIABLES
  status,       (* task_master_status.execute_status, "absent" = no row    *)
  business,     (* ent_data_product_llm_task.Status                        *)
  queue,        (* the model queue: a Redis list                           *)
  results,      (* queue:results                                           *)
  dead,         (* units with a message in queue:dead-letter               *)
  paused,       (* ControlState.paused                                     *)
  todo,         (* dispatcher: units of this cycle not yet looked at       *)
  current,      (* dispatcher: the unit being published                    *)
  dpc,          (* dispatcher: next step                                   *)
  message,      (* consumer: the message it popped                         *)
  success,      (* consumer: the crawler's verdict on it                   *)
  cpc,          (* consumer: next step                                     *)
  result,       (* listener: the result it popped                          *)
  lpc,          (* listener: next step                                     *)
  rstep,        (* rewrite of the queue: next step                         *)
  extent,       (* rewrite: LLEN of the queue when it began to read        *)
  position,     (* rewrite: places read so far                             *)
  copied,       (* rewrite: the messages read and not yet pushed back      *)
  rewrites,     (* rewrites of the queue so far                            *)
  faults,       (* crashes and exceptions so far                           *)
  attempts,     (* history: crawler runs of each unit that is not raced    *)
  succeeded,    (* history: units the crawler ran successfully             *)
  settled,      (* history: units whose result the listener stored         *)
  struck,       (* history: units whose copy a failing thread held         *)
  unburied,     (* history: failures reported, but no dead letter written  *)
  raced         (* history: units that a rewrite lost, doubled or set back *)

tables     == <<status, business>>
lists      == <<queue, results, dead>>
dispatcher == <<todo, current, dpc>>
consumer   == <<message, success, cpc>>
listener   == <<result, lpc>>
dashboard  == <<paused, rstep, extent, position, copied, rewrites>>
history    == <<attempts, succeeded, settled, struck, unburied, raced>>
vars == <<tables, lists, dispatcher, consumer, listener, dashboard, faults, history>>

Finished == {"completed", "failed", "cancelled"}
Statuses == Finished \cup {"absent", "pending", "queued", "running"}
BusinessStatuses == {"not_started", "in_progress", "crawl_done"}
DispatcherSteps == {"fetch", "create", "push", "mark_queued", "mark_business"}
ConsumerSteps == {"pop", "mark_running", "execute", "retry_push", "retry_mark",
                  "push_result", "push_dead", "down"}
ListenerSteps == {"pop", "store", "count_unfinished", "count_failed", "close", "down"}
RewriteSteps == {"idle", "read", "push"}

Messages == [unit : Units, retry_count : Nat]
Results  == [unit : Units, success : BOOLEAN]

Init ==
  /\ status = [u \in Units |-> "absent"]
  /\ business = [t \in Tasks |-> "not_started"]
  /\ queue = <<>>
  /\ results = <<>>
  /\ dead = {}
  /\ paused = FALSE
  /\ todo = [m \in Masters |-> {}]
  /\ current = [m \in Masters |-> Nothing]
  /\ dpc = [m \in Masters |-> "fetch"]
  /\ message = [c \in Consumers |-> Nothing]
  /\ success = [c \in Consumers |-> FALSE]
  /\ cpc = [c \in Consumers |-> "pop"]
  /\ result = [m \in Masters |-> Nothing]
  /\ lpc = [m \in Masters |-> "pop"]
  /\ rstep = "idle"
  /\ extent = 0
  /\ position = 0
  /\ copied = <<>>
  /\ rewrites = 0
  /\ faults = 0
  /\ attempts = [u \in Units |-> 0]
  /\ succeeded = {}
  /\ settled = {}
  /\ struck = {}
  /\ unburied = {}
  /\ raced = {}

-----------------------------------------------------------------------------
(* Where the copies of a unit are, as long as no rewrite has raced with it. *)

DispatcherHas(m, u) == u \notin raced /\ dpc[m] = "push" /\ current[m] = u
QueueHas(i, u)      == u \notin raced /\ i \in DOMAIN queue /\ queue[i].unit = u
RewriteHas(i, u)    == /\ u \notin raced /\ rstep = "push"
                       /\ i \in DOMAIN copied /\ copied[i].unit = u
ConsumerHas(c, u)   == /\ u \notin raced
                       /\ cpc[c] \in {"mark_running", "execute", "retry_push", "push_result"}
                       /\ message[c].unit = u
ResultsHave(i, u)   == u \notin raced /\ i \in DOMAIN results /\ results[i].unit = u
ListenerHas(m, u)   == u \notin raced /\ lpc[m] = "store" /\ result[m].unit = u

-----------------------------------------------------------------------------
(* The dispatcher thread of a master.                                      *)

\* Rows of not-started tasks, cut after Limit rows whatever task they belong to.
PendingRows == {RowOf[u] : u \in {v \in Units : business[TaskOf[v]] = "not_started"}}

FetchedUnits ==
  {u \in Units : /\ business[TaskOf[u]] = "not_started"
                 /\ Cardinality({r \in PendingRows : r < RowOf[u]}) < Limit}

Before(u, v) ==
  \/ RowOf[u] < RowOf[v]
  \/ RowOf[u] = RowOf[v] /\ RoundOf[u] < RoundOf[v]

IsNext(m, u) == u \in todo[m] /\ \A v \in todo[m] : ~Before(v, u)

\* Where the loop over the fetched rows goes when a unit is done with.
LoopStep(rest) == IF rest = {} THEN "fetch" ELSE "create"

FetchPendingTasks(m) ==
  /\ dpc[m] = "fetch"
  /\ ~paused
  /\ FetchedUnits # {}
  /\ todo' = [todo EXCEPT ![m] = FetchedUnits]
  /\ dpc' = [dpc EXCEPT ![m] = "create"]
  /\ UNCHANGED <<tables, lists, current, consumer, listener, dashboard, faults, history>>

\* expand_task raises on a task without LlmKey: the rest of the cycle is dropped.
ExpandFails(m) ==
  /\ dpc[m] = "create"
  /\ \E u \in Units : IsNext(m, u) /\ TaskOf[u] \in Unroutable
  /\ todo' = [todo EXCEPT ![m] = {}]
  /\ dpc' = [dpc EXCEPT ![m] = "fetch"]
  /\ UNCHANGED <<tables, lists, current, consumer, listener, dashboard, faults, history>>

\* Fault: INSERT reports a new row even when the row was there already.
AlwaysCreated(u) == TRUE

\* rowcount = 1 of INSERT ... ON DUPLICATE KEY UPDATE.
WasCreated(u) == status[u] = "absent"

CreateOrGetTaskRecord(m, u) ==
  /\ dpc[m] = "create"
  /\ IsNext(m, u)
  /\ TaskOf[u] \notin Unroutable
  /\ todo' = [todo EXCEPT ![m] = @ \ {u}]
  /\ \/ /\ WasCreated(u)
        /\ status' = [status EXCEPT ![u] = IF @ = "absent" THEN "pending" ELSE @]
        /\ current' = [current EXCEPT ![m] = u]
        /\ dpc' = [dpc EXCEPT ![m] = "push"]
     \/ /\ ~WasCreated(u)
        /\ dpc' = [dpc EXCEPT ![m] = LoopStep(todo'[m])]
        /\ UNCHANGED <<status, current>>
  /\ UNCHANGED <<business, lists, consumer, listener, dashboard, faults, history>>

PublishPush(m) ==
  /\ dpc[m] = "push"
  /\ queue' = Append(queue, [unit |-> current[m], retry_count |-> 0])
  /\ dpc' = [dpc EXCEPT ![m] = "mark_queued"]
  /\ UNCHANGED <<tables, results, dead, todo, current, consumer, listener,
                 dashboard, faults, history>>

PublishMarkQueued(m) ==
  /\ dpc[m] = "mark_queued"
  /\ status' = [status EXCEPT ![current[m]] = "queued"]
  /\ dpc' = [dpc EXCEPT ![m] = "mark_business"]
  /\ UNCHANGED <<business, lists, todo, current, consumer, listener, dashboard, faults, history>>

PublishMarkBusiness(m) ==
  /\ dpc[m] = "mark_business"
  /\ business' = [business EXCEPT ![TaskOf[current[m]]] = "in_progress"]
  /\ dpc' = [dpc EXCEPT ![m] = LoopStep(todo[m])]
  /\ current' = [current EXCEPT ![m] = Nothing]
  /\ UNCHANGED <<status, lists, todo, consumer, listener, dashboard, faults, history>>

DispatcherStep(m) ==
  \/ FetchPendingTasks(m)
  \/ ExpandFails(m)
  \/ \E u \in Units : CreateOrGetTaskRecord(m, u)
  \/ PublishPush(m)
  \/ PublishMarkQueued(m)
  \/ PublishMarkBusiness(m)

-----------------------------------------------------------------------------
(* A consumer thread: consume_once, step by step.                          *)

PopMessage(c) ==
  /\ cpc[c] = "pop"
  /\ queue # <<>>
  /\ message' = [message EXCEPT ![c] = Head(queue)]
  /\ queue' = Tail(queue)
  /\ cpc' = [cpc EXCEPT ![c] = "mark_running"]
  /\ UNCHANGED <<tables, results, dead, dispatcher, success, listener, dashboard, faults,
                 history>>

MarkRunning(c) ==
  /\ cpc[c] = "mark_running"
  /\ status' = [status EXCEPT ![message[c].unit] = "running"]
  /\ cpc' = [cpc EXCEPT ![c] = "execute"]
  /\ UNCHANGED <<business, lists, dispatcher, message, success, listener,
                 dashboard, faults, history>>

\* Fault: the bound is compared with <=, one retry too many.
ShouldRetryOnceMore(retry_count) == retry_count <= MaxRetries

\* Fault: a unit is given up while it has a retry left.
ShouldRetryOnceLess(retry_count) == retry_count + 1 < MaxRetries

ShouldRetry(retry_count) == retry_count < MaxRetries

\* The crawler answers or raises; either way the guard turns it into a verdict.
Execute(c) ==
  /\ cpc[c] = "execute"
  /\ \E ok \in BOOLEAN :
       /\ success' = [success EXCEPT ![c] = ok]
       /\ succeeded' = IF ok THEN succeeded \cup {message[c].unit} ELSE succeeded
       /\ cpc' = [cpc EXCEPT ![c] =
                    IF ~ok /\ ShouldRetry(message[c].retry_count)
                      THEN "retry_push" ELSE "push_result"]
  /\ attempts' = [u \in Units |-> IF u = message[c].unit /\ u \notin raced
                                    THEN attempts[u] + 1 ELSE attempts[u]]
  /\ UNCHANGED <<tables, lists, dispatcher, message, listener, dashboard, faults,
                 settled, struck, unburied, raced>>

\* Fault: the message is dropped instead of requeued.
RetryDropped(c) ==
  /\ cpc[c] = "retry_push"
  /\ cpc' = [cpc EXCEPT ![c] = "retry_mark"]
  /\ UNCHANGED <<tables, lists, dispatcher, message, success, listener,
                 dashboard, faults, history>>

\* Fault: the message is requeued with the count it came with.
RetryUncounted(c) ==
  /\ cpc[c] = "retry_push"
  /\ queue' = Append(queue, message[c])
  /\ cpc' = [cpc EXCEPT ![c] = "retry_mark"]
  /\ UNCHANGED <<tables, results, dead, dispatcher, message, success, listener,
                 dashboard, faults, history>>

RetryPush(c) ==
  /\ cpc[c] = "retry_push"
  /\ queue' = Append(queue, [message[c] EXCEPT !.retry_count = @ + 1])
  /\ cpc' = [cpc EXCEPT ![c] = "retry_mark"]
  /\ UNCHANGED <<tables, results, dead, dispatcher, message, success, listener,
                 dashboard, faults, history>>

RetryMarkQueued(c) ==
  /\ cpc[c] = "retry_mark"
  /\ status' = [status EXCEPT ![message[c].unit] = "queued"]
  /\ cpc' = [cpc EXCEPT ![c] = "pop"]
  /\ message' = [message EXCEPT ![c] = Nothing]
  /\ UNCHANGED <<business, lists, dispatcher, success, listener, dashboard, faults, history>>

\* Fault: a reported failure is never followed by its dead letter.
NoDeadLetterAfter(ok) == "pop"

AfterReport(ok) == IF ok THEN "pop" ELSE "push_dead"

\* Fault: the message is given up before its dead letter is written.
GivenUp(c) == Nothing

HeldAfterReport(c) == IF success[c] THEN Nothing ELSE message[c]

PushResult(c) ==
  /\ cpc[c] = "push_result"
  /\ results' = Append(results, [unit |-> message[c].unit, success |-> success[c]])
  /\ cpc' = [cpc EXCEPT ![c] = AfterReport(success[c])]
  /\ message' = [message EXCEPT ![c] = HeldAfterReport(c)]
  /\ success' = [success EXCEPT ![c] = FALSE]
  /\ UNCHANGED <<tables, queue, dead, dispatcher, listener, dashboard, faults, history>>

PushDeadLetter(c) ==
  /\ cpc[c] = "push_dead"
  /\ dead' = dead \cup {message[c].unit}
  /\ cpc' = [cpc EXCEPT ![c] = "pop"]
  /\ message' = [message EXCEPT ![c] = Nothing]
  /\ UNCHANGED <<tables, queue, results, dispatcher, success, listener,
                 dashboard, faults, history>>

ConsumerStep(c) ==
  \/ PopMessage(c)
  \/ MarkRunning(c)
  \/ Execute(c)
  \/ RetryPush(c)
  \/ RetryMarkQueued(c)
  \/ PushResult(c)
  \/ PushDeadLetter(c)

-----------------------------------------------------------------------------
(* The result listener thread of a master: consume_once and collect_result. *)

TakeResult(m) ==
  /\ lpc[m] = "pop"
  /\ results # <<>>
  /\ result' = [result EXCEPT ![m] = Head(results)]
  /\ results' = Tail(results)
  /\ lpc' = [lpc EXCEPT ![m] = "store"]
  /\ UNCHANGED <<tables, queue, dead, dispatcher, consumer, dashboard, faults, history>>

\* Fault: a stored result counts as completed whatever it says.
VerdictUnread(r) == "completed"

Verdict(r) == IF r.success THEN "completed" ELSE "failed"

StoreResult(m) ==
  /\ lpc[m] = "store"
  /\ status' = [status EXCEPT ![result[m].unit] = Verdict(result[m])]
  /\ settled' = settled \cup {result[m].unit}
  /\ lpc' = [lpc EXCEPT ![m] = "count_unfinished"]
  /\ UNCHANGED <<business, lists, dispatcher, consumer, result, dashboard, faults,
                 attempts, succeeded, struck, unburied, raced>>

\* The rows of the business task that the result belongs to.
Siblings(m) == {u \in Units : /\ TaskOf[u] = TaskOf[result[m].unit]
                              /\ status[u] # "absent"}

\* A count above zero ends the handling of this result.
CountStep(m, from, to, counted) ==
  /\ lpc[m] = from
  /\ IF counted = {}
       THEN /\ lpc' = [lpc EXCEPT ![m] = to]
            /\ UNCHANGED result
       ELSE /\ lpc' = [lpc EXCEPT ![m] = "pop"]
            /\ result' = [result EXCEPT ![m] = Nothing]
  /\ UNCHANGED <<tables, lists, dispatcher, consumer, dashboard, faults, history>>

CountUnfinished(m) ==
  CountStep(m, "count_unfinished", "count_failed",
            {u \in Siblings(m) : status[u] \notin Finished})

CountFailed(m) ==
  CountStep(m, "count_failed", "close", {u \in Siblings(m) : status[u] = "failed"})

CloseBusinessTask(m) ==
  /\ lpc[m] = "close"
  /\ business' = [business EXCEPT ![TaskOf[result[m].unit]] = "crawl_done"]
  /\ lpc' = [lpc EXCEPT ![m] = "pop"]
  /\ result' = [result EXCEPT ![m] = Nothing]
  /\ UNCHANGED <<status, lists, dispatcher, consumer, dashboard, faults, history>>

ListenerStep(m) ==
  \/ TakeResult(m)
  \/ StoreResult(m)
  \/ CountUnfinished(m)
  \/ CountFailed(m)
  \/ CloseBusinessTask(m)

-----------------------------------------------------------------------------
(* Failures.  No step acknowledges a message, so what a failing thread     *)
(* holds is gone: Redis has handed it out and nobody else will see it.     *)

CanFail == faults < MaxFaults /\ faults' = faults + 1

\* The failing threads hold the only copy of these units.
Strike(units) ==
  /\ struck' = struck \cup units
  /\ UNCHANGED <<attempts, succeeded, settled, raced>>

HeldByDispatcher(m) == {u \in Units : DispatcherHas(m, u)}
HeldByListener(m)   == {u \in Units : ListenerHas(m, u)}
HeldByConsumer(c)   == {u \in Units : ConsumerHas(c, u)}
HeldByRewrite       == {u \in Units : \E i \in DOMAIN copied : RewriteHas(i, u)}

\* run_dispatch_loop catches the exception: the rest of the cycle is dropped.
DispatchCycleFails(m) ==
  /\ dpc[m] # "fetch"
  /\ CanFail
  /\ todo' = [todo EXCEPT ![m] = {}]
  /\ current' = [current EXCEPT ![m] = Nothing]
  /\ dpc' = [dpc EXCEPT ![m] = "fetch"]
  /\ Strike(HeldByDispatcher(m))
  /\ UNCHANGED <<tables, lists, consumer, listener, dashboard, unburied>>

\* run_result_listener catches the exception outside its loop: the thread ends.
ListenerDies(m) ==
  /\ lpc[m] # "down"
  /\ CanFail
  /\ result' = [result EXCEPT ![m] = Nothing]
  /\ lpc' = [lpc EXCEPT ![m] = "down"]
  /\ Strike(HeldByListener(m))
  /\ UNCHANGED <<tables, lists, dispatcher, consumer, dashboard, unburied>>

\* A master is killed and started again; a stopped listener comes back only so.
MasterRestarts(m) ==
  /\ CanFail
  /\ todo' = [todo EXCEPT ![m] = {}]
  /\ current' = [current EXCEPT ![m] = Nothing]
  /\ dpc' = [dpc EXCEPT ![m] = "fetch"]
  /\ result' = [result EXCEPT ![m] = Nothing]
  /\ lpc' = [lpc EXCEPT ![m] = "pop"]
  /\ Strike(HeldByDispatcher(m) \cup HeldByListener(m))
  /\ UNCHANGED <<tables, lists, consumer, dashboard, unburied>>

\* consume_once lets Redis and MySQL exceptions end the worker thread.
ConsumerDies(c) ==
  /\ cpc[c] # "down"
  /\ CanFail
  /\ message' = [message EXCEPT ![c] = Nothing]
  /\ success' = [success EXCEPT ![c] = FALSE]
  /\ cpc' = [cpc EXCEPT ![c] = "down"]
  /\ Strike(HeldByConsumer(c))
  /\ unburied' = IF cpc[c] = "push_dead" THEN unburied \cup {message[c].unit} ELSE unburied
  /\ UNCHANGED <<tables, lists, dispatcher, listener, dashboard>>

ConsumerStarts(c) ==
  /\ cpc[c] = "down"
  /\ cpc' = [cpc EXCEPT ![c] = "pop"]
  /\ UNCHANGED <<tables, lists, dispatcher, message, success, listener, dashboard,
                 faults, history>>

-----------------------------------------------------------------------------
(* Dashboard operations.                                                   *)

CancelTask(u) ==
  /\ "cancel" \in Operations
  /\ status[u] # "absent"
  /\ status' = [status EXCEPT ![u] = "cancelled"]
  /\ UNCHANGED <<business, lists, dispatcher, consumer, listener, dashboard, faults, history>>

\* POST /tasks inserts a row with the status the caller gives (pending by default) and
\* pushes nothing.  Callers that declare a unit finished at birth are left out.
CreateTask(u) ==
  /\ "create" \in Operations
  /\ status[u] = "absent"
  /\ \E execute_status \in {"pending", "queued", "running"} :
       status' = [status EXCEPT ![u] = execute_status]
  /\ UNCHANGED <<business, lists, dispatcher, consumer, listener, dashboard, faults, history>>

ClearQueue ==
  /\ "clear" \in Operations
  /\ \/ queue' = <<>> /\ UNCHANGED <<results, dead>>
     \/ results' = <<>> /\ UNCHANGED <<queue, dead>>
     \/ dead' = {} /\ UNCHANGED <<queue, results>>
  /\ UNCHANGED <<tables, dispatcher, consumer, listener, dashboard, faults, history>>

PauseOrResume ==
  /\ "pause" \in Operations
  /\ paused' = ~paused
  /\ UNCHANGED <<tables, lists, dispatcher, consumer, listener, rstep, extent, position,
                 copied, rewrites, faults, history>>

-----------------------------------------------------------------------------
(* A dashboard request that rewrites the queue, to show the priorities of  *)
(* the products or to apply one: LLEN, one LINDEX per place, DEL, and one  *)
(* RPUSH per message.  Nothing stops the other threads in between.         *)

StartRewrite ==
  /\ rstep = "idle"
  /\ rewrites < MaxRewrites
  /\ rewrites' = rewrites + 1
  /\ extent' = Len(queue)
  /\ position' = 0
  /\ rstep' = "read"
  /\ UNCHANGED <<tables, lists, dispatcher, consumer, listener, paused, copied, faults, history>>

\* A second message of a unit takes the place of the first.
Merged(messages, m) ==
  IF \E i \in DOMAIN messages : messages[i].unit = m.unit
  THEN [i \in DOMAIN messages |-> IF messages[i].unit = m.unit THEN m ELSE messages[i]]
  ELSE Append(messages, m)

\* LINDEX beyond the end of a queue that has shrunk gives None, which is skipped.
ReadMessage ==
  /\ rstep = "read"
  /\ position < extent
  /\ position' = position + 1
  /\ copied' = IF position < Len(queue) THEN Merged(copied, queue[position + 1]) ELSE copied
  /\ UNCHANGED <<tables, lists, dispatcher, consumer, listener, paused, rstep, extent,
                 rewrites, faults, history>>

Elements(s) == {s[i] : i \in DOMAIN s}

\* What is pushed back differs from what is deleted in the messages of these units.
Outdated ==
  {u \in Units : \E m \in (Elements(queue) \ Elements(copied))
                          \cup (Elements(copied) \ Elements(queue)) : m.unit = u}

\* Fault: the queue is not deleted before the messages are pushed back.
DeleteNothing ==
  /\ rstep = "read"
  /\ position = extent
  /\ rstep' = IF copied = <<>> THEN "idle" ELSE "push"
  /\ raced' = raced \cup Outdated
  /\ UNCHANGED <<tables, lists, dispatcher, consumer, listener, paused, extent, position,
                 copied, rewrites, faults, attempts, succeeded, settled, struck, unburied>>

DeleteQueue ==
  /\ rstep = "read"
  /\ position = extent
  /\ queue' = <<>>
  /\ rstep' = IF copied = <<>> THEN "idle" ELSE "push"
  /\ raced' = raced \cup Outdated
  /\ UNCHANGED <<tables, results, dead, dispatcher, consumer, listener, paused, extent,
                 position, copied, rewrites, faults, attempts, succeeded, settled, struck,
                 unburied>>

PushBack ==
  /\ rstep = "push"
  /\ queue' = Append(queue, Head(copied))
  /\ copied' = Tail(copied)
  /\ rstep' = IF Tail(copied) = <<>> THEN "idle" ELSE "push"
  /\ UNCHANGED <<tables, results, dead, dispatcher, consumer, listener, paused, extent,
                 position, rewrites, faults, history>>

\* Redis does not answer, or the process is killed: the request ends where it is.
RewriteFails ==
  /\ rstep # "idle"
  /\ CanFail
  /\ rstep' = "idle"
  /\ copied' = <<>>
  /\ Strike(HeldByRewrite)
  /\ UNCHANGED <<tables, lists, dispatcher, consumer, listener, paused, extent, position,
                 rewrites, unburied>>

RewriteStep == StartRewrite \/ ReadMessage \/ DeleteQueue \/ PushBack

-----------------------------------------------------------------------------
Next ==
  \/ \E m \in Masters : \/ DispatcherStep(m)
                        \/ ListenerStep(m)
                        \/ DispatchCycleFails(m)
                        \/ ListenerDies(m)
                        \/ MasterRestarts(m)
  \/ \E c \in Consumers : \/ ConsumerStep(c)
                          \/ ConsumerDies(c)
                          \/ ConsumerStarts(c)
  \/ \E u \in Units : CancelTask(u) \/ CreateTask(u)
  \/ ClearQueue
  \/ PauseOrResume
  \/ RewriteStep
  \/ RewriteFails

Spec == Init /\ [][Next]_vars

\* Threads that have a step to take take it; operators and failures owe nothing.
Fairness ==
  /\ \A m \in Masters : WF_vars(DispatcherStep(m)) /\ WF_vars(ListenerStep(m))
  /\ \A c \in Consumers : WF_vars(ConsumerStep(c))

FairSpec == Spec /\ Fairness

-----------------------------------------------------------------------------
Copies(u) ==
       {<<"dispatcher", m>> : m \in {n \in Masters : DispatcherHas(n, u)}}
  \cup {<<"queue", i>>      : i \in {j \in DOMAIN queue : QueueHas(j, u)}}
  \cup {<<"rewrite", i>>    : i \in {j \in DOMAIN copied : RewriteHas(j, u)}}
  \cup {<<"consumer", c>>   : c \in {d \in Consumers : ConsumerHas(d, u)}}
  \cup {<<"results", i>>    : i \in {j \in DOMAIN results : ResultsHave(j, u)}}
  \cup {<<"listener", m>>   : m \in {n \in Masters : ListenerHas(n, u)}}

-----------------------------------------------------------------------------
TablesTyped ==
  /\ status \in [Units -> Statuses]
  /\ business \in [Tasks -> BusinessStatuses]

ListsTyped ==
  /\ queue \in Seq(Messages)
  /\ results \in Seq(Results)
  /\ dead \subseteq Units

DispatcherTyped ==
  /\ todo \in [Masters -> SUBSET Units]
  /\ current \in [Masters -> Units \cup {Nothing}]
  /\ dpc \in [Masters -> DispatcherSteps]
  /\ \A m \in Masters :
       /\ dpc[m] = "create" => todo[m] # {}
       /\ dpc[m] \in {"push", "mark_queued", "mark_business"} => current[m] \in Units

ConsumerTyped ==
  /\ message \in [Consumers -> Messages \cup {Nothing}]
  /\ success \in [Consumers -> BOOLEAN]
  /\ cpc \in [Consumers -> ConsumerSteps]
  /\ \A c \in Consumers : cpc[c] \notin {"pop", "down"} => message[c] \in Messages

ListenerTyped ==
  /\ result \in [Masters -> Results \cup {Nothing}]
  /\ lpc \in [Masters -> ListenerSteps]
  /\ \A m \in Masters : lpc[m] \notin {"pop", "down"} => result[m] \in Results

DashboardTyped ==
  /\ paused \in BOOLEAN
  /\ rstep \in RewriteSteps
  /\ {extent, position} \subseteq Nat
  /\ copied \in Seq(Messages)
  /\ rewrites \in 0..MaxRewrites
  /\ rstep = "idle" => copied = <<>>
  /\ rstep = "push" => copied # <<>>
  /\ \A i, j \in DOMAIN copied : copied[i].unit = copied[j].unit => i = j

HistoryTyped ==
  /\ attempts \in [Units -> Nat]
  /\ succeeded \subseteq Units
  /\ settled \subseteq Units
  /\ struck \subseteq Units
  /\ unburied \subseteq Units
  /\ raced \subseteq Units

\* Every variable has its type, a thread that is in the middle of a step holds
\* what the step works on, a dispatcher inside its loop has a unit to look at, and
\* a rewrite has one message of a unit at most.
TypeOK ==
  /\ TablesTyped
  /\ ListsTyped
  /\ DispatcherTyped
  /\ ConsumerTyped
  /\ ListenerTyped
  /\ DashboardTyped
  /\ faults \in 0..MaxFaults
  /\ HistoryTyped

\* However dispatch cycles, masters, retries, crashes, cancellations and rewrites of
\* the queue interleave, a unit exists in at most one place between its publication and
\* the storing of its result: never two crawlers on one unit, never two results for it.
\* The only exceptions are the units whose message a rewrite pushed back other than it
\* deleted it.  It rests on the unique key of task_master_status, on pop-then-push in
\* the retry and on nothing else being redelivered.
OneCopy == \A u \in Units : \A p, q \in Copies(u) : p = q

\* The crawler never runs more often for a unit than the first try plus
\* CONSUMER_MAX_RETRIES, over all consumers and masters, as long as no rewrite raced.
AttemptsBounded == \A u \in Units : attempts[u] <= MaxRetries + 1

\* A dead letter means the retries were really used up, and never is there a dead
\* letter for a unit that the crawler answered, unless a rewrite doubled the unit.
DeadLetterSound ==
  \A u \in dead \ raced : attempts[u] = MaxRetries + 1 /\ u \notin succeeded

\* Whatever late updates do to a row, a completed row stands for a successful crawl
\* and, unless a rewrite doubled the unit, a failed row for exhausted retries.
StatusTruthful ==
  \A u \in Units :
    /\ status[u] = "completed" => u \in succeeded
    /\ status[u] = "failed" /\ u \notin raced =>
         attempts[u] = MaxRetries + 1 /\ u \notin succeeded

\* Units with a row that nobody will ever work on or report again.
Lost == {u \in Units : status[u] # "absent" /\ u \notin settled /\ Copies(u) = {}}

\* Without operators who insert rows or clear lists, exactly the units are lost whose
\* copy a failing thread held: between the row and the push, between a pop and the next
\* push or the result, or while the queue was being rewritten.  No other step drops a
\* unit, and nothing brings one back.
OnlyFailuresLose == Lost \ raced = struck \ raced

\* Without operators who clear lists, a failed row has its dead letter or a consumer
\* that is about to write it (the result is pushed first, so the row may be there
\* before), or its consumer died between the result and the dead letter.
FailureHasDeadLetter ==
  \A u \in Units : status[u] = "failed" =>
    \/ u \in dead \cup unburied
    \/ \E c \in Consumers : cpc[c] = "push_dead" /\ message[c].unit = u

\* The stage of each unit, for the promise UnitLifecycle makes about it.
StageOf(u) ==
  CASE \E m \in Masters : DispatcherHas(m, u)      -> "assigned"
    [] \/ \E i \in DOMAIN queue : QueueHas(i, u)
       \/ \E i \in DOMAIN copied : RewriteHas(i, u) -> "waiting"
    [] \E c \in Consumers : ConsumerHas(c, u)      -> "working"
    [] \/ \E i \in DOMAIN results : ResultsHave(i, u)
       \/ \E m \in Masters : ListenerHas(m, u)     -> "reported"
    [] OTHER -> IF status[u] = "absent" THEN "fresh" ELSE "gone"

Lifecycle == INSTANCE UnitLifecycle WITH
               Budget <- MaxRetries + 1,
               stage  <- [u \in Units |-> StageOf(u)],
               work   <- attempts

\* The pipeline implements the at-most-once life cycle of UnitLifecycle, in which a
\* unit that a rewrite raced with has left.
LifecycleSpec == Lifecycle!Spec

\* With no failure, no operator and no unroutable task, and with a limit that never
\* cuts a business task in two, every unit is crawled and its result stored.
EveryUnitSettled == \A u \in Units : <>(u \in settled)

\* README 3.7: pending -> queued -> running -> completed / failed; the last two end
\* the flow, so the row of a finished unit does not change again.
FinishedIsFinal ==
  [][\A u \in Units : status[u] \in {"completed", "failed"} => status'[u] = status[u]]_status

\* README 3.3: the business task is closed when all its units are completed.
ClosedMeansAllCompleted ==
  \A t \in Tasks : business[t] = "crawl_done" =>
    \A u \in Units : TaskOf[u] = t => u \in succeeded
=============================================================================

----------------------------- MODULE QueueStore -----------------------------
(***************************************************************************)
(* One model queue in Redis, shared by the consumers that pop it, the      *)
(* dispatcher that pushes to it, and the dashboard requests that rewrite   *)
(* it: the list, the sorted set that earlier versions filled, the          *)
(* strategy key, and the priorities that MySQL keeps for the same units.   *)
(*                                                                         *)
(* Every action is one Redis command or one MySQL transaction.  The queue  *)
(* is read with LLEN and one LINDEX per position, a priority pop chooses   *)
(* from what it read and then issues LREM, a rewrite deletes both keys and *)
(* pushes back what it read: whoever steps in between changes the list     *)
(* under the reader.                                                       *)
(***************************************************************************)
EXTENDS Naturals, Sequences, FiniteSets

CONSTANTS
  Units,         (* execution units (task, question, round)                *)
  TaskOf,        (* the business task of each unit                         *)
  ProductOf,     (* the product of each business task                      *)
  Given,         (* the priority each unit is published with               *)
  Legacy,        (* messages left in the sorted set, in zrange order       *)
  Consumers,     (* consumer threads of this queue                         *)
  Requests,      (* dashboard requests that may be in progress at once     *)
  Offered,       (* what each request may ask for                          *)
  Amount,        (* PriorityApplyRequest.amount                            *)
  Posted,        (* the priorities that POST /tasks may give               *)
  Retries,       (* CONSUMER_MAX_RETRIES                                   *)
  MaxRequests,   (* bound of the model: dashboard requests                 *)
  MaxFailures    (* bound of the model: requests that end with an error    *)

Priorities == 0..100
Messages == [unit : Units, priority : Priorities, retry : 0..Retries]
Tasks == DOMAIN ProductOf
Products == {ProductOf[t] : t \in Tasks}

ASSUME QueueAssumption ==
  /\ TaskOf \in [Units -> Tasks]
  /\ Given \in [Units -> Priorities]
  /\ Legacy \in Seq(Messages)
  /\ Offered \in [Requests -> SUBSET {"raise", "lower", "reset", "view", "clear"}]
  /\ Amount \in 1..100
  /\ Posted \subseteq Priorities
  /\ {Retries, MaxRequests, MaxFailures} \subseteq Nat
  /\ Consumers \cap Requests = {} /\ "dispatcher" \notin Consumers \cup Requests

VARIABLES
  list,        (* queue:<model>, a Redis list                              *)
  legacy,      (* queue:<model>:priority, a sorted set, in zrange order    *)
  strategy,    (* scheduler:active_strategy                                *)
  rowPriority, (* task_master_status.priority                              *)
  stage,       (* each unit: no row, a row, a message, or in a final state *)
  step,        (* each consumer and request: its next command              *)
  job,         (* what it reads the queue for                              *)
  size,        (* LLEN at the start of its read                            *)
  index,       (* positions it has read                                    *)
  seen,        (* messages it read, chose, or has yet to push back         *)
  held,        (* each consumer: the messages it works on, one at most     *)
  asked,       (* each request: its action and product                     *)
  targets,     (* each request: the queued tasks of its product            *)
  requested,   (* dashboard requests so far                                *)
  failures,    (* failed requests so far                                   *)
  disturbed,   (* history: the queue changed since this read began         *)
  raced,       (* history: units that a concurrent step lost or doubled    *)
  skewed       (* history: units whose priority changed in one store only  *)

redis == <<list, legacy>>
mysql == <<rowPriority, stage>>
reads == <<job, size, index, seen>>
request == <<asked, targets>>
bounds == <<requested, failures>>
queueVars == <<redis, strategy, mysql, step, reads, held, request, bounds,
               disturbed, raced, skewed>>

Actors == Consumers \cup Requests
Nobody == [action |-> "none", product |-> "none"]
Asks(r) ==
  [action : Offered[r] \cap {"raise", "lower", "reset"}, product : Products] \cup {Nobody}
Commands == {"strategy", "length", "item", "pop", "work", "idle", "delete", "delete_legacy",
             "push", "adjust", "clear_length", "clear_list", "clear_legacy"}
Jobs == {"none", "state", "select", "normalize", "collect", "update"}

UnitsIn(s) == {s[i].unit : i \in DOMAIN s}

-----------------------------------------------------------------------------
(* What the store computes from the messages it read.                      *)

\* The last of the messages of a unit that have its highest priority.
Winner(s, u) ==
  CHOOSE i \in DOMAIN s :
    /\ s[i].unit = u
    /\ \A j \in {j \in DOMAIN s : s[j].unit = u} :
         s[j].priority <= s[i].priority /\ (s[j].priority = s[i].priority => j <= i)

Firsts(s) == {i \in DOMAIN s : \A j \in 1..(i - 1) : s[j].unit # s[i].unit}
Nth(S, k) == CHOOSE i \in S : Cardinality({j \in S : j <= i}) = k

\* One message per unit, in the order of the first places of the units.
Canonical(s) ==
  [k \in 1..Cardinality(Firsts(s)) |-> s[Winner(s, s[Nth(Firsts(s), k)].unit)]]

Elevated(s) == \E i \in DOMAIN s : s[i].priority > 50
AllSame(s) == \A i, j \in DOMAIN s : s[i].priority = s[j].priority

\* Fault: the last of them.
BestLast(s) ==
  CHOOSE i \in DOMAIN s : \A j \in DOMAIN s :
    s[j].priority <= s[i].priority /\ (s[j].priority = s[i].priority => j <= i)

\* The first of the messages with the highest priority.
Best(s) ==
  CHOOSE i \in DOMAIN s : \A j \in DOMAIN s :
    s[j].priority <= s[i].priority /\ (s[j].priority = s[i].priority => i <= j)

\* LREM with count 1.
Remove(s, m) ==
  LET i == CHOOSE k \in DOMAIN s : s[k] = m /\ \A j \in 1..(k - 1) : s[j] # m
  IN  IF \E k \in DOMAIN s : s[k] = m
      THEN SubSeq(s, 1, i - 1) \o SubSeq(s, i + 1, Len(s)) ELSE s

\* Fault: only the lower end is kept.
AdjustedUnclamped(p, action) ==
  CASE action = "raise" -> p + Amount
    [] action = "lower" -> IF p < Amount THEN 0 ELSE p - Amount
    [] action = "reset" -> 50

\* Clamped to 0..100 by max and min in Redis, by GREATEST and LEAST in MySQL.
Adjusted(p, action) ==
  CASE action = "raise" -> IF p + Amount > 100 THEN 100 ELSE p + Amount
    [] action = "lower" -> IF p < Amount THEN 0 ELSE p - Amount
    [] action = "reset" -> 50

Reprioritised(s, tasks, action) ==
  [i \in DOMAIN s |-> IF TaskOf[s[i].unit] \in tasks
                      THEN [s[i] EXCEPT !.priority = Adjusted(@, action)] ELSE s[i]]

\* Any of the consumers may be running, and any part of the bounds used up.
QueueInit ==
  /\ list = <<>>
  /\ legacy \in {<<>>, Legacy}
  /\ strategy \in {"fifo", "priority"}
  /\ rowPriority = Given
  /\ stage = [u \in Units |-> IF u \in UnitsIn(legacy) THEN "pushed" ELSE "new"]
  /\ \E started \in SUBSET Consumers :
       step = [a \in Actors |-> IF a \in started THEN "strategy" ELSE "idle"]
  /\ job = [a \in Actors |-> "none"]
  /\ size = [a \in Actors |-> 0]
  /\ index = [a \in Actors |-> 0]
  /\ seen = [a \in Actors |-> <<>>]
  /\ held = [c \in Consumers |-> <<>>]
  /\ asked = [r \in Requests |-> Nobody]
  /\ targets = [r \in Requests |-> {}]
  /\ requested \in 0..MaxRequests
  /\ failures \in 0..MaxFailures
  /\ disturbed = [a \in Actors |-> FALSE]
  /\ raced = {}
  /\ skewed = {}

-----------------------------------------------------------------------------
(* Reading the queue: list_messages and _canonical_queue_messages.         *)

\* A change of the queue makes outdated what others read to rewrite or to choose.
MayOutdate(b) == step[b] \in {"item", "delete"} /\ job[b] \in {"select", "normalize", "update"}
Disturb(a) == disturbed' = [b \in Actors |-> b # a /\ (disturbed[b] \/ MayOutdate(b))]

\* The next command of a, with the messages it still needs; its read is forgotten.
Go(a, next, purpose, messages) ==
  /\ step' = [step EXCEPT ![a] = next]
  /\ job' = [job EXCEPT ![a] = purpose]
  /\ seen' = [seen EXCEPT ![a] = messages]
  /\ size' = [size EXCEPT ![a] = 0]
  /\ index' = [index EXCEPT ![a] = 0]

Read(a, purpose) == Go(a, "length", purpose, <<>>)

ReadLength(a) ==
  /\ step[a] = "length"
  /\ step' = [step EXCEPT ![a] = "item"]
  /\ size' = [size EXCEPT ![a] = Len(list)]
  /\ disturbed' = [disturbed EXCEPT ![a] = FALSE]
  /\ UNCHANGED <<redis, strategy, mysql, job, index, seen, held, request, bounds, raced,
                 skewed>>

\* LINDEX beyond the end of a list that has shrunk gives None, which is skipped.
ReadItem(a) ==
  /\ step[a] = "item"
  /\ index[a] < size[a]
  /\ index' = [index EXCEPT ![a] = @ + 1]
  /\ seen' = [seen EXCEPT ![a] =
                IF index[a] < Len(list) THEN Append(@, list[index[a] + 1]) ELSE @]
  /\ UNCHANGED <<redis, strategy, mysql, step, job, size, held, request, bounds,
                 disturbed, raced, skewed>>

\* Fault: the last position is not read.
ListReadShort(a) == step[a] = "item" /\ index[a] + 1 >= size[a]

\* The list is read; a canonical read goes on with the sorted set.
ListRead(a) == step[a] = "item" /\ index[a] = size[a]
QueueRead(a) == Canonical(seen[a] \o legacy)

-----------------------------------------------------------------------------
(* The dispatcher and the consumers.                                       *)

CreateRow(u) ==
  /\ stage[u] = "new"
  /\ stage' = [stage EXCEPT ![u] = "created"]
  /\ UNCHANGED <<redis, strategy, rowPriority, step, reads, held, request, bounds,
                 disturbed, raced, skewed>>

\* INSERT ... ON DUPLICATE KEY UPDATE of a row that exists: the row takes the priority,
\* and its message does not.
InsertAgain(u, priority) ==
  /\ stage[u] # "new"
  /\ rowPriority' = [rowPriority EXCEPT ![u] = priority]
  /\ skewed' = IF priority = rowPriority[u] THEN skewed ELSE skewed \cup {u}
  /\ UNCHANGED <<redis, strategy, stage, step, reads, held, request, failures, disturbed,
                 raced>>

\* A dispatcher comes to the row again: another one, or the next cycle of the same.
ExpandAgain(u) == InsertAgain(u, Given[u]) /\ UNCHANGED requested

PushNew(u) ==
  /\ stage[u] = "created"
  /\ stage' = [stage EXCEPT ![u] = "pushed"]
  /\ list' = Append(list, [unit |-> u, priority |-> Given[u], retry |-> 0])
  /\ Disturb("dispatcher")
  /\ UNCHANGED <<legacy, strategy, rowPriority, step, reads, held, request, bounds, raced,
                 skewed>>

GetStrategy(c) ==
  /\ step[c] = "strategy"
  /\ IF strategy = "priority" THEN Read(c, "state") ELSE Go(c, "pop", "none", <<>>)
  /\ UNCHANGED <<redis, strategy, mysql, held, request, bounds, disturbed, raced, skewed>>

\* Only a queue with an elevated priority, and not just one, is popped by priority.
ReadPriorityState(c) ==
  /\ ListRead(c)
  /\ job[c] = "state"
  /\ IF Elevated(QueueRead(c)) /\ ~AllSame(QueueRead(c))
     THEN Read(c, "select") ELSE Go(c, "pop", "none", <<>>)
  /\ disturbed' = [disturbed EXCEPT ![c] = FALSE]
  /\ UNCHANGED <<redis, strategy, mysql, held, request, bounds, raced, skewed>>

Selected(c) == seen[c][Best(seen[c])]

\* The message is taken even when LREM removed nothing.
PopHighestPriority(c) ==
  /\ ListRead(c)
  /\ job[c] = "select"
  /\ Elevated(seen[c])
  /\ list' = Remove(list, Selected(c))
  /\ held' = [held EXCEPT ![c] = <<Selected(c)>>]
  /\ raced' = IF \E i \in DOMAIN list : list[i] = Selected(c)
              THEN raced ELSE raced \cup {Selected(c).unit}
  /\ Go(c, "work", "none", <<>>)
  /\ Disturb(c)
  /\ UNCHANGED <<legacy, strategy, mysql, request, bounds, skewed>>

NothingElevated(c) ==
  /\ ListRead(c)
  /\ job[c] = "select"
  /\ ~Elevated(seen[c])
  /\ Go(c, "pop", "none", <<>>)
  /\ disturbed' = [disturbed EXCEPT ![c] = FALSE]
  /\ UNCHANGED <<redis, strategy, mysql, held, request, bounds, raced, skewed>>

BlockingPop(c) ==
  /\ step[c] = "pop"
  /\ list # <<>>
  /\ list' = Tail(list)
  /\ held' = [held EXCEPT ![c] = <<Head(list)>>]
  /\ step' = [step EXCEPT ![c] = "work"]
  /\ Disturb(c)
  /\ UNCHANGED <<legacy, strategy, mysql, reads, request, bounds, raced, skewed>>

PopTimesOut(c) ==
  /\ step[c] = "pop"
  /\ list = <<>>
  /\ step' = [step EXCEPT ![c] = "strategy"]
  /\ UNCHANGED <<redis, strategy, mysql, reads, held, request, bounds, disturbed, raced,
                 skewed>>

\* execute_one ends: the result is reported, for good.
WorkEnds(c) ==
  /\ step[c] = "work"
  /\ stage' = [stage EXCEPT ![held[c][1].unit] = "done"]
  /\ held' = [held EXCEPT ![c] = <<>>]
  /\ step' = [step EXCEPT ![c] = "strategy"]
  /\ UNCHANGED <<redis, strategy, rowPriority, reads, request, bounds, disturbed, raced,
                 skewed>>

\* Fault: a retry is pushed with the default priority.
RequeuedAtDefault(m) == [m EXCEPT !.retry = @ + 1, !.priority = 50]

Requeued(m) == [m EXCEPT !.retry = @ + 1]

\* A failed attempt is pushed back with the priority its message had.
Retry(c) ==
  /\ step[c] = "work"
  /\ held[c][1].retry < Retries
  /\ list' = Append(list, Requeued(held[c][1]))
  /\ stage' = [stage EXCEPT ![held[c][1].unit] = "pushed"]
  /\ held' = [held EXCEPT ![c] = <<>>]
  /\ step' = [step EXCEPT ![c] = "strategy"]
  /\ Disturb(c)
  /\ UNCHANGED <<legacy, strategy, rowPriority, reads, request, bounds, raced, skewed>>

-----------------------------------------------------------------------------
(* Dashboard requests.                                                     *)

SetStrategy ==
  /\ requested < MaxRequests
  /\ requested' = requested + 1
  /\ strategy' \in {"fifo", "priority"} \ {strategy}
  /\ UNCHANGED <<redis, mysql, step, reads, held, request, failures, disturbed, raced, skewed>>

Accept(r) ==
  /\ step[r] = "idle"
  /\ requested < MaxRequests
  /\ requested' = requested + 1

\* POST /tasks for a unit that has its row.  (A row that it inserts is never published.)
CreateTask(u) ==
  /\ requested < MaxRequests
  /\ requested' = requested + 1
  /\ \E priority \in Posted : InsertAgain(u, priority)

\* GET /control/priority/products normalises the queues and only then looks.
ViewProducts(r) ==
  /\ "view" \in Offered[r]
  /\ Accept(r)
  /\ Read(r, "normalize")
  /\ UNCHANGED <<redis, strategy, mysql, held, request, failures, disturbed, raced, skewed>>

ApplyPriority(r) ==
  /\ Accept(r)
  /\ \E s \in {"fifo", "priority"}, ask \in Asks(r) \ {Nobody} :
       /\ strategy' = s
       /\ asked' = [asked EXCEPT ![r] = ask]
  /\ Read(r, "normalize")
  /\ UNCHANGED <<redis, mysql, held, targets, failures, disturbed, raced, skewed>>

ReadForNormalize(r) ==
  /\ ListRead(r)
  /\ job[r] = "normalize"
  /\ Go(r, "delete", "normalize", QueueRead(r))
  /\ UNCHANGED <<redis, strategy, mysql, held, request, bounds, disturbed, raced, skewed>>

\* The tasks of the product that have a message; with none the request ends (404).
QueuedTasks(r) ==
  {t \in {TaskOf[u] : u \in UnitsIn(QueueRead(r))} : ProductOf[t] = asked[r].product}

CollectTasks(r) ==
  /\ ListRead(r)
  /\ job[r] = "collect"
  /\ targets' = [targets EXCEPT ![r] = QueuedTasks(r)]
  /\ IF QueuedTasks(r) = {}
     THEN Go(r, "idle", "none", <<>>) /\ asked' = [asked EXCEPT ![r] = Nobody]
     ELSE Read(r, "update") /\ UNCHANGED asked
  /\ disturbed' = [disturbed EXCEPT ![r] = FALSE]
  /\ UNCHANGED <<redis, strategy, mysql, held, bounds, raced, skewed>>

Updating(r) == job[r] = "update" /\ step[r] \in {"delete", "delete_legacy", "push", "adjust"}

\* Units of the chosen tasks that are not in the queue that was read, or that
\* another step or request has changed meanwhile.
OutOfReach(r) ==
  {u \in Units : /\ TaskOf[u] \in targets[r]
                 /\ \/ u \notin UnitsIn(QueueRead(r)) \/ disturbed[r]
                    \/ \E q \in Requests \ {r} : Updating(q) /\ TaskOf[u] \in targets[q]}

\* The queue is rewritten only when some priority changes.
ReadForUpdate(r) ==
  /\ ListRead(r)
  /\ job[r] = "update"
  /\ LET new == Reprioritised(QueueRead(r), targets[r], asked[r].action)
     IN  IF new = QueueRead(r)
         THEN Go(r, "adjust", "update", <<>>) ELSE Go(r, "delete", "update", new)
  /\ skewed' = skewed \cup OutOfReach(r)
  /\ disturbed' = [disturbed EXCEPT ![r] = @ /\ step'[r] = "delete"]
  /\ UNCHANGED <<redis, strategy, mysql, held, request, bounds, raced>>

\* Deleting and pushing back loses or doubles a unit when what was read is no
\* longer what is there, or when another rewrite is about to push it as well.
Rewriting(r) == step[r] \in {"delete_legacy", "push"}

LostOrDoubled(u, r) ==
  \/ disturbed[r] /\ ~(u \in UnitsIn(list \o legacy) <=> u \in UnitsIn(seen[r]))
  \/ \E q \in Requests \ {r} : Rewriting(q) /\ u \in UnitsIn(seen[q]) \cap UnitsIn(seen[r])

\* _rewrite_queue: DEL, DEL, then one RPUSH per message.
DeleteList(r) ==
  /\ step[r] = "delete"
  /\ list' = <<>>
  /\ step' = [step EXCEPT ![r] = "delete_legacy"]
  /\ raced' = raced \cup {u \in Units : LostOrDoubled(u, r)}
  /\ skewed' = IF disturbed[r] THEN skewed \cup UnitsIn(seen[r]) ELSE skewed
  /\ Disturb(r)
  /\ UNCHANGED <<legacy, strategy, mysql, reads, held, request, bounds>>

\* What follows a rewrite: the end, the next read, or MySQL.
AfterRewrite(r) ==
  CASE job[r] = "update" -> Go(r, "adjust", "update", <<>>)
    [] asked[r] = Nobody -> Go(r, "idle", "none", <<>>)
    [] OTHER -> Read(r, "collect")

DeleteLegacy(r) ==
  /\ step[r] = "delete_legacy"
  /\ legacy' = <<>>
  /\ IF seen[r] = <<>> THEN AfterRewrite(r) ELSE Go(r, "push", job[r], seen[r])
  /\ Disturb(r)
  /\ UNCHANGED <<list, strategy, mysql, held, request, bounds, raced, skewed>>

PushBack(r) ==
  /\ step[r] = "push"
  /\ list' = Append(list, Head(seen[r]))
  /\ IF Tail(seen[r]) = <<>> THEN AfterRewrite(r) ELSE Go(r, "push", job[r], Tail(seen[r]))
  /\ Disturb(r)
  /\ UNCHANGED <<legacy, strategy, mysql, held, request, bounds, raced, skewed>>

Adjustable(u, r) == TaskOf[u] \in targets[r] /\ stage[u] \in {"created", "pushed"}

\* adjust_task_priorities and set_task_priorities: one UPDATE of unfinished rows.
AdjustRows(r) ==
  /\ step[r] = "adjust"
  /\ rowPriority' = [u \in Units |->
                       IF Adjustable(u, r) THEN Adjusted(rowPriority[u], asked[r].action)
                       ELSE rowPriority[u]]
  /\ Go(r, "idle", "none", <<>>)
  /\ asked' = [asked EXCEPT ![r] = Nobody]
  /\ targets' = [targets EXCEPT ![r] = {}]
  /\ UNCHANGED <<redis, strategy, stage, held, bounds, disturbed, raced, skewed>>

\* POST /queues/{name}/clear: LLEN, DEL unless it was 0, DEL of the sorted set.
ClearLength(r) ==
  /\ "clear" \in Offered[r]
  /\ Accept(r)
  /\ Go(r, IF list = <<>> THEN "clear_legacy" ELSE "clear_list", "none", <<>>)
  /\ UNCHANGED <<redis, strategy, mysql, held, request, failures, disturbed, raced, skewed>>

ClearList(r) ==
  /\ step[r] = "clear_list"
  /\ list' = <<>>
  /\ raced' = raced \cup UnitsIn(list)
  /\ step' = [step EXCEPT ![r] = "clear_legacy"]
  /\ Disturb(r)
  /\ UNCHANGED <<legacy, strategy, mysql, reads, held, request, bounds, skewed>>

ClearLegacy(r) ==
  /\ step[r] = "clear_legacy"
  /\ legacy' = <<>>
  /\ raced' = raced \cup UnitsIn(legacy)
  /\ step' = [step EXCEPT ![r] = "idle"]
  /\ Disturb(r)
  /\ UNCHANGED <<list, strategy, mysql, reads, held, request, bounds, skewed>>

\* Redis or MySQL does not answer and the request ends where it is.
RequestFails(r) ==
  /\ step[r] \in {"length", "item", "delete", "delete_legacy", "push", "adjust"}
  /\ failures < MaxFailures
  /\ failures' = failures + 1
  /\ raced' = IF Rewriting(r) THEN raced \cup UnitsIn(seen[r]) ELSE raced
  /\ skewed' = IF Updating(r) /\ step[r] # "delete"
               THEN skewed \cup {u \in Units : TaskOf[u] \in targets[r]} ELSE skewed
  /\ Go(r, "idle", "none", <<>>)
  /\ asked' = [asked EXCEPT ![r] = Nobody]
  /\ targets' = [targets EXCEPT ![r] = {}]
  /\ disturbed' = [disturbed EXCEPT ![r] = FALSE]
  /\ UNCHANGED <<redis, strategy, mysql, held, requested>>

-----------------------------------------------------------------------------

ConsumerStep(c) ==
  \/ GetStrategy(c) \/ ReadLength(c) \/ ReadItem(c)
  \/ ReadPriorityState(c) \/ PopHighestPriority(c) \/ NothingElevated(c)
  \/ BlockingPop(c) \/ PopTimesOut(c)
  \/ WorkEnds(c) \/ Retry(c)

RequestStep(r) ==
  \/ ReadLength(r) \/ ReadItem(r)
  \/ ReadForNormalize(r) \/ CollectTasks(r) \/ ReadForUpdate(r)
  \/ DeleteList(r) \/ DeleteLegacy(r) \/ PushBack(r) \/ AdjustRows(r)
  \/ ClearList(r) \/ ClearLegacy(r)

QueueNext ==
  \/ \E u \in Units : CreateRow(u) \/ ExpandAgain(u) \/ PushNew(u) \/ CreateTask(u)
  \/ \E c \in Consumers : ConsumerStep(c)
  \/ SetStrategy
  \/ \E r \in Requests : \/ ViewProducts(r) \/ ApplyPriority(r) \/ ClearLength(r)
                         \/ RequestStep(r) \/ RequestFails(r)

QueueSpec == QueueInit /\ [][QueueNext]_queueVars

-----------------------------------------------------------------------------
(* Properties.                                                             *)

\* Type invariant.  Every priority in Redis and in MySQL stays in 0..100
\* through any series of raises and reductions.
QueueTypeOK ==
  /\ list \in Seq(Messages)
  /\ legacy \in Seq(Messages)
  /\ strategy \in {"fifo", "priority"}
  /\ rowPriority \in [Units -> Priorities]
  /\ stage \in [Units -> {"new", "created", "pushed", "done"}]
  /\ step \in [Actors -> Commands]
  /\ job \in [Actors -> Jobs]
  /\ size \in [Actors -> Nat]
  /\ index \in [Actors -> Nat]
  /\ seen \in [Actors -> Seq(Messages)]
  /\ held \in [Consumers -> Seq(Messages)]
  /\ DOMAIN asked = Requests /\ \A r \in Requests : asked[r] \in Asks(r)
  /\ targets \in [Requests -> SUBSET Tasks]
  /\ requested \in 0..MaxRequests
  /\ failures \in 0..MaxFailures
  /\ disturbed \in [Actors -> BOOLEAN]
  /\ raced \subseteq Units
  /\ skewed \subseteq Units

Copies(u) ==
  Cardinality({i \in DOMAIN list : list[i].unit = u})
  + Cardinality({c \in Consumers : u \in UnitsIn(held[c])})
  + Cardinality({r \in Requests : Rewriting(r) /\ u \in UnitsIn(seen[r])})

\* A published unit is at one place: in the list, with one consumer, or with the
\* request that is pushing the list back.  The only exceptions are the units
\* that a rewrite from an outdated read, a priority pop that lost its race, a
\* clear or a request that failed in the middle of a rewrite touched.
OneQueuedCopy ==
  \A u \in Units \ raced :
    /\ Copies(u) <= 1
    /\ Copies(u) = 1 => stage[u] = "pushed"
    /\ stage[u] = "pushed" => Copies(u) = 1 \/ u \in UnitsIn(legacy)

\* When nobody changed the queue since its LLEN, a priority pop takes a message
\* that is in the list, that no message exceeds, and that was pushed before the
\* others of its priority.
PriorityPopIsBest ==
  \A c \in Consumers :
    ListRead(c) /\ job[c] = "select" /\ ~disturbed[c] /\ Elevated(seen[c]) =>
      \E k \in DOMAIN list :
        /\ list[k] = Selected(c)
        /\ \A i \in DOMAIN list : /\ list[i].priority <= list[k].priority
                                 /\ i < k => list[i].priority < list[k].priority

\* Redis and MySQL give a queued or held unit the same priority, except while a
\* request is between the two stores, and for units that were out of the queue
\* when their task was changed, that two requests changed at once, that a failed
\* request left in between, or whose row was inserted again with another priority.
StoresAgree ==
  \A u \in Units \ (raced \cup skewed) :
    (stage[u] = "pushed" /\ ~\E r \in Requests : Updating(r) /\ TaskOf[u] \in targets[r]) =>
      /\ \A i \in DOMAIN list : list[i].unit = u => list[i].priority = rowPriority[u]
      /\ \A c \in Consumers : u \in UnitsIn(held[c]) => held[c][1].priority = rowPriority[u]

=============================================================================

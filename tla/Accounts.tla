------------------------------- MODULE Accounts -------------------------------
(***************************************************************************)
(* The accounts of one platform: consumers run execute_task, which takes   *)
(* an account from account_master, crawls with it, gives it back and, when *)
(* the crawl failed, goes on with the next account; operators change the   *)
(* status of accounts; and every dashboard listing synchronises the table  *)
(* with the cookie files by truncating and refilling it.                   *)
(*                                                                         *)
(* An allocation, a release or a status change is one MySQL transaction    *)
(* under a row lock, hence one action.  A synchronisation is three, since  *)
(* TRUNCATE commits.  The files, and with them the row ids, do not change. *)
(***************************************************************************)
EXTENDS Naturals, FiniteSets

CONSTANTS
  Accounts,     (* rows of account_master for this platform                *)
  Rank,         (* position in ORDER BY priority DESC, id ASC              *)
  MaxTasks,     (* account_master.max_concurrent_tasks                     *)
  Tasks,        (* messages of the platform's queue                        *)
  MaxRetries,   (* CONSUMER_MAX_RETRIES                                    *)
  Workers,      (* consumer threads of the platform                        *)
  Listings,     (* GET /api/accounts requests (and masters starting up)    *)
  Operations,   (* what operators may do                                   *)
  MaxFaults,    (* bound of the model: crashes and database errors         *)
  Nothing       (* no account, no task                                     *)

ASSUME AccountsAssumption ==
  /\ Rank \in [Accounts -> Nat]
  /\ MaxTasks \in Nat \ {0}
  /\ MaxRetries \in Nat
  /\ MaxFaults \in Nat
  /\ IsFiniteSet(Workers)
  /\ Operations \subseteq {"dashboard", "patch", "sync"}
  /\ Nothing \notin Accounts \cup Tasks

VARIABLES
  rows,         (* account_master: the rows that exist                     *)
  saved,        (* listing: existing_states of its synchronisation         *)
  spc,          (* listing: next step                                      *)
  place,        (* where a task is: waiting, taken or done                 *)
  tries,        (* the retry_count of its message                          *)
  carried,      (* the account_info in its message                         *)
  task,         (* worker: the task it executes                            *)
  account,      (* worker: the account it executes with                    *)
  managed,      (* worker: whether the account came from the allocator     *)
  excluded,     (* worker: excluded_account_ids                            *)
  wpc,          (* worker: next step                                       *)
  faults,       (* crashes and database errors so far                      *)
  meddled,      (* history: an operator changed a status                   *)
  answers       (* history: successful crawls of each task                 *)

table    == <<rows, saved, spc>>
messages == <<place, tries, carried>>
worker   == <<task, account, managed, excluded, wpc>>
history  == <<meddled, answers>>
vars     == <<table, messages, worker, faults, history>>

Statuses == {"available", "allocated", "cooling", "disabled", "error"}
Rows == [status : Statuses, count : Nat, fails : Nat]
IsTable(f) == DOMAIN f \in SUBSET Accounts /\ f \in [DOMAIN f -> Rows]

\* The row of a file that has none yet, and the table after a TRUNCATE.
NewRow == [status |-> "available", count |-> 0, fails |-> 0]
NoRows == [k \in {} |-> NewRow]

Init ==
  /\ rows = [k \in Accounts |-> NewRow]
  /\ saved = [s \in Listings |-> NoRows]
  /\ spc = [s \in Listings |-> "read"]
  /\ place = [t \in Tasks |-> "waiting"]
  /\ tries = [t \in Tasks |-> 0]
  /\ carried = [t \in Tasks |-> Nothing]
  /\ task = [w \in Workers |-> Nothing]
  /\ account = [w \in Workers |-> Nothing]
  /\ managed = [w \in Workers |-> FALSE]
  /\ excluded = [w \in Workers |-> {}]
  /\ wpc = [w \in Workers |-> "take"]
  /\ faults = 0
  /\ meddled = FALSE
  /\ answers = [t \in Tasks |-> 0]

CanFail == faults < MaxFaults /\ faults' = faults + 1

-----------------------------------------------------------------------------
(* AccountStateMachine.                                                    *)

\* Fault: a disabled account stays disabled.
TransitionsWithoutReturn(old) ==
  IF old = "disabled" THEN {} ELSE Statuses \ {old}

Transitions(old) ==
  IF old = "disabled" THEN {"available"} ELSE Statuses \ {old}

CanTransition(old, new) == new = old \/ new \in Transitions(old)

-----------------------------------------------------------------------------
(* A worker: consume_once around execute_task, with the account part of    *)
(* the latter written out.                                                 *)

GoTo(w, step) == wpc' = [wpc EXCEPT ![w] = step]

\* Fault: the account of the task before is not let go.
LeaveHolding(w) ==
  /\ GoTo(w, "take")
  /\ task' = [task EXCEPT ![w] = Nothing]
  /\ excluded' = [excluded EXCEPT ![w] = {}]
  /\ UNCHANGED <<account, managed>>

\* The locals of execute_task are gone.
Leave(w) ==
  /\ GoTo(w, "take")
  /\ task' = [task EXCEPT ![w] = Nothing]
  /\ account' = [account EXCEPT ![w] = Nothing]
  /\ managed' = [managed EXCEPT ![w] = FALSE]
  /\ excluded' = [excluded EXCEPT ![w] = {}]

\* The task is answered, or its retries are used up, or its message is lost.
Finish(w) ==
  /\ Leave(w)
  /\ place' = [place EXCEPT ![task[w]] = "done"]
  /\ UNCHANGED <<tries, carried>>

\* execute_task fails: the message goes back as it is, account_info included.
AttemptFails(w) ==
  \/ tries[task[w]] >= MaxRetries /\ Finish(w)
  \/ /\ tries[task[w]] < MaxRetries
     /\ Leave(w)
     /\ place' = [place EXCEPT ![task[w]] = "waiting"]
     /\ tries' = [tries EXCEPT ![task[w]] = @ + 1]
     /\ UNCHANGED carried

TakeTask(w, t) ==
  /\ wpc[w] = "take"
  /\ place[t] = "waiting"
  /\ place' = [place EXCEPT ![t] = "taken"]
  /\ task' = [task EXCEPT ![w] = t]
  /\ GoTo(w, "allocate")
  /\ UNCHANGED <<table, tries, carried, account, managed, excluded, faults, history>>

\* A message that brings its account along is executed with it, unallocated.
BringsAccount(w) == carried[task[w]] # Nothing /\ excluded[w] = {}

UseCarriedAccount(w) ==
  /\ wpc[w] = "allocate"
  /\ BringsAccount(w)
  /\ account' = [account EXCEPT ![w] = carried[task[w]]]
  /\ managed' = [managed EXCEPT ![w] = FALSE]
  /\ GoTo(w, "crawl")
  /\ UNCHANGED <<table, messages, task, excluded, faults, history>>

\* Fault: the capacity of an account is not looked at.
HasStatusOnly(row) == row.status \in {"available", "cooling", "error"}

HasRoom(row) ==
  row.status \in {"available", "cooling", "error"} /\ row.count < MaxTasks

Allocatable(w) == {k \in DOMAIN rows \ excluded[w] : HasRoom(rows[k])}

\* Fault: an account that is just full still counts as available.
AllocatedStatusPast(count) == IF count > MaxTasks THEN "allocated" ELSE "available"

AllocatedStatus(count) == IF count >= MaxTasks THEN "allocated" ELSE "available"

\* What an allocation makes of the row.
Allocated(row) ==
  [status |-> AllocatedStatus(row.count + 1), count |-> row.count + 1, fails |-> row.fails]

\* The first account in the allocator's order that has room.
Allocate(w, k) ==
  /\ wpc[w] = "allocate"
  /\ ~BringsAccount(w)
  /\ k \in Allocatable(w)
  /\ \A j \in Allocatable(w) : Rank[k] <= Rank[j]
  /\ rows' = [rows EXCEPT ![k] = Allocated(@)]
  /\ carried' = [carried EXCEPT ![task[w]] = k]
  /\ account' = [account EXCEPT ![w] = k]
  /\ managed' = [managed EXCEPT ![w] = TRUE]
  /\ GoTo(w, "crawl")
  /\ UNCHANGED <<saved, spc, place, tries, task, excluded, faults, history>>

NoAccountLeft(w) ==
  /\ wpc[w] = "allocate"
  /\ ~BringsAccount(w)
  /\ Allocatable(w) = {}
  /\ AttemptFails(w)
  /\ UNCHANGED <<table, faults, history>>

CrawlSucceeds(w) ==
  /\ wpc[w] = "crawl"
  /\ answers' = [answers EXCEPT ![task[w]] = @ + 1]
  /\ \/ /\ managed[w]
        /\ GoTo(w, "release_success")
        /\ UNCHANGED <<messages, task, account, managed, excluded>>
     \/ ~managed[w] /\ Finish(w)
  /\ UNCHANGED <<table, faults, meddled>>

CrawlFails(w) ==
  /\ wpc[w] = "crawl"
  /\ \/ /\ managed[w]
        /\ GoTo(w, "release_failure")
        /\ UNCHANGED <<messages, task, account, managed, excluded>>
     \/ ~managed[w] /\ AttemptFails(w)
  /\ UNCHANGED <<table, faults, history>>

\* What a release makes of the row.
Fewer(count) == IF count = 0 THEN 0 ELSE count - 1

FailureStatus(fails) ==
  CASE fails = 1 -> "cooling" [] fails = 2 -> "error" [] OTHER -> "disabled"

Released(row, ok) ==
  LET fails == IF ok THEN 0 ELSE row.fails + 1
  IN  [status |-> IF ok THEN "available" ELSE FailureStatus(fails),
       count  |-> Fewer(row.count),
       fails  |-> fails]

\* The state machine refuses the new status: release raises and is rolled back.
ReleaseRaises(w, ok) ==
  /\ account[w] \in DOMAIN rows
  /\ ~CanTransition(rows[account[w]].status, Released(rows[account[w]], ok).status)

\* While a synchronisation has emptied the table, release returns without a word.
ReleaseWrites(w, ok) ==
  /\ ~ReleaseRaises(w, ok)
  /\ rows' = [k \in DOMAIN rows |-> IF k = account[w] THEN Released(rows[k], ok) ELSE rows[k]]
  /\ UNCHANGED <<saved, spc>>

\* Whatever release raises after a successful crawl is taken for a failed crawl.
ReleaseSuccess(w) ==
  /\ wpc[w] = "release_success"
  /\ IF ReleaseRaises(w, TRUE)
       THEN /\ GoTo(w, "release_failure")
            /\ UNCHANGED <<table, messages, task, account, managed, excluded>>
       ELSE ReleaseWrites(w, TRUE) /\ Finish(w)
  /\ UNCHANGED <<faults, history>>

\* Fault: the account stays in the message when the loop goes on.
AccountKept(w) == carried

AccountDropped(w) == [carried EXCEPT ![task[w]] = Nothing]

\* Fault: an account that failed may be chosen again.
TriedForgotten(w) == {}

Tried(w) == excluded[w] \cup {account[w]}

ReleaseFailure(w) ==
  /\ wpc[w] = "release_failure"
  /\ \/ /\ ReleaseWrites(w, FALSE)
        /\ excluded' = [excluded EXCEPT ![w] = Tried(w)]
        /\ carried' = AccountDropped(w)
        /\ account' = [account EXCEPT ![w] = Nothing]
        /\ managed' = [managed EXCEPT ![w] = FALSE]
        /\ GoTo(w, "allocate")
        /\ UNCHANGED <<place, tries, task>>
     \/ /\ ReleaseRaises(w, FALSE)
        /\ AttemptFails(w)
        /\ UNCHANGED table
  /\ UNCHANGED <<faults, history>>

WorkerStep(w) ==
  \/ \E t \in Tasks : TakeTask(w, t)
  \/ UseCarriedAccount(w)
  \/ \E k \in Accounts : Allocate(w, k)
  \/ NoAccountLeft(w)
  \/ CrawlSucceeds(w)
  \/ CrawlFails(w)
  \/ ReleaseSuccess(w)
  \/ ReleaseFailure(w)

\* A MySQL error in an allocation or a release, which is rolled back.  An error while an
\* account is given back after a success is taken for a failure of the crawl.
DatabaseFails(w) ==
  /\ CanFail
  /\ \/ /\ wpc[w] = "allocate"
        /\ ~BringsAccount(w)
        /\ AttemptFails(w)
     \/ /\ wpc[w] = "release_success"
        /\ GoTo(w, "release_failure")
        /\ UNCHANGED <<messages, task, account, managed, excluded>>
     \/ wpc[w] = "release_failure" /\ AttemptFails(w)
  /\ UNCHANGED <<table, history>>

\* A worker is killed; its message is gone, its account stays as it is.
WorkerDies(w) ==
  /\ wpc[w] # "take"
  /\ CanFail
  /\ Finish(w)
  /\ UNCHANGED <<table, history>>

-----------------------------------------------------------------------------
(* Operators.                                                              *)

\* The dashboard asks no state machine, and forgives failures to an account it enables.
Operated(row, new) ==
  [status |-> new, count |-> row.count, fails |-> IF new = "available" THEN 0 ELSE row.fails]

\* PATCH /api/accounts/{id}/status.
UpdateDashboardAccountStatus(k) ==
  /\ "dashboard" \in Operations
  /\ k \in DOMAIN rows
  /\ \E new \in {"available", "disabled"} : rows' = [rows EXCEPT ![k] = Operated(@, new)]
  /\ meddled' = TRUE
  /\ UNCHANGED <<saved, spc, messages, worker, faults, answers>>

\* PATCH /accounts/{id}/status.
UpdateAccountStatus(k, new) ==
  /\ "patch" \in Operations
  /\ k \in DOMAIN rows
  /\ CanTransition(rows[k].status, new)
  /\ rows' = [rows EXCEPT ![k].status = new]
  /\ meddled' = TRUE
  /\ UNCHANGED <<saved, spc, messages, worker, faults, answers>>

-----------------------------------------------------------------------------
(* sync_real_accounts, for a listing or at a master's start.               *)

SyncReads(s) ==
  /\ "sync" \in Operations
  /\ spc[s] = "read"
  /\ saved' = [saved EXCEPT ![s] = rows]
  /\ spc' = [spc EXCEPT ![s] = "truncate"]
  /\ UNCHANGED <<rows, messages, worker, faults, history>>

SyncTruncates(s) ==
  /\ spc[s] = "truncate"
  /\ rows' = NoRows
  /\ spc' = [spc EXCEPT ![s] = "insert"]
  /\ UNCHANGED <<saved, messages, worker, faults, history>>

SyncEnds(s) ==
  /\ saved' = [saved EXCEPT ![s] = NoRows]
  /\ spc' = [spc EXCEPT ![s] = "read"]

\* What is kept of a row: its status and its failures, not its count.
Refilled(old, k) ==
  IF k \in DOMAIN old THEN [old[k] EXCEPT !.count = 0] ELSE NewRow

\* Fault: only the accounts that were there come back.
RefillKnown(s) == [k \in DOMAIN saved[s] |-> Refilled(saved[s], k)]

Refill(s) == [k \in Accounts |-> Refilled(saved[s], k)]

\* Rows that another synchronisation has put back violate the unique key, and the
\* inserts are rolled back.
SyncInserts(s) ==
  /\ spc[s] = "insert"
  /\ rows' = IF DOMAIN rows = {} THEN Refill(s) ELSE rows
  /\ SyncEnds(s)
  /\ UNCHANGED <<messages, worker, faults, history>>

\* A process or a database error ends it; what was truncated stays truncated.
SyncDies(s) ==
  /\ spc[s] # "read"
  /\ CanFail
  /\ SyncEnds(s)
  /\ UNCHANGED <<rows, messages, worker, history>>

-----------------------------------------------------------------------------
Next ==
  \/ \E w \in Workers : WorkerStep(w) \/ DatabaseFails(w) \/ WorkerDies(w)
  \/ \E k \in Accounts : \/ UpdateDashboardAccountStatus(k)
                         \/ \E new \in Statuses : UpdateAccountStatus(k, new)
  \/ \E s \in Listings : SyncReads(s) \/ SyncTruncates(s) \/ SyncInserts(s) \/ SyncDies(s)

Spec == Init /\ [][Next]_vars

\* A worker goes on with what it does, and a crawl ends.
FairSpec == Spec /\ \A w \in Workers : WF_vars(WorkerStep(w))

-----------------------------------------------------------------------------
\* Who works with an account, and who does so with the allocator's consent.
Users(k) == {w \in Workers : account[w] = k}
Holders(k) == {w \in Workers : account[w] = k /\ managed[w]}

\* Every variable has its type, a worker inside execute_task has a task, and it has an
\* account exactly from the allocation to the end of the release.
TypeOK ==
  /\ IsTable(rows)
  /\ \A s \in Listings : IsTable(saved[s])
  /\ DOMAIN saved = Listings
  /\ spc \in [Listings -> {"read", "truncate", "insert"}]
  /\ place \in [Tasks -> {"waiting", "taken", "done"}]
  /\ tries \in [Tasks -> 0..MaxRetries]
  /\ carried \in [Tasks -> Accounts \cup {Nothing}]
  /\ task \in [Workers -> Tasks \cup {Nothing}]
  /\ account \in [Workers -> Accounts \cup {Nothing}]
  /\ managed \in [Workers -> BOOLEAN]
  /\ excluded \in [Workers -> SUBSET Accounts]
  /\ wpc \in [Workers -> {"take", "allocate", "crawl", "release_success", "release_failure"}]
  /\ faults \in 0..MaxFaults
  /\ meddled \in BOOLEAN
  /\ answers \in [Tasks -> Nat]
  /\ \A w \in Workers :
       /\ wpc[w] # "take" => task[w] \in Tasks
       /\ account[w] \in Accounts <=> wpc[w] \notin {"take", "allocate"}
       /\ managed[w] => account[w] \in Accounts

\* Without synchronisations, the usage count of an account covers every worker that
\* holds it and never passes its capacity, whatever operators do to its status in the
\* meantime and whatever fails.
CountCoversUse ==
  "sync" \notin Operations =>
    \A k \in Accounts :
      /\ Cardinality(Holders(k)) <= rows[k].count
      /\ rows[k].count <= MaxTasks

\* Without synchronisations, operators and failures, the count is the number of
\* workers that hold the account, and it is marked allocated exactly when it is full:
\* no allocation is left behind.
CountExact ==
  "sync" \notin Operations /\ ~meddled /\ faults = 0 =>
    \A k \in Accounts :
      /\ rows[k].count = Cardinality(Holders(k))
      /\ rows[k].status = "allocated" <=> rows[k].count = MaxTasks

\* As long as no operator changes a status and nothing fails, synchronisations or not,
\* nobody works with an account that the allocator has not given him: no retried
\* message brings an account along.
UseIsCounted ==
  ~meddled /\ faults = 0 =>
    \A w \in Workers : account[w] # Nothing => managed[w]

\* Without failures, no task is crawled successfully twice: giving an account back
\* after a success never turns it into a failure, whatever operators did to it.
AnsweredOnce == faults = 0 => \A t \in Tasks : answers[t] <= 1

\* Without failures, overlapping synchronisations leave the table complete once none of
\* them is between its truncation and its inserts.
TableComesBack ==
  faults = 0 /\ (\A s \in Listings : spc[s] # "insert") => DOMAIN rows = Accounts

\* Row locks keep an account from more tasks than it has room for.
NeverOverused == \A k \in Accounts : Cardinality(Users(k)) <= MaxTasks

\* Every task is answered or given up, however often accounts fail and operators make
\* them available again: the loop over accounts ends.
EveryTaskEnds == \A t \in Tasks : <>(place[t] = "done")
=============================================================================

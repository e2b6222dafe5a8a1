---------------------------- MODULE AccountsProofs ----------------------------
(***************************************************************************)
(* What account allocation promises for any number of accounts, workers,   *)
(* tasks and listings.                                                     *)
(***************************************************************************)
EXTENDS Accounts, FiniteSetTheorems, TLAPS

-----------------------------------------------------------------------------
(* Types.                                                                  *)

\* The variables that only workers change, and what ties them together.
WorkerTyped ==
  /\ place \in [Tasks -> {"waiting", "taken", "done"}]
  /\ tries \in [Tasks -> 0..MaxRetries]
  /\ carried \in [Tasks -> Accounts \cup {Nothing}]
  /\ task \in [Workers -> Tasks \cup {Nothing}]
  /\ account \in [Workers -> Accounts \cup {Nothing}]
  /\ managed \in [Workers -> BOOLEAN]
  /\ excluded \in [Workers -> SUBSET Accounts]
  /\ wpc \in [Workers -> {"take", "allocate", "crawl", "release_success", "release_failure"}]
  /\ \A w \in Workers :
       /\ wpc[w] # "take" => task[w] \in Tasks
       /\ account[w] \in Accounts <=> wpc[w] \notin {"take", "allocate"}
       /\ managed[w] => account[w] \in Accounts

TableTyped ==
  /\ IsTable(rows)
  /\ \A s \in Listings : IsTable(saved[s])
  /\ DOMAIN saved = Listings
  /\ spc \in [Listings -> {"read", "truncate", "insert"}]

HistoryTyped ==
  /\ faults \in 0..MaxFaults
  /\ meddled \in BOOLEAN
  /\ answers \in [Tasks -> Nat]

\* The type invariant is the conjunction of its three parts.
LEMMA TypeParts == TypeOK <=> WorkerTyped /\ TableTyped /\ HistoryTyped
  BY DEF TypeOK, WorkerTyped, TableTyped, HistoryTyped

\* What a release makes of a row is a row.
LEMMA ReleasedIsRow ==
  ASSUME NEW row \in Rows, NEW ok \in BOOLEAN
  PROVE  Released(row, ok) \in Rows
<1>1. Fewer(row.count) \in Nat
  BY DEF Rows, Fewer
<1>2. \A n \in Nat : FailureStatus(n) \in Statuses
  BY DEF FailureStatus, Statuses
<1>3. ok = FALSE => row.fails + 1 \in Nat
  BY DEF Rows
<1> QED
  BY <1>1, <1>2, <1>3 DEF Released, Rows, Statuses

\* A worker that leaves execute_task keeps the types, with or without its task.
LEMMA FinishTyped ==
  ASSUME WorkerTyped, NEW w \in Workers, wpc[w] # "take", Finish(w)
  PROVE  WorkerTyped'
<1> USE AccountsAssumption DEF AccountsAssumption
<1> QED
  BY DEF WorkerTyped, Finish, Leave, GoTo

LEMMA AttemptFailsTyped ==
  ASSUME WorkerTyped, NEW w \in Workers, wpc[w] # "take", AttemptFails(w)
  PROVE  WorkerTyped'
<1> USE AccountsAssumption DEF AccountsAssumption
<1>1. CASE Finish(w)
  BY <1>1, FinishTyped
<1>2. CASE ~Finish(w)
  <2>1. task[w] \in Tasks /\ tries[task[w]] < MaxRetries
    BY <1>2 DEF AttemptFails, WorkerTyped
  <2>2. tries[task[w]] + 1 \in 0..MaxRetries
    BY <2>1 DEF WorkerTyped
  <2>3. tries' \in [Tasks -> 0..MaxRetries]
    BY <1>2, <2>2 DEF AttemptFails, WorkerTyped
  <2>4. Leave(w) /\ place' = [place EXCEPT ![task[w]] = "waiting"] /\ carried' = carried
    BY <1>2 DEF AttemptFails
  <2> QED
    BY <2>1, <2>3, <2>4 DEF WorkerTyped, Leave, GoTo
<1> QED
  BY <1>1, <1>2 DEF AttemptFails, WorkerTyped

\* A release keeps the types of the table.
LEMMA ReleaseTyped ==
  ASSUME TableTyped, NEW w \in Workers, NEW ok \in BOOLEAN, ReleaseWrites(w, ok)
  PROVE  TableTyped'
<1>1. IsTable(rows)'
  BY ReleasedIsRow DEF ReleaseWrites, TableTyped, IsTable
<1> QED
  BY <1>1 DEF ReleaseWrites, TableTyped

\* Every step of a worker keeps TypeOK.
LEMMA WorkerStepTyped ==
  ASSUME TypeOK, NEW w \in Workers, WorkerStep(w)
  PROVE  TypeOK'
<1> USE AccountsAssumption DEF AccountsAssumption
<1> WorkerTyped /\ TableTyped /\ HistoryTyped
  BY TypeParts
<1> SUFFICES WorkerTyped' /\ TableTyped' /\ HistoryTyped'
  BY DEF TypeOK, WorkerTyped, TableTyped, HistoryTyped
<1> USE DEF table, messages, worker, history, GoTo
<1>1. ASSUME NEW t \in Tasks, TakeTask(w, t)
      PROVE  WorkerTyped' /\ TableTyped' /\ HistoryTyped'
  <2>1. WorkerTyped'
    BY <1>1 DEF TakeTask, WorkerTyped
  <2> QED
    BY <1>1, <2>1 DEF TakeTask, TableTyped, HistoryTyped
<1>2. CASE UseCarriedAccount(w)
  <2>1. carried[task[w]] \in Accounts
    BY <1>2 DEF UseCarriedAccount, BringsAccount, WorkerTyped
  <2>2. WorkerTyped'
    BY <1>2, <2>1 DEF UseCarriedAccount, WorkerTyped
  <2> QED
    BY <1>2, <2>2 DEF UseCarriedAccount, TableTyped, HistoryTyped
<1>3. ASSUME NEW k \in Accounts, Allocate(w, k)
      PROVE  WorkerTyped' /\ TableTyped' /\ HistoryTyped'
  <2>1. WorkerTyped'
    BY <1>3 DEF Allocate, WorkerTyped
  <2>2. k \in DOMAIN rows /\ rows[k] \in Rows
    BY <1>3 DEF Allocate, Allocatable, TableTyped, IsTable
  <2>3. Allocated(rows[k]) \in Rows
    BY <2>2 DEF Allocated, Rows, Statuses, AllocatedStatus
  <2>5. TableTyped'
    BY <1>3, <2>2, <2>3 DEF Allocate, TableTyped, IsTable
  <2> QED
    BY <1>3, <2>1, <2>5 DEF Allocate, HistoryTyped
<1>4. CASE NoAccountLeft(w)
  <2>1. WorkerTyped'
    BY <1>4, AttemptFailsTyped DEF NoAccountLeft
  <2> QED
    BY <1>4, <2>1 DEF NoAccountLeft, TableTyped, HistoryTyped
<1>5. CASE CrawlSucceeds(w)
  <2>1. WorkerTyped'
    <3>1. CASE Finish(w)
      BY <1>5, <3>1, FinishTyped DEF CrawlSucceeds
    <3>2. CASE ~Finish(w)
      BY <1>5, <3>2 DEF CrawlSucceeds, WorkerTyped
    <3> QED
      BY <3>1, <3>2
  <2>2. HistoryTyped'
    BY <1>5 DEF CrawlSucceeds, HistoryTyped, WorkerTyped
  <2> QED
    BY <1>5, <2>1, <2>2 DEF CrawlSucceeds, TableTyped
<1>6. CASE CrawlFails(w)
  <2>1. WorkerTyped'
    <3>1. CASE AttemptFails(w)
      BY <1>6, <3>1, AttemptFailsTyped DEF CrawlFails
    <3>2. CASE ~AttemptFails(w)
      BY <1>6, <3>2 DEF CrawlFails, WorkerTyped
    <3> QED
      BY <3>1, <3>2
  <2> QED
    BY <1>6, <2>1 DEF CrawlFails, TableTyped, HistoryTyped
<1>7. CASE ReleaseSuccess(w)
  <2>1. CASE ReleaseRaises(w, TRUE)
    <3>1. WorkerTyped'
      BY <1>7, <2>1 DEF ReleaseSuccess, WorkerTyped
    <3> QED
      BY <1>7, <2>1, <3>1 DEF ReleaseSuccess, TableTyped, HistoryTyped
  <2>2. CASE ~ReleaseRaises(w, TRUE)
    BY <1>7, <2>2, ReleaseTyped, FinishTyped DEF ReleaseSuccess, HistoryTyped
  <2> QED
    BY <2>1, <2>2
<1>8. CASE ReleaseFailure(w)
  <2>1. CASE ReleaseWrites(w, FALSE) /\ GoTo(w, "allocate")
    <3>1. TableTyped'
      BY <2>1, ReleaseTyped
    <3>2. excluded' = [excluded EXCEPT ![w] = Tried(w)] /\ Tried(w) \in SUBSET Accounts
      BY <1>8, <2>1 DEF ReleaseFailure, ReleaseWrites, Tried, WorkerTyped
    <3>3. /\ carried' = [carried EXCEPT ![task[w]] = Nothing]
          /\ account' = [account EXCEPT ![w] = Nothing]
          /\ managed' = [managed EXCEPT ![w] = FALSE]
          /\ wpc' = [wpc EXCEPT ![w] = "allocate"]
          /\ UNCHANGED <<place, tries, task>>
          /\ task[w] \in Tasks
      BY <1>8, <2>1 DEF ReleaseFailure, ReleaseWrites, AccountDropped, WorkerTyped
    <3>4. carried' \in [Tasks -> Accounts \cup {Nothing}] /\ excluded' \in [Workers -> SUBSET Accounts]
      BY <3>2, <3>3 DEF WorkerTyped
    <3>5. WorkerTyped'
      BY <3>3, <3>4 DEF WorkerTyped
    <3> QED
      BY <1>8, <3>1, <3>5 DEF ReleaseFailure, HistoryTyped
  <2>2. CASE ReleaseRaises(w, FALSE) /\ AttemptFails(w)
    <3>1. WorkerTyped'
      BY <1>8, <2>2, AttemptFailsTyped DEF ReleaseFailure
    <3> QED
      BY <1>8, <2>2, <3>1 DEF ReleaseFailure, ReleaseWrites, TableTyped, HistoryTyped
  <2> QED
    BY <1>8, <2>1, <2>2 DEF ReleaseFailure
<1> QED
  BY <1>1, <1>2, <1>3, <1>4, <1>5, <1>6, <1>7, <1>8 DEF WorkerStep

\* Every other step keeps TypeOK.
LEMMA OtherStepTyped ==
  ASSUME TypeOK, [Next]_vars, \A w \in Workers : ~WorkerStep(w)
  PROVE  TypeOK'
<1> USE AccountsAssumption DEF AccountsAssumption
<1> WorkerTyped /\ TableTyped /\ HistoryTyped
  BY TypeParts
<1> SUFFICES WorkerTyped' /\ TableTyped' /\ HistoryTyped'
  BY DEF TypeOK, WorkerTyped, TableTyped, HistoryTyped
<1> USE DEF table, messages, worker, history, GoTo
<1>1. ASSUME NEW w \in Workers, DatabaseFails(w)
      PROVE  WorkerTyped' /\ TableTyped' /\ HistoryTyped'
  <2>1. WorkerTyped'
    <3>1. CASE AttemptFails(w)
      BY <1>1, <3>1, AttemptFailsTyped DEF DatabaseFails
    <3>2. CASE ~AttemptFails(w)
      BY <1>1, <3>2 DEF DatabaseFails, WorkerTyped
    <3> QED
      BY <3>1, <3>2
  <2> QED
    BY <1>1, <2>1 DEF DatabaseFails, CanFail, TableTyped, HistoryTyped
<1>2. ASSUME NEW w \in Workers, WorkerDies(w)
      PROVE  WorkerTyped' /\ TableTyped' /\ HistoryTyped'
  BY <1>2, FinishTyped DEF WorkerDies, CanFail, TableTyped, HistoryTyped
<1>3. ASSUME NEW k \in Accounts, UpdateDashboardAccountStatus(k)
      PROVE  WorkerTyped' /\ TableTyped' /\ HistoryTyped'
  <2>1. WorkerTyped' /\ HistoryTyped'
    BY <1>3 DEF UpdateDashboardAccountStatus, WorkerTyped, HistoryTyped
  <2>2. IsTable(rows)'
    <3>1. \A row \in Rows, new \in Statuses : Operated(row, new) \in Rows
      BY DEF Operated, Rows
    <3> QED
      BY <1>3, <3>1 DEF UpdateDashboardAccountStatus, TableTyped, IsTable, Statuses
  <2> QED
    BY <1>3, <2>1, <2>2 DEF UpdateDashboardAccountStatus, TableTyped
<1>4. ASSUME NEW k \in Accounts, NEW new \in Statuses, UpdateAccountStatus(k, new)
      PROVE  WorkerTyped' /\ TableTyped' /\ HistoryTyped'
  <2>1. WorkerTyped' /\ HistoryTyped'
    BY <1>4 DEF UpdateAccountStatus, WorkerTyped, HistoryTyped
  <2>2. IsTable(rows)'
    BY <1>4 DEF UpdateAccountStatus, TableTyped, IsTable, Rows
  <2> QED
    BY <1>4, <2>1, <2>2 DEF UpdateAccountStatus, TableTyped
<1>5. IsTable(NoRows)
  BY DEF IsTable, NoRows
<1>6. ASSUME NEW s \in Listings,
             SyncReads(s) \/ SyncTruncates(s) \/ SyncInserts(s) \/ SyncDies(s)
      PROVE  WorkerTyped' /\ HistoryTyped'
  <2>1. UNCHANGED <<messages, worker, history>> /\ (faults' = faults \/ CanFail)
    BY <1>6 DEF SyncReads, SyncTruncates, SyncInserts, SyncDies
  <2> QED
    BY <2>1 DEF WorkerTyped, HistoryTyped, CanFail
<1>7. ASSUME NEW s \in Listings, SyncReads(s)
      PROVE  TableTyped'
  BY <1>7 DEF SyncReads, TableTyped
<1>8. ASSUME NEW s \in Listings, SyncTruncates(s)
      PROVE  TableTyped'
  BY <1>5, <1>8 DEF SyncTruncates, TableTyped
<1>9. ASSUME NEW s \in Listings, SyncInserts(s)
      PROVE  TableTyped'
  <2>1. \A k \in Accounts : Refilled(saved[s], k) \in Rows
    BY <1>9 DEF Refilled, NewRow, Rows, Statuses, TableTyped, IsTable
  <2>2. IsTable(Refill(s))
    BY <2>1 DEF Refill, IsTable
  <2> QED
    BY <1>5, <1>9, <2>2 DEF SyncInserts, SyncEnds, TableTyped
<1>10. ASSUME NEW s \in Listings, SyncDies(s)
       PROVE  TableTyped'
  BY <1>5, <1>10 DEF SyncDies, SyncEnds, TableTyped
<1>11. CASE UNCHANGED vars
  BY <1>11 DEF vars, WorkerTyped, TableTyped, HistoryTyped
<1> QED
  BY <1>1, <1>2, <1>3, <1>4, <1>6, <1>7, <1>8, <1>9, <1>10, <1>11 DEF Next

\* The first state has its types.
LEMMA InitTyped == Init => TypeOK
<1> SUFFICES ASSUME Init PROVE TypeOK
  OBVIOUS
<1> USE AccountsAssumption DEF AccountsAssumption
<1>1. NewRow \in Rows
  BY DEF NewRow, Rows, Statuses
<1>2. IsTable(rows) /\ IsTable(NoRows)
  BY <1>1 DEF Init, IsTable, NoRows
<1>3. WorkerTyped
  <2>1. \A w \in Workers : wpc[w] = "take" /\ account[w] = Nothing /\ ~managed[w]
    BY DEF Init
  <2> QED
    BY <2>1 DEF Init, WorkerTyped
<1>4. TableTyped
  <2>1. \A s \in Listings : saved[s] = NoRows
    BY DEF Init
  <2>2. \A s \in Listings : IsTable(saved[s])
    BY <1>2, <2>1
  <2> QED
    BY <1>2, <2>2 DEF Init, TableTyped
<1>5. HistoryTyped
  <2>1. faults = 0 /\ meddled = FALSE
    BY DEF Init
  <2>2. answers \in [Tasks -> Nat]
    BY DEF Init
  <2>3. faults \in 0..MaxFaults
    BY <2>1
  <2>4. meddled \in BOOLEAN
    BY <2>1
  <2> QED
    BY <2>2, <2>3, <2>4 DEF HistoryTyped
<1> QED
  BY <1>3, <1>4, <1>5, TypeParts

\* Every reachable state is well typed, and workers hold an account exactly from an
\* allocation to the end of a release.
THEOREM TypeCorrect == Spec => []TypeOK
<1>1. TypeOK /\ [Next]_vars => TypeOK'
  BY WorkerStepTyped, OtherStepTyped
<1> QED
  BY InitTyped, <1>1, PTL DEF Spec

-----------------------------------------------------------------------------
(* Overlapping synchronisations.                                           *)

\* A table is complete or empty, and then somebody is about to fill it.
WholeOrAwaited ==
  faults = 0 =>
    \/ DOMAIN rows = Accounts
    \/ DOMAIN rows = {} /\ \E s \in Listings : spc[s] = "insert"

\* Every step keeps WholeOrAwaited.
LEMMA WholeOrAwaitedStep ==
  ASSUME TypeOK, WholeOrAwaited, [Next]_vars
  PROVE  WholeOrAwaited'
<1> USE AccountsAssumption DEF AccountsAssumption, WholeOrAwaited
<1> TableTyped /\ HistoryTyped
  BY TypeParts
<1>1. CASE UNCHANGED spc /\ DOMAIN rows' = DOMAIN rows /\ (faults' = faults \/ CanFail)
  <2>1. faults' = 0 => faults = 0
    BY <1>1 DEF CanFail, HistoryTyped
  <2> QED
    BY <1>1, <2>1
<1>2. ASSUME NEW w \in Workers, WorkerStep(w) \/ DatabaseFails(w) \/ WorkerDies(w)
      PROVE  UNCHANGED spc /\ DOMAIN rows' = DOMAIN rows /\ (faults' = faults \/ CanFail)
  <2>1. CASE \/ \E t \in Tasks : TakeTask(w, t)
             \/ UseCarriedAccount(w) \/ NoAccountLeft(w) \/ CrawlSucceeds(w)
             \/ CrawlFails(w) \/ DatabaseFails(w) \/ WorkerDies(w)
    BY <2>1 DEF TakeTask, UseCarriedAccount, NoAccountLeft, CrawlSucceeds, CrawlFails,
                DatabaseFails, WorkerDies, table
  <2>2. ASSUME NEW k \in Accounts, Allocate(w, k)
        PROVE  UNCHANGED spc /\ DOMAIN rows' = DOMAIN rows /\ faults' = faults
    BY <2>2 DEF Allocate
  <2>3. CASE ReleaseSuccess(w)
    BY <2>3 DEF ReleaseSuccess, ReleaseWrites, table
  <2>4. CASE ReleaseFailure(w)
    BY <2>4 DEF ReleaseFailure, ReleaseWrites, table
  <2> QED
    BY <1>2, <2>1, <2>2, <2>3, <2>4 DEF WorkerStep
<1>3. ASSUME NEW k \in Accounts,
             \/ UpdateDashboardAccountStatus(k)
             \/ \E new \in Statuses : UpdateAccountStatus(k, new)
      PROVE  UNCHANGED spc /\ DOMAIN rows' = DOMAIN rows /\ faults' = faults
  BY <1>3 DEF UpdateDashboardAccountStatus, UpdateAccountStatus
<1>4. ASSUME NEW s \in Listings, SyncReads(s)
      PROVE  WholeOrAwaited'
  BY <1>4 DEF SyncReads, TableTyped
<1>5. ASSUME NEW s \in Listings, SyncTruncates(s)
      PROVE  WholeOrAwaited'
  BY <1>5 DEF SyncTruncates, TableTyped, NoRows
<1>6. ASSUME NEW s \in Listings, SyncInserts(s)
      PROVE  WholeOrAwaited'
  BY <1>6 DEF SyncInserts, Refill
<1>7. ASSUME NEW s \in Listings, SyncDies(s)
      PROVE  WholeOrAwaited'
  BY <1>7 DEF SyncDies, CanFail, HistoryTyped
<1>8. CASE UNCHANGED vars
  BY <1>1, <1>8 DEF vars, table
<1> QED
  BY <1>1, <1>2, <1>3, <1>4, <1>5, <1>6, <1>7, <1>8 DEF Next

\* Without failures, any number of overlapping listings leaves the table complete.
THEOREM TableAlwaysComesBack == Spec => []TableComesBack
<1>1. Init => WholeOrAwaited
  BY DEF Init, WholeOrAwaited
<1>2. TypeOK /\ WholeOrAwaited /\ [Next]_vars => WholeOrAwaited'
  BY WholeOrAwaitedStep
<1>3. WholeOrAwaited => TableComesBack
  BY DEF WholeOrAwaited, TableComesBack
<1> QED
  BY TypeCorrect, <1>1, <1>2, <1>3, PTL DEF Spec

-----------------------------------------------------------------------------
(* Who executes what.                                                      *)

\* A task is executed by one worker at most, and only an account of the allocator's is
\* given back.
Exclusive ==
  /\ \A w \in Workers : task[w] \in Tasks <=> wpc[w] # "take"
  /\ \A w \in Workers : task[w] \in Tasks => place[task[w]] = "taken"
  /\ \A w, v \in Workers : task[w] = task[v] /\ task[w] \in Tasks => w = v
  /\ \A w \in Workers : wpc[w] \in {"release_success", "release_failure"} => managed[w]

\* What a worker that is inside execute_task may do to itself and to its task: leave with
\* the task, or go on with it.
Leaves(w) ==
  /\ Leave(w)
  /\ \E p \in {"waiting", "done"} : place' = [place EXCEPT ![task[w]] = p]

GoesOn(w) ==
  /\ \E step \in {"allocate", "crawl", "release_success", "release_failure"} : GoTo(w, step)
  /\ wpc'[w] \in {"release_success", "release_failure"} => managed'[w]
  /\ \A v \in Workers \ {w} : managed'[v] = managed[v]
  /\ UNCHANGED <<task, place>>

\* A worker that leaves takes nobody's task from him, and neither does one that goes on.
LEMMA ExclusiveKept ==
  ASSUME WorkerTyped, Exclusive, NEW w \in Workers, wpc[w] # "take", Leaves(w) \/ GoesOn(w)
  PROVE  Exclusive'
<1> USE AccountsAssumption DEF AccountsAssumption
<1>1. CASE Leaves(w)
  <2>1. PICK p \in {"waiting", "done"} : place' = [place EXCEPT ![task[w]] = p]
    BY <1>1 DEF Leaves
  <2>2. task' = [task EXCEPT ![w] = Nothing] /\ wpc' = [wpc EXCEPT ![w] = "take"]
        /\ managed' = [managed EXCEPT ![w] = FALSE]
    BY <1>1 DEF Leaves, Leave, GoTo
  <2>3. \A v \in Workers \ {w} : task[v] # task[w] \/ task[v] \notin Tasks
    BY DEF Exclusive
  <2>4. \A v \in Workers \ {w} : task'[v] = task[v] /\ wpc'[v] = wpc[v] /\ managed'[v] = managed[v]
    BY <2>2 DEF WorkerTyped
  <2>5. task'[w] = Nothing /\ wpc'[w] = "take" /\ Nothing \notin Tasks
    BY <2>2 DEF WorkerTyped
  <2>6. \A v \in Workers \ {w} : task[v] \in Tasks => place'[task[v]] = place[task[v]]
    BY <2>1, <2>3 DEF WorkerTyped
  <2> QED
    BY <2>4, <2>5, <2>6 DEF Exclusive
<1>2. CASE GoesOn(w)
  <2>1. PICK step \in {"allocate", "crawl", "release_success", "release_failure"} :
          wpc' = [wpc EXCEPT ![w] = step]
    BY <1>2 DEF GoesOn, GoTo
  <2>2. \A v \in Workers \ {w} : wpc'[v] = wpc[v] /\ managed'[v] = managed[v]
    BY <1>2, <2>1 DEF GoesOn, WorkerTyped
  <2>3. wpc'[w] # "take" /\ (wpc'[w] \in {"release_success", "release_failure"} => managed'[w])
    BY <1>2, <2>1 DEF GoesOn, WorkerTyped
  <2>4. task' = task /\ place' = place
    BY <1>2 DEF GoesOn
  <2> QED
    BY <2>2, <2>3, <2>4 DEF Exclusive
<1> QED
  BY <1>1, <1>2

\* A failed attempt and a finished task are ways to leave.
LEMMA AttemptFailsLeaves ==
  ASSUME NEW w \in Workers, AttemptFails(w) \/ Finish(w)
  PROVE  Leaves(w)
  BY DEF AttemptFails, Finish, Leaves

\* Once it has a task, a worker does nothing else.
LEMMA LeavesOrGoesOn ==
  ASSUME TypeOK, Exclusive, NEW w \in Workers,
         WorkerStep(w) \/ DatabaseFails(w) \/ WorkerDies(w),
         \A t \in Tasks : ~TakeTask(w, t)
  PROVE  wpc[w] # "take" /\ (Leaves(w) \/ GoesOn(w))
<1> WorkerTyped
  BY TypeParts
<1> USE DEF messages
<1>1. CASE UseCarriedAccount(w)
  BY <1>1 DEF UseCarriedAccount, GoesOn, GoTo, WorkerTyped
<1>2. ASSUME NEW k \in Accounts, Allocate(w, k)
      PROVE  wpc[w] # "take" /\ GoesOn(w)
  BY <1>2 DEF Allocate, GoesOn, GoTo, WorkerTyped
<1>3. CASE NoAccountLeft(w)
  BY <1>3, AttemptFailsLeaves DEF NoAccountLeft
<1>4. CASE CrawlSucceeds(w)
  <2>1. CASE managed[w]
    BY <1>4, <2>1 DEF CrawlSucceeds, GoesOn, GoTo, WorkerTyped
  <2>2. CASE ~managed[w]
    BY <1>4, <2>2, AttemptFailsLeaves DEF CrawlSucceeds
  <2> QED
    BY <2>1, <2>2
<1>5. CASE CrawlFails(w)
  <2>1. CASE managed[w]
    BY <1>5, <2>1 DEF CrawlFails, GoesOn, GoTo, WorkerTyped
  <2>2. CASE ~managed[w]
    BY <1>5, <2>2, AttemptFailsLeaves DEF CrawlFails
  <2> QED
    BY <2>1, <2>2
<1>6. CASE ReleaseSuccess(w)
  <2>1. CASE ReleaseRaises(w, TRUE)
    BY <1>6, <2>1 DEF ReleaseSuccess, GoesOn, GoTo, WorkerTyped, Exclusive
  <2>2. CASE ~ReleaseRaises(w, TRUE)
    BY <1>6, <2>2, AttemptFailsLeaves DEF ReleaseSuccess
  <2> QED
    BY <2>1, <2>2
<1>7. CASE ReleaseFailure(w)
  <2>1. CASE AttemptFails(w)
    BY <1>7, <2>1, AttemptFailsLeaves DEF ReleaseFailure
  <2>2. CASE ~AttemptFails(w)
    BY <1>7, <2>2 DEF ReleaseFailure, GoesOn, GoTo, WorkerTyped
  <2> QED
    BY <2>1, <2>2
<1>8. CASE DatabaseFails(w)
  <2>1. CASE AttemptFails(w)
    BY <1>8, <2>1, AttemptFailsLeaves DEF DatabaseFails
  <2>2. CASE ~AttemptFails(w)
    BY <1>8, <2>2 DEF DatabaseFails, GoesOn, GoTo, WorkerTyped, Exclusive
  <2> QED
    BY <2>1, <2>2
<1>9. CASE WorkerDies(w)
  BY <1>9, AttemptFailsLeaves DEF WorkerDies
<1> QED
  BY <1>1, <1>2, <1>3, <1>4, <1>5, <1>6, <1>7, <1>8, <1>9 DEF WorkerStep

\* What is not a step of a worker leaves workers and messages alone.
LEMMA OtherStepLeavesWorkers ==
  ASSUME [Next]_vars,
         \A w \in Workers : ~WorkerStep(w) /\ ~DatabaseFails(w) /\ ~WorkerDies(w)
  PROVE  UNCHANGED <<messages, worker, answers>>
  BY DEF Next, vars, history, UpdateDashboardAccountStatus, UpdateAccountStatus, SyncReads,
         SyncTruncates, SyncInserts, SyncDies

\* Every step keeps Exclusive.
LEMMA ExclusiveStep ==
  ASSUME TypeOK, Exclusive, [Next]_vars
  PROVE  Exclusive'
<1> USE AccountsAssumption DEF AccountsAssumption
<1> WorkerTyped
  BY TypeParts
<1>1. ASSUME NEW w \in Workers, NEW t \in Tasks, TakeTask(w, t)
      PROVE  Exclusive'
  <2>1. task' = [task EXCEPT ![w] = t] /\ wpc' = [wpc EXCEPT ![w] = "allocate"]
        /\ place' = [place EXCEPT ![t] = "taken"] /\ managed' = managed
    BY <1>1 DEF TakeTask, GoTo
  <2>2. \A v \in Workers : task[v] # t
    BY <1>1 DEF TakeTask, Exclusive
  <2>3. task'[w] = t /\ wpc'[w] = "allocate" /\ place'[t] = "taken"
    BY <2>1 DEF WorkerTyped
  <2>4. \A v \in Workers \ {w} : task'[v] = task[v] /\ wpc'[v] = wpc[v]
    BY <2>1 DEF WorkerTyped
  <2>5. \A v \in Workers : task[v] \in Tasks => place'[task[v]] = place[task[v]]
    BY <2>1, <2>2 DEF WorkerTyped
  <2> QED
    BY <2>1, <2>2, <2>3, <2>4, <2>5 DEF Exclusive
<1>2. ASSUME NEW w \in Workers, WorkerStep(w) \/ DatabaseFails(w) \/ WorkerDies(w),
             \A t \in Tasks : ~TakeTask(w, t)
      PROVE  Exclusive'
  BY <1>2, LeavesOrGoesOn, ExclusiveKept
<1>3. CASE UNCHANGED <<messages, worker>>
  BY <1>3 DEF messages, worker, Exclusive
<1> QED
  BY <1>1, <1>2, <1>3, OtherStepLeavesWorkers

\* A task is executed by one worker at most.
LEMMA AlwaysExclusive == Spec => []Exclusive
<1>1. Init => Exclusive
  <2> SUFFICES ASSUME Init PROVE Exclusive
    OBVIOUS
  <2>1. \A w \in Workers : task[w] = Nothing /\ wpc[w] = "take"
    BY DEF Init
  <2> QED
    BY <2>1, AccountsAssumption DEF Exclusive, AccountsAssumption
<1>2. TypeOK /\ Exclusive /\ [Next]_vars => Exclusive'
  BY ExclusiveStep
<1> QED
  BY TypeCorrect, <1>1, <1>2, PTL DEF Spec

-----------------------------------------------------------------------------
(* One answer per task.                                                    *)

\* An account can always be made available again.
LEMMA SuccessNeverRaises ==
  ASSUME TypeOK, NEW w \in Workers
  PROVE  ~ReleaseRaises(w, TRUE)
<1>1. \A old \in Statuses : CanTransition(old, "available")
  BY DEF CanTransition, Transitions, Statuses
<1>2. \A row \in Rows : Released(row, TRUE).status = "available"
  BY DEF Released
<1>3. \A k \in DOMAIN rows : rows[k] \in Rows /\ rows[k].status \in Statuses
  BY DEF TypeOK, IsTable, Rows
<1> QED
  BY <1>1, <1>2, <1>3 DEF ReleaseRaises

\* Only a task that is being given back or done has an answer, and it has one.
AnswersCounted ==
  faults = 0 =>
    /\ \A t \in Tasks : answers[t] <= 1
    /\ \A t \in Tasks : place[t] = "waiting" => answers[t] = 0
    /\ \A w \in Workers : wpc[w] \notin {"take", "release_success"} => answers[task[w]] = 0

\* Every step keeps AnswersCounted.
LEMMA AnswersCountedStep ==
  ASSUME TypeOK, Exclusive, AnswersCounted, [Next]_vars
  PROVE  AnswersCounted'
<1> USE AccountsAssumption DEF AccountsAssumption
<1> WorkerTyped /\ HistoryTyped
  BY TypeParts
<1> SUFFICES ASSUME faults' = 0
             PROVE  AnswersCounted'
  BY DEF AnswersCounted
<1> USE DEF history, messages, table, GoTo
<1>1. faults = 0 \/ ~(faults' = faults)
  OBVIOUS
<1>2. ~CanFail
  BY DEF CanFail, HistoryTyped
<1>3. ASSUME NEW w \in Workers, Leave(w), UNCHANGED <<faults, answers>>,
             \/ place' = [place EXCEPT ![task[w]] = "done"]
             \/ place' = [place EXCEPT ![task[w]] = "waiting"] /\ answers[task[w]] = 0
      PROVE  AnswersCounted'
  <2>1. wpc' = [wpc EXCEPT ![w] = "take"] /\ task' = [task EXCEPT ![w] = Nothing]
    BY <1>3 DEF Leave
  <2>2. \A v \in Workers : wpc'[v] # "take" => task'[v] = task[v] /\ wpc'[v] = wpc[v]
    BY <2>1 DEF WorkerTyped
  <2>3. \A t \in Tasks : place'[t] = "waiting" => place[t] = "waiting" \/ answers[t] = 0
    BY <1>3 DEF WorkerTyped
  <2> QED
    BY <1>3, <2>2, <2>3 DEF AnswersCounted
<1>4. ASSUME NEW w \in Workers, wpc[w] \notin {"take", "release_success"},
             \A v \in Workers \ {w} : wpc'[v] = wpc[v],
             UNCHANGED <<faults, answers, place, task>>
      PROVE  AnswersCounted'
  BY <1>4 DEF AnswersCounted
<1>5. ASSUME NEW w \in Workers, AttemptFails(w), wpc[w] \notin {"take", "release_success"},
             UNCHANGED <<faults, answers>>
      PROVE  AnswersCounted'
  <2>1. answers[task[w]] = 0
    BY <1>5 DEF AnswersCounted
  <2>2. Leave(w)
    BY <1>5 DEF AttemptFails, Finish
  <2>3. \/ place' = [place EXCEPT ![task[w]] = "done"]
        \/ place' = [place EXCEPT ![task[w]] = "waiting"]
    BY <1>5 DEF AttemptFails, Finish
  <2> QED
    BY <1>3, <1>5, <2>1, <2>2, <2>3
<1>6. ASSUME NEW w \in Workers, NEW t \in Tasks, TakeTask(w, t)
      PROVE  AnswersCounted'
  <2>1. wpc' = [wpc EXCEPT ![w] = "allocate"] /\ task' = [task EXCEPT ![w] = t]
        /\ place' = [place EXCEPT ![t] = "taken"] /\ place[t] = "waiting"
        /\ UNCHANGED <<faults, answers>>
    BY <1>6 DEF TakeTask
  <2>2. \A v \in Workers \ {w} : task'[v] = task[v] /\ wpc'[v] = wpc[v]
    BY <2>1 DEF WorkerTyped
  <2>3. task'[w] = t /\ answers[t] = 0
    BY <2>1 DEF WorkerTyped, AnswersCounted
  <2>4. \A u \in Tasks : place'[u] = "waiting" => place[u] = "waiting"
    BY <2>1 DEF WorkerTyped
  <2> QED
    BY <2>1, <2>2, <2>3, <2>4 DEF AnswersCounted
<1>7. ASSUME NEW w \in Workers, CrawlSucceeds(w)
      PROVE  AnswersCounted'
  <2>1. task[w] \in Tasks /\ answers[task[w]] = 0 /\ faults = 0
    BY <1>7 DEF CrawlSucceeds, WorkerTyped, AnswersCounted
  <2>2. answers'[task[w]] = 1 /\ \A t \in Tasks \ {task[w]} : answers'[t] = answers[t]
    BY <1>7, <2>1 DEF CrawlSucceeds, HistoryTyped
  <2>3. \A v \in Workers \ {w} : task[v] # task[w] \/ task[v] \notin Tasks
    BY DEF Exclusive
  <2>4. \A v \in Workers \ {w} : wpc[v] # "take" => task[v] \in Tasks
    BY DEF WorkerTyped
  <2>5. \A v \in Workers \ {w} : wpc'[v] = wpc[v] /\ task'[v] = task[v]
    BY <1>7 DEF CrawlSucceeds, Finish, Leave, WorkerTyped
  <2>6. wpc'[w] \in {"take", "release_success"}
    BY <1>7 DEF CrawlSucceeds, Finish, Leave, WorkerTyped
  <2>7. \A t \in Tasks : place'[t] = "waiting" => place[t] = "waiting" /\ t # task[w]
    <3>1. place[task[w]] = "taken"
      BY <2>1 DEF Exclusive
    <3> QED
      BY <1>7, <3>1 DEF CrawlSucceeds, Finish, WorkerTyped
  <2>8. \A t \in Tasks : answers'[t] <= 1
    BY <2>1, <2>2 DEF AnswersCounted
  <2>9. \A t \in Tasks : place'[t] = "waiting" => answers'[t] = 0
    BY <2>1, <2>2, <2>7 DEF AnswersCounted
  <2>10. \A v \in Workers : wpc'[v] \notin {"take", "release_success"} => answers'[task'[v]] = 0
    BY <2>1, <2>2, <2>3, <2>4, <2>5, <2>6 DEF AnswersCounted
  <2> QED
    BY <2>8, <2>9, <2>10 DEF AnswersCounted
<1>8. ASSUME NEW w \in Workers, WorkerStep(w), ~CrawlSucceeds(w),
             \A t \in Tasks : ~TakeTask(w, t)
      PROVE  AnswersCounted'
  <2>1. CASE UseCarriedAccount(w)
    BY <1>4, <2>1 DEF UseCarriedAccount, WorkerTyped
  <2>2. ASSUME NEW k \in Accounts, Allocate(w, k)
        PROVE  AnswersCounted'
    BY <1>4, <2>2 DEF Allocate, WorkerTyped
  <2>3. CASE NoAccountLeft(w)
    BY <1>5, <2>3 DEF NoAccountLeft
  <2>4. CASE CrawlFails(w)
    <3>1. CASE managed[w]
      BY <1>4, <2>4, <3>1 DEF CrawlFails, WorkerTyped
    <3>2. CASE ~managed[w]
      BY <1>5, <2>4, <3>2 DEF CrawlFails
    <3> QED
      BY <3>1, <3>2
  <2>5. CASE ReleaseSuccess(w)
    <3>1. Finish(w) /\ UNCHANGED <<faults, answers>>
      BY <2>5, SuccessNeverRaises DEF ReleaseSuccess
    <3> QED
      BY <1>3, <3>1 DEF Finish
  <2>6. CASE ReleaseFailure(w)
    <3>1. CASE AttemptFails(w)
      BY <1>5, <2>6, <3>1 DEF ReleaseFailure
    <3>2. CASE ~AttemptFails(w)
      BY <1>4, <2>6, <3>2 DEF ReleaseFailure, WorkerTyped
    <3> QED
      BY <3>1, <3>2
  <2> QED
    BY <1>8, <2>1, <2>2, <2>3, <2>4, <2>5, <2>6 DEF WorkerStep
<1>9. \A w \in Workers : ~DatabaseFails(w) /\ ~WorkerDies(w)
  BY <1>2 DEF DatabaseFails, WorkerDies
<1>10. CASE \A w \in Workers : ~WorkerStep(w)
  <2>1. UNCHANGED <<messages, worker, answers>>
    BY <1>9, <1>10, OtherStepLeavesWorkers
  <2>2. faults' = faults
    BY <1>2, <1>9, <1>10 DEF Next, vars, UpdateDashboardAccountStatus, UpdateAccountStatus,
       SyncReads, SyncTruncates, SyncInserts, SyncDies
  <2> QED
    BY <2>1, <2>2 DEF worker, AnswersCounted
<1> QED
  BY <1>6, <1>7, <1>8, <1>10

\* Without failures, no task is crawled successfully twice.
THEOREM AnsweredAtMostOnce == Spec => []AnsweredOnce
<1>1. Init => AnswersCounted
  <2> SUFFICES ASSUME Init PROVE AnswersCounted
    OBVIOUS
  <2>1. \A t \in Tasks : answers[t] = 0
    BY DEF Init
  <2>2. \A w \in Workers : wpc[w] = "take"
    BY DEF Init
  <2> QED
    BY <2>1, <2>2 DEF AnswersCounted
<1>2. TypeOK /\ Exclusive /\ AnswersCounted /\ [Next]_vars => AnswersCounted'
  BY AnswersCountedStep
<1>3. AnswersCounted => AnsweredOnce
  BY DEF AnswersCounted, AnsweredOnce
<1> QED
  BY TypeCorrect, AlwaysExclusive, <1>1, <1>2, <1>3, PTL DEF Spec

-----------------------------------------------------------------------------
(* Accounts that messages bring along.                                     *)

Quiet == ~meddled /\ faults = 0

\* Left alone, an account is disabled after three failures at least.
Deserved(f) == \A k \in DOMAIN f : f[k].status = "disabled" => f[k].fails >= 3

\* Left alone, no message that waits or looks for an account brings one along.
NothingBrought ==
  Quiet =>
    /\ Deserved(rows)
    /\ \A s \in Listings : Deserved(saved[s])
    /\ \A t \in Tasks : place[t] = "waiting" => carried[t] = Nothing
    /\ \A w \in Workers : wpc[w] = "allocate" => carried[task[w]] = Nothing
    /\ \A w \in Workers : wpc[w] = "crawl" => managed[w]

\* A disabled account that has earned it can be disabled again: no release raises.
LEMMA QuietNeverRaises ==
  ASSUME TypeOK, Deserved(rows), NEW w \in Workers, NEW ok \in BOOLEAN
  PROVE  ~ReleaseRaises(w, ok)
<1>1. CASE ok
  BY <1>1, SuccessNeverRaises
<1>2. CASE ~ok
  <2>1. \A k \in DOMAIN rows : rows[k] \in Rows
    BY DEF TypeOK, IsTable
  <2>2. ASSUME NEW row \in Rows, row.status = "disabled" => row.fails >= 3
        PROVE  CanTransition(row.status, Released(row, FALSE).status)
    <3>1. row.fails \in Nat /\ row.status \in Statuses
      BY DEF Rows
    <3>2. Released(row, FALSE).status = FailureStatus(row.fails + 1)
      BY DEF Released
    <3>3. FailureStatus(row.fails + 1) \in {"cooling", "error", "disabled"}
      BY DEF FailureStatus
    <3>4. CASE row.status = "disabled"
      <4>1. row.fails + 1 # 1 /\ row.fails + 1 # 2
        BY <2>2, <3>1, <3>4
      <4>2. FailureStatus(row.fails + 1) = "disabled"
        BY <4>1 DEF FailureStatus
      <4> QED
        BY <3>2, <3>4, <4>2 DEF CanTransition
    <3>5. CASE row.status # "disabled"
      BY <3>1, <3>2, <3>3, <3>5 DEF CanTransition, Transitions, Statuses
    <3> QED
      BY <3>4, <3>5
  <2>3. \A k \in DOMAIN rows : CanTransition(rows[k].status, Released(rows[k], FALSE).status)
    BY <2>1, <2>2 DEF Deserved
  <2> QED
    BY <1>2, <2>3 DEF ReleaseRaises
<1> QED
  BY <1>1, <1>2

\* An allocation and a release leave only deserved disabled accounts.
LEMMA RowsStayDeserved ==
  ASSUME TypeOK, Deserved(rows), NEW w \in Workers,
         \/ \E k \in Accounts : Allocate(w, k)
         \/ \E ok \in BOOLEAN : ReleaseWrites(w, ok)
  PROVE  Deserved(rows')
<1>1. \A k \in DOMAIN rows : rows[k] \in Rows
  BY DEF TypeOK, IsTable
<1>2. \A row \in Rows, ok \in BOOLEAN :
        Released(row, ok).status = "disabled" => Released(row, ok).fails >= 3
  <2> SUFFICES ASSUME NEW row \in Rows, NEW ok \in BOOLEAN,
                      Released(row, ok).status = "disabled"
               PROVE  Released(row, ok).fails >= 3
    OBVIOUS
  <2>1. row.fails \in Nat
    BY DEF Rows
  <2>2. ok = FALSE
    BY DEF Released
  <2>3. Released(row, FALSE).fails = row.fails + 1
        /\ Released(row, FALSE).status = FailureStatus(row.fails + 1)
    BY DEF Released
  <2>4. FailureStatus(row.fails + 1) = "disabled" => row.fails + 1 >= 3
    BY <2>1 DEF FailureStatus
  <2> QED
    BY <2>2, <2>3, <2>4
<1>3. ASSUME NEW k \in Accounts, Allocate(w, k)
      PROVE  Deserved(rows')
  <2>1. \A row \in Rows : Allocated(row).status # "disabled"
    BY DEF Allocated, AllocatedStatus
  <2>2. rows' = [rows EXCEPT ![k] = Allocated(rows[k])]
    BY <1>3 DEF Allocate
  <2> QED
    BY <1>1, <2>1, <2>2 DEF Deserved
<1>4. ASSUME NEW ok \in BOOLEAN, ReleaseWrites(w, ok)
      PROVE  Deserved(rows')
  BY <1>1, <1>2, <1>4 DEF ReleaseWrites, Deserved
<1> QED
  BY <1>3, <1>4

\* Every step keeps NothingBrought.
LEMMA NothingBroughtStep ==
  ASSUME TypeOK, Exclusive, NothingBrought, [Next]_vars
  PROVE  NothingBrought'
<1> USE AccountsAssumption DEF AccountsAssumption
<1> WorkerTyped /\ TableTyped /\ HistoryTyped
  BY TypeParts
<1> SUFFICES ASSUME Quiet'
             PROVE  NothingBrought'
  BY DEF NothingBrought
<1> USE DEF history, messages, table, GoTo
<1>1. ~CanFail
  BY DEF CanFail, HistoryTyped, Quiet
<1>2. \A w \in Workers : ~DatabaseFails(w) /\ ~WorkerDies(w)
  BY <1>1 DEF DatabaseFails, WorkerDies
<1>3. \A k \in Accounts : ~UpdateDashboardAccountStatus(k)
        /\ \A new \in Statuses : ~UpdateAccountStatus(k, new)
  BY DEF UpdateDashboardAccountStatus, UpdateAccountStatus, Quiet
<1>4. \A s \in Listings : ~SyncDies(s)
  BY <1>1 DEF SyncDies
<1>5. UNCHANGED <<faults, meddled>>
  BY <1>2, <1>3, <1>4 DEF Next, vars, WorkerStep, TakeTask, UseCarriedAccount, Allocate,
     NoAccountLeft, CrawlSucceeds, CrawlFails, ReleaseSuccess, ReleaseFailure, SyncReads,
     SyncTruncates, SyncInserts
<1>6. /\ Deserved(rows)
      /\ \A s \in Listings : Deserved(saved[s])
      /\ \A t \in Tasks : place[t] = "waiting" => carried[t] = Nothing
      /\ \A w \in Workers : wpc[w] = "allocate" => carried[task[w]] = Nothing
      /\ \A w \in Workers : wpc[w] = "crawl" => managed[w]
  BY <1>5 DEF NothingBrought, Quiet
<1> DEFINE MessagesFine ==
      /\ \A t \in Tasks : place[t] = "waiting" => carried[t] = Nothing
      /\ \A w \in Workers : wpc[w] = "allocate" => carried[task[w]] = Nothing
      /\ \A w \in Workers : wpc[w] = "crawl" => managed[w]
    TablesFine == Deserved(rows) /\ \A s \in Listings : Deserved(saved[s])
<1>7. SUFFICES MessagesFine' /\ TablesFine'
  BY DEF NothingBrought
<1>8. ASSUME NEW w \in Workers, Finish(w) \/ (AttemptFails(w) /\ wpc[w] = "allocate")
      PROVE  MessagesFine'
  <2>1. Leave(w) /\ carried' = carried
    BY <1>8 DEF Finish, AttemptFails
  <2>2. \A v \in Workers : wpc'[v] # "take" =>
          wpc'[v] = wpc[v] /\ task'[v] = task[v] /\ managed'[v] = managed[v]
    BY <2>1 DEF Leave, WorkerTyped
  <2>3. \A t \in Tasks : place'[t] = "waiting" => carried[t] = Nothing
    BY <1>6, <1>8 DEF Finish, AttemptFails, WorkerTyped
  <2> QED
    BY <1>6, <2>1, <2>2, <2>3
<1>9. ASSUME NEW w \in Workers, NEW t \in Tasks, TakeTask(w, t)
      PROVE  MessagesFine' /\ TablesFine'
  <2>1. task'[w] = t /\ carried[t] = Nothing
    BY <1>6, <1>9 DEF TakeTask, WorkerTyped
  <2>2. \A v \in Workers \ {w} : task'[v] = task[v] /\ wpc'[v] = wpc[v]
    BY <1>9 DEF TakeTask, WorkerTyped
  <2>3. wpc'[w] = "allocate" /\ UNCHANGED <<table, carried, managed>>
    BY <1>9 DEF TakeTask, WorkerTyped
  <2>4. \A u \in Tasks : place'[u] = "waiting" => place[u] = "waiting"
    BY <1>9 DEF TakeTask, WorkerTyped
  <2> QED
    BY <1>6, <2>1, <2>2, <2>3, <2>4
<1>10. ASSUME NEW w \in Workers, WorkerStep(w), \A t \in Tasks : ~TakeTask(w, t)
       PROVE  MessagesFine' /\ TablesFine'
  <2>1. \A v \in Workers \ {w} : task[v] # task[w] \/ task[v] \notin Tasks
    BY DEF Exclusive
  <2>2. ~UseCarriedAccount(w)
    BY <1>6 DEF UseCarriedAccount, BringsAccount
  <2>3. ASSUME NEW k \in Accounts, Allocate(w, k)
        PROVE  MessagesFine' /\ TablesFine'
    <3>1. TablesFine'
      BY <1>6, <2>3, RowsStayDeserved DEF Allocate
    <3>2. task[w] \in Tasks /\ place[task[w]] = "taken"
      BY <2>3 DEF Allocate, WorkerTyped, Exclusive
    <3>3. \A t \in Tasks \ {task[w]} : carried'[t] = carried[t]
      BY <2>3 DEF Allocate, WorkerTyped
    <3>4. \A v \in Workers \ {w} : wpc'[v] = wpc[v] /\ managed'[v] = managed[v]
      BY <2>3 DEF Allocate, WorkerTyped
    <3>5. wpc'[w] = "crawl" /\ managed'[w] /\ UNCHANGED <<task, place>>
      BY <2>3 DEF Allocate, WorkerTyped
    <3>6. \A v \in Workers : wpc[v] = "allocate" => task[v] \in Tasks
      BY DEF WorkerTyped
    <3> QED
      BY <1>6, <2>1, <3>1, <3>2, <3>3, <3>4, <3>5, <3>6
  <2>4. CASE NoAccountLeft(w)
    BY <1>6, <1>8, <2>4 DEF NoAccountLeft
  <2>5. CASE CrawlSucceeds(w) \/ CrawlFails(w)
    <3>1. managed[w]
      BY <1>6, <2>5 DEF CrawlSucceeds, CrawlFails
    <3>2. \E step \in {"release_success", "release_failure"} : wpc' = [wpc EXCEPT ![w] = step]
      BY <2>5, <3>1 DEF CrawlSucceeds, CrawlFails
    <3>3. UNCHANGED <<table, messages, task, managed>>
      BY <2>5, <3>1 DEF CrawlSucceeds, CrawlFails
    <3>4. \A v \in Workers : wpc'[v] \in {"allocate", "crawl"} => wpc'[v] = wpc[v]
      BY <3>2 DEF WorkerTyped
    <3> QED
      BY <1>6, <3>3, <3>4
  <2>6. CASE ReleaseSuccess(w)
    <3>1. ReleaseWrites(w, TRUE) /\ Finish(w)
      BY <2>6, SuccessNeverRaises DEF ReleaseSuccess
    <3>2. TablesFine'
      BY <1>6, <3>1, RowsStayDeserved DEF ReleaseWrites
    <3> QED
      BY <1>8, <3>1, <3>2
  <2>7. CASE ReleaseFailure(w)
    <3>1. ~ReleaseRaises(w, FALSE)
      BY <1>6, QuietNeverRaises
    <3>2. ReleaseWrites(w, FALSE)
      BY <2>7, <3>1 DEF ReleaseFailure
    <3>3. TablesFine'
      BY <1>6, <3>2, RowsStayDeserved DEF ReleaseWrites
    <3>4. /\ carried' = [carried EXCEPT ![task[w]] = Nothing]
          /\ managed' = [managed EXCEPT ![w] = FALSE]
          /\ wpc' = [wpc EXCEPT ![w] = "allocate"]
          /\ UNCHANGED <<place, task>>
      BY <2>7, <3>1 DEF ReleaseFailure, AccountDropped
    <3>5. task[w] \in Tasks
      BY <2>7 DEF ReleaseFailure, WorkerTyped
    <3>6. wpc'[w] = "allocate" /\ carried'[task[w]] = Nothing
      BY <3>4, <3>5 DEF WorkerTyped
    <3>7. \A t \in Tasks : carried'[t] = carried[t] \/ carried'[t] = Nothing
      BY <3>4 DEF WorkerTyped
    <3>8. \A v \in Workers \ {w} : wpc'[v] = wpc[v] /\ managed'[v] = managed[v]
      BY <3>4 DEF WorkerTyped
    <3>9. \A v \in Workers : wpc[v] = "allocate" => task[v] \in Tasks
      BY DEF WorkerTyped
    <3> QED
      BY <1>6, <3>3, <3>4, <3>6, <3>7, <3>8, <3>9
  <2> QED
    BY <1>10, <2>2, <2>3, <2>4, <2>5, <2>6, <2>7 DEF WorkerStep
<1>11. CASE \A w \in Workers : ~WorkerStep(w)
  <2>1. UNCHANGED <<messages, worker>>
    BY <1>2, <1>11, OtherStepLeavesWorkers
  <2>2. MessagesFine'
    BY <1>6, <2>1 DEF worker
  <2>3. Deserved(NoRows)
    BY DEF Deserved, NoRows
  <2>4. ASSUME NEW s \in Listings, SyncReads(s)
        PROVE  TablesFine'
    BY <1>6, <2>4 DEF SyncReads, TableTyped
  <2>5. ASSUME NEW s \in Listings, SyncTruncates(s)
        PROVE  TablesFine'
    BY <1>6, <2>3, <2>5 DEF SyncTruncates
  <2>6. ASSUME NEW s \in Listings, SyncInserts(s)
        PROVE  TablesFine'
    <3>1. \A k \in DOMAIN saved[s] : saved[s][k] \in Rows
      BY DEF TableTyped, IsTable
    <3>2. \A k \in Accounts : Refilled(saved[s], k).status = "disabled" =>
                               Refilled(saved[s], k).fails >= 3
      BY <1>6, <3>1 DEF Refilled, NewRow, Deserved, Rows
    <3>3. Deserved(Refill(s))
      BY <3>2 DEF Deserved, Refill
    <3>4. \A r \in Listings : saved'[r] = saved[r] \/ saved'[r] = NoRows
      BY <2>6 DEF SyncInserts, SyncEnds, TableTyped
    <3> QED
      BY <1>6, <2>3, <2>6, <3>3, <3>4 DEF SyncInserts
  <2>7. CASE UNCHANGED vars
    <3>1. UNCHANGED <<rows, saved>>
      BY <2>7 DEF vars
    <3> QED
      BY <1>6, <2>2, <3>1
  <2> QED
    BY <1>2, <1>3, <1>4, <1>11, <2>2, <2>4, <2>5, <2>6, <2>7 DEF Next
<1> QED
  BY <1>9, <1>10, <1>11

\* NothingBrought holds in every reachable state.
LEMMA AlwaysNothingBrought == Spec => []NothingBrought
<1>1. Init => NothingBrought
  <2> SUFFICES ASSUME Init PROVE NothingBrought
    OBVIOUS
  <2>1. \A w \in Workers : wpc[w] = "take"
    BY DEF Init
  <2>2. \A t \in Tasks : carried[t] = Nothing
    BY DEF Init
  <2>3. Deserved(rows)
    <3>1. rows = [k \in Accounts |-> NewRow]
      BY DEF Init
    <3> QED
      BY <3>1 DEF Deserved, NewRow
  <2>4. \A s \in Listings : Deserved(saved[s])
    <3>1. \A s \in Listings : saved[s] = NoRows
      BY DEF Init
    <3> QED
      BY <3>1 DEF Deserved, NoRows
  <2> QED
    BY <2>1, <2>2, <2>3, <2>4 DEF NothingBrought
<1>2. TypeOK /\ Exclusive /\ NothingBrought /\ [Next]_vars => NothingBrought'
  BY NothingBroughtStep
<1> QED
  BY TypeCorrect, AlwaysExclusive, <1>1, <1>2, PTL DEF Spec

\* As long as no operator changes a status and nothing fails, everybody works with an
\* account that the allocator gave him, however many synchronisations there are.
THEOREM UseAlwaysCounted == Spec => []UseIsCounted
<1>1. TypeOK /\ Exclusive /\ NothingBrought => UseIsCounted
  BY AccountsAssumption
  DEF TypeOK, Exclusive, NothingBrought, UseIsCounted, Quiet, AccountsAssumption
<1> QED
  BY TypeCorrect, AlwaysExclusive, AlwaysNothingBrought, <1>1, PTL

-----------------------------------------------------------------------------
(* Usage counts.                                                           *)

\* There are finitely many holders.
LEMMA HoldersFinite ==
  ASSUME NEW k \in Accounts
  PROVE  IsFiniteSet(Holders(k)) /\ Cardinality(Holders(k)) \in Nat
<1>1. Holders(k) \subseteq Workers
  BY DEF Holders
<1> QED
  BY <1>1, AccountsAssumption, FS_Subset, FS_CardinalityType DEF AccountsAssumption

\* Without synchronisations the table stays whole, its counts cover the holders, and left
\* alone they are exact.
CountsRight ==
  "sync" \notin Operations =>
    /\ \A s \in Listings : spc[s] = "read"
    /\ DOMAIN rows = Accounts
    /\ \A k \in Accounts :
         Cardinality(Holders(k)) <= rows[k].count /\ rows[k].count <= MaxTasks
    /\ Quiet =>
         \A k \in Accounts :
           /\ rows[k].count = Cardinality(Holders(k))
           /\ rows[k].status = "allocated" <=> rows[k].count = MaxTasks

\* Steps that leave the table alone and make nobody a holder keep the counts right, if
\* they lose a holder only by failing.
LEMMA CountsKept ==
  ASSUME TypeOK, CountsRight, UNCHANGED <<rows, spc>>,
         \A k \in Accounts : Holders(k)' \subseteq Holders(k),
         Quiet' => Quiet /\ \A k \in Accounts : Holders(k)' = Holders(k)
  PROVE  CountsRight'
<1> SUFFICES ASSUME "sync" \notin Operations
             PROVE  CountsRight'
  BY DEF CountsRight
<1>1. \A k \in Accounts : Cardinality(Holders(k)') <= Cardinality(Holders(k))
  BY HoldersFinite, FS_Subset
<1>2. \A k \in Accounts : Cardinality(Holders(k)') \in Nat /\ Cardinality(Holders(k)) \in Nat
  BY HoldersFinite, FS_Subset, FS_CardinalityType
<1>3. \A k \in Accounts : rows[k].count \in Nat
  BY DEF CountsRight, TypeOK, IsTable, Rows
<1>4. \A k \in Accounts :
        Cardinality(Holders(k)') <= rows[k].count /\ rows[k].count <= MaxTasks
  BY <1>1, <1>2, <1>3 DEF CountsRight
<1>5. Quiet' => \A k \in Accounts :
        /\ rows[k].count = Cardinality(Holders(k)')
        /\ rows[k].status = "allocated" <=> rows[k].count = MaxTasks
  BY DEF CountsRight
<1> QED
  BY <1>4, <1>5 DEF CountsRight

\* Who leaves is no holder any more, and everybody else stays one.
LEMMA LeaveHolders ==
  ASSUME TypeOK, NEW w \in Workers, Leave(w), NEW k \in Accounts
  PROVE  Holders(k)' = Holders(k) \ {w}
<1>1. account' = [account EXCEPT ![w] = Nothing] /\ k # Nothing
  BY AccountsAssumption DEF Leave, AccountsAssumption
<1>2. \A v \in Workers : account'[v] = IF v = w THEN Nothing ELSE account[v]
  BY <1>1 DEF TypeOK
<1>3. \A v \in Workers \ {w} : managed'[v] = managed[v]
  BY DEF Leave, TypeOK
<1> QED
  BY <1>1, <1>2, <1>3 DEF Holders

\* A release takes its worker out of the count.
LEMMA CountsReleased ==
  ASSUME TypeOK, CountsRight, NEW w \in Workers, NEW ok \in BOOLEAN, ReleaseWrites(w, ok),
         account[w] \in Accounts, managed[w],
         \A k \in Accounts : Holders(k)' = Holders(k) \ {w},
         Quiet' => Quiet
  PROVE  CountsRight'
<1> USE AccountsAssumption DEF AccountsAssumption
<1> SUFFICES ASSUME "sync" \notin Operations
             PROVE  CountsRight'
  BY DEF CountsRight
<1>0. PICK a \in Accounts : a = account[w]
  OBVIOUS
<1>1. DOMAIN rows = Accounts /\ \A k \in Accounts : rows[k] \in Rows
  BY DEF CountsRight, TypeOK, IsTable
<1>2. w \in Holders(a)
  BY <1>0 DEF Holders
<1>3. Cardinality(Holders(a)') = Cardinality(Holders(a)) - 1 /\ Cardinality(Holders(a)) \in Nat
  BY <1>2, HoldersFinite, FS_RemoveElement
<1>4. Cardinality(Holders(a)') \in Nat
  BY HoldersFinite, FS_Subset, FS_CardinalityType
<1>5. ASSUME NEW k \in Accounts, k # a
      PROVE  Holders(k)' = Holders(k) /\ rows'[k] = rows[k]
  <2>1. w \notin Holders(k)
    BY <1>0, <1>5 DEF Holders
  <2>2. rows'[k] = rows[k]
    BY <1>0, <1>1, <1>5 DEF ReleaseWrites
  <2>3. Holders(k) \ {w} = Holders(k)
    BY <2>1
  <2>4. Holders(k)' = Holders(k) \ {w}
    OBVIOUS
  <2> QED
    BY <2>2, <2>3, <2>4
<1>6. rows'[a] = Released(rows[a], ok)
  BY <1>0, <1>1 DEF ReleaseWrites
<1>7. Cardinality(Holders(a)) <= rows[a].count /\ rows[a].count <= MaxTasks
      /\ rows[a].count \in Nat
  BY <1>1 DEF CountsRight, Rows
<1>8. rows'[a].count = rows[a].count - 1
  <2>1. rows[a].count # 0
    BY <1>3, <1>4, <1>7
  <2> QED
    BY <1>6, <1>7, <2>1 DEF Released, Fewer
<1>9. rows'[a].status # "allocated"
  <2>1. \A n \in Nat : FailureStatus(n) # "allocated"
    BY DEF FailureStatus
  <2>2. rows[a].fails + 1 \in Nat
    BY <1>1 DEF Rows
  <2> QED
    BY <1>6, <2>1, <2>2 DEF Released
<1>10. \A k \in Accounts :
         Cardinality(Holders(k)') <= rows'[k].count /\ rows'[k].count <= MaxTasks
  <2>1. Cardinality(Holders(a)') <= rows'[a].count /\ rows'[a].count <= MaxTasks
    BY <1>3, <1>7, <1>8
  <2> QED
    BY <1>5, <2>1 DEF CountsRight
<1>11. ASSUME Quiet'
       PROVE  \A k \in Accounts :
                /\ rows'[k].count = Cardinality(Holders(k)')
                /\ rows'[k].status = "allocated" <=> rows'[k].count = MaxTasks
  <2>1. rows[a].count = Cardinality(Holders(a))
    BY <1>11 DEF CountsRight
  <2>2. rows'[a].count = Cardinality(Holders(a)') /\ rows'[a].count # MaxTasks
    BY <1>3, <1>7, <1>8, <2>1
  <2>3. \A k \in Accounts \ {a} :
          /\ rows[k].count = Cardinality(Holders(k))
          /\ rows[k].status = "allocated" <=> rows[k].count = MaxTasks
    BY <1>11 DEF CountsRight
  <2> QED
    BY <1>5, <1>9, <2>2, <2>3
<1>12. DOMAIN rows' = Accounts /\ spc' = spc
  BY <1>1 DEF ReleaseWrites
<1> QED
  BY <1>10, <1>11, <1>12 DEF CountsRight

\* An allocation adds its worker to the count, where there is room.
LEMMA CountsAllocated ==
  ASSUME TypeOK, CountsRight, NEW w \in Workers, NEW a \in Accounts, Allocate(w, a)
  PROVE  CountsRight'
<1> USE AccountsAssumption DEF AccountsAssumption
<1> SUFFICES ASSUME "sync" \notin Operations
             PROVE  CountsRight'
  BY DEF CountsRight
<1>1. DOMAIN rows = Accounts /\ \A k \in Accounts : rows[k] \in Rows
  BY DEF CountsRight, TypeOK, IsTable
<1>2. \A k \in Accounts : w \notin Holders(k)
  BY DEF Holders, TypeOK, Allocate
<1>3. \A v \in Workers : account'[v] = IF v = w THEN a ELSE account[v]
  BY DEF Allocate, TypeOK
<1>4. \A v \in Workers : managed'[v] <=> v = w \/ managed[v]
  BY DEF Allocate, TypeOK
<1>5. Holders(a)' = Holders(a) \cup {w}
  BY <1>3, <1>4 DEF Holders, TypeOK
<1>6. ASSUME NEW k \in Accounts, k # a
      PROVE  Holders(k)' = Holders(k) /\ rows'[k] = rows[k]
  <2>1. Holders(k)' = Holders(k)
    BY <1>2, <1>3, <1>4, <1>6 DEF Holders
  <2>2. rows'[k] = rows[k]
    BY <1>1, <1>6 DEF Allocate
  <2> QED
    BY <2>1, <2>2
<1>7. Cardinality(Holders(a)') = Cardinality(Holders(a)) + 1 /\ Cardinality(Holders(a)) \in Nat
  BY <1>2, <1>5, HoldersFinite, FS_AddElement
<1>8. rows'[a] = Allocated(rows[a])
  BY <1>1 DEF Allocate
<1>9. rows[a].count \in Nat /\ rows[a].count < MaxTasks /\ Cardinality(Holders(a)) <= rows[a].count
  BY <1>1 DEF Allocate, Allocatable, HasRoom, CountsRight, Rows
<1>10. rows'[a].count = rows[a].count + 1
       /\ (rows'[a].status = "allocated" <=> rows[a].count + 1 >= MaxTasks)
  BY <1>8 DEF Allocated, AllocatedStatus
<1>11. \A k \in Accounts :
         Cardinality(Holders(k)') <= rows'[k].count /\ rows'[k].count <= MaxTasks
  <2>1. Cardinality(Holders(a)') <= rows'[a].count /\ rows'[a].count <= MaxTasks
    BY <1>7, <1>9, <1>10
  <2> QED
    BY <1>6, <2>1 DEF CountsRight
<1>12. ASSUME Quiet'
       PROVE  \A k \in Accounts :
                /\ rows'[k].count = Cardinality(Holders(k)')
                /\ rows'[k].status = "allocated" <=> rows'[k].count = MaxTasks
  <2>1. Quiet
    BY <1>12 DEF Quiet, Allocate, history
  <2>2. rows'[a].count = Cardinality(Holders(a)')
        /\ (rows'[a].status = "allocated" <=> rows'[a].count = MaxTasks)
    <3>1. rows[a].count = Cardinality(Holders(a))
      BY <2>1 DEF CountsRight
    <3> QED
      BY <1>7, <1>9, <1>10, <3>1
  <2>3. \A k \in Accounts \ {a} :
          /\ rows[k].count = Cardinality(Holders(k))
          /\ rows[k].status = "allocated" <=> rows[k].count = MaxTasks
    BY <2>1 DEF CountsRight
  <2> QED
    BY <1>6, <2>2, <2>3
<1>13. DOMAIN rows' = Accounts /\ spc' = spc
  BY <1>1 DEF Allocate
<1> QED
  BY <1>11, <1>12, <1>13 DEF CountsRight

\* Leaving without a release keeps the counts right, if the worker held nothing or
\* something failed.
LEMMA CountsLeft ==
  ASSUME TypeOK, CountsRight, NEW w \in Workers, Leave(w), UNCHANGED <<rows, spc>>,
         Quiet' => Quiet /\ ~managed[w]
  PROVE  CountsRight'
<1>1. \A k \in Accounts : Holders(k)' \subseteq Holders(k)
  BY LeaveHolders
<1>2. ASSUME Quiet'
      PROVE  Quiet /\ \A k \in Accounts : Holders(k)' = Holders(k)
  <2>1. \A k \in Accounts : w \notin Holders(k)
    BY <1>2 DEF Holders
  <2> QED
    BY <1>2, <2>1, LeaveHolders
<1> QED
  BY <1>1, <1>2, CountsKept

\* Every step of a worker keeps CountsRight.
LEMMA WorkerStepCounts ==
  ASSUME TypeOK, Exclusive, NothingBrought, CountsRight, NEW w \in Workers, WorkerStep(w)
  PROVE  CountsRight'
<1> USE AccountsAssumption DEF AccountsAssumption
<1> WorkerTyped /\ HistoryTyped
  BY TypeParts
<1>1. Quiet' => Quiet
  <2>1. faults' = faults /\ meddled' = meddled
    BY DEF WorkerStep, TakeTask, UseCarriedAccount, Allocate, NoAccountLeft, CrawlSucceeds,
       CrawlFails, ReleaseSuccess, ReleaseFailure, history
  <2> QED
    BY <2>1 DEF Quiet
<1>2. \A v \in Workers : wpc[v] = "allocate" => ~managed[v]
  BY DEF WorkerTyped
<1>3. ASSUME AttemptFails(w) \/ Finish(w)
      PROVE  Leave(w)
  BY <1>3 DEF AttemptFails, Finish
<1>4. ASSUME NEW t \in Tasks, TakeTask(w, t)
      PROVE  CountsRight'
  <2>1. UNCHANGED <<rows, spc, account, managed>>
    BY <1>4 DEF TakeTask, table
  <2> QED
    BY <1>1, <2>1, CountsKept DEF Holders
<1>5. CASE UseCarriedAccount(w)
  <2>1. UNCHANGED <<rows, spc>> /\ ~managed[w] /\ ~managed'[w]
    BY <1>2, <1>5 DEF UseCarriedAccount, table, WorkerTyped
  <2>2. \A v \in Workers \ {w} : account'[v] = account[v] /\ managed'[v] = managed[v]
    BY <1>5 DEF UseCarriedAccount, WorkerTyped
  <2>3. \A k \in Accounts : Holders(k)' = Holders(k)
    BY <2>1, <2>2 DEF Holders
  <2> QED
    BY <1>1, <2>1, <2>3, CountsKept
<1>6. ASSUME NEW k \in Accounts, Allocate(w, k)
      PROVE  CountsRight'
  BY <1>6, CountsAllocated
<1>7. CASE NoAccountLeft(w)
  <2>1. UNCHANGED <<rows, spc>> /\ ~managed[w] /\ Leave(w)
    BY <1>2, <1>3, <1>7 DEF NoAccountLeft, table
  <2> QED
    BY <1>1, <2>1, CountsLeft
<1>8. CASE CrawlSucceeds(w) \/ CrawlFails(w)
  <2>1. UNCHANGED <<rows, spc>>
    BY <1>8 DEF CrawlSucceeds, CrawlFails, table
  <2>2. CASE managed[w]
    <3>1. UNCHANGED <<account, managed>>
      BY <1>8, <2>2 DEF CrawlSucceeds, CrawlFails
    <3> QED
      BY <1>1, <2>1, <3>1, CountsKept DEF Holders
  <2>3. CASE ~managed[w]
    <3>1. Leave(w)
      BY <1>3, <1>8, <2>3 DEF CrawlSucceeds, CrawlFails
    <3> QED
      BY <1>1, <2>1, <2>3, <3>1, CountsLeft
  <2> QED
    BY <2>2, <2>3
<1>9. CASE ReleaseSuccess(w)
  <2>1. ReleaseWrites(w, TRUE) /\ Finish(w)
    BY <1>9, SuccessNeverRaises DEF ReleaseSuccess
  <2>2. account[w] \in Accounts /\ managed[w]
    BY <1>9 DEF ReleaseSuccess, WorkerTyped, Exclusive
  <2>3. \A k \in Accounts : Holders(k)' = Holders(k) \ {w}
    BY <1>3, <2>1, LeaveHolders
  <2> QED
    BY <1>1, <2>1, <2>2, <2>3, CountsReleased
<1>10. CASE ReleaseFailure(w)
  <2>1. account[w] \in Accounts /\ managed[w]
    BY <1>10 DEF ReleaseFailure, WorkerTyped, Exclusive
  <2>2. CASE ReleaseRaises(w, FALSE)
    <3>1. Leave(w) /\ UNCHANGED <<rows, spc>>
      BY <1>3, <1>10, <2>2 DEF ReleaseFailure, ReleaseWrites, table
    <3>2. ~Quiet'
      BY <1>1, <2>2, QuietNeverRaises DEF NothingBrought
    <3> QED
      BY <3>1, <3>2, CountsLeft
  <2>3. CASE ~ReleaseRaises(w, FALSE)
    <3>1. ReleaseWrites(w, FALSE) /\ account' = [account EXCEPT ![w] = Nothing]
          /\ managed' = [managed EXCEPT ![w] = FALSE]
      BY <1>10, <2>3 DEF ReleaseFailure
    <3>2. \A v \in Workers \ {w} : account'[v] = account[v] /\ managed'[v] = managed[v]
      BY <3>1 DEF WorkerTyped
    <3>3. ~managed'[w]
      BY <3>1 DEF WorkerTyped
    <3>4. \A k \in Accounts : Holders(k)' = Holders(k) \ {w}
      BY <3>2, <3>3 DEF Holders
    <3> QED
      BY <1>1, <2>1, <3>1, <3>4, CountsReleased
  <2> QED
    BY <2>2, <2>3
<1> QED
  BY <1>4, <1>5, <1>6, <1>7, <1>8, <1>9, <1>10 DEF WorkerStep

\* Every step keeps CountsRight.
LEMMA CountsRightStep ==
  ASSUME TypeOK, Exclusive, NothingBrought, CountsRight, [Next]_vars
  PROVE  CountsRight'
<1> USE AccountsAssumption DEF AccountsAssumption
<1> SUFFICES ASSUME "sync" \notin Operations
             PROVE  CountsRight'
  BY DEF CountsRight
<1> WorkerTyped /\ TableTyped /\ HistoryTyped
  BY TypeParts
<1>1. ASSUME NEW w \in Workers, DatabaseFails(w) \/ WorkerDies(w)
      PROVE  CountsRight'
  <2>1. UNCHANGED <<rows, spc>> /\ ~Quiet'
    BY <1>1 DEF DatabaseFails, WorkerDies, CanFail, table, Quiet, HistoryTyped
  <2>2. CASE Leave(w)
    BY <2>1, <2>2, CountsLeft
  <2>3. CASE UNCHANGED <<account, managed>>
    BY <2>1, <2>3, CountsKept DEF Holders
  <2> QED
    BY <1>1, <2>2, <2>3 DEF DatabaseFails, WorkerDies, AttemptFails, Finish
<1>2. ASSUME NEW k \in Accounts, NEW row \in Rows, row.count = rows[k].count,
             rows' = [rows EXCEPT ![k] = row], meddled' = TRUE, UNCHANGED <<spc, worker>>
      PROVE  CountsRight'
  <2>1. DOMAIN rows = Accounts
    BY DEF CountsRight
  <2>2. DOMAIN rows' = Accounts /\ \A j \in Accounts : rows'[j].count = rows[j].count
    BY <1>2, <2>1
  <2>3. \A j \in Accounts : Holders(j)' = Holders(j)
    BY <1>2 DEF worker, Holders
  <2>4. ~Quiet'
    BY <1>2 DEF Quiet
  <2> QED
    BY <1>2, <2>2, <2>3, <2>4 DEF CountsRight
<1>3. ASSUME NEW k \in Accounts, UpdateDashboardAccountStatus(k)
      PROVE  CountsRight'
  <2>1. PICK new \in {"available", "disabled"} : rows' = [rows EXCEPT ![k] = Operated(rows[k], new)]
    BY <1>3 DEF UpdateDashboardAccountStatus
  <2>2. rows[k] \in Rows
    BY <1>3 DEF UpdateDashboardAccountStatus, TableTyped, IsTable
  <2>3. Operated(rows[k], new) \in Rows /\ Operated(rows[k], new).count = rows[k].count
    BY <2>2 DEF Operated, Rows, Statuses
  <2> QED
    BY <1>2, <1>3, <2>1, <2>3 DEF UpdateDashboardAccountStatus
<1>4. ASSUME NEW k \in Accounts, NEW new \in Statuses, UpdateAccountStatus(k, new)
      PROVE  CountsRight'
  <2>1. rows' = [rows EXCEPT ![k] = [rows[k] EXCEPT !.status = new]]
    BY <1>4 DEF UpdateAccountStatus
  <2>2. rows[k] \in Rows
    BY <1>4 DEF UpdateAccountStatus, TableTyped, IsTable
  <2>3. [rows[k] EXCEPT !.status = new] \in Rows
        /\ [rows[k] EXCEPT !.status = new].count = rows[k].count
    BY <2>2 DEF Rows
  <2> QED
    BY <1>2, <1>4, <2>1, <2>3 DEF UpdateAccountStatus
<1>5. \A s \in Listings : ~SyncReads(s) /\ ~SyncTruncates(s) /\ ~SyncInserts(s) /\ ~SyncDies(s)
  BY DEF SyncReads, SyncTruncates, SyncInserts, SyncDies, CountsRight
<1>6. CASE UNCHANGED vars
  BY <1>6, CountsKept DEF vars, table, worker, history, Holders, Quiet
<1> QED
  BY <1>1, <1>3, <1>4, <1>5, <1>6, WorkerStepCounts DEF Next

\* CountsRight holds in every reachable state.
LEMMA AlwaysCountsRight == Spec => [](TypeOK /\ CountsRight)
<1>1. Init => CountsRight
  <2> SUFFICES ASSUME Init PROVE CountsRight
    OBVIOUS
  <2>1. \A k \in Accounts : Holders(k) = {}
    BY DEF Init, Holders
  <2>2. \A k \in Accounts : Cardinality(Holders(k)) = 0
    BY <2>1, FS_EmptySet
  <2>3. rows = [k \in Accounts |-> NewRow] /\ \A s \in Listings : spc[s] = "read"
    BY DEF Init
  <2>4. \A k \in Accounts : rows[k].count = 0 /\ rows[k].status = "available"
    BY <2>3 DEF NewRow
  <2> QED
    BY <2>2, <2>3, <2>4, AccountsAssumption DEF CountsRight, AccountsAssumption
<1>2. TypeOK /\ Exclusive /\ NothingBrought /\ CountsRight /\ [Next]_vars => CountsRight'
  BY CountsRightStep
<1> QED
  BY TypeCorrect, AlwaysExclusive, AlwaysNothingBrought, <1>1, <1>2, PTL DEF Spec

\* Whatever operators do to its status and whatever fails, an account's count covers its
\* holders and never passes its capacity.
THEOREM CountAlwaysCoversUse == Spec => []CountCoversUse
<1>1. TypeOK /\ CountsRight => CountCoversUse
  BY DEF CountsRight, CountCoversUse
<1> QED
  BY AlwaysCountsRight, <1>1, PTL

\* Left alone, the count is the number of holders and an account is marked allocated
\* exactly when it is full.
THEOREM CountAlwaysExact == Spec => []CountExact
<1>1. TypeOK /\ CountsRight => CountExact
  BY DEF CountsRight, CountExact, Quiet
<1> QED
  BY AlwaysCountsRight, <1>1, PTL
=============================================================================

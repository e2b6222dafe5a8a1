---------------------------- MODULE DispatchCycle ----------------------------
(***************************************************************************)
(* The cycles of one dispatcher over the pending rows, seen from the rows: *)
(* the query with its limit, the removal of duplicates, the expansion of a *)
(* row into rounds, which may raise, and the publication of each unit with *)
(* the status change that hides the whole task from later queries.         *)
(*                                                                         *)
(* TaskPipeline follows each unit on to the consumers; here the question   *)
(* is which rows a cycle reaches at all.                                   *)
(***************************************************************************)
EXTENDS Integers, Sequences, FiniteSets

CONSTANTS
  Table,       (* rows in query order: task, question, and whether they    *)
               (* lack a value that the expansion requires                 *)
  MaxRounds,   (* MaxRounds of each task as the row has it                 *)
  Limit,       (* --limit                                                  *)
  MaxErrors    (* bound of the model: errors of MySQL or Redis             *)

Rows == DOMAIN Table
RowTasks == {Table[r].task : r \in Rows}

Repeats(q, r) == Table[q].task = Table[r].task /\ Table[q].question = Table[r].question

\* Rows repeat a question of a task when it is linked twice; what they lack is the same.
ASSUME CycleAssumption ==
  /\ Table \in Seq(
       [task : RowTasks, question : {Table[r].question : r \in Rows}, bad : BOOLEAN])
  /\ \A q, r \in Rows : Repeats(q, r) => Table[q].bad = Table[r].bad
  /\ MaxRounds \in [RowTasks -> Int]
  /\ {Limit, MaxErrors} \subseteq Nat

\* A missing number of rounds, or one that is not positive, counts as one.
RoundCount(t) == IF MaxRounds[t] > 0 THEN MaxRounds[t] ELSE 1

Unit(r, n) == [task |-> Table[r].task, question |-> Table[r].question, round |-> n]
UnitsOf(r) == {Unit(r, n) : n \in 1..RoundCount(Table[r].task)}
RowUnits == UNION {UnitsOf(r) : r \in Rows}

VARIABLES
  entered,     (* how many rows have been entered so far                   *)
  started,     (* tasks whose business status has left not-started         *)
  created,     (* units with a row in task_master_status                   *)
  published,   (* how often each unit was pushed                           *)
  todo,        (* rows of this cycle that are still to be dispatched       *)
  round,       (* the round of the first of them that is dispatched        *)
  doing,       (* idle, next, create, push or mark                         *)
  errors,      (* errors so far                                            *)
  offered,     (* history: rows that some cycle fetched                    *)
  dropped      (* history: rows that a cycle fetched and dropped on an error *)

cycleVars == <<entered, started, created, published, todo, round, doing, errors, offered,
               dropped>>

CycleInit ==
  /\ entered = 0
  /\ started = {}
  /\ created = {}
  /\ published = [u \in RowUnits |-> 0]
  /\ todo = {}
  /\ round = 1
  /\ doing = "idle"
  /\ errors = 0
  /\ offered = {}
  /\ dropped = {}

-----------------------------------------------------------------------------

EnterRow ==
  /\ entered < Len(Table)
  /\ entered' = entered + 1
  /\ UNCHANGED <<started, created, published, todo, round, doing, errors, offered, dropped>>

Pending(r) == r <= entered /\ Table[r].task \notin started

\* Fault: one row per task.
SameTask(q, r) == Table[q].task = Table[r].task

\* The key is the task and the question.
SameKey(q, r) == Repeats(q, r)

\* The first Limit rows, whatever tasks they belong to.
LimitedRows ==
  {r \in Rows : Pending(r) /\ Cardinality({q \in 1..(r - 1) : Pending(q)}) < Limit}

\* Those of them that repeat none before them.
FetchedRows == {r \in LimitedRows : \A q \in LimitedRows : q < r => ~SameKey(q, r)}

FetchPendingTasks ==
  /\ doing = "idle"
  /\ FetchedRows # {}
  /\ todo' = FetchedRows
  /\ offered' = offered \cup LimitedRows
  /\ doing' = "next"
  /\ UNCHANGED <<entered, started, created, published, round, errors, dropped>>

\* The row that is expanded and dispatched.
Current == CHOOSE r \in todo : \A q \in todo : r <= q
CurrentUnit == Unit(Current, round)

Raise ==
  /\ doing' = "idle"
  /\ todo' = {}
  /\ round' = 1
  /\ dropped' = dropped \cup todo

\* expand_task: a row without a required value raises out of the whole cycle.
ExpandBadRow ==
  /\ doing = "next"
  /\ todo # {}
  /\ Table[Current].bad
  /\ Raise
  /\ UNCHANGED <<entered, started, created, published, errors, offered>>

ExpandTask ==
  /\ doing = "next"
  /\ todo # {}
  /\ ~Table[Current].bad
  /\ doing' = "create"
  /\ UNCHANGED <<entered, started, created, published, todo, round, errors, offered, dropped>>

CycleEnds ==
  /\ doing = "next"
  /\ todo = {}
  /\ doing' = "idle"
  /\ UNCHANGED <<entered, started, created, published, todo, round, errors, offered, dropped>>

\* The next round of the row, or the next row.
UnitDone ==
  IF round < RoundCount(Table[Current].task)
  THEN round' = round + 1 /\ doing' = "create" /\ UNCHANGED todo
  ELSE round' = 1 /\ doing' = "next" /\ todo' = todo \ {Current}

\* A unit that has a row already is skipped.
CreateOrGet ==
  /\ doing = "create"
  /\ created' = created \cup {CurrentUnit}
  /\ IF CurrentUnit \notin created
     THEN doing' = "push" /\ UNCHANGED <<round, todo>>
     ELSE UnitDone
  /\ UNCHANGED <<entered, started, published, errors, offered, dropped>>

PublishTask ==
  /\ doing = "push"
  /\ published' = [published EXCEPT ![CurrentUnit] = @ + 1]
  /\ doing' = "mark"
  /\ UNCHANGED <<entered, started, created, todo, round, errors, offered, dropped>>

\* The first published unit hides every row of its task from the next query.
MarkBusiness ==
  /\ doing = "mark"
  /\ started' = started \cup {Table[Current].task}
  /\ UnitDone
  /\ UNCHANGED <<entered, created, published, errors, offered, dropped>>

\* MySQL or Redis fails before the statement takes effect.
StatementFails ==
  /\ doing \in {"create", "push", "mark"}
  /\ errors < MaxErrors
  /\ errors' = errors + 1
  /\ Raise
  /\ UNCHANGED <<entered, started, created, published, offered>>

CycleNext ==
  EnterRow \/ FetchPendingTasks \/ ExpandBadRow \/ ExpandTask \/ CycleEnds \/ CreateOrGet
    \/ PublishTask \/ MarkBusiness \/ StatementFails

CycleSpec == CycleInit /\ [][CycleNext]_cycleVars

-----------------------------------------------------------------------------
(* Properties.                                                             *)

\* Type invariant.  Duplicate rows and cycles that failed half-way never publish a
\* unit twice.
CycleTypeOK ==
  /\ entered \in 0..Len(Table)
  /\ started \subseteq RowTasks
  /\ created \subseteq RowUnits
  /\ published \in [RowUnits -> 0..1]
  /\ todo \subseteq 1..entered
  /\ round \in Nat \ {0}
  /\ doing \in {"idle", "next", "create", "push", "mark"}
  /\ doing \in {"create", "push", "mark"} =>
       todo # {} /\ ~Table[Current].bad /\ CurrentUnit \in UnitsOf(Current)
  /\ errors \in 0..MaxErrors
  /\ offered \subseteq 1..entered
  /\ dropped \subseteq offered

StuckBehindBadRow ==
  \A b \in Rows : Table[b].bad /\ Pending(b) =>
    \A r \in Rows : r > b => UnitsOf(r) \cap created = {} \/ \E q \in 1..(b - 1) : Repeats(q, r)

NothingElseLeft ==
  doing = "idle" =>
    \A r \in offered : \A u \in UnitsOf(r) :
      u.task \in started /\ published[u] = 0 => \E q \in dropped : Repeats(q, r)

\* What is left behind is explained.  While a row that raises is pending, nothing
\* after it is ever dispatched but what is also before it: one unusable row starves
\* every later task, in every cycle.  Of a started task, a unit that has not been
\* published belongs to a row that no cycle fetched (cut by the limit, or entered
\* later) or one that a cycle dropped on an error: the removal of duplicates loses
\* nothing.
LeftBehindExplained == StuckBehindBadRow /\ NothingElseLeft

=============================================================================

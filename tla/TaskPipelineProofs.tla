-------------------------- MODULE TaskPipelineProofs --------------------------
(***************************************************************************)
(* Proofs about TaskPipeline, for any number of masters, consumers, units, *)
(* retries, failures and rewrites of the queue. The inductive invariant    *)
(* has four parts: TypeOK; Alone, which says that the copies of a unit are *)
(* never in two places and that a unit without a row is in none; Counted,  *)
(* which ties the retry count or verdict a copy carries to the crawls its  *)
(* unit has really had; and Rowed, which says that whatever a thread works *)
(* on, and whatever a rewrite races with, has a row. Counted needs Alone:  *)
(* a crawl changes what is true of its unit, so no other copy may carry a  *)
(* claim about it. Three more theorems stand on it: failures are followed  *)
(* by dead letters, the pipeline implements UnitLifecycle, and exactly the *)
(* units that a failing thread held are lost.                              *)
(***************************************************************************)
EXTENDS TaskPipeline, TLAPS

\* A group of variables that a step leaves alone keeps its type.
LEMMA UntouchedTyped ==
  ASSUME TypeOK
  PROVE  /\ UNCHANGED tables => TablesTyped'
         /\ UNCHANGED lists => ListsTyped'
         /\ UNCHANGED dispatcher => DispatcherTyped'
         /\ UNCHANGED consumer => ConsumerTyped'
         /\ UNCHANGED listener => ListenerTyped'
         /\ UNCHANGED dashboard => DashboardTyped'
         /\ UNCHANGED history => HistoryTyped'
<1>1. UNCHANGED tables => TablesTyped'
  BY DEF TypeOK, TablesTyped, tables
<1>2. UNCHANGED lists => ListsTyped'
  BY DEF TypeOK, ListsTyped, lists
<1>3. UNCHANGED dispatcher => DispatcherTyped'
  BY DEF TypeOK, DispatcherTyped, dispatcher
<1>4. UNCHANGED consumer => ConsumerTyped'
  BY DEF TypeOK, ConsumerTyped, consumer
<1>5. UNCHANGED listener => ListenerTyped'
  BY DEF TypeOK, ListenerTyped, listener
<1>6. UNCHANGED dashboard => DashboardTyped'
  BY DEF TypeOK, DashboardTyped, dashboard
<1>7. UNCHANGED history => HistoryTyped'
  BY DEF TypeOK, HistoryTyped, history
<1> QED
  BY <1>1, <1>2, <1>3, <1>4, <1>5, <1>6, <1>7

\* Merging a message keeps the messages of different units apart.
LEMMA MergedOnce ==
  ASSUME NEW s \in Seq(Messages), NEW m \in Messages,
         \A i, j \in DOMAIN s : s[i].unit = s[j].unit => i = j
  PROVE  /\ Merged(s, m) \in Seq(Messages)
         /\ \A i, j \in DOMAIN Merged(s, m) :
              Merged(s, m)[i].unit = Merged(s, m)[j].unit => i = j
<1>1. CASE \E i \in DOMAIN s : s[i].unit = m.unit
  <2> DEFINE t == [i \in DOMAIN s |-> IF s[i].unit = m.unit THEN m ELSE s[i]]
  <2>1. Merged(s, m) = t
    BY <1>1 DEF Merged
  <2>2. t \in Seq(Messages) /\ DOMAIN t = DOMAIN s
    OBVIOUS
  <2>3. \A i \in DOMAIN s : t[i].unit = s[i].unit
    OBVIOUS
  <2> QED
    BY <2>1, <2>2, <2>3
<1>2. CASE ~\E i \in DOMAIN s : s[i].unit = m.unit
  <2>1. Merged(s, m) = Append(s, m)
    BY <1>2 DEF Merged
  <2>2. \A i \in DOMAIN Append(s, m) :
          (i \in DOMAIN s /\ Append(s, m)[i] = s[i]) \/ (i = Len(s) + 1 /\ Append(s, m)[i] = m)
    OBVIOUS
  <2> QED
    BY <1>2, <2>1, <2>2
<1> QED
  BY <1>1, <1>2

\* Every step of the pipeline keeps TypeOK.
LEMMA TypeStep == TypeOK /\ [Next]_vars => TypeOK'
<1> SUFFICES ASSUME TypeOK, [Next]_vars PROVE TypeOK'
  OBVIOUS
<1> USE PipelineAssumption DEF PipelineAssumption
<1>1. ASSUME NEW m \in Masters, FetchPendingTasks(m) PROVE TypeOK'
  <2>1. DispatcherTyped'
    BY <1>1 DEF FetchPendingTasks, FetchedUnits, TypeOK, DispatcherTyped, DispatcherSteps,
       dispatcher
  <2> QED
    BY <1>1, <2>1, UntouchedTyped DEF FetchPendingTasks, TypeOK
<1>2. ASSUME NEW m \in Masters, ExpandFails(m) PROVE TypeOK'
  <2>1. DispatcherTyped'
    BY <1>2 DEF ExpandFails, TypeOK, DispatcherTyped, DispatcherSteps, dispatcher
  <2> QED
    BY <1>2, <2>1, UntouchedTyped DEF ExpandFails, TypeOK
<1>3. ASSUME NEW m \in Masters, NEW u \in Units, CreateOrGetTaskRecord(m, u) PROVE TypeOK'
  <2>1. TablesTyped'
    BY <1>3 DEF CreateOrGetTaskRecord, WasCreated, IsNext, LoopStep, TypeOK, TablesTyped,
       Statuses, Finished, BusinessStatuses, tables, DispatcherTyped
  <2>2. DispatcherTyped'
    BY <1>3 DEF CreateOrGetTaskRecord, WasCreated, IsNext, LoopStep, TypeOK,
       DispatcherTyped, DispatcherSteps, dispatcher
  <2> QED
    BY <1>3, <2>1, <2>2, UntouchedTyped DEF CreateOrGetTaskRecord, TypeOK
<1>4. ASSUME NEW m \in Masters, PublishPush(m) PROVE TypeOK'
  <2>1. ListsTyped'
    BY <1>4 DEF PublishPush, TypeOK, ListsTyped, lists, DispatcherTyped, Messages
  <2>2. DispatcherTyped'
    BY <1>4 DEF PublishPush, TypeOK, DispatcherTyped, DispatcherSteps, dispatcher
  <2> QED
    BY <1>4, <2>1, <2>2, UntouchedTyped DEF PublishPush, TypeOK
<1>5. ASSUME NEW m \in Masters, PublishMarkQueued(m) PROVE TypeOK'
  <2>1. TablesTyped'
    BY <1>5 DEF PublishMarkQueued, TypeOK, TablesTyped, Statuses, Finished,
       BusinessStatuses, tables, DispatcherTyped
  <2>2. DispatcherTyped'
    BY <1>5 DEF PublishMarkQueued, TypeOK, DispatcherTyped, DispatcherSteps, dispatcher
  <2> QED
    BY <1>5, <2>1, <2>2, UntouchedTyped DEF PublishMarkQueued, TypeOK
<1>6. ASSUME NEW m \in Masters, PublishMarkBusiness(m) PROVE TypeOK'
  <2>1. TablesTyped'
    BY <1>6 DEF PublishMarkBusiness, LoopStep, TypeOK, TablesTyped, Statuses, Finished,
       BusinessStatuses, tables, DispatcherTyped
  <2>2. DispatcherTyped'
    BY <1>6 DEF PublishMarkBusiness, LoopStep, TypeOK, DispatcherTyped, DispatcherSteps,
       dispatcher
  <2> QED
    BY <1>6, <2>1, <2>2, UntouchedTyped DEF PublishMarkBusiness, TypeOK
<1>7. ASSUME NEW c \in Consumers, PopMessage(c) PROVE TypeOK'
  <2>1. ListsTyped'
    BY <1>7 DEF PopMessage, TypeOK, ListsTyped, lists
  <2>2. ConsumerTyped'
    BY <1>7 DEF PopMessage, TypeOK, ConsumerTyped, ConsumerSteps, consumer, ListsTyped
  <2> QED
    BY <1>7, <2>1, <2>2, UntouchedTyped DEF PopMessage, TypeOK
<1>8. ASSUME NEW c \in Consumers, MarkRunning(c) PROVE TypeOK'
  <2>1. TablesTyped'
    BY <1>8 DEF MarkRunning, TypeOK, TablesTyped, Statuses, Finished, BusinessStatuses,
       tables, ConsumerTyped, Messages
  <2>2. ConsumerTyped'
    BY <1>8 DEF MarkRunning, TypeOK, ConsumerTyped, ConsumerSteps, consumer
  <2> QED
    BY <1>8, <2>1, <2>2, UntouchedTyped DEF MarkRunning, TypeOK
<1>9. ASSUME NEW c \in Consumers, Execute(c) PROVE TypeOK'
  <2>1. ConsumerTyped'
    BY <1>9 DEF Execute, TypeOK, ConsumerTyped, ConsumerSteps, consumer
  <2>2. HistoryTyped'
    BY <1>9 DEF Execute, TypeOK, HistoryTyped, history, ConsumerTyped, Messages
  <2> QED
    BY <1>9, <2>1, <2>2, UntouchedTyped DEF Execute, TypeOK
<1>10. ASSUME NEW c \in Consumers, RetryPush(c) PROVE TypeOK'
  <2>1. ListsTyped'
    <3>1. message[c] \in Messages
      BY <1>10 DEF RetryPush, TypeOK, ConsumerTyped
    <3>2. [message[c] EXCEPT !.retry_count = @ + 1] \in Messages
      BY <3>1 DEF Messages
    <3> QED
      BY <1>10, <3>2 DEF RetryPush, TypeOK, ListsTyped
  <2>2. ConsumerTyped'
    BY <1>10 DEF RetryPush, TypeOK, ConsumerTyped, ConsumerSteps, consumer
  <2> QED
    BY <1>10, <2>1, <2>2, UntouchedTyped DEF RetryPush, TypeOK
<1>11. ASSUME NEW c \in Consumers, RetryMarkQueued(c) PROVE TypeOK'
  <2>1. TablesTyped'
    BY <1>11 DEF RetryMarkQueued, TypeOK, TablesTyped, Statuses, Finished, BusinessStatuses,
       tables, ConsumerTyped, Messages
  <2>2. ConsumerTyped'
    BY <1>11 DEF RetryMarkQueued, TypeOK, ConsumerTyped, ConsumerSteps, consumer
  <2> QED
    BY <1>11, <2>1, <2>2, UntouchedTyped DEF RetryMarkQueued, TypeOK
<1>12. ASSUME NEW c \in Consumers, PushResult(c) PROVE TypeOK'
  <2>1. ListsTyped'
    <3>1. [unit |-> message[c].unit, success |-> success[c]] \in Results
      BY <1>12 DEF PushResult, TypeOK, ConsumerTyped, Messages, Results
    <3> QED
      BY <1>12, <3>1 DEF PushResult, TypeOK, ListsTyped
  <2>2. ConsumerTyped'
    BY <1>12 DEF PushResult, AfterReport, HeldAfterReport, TypeOK, ConsumerTyped,
       ConsumerSteps, consumer
  <2> QED
    BY <1>12, <2>1, <2>2, UntouchedTyped DEF PushResult, TypeOK
<1>13. ASSUME NEW c \in Consumers, PushDeadLetter(c) PROVE TypeOK'
  <2>1. ListsTyped'
    BY <1>13 DEF PushDeadLetter, TypeOK, ListsTyped, lists, ConsumerTyped, Messages
  <2>2. ConsumerTyped'
    BY <1>13 DEF PushDeadLetter, TypeOK, ConsumerTyped, ConsumerSteps, consumer
  <2> QED
    BY <1>13, <2>1, <2>2, UntouchedTyped DEF PushDeadLetter, TypeOK
<1>14. ASSUME NEW m \in Masters, TakeResult(m) PROVE TypeOK'
  <2>1. ListsTyped'
    BY <1>14 DEF TakeResult, TypeOK, ListsTyped, lists
  <2>2. ListenerTyped'
    BY <1>14 DEF TakeResult, TypeOK, ListenerTyped, ListenerSteps, listener, ListsTyped
  <2> QED
    BY <1>14, <2>1, <2>2, UntouchedTyped DEF TakeResult, TypeOK
<1>15. ASSUME NEW m \in Masters, StoreResult(m) PROVE TypeOK'
  <2>1. TablesTyped'
    BY <1>15 DEF StoreResult, Verdict, TypeOK, TablesTyped, Statuses, Finished,
       BusinessStatuses, tables, ListenerTyped, Results
  <2>2. ListenerTyped'
    BY <1>15 DEF StoreResult, Verdict, TypeOK, ListenerTyped, ListenerSteps, listener
  <2>3. HistoryTyped'
    BY <1>15 DEF StoreResult, Verdict, TypeOK, HistoryTyped, history, ListenerTyped, Results
  <2> QED
    BY <1>15, <2>1, <2>2, <2>3, UntouchedTyped DEF StoreResult, TypeOK
<1>16. ASSUME NEW m \in Masters, CountUnfinished(m) PROVE TypeOK'
  <2>1. ListenerTyped'
    BY <1>16 DEF CountUnfinished, CountStep, TypeOK, ListenerTyped, ListenerSteps, listener
  <2> QED
    BY <1>16, <2>1, UntouchedTyped DEF CountUnfinished, TypeOK, CountStep
<1>17. ASSUME NEW m \in Masters, CountFailed(m) PROVE TypeOK'
  <2>1. ListenerTyped'
    BY <1>17 DEF CountFailed, CountStep, TypeOK, ListenerTyped, ListenerSteps, listener
  <2> QED
    BY <1>17, <2>1, UntouchedTyped DEF CountFailed, TypeOK, CountStep
<1>18. ASSUME NEW m \in Masters, CloseBusinessTask(m) PROVE TypeOK'
  <2>1. TablesTyped'
    BY <1>18 DEF CloseBusinessTask, TypeOK, TablesTyped, Statuses, Finished,
       BusinessStatuses, tables, ListenerTyped, Results
  <2>2. ListenerTyped'
    BY <1>18 DEF CloseBusinessTask, TypeOK, ListenerTyped, ListenerSteps, listener
  <2> QED
    BY <1>18, <2>1, <2>2, UntouchedTyped DEF CloseBusinessTask, TypeOK
<1>19. ASSUME NEW m \in Masters, DispatchCycleFails(m) PROVE TypeOK'
  <2>1. DispatcherTyped'
    BY <1>19 DEF DispatchCycleFails, CanFail, TypeOK, DispatcherTyped, DispatcherSteps,
       dispatcher
  <2>2. HistoryTyped'
    BY <1>19 DEF DispatchCycleFails, Strike, HeldByDispatcher, TypeOK, HistoryTyped
  <2> QED
    BY <1>19, <2>1, <2>2, UntouchedTyped DEF DispatchCycleFails, TypeOK, CanFail
<1>20. ASSUME NEW m \in Masters, ListenerDies(m) PROVE TypeOK'
  <2>1. ListenerTyped'
    BY <1>20 DEF ListenerDies, CanFail, TypeOK, ListenerTyped, ListenerSteps, listener
  <2>2. HistoryTyped'
    BY <1>20 DEF ListenerDies, Strike, HeldByListener, TypeOK, HistoryTyped
  <2> QED
    BY <1>20, <2>1, <2>2, UntouchedTyped DEF ListenerDies, TypeOK, CanFail
<1>21. ASSUME NEW m \in Masters, MasterRestarts(m) PROVE TypeOK'
  <2>1. DispatcherTyped'
    BY <1>21 DEF MasterRestarts, CanFail, TypeOK, DispatcherTyped, DispatcherSteps, dispatcher
  <2>2. ListenerTyped'
    BY <1>21 DEF MasterRestarts, CanFail, TypeOK, ListenerTyped, ListenerSteps, listener
  <2>3. HistoryTyped'
    BY <1>21 DEF MasterRestarts, Strike, HeldByDispatcher, HeldByListener, TypeOK, HistoryTyped
  <2> QED
    BY <1>21, <2>1, <2>2, <2>3, UntouchedTyped DEF MasterRestarts, TypeOK, CanFail
<1>22. ASSUME NEW c \in Consumers, ConsumerDies(c) PROVE TypeOK'
  <2>1. ConsumerTyped'
    BY <1>22 DEF ConsumerDies, CanFail, TypeOK, ConsumerTyped, ConsumerSteps, consumer
  <2>2. HistoryTyped'
    BY <1>22 DEF ConsumerDies, Strike, HeldByConsumer, TypeOK, HistoryTyped, ConsumerTyped,
       Messages
  <2> QED
    BY <1>22, <2>1, <2>2, UntouchedTyped DEF ConsumerDies, TypeOK, CanFail
<1>23. ASSUME NEW c \in Consumers, ConsumerStarts(c) PROVE TypeOK'
  <2>1. ConsumerTyped'
    BY <1>23 DEF ConsumerStarts, TypeOK, ConsumerTyped, ConsumerSteps, consumer
  <2> QED
    BY <1>23, <2>1, UntouchedTyped DEF ConsumerStarts, TypeOK
<1>24. ASSUME NEW u \in Units, CancelTask(u) PROVE TypeOK'
  <2>1. TablesTyped'
    BY <1>24 DEF CancelTask, TypeOK, TablesTyped, Statuses, Finished, BusinessStatuses, tables
  <2> QED
    BY <1>24, <2>1, UntouchedTyped DEF CancelTask, TypeOK
<1>25. ASSUME NEW u \in Units, CreateTask(u) PROVE TypeOK'
  <2>1. TablesTyped'
    BY <1>25 DEF CreateTask, TypeOK, TablesTyped, Statuses, Finished, BusinessStatuses, tables
  <2> QED
    BY <1>25, <2>1, UntouchedTyped DEF CreateTask, TypeOK
<1>26. CASE ClearQueue
  <2>1. ListsTyped'
    <3>1. <<>> \in Seq(Messages) /\ <<>> \in Seq(Results) /\ {} \subseteq Units
      OBVIOUS
    <3> QED
      BY <1>26, <3>1 DEF ClearQueue, TypeOK, ListsTyped
  <2> QED
    BY <1>26, <2>1, UntouchedTyped DEF ClearQueue, TypeOK
<1>27. CASE PauseOrResume
  <2>1. DashboardTyped'
    BY <1>27 DEF PauseOrResume, TypeOK, DashboardTyped
  <2> QED
    BY <1>27, <2>1, UntouchedTyped DEF PauseOrResume, TypeOK
<1>28. CASE UNCHANGED vars
  BY <1>28, UntouchedTyped DEF vars, TypeOK
<1>29. CASE StartRewrite
  <2>1. DashboardTyped'
    BY <1>29 DEF StartRewrite, TypeOK, DashboardTyped, ListsTyped, RewriteSteps
  <2> QED
    BY <1>29, <2>1, UntouchedTyped DEF StartRewrite, TypeOK
<1>30. CASE ReadMessage
  <2>1. copied' \in Seq(Messages) /\ \A i, j \in DOMAIN copied' :
                                       copied'[i].unit = copied'[j].unit => i = j
    <3>1. CASE position < Len(queue)
      <4>1. queue[position + 1] \in Messages
        BY <3>1 DEF TypeOK, ListsTyped, DashboardTyped
      <4> QED
        BY <1>30, <3>1, <4>1, MergedOnce DEF ReadMessage, TypeOK, DashboardTyped
    <3>2. CASE ~(position < Len(queue))
      BY <1>30, <3>2 DEF ReadMessage, TypeOK, DashboardTyped
    <3> QED
      BY <3>1, <3>2
  <2>2. DashboardTyped'
    BY <1>30, <2>1 DEF ReadMessage, TypeOK, DashboardTyped, RewriteSteps
  <2> QED
    BY <1>30, <2>2, UntouchedTyped DEF ReadMessage, TypeOK
<1>31. CASE DeleteQueue
  <2>1. ListsTyped'
    BY <1>31 DEF DeleteQueue, TypeOK, ListsTyped
  <2>2. DashboardTyped'
    BY <1>31 DEF DeleteQueue, TypeOK, DashboardTyped, RewriteSteps
  <2>3. HistoryTyped'
    BY <1>31 DEF DeleteQueue, Outdated, TypeOK, HistoryTyped
  <2> QED
    BY <1>31, <2>1, <2>2, <2>3, UntouchedTyped DEF DeleteQueue, TypeOK
<1>32. CASE PushBack
  <2>1. copied # <<>> /\ copied \in Seq(Messages)
    BY <1>32 DEF PushBack, TypeOK, DashboardTyped
  <2>2. /\ Head(copied) \in Messages
        /\ Tail(copied) \in Seq(Messages)
        /\ \A i \in DOMAIN Tail(copied) :
             i + 1 \in DOMAIN copied /\ Tail(copied)[i] = copied[i + 1]
    BY <2>1
  <2>3. ListsTyped'
    BY <1>32, <2>2 DEF PushBack, TypeOK, ListsTyped
  <2>4. \A i, j \in DOMAIN copied' : copied'[i].unit = copied'[j].unit => i = j
    <3> SUFFICES ASSUME NEW i \in DOMAIN Tail(copied), NEW j \in DOMAIN Tail(copied),
                        Tail(copied)[i].unit = Tail(copied)[j].unit
                 PROVE  i = j
      BY <1>32 DEF PushBack
    <3>1. i + 1 = j + 1
      BY <2>2 DEF TypeOK, DashboardTyped
    <3>2. i \in Nat /\ j \in Nat
      BY <2>2
    <3> QED
      BY <3>1, <3>2
  <2>5. DashboardTyped'
    BY <1>32, <2>2, <2>4 DEF PushBack, TypeOK, DashboardTyped, RewriteSteps
  <2> QED
    BY <1>32, <2>3, <2>5, UntouchedTyped DEF PushBack, TypeOK
<1>33. CASE RewriteFails
  <2>1. DashboardTyped'
    BY <1>33 DEF RewriteFails, TypeOK, DashboardTyped, RewriteSteps
  <2>2. HistoryTyped'
    BY <1>33 DEF RewriteFails, Strike, HeldByRewrite, TypeOK, HistoryTyped
  <2> QED
    BY <1>33, <2>1, <2>2, UntouchedTyped DEF RewriteFails, TypeOK, CanFail
<1> QED
  BY <1>1, <1>2, <1>3, <1>4, <1>5, <1>6, <1>7, <1>8, <1>9, <1>10, <1>11, <1>12, <1>13,
     <1>14, <1>15, <1>16, <1>17, <1>18, <1>19, <1>20, <1>21, <1>22, <1>23, <1>24, <1>25,
     <1>26, <1>27, <1>28, <1>29, <1>30, <1>31, <1>32, <1>33
  DEF Next, DispatcherStep, ConsumerStep, ListenerStep, RewriteStep

-----------------------------------------------------------------------------
(* One copy of a unit.                                                     *)

\* A unit is in at most one place of each kind, ...
OnePlaceOfAKind ==
  \A u \in Units :
    /\ \A m, n \in Masters : DispatcherHas(m, u) /\ DispatcherHas(n, u) => m = n
    /\ \A i, j \in Nat : QueueHas(i, u) /\ QueueHas(j, u) => i = j
    /\ \A i, j \in Nat : RewriteHas(i, u) /\ RewriteHas(j, u) => i = j
    /\ \A c, d \in Consumers : ConsumerHas(c, u) /\ ConsumerHas(d, u) => c = d
    /\ \A i, j \in Nat : ResultsHave(i, u) /\ ResultsHave(j, u) => i = j
    /\ \A m, n \in Masters : ListenerHas(m, u) /\ ListenerHas(n, u) => m = n

\* ... and in places of one kind only.
OneKindOfPlace ==
  \A u \in Units :
    /\ \A m \in Masters : DispatcherHas(m, u) =>
         /\ \A i \in Nat : ~QueueHas(i, u) /\ ~RewriteHas(i, u) /\ ~ResultsHave(i, u)
         /\ \A c \in Consumers : ~ConsumerHas(c, u)
         /\ \A n \in Masters : ~ListenerHas(n, u)
    /\ \A i \in Nat : QueueHas(i, u) =>
         /\ \A j \in Nat : ~RewriteHas(j, u) /\ ~ResultsHave(j, u)
         /\ \A c \in Consumers : ~ConsumerHas(c, u)
         /\ \A m \in Masters : ~ListenerHas(m, u)
    /\ \A i \in Nat : RewriteHas(i, u) =>
         /\ \A j \in Nat : ~ResultsHave(j, u)
         /\ \A c \in Consumers : ~ConsumerHas(c, u)
         /\ \A m \in Masters : ~ListenerHas(m, u)
    /\ \A c \in Consumers : ConsumerHas(c, u) =>
         /\ \A i \in Nat : ~ResultsHave(i, u)
         /\ \A m \in Masters : ~ListenerHas(m, u)
    /\ \A i \in Nat : ResultsHave(i, u) =>
         \A m \in Masters : ~ListenerHas(m, u)

\* A unit without a row is nowhere: the unique key admits it only once.
RowBeforeCopy ==
  \A u \in Units : status[u] = "absent" =>
    /\ \A m \in Masters : ~DispatcherHas(m, u) /\ ~ListenerHas(m, u)
    /\ \A i \in Nat : ~QueueHas(i, u) /\ ~RewriteHas(i, u) /\ ~ResultsHave(i, u)
    /\ \A c \in Consumers : ~ConsumerHas(c, u)

Alone == OnePlaceOfAKind /\ OneKindOfPlace /\ RowBeforeCopy

\* A step that takes no unit anywhere new, and deletes no row, keeps all of it.
NoNewPlace ==
  \A u \in Units :
    /\ \A m \in Masters : DispatcherHas(m, u)' => DispatcherHas(m, u)
    /\ \A i \in Nat : QueueHas(i, u)' => QueueHas(i, u)
    /\ \A i \in Nat : RewriteHas(i, u)' => RewriteHas(i, u)
    /\ \A c \in Consumers : ConsumerHas(c, u)' => ConsumerHas(c, u)
    /\ \A i \in Nat : ResultsHave(i, u)' => ResultsHave(i, u)
    /\ \A m \in Masters : ListenerHas(m, u)' => ListenerHas(m, u)

RowsStay == \A u \in Units : status'[u] = "absent" => status[u] = "absent"

\* A unit that was alone in its place stays alone if it goes nowhere new.
LEMMA AloneKept ==
  ASSUME Alone, NoNewPlace, RowsStay
  PROVE  Alone'
<1>1. OnePlaceOfAKind'
  BY DEF Alone, NoNewPlace, OnePlaceOfAKind
<1>2. OneKindOfPlace'
  BY DEF Alone, NoNewPlace, OneKindOfPlace
<1>3. RowBeforeCopy'
  BY DEF Alone, NoNewPlace, RowsStay, RowBeforeCopy
<1> QED
  BY <1>1, <1>2, <1>3 DEF Alone

\* A thread or list that a step leaves alone holds the units it held, and none that it
\* did not hold when the step is a rewrite that raced with some.
LEMMA UntouchedPlaces ==
  ASSUME raced \subseteq raced'
  PROVE
  /\ UNCHANGED dispatcher =>
          \A m \in Masters, u \in Units : DispatcherHas(m, u)' => DispatcherHas(m, u)
  /\ UNCHANGED queue => \A i \in Nat, u \in Units : QueueHas(i, u)' => QueueHas(i, u)
  /\ UNCHANGED <<rstep, copied>> =>
          \A i \in Nat, u \in Units : RewriteHas(i, u)' => RewriteHas(i, u)
  /\ UNCHANGED consumer =>
          \A c \in Consumers, u \in Units : ConsumerHas(c, u)' => ConsumerHas(c, u)
  /\ UNCHANGED results => \A i \in Nat, u \in Units : ResultsHave(i, u)' => ResultsHave(i, u)
  /\ UNCHANGED listener =>
          \A m \in Masters, u \in Units : ListenerHas(m, u)' => ListenerHas(m, u)
<1>1. UNCHANGED dispatcher =>
              \A m \in Masters, u \in Units : DispatcherHas(m, u)' => DispatcherHas(m, u)
  BY DEF dispatcher, DispatcherHas
<1>2. UNCHANGED queue => \A i \in Nat, u \in Units : QueueHas(i, u)' => QueueHas(i, u)
  BY DEF QueueHas
<1>3. UNCHANGED consumer =>
              \A c \in Consumers, u \in Units : ConsumerHas(c, u)' => ConsumerHas(c, u)
  BY DEF consumer, ConsumerHas
<1>4. UNCHANGED results => \A i \in Nat, u \in Units : ResultsHave(i, u)' => ResultsHave(i, u)
  BY DEF ResultsHave
<1>5. UNCHANGED listener =>
              \A m \in Masters, u \in Units : ListenerHas(m, u)' => ListenerHas(m, u)
  BY DEF listener, ListenerHas
<1>6. UNCHANGED <<rstep, copied>> =>
              \A i \in Nat, u \in Units : RewriteHas(i, u)' => RewriteHas(i, u)
  BY DEF RewriteHas
<1> QED
  BY <1>1, <1>2, <1>3, <1>4, <1>5, <1>6

\* Units stay raced, and only one step of a rewrite makes them so; only steps of a
\* rewrite touch what it has read.
LEMMA RacedStay ==
  ASSUME [Next]_vars
  PROVE  /\ raced \subseteq raced'
         /\ ~DeleteQueue => UNCHANGED raced
         /\ ~RewriteStep /\ ~RewriteFails => UNCHANGED <<rstep, copied>>
BY DEF Next, vars, DispatcherStep, ListenerStep, ConsumerStep, RewriteStep, FetchPendingTasks,
   ExpandFails, CreateOrGetTaskRecord, PublishPush, PublishMarkQueued, PublishMarkBusiness,
   PopMessage, MarkRunning, Execute, RetryPush, RetryMarkQueued, PushResult, PushDeadLetter,
   TakeResult, StoreResult, CountStep, CountUnfinished, CountFailed, CloseBusinessTask,
   DispatchCycleFails, ListenerDies, MasterRestarts, ConsumerDies, Strike, ConsumerStarts,
   CancelTask, CreateTask, ClearQueue, PauseOrResume, StartRewrite, ReadMessage, DeleteQueue,
   PushBack, RewriteFails, history, dashboard

\* What a rewrite pushes back was in the queue that it deleted, unless it raced.
LEMMA PushedBackWasThere ==
  ASSUME TypeOK, DeleteQueue, NEW i \in Nat, NEW u \in Units, RewriteHas(i, u)'
  PROVE  \E j \in Nat : /\ QueueHas(j, u)
                        /\ queue[j] = copied[i]
<1>1. i \in DOMAIN copied /\ copied[i].unit = u /\ u \notin raced /\ u \notin Outdated
  BY DEF DeleteQueue, RewriteHas
<1>2. copied[i] \in Elements(queue)
  BY <1>1 DEF Outdated, Elements
<1>3. PICK j \in DOMAIN queue : queue[j] = copied[i]
  BY <1>2 DEF Elements
<1>4. j \in Nat
  BY <1>3 DEF TypeOK, ListsTyped
<1> QED
  BY <1>1, <1>3, <1>4 DEF QueueHas

\* Every step of the pipeline keeps Alone.
LEMMA AloneStep ==
  ASSUME TypeOK, TypeOK', Alone, [Next]_vars
  PROVE  Alone'
<1> USE RacedStay
<1>1. ASSUME NEW m \in Masters, FetchPendingTasks(m) PROVE Alone'
  <2>1. NoNewPlace
    <3>1. \A n \in Masters, v \in Units : DispatcherHas(n, v)' => DispatcherHas(n, v)
      BY <1>1 DEF FetchPendingTasks, TypeOK, DispatcherTyped, DispatcherHas
    <3> QED
      BY <1>1, <3>1, UntouchedPlaces DEF FetchPendingTasks, lists, NoNewPlace, history,
         dashboard
  <2>2. RowsStay
    BY <1>1 DEF FetchPendingTasks, RowsStay, tables
  <2> QED
    BY <2>1, <2>2, AloneKept
<1>2. ASSUME NEW m \in Masters, ExpandFails(m) PROVE Alone'
  <2>1. NoNewPlace
    <3>1. \A n \in Masters, v \in Units : DispatcherHas(n, v)' => DispatcherHas(n, v)
      BY <1>2 DEF ExpandFails, TypeOK, DispatcherTyped, DispatcherHas
    <3> QED
      BY <1>2, <3>1, UntouchedPlaces DEF ExpandFails, lists, NoNewPlace, history, dashboard
  <2>2. RowsStay
    BY <1>2 DEF ExpandFails, RowsStay, tables
  <2> QED
    BY <2>1, <2>2, AloneKept
<1>3. ASSUME NEW m \in Masters, NEW u \in Units, CreateOrGetTaskRecord(m, u) PROVE Alone'
  <2>1. CASE ~WasCreated(u)
    <3>1. NoNewPlace
      <4>1. \A n \in Masters, v \in Units : DispatcherHas(n, v)' => DispatcherHas(n, v)
        BY <1>3, <2>1 DEF CreateOrGetTaskRecord, LoopStep, TypeOK, DispatcherTyped,
           DispatcherHas, history
      <4> QED
        BY <1>3, <4>1, UntouchedPlaces DEF CreateOrGetTaskRecord, NoNewPlace, lists, dashboard
    <3>2. RowsStay
      BY <1>3, <2>1 DEF CreateOrGetTaskRecord, RowsStay
    <3> QED
      BY <3>1, <3>2, AloneKept
  <2>2. CASE WasCreated(u)
    <3>1. \A n \in Masters, v \in Units :
            DispatcherHas(n, v)' => DispatcherHas(n, v) \/ (n = m /\ v = u)
      BY <1>3, <2>2 DEF CreateOrGetTaskRecord, TypeOK, DispatcherTyped, DispatcherHas, history,
         dashboard
    <3>2. /\ \A i \in Nat, v \in Units : QueueHas(i, v)' => QueueHas(i, v)
          /\ \A i \in Nat, v \in Units : RewriteHas(i, v)' => RewriteHas(i, v)
          /\ \A c \in Consumers, v \in Units : ConsumerHas(c, v)' => ConsumerHas(c, v)
          /\ \A i \in Nat, v \in Units : ResultsHave(i, v)' => ResultsHave(i, v)
          /\ \A n \in Masters, v \in Units : ListenerHas(n, v)' => ListenerHas(n, v)
      BY <1>3, UntouchedPlaces DEF CreateOrGetTaskRecord, lists, history, dashboard
    <3>3. status[u] = "absent" /\ \A v \in Units :
                  status'[v] = "absent" => v # u /\ status[v] = "absent"
      BY <1>3, <2>2 DEF CreateOrGetTaskRecord, WasCreated, TypeOK, TablesTyped
    <3>4. /\ \A n \in Masters : ~DispatcherHas(n, u) /\ ~ListenerHas(n, u)
          /\ \A i \in Nat : ~QueueHas(i, u) /\ ~RewriteHas(i, u) /\ ~ResultsHave(i, u)
          /\ \A c \in Consumers : ~ConsumerHas(c, u)
      BY <3>3 DEF Alone, RowBeforeCopy
    <3>5. OnePlaceOfAKind'
      BY <3>1, <3>2, <3>4 DEF Alone, OnePlaceOfAKind
    <3>6. OneKindOfPlace'
      BY <3>1, <3>2, <3>4 DEF Alone, OneKindOfPlace
    <3>7. RowBeforeCopy'
      BY <3>1, <3>2, <3>3 DEF Alone, RowBeforeCopy
    <3> QED
      BY <3>5, <3>6, <3>7 DEF Alone
  <2> QED
    BY <2>1, <2>2
<1>4. ASSUME NEW m \in Masters, PublishPush(m) PROVE Alone'
  <2>1. \A n \in Masters, v \in Units : DispatcherHas(n, v)' => DispatcherHas(n, v) /\ n # m
    BY <1>4 DEF PublishPush, TypeOK, DispatcherTyped, DispatcherHas, history, dashboard
  <2>2. \A i \in Nat, v \in Units : QueueHas(i, v)' =>
        QueueHas(i, v) \/ (i = Len(queue) + 1 /\ DispatcherHas(m, v))
    BY <1>4 DEF PublishPush, TypeOK, ListsTyped, DispatcherTyped, Messages, DispatcherHas,
       QueueHas, history, dashboard
  <2>3. \A v \in Units : ~QueueHas(Len(queue) + 1, v)
    BY DEF TypeOK, ListsTyped, QueueHas, history, dashboard
  <2>4. /\ \A d \in Consumers, v \in Units : ConsumerHas(d, v)' => ConsumerHas(d, v)
        /\ \A i \in Nat, v \in Units : RewriteHas(i, v)' => RewriteHas(i, v)
        /\ \A i \in Nat, v \in Units : ResultsHave(i, v)' => ResultsHave(i, v)
        /\ \A n \in Masters, v \in Units : ListenerHas(n, v)' => ListenerHas(n, v)
    BY <1>4, UntouchedPlaces DEF PublishPush, lists, history, dashboard
  <2>5. RowsStay
    BY <1>4 DEF PublishPush, RowsStay, tables
  <2>6. OnePlaceOfAKind'
    BY <2>1, <2>2, <2>3, <2>4 DEF Alone, OnePlaceOfAKind, OneKindOfPlace
  <2>7. OneKindOfPlace'
    BY <2>1, <2>2, <2>3, <2>4 DEF Alone, OnePlaceOfAKind, OneKindOfPlace
  <2>8. RowBeforeCopy'
    BY <2>1, <2>2, <2>3, <2>4, <2>5 DEF Alone, RowsStay, RowBeforeCopy
  <2> QED
    BY <2>6, <2>7, <2>8 DEF Alone
<1>5. ASSUME NEW m \in Masters, PublishMarkQueued(m) PROVE Alone'
  <2>1. NoNewPlace
    <3>1. \A n \in Masters, v \in Units : DispatcherHas(n, v)' => DispatcherHas(n, v)
      BY <1>5 DEF PublishMarkQueued, TypeOK, DispatcherTyped, DispatcherHas
    <3> QED
      BY <1>5, <3>1, UntouchedPlaces DEF PublishMarkQueued, lists, NoNewPlace, history,
         dashboard
  <2>2. RowsStay
    BY <1>5 DEF PublishMarkQueued, RowsStay, TypeOK, TablesTyped
  <2> QED
    BY <2>1, <2>2, AloneKept
<1>6. ASSUME NEW m \in Masters, PublishMarkBusiness(m) PROVE Alone'
  <2>1. NoNewPlace
    <3>1. \A n \in Masters, v \in Units : DispatcherHas(n, v)' => DispatcherHas(n, v)
      BY <1>6 DEF PublishMarkBusiness, LoopStep, TypeOK, DispatcherTyped, DispatcherHas
    <3> QED
      BY <1>6, <3>1, UntouchedPlaces DEF PublishMarkBusiness, lists, NoNewPlace, history,
         dashboard
  <2>2. RowsStay
    BY <1>6 DEF PublishMarkBusiness, RowsStay, tables
  <2> QED
    BY <2>1, <2>2, AloneKept
<1>7. ASSUME NEW c \in Consumers, PopMessage(c) PROVE Alone'
  <2>1. \A i \in Nat, v \in Units :
                QueueHas(i, v)' => i # 0 /\ i + 1 \in Nat /\ QueueHas(i + 1, v)
    BY <1>7 DEF PopMessage, TypeOK, ListsTyped, QueueHas, history, dashboard
  <2>2. \A d \in Consumers, v \in Units : ConsumerHas(d, v)' =>
        (d # c /\ ConsumerHas(d, v)) \/ (d = c /\ QueueHas(1, v))
    BY <1>7 DEF PopMessage, TypeOK, ListsTyped, ConsumerTyped, QueueHas, ConsumerHas, history,
       dashboard
  <2>3. /\ \A n \in Masters, v \in Units : DispatcherHas(n, v)' => DispatcherHas(n, v)
        /\ \A i \in Nat, v \in Units : RewriteHas(i, v)' => RewriteHas(i, v)
        /\ \A i \in Nat, v \in Units : ResultsHave(i, v)' => ResultsHave(i, v)
        /\ \A n \in Masters, v \in Units : ListenerHas(n, v)' => ListenerHas(n, v)
    BY <1>7, UntouchedPlaces DEF PopMessage, lists, history, dashboard
  <2>4. RowsStay
    BY <1>7 DEF PopMessage, RowsStay, tables
  <2>5. OnePlaceOfAKind'
    BY <2>1, <2>2, <2>3 DEF Alone, OnePlaceOfAKind, OneKindOfPlace
  <2>6. OneKindOfPlace'
    BY <2>1, <2>2, <2>3 DEF Alone, OnePlaceOfAKind, OneKindOfPlace
  <2>7. RowBeforeCopy'
    BY <2>1, <2>2, <2>3, <2>4 DEF Alone, RowsStay, RowBeforeCopy
  <2> QED
    BY <2>5, <2>6, <2>7 DEF Alone
<1>8. ASSUME NEW c \in Consumers, MarkRunning(c) PROVE Alone'
  <2>1. NoNewPlace
    <3>1. \A d \in Consumers, v \in Units : ConsumerHas(d, v)' => ConsumerHas(d, v)
      BY <1>8 DEF MarkRunning, TypeOK, ConsumerTyped, ConsumerHas
    <3> QED
      BY <1>8, <3>1, UntouchedPlaces DEF MarkRunning, lists, NoNewPlace, history, dashboard
  <2>2. RowsStay
    BY <1>8 DEF MarkRunning, RowsStay, TypeOK, TablesTyped
  <2> QED
    BY <2>1, <2>2, AloneKept
<1>9. ASSUME NEW c \in Consumers, Execute(c) PROVE Alone'
  <2>1. NoNewPlace
    <3>1. \A d \in Consumers, v \in Units : ConsumerHas(d, v)' => ConsumerHas(d, v)
      BY <1>9 DEF Execute, TypeOK, ConsumerTyped, ConsumerHas
    <3> QED
      BY <1>9, <3>1, UntouchedPlaces DEF Execute, lists, NoNewPlace, history, dashboard
  <2>2. RowsStay
    BY <1>9 DEF Execute, RowsStay, tables
  <2> QED
    BY <2>1, <2>2, AloneKept
<1>10. ASSUME NEW c \in Consumers, RetryPush(c) PROVE Alone'
  <2>1. \A d \in Consumers, v \in Units : ConsumerHas(d, v)' => ConsumerHas(d, v) /\ d # c
    BY <1>10 DEF RetryPush, TypeOK, ConsumerTyped, ConsumerHas, history, dashboard
  <2>2. \A i \in Nat, v \in Units : QueueHas(i, v)' =>
        QueueHas(i, v) \/ (i = Len(queue) + 1 /\ ConsumerHas(c, v))
    BY <1>10 DEF RetryPush, TypeOK, ListsTyped, ConsumerTyped, Messages, ConsumerHas, QueueHas,
       history, dashboard
  <2>3. \A v \in Units : ~QueueHas(Len(queue) + 1, v)
    BY DEF TypeOK, ListsTyped, QueueHas, history, dashboard
  <2>4. /\ \A n \in Masters, v \in Units : DispatcherHas(n, v)' => DispatcherHas(n, v)
        /\ \A i \in Nat, v \in Units : RewriteHas(i, v)' => RewriteHas(i, v)
        /\ \A i \in Nat, v \in Units : ResultsHave(i, v)' => ResultsHave(i, v)
        /\ \A n \in Masters, v \in Units : ListenerHas(n, v)' => ListenerHas(n, v)
    BY <1>10, UntouchedPlaces DEF RetryPush, lists, history, dashboard
  <2>5. RowsStay
    BY <1>10 DEF RetryPush, RowsStay, tables
  <2>6. OnePlaceOfAKind'
    BY <2>1, <2>2, <2>3, <2>4 DEF Alone, OnePlaceOfAKind, OneKindOfPlace
  <2>7. OneKindOfPlace'
    BY <2>1, <2>2, <2>3, <2>4 DEF Alone, OnePlaceOfAKind, OneKindOfPlace
  <2>8. RowBeforeCopy'
    BY <2>1, <2>2, <2>3, <2>4, <2>5 DEF Alone, RowsStay, RowBeforeCopy
  <2> QED
    BY <2>6, <2>7, <2>8 DEF Alone
<1>11. ASSUME NEW c \in Consumers, RetryMarkQueued(c) PROVE Alone'
  <2>1. NoNewPlace
    <3>1. \A d \in Consumers, v \in Units : ConsumerHas(d, v)' => ConsumerHas(d, v)
      BY <1>11 DEF RetryMarkQueued, TypeOK, ConsumerTyped, ConsumerHas
    <3> QED
      BY <1>11, <3>1, UntouchedPlaces DEF RetryMarkQueued, lists, NoNewPlace, history, dashboard
  <2>2. RowsStay
    BY <1>11 DEF RetryMarkQueued, RowsStay, TypeOK, TablesTyped
  <2> QED
    BY <2>1, <2>2, AloneKept
<1>12. ASSUME NEW c \in Consumers, PushResult(c) PROVE Alone'
  <2>1. \A d \in Consumers, v \in Units : ConsumerHas(d, v)' => ConsumerHas(d, v) /\ d # c
    BY <1>12 DEF PushResult, AfterReport, HeldAfterReport, TypeOK, ConsumerTyped, ConsumerHas,
       history, dashboard
  <2>2. \A i \in Nat, v \in Units : ResultsHave(i, v)' =>
        ResultsHave(i, v) \/ (i = Len(results) + 1 /\ ConsumerHas(c, v))
    BY <1>12 DEF PushResult, TypeOK, ListsTyped, ConsumerTyped, Results, ConsumerHas,
       ResultsHave, history, dashboard
  <2>3. \A v \in Units : ~ResultsHave(Len(results) + 1, v)
    BY DEF TypeOK, ListsTyped, ResultsHave, history, dashboard
  <2>4. /\ \A n \in Masters, v \in Units : DispatcherHas(n, v)' => DispatcherHas(n, v)
        /\ \A i \in Nat, v \in Units : RewriteHas(i, v)' => RewriteHas(i, v)
        /\ \A i \in Nat, v \in Units : QueueHas(i, v)' => QueueHas(i, v)
        /\ \A n \in Masters, v \in Units : ListenerHas(n, v)' => ListenerHas(n, v)
    BY <1>12, UntouchedPlaces DEF PushResult, lists, history, dashboard
  <2>5. RowsStay
    BY <1>12 DEF PushResult, RowsStay, tables
  <2>6. OnePlaceOfAKind'
    BY <2>1, <2>2, <2>3, <2>4 DEF Alone, OnePlaceOfAKind, OneKindOfPlace
  <2>7. OneKindOfPlace'
    BY <2>1, <2>2, <2>3, <2>4 DEF Alone, OnePlaceOfAKind, OneKindOfPlace
  <2>8. RowBeforeCopy'
    BY <2>1, <2>2, <2>3, <2>4, <2>5 DEF Alone, RowsStay, RowBeforeCopy
  <2> QED
    BY <2>6, <2>7, <2>8 DEF Alone
<1>13. ASSUME NEW c \in Consumers, PushDeadLetter(c) PROVE Alone'
  <2>1. NoNewPlace
    <3>1. \A d \in Consumers, v \in Units : ConsumerHas(d, v)' => ConsumerHas(d, v)
      BY <1>13 DEF PushDeadLetter, TypeOK, ConsumerTyped, ConsumerHas
    <3> QED
      BY <1>13, <3>1, UntouchedPlaces DEF PushDeadLetter, lists, NoNewPlace, history, dashboard
  <2>2. RowsStay
    BY <1>13 DEF PushDeadLetter, RowsStay, tables
  <2> QED
    BY <2>1, <2>2, AloneKept
<1>14. ASSUME NEW m \in Masters, TakeResult(m) PROVE Alone'
  <2>1. \A i \in Nat, v \in Units :
                ResultsHave(i, v)' => i # 0 /\ i + 1 \in Nat /\ ResultsHave(i + 1, v)
    BY <1>14 DEF TakeResult, TypeOK, ListsTyped, ResultsHave, history, dashboard
  <2>2. \A n \in Masters, v \in Units : ListenerHas(n, v)' =>
        (n # m /\ ListenerHas(n, v)) \/ (n = m /\ ResultsHave(1, v))
    BY <1>14 DEF TakeResult, TypeOK, ListsTyped, ListenerTyped, ResultsHave, ListenerHas,
       history, dashboard
  <2>3. /\ \A n \in Masters, v \in Units : DispatcherHas(n, v)' => DispatcherHas(n, v)
        /\ \A i \in Nat, v \in Units : RewriteHas(i, v)' => RewriteHas(i, v)
        /\ \A i \in Nat, v \in Units : QueueHas(i, v)' => QueueHas(i, v)
        /\ \A d \in Consumers, v \in Units : ConsumerHas(d, v)' => ConsumerHas(d, v)
    BY <1>14, UntouchedPlaces DEF TakeResult, lists, history, dashboard
  <2>4. RowsStay
    BY <1>14 DEF TakeResult, RowsStay, tables
  <2>5. OnePlaceOfAKind'
    BY <2>1, <2>2, <2>3 DEF Alone, OnePlaceOfAKind, OneKindOfPlace
  <2>6. OneKindOfPlace'
    BY <2>1, <2>2, <2>3 DEF Alone, OnePlaceOfAKind, OneKindOfPlace
  <2>7. RowBeforeCopy'
    BY <2>1, <2>2, <2>3, <2>4 DEF Alone, RowsStay, RowBeforeCopy
  <2> QED
    BY <2>5, <2>6, <2>7 DEF Alone
<1>15. ASSUME NEW m \in Masters, StoreResult(m) PROVE Alone'
  <2>1. NoNewPlace
    <3>1. \A n \in Masters, v \in Units : ListenerHas(n, v)' => ListenerHas(n, v)
      BY <1>15 DEF StoreResult, Verdict, TypeOK, ListenerTyped, ListenerHas
    <3> QED
      BY <1>15, <3>1, UntouchedPlaces DEF StoreResult, lists, NoNewPlace, history, dashboard
  <2>2. RowsStay
    BY <1>15 DEF StoreResult, Verdict, RowsStay, TypeOK, TablesTyped
  <2> QED
    BY <2>1, <2>2, AloneKept
<1>16. ASSUME NEW m \in Masters, CountUnfinished(m) PROVE Alone'
  <2>1. NoNewPlace
    <3>1. \A n \in Masters, v \in Units : ListenerHas(n, v)' => ListenerHas(n, v)
      BY <1>16 DEF CountUnfinished, CountStep, TypeOK, ListenerTyped, ListenerHas
    <3> QED
      BY <1>16, <3>1, UntouchedPlaces DEF CountUnfinished, CountStep, lists, NoNewPlace,
         history, dashboard
  <2>2. RowsStay
    BY <1>16 DEF CountUnfinished, CountStep, RowsStay, tables
  <2> QED
    BY <2>1, <2>2, AloneKept
<1>17. ASSUME NEW m \in Masters, CountFailed(m) PROVE Alone'
  <2>1. NoNewPlace
    <3>1. \A n \in Masters, v \in Units : ListenerHas(n, v)' => ListenerHas(n, v)
      BY <1>17 DEF CountFailed, CountStep, TypeOK, ListenerTyped, ListenerHas
    <3> QED
      BY <1>17, <3>1, UntouchedPlaces DEF CountFailed, CountStep, lists, NoNewPlace, history,
         dashboard
  <2>2. RowsStay
    BY <1>17 DEF CountFailed, CountStep, RowsStay, tables
  <2> QED
    BY <2>1, <2>2, AloneKept
<1>18. ASSUME NEW m \in Masters, CloseBusinessTask(m) PROVE Alone'
  <2>1. NoNewPlace
    <3>1. \A n \in Masters, v \in Units : ListenerHas(n, v)' => ListenerHas(n, v)
      BY <1>18 DEF CloseBusinessTask, TypeOK, ListenerTyped, ListenerHas
    <3> QED
      BY <1>18, <3>1, UntouchedPlaces DEF CloseBusinessTask, lists, NoNewPlace, history,
         dashboard
  <2>2. RowsStay
    BY <1>18 DEF CloseBusinessTask, RowsStay, tables
  <2> QED
    BY <2>1, <2>2, AloneKept
<1>19. ASSUME NEW m \in Masters, DispatchCycleFails(m) PROVE Alone'
  <2>1. NoNewPlace
    <3>1. \A n \in Masters, v \in Units : DispatcherHas(n, v)' => DispatcherHas(n, v)
      BY <1>19 DEF DispatchCycleFails, TypeOK, DispatcherTyped, DispatcherHas
    <3> QED
      BY <1>19, <3>1, UntouchedPlaces DEF DispatchCycleFails, lists, NoNewPlace, history,
         dashboard
  <2>2. RowsStay
    BY <1>19 DEF DispatchCycleFails, RowsStay, tables
  <2> QED
    BY <2>1, <2>2, AloneKept
<1>20. ASSUME NEW m \in Masters, ListenerDies(m) PROVE Alone'
  <2>1. NoNewPlace
    <3>1. \A n \in Masters, v \in Units : ListenerHas(n, v)' => ListenerHas(n, v)
      BY <1>20 DEF ListenerDies, TypeOK, ListenerTyped, ListenerHas
    <3> QED
      BY <1>20, <3>1, UntouchedPlaces DEF ListenerDies, lists, NoNewPlace, history, dashboard
  <2>2. RowsStay
    BY <1>20 DEF ListenerDies, RowsStay, tables
  <2> QED
    BY <2>1, <2>2, AloneKept
<1>21. ASSUME NEW m \in Masters, MasterRestarts(m) PROVE Alone'
  <2>1. NoNewPlace
    <3>1. \A n \in Masters, v \in Units : DispatcherHas(n, v)' => DispatcherHas(n, v)
      BY <1>21 DEF MasterRestarts, TypeOK, DispatcherTyped, DispatcherHas, history, dashboard
    <3>2. \A n \in Masters, v \in Units : ListenerHas(n, v)' => ListenerHas(n, v)
      BY <1>21 DEF MasterRestarts, TypeOK, ListenerTyped, ListenerHas
    <3> QED
      BY <1>21, <3>1, <3>2, UntouchedPlaces DEF MasterRestarts, lists, NoNewPlace, history,
         dashboard
  <2>2. RowsStay
    BY <1>21 DEF MasterRestarts, RowsStay, tables
  <2> QED
    BY <2>1, <2>2, AloneKept
<1>22. ASSUME NEW c \in Consumers, ConsumerDies(c) PROVE Alone'
  <2>1. NoNewPlace
    <3>1. \A d \in Consumers, v \in Units : ConsumerHas(d, v)' => ConsumerHas(d, v)
      BY <1>22 DEF ConsumerDies, TypeOK, ConsumerTyped, ConsumerHas
    <3> QED
      BY <1>22, <3>1, UntouchedPlaces DEF ConsumerDies, lists, NoNewPlace, history, dashboard
  <2>2. RowsStay
    BY <1>22 DEF ConsumerDies, RowsStay, tables
  <2> QED
    BY <2>1, <2>2, AloneKept
<1>23. ASSUME NEW c \in Consumers, ConsumerStarts(c) PROVE Alone'
  <2>1. NoNewPlace
    <3>1. \A d \in Consumers, v \in Units : ConsumerHas(d, v)' => ConsumerHas(d, v)
      BY <1>23 DEF ConsumerStarts, TypeOK, ConsumerTyped, ConsumerHas
    <3> QED
      BY <1>23, <3>1, UntouchedPlaces DEF ConsumerStarts, lists, NoNewPlace, history, dashboard
  <2>2. RowsStay
    BY <1>23 DEF ConsumerStarts, RowsStay, tables
  <2> QED
    BY <2>1, <2>2, AloneKept
<1>24. ASSUME NEW u \in Units, CancelTask(u) PROVE Alone'
  <2>1. NoNewPlace
    BY <1>24, UntouchedPlaces DEF CancelTask, lists, NoNewPlace, history, dashboard
  <2>2. RowsStay
    BY <1>24 DEF CancelTask, RowsStay, TypeOK, TablesTyped
  <2> QED
    BY <2>1, <2>2, AloneKept
<1>25. ASSUME NEW u \in Units, CreateTask(u) PROVE Alone'
  <2>1. NoNewPlace
    BY <1>25, UntouchedPlaces DEF CreateTask, lists, NoNewPlace, history, dashboard
  <2>2. RowsStay
    BY <1>25 DEF CreateTask, RowsStay, TypeOK, TablesTyped
  <2> QED
    BY <2>1, <2>2, AloneKept
<1>26. CASE ClearQueue
  <2>1. NoNewPlace
    <3>1. \A i \in Nat, v \in Units : /\ QueueHas(i, v)' => QueueHas(i, v)
                                      /\ ResultsHave(i, v)' => ResultsHave(i, v)
      BY <1>26 DEF ClearQueue, QueueHas, ResultsHave
    <3> QED
      BY <1>26, <3>1, UntouchedPlaces DEF ClearQueue, NoNewPlace, history, dashboard
  <2>2. RowsStay
    BY <1>26 DEF ClearQueue, RowsStay, tables
  <2> QED
    BY <2>1, <2>2, AloneKept
<1>27. CASE PauseOrResume
  <2>1. NoNewPlace
    BY <1>27, UntouchedPlaces DEF PauseOrResume, lists, NoNewPlace, history, dashboard
  <2>2. RowsStay
    BY <1>27 DEF PauseOrResume, RowsStay, tables
  <2> QED
    BY <2>1, <2>2, AloneKept
<1>28. CASE UNCHANGED vars
  <2>1. NoNewPlace /\ RowsStay
    BY <1>28, UntouchedPlaces DEF vars, lists, tables, NoNewPlace, RowsStay, history, dashboard
  <2> QED
    BY <2>1, AloneKept
<1>29. CASE StartRewrite
  <2>1. NoNewPlace
    <3>1. \A i \in Nat, v \in Units : ~RewriteHas(i, v)'
      BY <1>29 DEF StartRewrite, RewriteHas
    <3> QED
      BY <1>29, <3>1, UntouchedPlaces DEF StartRewrite, lists, NoNewPlace
  <2>2. RowsStay
    BY <1>29 DEF StartRewrite, RowsStay, tables
  <2> QED
    BY <2>1, <2>2, AloneKept
<1>30. CASE ReadMessage
  <2>1. NoNewPlace
    <3>1. \A i \in Nat, v \in Units : ~RewriteHas(i, v)'
      BY <1>30 DEF ReadMessage, RewriteHas
    <3> QED
      BY <1>30, <3>1, UntouchedPlaces DEF ReadMessage, lists, NoNewPlace
  <2>2. RowsStay
    BY <1>30 DEF ReadMessage, RowsStay, tables
  <2> QED
    BY <2>1, <2>2, AloneKept
<1>31. CASE DeleteQueue
  <2>1. \A i \in Nat, v \in Units : ~QueueHas(i, v)'
    BY <1>31 DEF DeleteQueue, QueueHas
  <2>2. \A i \in Nat, v \in Units : ~RewriteHas(i, v)
    BY <1>31 DEF DeleteQueue, RewriteHas
  <2>3. \A i, j \in Nat, v \in Units : RewriteHas(i, v)' /\ RewriteHas(j, v)' => i = j
    BY <1>31 DEF DeleteQueue, RewriteHas, TypeOK, DashboardTyped
  <2>4. \A i \in Nat, v \in Units : RewriteHas(i, v)' => \E j \in Nat : QueueHas(j, v)
    BY <1>31, PushedBackWasThere
  <2>5. /\ \A n \in Masters, v \in Units : DispatcherHas(n, v)' => DispatcherHas(n, v)
        /\ \A d \in Consumers, v \in Units : ConsumerHas(d, v)' => ConsumerHas(d, v)
        /\ \A i \in Nat, v \in Units : ResultsHave(i, v)' => ResultsHave(i, v)
        /\ \A n \in Masters, v \in Units : ListenerHas(n, v)' => ListenerHas(n, v)
    BY <1>31, UntouchedPlaces DEF DeleteQueue
  <2>6. RowsStay
    BY <1>31 DEF DeleteQueue, RowsStay, tables
  <2>7. OnePlaceOfAKind'
    BY <2>1, <2>3, <2>5 DEF Alone, OnePlaceOfAKind
  <2>8. OneKindOfPlace'
    BY <2>1, <2>4, <2>5 DEF Alone, OneKindOfPlace
  <2>9. RowBeforeCopy'
    BY <2>1, <2>4, <2>5, <2>6 DEF Alone, RowsStay, RowBeforeCopy
  <2> QED
    BY <2>7, <2>8, <2>9 DEF Alone
<1>32. CASE PushBack
  <2>1. \A i \in Nat, v \in Units :
                RewriteHas(i, v)' => i # 0 /\ i + 1 \in Nat /\ RewriteHas(i + 1, v)
    BY <1>32 DEF PushBack, TypeOK, DashboardTyped, RewriteHas, history
  <2>2. \A i \in Nat, v \in Units : QueueHas(i, v)' =>
        QueueHas(i, v) \/ (i = Len(queue) + 1 /\ RewriteHas(1, v))
    <3>1. copied # <<>> /\ copied \in Seq(Messages) /\ queue \in Seq(Messages)
      BY <1>32 DEF PushBack, TypeOK, ListsTyped, DashboardTyped
    <3>2. 1 \in DOMAIN copied /\ Head(copied) = copied[1] /\ Head(copied) \in Messages
      BY <3>1
    <3> QED
      BY <1>32, <3>1, <3>2 DEF PushBack, RewriteHas, QueueHas, history
  <2>3. \A v \in Units : ~QueueHas(Len(queue) + 1, v)
    BY DEF TypeOK, ListsTyped, QueueHas
  <2>4. /\ \A n \in Masters, v \in Units : DispatcherHas(n, v)' => DispatcherHas(n, v)
        /\ \A d \in Consumers, v \in Units : ConsumerHas(d, v)' => ConsumerHas(d, v)
        /\ \A i \in Nat, v \in Units : ResultsHave(i, v)' => ResultsHave(i, v)
        /\ \A n \in Masters, v \in Units : ListenerHas(n, v)' => ListenerHas(n, v)
    BY <1>32, UntouchedPlaces DEF PushBack
  <2>5. RowsStay
    BY <1>32 DEF PushBack, RowsStay, tables
  <2>6. OnePlaceOfAKind'
    BY <2>1, <2>2, <2>3, <2>4 DEF Alone, OnePlaceOfAKind, OneKindOfPlace
  <2>7. OneKindOfPlace'
    BY <2>1, <2>2, <2>3, <2>4 DEF Alone, OnePlaceOfAKind, OneKindOfPlace
  <2>8. RowBeforeCopy'
    BY <2>1, <2>2, <2>3, <2>4, <2>5 DEF Alone, RowsStay, RowBeforeCopy
  <2> QED
    BY <2>6, <2>7, <2>8 DEF Alone
<1>33. CASE RewriteFails
  <2>1. NoNewPlace
    <3>1. \A i \in Nat, v \in Units : ~RewriteHas(i, v)'
      BY <1>33 DEF RewriteFails, RewriteHas
    <3> QED
      BY <1>33, <3>1, UntouchedPlaces DEF RewriteFails, lists, NoNewPlace
  <2>2. RowsStay
    BY <1>33 DEF RewriteFails, RowsStay, tables
  <2> QED
    BY <2>1, <2>2, AloneKept
<1> QED
  BY <1>1, <1>2, <1>3, <1>4, <1>5, <1>6, <1>7, <1>8, <1>9, <1>10, <1>11, <1>12, <1>13,
     <1>14, <1>15, <1>16, <1>17, <1>18, <1>19, <1>20, <1>21, <1>22, <1>23, <1>24, <1>25,
     <1>26, <1>27, <1>28, <1>29, <1>30, <1>31, <1>32, <1>33
  DEF Next, DispatcherStep, ConsumerStep, ListenerStep, RewriteStep

-----------------------------------------------------------------------------
(* How often a unit was crawled, and what the copies of it say about that. *)

\* The unit was crawled n times, without an answer; or a rewrite raced with it.
Unanswered(u, n) == u \in raced \/ (attempts[u] = n /\ u \notin succeeded)

\* What a verdict on a unit, on its way to the table, stands for.
Earned(u, ok) == IF ok THEN u \in succeeded ELSE Unanswered(u, MaxRetries + 1)

RowsCounted ==
  /\ \A u \in Units : status[u] = "absent" => Unanswered(u, 0)
  /\ StatusTruthful

ListsCounted ==
  /\ \A i \in DOMAIN queue : /\ queue[i].retry_count <= MaxRetries
                             /\ Unanswered(queue[i].unit, queue[i].retry_count)
  /\ \A i \in DOMAIN results : Earned(results[i].unit, results[i].success)
  /\ DeadLetterSound

DispatchersCounted ==
  \A m \in Masters : dpc[m] = "push" => Unanswered(current[m], 0)

ConsumersCounted ==
  \A c \in Consumers :
    /\ cpc[c] \in {"mark_running", "execute"} =>
         /\ message[c].retry_count <= MaxRetries
         /\ Unanswered(message[c].unit, message[c].retry_count)
    /\ cpc[c] = "retry_push" =>
         /\ message[c].retry_count < MaxRetries
         /\ Unanswered(message[c].unit, message[c].retry_count + 1)
    /\ cpc[c] = "push_result" => Earned(message[c].unit, success[c])
    /\ cpc[c] = "push_dead" => Unanswered(message[c].unit, MaxRetries + 1)

RewriteCounted ==
  \A i \in DOMAIN copied :
    /\ copied[i].retry_count <= MaxRetries
    /\ rstep = "push" => Unanswered(copied[i].unit, copied[i].retry_count)

ListenersCounted ==
  \A m \in Masters : lpc[m] = "store" => Earned(result[m].unit, result[m].success)

Counted ==
  /\ AttemptsBounded
  /\ RowsCounted
  /\ ListsCounted
  /\ DispatchersCounted
  /\ ConsumersCounted
  /\ ListenersCounted
  /\ RewriteCounted

\* Popping a list takes its first element and leaves the others, one place earlier.
LEMMA TailElements ==
  ASSUME NEW S, NEW q \in Seq(S), q # <<>>
  PROVE  /\ 1 \in DOMAIN q /\ Head(q) = q[1]
         /\ \A i \in DOMAIN Tail(q) : i + 1 \in DOMAIN q /\ Tail(q)[i] = q[i + 1]
OBVIOUS

\* Pushing to a list leaves its elements and adds only the pushed one.
LEMMA AppendElements ==
  ASSUME NEW S, NEW q \in Seq(S), NEW e \in S
  PROVE  \A i \in DOMAIN Append(q, e) :
           (i \in DOMAIN q /\ Append(q, e)[i] = q[i]) \/ Append(q, e)[i] = e
OBVIOUS

\* The message of a retry is the message it was, with one more retry counted.
LEMMA OneMoreRetry ==
  ASSUME NEW m \in Messages
  PROVE  LET e == [m EXCEPT !.retry_count = @ + 1]
         IN  /\ e \in Messages
             /\ e.unit = m.unit
             /\ e.retry_count = m.retry_count + 1
<1>1. /\ m.unit \in Units /\ m.retry_count \in Nat
      /\ m = [unit |-> m.unit, retry_count |-> m.retry_count]
  BY DEF Messages
<1>2. [m EXCEPT !.retry_count = @ + 1] = [unit |-> m.unit, retry_count |-> m.retry_count + 1]
  BY <1>1
<1> QED
  BY <1>1, <1>2 DEF Messages

\* While nobody runs the crawler, what is untouched stays right.
LEMMA UntouchedCounted ==
  ASSUME Counted, UNCHANGED <<attempts, succeeded>>, raced \subseteq raced'
  PROVE  /\ AttemptsBounded'
         /\ UNCHANGED status => RowsCounted'
         /\ UNCHANGED lists => ListsCounted'
         /\ UNCHANGED dispatcher => DispatchersCounted'
         /\ UNCHANGED consumer => ConsumersCounted'
         /\ UNCHANGED listener => ListenersCounted'
         /\ UNCHANGED <<rstep, copied>> => RewriteCounted'
<1> USE DEF Counted, Unanswered, Earned
<1>1. AttemptsBounded'
  BY DEF AttemptsBounded
<1>2. UNCHANGED status => RowsCounted'
  BY DEF RowsCounted, StatusTruthful
<1>3. UNCHANGED lists => ListsCounted'
  BY DEF ListsCounted, DeadLetterSound, lists
<1>4. UNCHANGED dispatcher => DispatchersCounted'
  BY DEF DispatchersCounted, dispatcher
<1>5. UNCHANGED consumer => ConsumersCounted'
  BY DEF ConsumersCounted, consumer
<1>6. UNCHANGED listener => ListenersCounted'
  BY DEF ListenersCounted, listener
<1>7. UNCHANGED <<rstep, copied>> => RewriteCounted'
  BY DEF RewriteCounted
<1> QED
  BY <1>1, <1>2, <1>3, <1>4, <1>5, <1>6, <1>7

\* Every step of the pipeline keeps Counted.
LEMMA CountedStep ==
  ASSUME TypeOK, TypeOK', Alone, Counted, [Next]_vars
  PROVE  Counted'
<1> USE PipelineAssumption, RacedStay DEF PipelineAssumption
<1>1. ASSUME NEW m \in Masters, FetchPendingTasks(m) PROVE Counted'
  <2>1. UNCHANGED <<attempts, succeeded>>
    BY <1>1 DEF FetchPendingTasks, history
  <2>2. DispatchersCounted'
    BY <1>1, <2>1 DEF FetchPendingTasks, Counted, DispatchersCounted,
         Unanswered, Earned, TypeOK, DispatcherTyped, Messages, Results
  <2> QED
    BY <1>1, <2>1, <2>2, UntouchedCounted DEF FetchPendingTasks, dashboard, Counted, tables,
       lists
<1>2. ASSUME NEW m \in Masters, ExpandFails(m) PROVE Counted'
  <2>1. UNCHANGED <<attempts, succeeded>>
    BY <1>2 DEF ExpandFails, history
  <2>2. DispatchersCounted'
    BY <1>2, <2>1 DEF ExpandFails, Counted, DispatchersCounted,
         Unanswered, Earned, TypeOK, DispatcherTyped, Messages, Results
  <2> QED
    BY <1>2, <2>1, <2>2, UntouchedCounted DEF ExpandFails, dashboard, Counted, tables, lists
<1>3. ASSUME NEW m \in Masters, NEW u \in Units, CreateOrGetTaskRecord(m, u) PROVE Counted'
  <2>1. UNCHANGED <<attempts, succeeded>>
    BY <1>3 DEF CreateOrGetTaskRecord, history
  <2>2. RowsCounted'
    BY <1>3, <2>1 DEF CreateOrGetTaskRecord, WasCreated, LoopStep, Counted, RowsCounted,
       DispatchersCounted, StatusTruthful,
         Unanswered, Earned, TypeOK, TablesTyped, DispatcherTyped, Messages, Results
  <2>3. DispatchersCounted'
    BY <1>3, <2>1 DEF CreateOrGetTaskRecord, WasCreated, LoopStep, Counted,
       DispatchersCounted, RowsCounted,
         Unanswered, Earned, TypeOK, TablesTyped, DispatcherTyped, Messages, Results
  <2> QED
    BY <1>3, <2>1, <2>2, <2>3, UntouchedCounted DEF CreateOrGetTaskRecord, dashboard, Counted,
       tables,
       lists
<1>4. ASSUME NEW m \in Masters, PublishPush(m) PROVE Counted'
  <2>1. UNCHANGED <<attempts, succeeded>>
    BY <1>4 DEF PublishPush, history
  <2>2. ListsCounted'
    <3> DEFINE e == [unit |-> current[m], retry_count |-> 0]
    <3>1. e \in Messages
      BY <1>4 DEF PublishPush, TypeOK, DispatcherTyped, Messages
    <3>2. queue' = Append(queue, e) /\ UNCHANGED <<results, dead>>
      BY <1>4 DEF PublishPush
    <3>3. Unanswered(e.unit, 0)
      BY <1>4 DEF PublishPush, Counted, DispatchersCounted
    <3>4. e.retry_count = 0 /\ 0 <= MaxRetries
      BY PipelineAssumption DEF PipelineAssumption
    <3> HIDE DEF e
    <3>5. \A i \in DOMAIN queue' :
            (i \in DOMAIN queue /\ queue'[i] = queue[i]) \/ queue'[i] = e
      BY <3>1, <3>2, AppendElements DEF TypeOK, ListsTyped
    <3> QED
      BY <2>1, <3>2, <3>3, <3>4, <3>5
      DEF Counted, ListsCounted, DeadLetterSound, Unanswered, Earned
  <2>3. DispatchersCounted'
    BY <1>4, <2>1 DEF PublishPush, Counted, DispatchersCounted, ListsCounted,
         Unanswered, Earned, TypeOK, ListsTyped, DispatcherTyped, Messages, Results
  <2> QED
    BY <1>4, <2>1, <2>2, <2>3, UntouchedCounted DEF PublishPush, dashboard, Counted, tables,
       lists
<1>5. ASSUME NEW m \in Masters, PublishMarkQueued(m) PROVE Counted'
  <2>1. UNCHANGED <<attempts, succeeded>>
    BY <1>5 DEF PublishMarkQueued, history
  <2>2. RowsCounted'
    BY <1>5, <2>1 DEF PublishMarkQueued, Counted, RowsCounted, DispatchersCounted,
       StatusTruthful,
         Unanswered, Earned, TypeOK, TablesTyped, DispatcherTyped, Messages, Results
  <2>3. DispatchersCounted'
    BY <1>5, <2>1 DEF PublishMarkQueued, Counted, DispatchersCounted, RowsCounted,
         Unanswered, Earned, TypeOK, TablesTyped, DispatcherTyped, Messages, Results
  <2> QED
    BY <1>5, <2>1, <2>2, <2>3, UntouchedCounted DEF PublishMarkQueued, dashboard, Counted,
       tables, lists
<1>6. ASSUME NEW m \in Masters, PublishMarkBusiness(m) PROVE Counted'
  <2>1. UNCHANGED <<attempts, succeeded>>
    BY <1>6 DEF PublishMarkBusiness, history
  <2>2. DispatchersCounted'
    BY <1>6, <2>1 DEF PublishMarkBusiness, LoopStep, Counted, DispatchersCounted,
         Unanswered, Earned, TypeOK, DispatcherTyped, Messages, Results
  <2> QED
    BY <1>6, <2>1, <2>2, UntouchedCounted DEF PublishMarkBusiness, dashboard, Counted, tables,
       lists
<1>7. ASSUME NEW c \in Consumers, PopMessage(c) PROVE Counted'
  <2>1. UNCHANGED <<attempts, succeeded>>
    BY <1>7 DEF PopMessage, history
  <2>2. ListsCounted'
    <3>1. queue' = Tail(queue) /\ UNCHANGED <<results, dead>>
      BY <1>7 DEF PopMessage
    <3>2. \A i \in DOMAIN queue' : i + 1 \in DOMAIN queue /\ queue'[i] = queue[i + 1]
      BY <1>7, <3>1, TailElements DEF PopMessage, TypeOK, ListsTyped
    <3> QED
      BY <2>1, <3>1, <3>2 DEF Counted, ListsCounted, DeadLetterSound, Unanswered, Earned
  <2>3. ConsumersCounted'
    BY <1>7, <2>1 DEF PopMessage, Counted, ConsumersCounted, ListsCounted,
         Unanswered, Earned, TypeOK, ListsTyped, ConsumerTyped, Messages, Results
  <2> QED
    BY <1>7, <2>1, <2>2, <2>3, UntouchedCounted DEF PopMessage, dashboard, Counted, tables,
       lists
<1>8. ASSUME NEW c \in Consumers, MarkRunning(c) PROVE Counted'
  <2>1. UNCHANGED <<attempts, succeeded>>
    BY <1>8 DEF MarkRunning, history
  <2>2. RowsCounted'
    BY <1>8, <2>1 DEF MarkRunning, Counted, RowsCounted, ConsumersCounted, StatusTruthful,
         Unanswered, Earned, TypeOK, TablesTyped, ConsumerTyped, Messages, Results
  <2>3. ConsumersCounted'
    BY <1>8, <2>1 DEF MarkRunning, Counted, ConsumersCounted, RowsCounted,
         Unanswered, Earned, TypeOK, TablesTyped, ConsumerTyped, Messages, Results
  <2> QED
    BY <1>8, <2>1, <2>2, <2>3, UntouchedCounted DEF MarkRunning, dashboard, Counted, tables,
       lists
<1>9. ASSUME NEW c \in Consumers, Execute(c) PROVE Counted'
  <2> DEFINE w == message[c].unit
  <2>1. /\ w \in Units
        /\ w \notin raced => ConsumerHas(c, w)
        /\ message[c].retry_count \in Nat
        /\ message[c].retry_count <= MaxRetries
        /\ Unanswered(w, message[c].retry_count)
    BY <1>9 DEF Execute, TypeOK, ConsumerTyped, Messages, ConsumerHas, Counted,
       ConsumersCounted
  <2>2. /\ w \notin raced => attempts'[w] = message[c].retry_count + 1
        /\ w \in raced => attempts'[w] = attempts[w]
        /\ success'[c] => w \in succeeded'
        /\ ~success'[c] => Unanswered(w, message[c].retry_count + 1)'
        /\ \A v \in Units : v # w => /\ attempts'[v] = attempts[v]
                                     /\ v \in succeeded' <=> v \in succeeded
        /\ \A v \in Units : v \in succeeded => v \in succeeded'
        /\ UNCHANGED raced
    BY <1>9, <2>1 DEF Execute, TypeOK, HistoryTyped, ConsumerTyped, Unanswered
  <2>3. \A v \in Units, n \in Nat :
          Unanswered(v, n) /\ (v # w \/ w \in raced) => Unanswered(v, n)'
    BY <2>2 DEF Unanswered
  <2>4. \A v \in Units, ok \in BOOLEAN : Earned(v, ok) => Earned(v, ok)'
    <3>1. w \in raced \/ ~Unanswered(w, MaxRetries + 1)
      BY <2>1 DEF Unanswered
    <3> QED
      BY <2>2, <2>3, <3>1 DEF Earned
  <2>5. AttemptsBounded'
    BY <2>1, <2>2 DEF Counted, AttemptsBounded, TypeOK, HistoryTyped
  <2>6. RowsCounted'
    <3>1. (w \notin raced => status[w] # "absent") /\ UNCHANGED status
      BY <1>9, <2>1 DEF Execute, tables, Alone, RowBeforeCopy
    <3>2. StatusTruthful'
      BY <2>1, <2>2, <3>1 DEF Counted, RowsCounted, StatusTruthful, Unanswered
    <3> QED
      BY <2>3, <3>1, <3>2 DEF Counted, RowsCounted
  <2>7. ListsCounted'
    <3>1. UNCHANGED <<queue, results, dead>>
      BY <1>9 DEF Execute, lists
    <3>2. ASSUME NEW i \in DOMAIN queue
          PROVE  /\ queue[i].retry_count <= MaxRetries
                 /\ Unanswered(queue[i].unit, queue[i].retry_count)'
      <4>1. i \in Nat /\ queue[i] \in Messages
        BY DEF TypeOK, ListsTyped
      <4>2. queue[i].unit \in Units /\ (queue[i].unit # w \/ w \in raced)
        BY <2>1, <4>1 DEF Messages, QueueHas, Alone, OneKindOfPlace
      <4> QED
        BY <2>3, <3>1, <4>1, <4>2 DEF Messages, Counted, ListsCounted
    <3>3. ASSUME NEW i \in DOMAIN results
          PROVE  Earned(results[i].unit, results[i].success)'
      <4>1. results[i] \in Results
        BY DEF TypeOK, ListsTyped
      <4>2. results[i].unit \in Units /\ results[i].success \in BOOLEAN
        BY <4>1 DEF Results
      <4> QED
        BY <2>4, <3>1, <4>2 DEF Counted, ListsCounted
    <3>4. DeadLetterSound'
      BY <2>1, <2>2, <3>1 DEF Counted, ListsCounted, DeadLetterSound, Unanswered, TypeOK,
         ListsTyped
    <3> QED
      BY <3>1, <3>2, <3>3, <3>4 DEF ListsCounted
  <2>8. DispatchersCounted'
    <3>1. UNCHANGED <<dpc, current>>
      BY <1>9 DEF Execute, dispatcher
    <3>2. ASSUME NEW m \in Masters, dpc[m] = "push" PROVE Unanswered(current[m], 0)'
      <4>1. current[m] \in Units /\ (current[m] # w \/ w \in raced)
        BY <2>1, <3>2 DEF TypeOK, DispatcherTyped, DispatcherHas, Alone, OneKindOfPlace
      <4> QED
        BY <2>3, <3>1, <3>2, <4>1 DEF Counted, DispatchersCounted
    <3> QED
      BY <3>1, <3>2 DEF DispatchersCounted
  <2>9. ConsumersCounted'
    <3> DEFINE Good(d) ==
          /\ cpc[d] \in {"mark_running", "execute"} =>
               /\ message[d].retry_count <= MaxRetries
               /\ Unanswered(message[d].unit, message[d].retry_count)
          /\ cpc[d] = "retry_push" =>
               /\ message[d].retry_count < MaxRetries
               /\ Unanswered(message[d].unit, message[d].retry_count + 1)
          /\ cpc[d] = "push_result" => Earned(message[d].unit, success[d])
          /\ cpc[d] = "push_dead" => Unanswered(message[d].unit, MaxRetries + 1)
    <3>1. Good(c)'
      BY <1>9, <2>1, <2>2 DEF Execute, ShouldRetry, Earned, TypeOK, ConsumerTyped
    <3>2. ASSUME NEW d \in Consumers, d # c PROVE Good(d)'
      <4>1. cpc'[d] = cpc[d] /\ message'[d] = message[d] /\ success'[d] = success[d]
        BY <1>9, <3>2 DEF Execute, TypeOK, ConsumerTyped
      <4>2. Good(d)
        BY DEF Counted, ConsumersCounted
      <4>3. CASE cpc[d] \in {"mark_running", "execute", "retry_push", "push_result"}
        <5>1. message[d] \in Messages /\ success[d] \in BOOLEAN
          BY <4>3 DEF TypeOK, ConsumerTyped
        <5>2. /\ message[d].unit \in Units /\ message[d].retry_count \in Nat
              /\ message[d].unit # w \/ w \in raced
          BY <2>1, <3>2, <4>3, <5>1 DEF Messages, ConsumerHas, Alone, OnePlaceOfAKind
        <5> QED
          BY <2>3, <2>4, <4>1, <4>2, <4>3, <5>1, <5>2
      <4>4. CASE cpc[d] = "push_dead"
        <5>1. message[d].unit \in Units /\ Unanswered(message[d].unit, MaxRetries + 1)
          BY <4>2, <4>4 DEF TypeOK, ConsumerTyped, Messages
        <5>2. message[d].unit # w \/ w \in raced
          BY <2>1, <5>1 DEF Unanswered
        <5> QED
          BY <2>3, <4>1, <4>4, <5>1, <5>2
      <4> QED
        BY <4>1, <4>3, <4>4
    <3> HIDE DEF Good
    <3>3. \A d \in Consumers : Good(d)'
      BY <3>1, <3>2
    <3> QED
      BY <3>3 DEF Good, ConsumersCounted
  <2>10. ListenersCounted'
    <3>1. UNCHANGED <<lpc, result>>
      BY <1>9 DEF Execute, listener
    <3> QED
      BY <2>4, <3>1 DEF TypeOK, ListenerTyped, Results, Counted, ListenersCounted
  <2>11. RewriteCounted'
    <3>1. UNCHANGED <<rstep, copied>>
      BY <1>9 DEF Execute, dashboard
    <3>2. ASSUME NEW i \in DOMAIN copied
          PROVE  /\ copied[i].retry_count <= MaxRetries
                 /\ rstep = "push" => Unanswered(copied[i].unit, copied[i].retry_count)'
      <4>1. i \in Nat /\ copied[i] \in Messages
        BY DEF TypeOK, DashboardTyped
      <4>2. /\ copied[i].unit \in Units
            /\ rstep = "push" => copied[i].unit # w \/ w \in raced
        <5>1. copied[i].unit \in Units
          BY <4>1 DEF Messages
        <5>2. rstep = "push" /\ copied[i].unit = w /\ w \notin raced => RewriteHas(i, w)
          BY DEF RewriteHas
        <5> QED
          BY <2>1, <4>1, <5>1, <5>2 DEF Alone, OneKindOfPlace
      <4> QED
        BY <2>3, <3>1, <4>1, <4>2 DEF Messages, Counted, RewriteCounted
    <3> QED
      BY <3>1, <3>2 DEF RewriteCounted
  <2> QED
    BY <2>5, <2>6, <2>7, <2>8, <2>9, <2>10, <2>11 DEF Counted
<1>10. ASSUME NEW c \in Consumers, RetryPush(c) PROVE Counted'
  <2>1. UNCHANGED <<attempts, succeeded>>
    BY <1>10 DEF RetryPush, history
  <2>2. ListsCounted'
    <3> DEFINE e == [message[c] EXCEPT !.retry_count = @ + 1]
    <3>1. /\ queue' = Append(queue, e) /\ UNCHANGED <<results, dead>>
          /\ cpc[c] = "retry_push" /\ message[c] \in Messages
      BY <1>10 DEF RetryPush, TypeOK, ConsumerTyped
    <3>2. /\ e \in Messages
          /\ e.unit = message[c].unit
          /\ e.retry_count = message[c].retry_count + 1
      BY <3>1, OneMoreRetry
    <3>3. e.retry_count <= MaxRetries /\ Unanswered(e.unit, e.retry_count)
      BY <3>1, <3>2 DEF Counted, ConsumersCounted, Messages
    <3> HIDE DEF e
    <3>4. \A i \in DOMAIN queue' : (i \in DOMAIN queue /\ queue'[i] = queue[i]) \/ queue'[i] = e
      BY <3>1, <3>2, AppendElements DEF TypeOK, ListsTyped
    <3> QED
      BY <2>1, <3>1, <3>3, <3>4 DEF Counted, ListsCounted, DeadLetterSound, Unanswered, Earned
  <2>3. ConsumersCounted'
    BY <1>10, <2>1 DEF RetryPush, Counted, ConsumersCounted, ListsCounted,
         Unanswered, Earned, TypeOK, ListsTyped, ConsumerTyped, Messages, Results
  <2> QED
    BY <1>10, <2>1, <2>2, <2>3, UntouchedCounted DEF RetryPush, dashboard, Counted, tables,
       lists
<1>11. ASSUME NEW c \in Consumers, RetryMarkQueued(c) PROVE Counted'
  <2>1. UNCHANGED <<attempts, succeeded>>
    BY <1>11 DEF RetryMarkQueued, history
  <2>2. RowsCounted'
    BY <1>11, <2>1 DEF RetryMarkQueued, Counted, RowsCounted, ConsumersCounted,
       StatusTruthful,
         Unanswered, Earned, TypeOK, TablesTyped, ConsumerTyped, Messages, Results
  <2>3. ConsumersCounted'
    BY <1>11, <2>1 DEF RetryMarkQueued, Counted, ConsumersCounted, RowsCounted,
         Unanswered, Earned, TypeOK, TablesTyped, ConsumerTyped, Messages, Results
  <2> QED
    BY <1>11, <2>1, <2>2, <2>3, UntouchedCounted DEF RetryMarkQueued, dashboard, Counted,
       tables, lists
<1>12. ASSUME NEW c \in Consumers, PushResult(c) PROVE Counted'
  <2>1. UNCHANGED <<attempts, succeeded>>
    BY <1>12 DEF PushResult, history
  <2>2. ListsCounted'
    <3> DEFINE e == [unit |-> message[c].unit, success |-> success[c]]
    <3>1. /\ results' = Append(results, e) /\ UNCHANGED <<queue, dead>>
          /\ cpc[c] = "push_result"
      BY <1>12 DEF PushResult
    <3>2. e \in Results /\ e.unit = message[c].unit /\ e.success = success[c]
      BY <3>1 DEF TypeOK, ConsumerTyped, Messages, Results
    <3>3. Earned(e.unit, e.success)
      BY <3>1, <3>2 DEF Counted, ConsumersCounted
    <3> HIDE DEF e
    <3>4. \A i \in DOMAIN results' :
            (i \in DOMAIN results /\ results'[i] = results[i]) \/ results'[i] = e
      BY <3>1, <3>2, AppendElements DEF TypeOK, ListsTyped
    <3> QED
      BY <2>1, <3>1, <3>3, <3>4 DEF Counted, ListsCounted, DeadLetterSound, Unanswered, Earned
  <2>3. ConsumersCounted'
    BY <1>12, <2>1 DEF PushResult, AfterReport, HeldAfterReport, Counted, ConsumersCounted,
       ListsCounted,
         Unanswered, Earned, TypeOK, ListsTyped, ConsumerTyped, Messages, Results
  <2> QED
    BY <1>12, <2>1, <2>2, <2>3, UntouchedCounted DEF PushResult, dashboard, Counted, tables,
       lists
<1>13. ASSUME NEW c \in Consumers, PushDeadLetter(c) PROVE Counted'
  <2>1. UNCHANGED <<attempts, succeeded>>
    BY <1>13 DEF PushDeadLetter, history
  <2>2. ListsCounted'
    BY <1>13, <2>1 DEF PushDeadLetter, Counted, ListsCounted, ConsumersCounted,
       DeadLetterSound,
         Unanswered, Earned, TypeOK, ListsTyped, ConsumerTyped, Messages, Results
  <2>3. ConsumersCounted'
    BY <1>13, <2>1 DEF PushDeadLetter, Counted, ConsumersCounted, ListsCounted,
         Unanswered, Earned, TypeOK, ListsTyped, ConsumerTyped, Messages, Results
  <2> QED
    BY <1>13, <2>1, <2>2, <2>3, UntouchedCounted DEF PushDeadLetter, dashboard, Counted,
       tables, lists
<1>14. ASSUME NEW m \in Masters, TakeResult(m) PROVE Counted'
  <2>1. UNCHANGED <<attempts, succeeded>>
    BY <1>14 DEF TakeResult, history
  <2>2. ListsCounted'
    <3>1. results' = Tail(results) /\ UNCHANGED <<queue, dead>>
      BY <1>14 DEF TakeResult
    <3>2. \A i \in DOMAIN results' : i + 1 \in DOMAIN results /\ results'[i] = results[i + 1]
      BY <1>14, <3>1, TailElements DEF TakeResult, TypeOK, ListsTyped
    <3> QED
      BY <2>1, <3>1, <3>2 DEF Counted, ListsCounted, DeadLetterSound, Unanswered, Earned
  <2>3. ListenersCounted'
    BY <1>14, <2>1 DEF TakeResult, Counted, ListenersCounted, ListsCounted,
         Unanswered, Earned, TypeOK, ListsTyped, ListenerTyped, Messages, Results
  <2> QED
    BY <1>14, <2>1, <2>2, <2>3, UntouchedCounted DEF TakeResult, dashboard, Counted, tables,
       lists
<1>15. ASSUME NEW m \in Masters, StoreResult(m) PROVE Counted'
  <2>1. UNCHANGED <<attempts, succeeded>>
    BY <1>15 DEF StoreResult, history
  <2>2. RowsCounted'
    BY <1>15, <2>1 DEF StoreResult, Verdict, Counted, RowsCounted, ListenersCounted,
       StatusTruthful,
         Unanswered, Earned, TypeOK, TablesTyped, ListenerTyped, Messages, Results
  <2>3. ListenersCounted'
    BY <1>15, <2>1 DEF StoreResult, Verdict, Counted, ListenersCounted, RowsCounted,
         Unanswered, Earned, TypeOK, TablesTyped, ListenerTyped, Messages, Results
  <2> QED
    BY <1>15, <2>1, <2>2, <2>3, UntouchedCounted DEF StoreResult, dashboard, Counted, tables,
       lists
<1>16. ASSUME NEW m \in Masters, CountUnfinished(m) PROVE Counted'
  <2>1. UNCHANGED <<attempts, succeeded>>
    BY <1>16 DEF CountUnfinished, CountStep, history
  <2>2. ListenersCounted'
    BY <1>16, <2>1 DEF CountUnfinished, CountStep, Counted, ListenersCounted,
         Unanswered, Earned, TypeOK, ListenerTyped, Messages, Results
  <2> QED
    BY <1>16, <2>1, <2>2, UntouchedCounted DEF CountUnfinished, CountStep, dashboard, Counted,
       tables,
       lists
<1>17. ASSUME NEW m \in Masters, CountFailed(m) PROVE Counted'
  <2>1. UNCHANGED <<attempts, succeeded>>
    BY <1>17 DEF CountFailed, CountStep, history
  <2>2. ListenersCounted'
    BY <1>17, <2>1 DEF CountFailed, CountStep, Counted, ListenersCounted,
         Unanswered, Earned, TypeOK, ListenerTyped, Messages, Results
  <2> QED
    BY <1>17, <2>1, <2>2, UntouchedCounted DEF CountFailed, CountStep, dashboard, Counted,
       tables, lists
<1>18. ASSUME NEW m \in Masters, CloseBusinessTask(m) PROVE Counted'
  <2>1. UNCHANGED <<attempts, succeeded>>
    BY <1>18 DEF CloseBusinessTask, history
  <2>2. ListenersCounted'
    BY <1>18, <2>1 DEF CloseBusinessTask, Counted, ListenersCounted,
         Unanswered, Earned, TypeOK, ListenerTyped, Messages, Results
  <2> QED
    BY <1>18, <2>1, <2>2, UntouchedCounted DEF CloseBusinessTask, dashboard, Counted, tables,
       lists
<1>19. ASSUME NEW m \in Masters, DispatchCycleFails(m) PROVE Counted'
  <2>1. UNCHANGED <<attempts, succeeded>>
    BY <1>19 DEF DispatchCycleFails, Strike
  <2>2. DispatchersCounted'
    BY <1>19, <2>1 DEF DispatchCycleFails, Counted, DispatchersCounted,
         Unanswered, Earned, TypeOK, DispatcherTyped, Messages, Results
  <2> QED
    BY <1>19, <2>1, <2>2, UntouchedCounted DEF DispatchCycleFails, dashboard, Counted, tables,
       lists
<1>20. ASSUME NEW m \in Masters, ListenerDies(m) PROVE Counted'
  <2>1. UNCHANGED <<attempts, succeeded>>
    BY <1>20 DEF ListenerDies, Strike
  <2>2. ListenersCounted'
    BY <1>20, <2>1 DEF ListenerDies, Counted, ListenersCounted,
         Unanswered, Earned, TypeOK, ListenerTyped, Messages, Results
  <2> QED
    BY <1>20, <2>1, <2>2, UntouchedCounted DEF ListenerDies, dashboard, Counted, tables, lists
<1>21. ASSUME NEW m \in Masters, MasterRestarts(m) PROVE Counted'
  <2>1. UNCHANGED <<attempts, succeeded>>
    BY <1>21 DEF MasterRestarts, Strike
  <2>2. DispatchersCounted'
    BY <1>21, <2>1 DEF MasterRestarts, Counted, DispatchersCounted, ListenersCounted,
         Unanswered, Earned, TypeOK, DispatcherTyped, ListenerTyped, Messages, Results
  <2>3. ListenersCounted'
    BY <1>21, <2>1 DEF MasterRestarts, Counted, ListenersCounted, DispatchersCounted,
         Unanswered, Earned, TypeOK, DispatcherTyped, ListenerTyped, Messages, Results
  <2> QED
    BY <1>21, <2>1, <2>2, <2>3, UntouchedCounted DEF MasterRestarts, dashboard, Counted,
       tables, lists
<1>22. ASSUME NEW c \in Consumers, ConsumerDies(c) PROVE Counted'
  <2>1. UNCHANGED <<attempts, succeeded>>
    BY <1>22 DEF ConsumerDies, Strike
  <2>2. ConsumersCounted'
    BY <1>22, <2>1 DEF ConsumerDies, Counted, ConsumersCounted,
         Unanswered, Earned, TypeOK, ConsumerTyped, Messages, Results
  <2> QED
    BY <1>22, <2>1, <2>2, UntouchedCounted DEF ConsumerDies, dashboard, Counted, tables, lists
<1>23. ASSUME NEW c \in Consumers, ConsumerStarts(c) PROVE Counted'
  <2>1. UNCHANGED <<attempts, succeeded>>
    BY <1>23 DEF ConsumerStarts, history
  <2>2. ConsumersCounted'
    BY <1>23, <2>1 DEF ConsumerStarts, Counted, ConsumersCounted,
         Unanswered, Earned, TypeOK, ConsumerTyped, Messages, Results
  <2> QED
    BY <1>23, <2>1, <2>2, UntouchedCounted DEF ConsumerStarts, dashboard, Counted, tables, lists
<1>24. ASSUME NEW u \in Units, CancelTask(u) PROVE Counted'
  <2>1. UNCHANGED <<attempts, succeeded>>
    BY <1>24 DEF CancelTask, history
  <2>2. RowsCounted'
    BY <1>24, <2>1 DEF CancelTask, Counted, RowsCounted, StatusTruthful,
         Unanswered, Earned, TypeOK, TablesTyped, Messages, Results
  <2> QED
    BY <1>24, <2>1, <2>2, UntouchedCounted DEF CancelTask, dashboard, Counted, tables, lists
<1>25. ASSUME NEW u \in Units, CreateTask(u) PROVE Counted'
  <2>1. UNCHANGED <<attempts, succeeded>>
    BY <1>25 DEF CreateTask, history
  <2>2. RowsCounted'
    BY <1>25, <2>1 DEF CreateTask, Counted, RowsCounted, StatusTruthful,
         Unanswered, Earned, TypeOK, TablesTyped, Messages, Results
  <2> QED
    BY <1>25, <2>1, <2>2, UntouchedCounted DEF CreateTask, dashboard, Counted, tables, lists
<1>26. CASE ClearQueue
  <2>1. UNCHANGED <<attempts, succeeded>>
    BY <1>26 DEF ClearQueue, history
  <2>2. ListsCounted'
    <3> USE DEF Counted, ListsCounted, DeadLetterSound, Unanswered, Earned
    <3>1. CASE queue' = <<>> /\ UNCHANGED <<results, dead>>
      BY <2>1, <3>1
    <3>2. CASE results' = <<>> /\ UNCHANGED <<queue, dead>>
      BY <2>1, <3>2
    <3>3. CASE dead' = {} /\ UNCHANGED <<queue, results>>
      BY <2>1, <3>3
    <3> QED
      BY <1>26, <3>1, <3>2, <3>3 DEF ClearQueue
  <2> QED
    BY <1>26, <2>1, <2>2, UntouchedCounted DEF ClearQueue, dashboard, Counted, tables, lists
<1>27. CASE PauseOrResume
  <2>1. UNCHANGED <<attempts, succeeded>>
    BY <1>27 DEF PauseOrResume, history
  <2> QED
    BY <1>27, <2>1, UntouchedCounted DEF PauseOrResume, dashboard, Counted, tables, lists
<1>28. CASE UNCHANGED vars
  BY <1>28, UntouchedCounted DEF vars, dashboard, Counted, tables, history
<1>29. CASE StartRewrite
  <2>1. UNCHANGED <<attempts, succeeded>>
    BY <1>29 DEF StartRewrite, history
  <2>2. RewriteCounted'
    BY <1>29, <2>1 DEF StartRewrite, Counted, RewriteCounted
  <2> QED
    BY <1>29, <2>1, <2>2, UntouchedCounted DEF StartRewrite, Counted, tables, lists
<1>30. CASE ReadMessage
  <2>1. UNCHANGED <<attempts, succeeded>>
    BY <1>30 DEF ReadMessage, history
  <2>2. ASSUME NEW i \in DOMAIN copied' PROVE copied'[i].retry_count <= MaxRetries
    <3>1. CASE position < Len(queue)
      <4> DEFINE m == queue[position + 1]
      <4>1. m.retry_count <= MaxRetries
        BY <3>1 DEF TypeOK, ListsTyped, DashboardTyped, Counted, ListsCounted
      <4>2. copied \in Seq(Messages)
        BY DEF TypeOK, DashboardTyped
      <4>3. copied' = Merged(copied, m)
        BY <1>30, <3>1 DEF ReadMessage
      <4>4. copied'[i] = m \/ (i \in DOMAIN copied /\ copied'[i] = copied[i])
        BY <4>2, <4>3 DEF Merged
      <4> QED
        BY <4>1, <4>4 DEF Counted, RewriteCounted
    <3>2. CASE ~(position < Len(queue))
      BY <1>30, <3>2 DEF ReadMessage, Counted, RewriteCounted
    <3> QED
      BY <3>1, <3>2
  <2>3. RewriteCounted'
    BY <1>30, <2>2 DEF ReadMessage, RewriteCounted
  <2> QED
    BY <1>30, <2>1, <2>3, UntouchedCounted DEF ReadMessage, Counted, tables, lists
<1>31. CASE DeleteQueue
  <2>1. UNCHANGED <<attempts, succeeded>>
    BY <1>31 DEF DeleteQueue
  <2>2. ListsCounted'
    BY <1>31, <2>1
    DEF DeleteQueue, Counted, ListsCounted, DeadLetterSound, Unanswered, Earned
  <2>3. ASSUME NEW i \in DOMAIN copied, rstep' = "push"
        PROVE  Unanswered(copied[i].unit, copied[i].retry_count)'
    <3>1. i \in Nat /\ copied[i] \in Messages /\ UNCHANGED copied
      BY <1>31 DEF TypeOK, DashboardTyped, DeleteQueue
    <3>2. CASE copied[i].unit \in raced'
      BY <3>1, <3>2 DEF Unanswered
    <3>3. CASE copied[i].unit \notin raced'
      <4>1. copied[i].unit \in Units /\ RewriteHas(i, copied[i].unit)'
        BY <2>3, <3>1, <3>3 DEF RewriteHas, Messages
      <4>2. PICK j \in Nat : QueueHas(j, copied[i].unit) /\ queue[j] = copied[i]
        BY <1>31, <3>1, <4>1, PushedBackWasThere
      <4> QED
        BY <2>1, <3>1, <3>3, <4>2 DEF QueueHas, Counted, ListsCounted, Unanswered
    <3> QED
      BY <3>2, <3>3
  <2>4. RewriteCounted'
    BY <1>31, <2>3 DEF DeleteQueue, Counted, RewriteCounted
  <2> QED
    BY <1>31, <2>1, <2>2, <2>4, UntouchedCounted DEF DeleteQueue, Counted, tables
<1>32. CASE PushBack
  <2>1. UNCHANGED <<attempts, succeeded>>
    BY <1>32 DEF PushBack, history
  <2>2. /\ copied # <<>> /\ copied \in Seq(Messages) /\ queue \in Seq(Messages)
        /\ rstep = "push" /\ UNCHANGED <<results, dead>>
        /\ queue' = Append(queue, Head(copied)) /\ copied' = Tail(copied)
    BY <1>32 DEF PushBack, TypeOK, ListsTyped, DashboardTyped
  <2>3. /\ 1 \in DOMAIN copied /\ Head(copied) = copied[1] /\ copied[1] \in Messages
        /\ \A i \in DOMAIN copied' : i + 1 \in DOMAIN copied /\ copied'[i] = copied[i + 1]
    BY <2>2, TailElements
  <2>4. \A i \in DOMAIN queue' :
          (i \in DOMAIN queue /\ queue'[i] = queue[i]) \/ queue'[i] = copied[1]
    BY <2>2, <2>3, AppendElements
  <2>5. ListsCounted'
    BY <2>1, <2>2, <2>3, <2>4
    DEF Counted, ListsCounted, RewriteCounted, DeadLetterSound, Unanswered, Earned
  <2>6. RewriteCounted'
    BY <2>1, <2>2, <2>3 DEF Counted, RewriteCounted, Unanswered
  <2> QED
    BY <1>32, <2>1, <2>5, <2>6, UntouchedCounted DEF PushBack, Counted, tables
<1>33. CASE RewriteFails
  <2>1. UNCHANGED <<attempts, succeeded>>
    BY <1>33 DEF RewriteFails, Strike
  <2>2. RewriteCounted'
    BY <1>33 DEF RewriteFails, RewriteCounted
  <2> QED
    BY <1>33, <2>1, <2>2, UntouchedCounted DEF RewriteFails, Counted, tables, lists
<1> QED
  BY <1>1, <1>2, <1>3, <1>4, <1>5, <1>6, <1>7, <1>8, <1>9, <1>10, <1>11, <1>12, <1>13,
     <1>14, <1>15, <1>16, <1>17, <1>18, <1>19, <1>20, <1>21, <1>22, <1>23, <1>24, <1>25,
     <1>26, <1>27, <1>28, <1>29, <1>30, <1>31, <1>32, <1>33
  DEF Next, DispatcherStep, ConsumerStep, ListenerStep, RewriteStep

-----------------------------------------------------------------------------
(* Whatever is on its way has a row.                                       *)

\* Threads and rewrites work on units that have a row, and race with no other.
Rowed ==
  /\ \A u \in raced : status[u] # "absent"
  /\ \A i \in DOMAIN copied : status[copied[i].unit] # "absent"
  /\ \A m \in Masters : dpc[m] = "mark_queued" => status[current[m]] # "absent"
  /\ \A c \in Consumers : cpc[c] \notin {"pop", "down"} => status[message[c].unit] # "absent"

\* Nobody but a rewrite touches what it reads, or makes a unit raced.
LEMMA RewriteUntouched ==
  ASSUME \/ \E m \in Masters : \/ DispatcherStep(m) \/ ListenerStep(m)
                               \/ DispatchCycleFails(m) \/ ListenerDies(m)
                               \/ MasterRestarts(m)
         \/ \E c \in Consumers : ConsumerStep(c) \/ ConsumerDies(c) \/ ConsumerStarts(c)
         \/ \E u \in Units : CancelTask(u) \/ CreateTask(u)
         \/ ClearQueue \/ PauseOrResume \/ UNCHANGED vars
  PROVE  UNCHANGED <<raced, rstep, copied>>
BY DEF vars, DispatcherStep, ListenerStep, ConsumerStep, FetchPendingTasks,
   ExpandFails, CreateOrGetTaskRecord, PublishPush, PublishMarkQueued, PublishMarkBusiness,
   PopMessage, MarkRunning, Execute, RetryPush, RetryMarkQueued, PushResult, PushDeadLetter,
   TakeResult, StoreResult, CountStep, CountUnfinished, CountFailed, CloseBusinessTask,
   DispatchCycleFails, ListenerDies, MasterRestarts, ConsumerDies, Strike, ConsumerStarts,
   CancelTask, CreateTask, ClearQueue, PauseOrResume, history, dashboard

\* What a merge leaves is what was there or what came.
LEMMA MergedUnits ==
  ASSUME NEW s \in Seq(Messages), NEW m \in Messages, NEW i \in DOMAIN Merged(s, m)
  PROVE  Merged(s, m)[i].unit = m.unit \/ \E j \in DOMAIN s : Merged(s, m)[i].unit = s[j].unit
<1>1. CASE \E j \in DOMAIN s : s[j].unit = m.unit
  BY <1>1 DEF Merged
<1>2. CASE ~\E j \in DOMAIN s : s[j].unit = m.unit
  <2>1. Merged(s, m) = Append(s, m)
    BY <1>2 DEF Merged
  <2>2. (i \in DOMAIN s /\ Append(s, m)[i] = s[i]) \/ Append(s, m)[i] = m
    BY <2>1, AppendElements
  <2> QED BY <2>1, <2>2
<1> QED BY <1>1, <1>2

\* A row is never deleted, and new only when the dispatcher takes its unit on or an
\* operator creates it.
LEMMA RowedStep ==
  ASSUME TypeOK, TypeOK', Alone, Rowed, [Next]_vars
  PROVE  /\ Rowed'
         /\ \A u \in Units : status[u] # "absent" => status'[u] # "absent"
         /\ \A u \in Units : status[u] = "absent" /\ status'[u] # "absent" =>
              CreateTask(u) \/ \E m \in Masters : DispatcherHas(m, u)'
<1>0. /\ dpc \in [Masters -> DispatcherSteps] /\ current \in [Masters -> Units \cup {Nothing}]
      /\ lpc \in [Masters -> ListenerSteps] /\ result \in [Masters -> Results \cup {Nothing}]
      /\ cpc \in [Consumers -> ConsumerSteps]
      /\ message \in [Consumers -> Messages \cup {Nothing}]
      /\ queue \in Seq(Messages) /\ status \in [Units -> Statuses]
  BY DEF TypeOK, DispatcherTyped, ListenerTyped, ListsTyped, ConsumerTyped, TablesTyped
<1>1. \A c \in Consumers : cpc[c] \notin {"pop", "down"} => message[c].unit \in Units
  BY DEF TypeOK, ConsumerTyped, Messages
<1>2. \A m \in Masters : dpc[m] \in {"push", "mark_queued", "mark_business"} =>
        current[m] \in Units
  BY DEF TypeOK, DispatcherTyped
<1>u. /\ \A i \in DOMAIN copied : copied[i] \in Messages /\ copied[i].unit \in Units
      /\ raced \subseteq Units
  <2>1. copied \in Seq(Messages) /\ raced \subseteq Units
    BY DEF TypeOK, DashboardTyped, HistoryTyped
  <2>2. \A i \in DOMAIN copied : copied[i] \in Messages
    BY <2>1
  <2> QED BY <2>1, <2>2 DEF Messages
<1> DEFINE Goal == /\ Rowed'
                   /\ \A u \in Units : status[u] # "absent" => status'[u] # "absent"
                   /\ \A u \in Units : status[u] = "absent" /\ status'[u] # "absent" =>
                        CreateTask(u) \/ \E m \in Masters : DispatcherHas(m, u)'
<1>3. ASSUME \A u \in Units : (status'[u] = "absent") <=> (status[u] = "absent"),
             UNCHANGED <<raced, copied>>,
             \A m \in Masters : dpc'[m] = "mark_queued" =>
               dpc[m] = "mark_queued" /\ current'[m] = current[m],
             \A c \in Consumers : cpc'[c] \notin {"pop", "down"} =>
               cpc[c] \notin {"pop", "down"} /\ message'[c] = message[c]
      PROVE  Goal
  BY <1>1, <1>2, <1>3, <1>u DEF Rowed
<1>4. ASSUME NEW m \in Masters, DispatcherStep(m) PROVE Goal
  <2>0. UNCHANGED <<raced, copied>>
    BY <1>4, RewriteUntouched
  <2>1. CASE FetchPendingTasks(m) \/ ExpandFails(m) \/ PublishMarkBusiness(m)
    <3>1. UNCHANGED <<status, consumer>>
      BY <2>1 DEF FetchPendingTasks, ExpandFails, PublishMarkBusiness, tables
    <3>2. \A n \in Masters : dpc'[n] = "mark_queued" =>
            dpc[n] = "mark_queued" /\ current'[n] = current[n]
      BY <1>0, <2>1 DEF FetchPendingTasks, ExpandFails, PublishMarkBusiness, LoopStep
    <3> QED BY <1>3, <2>0, <3>1, <3>2 DEF consumer
  <2>2. ASSUME NEW u \in Units, CreateOrGetTaskRecord(m, u) PROVE Goal
    <3>1. UNCHANGED consumer
      BY <2>2 DEF CreateOrGetTaskRecord
    <3>2. CASE ~WasCreated(u)
      <4>1. \A n \in Masters : dpc'[n] = "mark_queued" =>
              dpc[n] = "mark_queued" /\ current'[n] = current[n]
        BY <1>0, <2>2, <3>2 DEF CreateOrGetTaskRecord, LoopStep
      <4>2. UNCHANGED <<status>>
        BY <2>2, <3>2 DEF CreateOrGetTaskRecord
      <4> QED BY <1>3, <2>0, <3>1, <4>1, <4>2 DEF consumer
    <3>3. CASE WasCreated(u)
      <4>1. /\ \A v \in Units \ {u} : status'[v] = status[v]
            /\ status'[u] = "pending" /\ status[u] = "absent"
            /\ current' = [current EXCEPT ![m] = u] /\ dpc' = [dpc EXCEPT ![m] = "push"]
        BY <1>0, <2>2, <3>3 DEF CreateOrGetTaskRecord, WasCreated
      <4>2. DispatcherHas(m, u)'
        BY <1>0, <2>0, <4>1 DEF DispatcherHas, Rowed
      <4>3. Rowed'
        BY <1>0, <1>1, <1>2, <1>u, <2>0, <3>1, <4>1 DEF Rowed, consumer
      <4> QED BY <4>1, <4>2, <4>3
    <3> QED BY <3>2, <3>3
  <2>3. CASE PublishPush(m)
    <3>1. /\ dpc[m] = "push" /\ dpc' = [dpc EXCEPT ![m] = "mark_queued"]
          /\ UNCHANGED <<status, current, consumer>>
      BY <2>3 DEF PublishPush, tables
    <3>2. current[m] \in Units /\ status[current[m]] # "absent"
      BY <1>2, <3>1 DEF Alone, RowBeforeCopy, DispatcherHas, Rowed
    <3>3. Rowed'
      BY <1>0, <2>0, <3>1, <3>2 DEF Rowed, consumer
    <3> QED BY <3>1, <3>3
  <2>4. CASE PublishMarkQueued(m)
    <3>1. /\ dpc[m] = "mark_queued" /\ dpc' = [dpc EXCEPT ![m] = "mark_business"]
          /\ status' = [status EXCEPT ![current[m]] = "queued"]
          /\ UNCHANGED <<current, consumer>>
      BY <2>4 DEF PublishMarkQueued
    <3>2. \A u \in Units : (status'[u] = "absent") <=> (status[u] = "absent")
      BY <1>0, <3>1 DEF Rowed
    <3>3. \A n \in Masters : dpc'[n] = "mark_queued" =>
            dpc[n] = "mark_queued" /\ current'[n] = current[n]
      BY <1>0, <3>1
    <3> QED BY <1>3, <2>0, <3>1, <3>2, <3>3 DEF consumer
  <2> QED BY <1>4, <2>1, <2>2, <2>3, <2>4 DEF DispatcherStep
<1>5. ASSUME NEW m \in Masters, ListenerStep(m) PROVE Goal
  <2>0. UNCHANGED <<raced, copied, dispatcher, consumer>>
    BY <1>5, RewriteUntouched DEF ListenerStep, TakeResult, StoreResult, CountUnfinished,
       CountFailed, CountStep, CloseBusinessTask
  <2>1. CASE StoreResult(m)
    <3>1. /\ lpc[m] = "store"
          /\ status' = [status EXCEPT ![result[m].unit] = Verdict(result[m])]
      BY <2>1 DEF StoreResult
    <3>2. status[result[m].unit] # "absent" /\ result[m].unit \in Units
      BY <3>1 DEF TypeOK, ListenerTyped, Results, Alone, RowBeforeCopy, ListenerHas, Rowed
    <3>3. \A u \in Units : (status'[u] = "absent") <=> (status[u] = "absent")
      BY <1>0, <3>1, <3>2 DEF Verdict
    <3> QED BY <1>3, <2>0, <3>3 DEF dispatcher, consumer
  <2>2. CASE ~StoreResult(m)
    <3>1. UNCHANGED <<status>>
      BY <1>5, <2>2 DEF ListenerStep, TakeResult, CountUnfinished, CountFailed, CountStep,
         CloseBusinessTask, tables
    <3> QED BY <1>3, <2>0, <3>1 DEF dispatcher, consumer
  <2> QED BY <2>1, <2>2
<1>6. ASSUME NEW m \in Masters, DispatchCycleFails(m) \/ ListenerDies(m) \/ MasterRestarts(m)
      PROVE  Goal
  <2>1. UNCHANGED <<status, consumer, raced, copied>>
    BY <1>6, RewriteUntouched DEF DispatchCycleFails, ListenerDies, MasterRestarts, tables
  <2>2. \A n \in Masters : dpc'[n] = "mark_queued" =>
          dpc[n] = "mark_queued" /\ current'[n] = current[n]
    BY <1>0, <1>6 DEF DispatchCycleFails, ListenerDies, MasterRestarts, dispatcher
  <2> QED BY <1>3, <2>1, <2>2 DEF consumer
<1>7. ASSUME NEW c \in Consumers, ConsumerStep(c) \/ ConsumerDies(c) \/ ConsumerStarts(c)
      PROVE  Goal
  <2>1. UNCHANGED <<dispatcher, raced, copied>>
    BY <1>7, RewriteUntouched DEF ConsumerStep, PopMessage, MarkRunning, Execute, RetryPush,
       RetryMarkQueued,
       PushResult, PushDeadLetter, ConsumerDies, ConsumerStarts
  <2>2. CASE PopMessage(c)
    <3>1. /\ queue # <<>> /\ message' = [message EXCEPT ![c] = Head(queue)]
          /\ cpc' = [cpc EXCEPT ![c] = "mark_running"] /\ UNCHANGED <<status>>
      BY <2>2 DEF PopMessage, tables
    <3>2. 1 \in DOMAIN queue /\ 1 \in Nat /\ Head(queue) = queue[1] /\ queue[1] \in Messages
      BY <1>0, <3>1
    <3>3. queue[1].unit \in Units /\ (queue[1].unit \in raced \/ QueueHas(1, queue[1].unit))
      BY <3>2 DEF QueueHas, Messages
    <3>4. status[queue[1].unit] # "absent"
      BY <3>2, <3>3 DEF Alone, RowBeforeCopy, Rowed
    <3>5. Rowed'
      BY <1>0, <2>1, <3>1, <3>2, <3>4 DEF Rowed, dispatcher
    <3> QED BY <3>1, <3>5
  <2>3. CASE ~PopMessage(c)
    <3>1. \A u \in Units : (status'[u] = "absent") <=> (status[u] = "absent")
      BY <1>0, <1>1, <1>7, <2>3 DEF Rowed, ConsumerStep, MarkRunning, Execute, RetryPush,
         RetryMarkQueued, PushResult, PushDeadLetter, ConsumerDies, ConsumerStarts, tables
    <3>2. \A d \in Consumers : cpc'[d] \notin {"pop", "down"} =>
            cpc[d] \notin {"pop", "down"} /\ message'[d] = message[d]
      BY <1>0, <1>7, <2>3 DEF ConsumerStep, MarkRunning, Execute, RetryPush, RetryMarkQueued,
         PushResult, AfterReport, HeldAfterReport, PushDeadLetter, ConsumerDies, ConsumerStarts
    <3> QED BY <1>3, <2>1, <3>1, <3>2 DEF dispatcher
  <2> QED BY <2>2, <2>3
<1>8. ASSUME NEW u \in Units, CancelTask(u) PROVE Goal
  <2>1. \A v \in Units : (status'[v] = "absent") <=> (status[v] = "absent")
    BY <1>0, <1>8 DEF CancelTask
  <2>2. UNCHANGED <<dispatcher, consumer, raced, copied>>
    BY <1>8, RewriteUntouched DEF CancelTask
  <2> QED BY <1>3, <2>1, <2>2 DEF dispatcher, consumer
<1>9. ASSUME NEW u \in Units, CreateTask(u) PROVE Goal
  <2>1. /\ \A v \in Units \ {u} : status'[v] = status[v]
        /\ status[u] = "absent" /\ status'[u] # "absent"
    BY <1>0, <1>9 DEF CreateTask
  <2>2. UNCHANGED <<dispatcher, consumer, raced, copied>>
    BY <1>9, RewriteUntouched DEF CreateTask
  <2>3. Rowed'
    BY <1>1, <1>2, <1>u, <2>1, <2>2 DEF Rowed, dispatcher, consumer
  <2>4. \A v \in Units : status[v] = "absent" /\ status'[v] # "absent" => v = u
    BY <2>1
  <2> QED BY <1>9, <2>1, <2>3, <2>4
<1>10. CASE ClearQueue \/ PauseOrResume \/ UNCHANGED vars
  <2>1. UNCHANGED <<status, dispatcher, consumer, raced, copied>>
    BY <1>10, RewriteUntouched DEF ClearQueue, PauseOrResume, vars, tables
  <2> QED BY <1>3, <2>1 DEF dispatcher, consumer
<1>11. CASE StartRewrite \/ RewriteFails
  <2>1. UNCHANGED <<status, dispatcher, consumer, raced>>
    BY <1>11 DEF StartRewrite, RewriteFails, Strike, tables, history
  <2>2. copied' = copied \/ copied' = <<>>
    BY <1>11 DEF StartRewrite, RewriteFails
  <2> QED BY <2>1, <2>2 DEF Rowed, dispatcher, consumer
<1>12. CASE ReadMessage
  <2>1. UNCHANGED <<status, dispatcher, consumer, raced>>
    BY <1>12 DEF ReadMessage, tables, history
  <2>2. CASE copied' = copied
    BY <2>1, <2>2 DEF Rowed, dispatcher, consumer
  <2>3. CASE copied' # copied
    <3> DEFINE m == queue[position + 1]
    <3>1. copied' = Merged(copied, m) /\ position < Len(queue) /\ position \in Nat
      BY <1>12, <2>3 DEF ReadMessage, TypeOK, DashboardTyped
    <3>2. m \in Messages /\ position + 1 \in DOMAIN queue /\ position + 1 \in Nat
      BY <1>0, <3>1
    <3>3. m.unit \in Units /\ (m.unit \in raced \/ QueueHas(position + 1, m.unit))
      BY <3>2 DEF Messages, QueueHas
    <3>4. status[m.unit] # "absent"
      BY <3>2, <3>3 DEF Alone, RowBeforeCopy, Rowed
    <3> HIDE DEF m
    <3>5. copied \in Seq(Messages)
      BY DEF TypeOK, DashboardTyped
    <3>6. \A i \in DOMAIN copied' :
            copied'[i].unit = m.unit \/ \E j \in DOMAIN copied : copied'[i].unit = copied[j].unit
      BY <3>1, <3>2, <3>5, MergedUnits
    <3>7. \A i \in DOMAIN copied' : status[copied'[i].unit] # "absent"
      BY <3>4, <3>6 DEF Rowed
    <3> QED BY <2>1, <3>7 DEF Rowed, dispatcher, consumer
  <2> QED BY <2>2, <2>3
<1>13. CASE DeleteQueue
  <2>1. UNCHANGED <<status, dispatcher, consumer, copied>> /\ raced' = raced \cup Outdated
    BY <1>13 DEF DeleteQueue, tables
  <2>2. ASSUME NEW u \in Outdated PROVE status[u] # "absent"
    <3>1. /\ u \in Units
          /\ \/ \E i \in DOMAIN queue : queue[i].unit = u
             \/ \E i \in DOMAIN copied : copied[i].unit = u
      BY <2>2 DEF Outdated, Elements
    <3>2. DOMAIN queue \subseteq Nat
      BY <1>0
    <3> QED BY <3>1, <3>2 DEF QueueHas, Alone, RowBeforeCopy, Rowed
  <2> QED BY <2>1, <2>2 DEF Rowed, dispatcher, consumer
<1>14. CASE PushBack
  <2>1. UNCHANGED <<status, dispatcher, consumer, raced>> /\ copied' = Tail(copied) /\ copied # <<>>
    BY <1>14 DEF PushBack, TypeOK, DashboardTyped, tables, history
  <2>2. \A i \in DOMAIN copied' : \E j \in DOMAIN copied : copied'[i] = copied[j]
    BY <2>1, TailElements DEF TypeOK, DashboardTyped
  <2>3. \A i \in DOMAIN copied' : status[copied'[i].unit] # "absent"
    BY <2>2 DEF Rowed
  <2> QED BY <2>1, <2>3 DEF Rowed, dispatcher, consumer
<1> QED
  BY <1>4, <1>5, <1>6, <1>7, <1>8, <1>9, <1>10, <1>11, <1>12, <1>13, <1>14
  DEF Next, RewriteStep

-----------------------------------------------------------------------------
(* The theorems.                                                           *)

\* Every unit starts without a row, a copy or a crawl.
LEMMA InitOK == Init => TypeOK /\ Alone /\ Counted /\ Rowed
<1> SUFFICES ASSUME Init PROVE TypeOK /\ Alone /\ Counted /\ Rowed
  OBVIOUS
<1> USE PipelineAssumption DEF PipelineAssumption, Init
<1>1. TypeOK
  <2>1. TablesTyped
    BY DEF TablesTyped, Statuses, BusinessStatuses
  <2>2. ListsTyped
    <3>1. <<>> \in Seq(Messages) /\ <<>> \in Seq(Results)
      OBVIOUS
    <3> QED
      BY <3>1 DEF ListsTyped
  <2>3. DispatcherTyped
    BY DEF DispatcherTyped, DispatcherSteps
  <2>4. ConsumerTyped
    BY DEF ConsumerTyped, ConsumerSteps
  <2>5. ListenerTyped
    BY DEF ListenerTyped, ListenerSteps
  <2>6. HistoryTyped
    BY DEF HistoryTyped
  <2>7. DashboardTyped
    <3>1. copied \in Seq(Messages) /\ \A i, j \in DOMAIN copied : i = j
      OBVIOUS
    <3>2. {extent, position} \subseteq Nat /\ rewrites \in 0..MaxRewrites
      OBVIOUS
    <3> QED
      BY <3>1, <3>2 DEF DashboardTyped, RewriteSteps
  <2>8. faults \in 0..MaxFaults
    OBVIOUS
  <2> QED
    BY <2>1, <2>2, <2>3, <2>4, <2>5, <2>6, <2>7, <2>8 DEF TypeOK
<1>2. Alone
  BY DEF Alone, OnePlaceOfAKind, OneKindOfPlace, RowBeforeCopy,
     DispatcherHas, QueueHas, RewriteHas, ConsumerHas, ResultsHave, ListenerHas
<1>3. Counted
  BY DEF Counted, AttemptsBounded, RowsCounted, StatusTruthful, ListsCounted, DeadLetterSound,
     DispatchersCounted, ConsumersCounted, ListenersCounted, RewriteCounted, Unanswered
<1>4. Rowed
  BY DEF Rowed
<1> QED
  BY <1>1, <1>2, <1>3, <1>4

\* Every reachable state of the pipeline is well typed, whatever the numbers of
\* masters, consumers, units and retries.
THEOREM TypeCorrect == Spec => []TypeOK
<1>1. Init => TypeOK
  BY InitOK
<1>2. TypeOK /\ [Next]_vars => TypeOK'
  BY TypeStep
<1> QED
  BY <1>1, <1>2, PTL DEF Spec

\* The inductive invariant behind the four theorems that follow.
PipelineInvariant == TypeOK /\ Alone /\ Counted /\ Rowed

\* It holds in every reachable state.
LEMMA InvariantHolds == Spec => []PipelineInvariant
<1>1. Init => PipelineInvariant
  BY InitOK DEF PipelineInvariant
<1>2. PipelineInvariant /\ [Next]_vars => PipelineInvariant'
  BY TypeStep, AloneStep, CountedStep, RowedStep DEF PipelineInvariant
<1> QED
  BY <1>1, <1>2, PTL DEF Spec

\* Nowhere are two copies of one unit, so no two crawlers ever work on the same unit
\* and no unit gets two results, however masters, consumers, crashes and dashboard
\* operations interleave, as long as no rewrite of the queue raced with the unit.
THEOREM OneCopyAlways == Spec => []OneCopy
<1>1. TypeOK /\ Alone => OneCopy
  <2> SUFFICES ASSUME TypeOK, Alone, NEW u \in Units, NEW p \in Copies(u), NEW q \in Copies(u)
               PROVE  p = q
    BY DEF OneCopy
  <2> DEFINE Place(r) ==
        \/ \E m \in Masters : r = <<"dispatcher", m>> /\ DispatcherHas(m, u)
        \/ \E i \in Nat : r = <<"queue", i>> /\ QueueHas(i, u)
        \/ \E i \in Nat : r = <<"rewrite", i>> /\ RewriteHas(i, u)
        \/ \E c \in Consumers : r = <<"consumer", c>> /\ ConsumerHas(c, u)
        \/ \E i \in Nat : r = <<"results", i>> /\ ResultsHave(i, u)
        \/ \E m \in Masters : r = <<"listener", m>> /\ ListenerHas(m, u)
  <2>1. DOMAIN queue \subseteq Nat /\ DOMAIN copied \subseteq Nat /\ DOMAIN results \subseteq Nat
    BY DEF TypeOK, ListsTyped, DashboardTyped
  <2>2. Place(p) /\ Place(q)
    BY <2>1 DEF Copies
  <2>3. ASSUME NEW m \in Masters, p = <<"dispatcher", m>>, DispatcherHas(m, u) PROVE p = q
    BY <2>2, <2>3 DEF Alone, OnePlaceOfAKind, OneKindOfPlace
  <2>4. ASSUME NEW i \in Nat, p = <<"queue", i>>, QueueHas(i, u) PROVE p = q
    BY <2>2, <2>4 DEF Alone, OnePlaceOfAKind, OneKindOfPlace
  <2>5. ASSUME NEW c \in Consumers, p = <<"consumer", c>>, ConsumerHas(c, u) PROVE p = q
    BY <2>2, <2>5 DEF Alone, OnePlaceOfAKind, OneKindOfPlace
  <2>6. ASSUME NEW i \in Nat, p = <<"results", i>>, ResultsHave(i, u) PROVE p = q
    BY <2>2, <2>6 DEF Alone, OnePlaceOfAKind, OneKindOfPlace
  <2>7. ASSUME NEW m \in Masters, p = <<"listener", m>>, ListenerHas(m, u) PROVE p = q
    BY <2>2, <2>7 DEF Alone, OnePlaceOfAKind, OneKindOfPlace
  <2>8. ASSUME NEW i \in Nat, p = <<"rewrite", i>>, RewriteHas(i, u) PROVE p = q
    BY <2>2, <2>8 DEF Alone, OnePlaceOfAKind, OneKindOfPlace
  <2> QED
    BY <2>2, <2>3, <2>4, <2>5, <2>6, <2>7, <2>8
<1>2. PipelineInvariant => OneCopy
  BY <1>1 DEF PipelineInvariant
<1> QED
  BY <1>2, InvariantHolds, PTL

\* The crawler never runs for a unit more often than the first try plus the
\* configured retries, unless a rewrite of the queue raced with the unit.
THEOREM AttemptsAlwaysBounded == Spec => []AttemptsBounded
<1>1. PipelineInvariant => AttemptsBounded
  BY DEF PipelineInvariant, Counted
<1> QED
  BY <1>1, InvariantHolds, PTL

\* A dead letter stands for used-up retries and for a unit that was never answered,
\* unless a rewrite of the queue raced with the unit.
THEOREM DeadLettersAlwaysSound == Spec => []DeadLetterSound
<1>1. PipelineInvariant => DeadLetterSound
  BY DEF PipelineInvariant, Counted, ListsCounted
<1> QED
  BY <1>1, InvariantHolds, PTL

\* A completed row stands for an answered unit and, unless a rewrite of the queue raced
\* with the unit, a failed one for used-up retries.
THEOREM StatusAlwaysTruthful == Spec => []StatusTruthful
<1>1. PipelineInvariant => StatusTruthful
  BY DEF PipelineInvariant, Counted, RowsCounted
<1> QED
  BY <1>1, InvariantHolds, PTL

-----------------------------------------------------------------------------
(* Failures and their dead letters.                                        *)

\* The units whose dead letter is there, or is about to be written by a consumer, or was
\* about to be written by one that died.
DeadOrSoon ==
  {u \in Units : u \in dead \cup unburied
                 \/ \E c \in Consumers : cpc[c] = "push_dead" /\ message[c].unit = u}

\* The claims of a failure, from the result's push to the row.
FailuresFollowed ==
  /\ \A u \in Units : status[u] = "failed" => u \in DeadOrSoon
  /\ \A i \in DOMAIN results : ~results[i].success => results[i].unit \in DeadOrSoon
  /\ \A m \in Masters : lpc[m] = "store" /\ ~result[m].success => result[m].unit \in DeadOrSoon

\* A consumer that is about to write a dead letter writes it or dies, and one that is
\* there stays: the dashboard alone removes any.
LEMMA DeadLettersStay ==
  ASSUME TypeOK, [Next]_vars, "clear" \notin Operations,
         NEW u \in DeadOrSoon
  PROVE  u \in DeadOrSoon'
<1>1. ASSUME dead \subseteq dead', unburied \subseteq unburied', UNCHANGED <<cpc, message>>
      PROVE  u \in DeadOrSoon'
  BY <1>1 DEF DeadOrSoon
<1>2. ASSUME NEW c \in Consumers, dead \subseteq dead', unburied \subseteq unburied',
             \A d \in Consumers \ {c} : cpc'[d] = cpc[d] /\ message'[d] = message[d],
             cpc[c] = "push_dead" => message[c].unit \in dead' \cup unburied'
      PROVE  u \in DeadOrSoon'
  BY <1>2 DEF DeadOrSoon
<1>3. ASSUME NEW m \in Masters, \/ DispatcherStep(m) \/ ListenerStep(m) \/ DispatchCycleFails(m)
                                \/ ListenerDies(m) \/ MasterRestarts(m)
      PROVE  u \in DeadOrSoon'
  BY <1>1, <1>3 DEF DispatcherStep, FetchPendingTasks, ExpandFails, CreateOrGetTaskRecord,
     PublishPush, PublishMarkQueued, PublishMarkBusiness, ListenerStep, TakeResult, StoreResult,
     CountStep, CountUnfinished, CountFailed, CloseBusinessTask, DispatchCycleFails,
     ListenerDies, MasterRestarts, lists, consumer, history
<1>4. ASSUME NEW c \in Consumers, ConsumerStep(c) \/ ConsumerDies(c) \/ ConsumerStarts(c)
      PROVE  u \in DeadOrSoon'
  <2>1. cpc \in [Consumers -> ConsumerSteps] /\ message \in [Consumers -> Messages \cup {Nothing}]
    BY DEF TypeOK, ConsumerTyped
  <2>2. \A d \in Consumers \ {c} : cpc'[d] = cpc[d] /\ message'[d] = message[d]
    BY <1>4, <2>1 DEF ConsumerStep, PopMessage, MarkRunning, Execute, RetryPush,
       RetryMarkQueued, PushResult, PushDeadLetter, ConsumerDies, ConsumerStarts
  <2>3. /\ dead \subseteq dead' /\ unburied \subseteq unburied'
        /\ cpc[c] = "push_dead" => message[c].unit \in dead' \cup unburied'
    BY <1>4 DEF ConsumerStep, PopMessage, MarkRunning, Execute, RetryPush, RetryMarkQueued,
       PushResult, PushDeadLetter, ConsumerDies, ConsumerStarts, lists, history
  <2> QED BY <1>2, <2>2, <2>3
<1>5. ASSUME NEW v \in Units, CancelTask(v) \/ CreateTask(v) PROVE u \in DeadOrSoon'
  BY <1>1, <1>5 DEF CancelTask, CreateTask, lists, consumer, history
<1>6. CASE PauseOrResume \/ RewriteStep \/ RewriteFails
  BY <1>1, <1>6 DEF PauseOrResume, RewriteStep, StartRewrite, ReadMessage, DeleteQueue,
     PushBack, RewriteFails, lists, consumer, history
<1>7. CASE UNCHANGED vars
  BY <1>1, <1>7 DEF vars, lists, consumer, history
<1>8. ~ClearQueue
  BY DEF ClearQueue
<1> QED BY <1>3, <1>4, <1>5, <1>6, <1>7, <1>8 DEF Next

\* The claims of a failure change hands: from the crawl to the list, to the listener,
\* to the row.
LEMMA FollowedStep ==
  ASSUME TypeOK, [Next]_vars, FailuresFollowed, "clear" \notin Operations
  PROVE  FailuresFollowed'
<1>1. FailuresFollowed
  OBVIOUS
<1>2. DeadOrSoon \subseteq DeadOrSoon'
  BY DeadLettersStay
<1>3. ASSUME \A u \in Units : status'[u] = "failed" => status[u] = "failed",
             UNCHANGED <<results, listener>>
      PROVE  FailuresFollowed'
  BY <1>1, <1>2, <1>3 DEF FailuresFollowed, listener
<1>4. /\ results \in Seq(Results) /\ status \in [Units -> Statuses]
      /\ result \in [Masters -> Results \cup {Nothing}] /\ lpc \in [Masters -> ListenerSteps]
  BY DEF TypeOK, TablesTyped, ListsTyped, ListenerTyped
<1>5. ASSUME NEW m \in Masters, DispatcherStep(m) PROVE FailuresFollowed'
  <2>1. \A u \in Units : status'[u] = "failed" => status[u] = "failed"
    BY <1>4, <1>5 DEF DispatcherStep, FetchPendingTasks, ExpandFails, CreateOrGetTaskRecord,
       PublishPush, PublishMarkQueued, PublishMarkBusiness, tables
  <2>2. UNCHANGED <<results, listener>>
    BY <1>5 DEF DispatcherStep, FetchPendingTasks, ExpandFails, CreateOrGetTaskRecord,
       PublishPush, PublishMarkQueued, PublishMarkBusiness, lists
  <2> QED BY <1>3, <2>1, <2>2
<1>6. ASSUME NEW c \in Consumers, ConsumerStep(c) \/ ConsumerDies(c) \/ ConsumerStarts(c)
      PROVE  FailuresFollowed'
  <2>1. CASE PushResult(c)
    <3> DEFINE new == [unit |-> message[c].unit, success |-> success[c]]
    <3>1. /\ message[c] \in Messages /\ success[c] \in BOOLEAN
          /\ cpc \in [Consumers -> ConsumerSteps]
          /\ message \in [Consumers -> Messages \cup {Nothing}]
      BY <2>1 DEF PushResult, TypeOK, ConsumerTyped
    <3>2. /\ results' = Append(results, new) /\ UNCHANGED <<status, listener>>
          /\ new.unit = message[c].unit /\ new.success = success[c] /\ new.unit \in Units
      BY <2>1, <3>1 DEF PushResult, Messages, tables
    <3>3. new \in Results
      BY <3>1 DEF Results, Messages
    <3>4. ~success[c] => cpc'[c] = "push_dead" /\ message'[c] = message[c]
      BY <2>1, <3>1 DEF PushResult, AfterReport, HeldAfterReport
    <3>5. ~new.success => new.unit \in DeadOrSoon'
      BY <3>2, <3>4 DEF DeadOrSoon
    <3> HIDE DEF new
    <3>6. ASSUME NEW i \in DOMAIN results'
          PROVE  (i \in DOMAIN results /\ results'[i] = results[i]) \/ results'[i] = new
      BY <1>4, <3>2, <3>3
    <3>7. \A i \in DOMAIN results' : ~results'[i].success => results'[i].unit \in DeadOrSoon'
      BY <1>1, <1>2, <3>5, <3>6 DEF FailuresFollowed
    <3> QED BY <1>1, <1>2, <3>2, <3>7 DEF FailuresFollowed, listener
  <2>2. CASE ~PushResult(c)
    <3>1. \A u \in Units : status'[u] = "failed" => status[u] = "failed"
      BY <1>4, <1>6, <2>2 DEF ConsumerStep, PopMessage, MarkRunning, Execute, RetryPush,
         RetryMarkQueued, PushDeadLetter, ConsumerDies, ConsumerStarts, tables
    <3>2. UNCHANGED <<results, listener>>
      BY <1>6, <2>2 DEF ConsumerStep, PopMessage, MarkRunning, Execute, RetryPush,
         RetryMarkQueued, PushDeadLetter, ConsumerDies, ConsumerStarts, lists
    <3> QED BY <1>3, <3>1, <3>2
  <2> QED BY <2>1, <2>2
<1>7. ASSUME NEW m \in Masters, ListenerStep(m) PROVE FailuresFollowed'
  <2>1. CASE TakeResult(m)
    <3>1. /\ results # <<>> /\ result' = [result EXCEPT ![m] = Head(results)]
          /\ results' = Tail(results) /\ lpc' = [lpc EXCEPT ![m] = "store"]
          /\ UNCHANGED <<status>>
      BY <2>1 DEF TakeResult, tables
    <3>2. 1 \in DOMAIN results /\ Head(results) = results[1]
      BY <1>4, <3>1
    <3>3. \A i \in DOMAIN results' : i + 1 \in DOMAIN results /\ results'[i] = results[i + 1]
      BY <1>4, <3>1
    <3>4. \A i \in DOMAIN results' : ~results'[i].success => results'[i].unit \in DeadOrSoon'
      BY <1>1, <1>2, <3>3 DEF FailuresFollowed
    <3>5. \A n \in Masters : lpc'[n] = "store" /\ ~result'[n].success =>
            result'[n].unit \in DeadOrSoon'
      BY <1>1, <1>2, <1>4, <3>1, <3>2 DEF FailuresFollowed
    <3> QED BY <1>1, <1>2, <3>1, <3>4, <3>5 DEF FailuresFollowed
  <2>2. CASE StoreResult(m)
    <3>1. /\ lpc[m] = "store" /\ UNCHANGED <<results, result>>
          /\ status' = [status EXCEPT ![result[m].unit] = Verdict(result[m])]
          /\ lpc' = [lpc EXCEPT ![m] = "count_unfinished"]
      BY <2>2 DEF StoreResult, lists
    <3>2. \A u \in Units : status'[u] = "failed" => u \in DeadOrSoon
      BY <1>1, <1>4, <3>1 DEF FailuresFollowed, Verdict
    <3>3. \A n \in Masters : lpc'[n] = "store" => lpc[n] = "store"
      BY <1>4, <3>1
    <3> QED BY <1>1, <1>2, <3>1, <3>2, <3>3 DEF FailuresFollowed
  <2>3. CASE CountUnfinished(m) \/ CountFailed(m) \/ CloseBusinessTask(m)
    <3>1. UNCHANGED <<status, results>>
      BY <2>3 DEF CountUnfinished, CountFailed, CountStep, CloseBusinessTask, tables, lists
    <3>2. \A n \in Masters : lpc'[n] = "store" => lpc[n] = "store" /\ result'[n] = result[n]
      BY <1>4, <2>3 DEF CountUnfinished, CountFailed, CountStep, CloseBusinessTask
    <3> QED BY <1>1, <1>2, <3>1, <3>2 DEF FailuresFollowed
  <2> QED BY <1>7, <2>1, <2>2, <2>3 DEF ListenerStep
<1>8. ASSUME NEW u \in Units, CancelTask(u) \/ CreateTask(u) PROVE FailuresFollowed'
  BY <1>3, <1>4, <1>8 DEF CancelTask, CreateTask, lists
<1>9. CASE PauseOrResume \/ RewriteStep \/ RewriteFails \/ UNCHANGED vars
  BY <1>3, <1>9 DEF PauseOrResume, RewriteStep, StartRewrite, ReadMessage, DeleteQueue,
     PushBack, RewriteFails, vars, tables, lists
<1>11. ASSUME NEW m \in Masters, DispatchCycleFails(m) \/ ListenerDies(m) \/ MasterRestarts(m)
       PROVE  FailuresFollowed'
  <2>1. UNCHANGED <<status, results>>
    BY <1>11 DEF DispatchCycleFails, ListenerDies, MasterRestarts, tables, lists
  <2>2. \A n \in Masters : lpc'[n] = "store" => lpc[n] = "store" /\ result'[n] = result[n]
    BY <1>4, <1>11 DEF DispatchCycleFails, ListenerDies, MasterRestarts, listener
  <2> QED BY <1>1, <1>2, <2>1, <2>2 DEF FailuresFollowed
<1>10. ~ClearQueue
  BY DEF ClearQueue
<1> QED BY <1>5, <1>6, <1>7, <1>8, <1>9, <1>10, <1>11 DEF Next

\* As long as no operator clears the queues, a failed row has its dead letter or a
\* consumer that is about to write it (consumers/base.py pushes the result first), or
\* its consumer died between the result and the dead letter.
THEOREM FailuresHaveDeadLetters ==
  ASSUME "clear" \notin Operations
  PROVE  Spec => []FailureHasDeadLetter
<1>1. Init => FailuresFollowed
  BY DEF Init, FailuresFollowed
<1>2. TypeOK /\ FailuresFollowed /\ [Next]_vars => FailuresFollowed'
  BY FollowedStep
<1>3. FailuresFollowed => FailureHasDeadLetter
  BY DEF FailuresFollowed, DeadOrSoon, FailureHasDeadLetter
<1> QED BY <1>1, <1>2, <1>3, TypeCorrect, PTL DEF Spec

-----------------------------------------------------------------------------
(* The life cycle of a unit.                                               *)

\* Where the units are, those that a rewrite raced with included.
AtDispatchers == {u \in Units : \E m \in Masters : dpc[m] = "push" /\ current[m] = u}
InQueue == {u \in Units : \E i \in DOMAIN queue : queue[i].unit = u}
Rewriting == {u \in Units : rstep = "push" /\ \E i \in DOMAIN copied : copied[i].unit = u}
AtConsumers ==
  {u \in Units : \E c \in Consumers :
     /\ cpc[c] \in {"mark_running", "execute", "retry_push", "push_result"}
     /\ message[c].unit = u}
InResults == {u \in Units : \E i \in DOMAIN results : results[i].unit = u}
AtListeners == {u \in Units : \E m \in Masters : lpc[m] = "store" /\ result[m].unit = u}

Waiting == InQueue \cup Rewriting
Reported == InResults \cup AtListeners
Held == AtDispatchers \cup Waiting \cup AtConsumers \cup Reported

Stage == [u \in Units |-> StageOf(u)]

\* What a step leaves alone holds what it held.
LEMMA UntouchedHold ==
  /\ UNCHANGED dispatcher => AtDispatchers' = AtDispatchers
  /\ UNCHANGED queue => InQueue' = InQueue
  /\ UNCHANGED <<rstep, copied>> => Rewriting' = Rewriting
  /\ UNCHANGED consumer => AtConsumers' = AtConsumers
  /\ UNCHANGED results => InResults' = InResults
  /\ UNCHANGED listener => AtListeners' = AtListeners
<1>1. UNCHANGED dispatcher => AtDispatchers' = AtDispatchers
  BY DEF dispatcher, AtDispatchers
<1>2. UNCHANGED queue => InQueue' = InQueue
  BY DEF InQueue
<1>3. UNCHANGED consumer => AtConsumers' = AtConsumers
  BY DEF consumer, AtConsumers
<1>4. UNCHANGED results => InResults' = InResults
  BY DEF InResults
<1>5. UNCHANGED listener => AtListeners' = AtListeners
  BY DEF listener, AtListeners
<1>6. UNCHANGED <<rstep, copied>> => Rewriting' = Rewriting
  BY DEF Rewriting
<1> QED BY <1>1, <1>2, <1>3, <1>4, <1>5, <1>6

\* What a push adds to a list, and what a pop takes from it.
LEMMA PushedUnits ==
  ASSUME NEW S, NEW q \in Seq(S), NEW e \in S
  PROVE  /\ \A i \in DOMAIN q : i \in DOMAIN Append(q, e) /\ Append(q, e)[i] = q[i]
         /\ \E i \in DOMAIN Append(q, e) : Append(q, e)[i] = e
<1>1. Len(q) + 1 \in DOMAIN Append(q, e) /\ Append(q, e)[Len(q) + 1] = e
  OBVIOUS
<1>2. \A i \in DOMAIN q : i \in DOMAIN Append(q, e) /\ Append(q, e)[i] = q[i]
  OBVIOUS
<1> QED BY <1>1, <1>2

LEMMA PoppedUnits ==
  ASSUME NEW S, NEW q \in Seq(S), q # <<>>
  PROVE  \A i \in DOMAIN q : q[i] = Head(q) \/ \E j \in DOMAIN Tail(q) : Tail(q)[j] = q[i]
<1>1. ASSUME NEW i \in DOMAIN q, i # 1 PROVE i - 1 \in DOMAIN Tail(q) /\ Tail(q)[i - 1] = q[i]
  BY <1>1
<1>2. q[1] = Head(q)
  OBVIOUS
<1> QED BY <1>1, <1>2

\* A unit is in one place, and its stage is that of the place.
StagesRight ==
  \A u \in Units :
    /\ u \in raced => Stage[u] = "gone" /\ status[u] # "absent"
    /\ u \notin raced =>
         /\ u \in AtDispatchers =>
              Stage[u] = "assigned" /\ u \notin Waiting \cup AtConsumers \cup Reported
         /\ u \in Waiting =>
              Stage[u] = "waiting" /\ u \notin AtDispatchers \cup AtConsumers \cup Reported
         /\ u \in AtConsumers =>
              Stage[u] = "working" /\ u \notin AtDispatchers \cup Waiting \cup Reported
         /\ u \in Reported =>
              Stage[u] = "reported" /\ u \notin AtDispatchers \cup Waiting \cup AtConsumers
         /\ u \notin Held => Stage[u] = IF status[u] = "absent" THEN "fresh" ELSE "gone"
         /\ status[u] = "absent" => u \notin Held

LEMMA StagesAreRight == TypeOK /\ Alone /\ Rowed => StagesRight
<1> SUFFICES ASSUME TypeOK, Alone, Rowed, NEW u \in Units
             PROVE  /\ u \in raced => Stage[u] = "gone" /\ status[u] # "absent"
                    /\ u \notin raced =>
                         /\ u \in AtDispatchers =>
                              /\ Stage[u] = "assigned"
                              /\ u \notin Waiting \cup AtConsumers \cup Reported
                         /\ u \in Waiting =>
                              /\ Stage[u] = "waiting"
                              /\ u \notin AtDispatchers \cup AtConsumers \cup Reported
                         /\ u \in AtConsumers =>
                              /\ Stage[u] = "working"
                              /\ u \notin AtDispatchers \cup Waiting \cup Reported
                         /\ u \in Reported =>
                              /\ Stage[u] = "reported"
                              /\ u \notin AtDispatchers \cup Waiting \cup AtConsumers
                         /\ u \notin Held =>
                              Stage[u] = IF status[u] = "absent" THEN "fresh" ELSE "gone"
                         /\ status[u] = "absent" => u \notin Held
  BY DEF StagesRight
<1>1. DOMAIN queue \subseteq Nat /\ DOMAIN copied \subseteq Nat /\ DOMAIN results \subseteq Nat
  BY DEF TypeOK, ListsTyped, DashboardTyped
<1>2. CASE u \in raced
  <2>1. /\ \A m \in Masters : ~DispatcherHas(m, u) /\ ~ListenerHas(m, u)
        /\ \A i : ~QueueHas(i, u) /\ ~RewriteHas(i, u) /\ ~ResultsHave(i, u)
        /\ \A c \in Consumers : ~ConsumerHas(c, u)
    BY <1>2 DEF DispatcherHas, ListenerHas, QueueHas, RewriteHas, ResultsHave, ConsumerHas
  <2>2. status[u] # "absent"
    BY <1>2 DEF Rowed
  <2>3. Stage[u] = "gone"
    BY <2>1, <2>2 DEF Stage, StageOf
  <2> QED BY <1>2, <2>2, <2>3
<1>3. CASE u \notin raced
  <2>1. /\ u \in AtDispatchers <=> \E m \in Masters : DispatcherHas(m, u)
        /\ u \in AtConsumers <=> \E c \in Consumers : ConsumerHas(c, u)
        /\ u \in AtListeners <=> \E m \in Masters : ListenerHas(m, u)
    BY <1>3 DEF AtDispatchers, AtConsumers, AtListeners, DispatcherHas, ConsumerHas, ListenerHas
  <2>2. /\ u \in InQueue <=> \E i \in DOMAIN queue : QueueHas(i, u)
        /\ u \in Rewriting <=> \E i \in DOMAIN copied : RewriteHas(i, u)
        /\ u \in InResults <=> \E i \in DOMAIN results : ResultsHave(i, u)
    BY <1>3 DEF InQueue, Rewriting, InResults, QueueHas, RewriteHas, ResultsHave
  <2>3. /\ u \in AtDispatchers => u \notin Waiting \cup AtConsumers \cup Reported
        /\ u \in Waiting => u \notin AtConsumers \cup Reported
        /\ u \in AtConsumers => u \notin Reported
    BY <1>1, <2>1, <2>2 DEF Alone, OneKindOfPlace, Waiting, Reported
  <2>4. status[u] = "absent" => u \notin Held
    BY <1>1, <2>1, <2>2 DEF Alone, RowBeforeCopy, Held, Waiting, Reported
  <2>5. Stage[u] = CASE u \in AtDispatchers -> "assigned"
                     [] u \in Waiting       -> "waiting"
                     [] u \in AtConsumers   -> "working"
                     [] u \in Reported      -> "reported"
                     [] OTHER -> IF status[u] = "absent" THEN "fresh" ELSE "gone"
    BY <2>1, <2>2 DEF Stage, StageOf, Waiting, Reported
  <2> QED BY <1>3, <2>3, <2>4, <2>5 DEF Held
<1> QED BY <1>2, <1>3

LEMMA StagesAreRightNext == TypeOK' /\ Alone' /\ Rowed' => StagesRight'
BY StagesAreRight, PTL

\* A step that takes no unit anywhere new, but for units that a rewrite raced with, lets
\* units leave, if anything.
LEMMA UnitsLeave ==
  ASSUME StagesRight, StagesRight', RowsStay, attempts' = attempts, raced \subseteq raced',
         \A u \in Units \ raced' : /\ u \in AtDispatchers' => u \in AtDispatchers
                                   /\ u \in Waiting' => u \in Waiting
                                   /\ u \in AtConsumers' => u \in AtConsumers
                                   /\ u \in Reported' => u \in Reported
  PROVE  Lifecycle!Next
<1> DEFINE gone == {u \in Units : u \in raced' \/ (u \notin Held' /\ status'[u] # "absent")}
<1>1. ASSUME NEW u \in Units
      PROVE  Stage'[u] = IF u \in gone THEN "gone" ELSE Stage[u]
  <2>1. CASE u \in gone
    BY <2>1 DEF StagesRight
  <2>2. CASE u \notin gone /\ u \in Held'
    BY <2>2 DEF StagesRight, Held
  <2>3. CASE u \notin gone /\ u \notin Held'
    BY <2>3 DEF StagesRight, RowsStay
  <2> QED BY <2>1, <2>2, <2>3
<1>2. Stage' = [u \in Units |-> Stage'[u]]
  BY DEF Stage
<1>3. Stage' = [u \in Units |-> IF u \in gone THEN "gone" ELSE Stage[u]]
  BY <1>1, <1>2
<1>4. gone \in SUBSET Units
  OBVIOUS
<1> HIDE DEF gone
<1>5. Lifecycle!Leave(gone)
  BY <1>3 DEF Lifecycle!Leave, Stage
<1> QED BY <1>4, <1>5 DEF Lifecycle!Next

\* A step that takes one unit somewhere else moves it, and only it, to another stage.
LEMMA UnitMoves ==
  ASSUME StagesRight, StagesRight', NEW u \in Units, raced' = raced,
         \A v \in Units \ {u} : /\ v \in AtDispatchers' <=> v \in AtDispatchers
                                /\ v \in Waiting' <=> v \in Waiting
                                /\ v \in AtConsumers' <=> v \in AtConsumers
                                /\ v \in Reported' <=> v \in Reported
                                /\ status'[v] = status[v]
  PROVE  Lifecycle!Move(u, Stage[u], Stage'[u])
<1>1. ASSUME NEW v \in Units, v # u PROVE Stage'[v] = Stage[v]
  BY <1>1 DEF StagesRight, Held
<1>2. Stage = [v \in Units |-> Stage[v]] /\ Stage' = [v \in Units |-> Stage'[v]]
  BY DEF Stage
<1>3. [Stage EXCEPT ![u] = Stage'[u]] = [v \in Units |-> IF v = u THEN Stage'[u] ELSE Stage[v]]
  BY <1>2
<1>4. Stage' = [Stage EXCEPT ![u] = Stage'[u]]
  BY <1>1, <1>2, <1>3
<1> QED BY <1>4 DEF Lifecycle!Move, Stage

\* What a pop leaves in the list was there, and so was what it took.
LEMMA PoppedWereThere ==
  ASSUME TypeOK
  PROVE  /\ queue # <<>> /\ queue' = Tail(queue) =>
              InQueue' \subseteq InQueue /\ Head(queue).unit \in InQueue
         /\ results # <<>> /\ results' = Tail(results) =>
              InResults' \subseteq InResults /\ Head(results).unit \in InResults
<1>0. queue \in Seq(Messages) /\ results \in Seq(Results)
  BY DEF TypeOK, ListsTyped
<1>1. ASSUME queue # <<>>, queue' = Tail(queue)
      PROVE  InQueue' \subseteq InQueue /\ Head(queue).unit \in InQueue
  <2>1. 1 \in DOMAIN queue /\ Head(queue) = queue[1] /\ queue[1] \in Messages
    BY <1>0, <1>1
  <2>2. InQueue' \subseteq InQueue
    BY <1>0, <1>1, TailElements DEF InQueue
  <2> QED BY <2>1, <2>2 DEF InQueue, Messages
<1>2. ASSUME results # <<>>, results' = Tail(results)
      PROVE  InResults' \subseteq InResults /\ Head(results).unit \in InResults
  <2>1. 1 \in DOMAIN results /\ Head(results) = results[1] /\ results[1] \in Results
    BY <1>0, <1>2
  <2>2. InResults' \subseteq InResults
    BY <1>0, <1>2, TailElements DEF InResults
  <2> QED BY <2>1, <2>2 DEF InResults, Results
<1> QED BY <1>1, <1>2

\* Steps of a master that take no unit on.
LEMMA MastersLeave ==
  ASSUME TypeOK, StagesRight, StagesRight', NEW m \in Masters,
         \/ FetchPendingTasks(m) \/ ExpandFails(m) \/ PublishMarkQueued(m)
         \/ PublishMarkBusiness(m) \/ ListenerStep(m)
         \/ DispatchCycleFails(m) \/ ListenerDies(m) \/ MasterRestarts(m)
         \/ \E u \in Units : CreateOrGetTaskRecord(m, u) /\ ~WasCreated(u)
  PROVE  Lifecycle!Next
<1>0. /\ dpc \in [Masters -> DispatcherSteps] /\ current \in [Masters -> Units \cup {Nothing}]
      /\ lpc \in [Masters -> ListenerSteps] /\ result \in [Masters -> Results \cup {Nothing}]
      /\ status \in [Units -> Statuses]
  BY DEF TypeOK, DispatcherTyped, ListenerTyped, TablesTyped
<1>1. CASE \/ FetchPendingTasks(m) \/ ExpandFails(m) \/ PublishMarkQueued(m)
           \/ PublishMarkBusiness(m)
           \/ \E u \in Units : CreateOrGetTaskRecord(m, u) /\ ~WasCreated(u)
  <2>1. AtDispatchers' \subseteq AtDispatchers
    BY <1>0, <1>1 DEF FetchPendingTasks, ExpandFails, PublishMarkQueued, PublishMarkBusiness,
       CreateOrGetTaskRecord, LoopStep, AtDispatchers
  <2>2. UNCHANGED <<queue, results, consumer, listener, attempts, raced, rstep,
                    copied>>
    BY <1>1 DEF FetchPendingTasks, ExpandFails, PublishMarkQueued, PublishMarkBusiness,
       CreateOrGetTaskRecord, lists, history, dashboard
  <2>3. RowsStay
    BY <1>0, <1>1 DEF FetchPendingTasks, ExpandFails, PublishMarkQueued, PublishMarkBusiness,
       CreateOrGetTaskRecord, tables, RowsStay
  <2> QED BY <2>1, <2>2, <2>3, UntouchedHold, UnitsLeave DEF Waiting, Reported
<1>2. CASE DispatchCycleFails(m) \/ ListenerDies(m) \/ MasterRestarts(m)
  <2>1. AtDispatchers' \subseteq AtDispatchers
    BY <1>0, <1>2 DEF DispatchCycleFails, ListenerDies, MasterRestarts, dispatcher,
       AtDispatchers
  <2>2. AtListeners' \subseteq AtListeners
    BY <1>0, <1>2 DEF DispatchCycleFails, ListenerDies, MasterRestarts, listener, AtListeners
  <2>3. UNCHANGED <<status, queue, results, consumer, attempts, raced, rstep,
                    copied>>
    BY <1>2 DEF DispatchCycleFails, ListenerDies, MasterRestarts, Strike, tables, lists,
       dashboard
  <2>4. RowsStay
    BY <2>3 DEF RowsStay
  <2> QED BY <2>1, <2>2, <2>3, <2>4, UntouchedHold, UnitsLeave DEF Waiting, Reported
<1>3. CASE TakeResult(m)
  <2>1. /\ results # <<>> /\ results' = Tail(results)
        /\ result' = [result EXCEPT ![m] = Head(results)]
        /\ lpc' = [lpc EXCEPT ![m] = "store"]
        /\ UNCHANGED <<status, queue, dispatcher, consumer, attempts, raced, rstep,
                    copied>>
    BY <1>3 DEF TakeResult, tables, history, dashboard
  <2>2. InResults' \subseteq InResults /\ Head(results).unit \in InResults
    BY <2>1, PoppedWereThere
  <2>3. AtListeners' \subseteq AtListeners \cup {Head(results).unit}
    BY <1>0, <2>1 DEF AtListeners
  <2>4. Reported' \subseteq Reported
    BY <2>2, <2>3 DEF Waiting, Reported
  <2>5. RowsStay
    BY <2>1 DEF RowsStay
  <2> QED BY <2>1, <2>4, <2>5, UntouchedHold, UnitsLeave DEF Waiting
<1>4. CASE ListenerStep(m) /\ ~TakeResult(m)
  <2>1. AtListeners' \subseteq AtListeners
    BY <1>0, <1>4 DEF ListenerStep, StoreResult, CountUnfinished, CountFailed, CountStep,
       CloseBusinessTask, AtListeners
  <2>2. UNCHANGED <<queue, results, dispatcher, consumer, attempts, raced, rstep,
                    copied>>
    BY <1>4 DEF ListenerStep, StoreResult, CountUnfinished, CountFailed, CountStep,
       CloseBusinessTask, lists, history, dashboard
  <2>3. RowsStay
    BY <1>0, <1>4 DEF ListenerStep, StoreResult, Verdict, CountUnfinished, CountFailed,
       CountStep, CloseBusinessTask, tables, RowsStay
  <2> QED BY <2>1, <2>2, <2>3, UntouchedHold, UnitsLeave DEF Waiting, Reported
<1> QED BY <1>1, <1>2, <1>3, <1>4

\* Steps of a consumer or an operator that take no unit on.
LEMMA OthersLeave ==
  ASSUME TypeOK, StagesRight, StagesRight',
         \/ \E c \in Consumers : \/ MarkRunning(c) \/ RetryMarkQueued(c) \/ PushDeadLetter(c)
                                 \/ ConsumerDies(c) \/ ConsumerStarts(c)
         \/ \E u \in Units : CancelTask(u) \/ CreateTask(u)
         \/ ClearQueue \/ PauseOrResume \/ UNCHANGED vars
  PROVE  Lifecycle!Next
<1>0. /\ cpc \in [Consumers -> ConsumerSteps]
      /\ message \in [Consumers -> Messages \cup {Nothing}] /\ status \in [Units -> Statuses]
  BY DEF TypeOK, ConsumerTyped, TablesTyped
<1>1. ASSUME NEW c \in Consumers,
             \/ MarkRunning(c) \/ RetryMarkQueued(c) \/ PushDeadLetter(c)
             \/ ConsumerDies(c) \/ ConsumerStarts(c)
      PROVE  Lifecycle!Next
  <2>1. AtConsumers' \subseteq AtConsumers
    BY <1>0, <1>1 DEF MarkRunning, RetryMarkQueued, PushDeadLetter, ConsumerDies,
       ConsumerStarts, AtConsumers
  <2>2. UNCHANGED <<queue, results, dispatcher, listener, attempts, raced, rstep,
                    copied>>
    BY <1>1 DEF MarkRunning, RetryMarkQueued, PushDeadLetter, ConsumerDies, ConsumerStarts,
       Strike, lists, history, dashboard
  <2>3. RowsStay
    BY <1>0, <1>1 DEF MarkRunning, RetryMarkQueued, PushDeadLetter, ConsumerDies,
       ConsumerStarts, tables, RowsStay
  <2> QED BY <2>1, <2>2, <2>3, UntouchedHold, UnitsLeave DEF Waiting, Reported
<1>2. CASE (\E u \in Units : CancelTask(u) \/ CreateTask(u)) \/ PauseOrResume \/ UNCHANGED vars
  <2>1. UNCHANGED <<queue, results, dispatcher, consumer, listener, attempts, raced, rstep,
                    copied>>
    BY <1>2 DEF CancelTask, CreateTask, PauseOrResume, vars, lists, history, dashboard
  <2>2. RowsStay
    BY <1>0, <1>2 DEF CancelTask, CreateTask, PauseOrResume, vars, tables, RowsStay
  <2> QED BY <2>1, <2>2, UntouchedHold, UnitsLeave DEF Waiting, Reported
<1>3. CASE ClearQueue
  <2>1. UNCHANGED <<status, dispatcher, consumer, listener, attempts, raced, rstep,
                    copied>>
    BY <1>3 DEF ClearQueue, tables, history, dashboard
  <2>2. InQueue' \subseteq InQueue /\ InResults' \subseteq InResults
    BY <1>3 DEF ClearQueue, InQueue, InResults
  <2>3. RowsStay
    BY <2>1 DEF RowsStay
  <2> QED BY <2>1, <2>2, <2>3, UntouchedHold, UnitsLeave DEF Waiting, Reported
<1> QED BY <1>1, <1>2, <1>3

\* A rewrite takes no unit on that it did not find in the queue, but for those it races with.
LEMMA RewritesLeave ==
  ASSUME TypeOK, StagesRight, StagesRight', RewriteStep \/ RewriteFails
  PROVE  Lifecycle!Next
<1>1. /\ UNCHANGED <<status, dispatcher, consumer, results, listener, attempts>>
      /\ raced \subseteq raced' /\ RowsStay
  BY DEF RewriteStep, StartRewrite, ReadMessage, DeleteQueue, PushBack, RewriteFails, Strike,
     tables, lists, history, RowsStay
<1>2. ASSUME \A u \in Units \ raced' : u \in Waiting' => u \in Waiting PROVE Lifecycle!Next
  BY <1>1, <1>2, UntouchedHold, UnitsLeave DEF Reported
<1>3. CASE StartRewrite \/ ReadMessage \/ RewriteFails
  <2>1. UNCHANGED queue /\ Rewriting' = {}
    BY <1>3 DEF StartRewrite, ReadMessage, RewriteFails, lists, Rewriting
  <2> QED BY <1>2, <2>1, UntouchedHold DEF Waiting
<1>4. CASE DeleteQueue
  <2>1. InQueue' = {}
    BY <1>4 DEF DeleteQueue, InQueue
  <2>2. ASSUME NEW u \in Units \ raced', u \in Rewriting' PROVE u \in InQueue
    <3>1. PICK i \in DOMAIN copied' : rstep' = "push" /\ copied'[i].unit = u
      BY <2>2 DEF Rewriting
    <3>2. i \in Nat /\ RewriteHas(i, u)'
      <4>1. copied' = copied /\ copied \in Seq(Messages)
        BY <1>4 DEF DeleteQueue, TypeOK, DashboardTyped
      <4> QED BY <2>2, <3>1, <4>1 DEF RewriteHas
    <3>3. PICK k \in Nat : QueueHas(k, u)
      BY <1>4, <3>2, PushedBackWasThere
    <3> QED BY <3>3 DEF QueueHas, InQueue
  <2> QED BY <1>2, <2>1, <2>2 DEF Waiting
<1>5. CASE PushBack
  <2>1. /\ rstep = "push" /\ copied # <<>> /\ copied \in Seq(Messages) /\ queue \in Seq(Messages)
        /\ queue' = Append(queue, Head(copied)) /\ copied' = Tail(copied)
    BY <1>5 DEF PushBack, TypeOK, ListsTyped, DashboardTyped
  <2>2. 1 \in DOMAIN copied /\ Head(copied) = copied[1] /\ copied[1] \in Messages
    BY <2>1
  <2>3. \A i \in DOMAIN queue' : (i \in DOMAIN queue /\ queue'[i] = queue[i]) \/ queue'[i] = copied[1]
    BY <2>1, <2>2, AppendElements
  <2>4. InQueue' \subseteq Waiting
    BY <2>1, <2>2, <2>3 DEF InQueue, Rewriting, Waiting
  <2>5. \A i \in DOMAIN copied' : \E k \in DOMAIN copied : copied'[i] = copied[k]
    BY <2>1, TailElements
  <2>6. Rewriting' \subseteq Rewriting
    BY <2>1, <2>5 DEF Rewriting
  <2> QED BY <1>2, <2>4, <2>6 DEF Waiting
<1> QED BY <1>3, <1>4, <1>5 DEF RewriteStep

\* The dispatcher gets a new row's unit, and hands it to the queue.
LEMMA DispatcherMoves ==
  ASSUME TypeOK, StagesRight, StagesRight', NEW m \in Masters,
         \/ PublishPush(m)
         \/ \E u \in Units : CreateOrGetTaskRecord(m, u) /\ WasCreated(u)
  PROVE  Lifecycle!Next
<1>0. /\ dpc \in [Masters -> DispatcherSteps] /\ current \in [Masters -> Units \cup {Nothing}]
      /\ queue \in Seq(Messages) /\ status \in [Units -> Statuses]
  BY DEF TypeOK, DispatcherTyped, ListsTyped, TablesTyped
<1>1. ASSUME NEW u \in Units, CreateOrGetTaskRecord(m, u), WasCreated(u) PROVE Lifecycle!Next
  <2>1. /\ dpc[m] = "create" /\ status[u] = "absent"
        /\ status' = [status EXCEPT ![u] = "pending"]
        /\ current' = [current EXCEPT ![m] = u] /\ dpc' = [dpc EXCEPT ![m] = "push"]
        /\ UNCHANGED <<queue, results, consumer, listener, attempts, raced, rstep,
                    copied>>
    BY <1>1 DEF CreateOrGetTaskRecord, WasCreated, lists, history, dashboard
  <2>2. u \in AtDispatchers' /\ \A v \in Units \ {u} : v \in AtDispatchers' <=> v \in AtDispatchers
    BY <1>0, <2>1 DEF AtDispatchers
  <2>3. u \notin raced /\ Stage[u] = "fresh" /\ Stage'[u] = "assigned"
    BY <2>1, <2>2 DEF StagesRight
  <2>4. \A v \in Units \ {u} : status'[v] = status[v]
    BY <1>0, <2>1
  <2>5. Lifecycle!Move(u, "fresh", "assigned")
    BY <2>1, <2>2, <2>3, <2>4, UntouchedHold, UnitMoves DEF Waiting, Reported
  <2> QED BY <2>1, <2>5 DEF Lifecycle!Next, Lifecycle!Assign
<1>2. CASE PublishPush(m)
  <2> DEFINE u == current[m]
             new == [unit |-> u, retry_count |-> 0]
  <2>1. /\ dpc[m] = "push" /\ queue' = Append(queue, new)
        /\ dpc' = [dpc EXCEPT ![m] = "mark_queued"]
        /\ UNCHANGED <<status, results, current, consumer, listener, attempts, raced, rstep,
                    copied>>
    BY <1>2 DEF PublishPush, tables, history, dashboard
  <2>2. new \in Messages /\ new.unit = u /\ u \in Units
    BY <2>1 DEF TypeOK, DispatcherTyped, Messages
  <2> HIDE DEF new
  <2>3. u \in InQueue' /\ \A v \in Units \ {u} : v \in InQueue' <=> v \in InQueue
    BY <1>0, <2>1, <2>2, AppendElements, PushedUnits DEF InQueue
  <2>4. u \in AtDispatchers /\ \A v \in Units \ {u} : v \in AtDispatchers' <=> v \in AtDispatchers
    BY <1>0, <2>1, <2>2 DEF AtDispatchers
  <2>5. CASE u \in raced
    BY <2>1, <2>2, <2>3, <2>4, <2>5, UntouchedHold, UnitsLeave DEF Waiting, Reported, RowsStay
  <2>6. CASE u \notin raced
    <3>1. Stage[u] = "assigned" /\ Stage'[u] = "waiting"
      BY <2>1, <2>2, <2>3, <2>4, <2>6 DEF StagesRight, Waiting
    <3>2. Lifecycle!Move(u, "assigned", "waiting")
      BY <2>1, <2>2, <2>3, <2>4, <3>1, UntouchedHold, UnitMoves DEF Waiting, Reported
    <3> QED BY <2>1, <2>2, <3>2 DEF Lifecycle!Next, Lifecycle!Publish
  <2> QED BY <2>5, <2>6
<1> QED BY <1>1, <1>2

\* A consumer claims a unit, works on it, and hands it back or on.
LEMMA ConsumerMoves ==
  ASSUME TypeOK, StagesRight, StagesRight', Counted, NEW c \in Consumers,
         PopMessage(c) \/ Execute(c) \/ RetryPush(c) \/ PushResult(c)
  PROVE  Lifecycle!Next
<1>0. /\ cpc \in [Consumers -> ConsumerSteps] /\ success \in [Consumers -> BOOLEAN]
      /\ message \in [Consumers -> Messages \cup {Nothing}]
      /\ queue \in Seq(Messages) /\ results \in Seq(Results)
      /\ cpc[c] \notin {"pop", "down"} => message[c] \in Messages
      /\ attempts \in [Units -> Nat]
  BY DEF TypeOK, ConsumerTyped, ListsTyped, HistoryTyped
<1>1. CASE PopMessage(c)
  <2> DEFINE u == Head(queue).unit
  <2>1. /\ cpc[c] = "pop" /\ queue # <<>> /\ queue' = Tail(queue)
        /\ message' = [message EXCEPT ![c] = Head(queue)]
        /\ cpc' = [cpc EXCEPT ![c] = "mark_running"]
        /\ UNCHANGED <<status, results, dispatcher, listener, attempts, raced, rstep,
                    copied>>
    BY <1>1 DEF PopMessage, tables, history, dashboard
  <2>2. u \in InQueue /\ InQueue' \subseteq InQueue /\ u \in Units
    BY <2>1, PoppedWereThere DEF InQueue
  <2>3. \A v \in Units \ {u} : v \in InQueue' <=> v \in InQueue
    <3>1. \A i \in DOMAIN queue :
            queue[i] = Head(queue) \/ \E j \in DOMAIN queue' : queue'[j] = queue[i]
      BY <1>0, <2>1, PoppedUnits
    <3>2. \A v \in InQueue : v = u \/ v \in InQueue'
      BY <3>1 DEF InQueue
    <3> QED BY <2>2, <3>2
  <2>4. u \in AtConsumers' /\ \A v \in Units \ {u} : v \in AtConsumers' <=> v \in AtConsumers
    BY <1>0, <2>1, <2>2 DEF AtConsumers
  <2> HIDE DEF u
  <2>5. CASE u \in raced
    BY <2>1, <2>2, <2>3, <2>4, <2>5, UntouchedHold, UnitsLeave DEF Waiting, Reported, RowsStay
  <2>6. CASE u \notin raced
    <3>1. Stage[u] = "waiting" /\ Stage'[u] = "working"
      BY <2>1, <2>2, <2>4, <2>6 DEF StagesRight, Waiting
    <3>2. Lifecycle!Move(u, "waiting", "working")
      BY <2>1, <2>2, <2>3, <2>4, <3>1, UntouchedHold, UnitMoves DEF Waiting, Reported
    <3> QED BY <2>1, <2>2, <3>2 DEF Lifecycle!Next, Lifecycle!Claim
  <2> QED BY <2>5, <2>6
<1>2. CASE Execute(c)
  <2> DEFINE u == message[c].unit
  <2>1. /\ cpc[c] = "execute" /\ cpc'[c] \in {"retry_push", "push_result"}
        /\ \A d \in Consumers \ {c} : cpc'[d] = cpc[d]
        /\ attempts' = [v \in Units |-> IF v = u /\ v \notin raced THEN attempts[v] + 1
                                                                  ELSE attempts[v]]
        /\ UNCHANGED <<status, queue, results, message, dispatcher, listener, raced, rstep,
                       copied>>
    BY <1>0, <1>2 DEF Execute, tables, lists, dashboard
  <2>2. u \in Units /\ u \in AtConsumers /\ AtConsumers' = AtConsumers
    BY <1>0, <2>1 DEF AtConsumers, Messages
  <2>3. CASE u \in raced
    <3>1. attempts' = attempts
      BY <1>0, <2>1, <2>3
    <3> QED
      BY <2>1, <2>2, <3>1, UntouchedHold, UnitsLeave DEF Waiting, Reported, RowsStay
  <2>4. CASE u \notin raced
    <3>1. Stage[u] = "working"
      BY <2>2, <2>4 DEF StagesRight
    <3>2. \A v \in Units : Stage'[v] = Stage[v]
      BY <2>1, <2>2, UntouchedHold DEF StagesRight, Held, Waiting, Reported
    <3>3. Stage' = Stage
      BY <3>2 DEF Stage
    <3>4. attempts[u] < MaxRetries + 1
      <4>1. attempts[u] = message[c].retry_count /\ message[c].retry_count <= MaxRetries
        BY <2>1, <2>4 DEF Counted, ConsumersCounted, Unanswered
      <4> QED BY <1>0, <2>2, <4>1, PipelineAssumption DEF PipelineAssumption
    <3>5. attempts' = [attempts EXCEPT ![u] = @ + 1]
      BY <1>0, <2>1, <2>2, <2>4
    <3> HIDE DEF u
    <3>6. Lifecycle!Attempt(u)
      BY <3>1, <3>3, <3>4, <3>5 DEF Lifecycle!Attempt, Stage
    <3> QED BY <2>2, <3>6 DEF Lifecycle!Next
  <2> QED BY <2>3, <2>4
<1>3. CASE RetryPush(c)
  <2> DEFINE u == message[c].unit
             new == [message[c] EXCEPT !.retry_count = @ + 1]
  <2>1. /\ cpc[c] = "retry_push" /\ queue' = Append(queue, new)
        /\ cpc' = [cpc EXCEPT ![c] = "retry_mark"]
        /\ UNCHANGED <<status, results, message, dispatcher, listener, attempts, raced, rstep,
                    copied>>
    BY <1>3 DEF RetryPush, tables, history, dashboard
  <2>2. new \in Messages /\ new.unit = u /\ u \in Units
    <3>1. message[c] \in Messages
      BY <1>0, <2>1
    <3> QED BY <3>1, OneMoreRetry DEF Messages
  <2> HIDE DEF new
  <2>3. u \in InQueue' /\ \A v \in Units \ {u} : v \in InQueue' <=> v \in InQueue
    <3>1. /\ \A i \in DOMAIN queue : i \in DOMAIN queue' /\ queue'[i] = queue[i]
          /\ \E i \in DOMAIN queue' : queue'[i] = new
      <4>1. /\ \A i \in DOMAIN queue : /\ i \in DOMAIN Append(queue, new)
                                       /\ Append(queue, new)[i] = queue[i]
            /\ \E i \in DOMAIN Append(queue, new) : Append(queue, new)[i] = new
        <5>1. queue \in Seq(Messages) /\ new \in Messages
          BY <1>0, <2>2
        <5> QED BY <5>1, PushedUnits
      <4> QED BY <2>1, <4>1
    <3>2. \A i \in DOMAIN queue' :
            (i \in DOMAIN queue /\ queue'[i] = queue[i]) \/ queue'[i] = new
      <4>1. \A i \in DOMAIN Append(queue, new) :
              \/ i \in DOMAIN queue /\ Append(queue, new)[i] = queue[i]
              \/ Append(queue, new)[i] = new
        BY <1>0, <2>2, AppendElements
      <4> QED BY <2>1, <4>1
    <3> QED BY <2>2, <3>1, <3>2 DEF InQueue
  <2>4. u \in AtConsumers /\ \A v \in Units \ {u} : v \in AtConsumers' <=> v \in AtConsumers
    BY <1>0, <2>1, <2>2 DEF AtConsumers
  <2>5. u \notin raced => attempts[u] < MaxRetries + 1
    <3>1. u \notin raced =>
            attempts[u] = message[c].retry_count + 1 /\ message[c].retry_count < MaxRetries
      BY <2>1 DEF Counted, ConsumersCounted, Unanswered
    <3>2. message[c].retry_count \in Nat
      BY <1>0, <2>1 DEF Messages
    <3> QED BY <3>1, <3>2, PipelineAssumption DEF PipelineAssumption
  <2> HIDE DEF u
  <2>6. CASE u \in raced
    BY <2>1, <2>2, <2>3, <2>4, <2>6, UntouchedHold, UnitsLeave DEF Waiting, Reported, RowsStay
  <2>7. CASE u \notin raced
    <3>1. Stage[u] = "working" /\ Stage'[u] = "waiting"
      BY <2>1, <2>2, <2>3, <2>4, <2>7 DEF StagesRight, Waiting
    <3>2. Lifecycle!Move(u, "working", "waiting")
      BY <2>1, <2>2, <2>3, <2>4, <3>1, UntouchedHold, UnitMoves DEF Waiting, Reported
    <3> QED BY <2>1, <2>2, <2>5, <2>7, <3>2 DEF Lifecycle!Next, Lifecycle!Retry
  <2> QED BY <2>6, <2>7
<1>4. CASE PushResult(c)
  <2> DEFINE u == message[c].unit
             new == [unit |-> u, success |-> success[c]]
  <2>1. /\ cpc[c] = "push_result" /\ results' = Append(results, new)
        /\ cpc'[c] \in {"pop", "push_dead"}
        /\ \A d \in Consumers \ {c} : cpc'[d] = cpc[d] /\ message'[d] = message[d]
        /\ UNCHANGED <<status, queue, dispatcher, listener, attempts, raced, rstep,
                    copied>>
    BY <1>0, <1>4 DEF PushResult, AfterReport, tables, history, dashboard
  <2>2. new \in Results /\ new.unit = u /\ u \in Units
    BY <1>0, <2>1 DEF Messages, Results
  <2> HIDE DEF new
  <2>3. u \in InResults' /\ \A v \in Units \ {u} : v \in InResults' <=> v \in InResults
    <3>1. /\ \A i \in DOMAIN results : i \in DOMAIN results' /\ results'[i] = results[i]
          /\ \E i \in DOMAIN results' : results'[i] = new
      <4>1. /\ \A i \in DOMAIN results : /\ i \in DOMAIN Append(results, new)
                                       /\ Append(results, new)[i] = results[i]
            /\ \E i \in DOMAIN Append(results, new) : Append(results, new)[i] = new
        <5>1. results \in Seq(Results) /\ new \in Results
          BY <1>0, <2>2
        <5> QED BY <5>1, PushedUnits
      <4> QED BY <2>1, <4>1
    <3>2. \A i \in DOMAIN results' :
            (i \in DOMAIN results /\ results'[i] = results[i]) \/ results'[i] = new
      <4>1. \A i \in DOMAIN Append(results, new) :
              \/ i \in DOMAIN results /\ Append(results, new)[i] = results[i]
              \/ Append(results, new)[i] = new
        BY <1>0, <2>2, AppendElements
      <4> QED BY <2>1, <4>1
    <3> QED BY <2>2, <3>1, <3>2 DEF InResults
  <2>4. u \in AtConsumers /\ \A v \in Units \ {u} : v \in AtConsumers' <=> v \in AtConsumers
    BY <1>0, <2>1, <2>2 DEF AtConsumers
  <2> HIDE DEF u
  <2>5. CASE u \in raced
    BY <2>1, <2>2, <2>3, <2>4, <2>5, UntouchedHold, UnitsLeave DEF Waiting, Reported, RowsStay
  <2>6. CASE u \notin raced
    <3>1. Stage[u] = "working" /\ Stage'[u] = "reported"
      BY <2>1, <2>2, <2>3, <2>4, <2>6 DEF StagesRight, Reported
    <3>2. Lifecycle!Move(u, "working", "reported")
      BY <2>1, <2>2, <2>3, <2>4, <3>1, UntouchedHold, UnitMoves DEF Waiting, Reported
    <3> QED BY <2>1, <2>2, <3>2 DEF Lifecycle!Next, Lifecycle!Report
  <2> QED BY <2>5, <2>6
<1> QED BY <1>1, <1>2, <1>3, <1>4

\* Every step of the pipeline is one step of the life cycle, or none.
LEMMA LifecycleStep ==
  ASSUME TypeOK, StagesRight, StagesRight', Counted, [Next]_vars
  PROVE  Lifecycle!Next
<1>1. ASSUME NEW m \in Masters, DispatcherStep(m) PROVE Lifecycle!Next
  BY <1>1, MastersLeave, DispatcherMoves DEF DispatcherStep
<1>2. ASSUME NEW m \in Masters,
             ListenerStep(m) \/ DispatchCycleFails(m) \/ ListenerDies(m) \/ MasterRestarts(m)
      PROVE  Lifecycle!Next
  BY <1>2, MastersLeave
<1>3. ASSUME NEW c \in Consumers, ConsumerStep(c) \/ ConsumerDies(c) \/ ConsumerStarts(c)
      PROVE  Lifecycle!Next
  BY <1>3, ConsumerMoves, OthersLeave DEF ConsumerStep
<1>4. CASE (\E u \in Units : CancelTask(u) \/ CreateTask(u)) \/ ClearQueue \/ PauseOrResume
           \/ UNCHANGED vars
  BY <1>4, OthersLeave
<1>5. CASE RewriteStep \/ RewriteFails
  BY <1>5, RewritesLeave
<1> QED BY <1>1, <1>2, <1>3, <1>4, <1>5 DEF Next

\* The pipeline keeps the promise of UnitLifecycle for every number of masters, consumers,
\* retries, failures, dashboard operations and rewrites of the queue: a unit is handed over
\* at most once, crawled within its budget, and never comes back once it has left.  A unit
\* that a rewrite raced with, and nothing else, is taken to have left though a copy of it
\* may live on.
THEOREM PipelineImplementsLifecycle == Spec => LifecycleSpec
<1>1. Init => Lifecycle!Init
  <2> SUFFICES ASSUME Init PROVE Lifecycle!Init
    OBVIOUS
  <2>1. TypeOK /\ Alone /\ Rowed
    BY InitOK
  <2>2. \A u \in Units : u \notin Held
    BY DEF Init, Held, Waiting, Reported, AtDispatchers, InQueue, Rewriting, AtConsumers,
       InResults, AtListeners
  <2>3. \A u \in Units : Stage[u] = "fresh"
    BY <2>1, <2>2, StagesAreRight DEF StagesRight, Init
  <2> QED BY <2>3 DEF Init, Lifecycle!Init, Stage
<1>2. PipelineInvariant /\ PipelineInvariant' /\ [Next]_vars =>
        [Lifecycle!Next]_(Lifecycle!lifecycleVars)
  BY LifecycleStep, StagesAreRight, StagesAreRightNext DEF PipelineInvariant
<1> QED BY <1>1, <1>2, InvariantHolds, PTL DEF Spec, LifecycleSpec, Lifecycle!Spec

-----------------------------------------------------------------------------
(* What is lost.                                                           *)

\* A unit has left, unless a rewrite raced with it, for exactly one of two reasons: its
\* result was stored, or a failing thread held its copy.
LossInv ==
  \A u \in Units \ raced :
    /\ Stage[u] = "gone" <=> u \in settled \cup struck
    /\ u \notin settled \cap struck

\* A master that does not fail moves units from one place to the next until their result
\* is stored.
LEMMA NothingGoes ==
  ASSUME TypeOK, NEW m \in Masters, DispatcherStep(m) \/ ListenerStep(m)
  PROVE  Held \subseteq Held' \cup settled' /\ settled \subseteq settled' /\ struck' = struck
<1> USE DEF Held, Waiting, Reported
<1>0. /\ dpc \in [Masters -> DispatcherSteps] /\ current \in [Masters -> Units \cup {Nothing}]
      /\ lpc \in [Masters -> ListenerSteps] /\ result \in [Masters -> Results \cup {Nothing}]
      /\ queue \in Seq(Messages) /\ results \in Seq(Results)
  BY DEF TypeOK, DispatcherTyped, ListenerTyped, ListsTyped
<1>1. CASE FetchPendingTasks(m) \/ ExpandFails(m) \/ PublishMarkQueued(m)
           \/ PublishMarkBusiness(m) \/ \E u \in Units : CreateOrGetTaskRecord(m, u)
  <2>1. AtDispatchers \subseteq AtDispatchers'
    BY <1>0, <1>1 DEF FetchPendingTasks, ExpandFails, PublishMarkQueued, PublishMarkBusiness,
       CreateOrGetTaskRecord, AtDispatchers
  <2>2. UNCHANGED <<queue, results, consumer, listener, settled, struck, rstep, copied>>
    BY <1>1 DEF FetchPendingTasks, ExpandFails, PublishMarkQueued, PublishMarkBusiness,
       CreateOrGetTaskRecord, lists, history, dashboard
  <2> QED BY <2>1, <2>2, UntouchedHold
<1>2. CASE PublishPush(m)
  <2> DEFINE new == [unit |-> current[m], retry_count |-> 0]
  <2>1. /\ dpc[m] = "push" /\ queue' = Append(queue, new)
        /\ dpc' = [dpc EXCEPT ![m] = "mark_queued"]
        /\ UNCHANGED <<results, current, consumer, listener, settled, struck, rstep, copied>>
    BY <1>2 DEF PublishPush, history, dashboard
  <2>2. new \in Messages /\ new.unit = current[m]
    BY <2>1 DEF TypeOK, DispatcherTyped, Messages
  <2> HIDE DEF new
  <2>3. InQueue \subseteq InQueue' /\ (current[m] \in Units => current[m] \in InQueue')
    BY <1>0, <2>1, <2>2, PushedUnits DEF InQueue
  <2>4. \A u \in AtDispatchers : u = current[m] \/ u \in AtDispatchers'
    BY <1>0, <2>1 DEF AtDispatchers
  <2>5. AtDispatchers \subseteq AtDispatchers' \cup InQueue'
    BY <2>3, <2>4 DEF AtDispatchers
  <2> QED BY <2>1, <2>3, <2>5, UntouchedHold
<1>3. CASE TakeResult(m)
  <2>1. /\ lpc[m] = "pop" /\ results # <<>> /\ results' = Tail(results)
        /\ result' = [result EXCEPT ![m] = Head(results)]
        /\ lpc' = [lpc EXCEPT ![m] = "store"]
        /\ UNCHANGED <<queue, dispatcher, consumer, settled, struck, rstep, copied>>
    BY <1>3 DEF TakeResult, history, dashboard
  <2>2. AtListeners \subseteq AtListeners'
    BY <1>0, <2>1 DEF AtListeners
  <2>3. \A u \in Units : Head(results).unit = u => u \in AtListeners'
    BY <1>0, <2>1 DEF AtListeners
  <2>4. InResults \subseteq InResults' \cup AtListeners'
    <3>1. \A i \in DOMAIN results :
            results[i] = Head(results) \/ \E j \in DOMAIN results' : results'[j] = results[i]
      BY <1>0, <2>1, PoppedUnits
    <3> QED BY <2>3, <3>1 DEF InResults
  <2> QED BY <2>1, <2>2, <2>4, UntouchedHold
<1>4. CASE StoreResult(m)
  <2>1. /\ lpc' = [lpc EXCEPT ![m] = "count_unfinished"]
        /\ settled' = settled \cup {result[m].unit}
        /\ UNCHANGED <<queue, results, result, dispatcher, consumer, struck, rstep, copied>>
    BY <1>4 DEF StoreResult, lists, dashboard
  <2>2. AtListeners \subseteq AtListeners' \cup settled'
    BY <1>0, <2>1 DEF AtListeners
  <2> QED BY <2>1, <2>2, UntouchedHold
<1>5. CASE CountUnfinished(m) \/ CountFailed(m) \/ CloseBusinessTask(m)
  <2>1. UNCHANGED <<queue, results, dispatcher, consumer, settled, struck, rstep, copied>>
    BY <1>5 DEF CountUnfinished, CountFailed, CountStep, CloseBusinessTask, lists, history,
       dashboard
  <2>2. AtListeners \subseteq AtListeners'
    BY <1>0, <1>5 DEF CountUnfinished, CountFailed, CountStep, CloseBusinessTask, AtListeners
  <2> QED BY <2>1, <2>2, UntouchedHold
<1> QED BY <1>1, <1>2, <1>3, <1>4, <1>5 DEF DispatcherStep, ListenerStep

\* So does a consumer.
LEMMA ConsumersPassOn ==
  ASSUME TypeOK, NEW c \in Consumers, ConsumerStep(c) \/ ConsumerStarts(c)
  PROVE  Held \subseteq Held' /\ settled = settled' /\ struck' = struck
<1> USE DEF Held, Waiting, Reported
<1>0. /\ cpc \in [Consumers -> ConsumerSteps] /\ success \in [Consumers -> BOOLEAN]
      /\ message \in [Consumers -> Messages \cup {Nothing}]
      /\ queue \in Seq(Messages) /\ results \in Seq(Results)
      /\ cpc[c] \notin {"pop", "down"} => message[c] \in Messages
  BY DEF TypeOK, ConsumerTyped, ListsTyped
<1>1. CASE MarkRunning(c) \/ Execute(c) \/ RetryMarkQueued(c) \/ PushDeadLetter(c)
           \/ ConsumerStarts(c)
  <2>1. AtConsumers \subseteq AtConsumers'
    BY <1>0, <1>1 DEF MarkRunning, Execute, RetryMarkQueued, PushDeadLetter, ConsumerStarts,
       AtConsumers
  <2>2. UNCHANGED <<queue, results, dispatcher, listener, settled, struck, rstep, copied>>
    BY <1>1 DEF MarkRunning, Execute, RetryMarkQueued, PushDeadLetter, ConsumerStarts, lists,
       history, dashboard
  <2> QED BY <2>1, <2>2, UntouchedHold
<1>2. CASE PopMessage(c)
  <2>1. /\ cpc[c] = "pop" /\ queue # <<>> /\ queue' = Tail(queue)
        /\ message' = [message EXCEPT ![c] = Head(queue)]
        /\ cpc' = [cpc EXCEPT ![c] = "mark_running"]
        /\ UNCHANGED <<results, dispatcher, listener, settled, struck, rstep, copied>>
    BY <1>2 DEF PopMessage, history, dashboard
  <2>2. AtConsumers \subseteq AtConsumers'
    BY <1>0, <2>1 DEF AtConsumers
  <2>3. \A u \in Units : Head(queue).unit = u => u \in AtConsumers'
    BY <1>0, <2>1 DEF AtConsumers
  <2>4. InQueue \subseteq InQueue' \cup AtConsumers'
    BY <1>0, <2>1, <2>3, PoppedUnits DEF InQueue
  <2> QED BY <2>1, <2>2, <2>4, UntouchedHold
<1>3. CASE RetryPush(c)
  <2> DEFINE new == [message[c] EXCEPT !.retry_count = @ + 1]
  <2>1. /\ cpc[c] = "retry_push" /\ queue' = Append(queue, new)
        /\ cpc' = [cpc EXCEPT ![c] = "retry_mark"]
        /\ UNCHANGED <<results, message, dispatcher, listener, settled, struck, rstep, copied>>
    BY <1>3 DEF RetryPush, history, dashboard
  <2>2. new \in Messages /\ new.unit = message[c].unit
    <3>1. message[c] \in Messages
      BY <1>0, <2>1
    <3> QED BY <3>1, OneMoreRetry
  <2> HIDE DEF new
  <2>3. InQueue \subseteq InQueue' /\ \A u \in Units : u = message[c].unit => u \in InQueue'
    <3>1. /\ \A i \in DOMAIN queue : i \in DOMAIN queue' /\ queue'[i] = queue[i]
          /\ \E i \in DOMAIN queue' : queue'[i] = new
      <4>1. /\ \A i \in DOMAIN queue : /\ i \in DOMAIN Append(queue, new)
                                       /\ Append(queue, new)[i] = queue[i]
            /\ \E i \in DOMAIN Append(queue, new) : Append(queue, new)[i] = new
        BY <1>0, <2>2, PushedUnits
      <4> QED BY <2>1, <4>1
    <3> QED BY <2>2, <3>1 DEF InQueue
  <2>4. \A u \in AtConsumers : u = message[c].unit \/ u \in AtConsumers'
    BY <1>0, <2>1 DEF AtConsumers
  <2>5. AtConsumers \subseteq AtConsumers' \cup InQueue'
    BY <2>3, <2>4 DEF AtConsumers
  <2> QED BY <2>1, <2>3, <2>5, UntouchedHold
<1>4. CASE PushResult(c)
  <2> DEFINE new == [unit |-> message[c].unit, success |-> success[c]]
  <2>1. /\ cpc[c] = "push_result" /\ results' = Append(results, new)
        /\ \A d \in Consumers \ {c} : cpc'[d] = cpc[d] /\ message'[d] = message[d]
        /\ UNCHANGED <<queue, dispatcher, listener, settled, struck, rstep, copied>>
    BY <1>0, <1>4 DEF PushResult, history, dashboard
  <2>2. new \in Results /\ new.unit = message[c].unit
    BY <1>0, <2>1 DEF Messages, Results
  <2> HIDE DEF new
  <2>3. InResults \subseteq InResults' /\ \A u \in Units : u = message[c].unit => u \in InResults'
    BY <1>0, <2>1, <2>2, PushedUnits DEF InResults
  <2>4. \A u \in AtConsumers : u = message[c].unit \/ u \in AtConsumers'
    BY <1>0, <2>1 DEF AtConsumers
  <2>5. AtConsumers \subseteq AtConsumers' \cup InResults'
    BY <2>3, <2>4 DEF AtConsumers
  <2> QED BY <2>1, <2>3, <2>5, UntouchedHold
<1> QED BY <1>1, <1>2, <1>3, <1>4 DEF ConsumerStep

\* A unit whose result is stored was at the listener, and is nowhere afterwards.
LEMMA StoredLeave ==
  ASSUME TypeOK, Alone, StagesRight, NEW m \in Masters, StoreResult(m),
         NEW u \in Units \ raced, u \in settled' \ settled
  PROVE  u \in Held /\ u \notin Held'
<1>1. /\ lpc[m] = "store" /\ result[m].unit = u
      /\ lpc' = [lpc EXCEPT ![m] = "count_unfinished"]
      /\ UNCHANGED <<queue, results, result, dispatcher, consumer, raced, rstep, copied>>
  BY DEF StoreResult, lists, dashboard
<1>2. u \in AtListeners /\ ListenerHas(m, u)
  BY <1>1 DEF AtListeners, ListenerHas
<1>3. u \notin AtDispatchers \cup Waiting \cup AtConsumers
  BY <1>2 DEF StagesRight, Reported
<1>4. u \notin InResults
  <2>1. DOMAIN results \subseteq Nat
    BY DEF TypeOK, ListsTyped
  <2> QED BY <1>2, <2>1 DEF InResults, ResultsHave, Alone, OneKindOfPlace
<1>5. u \notin AtListeners'
  BY <1>1, <1>2 DEF TypeOK, ListenerTyped, AtListeners, ListenerHas, Alone, OnePlaceOfAKind
<1> QED BY <1>1, <1>2, <1>3, <1>4, <1>5, UntouchedHold DEF Held, Waiting, Reported

\* A failure strikes the units that only the failing threads had, and no other unit goes.
LEMMA StruckLeave ==
  ASSUME TypeOK, Alone, StagesRight,
         \/ \E m \in Masters : DispatchCycleFails(m) \/ ListenerDies(m) \/ MasterRestarts(m)
         \/ \E c \in Consumers : ConsumerDies(c)
         \/ RewriteFails
  PROVE  /\ UNCHANGED <<settled, raced>> /\ struck \subseteq struck'
         /\ \A u \in Units \ raced : u \in Held => u \in Held' \cup struck'
         /\ \A u \in Units \ raced : u \in struck' \ struck => u \in Held /\ u \notin Held'
<1> USE DEF Held, Waiting, Reported
<1>0. /\ dpc \in [Masters -> DispatcherSteps] /\ current \in [Masters -> Units \cup {Nothing}]
      /\ lpc \in [Masters -> ListenerSteps] /\ result \in [Masters -> Results \cup {Nothing}]
      /\ cpc \in [Consumers -> ConsumerSteps]
      /\ message \in [Consumers -> Messages \cup {Nothing}]
  BY DEF TypeOK, DispatcherTyped, ListenerTyped, ConsumerTyped
<1> DEFINE Goal == /\ UNCHANGED <<settled, raced>> /\ struck \subseteq struck'
                   /\ \A u \in Units \ raced : u \in Held => u \in Held' \cup struck'
                   /\ \A u \in Units \ raced :
                        u \in struck' \ struck => u \in Held /\ u \notin Held'
<1>1. ASSUME NEW m \in Masters, DispatchCycleFails(m) PROVE Goal
  <2>1. /\ UNCHANGED <<settled, raced, queue, results, consumer, listener, rstep, copied>>
        /\ struck' = struck \cup HeldByDispatcher(m) /\ dpc' = [dpc EXCEPT ![m] = "fetch"]
        /\ current' = [current EXCEPT ![m] = Nothing]
    BY <1>1 DEF DispatchCycleFails, Strike, lists, dashboard
  <2>2. ASSUME NEW u \in Units \ raced, u \in AtDispatchers
        PROVE  u \in AtDispatchers' \/ u \in HeldByDispatcher(m)
    BY <1>0, <2>1, <2>2 DEF AtDispatchers, HeldByDispatcher, DispatcherHas
  <2>3. ASSUME NEW u \in Units \ raced, u \in HeldByDispatcher(m)
        PROVE  u \in AtDispatchers /\ u \notin AtDispatchers'
    BY <1>0, <2>1, <2>3 DEF AtDispatchers, HeldByDispatcher, DispatcherHas, Alone,
       OnePlaceOfAKind
  <2> QED BY <2>1, <2>2, <2>3, UntouchedHold DEF StagesRight
<1>2. ASSUME NEW m \in Masters, ListenerDies(m) PROVE Goal
  <2>1. /\ UNCHANGED <<settled, raced, queue, results, consumer, dispatcher, rstep, copied>>
        /\ struck' = struck \cup HeldByListener(m) /\ lpc' = [lpc EXCEPT ![m] = "down"]
        /\ result' = [result EXCEPT ![m] = Nothing]
    BY <1>2 DEF ListenerDies, Strike, lists, dashboard
  <2>2. ASSUME NEW u \in Units \ raced, u \in AtListeners
        PROVE  u \in AtListeners' \/ u \in HeldByListener(m)
    BY <1>0, <2>1, <2>2 DEF AtListeners, HeldByListener, ListenerHas
  <2>3. ASSUME NEW u \in Units \ raced, u \in HeldByListener(m)
        PROVE  u \in AtListeners /\ u \notin AtListeners' /\ u \notin InResults
    <3>1. u \in AtListeners /\ u \notin AtListeners'
      BY <1>0, <2>1, <2>3 DEF AtListeners, HeldByListener, ListenerHas, Alone, OnePlaceOfAKind
    <3>2. DOMAIN results \subseteq Nat
      BY DEF TypeOK, ListsTyped
    <3> QED
      BY <2>3, <3>1, <3>2 DEF HeldByListener, InResults, ResultsHave, Alone, OneKindOfPlace
  <2> QED BY <2>1, <2>2, <2>3, UntouchedHold DEF StagesRight
<1>3. ASSUME NEW m \in Masters, MasterRestarts(m) PROVE Goal
  <2>1. /\ UNCHANGED <<settled, raced, queue, results, consumer, rstep, copied>>
        /\ struck' = struck \cup HeldByDispatcher(m) \cup HeldByListener(m)
        /\ dpc' = [dpc EXCEPT ![m] = "fetch"] /\ current' = [current EXCEPT ![m] = Nothing]
        /\ lpc' = [lpc EXCEPT ![m] = "pop"] /\ result' = [result EXCEPT ![m] = Nothing]
    BY <1>3 DEF MasterRestarts, Strike, lists, dashboard
  <2>2. ASSUME NEW u \in Units \ raced
        PROVE  /\ u \in AtDispatchers => u \in AtDispatchers' \/ u \in HeldByDispatcher(m)
               /\ u \in AtListeners => u \in AtListeners' \/ u \in HeldByListener(m)
    BY <1>0, <2>1, <2>2 DEF AtDispatchers, HeldByDispatcher, DispatcherHas, AtListeners,
       HeldByListener, ListenerHas
  <2>3. /\ AtDispatchers' \subseteq AtDispatchers
        /\ AtListeners' \subseteq AtListeners
    BY <1>0, <2>1 DEF AtDispatchers, AtListeners
  <2>4. ASSUME NEW u \in Units \ raced, u \in HeldByDispatcher(m)
        PROVE  u \in AtDispatchers /\ u \notin AtDispatchers'
    BY <1>0, <2>1, <2>4 DEF AtDispatchers, HeldByDispatcher, DispatcherHas, Alone,
       OnePlaceOfAKind
  <2>5. ASSUME NEW u \in Units \ raced, u \in HeldByListener(m)
        PROVE  u \in AtListeners /\ u \notin AtListeners' /\ u \notin InResults
    <3>1. u \in AtListeners /\ u \notin AtListeners'
      BY <1>0, <2>1, <2>5 DEF AtListeners, HeldByListener, ListenerHas, Alone, OnePlaceOfAKind
    <3>2. DOMAIN results \subseteq Nat
      BY DEF TypeOK, ListsTyped
    <3> QED
      BY <2>5, <3>1, <3>2 DEF HeldByListener, InResults, ResultsHave, Alone, OneKindOfPlace
  <2> QED BY <2>1, <2>2, <2>3, <2>4, <2>5, UntouchedHold DEF StagesRight
<1>4. ASSUME NEW c \in Consumers, ConsumerDies(c) PROVE Goal
  <2>1. /\ UNCHANGED <<settled, raced, queue, results, dispatcher, listener, rstep, copied>>
        /\ struck' = struck \cup HeldByConsumer(c) /\ cpc' = [cpc EXCEPT ![c] = "down"]
        /\ message' = [message EXCEPT ![c] = Nothing]
    BY <1>4 DEF ConsumerDies, Strike, lists, dashboard
  <2>2. ASSUME NEW u \in Units \ raced, u \in AtConsumers
        PROVE  u \in AtConsumers' \/ u \in HeldByConsumer(c)
    BY <1>0, <2>1, <2>2 DEF AtConsumers, HeldByConsumer, ConsumerHas
  <2>3. ASSUME NEW u \in Units \ raced, u \in HeldByConsumer(c)
        PROVE  u \in AtConsumers /\ u \notin AtConsumers'
    BY <1>0, <2>1, <2>3 DEF AtConsumers, HeldByConsumer, ConsumerHas, Alone, OnePlaceOfAKind
  <2> QED BY <2>1, <2>2, <2>3, UntouchedHold DEF StagesRight
<1>5. CASE RewriteFails
  <2>1. /\ UNCHANGED <<settled, raced, queue, results, dispatcher, consumer, listener>>
        /\ struck' = struck \cup HeldByRewrite /\ rstep' = "idle"
    BY <1>5 DEF RewriteFails, Strike, lists
  <2>2. Rewriting' = {}
    BY <2>1 DEF Rewriting
  <2>3. ASSUME NEW u \in Units \ raced
        PROVE  u \in Rewriting <=> u \in HeldByRewrite
    BY DEF Rewriting, HeldByRewrite, RewriteHas
  <2>4. ASSUME NEW u \in Units \ raced, u \in HeldByRewrite PROVE u \notin InQueue
    <3>1. DOMAIN queue \subseteq Nat /\ DOMAIN copied \subseteq Nat
      BY DEF TypeOK, ListsTyped, DashboardTyped
    <3> QED BY <2>4, <3>1 DEF HeldByRewrite, InQueue, QueueHas, Alone, OneKindOfPlace
  <2> QED BY <2>1, <2>2, <2>3, <2>4, UntouchedHold DEF StagesRight
<1> QED BY <1>1, <1>2, <1>3, <1>4, <1>5

\* A rewrite that runs loses none but the units it races with.
LEMMA RewritesPassOn ==
  ASSUME TypeOK, RewriteStep
  PROVE  /\ UNCHANGED <<settled, struck>> /\ raced \subseteq raced'
         /\ \A u \in Units \ raced' : u \in Held => u \in Held'
<1>1. /\ UNCHANGED <<dispatcher, consumer, results, listener, settled, struck>>
      /\ raced \subseteq raced'
  BY DEF RewriteStep, StartRewrite, ReadMessage, DeleteQueue, PushBack, lists, history
<1>2. ASSUME \A u \in Units \ raced' : u \in Waiting => u \in Waiting'
      PROVE  \A u \in Units \ raced' : u \in Held => u \in Held'
  BY <1>1, <1>2, UntouchedHold DEF Held, Reported
<1>3. CASE StartRewrite \/ ReadMessage
  <2>1. UNCHANGED queue /\ Rewriting = {}
    BY <1>3 DEF StartRewrite, ReadMessage, lists, Rewriting
  <2> QED BY <1>1, <1>2, <2>1, UntouchedHold DEF Waiting
<1>4. CASE DeleteQueue
  <2>1. ASSUME NEW u \in Units \ raced', u \in InQueue PROVE u \in Rewriting'
    <3>1. PICK i \in DOMAIN queue : queue[i].unit = u
      BY <2>1 DEF InQueue
    <3>2. u \notin Outdated /\ copied' = copied
      BY <1>4, <2>1 DEF DeleteQueue
    <3>3. PICK j \in DOMAIN copied : copied[j] = queue[i]
      BY <3>1, <3>2 DEF Outdated, Elements
    <3>4. rstep' = "push"
      BY <1>4, <3>3 DEF DeleteQueue
    <3> QED BY <3>1, <3>2, <3>3, <3>4 DEF Rewriting
  <2>2. Rewriting = {}
    BY <1>4 DEF DeleteQueue, Rewriting
  <2> QED BY <1>1, <1>2, <2>1, <2>2 DEF Waiting
<1>5. CASE PushBack
  <2>1. /\ rstep = "push" /\ copied # <<>> /\ copied \in Seq(Messages) /\ queue \in Seq(Messages)
        /\ queue' = Append(queue, Head(copied)) /\ copied' = Tail(copied)
        /\ rstep' = IF Tail(copied) = <<>> THEN "idle" ELSE "push"
    BY <1>5 DEF PushBack, TypeOK, ListsTyped, DashboardTyped
  <2>2. Head(copied) \in Messages
    BY <2>1
  <2>3. /\ \A i \in DOMAIN queue : i \in DOMAIN queue' /\ queue'[i] = queue[i]
        /\ \E i \in DOMAIN queue' : queue'[i] = Head(copied)
    <3> DEFINE e == Head(copied)
    <3>1. e \in Messages /\ queue \in Seq(Messages) /\ queue' = Append(queue, e)
      BY <2>1, <2>2
    <3> HIDE DEF e
    <3>2. /\ \A i \in DOMAIN queue : i \in DOMAIN Append(queue, e) /\ Append(queue, e)[i] = queue[i]
          /\ \E i \in DOMAIN Append(queue, e) : Append(queue, e)[i] = e
      BY <3>1, PushedUnits
    <3>3. /\ \A i \in DOMAIN queue : i \in DOMAIN queue' /\ queue'[i] = queue[i]
          /\ \E i \in DOMAIN queue' : queue'[i] = e
      BY <3>1, <3>2
    <3> QED BY <3>3 DEF e
  <2>4. InQueue \subseteq InQueue' /\ \A u \in Units : Head(copied).unit = u => u \in InQueue'
    BY <2>3 DEF InQueue
  <2>5. \A i \in DOMAIN copied :
          copied[i] = Head(copied) \/ \E j \in DOMAIN copied' : copied'[j] = copied[i]
    BY <2>1, PoppedUnits
  <2>6. (\E j \in DOMAIN copied' : TRUE) => rstep' = "push"
    BY <2>1
  <2>7. Rewriting \subseteq Rewriting' \cup InQueue'
    BY <2>4, <2>5, <2>6 DEF Rewriting
  <2> QED BY <1>1, <1>2, <2>4, <2>7 DEF Waiting
<1> QED BY <1>1, <1>3, <1>4, <1>5 DEF RewriteStep

\* What is gone stays gone.
LEMMA GoneStays ==
  ASSUME Lifecycle!Next, NEW u \in Units, Stage[u] = "gone"
  PROVE  Stage'[u] = "gone"
<1> DEFINE stage == [v \in Units |-> StageOf(v)]
<1>1. stage = Stage /\ DOMAIN stage = Units
  BY DEF Stage
<1>2. ASSUME NEW v \in Units, NEW to,
             \/ Lifecycle!Move(v, "fresh", to) \/ Lifecycle!Move(v, "assigned", to)
             \/ Lifecycle!Move(v, "waiting", to) \/ Lifecycle!Move(v, "working", to)
      PROVE  Stage'[u] = "gone"
  BY <1>2 DEF Lifecycle!Move, Stage
<1>3. ASSUME NEW gone \in SUBSET Units, Lifecycle!Leave(gone) PROVE Stage'[u] = "gone"
  BY <1>3 DEF Lifecycle!Leave, Stage
<1>4. ASSUME NEW v \in Units, Lifecycle!Attempt(v) PROVE Stage'[u] = "gone"
  BY <1>4 DEF Lifecycle!Attempt, Stage
<1> QED
  BY <1>2, <1>3, <1>4 DEF Lifecycle!Next, Lifecycle!Assign, Lifecycle!Publish, Lifecycle!Claim,
     Lifecycle!Retry, Lifecycle!Report

LEMMA LossKept ==
  ASSUME StagesRight, StagesRight', LossInv, Lifecycle!Next,
         raced \subseteq raced', settled \subseteq settled', struck \subseteq struck',
         settled' = settled \/ struck' = struck,
         \A u \in Units : status[u] # "absent" => status'[u] # "absent",
         \A u \in Units : status[u] = "absent" /\ status'[u] # "absent" => u \in Held',
         \A u \in Units \ raced' : u \in Held => u \in Held' \cup settled' \cup struck',
         \A u \in Units \ raced' :
           u \in (settled' \ settled) \cup (struck' \ struck) => u \in Held /\ u \notin Held'
  PROVE  LossInv'
<1> SUFFICES ASSUME NEW u \in Units \ raced'
             PROVE  /\ Stage'[u] = "gone" <=> u \in settled' \cup struck'
                    /\ u \notin settled' \cap struck'
  BY DEF LossInv
<1>1. /\ Stage[u] = "gone" <=> u \notin Held /\ status[u] # "absent"
      /\ Stage'[u] = "gone" <=> u \notin Held' /\ status'[u] # "absent"
      /\ status[u] = "absent" => u \notin Held
      /\ status'[u] = "absent" => u \notin Held'
  BY DEF StagesRight, Held
<1>2. /\ Stage[u] = "gone" <=> u \in settled \cup struck
      /\ u \notin settled \cap struck
  BY DEF LossInv
<1>3. CASE Stage[u] = "gone"
  BY <1>1, <1>2, <1>3, GoneStays
<1>4. CASE Stage[u] # "gone"
  BY <1>1, <1>2, <1>4
<1> QED BY <1>3, <1>4

LEMMA LossStep ==
  ASSUME PipelineInvariant, PipelineInvariant', LossInv, [Next]_vars,
         Operations \cap {"create", "clear"} = {}
  PROVE  LossInv'
<1>0. /\ TypeOK /\ TypeOK' /\ Alone /\ Rowed /\ Counted
      /\ StagesRight /\ StagesRight'
  BY StagesAreRight, StagesAreRightNext DEF PipelineInvariant
<1>1. ~ClearQueue /\ \A u \in Units : ~CreateTask(u)
  BY DEF ClearQueue, CreateTask
<1>2. /\ \A u \in Units : status[u] # "absent" => status'[u] # "absent"
      /\ \A u \in Units : status[u] = "absent" /\ status'[u] # "absent" => u \in Held'
  <2>1. \A u \in Units, m \in Masters : DispatcherHas(m, u)' => u \in Held'
    BY DEF DispatcherHas, AtDispatchers, Held
  <2> QED BY <1>0, <1>1, <2>1, RowedStep
<1>3. Lifecycle!Next
  BY <1>0, LifecycleStep
<1>4. ASSUME raced \subseteq raced', UNCHANGED <<settled, struck>>,
             \A u \in Units \ raced' : u \in Held => u \in Held'
      PROVE  LossInv'
  BY <1>0, <1>2, <1>3, <1>4, LossKept
<1>5. ASSUME NEW m \in Masters, DispatcherStep(m) \/ ListenerStep(m) PROVE LossInv'
  <2>1. UNCHANGED raced
    BY <1>5, RewriteUntouched
  <2>2. Held \subseteq Held' \cup settled' /\ settled \subseteq settled' /\ struck' = struck
    BY <1>0, <1>5, NothingGoes
  <2>3. CASE StoreResult(m)
    <3>1. \A u \in Units \ raced' : u \in settled' \ settled => u \in Held /\ u \notin Held'
      BY <1>0, <2>1, <2>3, StoredLeave
    <3> QED BY <1>0, <1>2, <1>3, <2>1, <2>2, <3>1, LossKept
  <2>4. CASE ~StoreResult(m)
    <3>1. settled' = settled
      BY <1>5, <2>4 DEF DispatcherStep, FetchPendingTasks, ExpandFails, CreateOrGetTaskRecord,
         PublishPush, PublishMarkQueued, PublishMarkBusiness, ListenerStep, TakeResult,
         CountStep, CountUnfinished, CountFailed, CloseBusinessTask, history
    <3> QED BY <1>0, <1>2, <1>3, <2>1, <2>2, <3>1, LossKept
  <2> QED BY <2>3, <2>4
<1>6. ASSUME NEW c \in Consumers, ConsumerStep(c) \/ ConsumerStarts(c) PROVE LossInv'
  <2>1. UNCHANGED raced
    BY <1>6, RewriteUntouched
  <2> QED BY <1>0, <1>4, <1>6, <2>1, ConsumersPassOn
<1>7. CASE \/ \E m \in Masters : DispatchCycleFails(m) \/ ListenerDies(m) \/ MasterRestarts(m)
           \/ \E c \in Consumers : ConsumerDies(c)
           \/ RewriteFails
  <2>1. /\ UNCHANGED <<settled, raced>> /\ struck \subseteq struck'
        /\ \A u \in Units \ raced : u \in Held => u \in Held' \cup struck'
        /\ \A u \in Units \ raced : u \in struck' \ struck => u \in Held /\ u \notin Held'
    BY <1>0, <1>7, StruckLeave
  <2> QED BY <1>0, <1>2, <1>3, <2>1, LossKept
<1>8. CASE RewriteStep
  BY <1>0, <1>4, <1>8, RewritesPassOn
<1>9. CASE (\E u \in Units : CancelTask(u)) \/ PauseOrResume \/ UNCHANGED vars
  <2>1. UNCHANGED <<queue, results, dispatcher, consumer, listener, rstep, copied, raced,
                    settled, struck>>
    BY <1>9 DEF CancelTask, PauseOrResume, vars, lists, history, dashboard
  <2> QED BY <1>4, <2>1, UntouchedHold DEF Held, Waiting, Reported
<1> QED BY <1>1, <1>5, <1>6, <1>7, <1>8, <1>9 DEF Next

\* The lost units are those that are gone without a stored result.
LEMMA LostAreGone ==
  ASSUME TypeOK, StagesRight, NEW u \in Units \ raced
  PROVE  u \in Lost <=> Stage[u] = "gone" /\ u \notin settled
<1>1. u \in Held <=> Copies(u) # {}
  <2>1. u \in AtDispatchers <=> \E m \in Masters : DispatcherHas(m, u)
    BY DEF AtDispatchers, DispatcherHas
  <2>2. u \in InQueue <=> \E i \in DOMAIN queue : QueueHas(i, u)
    BY DEF InQueue, QueueHas
  <2>3. u \in Rewriting <=> \E i \in DOMAIN copied : RewriteHas(i, u)
    BY DEF Rewriting, RewriteHas
  <2>4. u \in AtConsumers <=> \E c \in Consumers : ConsumerHas(c, u)
    BY DEF AtConsumers, ConsumerHas
  <2>5. u \in InResults <=> \E i \in DOMAIN results : ResultsHave(i, u)
    BY DEF InResults, ResultsHave
  <2>6. u \in AtListeners <=> \E m \in Masters : ListenerHas(m, u)
    BY DEF AtListeners, ListenerHas
  <2> DEFINE Somewhere ==
        \/ \E m \in Masters : DispatcherHas(m, u)
        \/ \E i \in DOMAIN queue : QueueHas(i, u)
        \/ \E i \in DOMAIN copied : RewriteHas(i, u)
        \/ \E c \in Consumers : ConsumerHas(c, u)
        \/ \E i \in DOMAIN results : ResultsHave(i, u)
        \/ \E m \in Masters : ListenerHas(m, u)
  <2>7. Copies(u) # {} <=> Somewhere
    <3>1. ASSUME NEW p \in Copies(u) PROVE Somewhere
      BY <3>1 DEF Copies
    <3>2. /\ \A m \in Masters : DispatcherHas(m, u) => <<"dispatcher", m>> \in Copies(u)
          /\ \A i \in DOMAIN queue : QueueHas(i, u) => <<"queue", i>> \in Copies(u)
          /\ \A i \in DOMAIN copied : RewriteHas(i, u) => <<"rewrite", i>> \in Copies(u)
          /\ \A c \in Consumers : ConsumerHas(c, u) => <<"consumer", c>> \in Copies(u)
          /\ \A i \in DOMAIN results : ResultsHave(i, u) => <<"results", i>> \in Copies(u)
          /\ \A m \in Masters : ListenerHas(m, u) => <<"listener", m>> \in Copies(u)
      BY DEF Copies
    <3> QED BY <3>1, <3>2
  <2> QED BY <2>1, <2>2, <2>3, <2>4, <2>5, <2>6, <2>7 DEF Held, Waiting, Reported
<1>2. Stage[u] = "gone" <=> u \notin Held /\ status[u] # "absent"
  BY DEF StagesRight, Held
<1> QED BY <1>1, <1>2 DEF Lost

\* While no operator clears the queues or creates rows by hand, a unit is lost exactly when
\* a failing thread held the only copy of it, for any number of threads and failures, and
\* of dashboard rewrites as far as none raced with the unit.
THEOREM LossesAreFailures ==
  ASSUME Operations \cap {"create", "clear"} = {}
  PROVE  Spec => []OnlyFailuresLose
<1>1. Init => LossInv
  <2> SUFFICES ASSUME Init PROVE LossInv
    OBVIOUS
  <2>1. TypeOK /\ Alone /\ Rowed
    BY InitOK
  <2>2. \A u \in Units : u \notin Held
    BY DEF Init, Held, Waiting, Reported, AtDispatchers, InQueue, Rewriting, AtConsumers,
       InResults, AtListeners
  <2>3. \A u \in Units : Stage[u] = "fresh"
    BY <2>1, <2>2, StagesAreRight DEF StagesRight, Init
  <2> QED BY <2>3 DEF Init, LossInv
<1>2. PipelineInvariant /\ PipelineInvariant' /\ LossInv /\ [Next]_vars => LossInv'
  BY LossStep
<1>3. PipelineInvariant /\ LossInv => OnlyFailuresLose
  <2> SUFFICES ASSUME PipelineInvariant, LossInv, NEW u
               PROVE  u \in Lost \ raced <=> u \in struck \ raced
    BY DEF OnlyFailuresLose
  <2>1. TypeOK /\ StagesRight
    BY StagesAreRight DEF PipelineInvariant
  <2>2. Lost \subseteq Units /\ struck \subseteq Units
    BY <2>1 DEF Lost, TypeOK, HistoryTyped
  <2> QED BY <2>1, <2>2, LostAreGone DEF LossInv
<1> QED BY <1>1, <1>2, <1>3, InvariantHolds, PTL DEF Spec
=============================================================================

---------------------------- MODULE CrawlRunProofs ----------------------------
(***************************************************************************)
(* What a run of a crawler stores, for any number of jobs, threads, cookie *)
(* files and failures.                                                     *)
(***************************************************************************)
EXTENDS CrawlRun, WellFoundedInduction, TLAPS

Background == {"none", "own", "switched", "own2", "switched2", "ended"}

\* Types, and that a thread has a job just while it is not idle.
Typed ==
  /\ run \in Runs
  /\ queue \in Seq(Jobs)
  /\ pc \in [Threads -> Steps]
  /\ batch \in [Threads -> Seq(Jobs)]
  /\ \A w \in Threads : pc[w] # "idle" => batch[w] # <<>>
  /\ switched \in [Threads -> BOOLEAN]
  /\ reply \in [Instances -> {0} \cup Jobs]
  /\ pending_snippets \in [Instances -> {0} \cup Jobs]
  /\ current \in [Instances -> {0} \cup Jobs]
  /\ webs \in [Instances -> {0} \cup Jobs]
  /\ background \in [Jobs -> Background]
  /\ result \in [Jobs -> {"none", "true", "false"}]
  /\ replies \in [Jobs -> Nat]
  /\ repeats \in [Jobs -> Nat]

\* A sequence without its first element.
LEMMA Rest ==
  ASSUME NEW S, NEW s \in Seq(S), s # <<>>
  PROVE  /\ Tail(s) \in Seq(S) /\ Len(Tail(s)) = Len(s) - 1
         /\ DOMAIN Tail(s) = 1..(Len(s) - 1)
         /\ \A i \in 1..(Len(s) - 1) : Tail(s)[i] = s[i + 1]
         /\ Len(s) > 1 => Tail(s) # <<>>
         /\ Head(s) = s[1] /\ Head(s) \in S /\ 1 \in DOMAIN s
<1>1. Len(s) \in Nat \ {0} /\ DOMAIN s = 1..Len(s)
  OBVIOUS
<1>2. Tail(s) \in Seq(S) /\ Len(Tail(s)) = Len(s) - 1
  OBVIOUS
<1>3. DOMAIN Tail(s) = 1..(Len(s) - 1)
  BY <1>2
<1>4. Len(s) > 1 => Tail(s) # <<>>
  <2>1. \A t \in Seq(S) : Len(t) # 0 => t # <<>>
    OBVIOUS
  <2>2. Len(s) > 1 => Len(Tail(s)) # 0
    BY <1>1, <1>2
  <2> QED BY <1>2, <2>1, <2>2, Zenon
<1> QED BY <1>1, <1>2, <1>3, <1>4

\* Jobs are numbered, and every one has its instances.
LEMMA Numbered ==
  ASSUME Typed
  PROVE  /\ Len(run.jobs) \in Nat /\ Jobs = 1..Len(run.jobs)
         /\ Jobs \subseteq Instances
         /\ 0 \in Instances
         /\ \A j \in Jobs : /\ InstanceOf(j) \in Instances
                            /\ Temporary(j) \in Instances
                            /\ Temporary(j) \notin Jobs
                            /\ \A k \in Jobs : Temporary(j) = Temporary(k) => j = k
<1>1. run.jobs \in Seq(Nat \ {0})
  BY CrawlAssumption DEF CrawlAssumption, Typed
<1>2. Len(run.jobs) \in Nat /\ Jobs = 1..Len(run.jobs)
  BY <1>1 DEF Jobs
<1> QED BY <1>2 DEF Instances, InstanceOf, Temporary

\* What a thread works on.
LEMMA HasJob ==
  ASSUME Typed, NEW w \in Threads, pc[w] # "idle"
  PROVE  /\ Job(w) \in Jobs /\ Job(w) = batch[w][1]
         /\ 1 \in DOMAIN batch[w]
         /\ InstanceOf(Job(w)) \in Instances
         /\ Temporary(Job(w)) \in Instances
         /\ Asker(w) \in {InstanceOf(Job(w)), Temporary(Job(w))}
<1>1. batch[w] \in Seq(Jobs) /\ batch[w] # <<>>
  BY DEF Typed
<1>2. Job(w) \in Jobs /\ Job(w) = batch[w][1] /\ 1 \in DOMAIN batch[w]
  BY <1>1 DEF Job
<1> QED BY <1>2, Numbered DEF Asker

\* Turning to a job writes the instance of that job alone.
LEMMA TurnTyped ==
  ASSUME Typed, NEW w \in Threads, NEW rest \in Seq(Jobs), rest # <<>>, NEW own,
         Turn(w, rest, own)
  PROVE  /\ batch' \in [Threads -> Seq(Jobs)] /\ batch'[w] = rest
         /\ \A v \in Threads \ {w} : batch'[v] = batch[v]
         /\ switched' \in [Threads -> BOOLEAN] /\ ~switched'[w]
         /\ \A v \in Threads \ {w} : switched'[v] = switched[v]
         /\ current' \in [Instances -> {0} \cup Jobs]
         /\ current' = [current EXCEPT ![InstanceOf(Head(rest))] = Head(rest)]
<1>1. Head(rest) \in Jobs
  OBVIOUS
<1>2. InstanceOf(Head(rest)) \in Instances
  BY <1>1, Numbered
<1> QED BY <1>1, <1>2 DEF Turn, Typed

-----------------------------------------------------------------------------
LEMMA InitTyped == CrawlInit => Typed
<1> SUFFICES ASSUME CrawlInit PROVE Typed
  OBVIOUS
<1>1. run.jobs \in Seq(Nat \ {0})
  BY CrawlAssumption DEF CrawlAssumption, CrawlInit
<1>2. Len(run.jobs) \in Nat /\ Jobs = 1..Len(run.jobs)
  BY <1>1 DEF Jobs
<1>3. queue \in Seq(Jobs)
  BY <1>2 DEF CrawlInit
<1>4. batch \in [Threads -> Seq(Jobs)]
  BY DEF CrawlInit
<1> QED BY <1>3, <1>4 DEF CrawlInit, Typed, Steps, Background

\* The main thread leaves the threads and their instances alone.
LEMMA MainLeavesAlone ==
  ASSUME MainStep
  PROVE  UNCHANGED <<run, queue, thread, result, instance, background, stored, repeats>>
BY DEF MainStep, MarkRunning, SetStatus, StartPool, Collect, CollectAfu, Complete, main, history

LEMMA FinishedTyped ==
  ASSUME Typed, NEW w \in Threads, NEW value \in {"true", "false"}, Finished(w, value),
         UNCHANGED <<run, queue>>
  PROVE  Typed'
<1>1. Jobs' = Jobs /\ Instances' = Instances
  BY DEF Jobs, Instances
<1>2. batch' \in [Threads -> Seq(Jobs)]
  <2>1. <<>> \in Seq(Jobs)
    OBVIOUS
  <2> QED BY <2>1 DEF Finished, Typed
<1>3. pc' \in [Threads -> Steps] /\ \A v \in Threads : pc'[v] # "idle" => batch'[v] # <<>>
  BY DEF Finished, Typed, Steps
<1>4. result' \in [Jobs -> {"none", "true", "false"}]
  BY DEF Finished, Typed
<1>5. UNCHANGED <<instance, background, stored, history>>
  BY DEF Finished
<1>6. switched' \in [Threads -> BOOLEAN]
  BY DEF Finished, Typed
<1> QED BY <1>1, <1>2, <1>3, <1>4, <1>5, <1>6 DEF Typed, instance, stored, history

LEMMA TypedKept == Typed /\ [CrawlNext]_crawlVars => Typed'
<1> SUFFICES ASSUME Typed, [CrawlNext]_crawlVars PROVE Typed'
  OBVIOUS
<1> USE DEF main, thread, instance, stored, history
<1>1. CASE UNCHANGED crawlVars
  BY <1>1 DEF crawlVars, Typed, Jobs, Instances
<1>2. CASE MainStep
  BY <1>2, MainLeavesAlone DEF Typed, Jobs, Instances
<1>3. ASSUME NEW j \in Jobs, StorePages(j) \/ StoreSnippets(j) \/ ThreadDies(j) PROVE Typed'
  <2>1. Jobs' = Jobs /\ Instances' = Instances
    BY <1>3 DEF StorePages, StoreSnippets, ThreadDies, Jobs, Instances
  <2>2. background' \in [Jobs -> Background]
    BY <1>3 DEF StorePages, StoreSnippets, ThreadDies, Typed, Background
  <2>3. webs' \in [Instances -> {0} \cup Jobs]
    BY <1>3 DEF StorePages, StoreSnippets, ThreadDies, Typed, InsertSearchWeb, NoWebContent
  <2>4. UNCHANGED <<run, queue, thread, result, reply, pending_snippets, current, replies, repeats>>
    BY <1>3 DEF StorePages, StoreSnippets, ThreadDies
  <2> QED BY <2>1, <2>2, <2>3, <2>4 DEF Typed
<1>4. ASSUME NEW w \in Threads, ThreadStep(w) PROVE Typed'
  <2> run' = run
    BY <1>4 DEF ThreadStep, TakeJob, RunAll, Open, LoginFails, BrowserFails, PageCloses,
       PageIsBlank,
       NoAnswer, AnswerComes, Parse, FailsLate, Collects, Switch, TemporaryBrowserFails, GiveUp,
       Answered, Return, ReturnAll, Leave, Raise
  <2> Jobs' = Jobs /\ Instances' = Instances
    BY DEF Jobs, Instances
  <2>1. CASE TakeJob(w)
    <3>1. Head(queue) \in Jobs /\ Tail(queue) \in Seq(Jobs) /\ <<Head(queue)>> \in Seq(Jobs)
      BY <2>1 DEF TakeJob, Typed
    <3>2. <<Head(queue)>> # <<>>
      OBVIOUS
    <3> QED BY <2>1, <3>1, <3>2 DEF TakeJob, Typed, Steps
  <2>2. CASE RunAll(w)
    BY <2>2 DEF RunAll, Typed, Steps
  <2>3. CASE Open(w)
    <3>1. batch[w] \in Seq(Jobs) /\ batch[w] # <<>>
      BY <2>3 DEF Open, Typed
    <3>2. Turn(w, batch[w], cookie[w])
      BY <2>3 DEF Open
    <3>3. batch' \in [Threads -> Seq(Jobs)] /\ batch'[w] = batch[w]
          /\ (\A v \in Threads \ {w} : batch'[v] = batch[v])
          /\ switched' \in [Threads -> BOOLEAN] /\ current' \in [Instances -> {0} \cup Jobs]
      BY <3>1, <3>2, TurnTyped
    <3> QED BY <2>3, <3>1, <3>3 DEF Open, Typed, Steps
  <2>4. CASE LoginFails(w) \/ BrowserFails(w) \/ PageCloses(w) \/ NoAnswer(w) \/ TemporaryBrowserFails(w) \/ GiveUp(w)
    BY <2>4 DEF LoginFails, BrowserFails, PageCloses, NoAnswer, TemporaryBrowserFails, GiveUp,
       Raises,
       SameThread, Typed, Steps
  <2>5. CASE PageIsBlank(w)
    BY <2>5 DEF PageIsBlank, Succeeds, SameThread, Typed, Steps
  <2>6. CASE FailsLate(w)
    <3>1. Job(w) \in Jobs
      BY <2>6, HasJob DEF FailsLate
    <3>2. repeats' \in [Jobs -> Nat]
      BY <2>6, <3>1 DEF FailsLate, Typed
    <3> QED BY <2>6, <3>2 DEF FailsLate, Raises, SameThread, Typed, Steps
  <2>7. CASE AnswerComes(w)
    <3>1. Job(w) \in Jobs /\ Asker(w) \in Instances
      BY <2>7, HasJob DEF AnswerComes
    <3>2. /\ replies' \in [Jobs -> Nat] /\ repeats' \in [Jobs -> Nat]
          /\ reply' \in [Instances -> {0} \cup Jobs]
      <4>1. CASE InsertReply(w)
        BY <3>1, <4>1 DEF InsertReply, Typed
      <4>2. CASE RetryReply(w)
        <5>1. reply' \in [Instances -> {0} \cup Jobs]
          BY <3>1, <4>2 DEF RetryReply, Typed
        <5>2. replies' \in [Jobs -> Nat] /\ repeats' \in [Jobs -> Nat]
          <6>1. replies[Job(w)] + 2 \in Nat /\ repeats[Job(w)] + 1 \in Nat
            BY <3>1 DEF Typed
          <6>2. \/ UNCHANGED <<replies, repeats>>
                \/ /\ replies' = [replies EXCEPT ![Job(w)] = replies[Job(w)] + 2]
                   /\ repeats' = [repeats EXCEPT ![Job(w)] = repeats[Job(w)] + 1]
            BY <4>2 DEF RetryReply
          <6>3. replies \in [Jobs -> Nat] /\ repeats \in [Jobs -> Nat]
            BY DEF Typed
          <6> HIDE DEF Jobs
          <6> QED BY <6>1, <6>2, <6>3
        <5> QED BY <5>1, <5>2
      <4> QED BY <2>7, <4>1, <4>2 DEF AnswerComes
    <3> QED BY <2>7, <3>2 DEF AnswerComes, SameThread, Typed, Steps
  <2>8. CASE Parse(w)
    <3>1. Job(w) \in Jobs /\ Asker(w) \in Instances
      BY <2>8, HasJob DEF Parse
    <3>2. pending_snippets' \in [Instances -> {0} \cup Jobs]
      BY <2>8, <3>1 DEF Parse, Typed
    <3> QED BY <2>8, <3>2 DEF Parse, SameThread, Typed, Steps
  <2>9. CASE Collects(w)
    <3>1. Job(w) \in Jobs
      BY <2>9, HasJob DEF Collects
    <3>2. background' \in [Jobs -> Background]
      BY <2>9, <3>1 DEF Collects, Typed, Background
    <3> QED BY <2>9, <3>2 DEF Collects, Succeeds, SameThread, Typed, Steps
  <2>10. CASE Switch(w)
    <3>1. Job(w) \in Jobs /\ Temporary(Job(w)) \in Instances /\ InstanceOf(Job(w)) \in Instances
      BY <2>10, HasJob DEF Switch
    <3>2. current' \in [Instances -> {0} \cup Jobs]
      BY <2>10, <3>1 DEF Switch, Typed
    <3> QED BY <2>10, <3>2 DEF Switch, Typed, Steps
  <2>11. CASE Answered(w)
    <3>1. batch[w] \in Seq(Jobs) /\ batch[w] # <<>> /\ Job(w) \in Jobs
      BY <2>11, HasJob DEF Answered, Typed
    <3>2. CASE Len(batch[w]) > 1
      <4>1. Tail(batch[w]) \in Seq(Jobs) /\ Tail(batch[w]) # <<>>
        BY <3>1, <3>2, Rest
      <4>2. Turn(w, Tail(batch[w]), cookie[w])
        BY <2>11, <3>2 DEF Answered
      <4>3. batch' \in [Threads -> Seq(Jobs)] /\ batch'[w] = Tail(batch[w])
            /\ (\A v \in Threads \ {w} : batch'[v] = batch[v])
            /\ switched' \in [Threads -> BOOLEAN] /\ current' \in [Instances -> {0} \cup Jobs]
        BY <4>1, <4>2, TurnTyped
      <4> QED BY <2>11, <3>1, <3>2, <4>1, <4>3 DEF Answered, Typed, Steps
    <3>3. CASE ~(Len(batch[w]) > 1)
      BY <2>11, <3>3 DEF Answered, Typed, Steps
    <3> QED BY <3>2, <3>3
  <2>12. CASE Return(w) \/ ReturnAll(w) \/ Leave(w) \/ Raise(w)
    <3>1. UNCHANGED <<run, queue>> /\ \E value \in {"true", "false"} : Finished(w, value)
      BY <2>12 DEF Return, ReturnAll, Leave, Raise
    <3> QED BY <3>1, FinishedTyped
  <2> QED BY <1>4, <2>1, <2>2, <2>3, <2>4, <2>5, <2>6, <2>7, <2>8, <2>9, <2>10, <2>11, <2>12
         DEF ThreadStep
<1> QED BY <1>1, <1>2, <1>3, <1>4 DEF CrawlNext, BackgroundStep

-----------------------------------------------------------------------------
(* Pages and snippets.                                                     *)

\* The instances of a job know of no other job.
Owns(f) == \A j \in Jobs : f[j] \in {0, j} /\ f[Temporary(j)] \in {0, j}

Switched == {"switched", "switched2"}

\* A thread past its start, and a background thread, have set their task and round.
Set ==
  /\ \A w \in Threads : pc[w] \notin {"idle", "opening", "leaving", "raising"} =>
       /\ current[Job(w)] = Job(w)
       /\ switched[w] => current[Temporary(Job(w))] = Job(w)
  /\ \A j \in Jobs : background[j] # "none" =>
       /\ current[j] = j
       /\ background[j] \in Switched => current[Temporary(j)] = j

StoredOwn ==
  /\ \A p \in pages : p.as = p.by
  /\ \A s \in snippets : s.reply = s.by /\ s.text = s.by /\ s.page = s.by

Own ==
  run.mode # "single" =>
    Owns(reply) /\ Owns(pending_snippets) /\ Owns(current) /\ Owns(webs) /\ Set /\ StoredOwn

LEMMA InitOwn == CrawlInit => Own
<1> SUFFICES ASSUME CrawlInit PROVE Own
  OBVIOUS
<1>1. Typed
  BY InitTyped
<1> QED BY <1>1, Numbered DEF CrawlInit, Own, Owns, Set, StoredOwn

\* A job written into an instance of its own.
LEMMA WriteOwn ==
  ASSUME Typed, NEW f \in [Instances -> {0} \cup Jobs], Owns(f), NEW j \in Jobs,
         NEW i \in {j, Temporary(j)}, NEW v \in {0, j}
  PROVE  \A k \in Jobs : /\ [f EXCEPT ![i] = v][k] \in {0, k}
                          /\ [f EXCEPT ![i] = v][Temporary(k)] \in {0, k}
<1>1. i \in Instances /\ j \in Instances
  BY Numbered
<1> SUFFICES ASSUME NEW k \in Jobs
             PROVE  /\ [f EXCEPT ![i] = v][k] \in {0, k}
                    /\ [f EXCEPT ![i] = v][Temporary(k)] \in {0, k}
  OBVIOUS
<1>2. k \in Instances /\ Temporary(k) \in Instances
  BY Numbered
<1>3. k = i => k = j
  BY Numbered
<1>4. Temporary(k) = i => k = j
  BY Numbered
<1>5. f[k] \in {0, k} /\ f[Temporary(k)] \in {0, k}
  BY DEF Owns
<1> HIDE DEF Instances, Jobs
<1> QED BY <1>1, <1>2, <1>3, <1>4, <1>5

\* Threads that do not share an instance have their own.
LEMMA OwnInstance ==
  ASSUME run.mode # "single", NEW j
  PROVE  InstanceOf(j) = j
BY DEF InstanceOf

\* Steps that leave the instances and what is stored alone.
LEMMA OwnUntouched ==
  ASSUME Typed, Own, UNCHANGED <<run, instance, pages, snippets>>,
         \A w \in Threads :
           pc'[w] \notin {"idle", "opening", "leaving", "raising"} =>
             /\ pc[w] \notin {"idle", "opening", "leaving", "raising"}
             /\ batch'[w] = batch[w] /\ switched'[w] = switched[w],
         \A j \in Jobs : background'[j] # background[j] /\ background'[j] # "none" =>
           \/ background[j] # "none" /\ (background'[j] \in Switched => background[j] \in Switched)
           \/ \E w \in Threads : /\ pc[w] = "collecting" /\ j = Job(w)
                                 /\ background'[j] \in Switched => switched[w]
  PROVE  Own'
<1> SUFFICES ASSUME run.mode # "single" PROVE Own'
  BY DEF Own
<1>1. Jobs' = Jobs
  BY DEF Jobs
<1>2. \A j \in Jobs : Temporary(j)' = Temporary(j)
  BY DEF Temporary
<1>3. UNCHANGED <<reply, pending_snippets, current, webs>>
  BY DEF instance
<1>4. Owns(reply)' /\ Owns(pending_snippets)' /\ Owns(current)' /\ Owns(webs)' /\ StoredOwn'
  BY <1>1, <1>2, <1>3 DEF Own, Owns, StoredOwn
<1>5. Set'
  <2>1. ASSUME NEW w \in Threads, pc'[w] \notin {"idle", "opening", "leaving", "raising"}
        PROVE  /\ current'[Job(w)'] = Job(w)'
               /\ switched'[w] => current'[Temporary(Job(w))'] = Job(w)'
    <3>1. Job(w)' = Job(w)
      BY <2>1 DEF Job
    <3>2. Temporary(Job(w))' = Temporary(Job(w))
      BY <3>1 DEF Temporary
    <3> QED BY <1>3, <2>1, <3>1, <3>2 DEF Own, Set
  <2>2. ASSUME NEW j \in Jobs, background'[j] # "none"
        PROVE  /\ current'[j] = j
               /\ background'[j] \in Switched => current'[Temporary(j)] = j
    <3>1. CASE background'[j] = background[j]
      BY <1>3, <2>2, <3>1 DEF Own, Set
    <3>2. CASE background[j] # "none" /\ (background'[j] \in Switched => background[j] \in Switched)
      BY <1>3, <2>2, <3>2 DEF Own, Set
    <3>3. ASSUME NEW w \in Threads, pc[w] = "collecting", j = Job(w),
                 background'[j] \in Switched => switched[w]
          PROVE  /\ current'[j] = j
                 /\ background'[j] \in Switched => current'[Temporary(j)] = j
      BY <1>3, <3>3 DEF Own, Set
    <3> QED BY <2>2, <3>1, <3>2, <3>3
  <2> QED BY <1>1, <1>2, <2>1, <2>2 DEF Set
<1> QED BY <1>4, <1>5 DEF Own

\* An instance turns to its next job.
LEMMA OwnTurn ==
  ASSUME Typed, Own, NEW w \in Threads, NEW rest \in Seq(Jobs), rest # <<>>, NEW own,
         Turn(w, rest, own), pc' = [pc EXCEPT ![w] = "asking"],
         UNCHANGED <<run, reply, pending_snippets, webs, background, pages, snippets>>
  PROVE  Own'
<1> SUFFICES ASSUME run.mode # "single" PROVE Own'
  BY DEF Own
<1> DEFINE j == Head(rest)
<1>1. j \in Jobs /\ j = rest[1]
  BY Rest
<1>2. Jobs' = Jobs /\ \A k \in Jobs : Temporary(k)' = Temporary(k)
  BY DEF Jobs, Temporary
<1>3. current' = [current EXCEPT ![j] = j] /\ current \in [Instances -> {0} \cup Jobs]
  BY TurnTyped, OwnInstance DEF Typed
<1>4. Owns(current)'
  BY <1>1, <1>2, <1>3, WriteOwn DEF Own, Owns
<1>5. Owns(reply)' /\ Owns(pending_snippets)' /\ Owns(webs)' /\ StoredOwn'
  BY <1>2 DEF Own, Owns, StoredOwn
<1>6. \A k \in Jobs : current[k] = k => current'[k] = k
  BY <1>1, <1>3, Numbered
<1>7. \A k \in Jobs : current[Temporary(k)] = k => current'[Temporary(k)] = k
  BY <1>1, <1>3, Numbered
<1>8. Set'
  <2>1. ASSUME NEW v \in Threads, pc'[v] \notin {"idle", "opening", "leaving", "raising"}
        PROVE  /\ current'[Job(v)'] = Job(v)'
               /\ switched'[v] => current'[Temporary(Job(v))'] = Job(v)'
    <3>1. CASE v = w
      <4>1. Job(v)' = j /\ ~switched'[v]
        BY <3>1, TurnTyped DEF Job
      <4>2. current'[j] = j
        BY <1>1, <1>3, Numbered
      <4> QED BY <4>1, <4>2
    <3>2. CASE v # w
      <4>1. batch'[v] = batch[v] /\ switched'[v] = switched[v] /\ pc'[v] = pc[v]
        BY <3>2, TurnTyped DEF Typed
      <4>2. Job(v)' = Job(v) /\ Job(v) \in Jobs
        BY <2>1, <4>1, HasJob DEF Job
      <4>3. Temporary(Job(v))' = Temporary(Job(v))
        BY <4>2 DEF Temporary
      <4> QED BY <1>6, <1>7, <2>1, <4>1, <4>2, <4>3 DEF Own, Set
    <3> QED BY <3>1, <3>2
  <2>2. ASSUME NEW k \in Jobs, background[k] # "none"
        PROVE  /\ current'[k] = k
               /\ background[k] \in Switched => current'[Temporary(k)] = k
    BY <1>6, <1>7, <2>2 DEF Own, Set
  <2> QED BY <1>2, <2>1, <2>2 DEF Set
<1> QED BY <1>4, <1>5, <1>8 DEF Own

LEMMA OwnKept == Typed /\ Own /\ [CrawlNext]_crawlVars => Own'
<1> SUFFICES ASSUME Typed, Own, [CrawlNext]_crawlVars PROVE Own'
  OBVIOUS
<1> USE DEF main, thread, stored, history
<1>1. CASE UNCHANGED crawlVars
  BY <1>1, OwnUntouched DEF crawlVars
<1>2. CASE MainStep
  BY <1>2, MainLeavesAlone, OwnUntouched
<1>3. ASSUME NEW j \in Jobs, StorePages(j) PROVE Own'
  <2> SUFFICES ASSUME run.mode # "single" PROVE Own'
    BY <1>3 DEF Own, StorePages
  <2>1. Owner(j) \in {j, Temporary(j)} /\ current[Owner(j)] = j
    BY <1>3, OwnInstance DEF StorePages, Owner, Own, Set, Switched
  <2>2. \E v \in {0, j} : webs' = [webs EXCEPT ![Owner(j)] = v]
    BY <1>3 DEF StorePages, InsertSearchWeb, NoWebContent
  <2>3. webs \in [Instances -> {0} \cup Jobs]
    BY DEF Typed
  <2>4. \A k \in Jobs : webs'[k] \in {0, k} /\ webs'[Temporary(k)] \in {0, k}
    BY <2>1, <2>2, <2>3, WriteOwn DEF Own
  <2>5. pages' \subseteq pages \cup {[by |-> j, as |-> j]}
    BY <1>3, <2>1 DEF StorePages, InsertSearchWeb, NoWebContent
  <2>6. /\ UNCHANGED <<run, pc, batch, switched, reply, pending_snippets, current, snippets>>
        /\ \A k \in Jobs : background'[k] # "none" =>
             background[k] # "none" /\ (background'[k] \in Switched => background[k] \in Switched)
    BY <1>3 DEF StorePages, Typed, Switched
  <2>7. Jobs' = Jobs /\ (\A k \in Jobs : Temporary(k)' = Temporary(k))
        /\ \A w \in Threads : Job(w)' = Job(w) /\ Temporary(Job(w))' = Temporary(Job(w))
    BY <2>6 DEF Jobs, Temporary, Job
  <2>8. Owns(reply)' /\ Owns(pending_snippets)' /\ Owns(current)' /\ Owns(webs)'
    BY <2>4, <2>6, <2>7 DEF Own, Owns
  <2>9. StoredOwn'
    BY <2>5, <2>6 DEF Own, StoredOwn
  <2>10. Set'
    BY <2>6, <2>7 DEF Own, Set
  <2> QED BY <2>8, <2>9, <2>10 DEF Own
<1>4. ASSUME NEW j \in Jobs, StoreSnippets(j) PROVE Own'
  <2> SUFFICES ASSUME run.mode # "single" PROVE Own'
    BY <1>4 DEF Own, StoreSnippets
  <2>1. Owner(j) \in {j, Temporary(j)}
    BY <1>4, OwnInstance DEF Owner
  <2>2. {reply[Owner(j)], pending_snippets[Owner(j)], webs[Owner(j)]} \subseteq {0, j}
    BY <2>1 DEF Own, Owns
  <2>3. snippets' \subseteq snippets \cup {[by |-> j, reply |-> j, text |-> j, page |-> j]}
    BY <1>4, <2>2 DEF StoreSnippets, InsertSnippet
  <2>4. /\ UNCHANGED <<run, pc, batch, switched, instance, pages>>
        /\ \A k \in Jobs : background'[k] # "none" =>
             background[k] # "none" /\ (background'[k] \in Switched => background[k] \in Switched)
    BY <1>4 DEF StoreSnippets, Typed, Switched
  <2>5. Jobs' = Jobs /\ (\A k \in Jobs : Temporary(k)' = Temporary(k))
        /\ \A w \in Threads : Job(w)' = Job(w) /\ Temporary(Job(w))' = Temporary(Job(w))
    BY <2>4 DEF Jobs, Temporary, Job
  <2>6. Owns(reply)' /\ Owns(pending_snippets)' /\ Owns(current)' /\ Owns(webs)'
    BY <2>4, <2>5 DEF Own, Owns, instance
  <2>7. StoredOwn'
    BY <2>3, <2>4 DEF Own, StoredOwn
  <2>8. Set'
    BY <2>4, <2>5 DEF Own, Set, instance
  <2> QED BY <2>6, <2>7, <2>8 DEF Own
<1>5. ASSUME NEW j \in Jobs, ThreadDies(j) PROVE Own'
  <2>1. \A k \in Jobs : background'[k] # background[k] =>
          background[k] # "none" /\ background'[k] \notin Switched
    BY <1>5 DEF ThreadDies, Typed, Switched
  <2> QED BY <1>5, <2>1, OwnUntouched DEF ThreadDies
<1>6. ASSUME NEW w \in Threads, ThreadStep(w) PROVE Own'
  <2>1. CASE TakeJob(w) \/ RunAll(w)
    <3>1. \A v \in Threads : pc'[v] # "opening" => v # w
      BY <2>1 DEF TakeJob, RunAll, Typed
    <3>2. \A v \in Threads : v # w =>
            pc'[v] = pc[v] /\ batch'[v] = batch[v] /\ switched'[v] = switched[v]
      BY <2>1 DEF TakeJob, RunAll, Typed
    <3> QED BY <2>1, <3>1, <3>2, OwnUntouched DEF TakeJob, RunAll
  <2>2. CASE Open(w)
    <3>1. batch[w] \in Seq(Jobs) /\ batch[w] # <<>>
      BY <2>2 DEF Open, Typed
    <3>2. /\ Turn(w, batch[w], cookie[w]) /\ pc' = [pc EXCEPT ![w] = "asking"]
          /\ UNCHANGED <<run, reply, pending_snippets, webs, background, pages, snippets>>
      BY <2>2 DEF Open
    <3> QED BY <3>1, <3>2, OwnTurn
  <2>3. CASE LoginFails(w) \/ BrowserFails(w) \/ PageCloses(w) \/ GiveUp(w)
    <3>1. \A v \in Threads : \/ v # w /\ pc'[v] = pc[v]
                             \/ v = w /\ pc'[v] \in {"leaving", "raising"}
      BY <2>3 DEF LoginFails, BrowserFails, PageCloses, GiveUp, Typed
    <3>2. UNCHANGED <<run, batch, switched, instance, background, pages, snippets>>
      BY <2>3 DEF LoginFails, BrowserFails, PageCloses, SameThread, GiveUp
    <3> QED BY <3>1, <3>2, OwnUntouched
  <2>4. CASE PageIsBlank(w) \/ NoAnswer(w) \/ FailsLate(w) \/ TemporaryBrowserFails(w)
    <3>1. pc[w] \in {"asking", "parsing", "collecting"}
      BY <2>4 DEF PageIsBlank, NoAnswer, FailsLate, TemporaryBrowserFails
    <3>2. \A v \in Threads : v # w => pc'[v] = pc[v]
      BY <2>4 DEF PageIsBlank, NoAnswer, FailsLate, TemporaryBrowserFails, Raises, Succeeds,
         Typed
    <3>3. UNCHANGED <<run, batch, switched, instance, background, pages, snippets>>
      BY <2>4 DEF PageIsBlank, NoAnswer, FailsLate, TemporaryBrowserFails, SameThread
    <3> QED BY <3>1, <3>2, <3>3, OwnUntouched
  <2>5. CASE Collects(w)
    <3>1. /\ pc[w] = "collecting"
          /\ \A v \in Threads : v # w => pc'[v] = pc[v]
          /\ UNCHANGED <<run, batch, switched, instance, pages, snippets>>
      BY <2>5 DEF Collects, Succeeds, SameThread, Typed
    <3>2. \A j \in Jobs : background'[j] # background[j] =>
            j = Job(w) /\ (background'[j] \in Switched => switched[w])
      BY <2>5 DEF Collects, Typed, Switched
    <3> QED BY <3>1, <3>2, OwnUntouched
  <2>6. CASE AnswerComes(w) \/ Parse(w)
    <3> SUFFICES ASSUME run.mode # "single" PROVE Own'
      BY <2>6 DEF AnswerComes, Parse, Own
    <3>1. /\ pc[w] \in {"asking", "parsing"}
          /\ UNCHANGED <<run, batch, switched, current, webs, background, pages, snippets>>
          /\ \A v \in Threads : v # w => pc'[v] = pc[v]
      BY <2>6 DEF AnswerComes, Parse, SameThread, Typed
    <3>2. Job(w) \in Jobs /\ Asker(w) \in {Job(w), Temporary(Job(w))}
      BY <3>1, HasJob, OwnInstance
    <3>3. \/ reply' = reply
          \/ \E v \in {0, Job(w)} : reply' = [reply EXCEPT ![Asker(w)] = v]
      BY <2>6 DEF AnswerComes, Parse, InsertReply, RetryReply
    <3>4. \/ pending_snippets' = pending_snippets
          \/ \E v \in {0, Job(w)} :
               pending_snippets' = [pending_snippets EXCEPT ![Asker(w)] = v]
      BY <2>6 DEF AnswerComes, Parse
    <3>5. Jobs' = Jobs /\ (\A k \in Jobs : Temporary(k)' = Temporary(k))
          /\ \A v \in Threads : Job(v)' = Job(v) /\ Temporary(Job(v))' = Temporary(Job(v))
      BY <3>1 DEF Jobs, Temporary, Job
    <3>6. \A k \in Jobs : reply'[k] \in {0, k} /\ reply'[Temporary(k)] \in {0, k}
      <4>1. reply \in [Instances -> {0} \cup Jobs] /\ Owns(reply)
        BY DEF Typed, Own
      <4>2. CASE reply' = reply
        BY <4>1, <4>2 DEF Owns
      <4>3. CASE \E v \in {0, Job(w)} : reply' = [reply EXCEPT ![Asker(w)] = v]
        BY <3>2, <4>1, <4>3, WriteOwn
      <4> QED BY <3>3, <4>2, <4>3
    <3>7. \A k \in Jobs : /\ pending_snippets'[k] \in {0, k}
                          /\ pending_snippets'[Temporary(k)] \in {0, k}
      <4>1. pending_snippets \in [Instances -> {0} \cup Jobs] /\ Owns(pending_snippets)
        BY DEF Typed, Own
      <4>2. CASE pending_snippets' = pending_snippets
        BY <4>1, <4>2 DEF Owns
      <4>3. CASE \E v \in {0, Job(w)} :
                   pending_snippets' = [pending_snippets EXCEPT ![Asker(w)] = v]
        BY <3>2, <4>1, <4>3, WriteOwn
      <4> QED BY <3>4, <4>2, <4>3
    <3>8. Owns(reply)' /\ Owns(pending_snippets)' /\ Owns(current)' /\ Owns(webs)' /\ StoredOwn'
      BY <3>1, <3>5, <3>6, <3>7 DEF Own, Owns, StoredOwn
    <3>9. Set'
      BY <3>1, <3>5 DEF Own, Set
    <3> QED BY <3>8, <3>9 DEF Own
  <2>7. CASE Switch(w)
    <3> SUFFICES ASSUME run.mode # "single" PROVE Own'
      BY <2>7 DEF Switch, Own
    <3> DEFINE j == Job(w)
    <3>1. /\ pc[w] = "failed"
          /\ UNCHANGED <<run, batch, reply, pending_snippets, webs, background, pages, snippets>>
          /\ \A v \in Threads : v # w => pc'[v] = pc[v] /\ switched'[v] = switched[v]
      BY <2>7 DEF Switch, Typed
    <3>2. j \in Jobs /\ current[j] = j
      BY <3>1, HasJob DEF Own, Set
    <3>3. current' = [current EXCEPT ![Temporary(j)] = j]
      BY <2>7, <3>2, OwnInstance DEF Switch
    <3>4. current \in [Instances -> {0} \cup Jobs] /\ Owns(current)
      BY DEF Typed, Own
    <3>5. Jobs' = Jobs /\ (\A k \in Jobs : Temporary(k)' = Temporary(k))
          /\ \A v \in Threads : Job(v)' = Job(v) /\ Temporary(Job(v))' = Temporary(Job(v))
      BY <3>1 DEF Jobs, Temporary, Job
    <3>6. \A k \in Jobs : current'[k] \in {0, k} /\ current'[Temporary(k)] \in {0, k}
      BY <3>2, <3>3, <3>4, WriteOwn
    <3>7. /\ \A k \in Jobs : current'[k] = current[k]
          /\ \A k \in Jobs : current[Temporary(k)] = k => current'[Temporary(k)] = k
          /\ current'[Temporary(j)] = j
      BY <3>2, <3>3, <3>4, Numbered
    <3>8. Owns(reply)' /\ Owns(pending_snippets)' /\ Owns(current)' /\ Owns(webs)' /\ StoredOwn'
      BY <3>1, <3>5, <3>6 DEF Own, Owns, StoredOwn
    <3>9. Set'
      <4>1. ASSUME NEW v \in Threads, pc'[v] \notin {"idle", "opening", "leaving", "raising"}
            PROVE  /\ current'[Job(v)] = Job(v)
                   /\ switched'[v] => current'[Temporary(Job(v))] = Job(v)
        <5>1. CASE v = w
          BY <3>2, <3>7, <5>1
        <5>2. CASE v # w
          <6>1. pc[v] = pc'[v] /\ switched'[v] = switched[v] /\ Job(v) \in Jobs
            BY <3>1, <4>1, <5>2, HasJob
          <6> QED BY <3>7, <4>1, <6>1 DEF Own, Set
        <5> QED BY <5>1, <5>2
      <4>2. ASSUME NEW k \in Jobs, background[k] # "none"
            PROVE  /\ current'[k] = k
                   /\ background[k] \in Switched => current'[Temporary(k)] = k
        BY <3>7, <4>2 DEF Own, Set
      <4> QED BY <3>1, <3>5, <4>1, <4>2 DEF Set
    <3> QED BY <3>8, <3>9 DEF Own
  <2>8. CASE Answered(w)
    <3>1. batch[w] \in Seq(Jobs) /\ batch[w] # <<>>
      BY <2>8 DEF Answered, Typed
    <3>2. CASE Len(batch[w]) > 1
      <4>1. Tail(batch[w]) \in Seq(Jobs) /\ Tail(batch[w]) # <<>>
        BY <3>1, <3>2, Rest
      <4>2. /\ Turn(w, Tail(batch[w]), cookie[w]) /\ pc' = [pc EXCEPT ![w] = "asking"]
            /\ UNCHANGED <<run, reply, pending_snippets, webs, background, pages, snippets>>
        BY <2>8, <3>2 DEF Answered
      <4> QED BY <4>1, <4>2, OwnTurn
    <3>3. CASE ~(Len(batch[w]) > 1)
      <4>1. /\ pc[w] = "answered"
            /\ UNCHANGED <<run, batch, switched, instance, background, pages, snippets>>
            /\ \A v \in Threads : v # w => pc'[v] = pc[v]
        BY <2>8, <3>3 DEF Answered, Typed, instance
      <4> QED BY <4>1, OwnUntouched
    <3> QED BY <3>2, <3>3
  <2>9. CASE Return(w) \/ ReturnAll(w) \/ Leave(w) \/ Raise(w)
    <3>1. UNCHANGED run /\ \E value \in {"true", "false"} : Finished(w, value)
      BY <2>9 DEF Return, ReturnAll, Leave, Raise
    <3>2. UNCHANGED <<instance, background, pages, snippets>>
      BY <3>1 DEF Finished
    <3>3. \A v \in Threads : \/ v = w /\ pc'[v] = "idle"
                             \/ /\ v # w /\ pc'[v] = pc[v] /\ batch'[v] = batch[v]
                                /\ switched'[v] = switched[v]
      BY <3>1 DEF Finished, Typed
    <3> QED BY <3>1, <3>2, <3>3, OwnUntouched
  <2> QED BY <1>6, <2>1, <2>2, <2>3, <2>4, <2>5, <2>6, <2>7, <2>8, <2>9 DEF ThreadStep
<1> QED BY <1>1, <1>2, <1>3, <1>4, <1>5, <1>6 DEF CrawlNext, BackgroundStep

\* However threads, switches and background threads interleave, the pages and snippets
\* of runs with an instance for every job are stored with their own reply.
THEOREM SnippetsStayWithTheirReply == CrawlSpec => []OwnSnippets
<1>1. CrawlInit => Typed /\ Own
  BY InitTyped, InitOwn
<1>2. Typed /\ Own /\ [CrawlNext]_crawlVars => (Typed /\ Own)'
  BY TypedKept, OwnKept
<1>3. Own => OwnSnippets
  BY DEF Own, StoredOwn, OwnSnippets
<1> QED BY <1>1, <1>2, <1>3, PTL DEF CrawlSpec

-----------------------------------------------------------------------------
(* Replies, and what is stored before a job is reported.                   *)

\* Jobs that nobody has begun with.
Fresh == {j \in Jobs : replies[j] = 0 /\ background[j] = "none" /\ result[j] = "none"}

\* A job is in the queue or with one thread, once; those that wait are untouched.
Placed ==
  /\ \A a, b \in DOMAIN queue : queue[a] = queue[b] => a = b
  /\ \A a \in DOMAIN queue : queue[a] \in Fresh
  /\ \A w \in Threads : \A a \in DOMAIN queue, b \in DOMAIN batch[w] : queue[a] # batch[w][b]
  /\ \A w \in Threads : \A a, b \in DOMAIN batch[w] : batch[w][a] = batch[w][b] => a = b
  /\ \A w, v \in Threads : \A a \in DOMAIN batch[w], b \in DOMAIN batch[v] :
       batch[w][a] = batch[v][b] => w = v
  /\ \A w \in Threads : \A a \in DOMAIN batch[w] : a # 1 => batch[w][a] \in Fresh
  /\ run.mode # "single" => \A w \in Threads : Len(batch[w]) <= 1

\* The background threads that run_single waits for.
Awaits == {"own", "own2"} \cup (IF run.mode = "afu" THEN {"switched", "switched2"} ELSE {})

\* What a job may have stored, by what its thread does.
Reported ==
  /\ \A j \in Jobs : replies[j] <= 1 + repeats[j]
  /\ \A w \in Threads : pc[w] # "idle" =>
       /\ result[Job(w)] = "none"
       /\ pc[w] \in {"opening", "leaving"} => Job(w) \in Fresh
       /\ pc[w] \in {"asking", "failed"} => replies[Job(w)] <= repeats[Job(w)]
  /\ run.mode # "single" =>
       \A j \in Jobs : result[j] = "true" => background[j] \notin Awaits

LEMMA InitPlaced == CrawlInit => Placed /\ Reported
<1> SUFFICES ASSUME CrawlInit PROVE Placed /\ Reported
  OBVIOUS
<1>1. Typed
  BY InitTyped
<1>2. Jobs = 1..Len(run.jobs) /\ Len(run.jobs) \in Nat
  BY <1>1, Numbered
<1>3. DOMAIN queue = Jobs /\ \A a \in DOMAIN queue : queue[a] = a
  BY <1>2 DEF CrawlInit
<1>4. \A w \in Threads : batch[w] = <<>> /\ DOMAIN batch[w] = {} /\ Len(batch[w]) = 0
  BY DEF CrawlInit
<1>5. Jobs = Fresh
  BY DEF CrawlInit, Fresh
<1>6. Placed
  BY <1>3, <1>4, <1>5 DEF Placed
<1>7. Reported
  BY DEF CrawlInit, Reported
<1> QED BY <1>6, <1>7

\* A step of a thread that keeps its jobs touches its current one alone.
LEMMA PlacedStays ==
  ASSUME Typed, Placed, UNCHANGED <<run, queue, batch>>,
         \A j \in Jobs : j \in Fresh /\ j \notin Fresh' =>
           \E w \in Threads : pc[w] # "idle" /\ j = Job(w)
  PROVE  Placed'
<1>1. \A w \in Threads : pc[w] # "idle" => Job(w) = batch[w][1] /\ 1 \in DOMAIN batch[w]
  BY HasJob
<1>2. \A a \in DOMAIN queue : queue[a] \in Jobs
  BY DEF Typed
<1>3. \A w \in Threads : \A a \in DOMAIN batch[w] : batch[w][a] \in Jobs
  BY DEF Typed
<1>4. \A a \in DOMAIN queue : queue'[a] \in Fresh'
  BY <1>1, <1>2 DEF Placed
<1>5. \A w \in Threads : \A a \in DOMAIN batch[w] : a # 1 => batch'[w][a] \in Fresh'
  BY <1>1, <1>3 DEF Placed
<1> QED BY <1>4, <1>5 DEF Placed

\* Threads work on different jobs.
LEMMA JobsDiffer ==
  ASSUME Typed, Placed, NEW w \in Threads, NEW v \in Threads, w # v,
         pc[w] # "idle", pc[v] # "idle"
  PROVE  Job(w) # Job(v)
BY HasJob DEF Placed

LEMMA ThreadStays ==
  ASSUME Typed, Placed, Reported, NEW w \in Threads, pc[w] # "idle",
         UNCHANGED <<run, queue, batch, result>>,
         \A v \in Threads : v # w => pc'[v] = pc[v],
         \A j \in Jobs : j # Job(w) =>
           replies'[j] = replies[j] /\ repeats'[j] = repeats[j] /\ background'[j] = background[j],
         replies'[Job(w)] <= 1 + repeats'[Job(w)],
         pc'[w] \in {"opening", "leaving"} =>
           replies'[Job(w)] = 0 /\ background'[Job(w)] = "none",
         pc'[w] \in {"asking", "failed"} => replies'[Job(w)] <= repeats'[Job(w)]
  PROVE  Placed' /\ Reported'
<1>1. Job(w) \in Jobs /\ Jobs' = Jobs /\ \A v \in Threads : Job(v)' = Job(v)
  BY HasJob DEF Jobs, Job
<1>2. \A j \in Jobs : j \in Fresh /\ j \notin Fresh' => j = Job(w)
  BY <1>1 DEF Fresh
<1>3. Placed'
  <2>1. \A j \in Jobs : j \in Fresh /\ j \notin Fresh' =>
          \E v \in Threads : pc[v] # "idle" /\ j = Job(v)
    BY <1>2
  <2> QED BY <2>1, PlacedStays
<1>4. result[Job(w)] = "none"
  BY DEF Reported
<1>5. \A j \in Jobs : replies'[j] <= 1 + repeats'[j]
  BY <1>1 DEF Reported
<1>6. ASSUME NEW v \in Threads, pc'[v] # "idle"
      PROVE  /\ result'[Job(v)] = "none"
             /\ pc'[v] \in {"opening", "leaving"} => Job(v)' \in Fresh'
             /\ pc'[v] \in {"asking", "failed"} => replies'[Job(v)] <= repeats'[Job(v)]
  <2>1. CASE v = w
    BY <1>1, <1>4, <2>1 DEF Fresh
  <2>2. CASE v # w
    <3>1. pc'[v] = pc[v] /\ Job(v) # Job(w) /\ Job(v) \in Jobs
      BY <1>6, <2>2, JobsDiffer, HasJob
    <3> QED BY <1>1, <1>6, <3>1 DEF Reported, Fresh
  <2> QED BY <2>1, <2>2
<1>7. run.mode # "single" =>
        \A j \in Jobs : result[j] = "true" => background'[j] \notin Awaits
  BY <1>4 DEF Reported
<1> QED BY <1>1, <1>3, <1>5, <1>6, <1>7 DEF Reported, Awaits

\* Steps of background threads begin no job, and end none but their own.
LEMMA BackgroundStays ==
  ASSUME Typed, Placed, Reported,
         UNCHANGED <<run, queue, pc, batch, result, replies, repeats>>,
         \A j \in Jobs : background'[j] # background[j] =>
           background[j] # "none" /\ (background'[j] \in Awaits => background[j] \in Awaits)
  PROVE  Placed' /\ Reported'
<1>1. Jobs' = Jobs /\ \A v \in Threads : Job(v)' = Job(v)
  BY DEF Jobs, Job
<1>2. \A j \in Jobs : j \in Fresh => j \in Fresh'
  BY <1>1 DEF Fresh
<1>3. Placed'
  BY <1>2, PlacedStays
<1>4. \A v \in Threads : pc[v] # "idle" => Job(v) \in Jobs
  BY HasJob
<1>5. \A v \in Threads : pc[v] \in {"opening", "leaving"} => Job(v)' \in Fresh'
  BY <1>1, <1>2, <1>4 DEF Reported
<1>6. run.mode # "single" =>
        \A j \in Jobs : result[j] = "true" => background'[j] \notin Awaits
  BY DEF Reported
<1> QED BY <1>1, <1>3, <1>5, <1>6 DEF Reported, Awaits

\* A thread drops jobs or takes them from the queue.
LEMMA PlacedMoves ==
  ASSUME Typed, Placed, Typed', NEW w \in Threads, run' = run,
         \A v \in Threads : v # w => batch'[v] = batch[v],
         \A a, b \in DOMAIN queue' : queue'[a] = queue'[b] => a = b,
         \A a \in DOMAIN queue' : \E c \in DOMAIN queue : queue'[a] = queue[c],
         \A a, b \in DOMAIN batch'[w] : batch'[w][a] = batch'[w][b] => a = b,
         \A b \in DOMAIN batch'[w] :
           \/ \E c \in DOMAIN batch[w] : batch'[w][b] = batch[w][c]
           \/ /\ \E c \in DOMAIN queue : batch'[w][b] = queue[c]
              /\ \A a \in DOMAIN queue' : queue'[a] # batch'[w][b],
         \A b \in DOMAIN batch'[w] : b # 1 => batch'[w][b] \in Fresh',
         run.mode # "single" => Len(batch'[w]) <= 1,
         \A j \in Jobs : j \in Fresh /\ j \notin Fresh' =>
           \E c \in DOMAIN batch[w] : j = batch[w][c]
  PROVE  Placed'
<1>1. \A a \in DOMAIN queue : queue[a] \in Jobs
  BY DEF Typed
<1>2. \A v \in Threads : \A b \in DOMAIN batch[v] : batch[v][b] \in Jobs
  BY DEF Typed
<1>3. \A a \in DOMAIN queue' : queue'[a] \in Fresh'
  <2> SUFFICES ASSUME NEW a \in DOMAIN queue' PROVE queue'[a] \in Fresh'
    OBVIOUS
  <2>1. PICK c \in DOMAIN queue : queue'[a] = queue[c]
    OBVIOUS
  <2>2. queue[c] \in Fresh /\ queue[c] \in Jobs /\ \A b \in DOMAIN batch[w] : queue[c] # batch[w][b]
    BY <1>1 DEF Placed
  <2>3. queue[c] \in Fresh'
    BY <2>2
  <2> QED BY <2>1, <2>3
<1>4. ASSUME NEW v \in Threads, NEW a \in DOMAIN queue', NEW b \in DOMAIN batch'[v]
      PROVE  queue'[a] # batch'[v][b]
  <2>1. PICK c \in DOMAIN queue : queue'[a] = queue[c]
    OBVIOUS
  <2>2. CASE v # w
    BY <2>1, <2>2 DEF Placed
  <2>3. CASE v = w
    BY <2>1, <2>3 DEF Placed
  <2> QED BY <2>2, <2>3
<1>5. \A v \in Threads : \A a, b \in DOMAIN batch'[v] : batch'[v][a] = batch'[v][b] => a = b
  <2> SUFFICES ASSUME NEW v \in Threads
               PROVE  \A a, b \in DOMAIN batch'[v] : batch'[v][a] = batch'[v][b] => a = b
    OBVIOUS
  <2>1. CASE v = w
    BY <2>1
  <2>2. CASE v # w
    BY <2>2 DEF Placed
  <2> QED BY <2>1, <2>2
<1>6. ASSUME NEW v \in Threads, v # w, NEW a \in DOMAIN batch[v], NEW b \in DOMAIN batch'[w]
      PROVE  batch[v][a] # batch'[w][b]
  <2>1. CASE \E c \in DOMAIN batch[w] : batch'[w][b] = batch[w][c]
    BY <1>6, <2>1 DEF Placed
  <2>2. CASE \E c \in DOMAIN queue : batch'[w][b] = queue[c]
    BY <1>6, <2>2 DEF Placed
  <2> QED BY <2>1, <2>2
<1>7. ASSUME NEW v \in Threads, NEW u \in Threads, NEW a \in DOMAIN batch'[v],
             NEW b \in DOMAIN batch'[u], batch'[v][a] = batch'[u][b], v # u
      PROVE  FALSE
  <2>1. CASE v = w
    BY <1>6, <1>7, <2>1
  <2>2. CASE u = w
    BY <1>6, <1>7, <2>2
  <2>3. CASE v # w /\ u # w
    BY <1>7, <2>3 DEF Placed
  <2> QED BY <2>1, <2>2, <2>3
<1>8. ASSUME NEW v \in Threads, NEW a \in DOMAIN batch'[v], a # 1
      PROVE  batch'[v][a] \in Fresh'
  <2>1. CASE v = w
    BY <1>8, <2>1
  <2>2. CASE v # w
    <3>1. batch'[v] = batch[v] /\ a \in DOMAIN batch[v]
      BY <2>2
    <3>2. batch[v][a] \in Fresh /\ batch[v][a] \in Jobs
      BY <1>2, <1>8, <3>1 DEF Placed
    <3>3. \A c \in DOMAIN batch[w] : batch[v][a] # batch[w][c]
      BY <2>2, <3>1 DEF Placed
    <3>4. batch[v][a] \in Fresh'
      BY <3>2, <3>3
    <3> QED BY <3>1, <3>4
  <2> QED BY <2>1, <2>2
<1>9. ASSUME NEW v \in Threads, run.mode # "single" PROVE Len(batch'[v]) <= 1
  <2>1. CASE v = w
    BY <1>9, <2>1
  <2>2. CASE v # w
    BY <1>9, <2>2 DEF Placed
  <2> QED BY <2>1, <2>2
<1> QED BY <1>3, <1>4, <1>5, <1>7, <1>8, <1>9 DEF Placed

\* The results of jobs that a thread drops say what was stored.
LEMMA ReportedMoves ==
  ASSUME Typed, Placed, Reported, Typed', NEW w \in Threads,
         UNCHANGED <<run, background, replies, repeats>>,
         \A v \in Threads : v # w => batch'[v] = batch[v] /\ pc'[v] = pc[v],
         pc'[w] \in {"idle", "opening", "asking"},
         pc'[w] # "idle" => Job(w)' \in Fresh',
         \A j \in Jobs : result'[j] # result[j] => \E c \in DOMAIN batch[w] : j = batch[w][c],
         run.mode # "single" =>
           \A c \in DOMAIN batch[w] : result'[batch[w][c]] = "true" =>
             background[batch[w][c]] \notin Awaits
  PROVE  Reported'
<1>1. Jobs' = Jobs
  BY DEF Jobs
<1>2. ASSUME NEW v \in Threads, pc'[v] # "idle"
      PROVE  (/\ result[Job(v)] = "none"
              /\ pc[v] \in {"opening", "leaving"} => Job(v) \in Fresh
              /\ pc[v] \in {"asking", "failed"} => replies[Job(v)] <= repeats[Job(v)])'
  <2>1. CASE v = w
    <3>1. (Job(w) \in Jobs /\ result[Job(w)] = "none" /\ replies[Job(w)] = 0)'
      BY <1>1, <1>2, <2>1 DEF Fresh
    <3>2. (repeats[Job(w)] \in Nat)'
      BY <1>1, <3>1 DEF Typed
    <3>3. (replies[Job(w)] <= repeats[Job(w)])'
      BY <3>1, <3>2
    <3> QED BY <1>2, <2>1, <3>1, <3>3
  <2>2. CASE v # w
    <3>1. pc'[v] = pc[v] /\ Job(v)' = Job(v) /\ Job(v) \in Jobs
      BY <1>2, <2>2, HasJob DEF Job
    <3>2. Job(v) = batch[v][1] /\ 1 \in DOMAIN batch[v]
      BY <1>2, <3>1, HasJob
    <3>3. \A c \in DOMAIN batch[w] : Job(v) # batch[w][c]
      BY <2>2, <3>2 DEF Placed
    <3>4. result'[Job(v)] = result[Job(v)]
      BY <3>1, <3>3
    <3>5. Job(v) \in Fresh => Job(v)' \in Fresh'
      BY <1>1, <3>1, <3>4 DEF Fresh
    <3> QED BY <1>2, <3>1, <3>4, <3>5 DEF Reported
  <2> QED BY <2>1, <2>2
<1>3. ASSUME run.mode # "single", NEW j \in Jobs, result'[j] = "true"
      PROVE  background[j] \notin Awaits
  <2>1. CASE result[j] = "true"
    BY <1>3, <2>1 DEF Reported
  <2>2. CASE result[j] # "true"
    BY <1>3, <2>2
  <2> QED BY <2>1, <2>2
<1> QED BY <1>1, <1>2, <1>3 DEF Reported, Awaits

LEMMA TakeKeeps ==
  ASSUME Typed, Placed, Reported, Typed', NEW w \in Threads, TakeJob(w)
  PROVE  Placed' /\ Reported'
<1> DEFINE j == Head(queue)
<1>1. queue \in Seq(Jobs) /\ queue # <<>> /\ queue' = Tail(queue)
  BY DEF Typed, TakeJob
<1>2. j = queue[1] /\ j \in Jobs /\ 1 \in DOMAIN queue
  BY <1>1, Rest
<1>3. \A a \in DOMAIN queue' : /\ a \in Nat /\ a + 1 # 1 /\ a + 1 \in DOMAIN queue
                               /\ queue'[a] = queue[a + 1]
  <2>1. DOMAIN queue = 1..Len(queue) /\ Len(queue) \in Nat
    BY <1>1
  <2>2. DOMAIN Tail(queue) = 1..(Len(queue) - 1)
    BY <1>1, Rest
  <2>3. \A a \in 1..(Len(queue) - 1) : Tail(queue)[a] = queue[a + 1]
    BY <1>1, Rest
  <2> HIDE DEF j
  <2> QED BY <1>1, <2>1, <2>2, <2>3
<1>4. /\ batch'[w] = <<j>>
      /\ \A v \in Threads : v # w => batch'[v] = batch[v] /\ pc'[v] = pc[v]
      /\ pc'[w] = "opening"
      /\ UNCHANGED <<run, result, background, replies, repeats>>
  BY DEF TakeJob, Typed, stored, history
<1> HIDE DEF j
<1>5. DOMAIN batch'[w] = {1} /\ batch'[w][1] = j /\ Len(batch'[w]) = 1 /\ Job(w)' = j
  BY <1>4 DEF Job
<1>6. Fresh' = Fresh
  BY <1>4 DEF Fresh, Jobs
<1>7. \A a \in DOMAIN queue' : queue'[a] # j
  BY <1>2, <1>3 DEF Placed
<1>8. \A a, b \in DOMAIN queue' : queue'[a] = queue'[b] => a = b
  <2>1. \A a, b \in DOMAIN queue' : queue'[a] = queue'[b] => a + 1 = b + 1
    BY <1>3 DEF Placed
  <2>2. \A a \in DOMAIN queue' : a \in Nat
    BY <1>3
  <2> QED BY <2>1, <2>2
<1>9. Placed'
  <2>1. \A a \in DOMAIN queue' : \E c \in DOMAIN queue : queue'[a] = queue[c]
    BY <1>3
  <2>2. \A b \in DOMAIN batch'[w] : /\ \E c \in DOMAIN queue : batch'[w][b] = queue[c]
                                  /\ \A a \in DOMAIN queue' : queue'[a] # batch'[w][b]
    BY <1>2, <1>5, <1>7
  <2>3. \A a, b \in DOMAIN batch'[w] : batch'[w][a] = batch'[w][b] => a = b
    BY <1>5
  <2>4. \A b \in DOMAIN batch'[w] : b # 1 => batch'[w][b] \in Fresh'
    BY <1>5
  <2>5. Len(batch'[w]) <= 1
    BY <1>5
  <2> QED BY <1>4, <1>6, <1>8, <2>1, <2>2, <2>3, <2>4, <2>5, PlacedMoves
<1>10. Reported'
  <2>1. Job(w)' \in Fresh'
    BY <1>2, <1>5, <1>6 DEF Placed
  <2>2. run.mode # "single" =>
          \A c \in DOMAIN batch[w] : result'[batch[w][c]] = "true" =>
            background[batch[w][c]] \notin Awaits
    <3>1. \A c \in DOMAIN batch[w] : batch[w][c] \in Jobs
      BY DEF Typed
    <3> QED BY <1>4, <3>1 DEF Reported
  <2> QED BY <1>4, <2>1, <2>2, ReportedMoves
<1> QED BY <1>9, <1>10

LEMMA RunAllKeeps ==
  ASSUME Typed, Placed, Reported, Typed', NEW w \in Threads, RunAll(w)
  PROVE  Placed' /\ Reported'
<1>1. queue \in Seq(Jobs) /\ queue # <<>> /\ queue' = <<>> /\ DOMAIN queue' = {}
  BY DEF Typed, RunAll
<1>2. /\ batch'[w] = queue
      /\ \A v \in Threads : v # w => batch'[v] = batch[v] /\ pc'[v] = pc[v]
      /\ pc'[w] = "opening" /\ run.mode = "single"
      /\ UNCHANGED <<run, result, background, replies, repeats>>
  BY DEF RunAll, Typed, stored, history
<1>3. Fresh' = Fresh
  BY <1>2 DEF Fresh, Jobs
<1>4. Job(w)' = queue[1] /\ 1 \in DOMAIN queue
  BY <1>1, <1>2, Rest DEF Job
<1>5. Placed'
  BY <1>1, <1>2, <1>3, PlacedMoves DEF Placed
<1>6. Job(w)' \in Fresh'
  BY <1>3, <1>4 DEF Placed
<1>7. Reported'
  BY <1>2, <1>6, ReportedMoves
<1> QED BY <1>5, <1>7

LEMMA FinishedKeeps ==
  ASSUME Typed, Placed, Reported, Typed', NEW w \in Threads, NEW value \in {"true", "false"},
         Finished(w, value), UNCHANGED <<run, queue>>,
         run.mode # "single" /\ value = "true" =>
           \A c \in DOMAIN batch[w] : background[batch[w][c]] \notin Awaits
  PROVE  Placed' /\ Reported'
<1>1. /\ batch'[w] = <<>> /\ DOMAIN batch'[w] = {} /\ Len(batch'[w]) = 0
      /\ \A v \in Threads : v # w => batch'[v] = batch[v] /\ pc'[v] = pc[v]
      /\ pc'[w] = "idle"
      /\ UNCHANGED <<background, replies, repeats>>
  BY DEF Finished, Typed, stored, history
<1>2. Jobs' = Jobs
  BY DEF Jobs
<1>3. \A j \in Jobs : \/ result'[j] = result[j]
                       \/ /\ \E c \in DOMAIN batch[w] : j = batch[w][c]
                          /\ result'[j] = value
  BY DEF Finished
<1>4. \A j \in Jobs : j \in Fresh /\ j \notin Fresh' => \E c \in DOMAIN batch[w] : j = batch[w][c]
  BY <1>1, <1>2, <1>3 DEF Fresh
<1>5. Placed'
  <2>1. \A a \in DOMAIN queue' : \E c \in DOMAIN queue : queue'[a] = queue[c]
    OBVIOUS
  <2>2. \A a, b \in DOMAIN queue' : queue'[a] = queue'[b] => a = b
    BY DEF Placed
  <2> QED BY <1>1, <1>4, <2>1, <2>2, PlacedMoves
<1>6. Reported'
  <2>1. \A j \in Jobs : result'[j] # result[j] => \E c \in DOMAIN batch[w] : j = batch[w][c]
    BY <1>3
  <2>2. \A c \in DOMAIN batch[w] : batch[w][c] \in Jobs
    BY DEF Typed
  <2>3. run.mode # "single" =>
          \A c \in DOMAIN batch[w] : result'[batch[w][c]] = "true" =>
            background[batch[w][c]] \notin Awaits
    <3> SUFFICES ASSUME run.mode # "single", NEW c \in DOMAIN batch[w],
                        result'[batch[w][c]] = "true"
                 PROVE  background[batch[w][c]] \notin Awaits
      OBVIOUS
    <3>1. batch[w][c] \in Jobs
      BY <2>2
    <3>2. CASE result[batch[w][c]] = "true"
      BY <3>1, <3>2 DEF Reported
    <3>3. CASE result[batch[w][c]] # "true"
      BY <1>3, <3>1, <3>3
    <3> QED BY <3>2, <3>3
  <2> QED BY <1>1, <2>1, <2>3, ReportedMoves
<1> QED BY <1>5, <1>6

LEMMA NextJobKeeps ==
  ASSUME Typed, Placed, Reported, Typed', NEW w \in Threads, Answered(w), Len(batch[w]) > 1
  PROVE  Placed' /\ Reported'
<1>1. batch[w] \in Seq(Jobs) /\ batch[w] # <<>> /\ pc[w] = "answered"
  BY DEF Answered, Typed
<1>2. Tail(batch[w]) \in Seq(Jobs) /\ Tail(batch[w]) # <<>>
  BY <1>1, Rest
<1>3. /\ batch'[w] = Tail(batch[w])
      /\ \A v \in Threads : v # w => batch'[v] = batch[v]
  <2>1. Turn(w, Tail(batch[w]), cookie[w])
    BY DEF Answered
  <2> QED BY <1>2, <2>1, TurnTyped
<1>4. /\ \A v \in Threads : v # w => pc'[v] = pc[v]
      /\ pc'[w] = "asking"
      /\ UNCHANGED <<run, queue, background, replies, repeats>>
      /\ result' = [result EXCEPT ![Job(w)] = "true"]
  BY DEF Answered, Typed, main, stored, history
<1>5. Job(w) = batch[w][1] /\ Job(w) \in Jobs /\ 1 \in DOMAIN batch[w]
  BY <1>1, HasJob
<1>6. \A a \in DOMAIN batch'[w] : /\ a \in Nat /\ a + 1 # 1 /\ a + 1 \in DOMAIN batch[w]
                                  /\ batch'[w][a] = batch[w][a + 1]
  <2>1. DOMAIN batch[w] = 1..Len(batch[w]) /\ Len(batch[w]) \in Nat
    BY <1>1
  <2>2. DOMAIN Tail(batch[w]) = 1..(Len(batch[w]) - 1)
    BY <1>1, Rest
  <2>3. \A a \in 1..(Len(batch[w]) - 1) : Tail(batch[w])[a] = batch[w][a + 1]
    BY <1>1, Rest
  <2> QED BY <1>3, <2>1, <2>2, <2>3
<1>7. Job(w)' = batch'[w][1] /\ 1 \in DOMAIN batch'[w]
  BY <1>2, <1>3, Rest DEF Job
<1>8. run.mode = "single"
  <2>1. Len(batch[w]) \in Nat
    BY <1>1
  <2> QED BY <2>1 DEF Placed
<1>9. Jobs' = Jobs /\ \A j \in Jobs : j # Job(w) => (j \in Fresh <=> j \in Fresh')
  BY <1>4 DEF Jobs, Fresh, Typed
<1>10. \A a \in DOMAIN batch'[w] : batch'[w][a] \in Fresh'
  <2> SUFFICES ASSUME NEW a \in DOMAIN batch'[w] PROVE batch'[w][a] \in Fresh'
    OBVIOUS
  <2>1. a + 1 \in DOMAIN batch[w] /\ a + 1 # 1 /\ batch'[w][a] = batch[w][a + 1]
    BY <1>6
  <2>2. batch[w][a + 1] \in Fresh /\ batch[w][a + 1] # Job(w)
    BY <1>5, <2>1 DEF Placed
  <2>3. batch[w][a + 1] \in Jobs
    BY <2>2 DEF Fresh
  <2> QED BY <1>9, <2>1, <2>2, <2>3
<1>11. Placed'
  <2>1. \A a \in DOMAIN queue' : \E c \in DOMAIN queue : queue'[a] = queue[c]
    BY <1>4
  <2>2. \A a, b \in DOMAIN queue' : queue'[a] = queue'[b] => a = b
    BY <1>4 DEF Placed
  <2>3. \A a, b \in DOMAIN batch'[w] : batch'[w][a] = batch'[w][b] => a = b
    <3>1. \A a, b \in DOMAIN batch'[w] : batch'[w][a] = batch'[w][b] => a + 1 = b + 1
      BY <1>6 DEF Placed
    <3>2. \A a \in DOMAIN batch'[w] : a \in Nat
      BY <1>6
    <3> QED BY <3>1, <3>2
  <2>4. \A b \in DOMAIN batch'[w] : \E c \in DOMAIN batch[w] : batch'[w][b] = batch[w][c]
    BY <1>6
  <2>5. \A j \in Jobs : j \in Fresh /\ j \notin Fresh' => \E c \in DOMAIN batch[w] : j = batch[w][c]
    BY <1>5, <1>9
  <2> QED BY <1>3, <1>4, <1>8, <1>10, <2>1, <2>2, <2>3, <2>4, <2>5, PlacedMoves
<1>12. Reported'
  <2>1. \A j \in Jobs : result'[j] # result[j] => \E c \in DOMAIN batch[w] : j = batch[w][c]
    BY <1>4, <1>5 DEF Typed
  <2>2. Job(w)' \in Fresh'
    BY <1>7, <1>10
  <2> QED BY <1>3, <1>4, <1>8, <2>1, <2>2, ReportedMoves
<1> QED BY <1>11, <1>12

LEMMA ReportedKept ==
  Typed /\ Placed /\ Reported /\ [CrawlNext]_crawlVars => Placed' /\ Reported'
<1> SUFFICES ASSUME Typed, Placed, Reported, [CrawlNext]_crawlVars
             PROVE  Placed' /\ Reported'
  OBVIOUS
<1> USE DEF thread, stored, history
<1>1. Typed'
  BY TypedKept
<1>2. CASE UNCHANGED crawlVars
  BY <1>2, BackgroundStays DEF crawlVars, main
<1>3. CASE MainStep
  <2>1. UNCHANGED <<run, pc, batch, result, background, replies, repeats, queue>>
    BY <1>3, MainLeavesAlone
  <2> QED BY <2>1, BackgroundStays
<1>4. ASSUME NEW j \in Jobs, StorePages(j) \/ StoreSnippets(j) \/ ThreadDies(j)
      PROVE  Placed' /\ Reported'
  <2>1. UNCHANGED <<run, queue, pc, batch, result, replies, repeats>>
    BY <1>4 DEF StorePages, StoreSnippets, ThreadDies, main
  <2>2. \A k \in Jobs : background'[k] # background[k] =>
          background[k] # "none" /\ (background'[k] \in Awaits => background[k] \in Awaits)
    BY <1>4 DEF StorePages, StoreSnippets, ThreadDies, Typed, Awaits
  <2> QED BY <2>1, <2>2, BackgroundStays
<1>5. ASSUME NEW w \in Threads, ThreadStep(w) PROVE Placed' /\ Reported'
  <2>1. CASE TakeJob(w)
    BY <1>1, <2>1, TakeKeeps
  <2>2. CASE RunAll(w)
    BY <1>1, <2>2, RunAllKeeps
  <2>3. CASE Open(w)
    <3>1. batch[w] \in Seq(Jobs) /\ batch[w] # <<>> /\ Turn(w, batch[w], cookie[w])
      BY <2>3 DEF Open, Typed
    <3>2. batch' = batch
      BY <3>1 DEF Turn, Typed
    <3>3. /\ pc[w] = "opening"
          /\ UNCHANGED <<run, queue, result, background, replies, repeats>>
          /\ \A v \in Threads : v # w => pc'[v] = pc[v]
          /\ pc'[w] = "asking"
      BY <2>3 DEF Open, main, Typed
    <3>4. replies[Job(w)] = 0 /\ Job(w) \in Jobs
      BY <3>3 DEF Reported, Fresh
    <3>5. replies[Job(w)] <= repeats[Job(w)] /\ replies[Job(w)] <= 1 + repeats[Job(w)]
      BY <3>4 DEF Typed
    <3> QED BY <3>2, <3>3, <3>5, ThreadStays
  <2>4. CASE LoginFails(w) \/ BrowserFails(w)
    <3>1. /\ pc[w] = "opening"
          /\ UNCHANGED <<run, queue, batch, result, background, replies, repeats>>
          /\ \A v \in Threads : v # w => pc'[v] = pc[v]
          /\ pc'[w] \in {"leaving", "raising"}
      BY <2>4 DEF LoginFails, BrowserFails, main, Typed
    <3>2. Job(w) \in Fresh /\ Job(w) \in Jobs
      BY <3>1 DEF Reported, Fresh
    <3>3. replies[Job(w)] = 0 /\ background[Job(w)] = "none"
      BY <3>2 DEF Fresh
    <3>4. replies[Job(w)] <= 1 + repeats[Job(w)]
      BY <3>2 DEF Reported
    <3> QED BY <3>1, <3>3, <3>4, ThreadStays
  <2>5. CASE PageIsBlank(w) \/ NoAnswer(w) \/ TemporaryBrowserFails(w)
    <3>1. /\ pc[w] = "asking"
          /\ UNCHANGED <<run, queue, batch, result, background, replies, repeats>>
          /\ \A v \in Threads : v # w => pc'[v] = pc[v]
          /\ pc'[w] \in {"answered", "failed"}
      BY <2>5 DEF PageIsBlank, NoAnswer, TemporaryBrowserFails, Succeeds, Raises, SameThread,
         main, Typed
    <3>2. replies[Job(w)] <= 1 + repeats[Job(w)] /\ replies[Job(w)] <= repeats[Job(w)]
      BY <3>1, HasJob DEF Reported
    <3> QED BY <3>1, <3>2, ThreadStays
  <2>6. CASE AnswerComes(w)
    <3>1. /\ pc[w] = "asking"
          /\ UNCHANGED <<run, queue, batch, result, background>>
          /\ \A v \in Threads : v # w => pc'[v] = pc[v]
          /\ pc'[w] = "parsing"
      BY <2>6 DEF AnswerComes, SameThread, main, Typed
    <3>2. replies[Job(w)] <= repeats[Job(w)] /\ Job(w) \in Jobs
          /\ replies[Job(w)] \in Nat /\ repeats[Job(w)] \in Nat
      BY <3>1, HasJob DEF Reported, Typed
    <3>3. /\ \A j \in Jobs : j # Job(w) => replies'[j] = replies[j] /\ repeats'[j] = repeats[j]
          /\ replies'[Job(w)] <= 1 + repeats'[Job(w)]
      <4>1. CASE InsertReply(w)
        BY <3>2, <4>1 DEF InsertReply, Typed
      <4>2. CASE RetryReply(w)
        <5>1. \/ UNCHANGED <<replies, repeats>>
              \/ /\ replies' = [replies EXCEPT ![Job(w)] = replies[Job(w)] + 2]
                 /\ repeats' = [repeats EXCEPT ![Job(w)] = repeats[Job(w)] + 1]
          BY <4>2 DEF RetryReply
        <5>2. replies \in [Jobs -> Nat] /\ repeats \in [Jobs -> Nat]
          BY DEF Typed
        <5> QED BY <3>2, <5>1, <5>2
      <4> QED BY <2>6, <4>1, <4>2 DEF AnswerComes
    <3> QED BY <3>1, <3>3, ThreadStays
  <2>7. CASE Parse(w)
    <3>1. /\ pc[w] = "parsing"
          /\ UNCHANGED <<run, queue, batch, result, background, replies, repeats>>
          /\ \A v \in Threads : v # w => pc'[v] = pc[v]
          /\ pc'[w] = "collecting"
      BY <2>7 DEF Parse, SameThread, main, Typed
    <3>2. replies[Job(w)] <= 1 + repeats[Job(w)]
      BY <3>1, HasJob DEF Reported
    <3> QED BY <3>1, <3>2, ThreadStays
  <2>8. CASE FailsLate(w)
    <3>1. /\ pc[w] \in {"parsing", "collecting"}
          /\ UNCHANGED <<run, queue, batch, result, background, replies>>
          /\ repeats' = [repeats EXCEPT ![Job(w)] = repeats[Job(w)] + 1]
          /\ \A v \in Threads : v # w => pc'[v] = pc[v]
          /\ pc'[w] = "failed"
      BY <2>8 DEF FailsLate, Raises, SameThread, main, Typed
    <3>2. replies[Job(w)] <= 1 + repeats[Job(w)] /\ Job(w) \in Jobs
          /\ replies[Job(w)] \in Nat /\ repeats[Job(w)] \in Nat
      BY <3>1, HasJob DEF Reported, Typed
    <3>3. repeats'[Job(w)] = repeats[Job(w)] + 1
          /\ \A j \in Jobs : j # Job(w) => repeats'[j] = repeats[j]
      BY <3>1, <3>2 DEF Typed
    <3>4. replies'[Job(w)] <= repeats'[Job(w)] /\ replies'[Job(w)] <= 1 + repeats'[Job(w)]
      BY <3>1, <3>2, <3>3
    <3> QED BY <3>1, <3>3, <3>4, ThreadStays
  <2>9. CASE Collects(w)
    <3>1. /\ pc[w] = "collecting"
          /\ UNCHANGED <<run, queue, batch, result, replies, repeats>>
          /\ \A j \in Jobs : j # Job(w) => background'[j] = background[j]
          /\ \A v \in Threads : v # w => pc'[v] = pc[v]
          /\ pc'[w] = "answered"
      BY <2>9 DEF Collects, Succeeds, SameThread, main, Typed
    <3>2. replies[Job(w)] <= 1 + repeats[Job(w)]
      BY <3>1, HasJob DEF Reported
    <3> QED BY <3>1, <3>2, ThreadStays
  <2>10. CASE Switch(w) \/ GiveUp(w)
    <3>1. /\ pc[w] = "failed"
          /\ UNCHANGED <<run, queue, batch, result, background, replies, repeats>>
          /\ \A v \in Threads : v # w => pc'[v] = pc[v]
          /\ pc'[w] \in {"asking", "raising"}
      BY <2>10 DEF Switch, GiveUp, main, Typed
    <3>2. replies[Job(w)] <= 1 + repeats[Job(w)] /\ replies[Job(w)] <= repeats[Job(w)]
      BY <3>1, HasJob DEF Reported
    <3> QED BY <3>1, <3>2, ThreadStays
  <2>11. CASE Answered(w) /\ Len(batch[w]) > 1
    BY <1>1, <2>11, NextJobKeeps
  <2>12. CASE Answered(w) /\ ~(Len(batch[w]) > 1)
    <3>1. /\ pc[w] = "answered"
          /\ UNCHANGED <<run, queue, batch, result, background, replies, repeats>>
          /\ \A v \in Threads : v # w => pc'[v] = pc[v]
          /\ pc'[w] = "returning"
      BY <2>12 DEF Answered, main, Typed
    <3>2. replies[Job(w)] <= 1 + repeats[Job(w)]
      BY <3>1, HasJob DEF Reported
    <3> QED BY <3>1, <3>2, ThreadStays
  <2>13. CASE Return(w)
    <3>1. Finished(w, "true") /\ UNCHANGED <<run, queue>> /\ run.mode # "single"
          /\ pc[w] = "returning" /\ Awaited(w) = {}
      BY <2>13 DEF Return, main
    <3>2. \A c \in DOMAIN batch[w] : c = 1
      <4>1. batch[w] \in Seq(Jobs) /\ Len(batch[w]) <= 1
        BY <3>1 DEF Typed, Placed
      <4>2. DOMAIN batch[w] = 1..Len(batch[w]) /\ Len(batch[w]) \in Nat
        BY <4>1
      <4> QED BY <4>1, <4>2
    <3>3. Job(w) = batch[w][1] /\ Job(w) \in Jobs
      BY <3>1, HasJob
    <3>4. background[Job(w)] \notin Awaits
      BY <3>1, <3>3 DEF Awaited, Awaits, InstanceOf
    <3> QED BY <1>1, <3>1, <3>2, <3>3, <3>4, FinishedKeeps
  <2>14. CASE ReturnAll(w)
    BY <1>1, <2>14, FinishedKeeps DEF ReturnAll
  <2>15. CASE Leave(w)
    <3>1. Finished(w, "true") /\ UNCHANGED <<run, queue>> /\ pc[w] = "leaving"
      BY <2>15 DEF Leave
    <3>2. \A c \in DOMAIN batch[w] : batch[w][c] \in Fresh
      BY <3>1, HasJob DEF Placed, Reported
    <3>3. \A c \in DOMAIN batch[w] : background[batch[w][c]] \notin Awaits
      BY <3>2 DEF Fresh, Awaits
    <3> QED BY <1>1, <3>1, <3>3, FinishedKeeps
  <2>16. CASE Raise(w)
    <3>1. Finished(w, "false") /\ UNCHANGED <<run, queue>>
      BY <2>16 DEF Raise
    <3> QED BY <1>1, <3>1, FinishedKeeps
  <2>17. CASE PageCloses(w)
    <3>1. /\ pc[w] = "returning"
          /\ UNCHANGED <<run, queue, batch, result, background, replies, repeats>>
          /\ \A v \in Threads : v # w => pc'[v] = pc[v]
          /\ pc'[w] = "raising"
      BY <2>17 DEF PageCloses, SameThread, main, Typed
    <3>2. replies[Job(w)] <= 1 + repeats[Job(w)]
      BY <3>1, HasJob DEF Reported
    <3> QED BY <3>1, <3>2, ThreadStays
  <2> QED BY <1>5, <2>1, <2>2, <2>3, <2>4, <2>5, <2>6, <2>7, <2>8, <2>9, <2>10, <2>11, <2>12,
             <2>13, <2>14, <2>15, <2>16, <2>17 DEF ThreadStep
<1> QED BY <1>2, <1>3, <1>4, <1>5 DEF CrawlNext, BackgroundStep

LEMMA ReportedAlways == CrawlSpec => [](Typed /\ Reported)
<1>1. CrawlInit => Typed /\ Placed /\ Reported
  BY InitTyped, InitPlaced
<1>2. Typed /\ Placed /\ Reported /\ [CrawlNext]_crawlVars => (Typed /\ Placed /\ Reported)'
  BY TypedKept, ReportedKept
<1> QED BY <1>1, <1>2, PTL DEF CrawlSpec

\* However often questions are asked again after a switch of the account, a job has a
\* second reply only for a late failure or a commit whose answer was lost.
THEOREM SecondRepliesAreExplained == CrawlSpec => []RepliesExplained
<1>1. Typed /\ Reported => RepliesExplained
  BY DEF Reported, RepliesExplained
<1> QED BY <1>1, ReportedAlways, PTL

\* run_single returns true after the pages and snippets of its own instance, in AFu of
\* every account it went through, are stored, for any number of threads and whatever
\* fails.
THEOREM ReportsFollowStores == CrawlSpec => []StoredBeforeReported
<1>1. Typed /\ Reported => StoredBeforeReported
  BY DEF Typed, Reported, StoredBeforeReported, Background, Awaits
<1> QED BY <1>1, ReportedAlways, PTL

-----------------------------------------------------------------------------
(* Types of the rest, and what the threads hold.                           *)

Counts == [total : 0..2, num : 0..1]

RestTyped ==
  /\ phase \in {"marking", "working", "completing", "ended"}
  /\ unmarked \subseteq CrawlTasks
  /\ status \in [CrawlTasks -> {"new", "running", "done"}]
  /\ cookie \in [Threads -> Files(run)]
  /\ left \in [Threads -> SUBSET DOMAIN run.cookies]
  /\ errors \in [Threads -> Counts]
  /\ inUse \subseteq Files(run)
  /\ pages \subseteq [by : Jobs, as : {0} \cup Jobs]
  /\ snippets \subseteq [by : Jobs, reply : Jobs, text : Jobs, page : Jobs]
  /\ faults \in 0..run.faults
  /\ silent \subseteq Jobs
  /\ refused \subseteq CrawlTasks
  /\ misses \in [Threads -> Nat]

\* Of some numbers one is the least.
LEMMA LeastTask ==
  ASSUME NEW S \in SUBSET Nat, S # {}
  PROVE  \E t \in S : \A u \in S : t <= u
<1>1. PICK t \in S : \A u \in Nat : <<u, t>> \in OpToRel(<, Nat) => ~(u \in S)
  <2>1. PICK u : u \in S
    OBVIOUS
  <2>2. IsWellFoundedOn(OpToRel(<, Nat), Nat)
    BY NatLessThanWellFounded
  <2> QED BY <2>1, <2>2, WFMin
<1>2. \A u \in S : ~(u < t)
  BY <1>1 DEF OpToRel
<1> QED BY <1>2

LEMMA NextTaskIs ==
  ASSUME Typed, RestTyped, unmarked # {}
  PROVE  NextTask \in unmarked
<1>1. CrawlTasks \subseteq Nat
  <2>1. run.jobs \in Seq(Nat \ {0})
    BY CrawlAssumption DEF CrawlAssumption, Typed
  <2>2. \A j \in DOMAIN run.jobs : run.jobs[j] \in Nat
    BY <2>1
  <2> QED BY <2>2 DEF CrawlTasks, Jobs
<1>2. \E t \in unmarked : \A u \in unmarked : t <= u
  BY <1>1, LeastTask DEF RestTyped
<1> QED BY <1>2 DEF NextTask

\* The files that jobs are given are in the folder.
LEMMA FilesAre ==
  ASSUME Typed
  PROVE  Default \in Files(run) /\ \A j \in Jobs : OwnCookie(j) \in Files(run)
<1>1. Default \in Files(run)
  BY CrawlAssumption DEF CrawlAssumption, Typed, Files
<1> SUFFICES ASSUME NEW j \in Jobs PROVE OwnCookie(j) \in Files(run)
  BY <1>1
<1>2. run.offered \in Seq(Files(run))
  BY CrawlAssumption DEF CrawlAssumption, Typed, Files
<1>3. CASE run.offered = <<>>
  BY <1>1, <1>3 DEF OwnCookie
<1>4. CASE run.offered # <<>>
  <2>1. Len(run.offered) \in Nat \ {0} /\ DOMAIN run.offered = 1..Len(run.offered)
    BY <1>2, <1>4
  <2>2. j - 1 \in Int
    BY Numbered
  <2>3. ASSUME NEW n \in Nat \ {0}, NEW i \in Int PROVE 1 + (i % n) \in 1..n
    BY <2>3
  <2>4. 1 + ((j - 1) % Len(run.offered)) \in DOMAIN run.offered
    BY <2>1, <2>2, <2>3
  <2> QED BY <1>2, <1>4, <2>4 DEF OwnCookie
<1> QED BY <1>3, <1>4

LEMMA InitRest == CrawlInit => RestTyped
<1> SUFFICES ASSUME CrawlInit PROVE RestTyped
  OBVIOUS
<1>1. Default \in Files(run)
  BY InitTyped, FilesAre
<1>2. [total |-> 0, num |-> 0] \in Counts
  BY DEF Counts
<1>3. run.faults \in Nat
  BY CrawlAssumption DEF CrawlAssumption, CrawlInit
<1> QED BY <1>1, <1>2, <1>3 DEF CrawlInit, RestTyped

\* One more error leaves a count.
LEMMA CountedIs ==
  ASSUME NEW e \in Counts
  PROVE  Counted(e) \in Counts
<1>1. e.total \in 0..2 /\ e.num \in 0..1
  BY DEF Counts
<1>2. [total |-> 0, num |-> 0] \in Counts
  BY DEF Counts
<1>3. ~Alarms(e) /\ e.total = 2 => [total |-> 0, num |-> e.num + 1] \in Counts
  <2>1. ~Alarms(e) /\ e.total = 2 => e.num + 1 \in 0..1
    BY <1>1 DEF Alarms
  <2> QED BY <2>1 DEF Counts
<1>4. e.total # 2 => [e EXCEPT !.total = @ + 1] \in Counts
  <2>1. e.total # 2 => e.total + 1 \in 0..2
    BY <1>1
  <2> QED BY <2>1 DEF Counts
<1> QED BY <1>2, <1>3, <1>4 DEF Counted

LEMMA CountErrorTyped ==
  ASSUME RestTyped, NEW w \in Threads, CountError(w)
  PROVE  errors' \in [Threads -> Counts] /\ misses' \in [Threads -> Nat]
<1>1. Counted(errors[w]) \in Counts
  BY CountedIs DEF RestTyped
<1> QED BY <1>1 DEF CountError, RestTyped

\* Steps that neither take files nor finish a job.
LEMMA FailingTyped ==
  ASSUME Typed, RestTyped, NEW w \in Threads,
         LoginFails(w) \/ BrowserFails(w) \/ PageCloses(w) \/ PageIsBlank(w) \/ NoAnswer(w) \/ AnswerComes(w)
           \/ Parse(w) \/ FailsLate(w) \/ Collects(w) \/ TemporaryBrowserFails(w)
  PROVE  RestTyped'
<1> USE DEF main, thread, instance, stored, history
<1>1. UNCHANGED <<run, phase, unmarked, status, cookie, left, inUse, pages, snippets, refused>>
  BY DEF LoginFails, BrowserFails, PageCloses, PageIsBlank, NoAnswer, AnswerComes, Parse,
     FailsLate, Collects,
     TemporaryBrowserFails, SameThread
<1>2. Jobs' = Jobs /\ CrawlTasks' = CrawlTasks
  BY <1>1 DEF Jobs, CrawlTasks
<1>3. UNCHANGED <<errors, misses>> \/ CountError(w)
  BY DEF LoginFails, BrowserFails, PageCloses, PageIsBlank, NoAnswer, AnswerComes, Parse,
     FailsLate, Collects,
     TemporaryBrowserFails
<1>4. errors' \in [Threads -> Counts] /\ misses' \in [Threads -> Nat]
  BY <1>3, CountErrorTyped DEF RestTyped
<1>5. faults' \in 0..run.faults
  <2>1. UNCHANGED faults \/ Fault
    BY DEF LoginFails, BrowserFails, PageCloses, PageIsBlank, NoAnswer, AnswerComes, Parse,
       FailsLate,
       Collects, TemporaryBrowserFails, InsertReply, RetryReply
  <2>2. run.faults \in Nat
    BY CrawlAssumption DEF CrawlAssumption, Typed
  <2> QED BY <2>1, <2>2 DEF Fault, RestTyped
<1>6. silent' \subseteq Jobs
  <2>1. pc[w] # "idle" /\ batch[w] \in Seq(Jobs)
    BY DEF LoginFails, BrowserFails, PageCloses, PageIsBlank, NoAnswer, AnswerComes, Parse,
       FailsLate,
       Collects, TemporaryBrowserFails, Typed
  <2>2. Job(w) \in Jobs /\ \A i \in DOMAIN batch[w] : batch[w][i] \in Jobs
    BY <2>1, HasJob
  <2>3. \/ silent' = silent \/ silent' = silent \cup {Job(w)}
        \/ silent' = silent \cup {batch[w][i] : i \in DOMAIN batch[w]}
    BY DEF LoginFails, BrowserFails, PageCloses, PageIsBlank, NoAnswer, AnswerComes, Parse,
       FailsLate,
       Collects, TemporaryBrowserFails, InsertReply, RetryReply
  <2> QED BY <2>2, <2>3 DEF RestTyped
<1> QED BY <1>1, <1>2, <1>4, <1>5, <1>6 DEF RestTyped

\* Steps that take or give back a file.
LEMMA FilesTyped ==
  ASSUME Typed, RestTyped, NEW w \in Threads,
         TakeJob(w) \/ RunAll(w) \/ Open(w) \/ Switch(w) \/ GiveUp(w) \/ Answered(w)
  PROVE  RestTyped'
<1> USE DEF main, thread, instance, stored, history
<1>1. UNCHANGED <<run, phase, unmarked, status, pages, snippets, faults, silent, refused>>
  BY DEF TakeJob, RunAll, Open, Switch, GiveUp, Answered
<1>2. Jobs' = Jobs /\ CrawlTasks' = CrawlTasks
  BY <1>1 DEF Jobs, CrawlTasks
<1>3. [total |-> 0, num |-> 0] \in Counts
  BY DEF Counts
<1>4. errors' \in [Threads -> Counts]
  BY <1>3 DEF TakeJob, RunAll, Open, Switch, GiveUp, Answered, Reset, RestTyped
<1>5. GivenBack(w) \subseteq Files(run)
  BY DEF GivenBack, RestTyped
<1>6. \A own : Others(own) \in SUBSET DOMAIN run.cookies
  BY DEF Others
<1>7. cookie[w] \in Files(run) /\ left[w] \in SUBSET DOMAIN run.cookies
  BY DEF RestTyped
<1>8. CASE TakeJob(w)
  <2>1. Head(queue) \in Jobs
    BY <1>8 DEF TakeJob, Typed
  <2>2. OwnCookie(Head(queue)) \in Files(run)
    BY <2>1, FilesAre
  <2> QED BY <1>1, <1>2, <1>4, <1>8, <2>2 DEF TakeJob, RestTyped
<1>9. CASE RunAll(w)
  BY <1>1, <1>2, <1>9 DEF RunAll, RestTyped
<1>10. \A rest : Turn(w, rest, cookie[w]) =>
         /\ cookie' \in [Threads -> Files(run)]
         /\ left' \in [Threads -> SUBSET DOMAIN run.cookies]
         /\ misses' \in [Threads -> Nat]
  BY <1>6, <1>7 DEF Turn, RestTyped
<1>14. CASE Open(w)
  <2>1. UNCHANGED inUse /\ Turn(w, batch[w], cookie[w])
    BY <1>14 DEF Open
  <2> QED BY <1>1, <1>2, <1>4, <1>10, <2>1 DEF RestTyped
<1>11. CASE Switch(w)
  <2>1. PICK k \in left[w] : /\ inUse' = GivenBack(w) \cup {run.cookies[k]}
                            /\ cookie' = [cookie EXCEPT ![w] = run.cookies[k]]
                            /\ left' = [left EXCEPT ![w] = {i \in left[w] : i > k}]
    BY <1>11 DEF Switch
  <2>2. run.cookies[k] \in Files(run)
    BY <1>7 DEF Files
  <2>3. cookie' \in [Threads -> Files(run)] /\ inUse' \subseteq Files(run)
    BY <1>5, <2>1, <2>2 DEF RestTyped
  <2>4. left' \in [Threads -> SUBSET DOMAIN run.cookies]
    <3>1. {i \in left[w] : i > k} \in SUBSET DOMAIN run.cookies
      BY <1>7
    <3> QED BY <2>1, <3>1 DEF RestTyped
  <2>5. UNCHANGED misses
    BY <1>11 DEF Switch
  <2> QED BY <1>1, <1>2, <1>4, <2>3, <2>4, <2>5 DEF RestTyped
<1>12. CASE GiveUp(w)
  BY <1>1, <1>2, <1>4, <1>5, <1>12 DEF GiveUp, RestTyped
<1>13. CASE Answered(w)
  <2>1. inUse' \subseteq Files(run)
    BY <1>5, <1>13 DEF Answered
  <2>2. Turn(w, Tail(batch[w]), cookie[w]) \/ UNCHANGED <<cookie, left, misses>>
    BY <1>13 DEF Answered
  <2>3. /\ cookie' \in [Threads -> Files(run)]
        /\ left' \in [Threads -> SUBSET DOMAIN run.cookies]
        /\ misses' \in [Threads -> Nat]
    BY <1>10, <2>2 DEF RestTyped
  <2> QED BY <1>1, <1>2, <1>4, <2>1, <2>3 DEF RestTyped
<1> QED BY <1>8, <1>9, <1>11, <1>12, <1>13, <1>14

LEMMA RestKept == Typed /\ RestTyped /\ [CrawlNext]_crawlVars => RestTyped'
<1> SUFFICES ASSUME Typed, RestTyped, [CrawlNext]_crawlVars PROVE RestTyped'
  OBVIOUS
<1> USE DEF main, thread, instance, stored, history
<1>0. run.faults \in Nat
  BY CrawlAssumption DEF CrawlAssumption, Typed
<1>1. CASE UNCHANGED crawlVars
  BY <1>1 DEF crawlVars, RestTyped, Jobs, CrawlTasks
<1>2. CASE MainStep
  <2>1. UNCHANGED <<run, cookie, left, errors, misses, inUse, pages, snippets, silent>>
    BY <1>2 DEF MainStep, MarkRunning, SetStatus, StartPool, Collect, CollectAfu, Complete
  <2>2. Jobs' = Jobs /\ CrawlTasks' = CrawlTasks
    BY <2>1 DEF Jobs, CrawlTasks
  <2>3. /\ phase' \in {"marking", "working", "completing", "ended"}
        /\ unmarked' \subseteq CrawlTasks
    BY <1>2 DEF MainStep, MarkRunning, SetStatus, StartPool, Collect, CollectAfu, Complete,
       RestTyped
  <2>4. \/ UNCHANGED <<status, faults, refused>>
        \/ /\ unmarked # {}
           /\ \/ /\ \E s \in {"running", "done"} : status' = [status EXCEPT ![NextTask] = s]
                 /\ UNCHANGED <<faults, refused>>
              \/ Fault /\ refused' = refused \cup {NextTask} /\ UNCHANGED status
    BY <1>2 DEF MainStep, MarkRunning, SetStatus, StartPool, Collect, CollectAfu, Complete
  <2>5. refused' \subseteq CrawlTasks /\ status' \in [CrawlTasks -> {"new", "running", "done"}]
    BY <2>4, NextTaskIs DEF RestTyped
  <2>6. faults' \in 0..run.faults
    BY <1>0, <2>4 DEF Fault, RestTyped
  <2> QED BY <2>1, <2>2, <2>3, <2>5, <2>6 DEF RestTyped
<1>3. ASSUME NEW j \in Jobs, StorePages(j) \/ StoreSnippets(j) \/ ThreadDies(j)
      PROVE  RestTyped'
  <2>1. UNCHANGED <<run, phase, unmarked, status, cookie, left, errors, misses, inUse, silent,
                    refused>>
    BY <1>3 DEF StorePages, StoreSnippets, ThreadDies
  <2>2. Jobs' = Jobs /\ CrawlTasks' = CrawlTasks
    BY <2>1 DEF Jobs, CrawlTasks
  <2>3. faults' \in 0..run.faults
    BY <1>0, <1>3 DEF StorePages, StoreSnippets, ThreadDies, InsertSearchWeb, NoWebContent,
       InsertSnippet, Fault, RestTyped
  <2>4. Owner(j) \in Instances
    BY Numbered DEF Owner
  <2>5. pages' \subseteq [by : Jobs, as : {0} \cup Jobs]
    <3>1. current[Owner(j)] \in {0} \cup Jobs
      BY <2>4 DEF Typed
    <3>2. [by |-> j, as |-> current[Owner(j)]] \in [by : Jobs, as : {0} \cup Jobs]
      BY <3>1
    <3>3. pages' = pages \/ pages' = pages \cup {[by |-> j, as |-> current[Owner(j)]]}
      BY <1>3 DEF StorePages, StoreSnippets, ThreadDies, InsertSearchWeb, NoWebContent
    <3> QED BY <3>2, <3>3 DEF RestTyped
  <2>6. snippets' \subseteq [by : Jobs, reply : Jobs, text : Jobs, page : Jobs]
    <3> DEFINE r == [by |-> j, reply |-> reply[Owner(j)], text |-> pending_snippets[Owner(j)],
                     page |-> webs[Owner(j)]]
    <3>1. /\ reply[Owner(j)] \in {0} \cup Jobs /\ pending_snippets[Owner(j)] \in {0} \cup Jobs
          /\ webs[Owner(j)] \in {0} \cup Jobs
      BY <2>4 DEF Typed
    <3>2. \/ snippets' = snippets
          \/ 0 \notin {r.reply, r.text, r.page} /\ snippets' = snippets \cup {r}
      BY <1>3 DEF StorePages, StoreSnippets, ThreadDies, InsertSnippet
    <3>3. 0 \notin {r.reply, r.text, r.page} =>
            r \in [by : Jobs, reply : Jobs, text : Jobs, page : Jobs]
      BY <3>1
    <3> QED BY <3>2, <3>3 DEF RestTyped
  <2> QED BY <2>1, <2>2, <2>3, <2>5, <2>6 DEF RestTyped
<1>4. ASSUME NEW w \in Threads, Return(w) \/ ReturnAll(w) \/ Leave(w) \/ Raise(w)
      PROVE  RestTyped'
  <2>1. /\ UNCHANGED <<run, status, errors, misses, pages, snippets, faults, silent, refused>>
        /\ cookie' = [cookie EXCEPT ![w] = Default]
        /\ left' = [left EXCEPT ![w] = {}]
        /\ inUse' = inUse \/ inUse' = inUse \ {OwnCookie(Job(w))}
        /\ phase' \in {phase, "completing", "ended"}
        /\ unmarked' = unmarked \/ unmarked' = CrawlTasks
    BY <1>4 DEF Return, ReturnAll, Leave, Raise, Finished
  <2>2. Jobs' = Jobs /\ CrawlTasks' = CrawlTasks
    BY <2>1 DEF Jobs, CrawlTasks
  <2>3. cookie' \in [Threads -> Files(run)] /\ left' \in [Threads -> SUBSET DOMAIN run.cookies]
    BY <2>1, FilesAre DEF RestTyped
  <2>4. inUse' \subseteq Files(run)
    BY <2>1 DEF RestTyped
  <2> QED BY <2>1, <2>2, <2>3, <2>4 DEF RestTyped
<1> QED BY <1>1, <1>2, <1>3, <1>4, FailingTyped, FilesTyped
        DEF CrawlNext, BackgroundStep, ThreadStep

\* A step of a thread leaves the others alone.
LEMMA OthersStay ==
  ASSUME Typed, RestTyped, NEW w \in Threads, ThreadStep(w)
  PROVE  /\ run' = run
         /\ \A v \in Threads : v # w =>
              /\ pc'[v] = pc[v] /\ batch'[v] = batch[v]
              /\ cookie'[v] = cookie[v] /\ switched'[v] = switched[v]
              /\ errors'[v] = errors[v] /\ misses'[v] = misses[v]
<1> USE DEF main, thread, instance, stored, history
<1>1. CASE TakeJob(w) \/ RunAll(w)
  BY <1>1 DEF TakeJob, RunAll, Typed, RestTyped
<1>2. CASE Open(w) \/ Switch(w) \/ GiveUp(w)
  BY <1>2 DEF Open, Turn, Switch, GiveUp, Reset, Typed, RestTyped
<1>3. CASE Answered(w)
  <2>1. /\ run' = run /\ errors' = [errors EXCEPT ![w] = [total |-> 0, num |-> 0]]
        /\ \E s : pc' = [pc EXCEPT ![w] = s]
        /\ \/ Turn(w, Tail(batch[w]), cookie[w])
           \/ UNCHANGED <<batch, cookie, switched, misses>>
    BY <1>3 DEF Answered, Reset
  <2> QED BY <2>1 DEF Turn, Typed, RestTyped
<1>4. CASE LoginFails(w) \/ BrowserFails(w) \/ PageCloses(w) \/ PageIsBlank(w) \/ NoAnswer(w) \/ AnswerComes(w)
             \/ Parse(w) \/ FailsLate(w) \/ Collects(w) \/ TemporaryBrowserFails(w)
  <2>1. UNCHANGED <<run, batch, cookie, switched>>
    BY <1>4 DEF LoginFails, BrowserFails, PageCloses, PageIsBlank, NoAnswer, AnswerComes,
       Parse, FailsLate,
       Collects, TemporaryBrowserFails, SameThread
  <2>2. UNCHANGED <<errors, misses>> \/ CountError(w)
    BY <1>4 DEF LoginFails, BrowserFails, PageCloses, PageIsBlank, NoAnswer, AnswerComes,
       Parse, FailsLate,
       Collects, TemporaryBrowserFails
  <2>3. \A v \in Threads : v # w => errors'[v] = errors[v] /\ misses'[v] = misses[v]
    BY <2>2 DEF CountError, RestTyped
  <2>4. \A v \in Threads : v # w => pc'[v] = pc[v]
    BY <1>4 DEF LoginFails, BrowserFails, PageCloses, PageIsBlank, NoAnswer, AnswerComes,
       Parse, FailsLate,
       Collects, TemporaryBrowserFails, Succeeds, Raises, Typed
  <2> QED BY <2>1, <2>3, <2>4
<1>5. CASE Return(w) \/ ReturnAll(w) \/ Leave(w) \/ Raise(w)
  <2>1. run' = run /\ \E value : Finished(w, value)
    BY <1>5 DEF Return, ReturnAll, Leave, Raise
  <2> QED BY <2>1 DEF Finished, Typed, RestTyped
<1> QED BY <1>1, <1>2, <1>3, <1>4, <1>5 DEF ThreadStep

\* The steps of a thread that ask: its job, its file and its instance stay.
Asks(w) ==
  PageIsBlank(w) \/ NoAnswer(w) \/ AnswerComes(w) \/ Parse(w) \/ FailsLate(w) \/ Collects(w)
    \/ TemporaryBrowserFails(w)

Asking == {"asking", "parsing", "collecting", "answered", "failed"}

LEMMA AsksIs ==
  ASSUME Typed, NEW w \in Threads, Asks(w)
  PROVE  /\ pc[w] \in {"asking", "parsing", "collecting"}
         /\ pc'[w] \in {"parsing", "collecting", "answered", "failed"}
         /\ UNCHANGED <<run, phase, unmarked, status, queue, batch, cookie, left, switched, inUse,
                        result, refused>>
BY DEF Asks, PageIsBlank, NoAnswer, AnswerComes, Parse, FailsLate, Collects,
   TemporaryBrowserFails, SameThread, Succeeds, Raises, Typed, main, history

\* The ends of run_single and of run.
Finishes(w, value) ==
  \/ value = "true" /\ (Return(w) \/ ReturnAll(w) \/ Leave(w))
  \/ value = "false" /\ Raise(w)

LEMMA FinishesIs ==
  ASSUME Typed, RestTyped, NEW w \in Threads, NEW value, Finishes(w, value)
  PROVE  /\ Finished(w, value) /\ value \in {"true", "false"}
         /\ pc[w] \in {"returning", "leaving", "raising"} /\ pc'[w] = "idle"
         /\ batch'[w] = <<>> /\ DOMAIN batch'[w] = {}
         /\ UNCHANGED <<run, queue, status, silent, replies, errors, misses, refused, alerts>>
         /\ \A j \in Jobs : result'[j] = IF \E i \in DOMAIN batch[w] : batch[w][i] = j
                                         THEN value ELSE result[j]
BY DEF Finishes, Return, ReturnAll, Leave, Raise, Finished, Typed, main, stored, history

LEMMA StepIs ==
  ASSUME NEW w \in Threads, ThreadStep(w)
  PROVE  \/ TakeJob(w) \/ RunAll(w) \/ Open(w) \/ LoginFails(w) \/ BrowserFails(w) \/ PageCloses(w)
         \/ Asks(w) \/ Switch(w) \/ GiveUp(w) \/ Answered(w) \/ \E value : Finishes(w, value)
BY DEF ThreadStep, Asks, Finishes

-----------------------------------------------------------------------------
(* Where the jobs are.                                                     *)

InQueue(j) == \E a \in DOMAIN queue : queue[a] = j
With(w, j) == \E i \in DOMAIN batch[w] : batch[w][i] = j
Somewhere(j) == result[j] # "none" \/ InQueue(j) \/ \E w \in Threads : With(w, j)

\* Every job is in the queue, with a thread, or has its result.
Covered ==
  /\ \A j \in Jobs : Somewhere(j)
  /\ \A w \in Threads : pc[w] = "idle" => batch[w] = <<>>
  /\ \A w \in Threads : pc[w] = "returning" => \A i \in DOMAIN batch[w] : i = 1

\* The instance that asks all questions is the only one, and gives up at the first
\* that fails.
Alone ==
  run.mode = "single" =>
    /\ \A w, v \in Threads : pc[w] # "idle" /\ pc[v] # "idle" => w = v
    /\ queue # <<>> => /\ \A w \in Threads : pc[w] = "idle"
                       /\ \A j \in Jobs : result[j] = "none"
    /\ \A w \in Threads : pc[w] # "idle" => \A j \in Jobs : result[j] # "false"
    /\ \A w \in Threads : pc[w] \in {"opening", "leaving"} => \A j \in Jobs : With(w, j)

LEMMA InitCovered == CrawlInit => Covered /\ Alone
<1> SUFFICES ASSUME CrawlInit PROVE Covered /\ Alone
  OBVIOUS
<1>1. Jobs = 1..Len(run.jobs) /\ Len(run.jobs) \in Nat
  BY InitTyped, Numbered
<1>2. \A j \in Jobs : InQueue(j)
  BY <1>1 DEF CrawlInit, InQueue
<1> QED BY <1>2 DEF CrawlInit, Covered, Alone, Somewhere

\* A result is given once.
LEMMA ResultsStay ==
  ASSUME Typed, RestTyped, Placed, Reported, [CrawlNext]_crawlVars
  PROVE  \A j \in Jobs : result[j] # "none" => result'[j] = result[j]
<1> USE DEF main, thread, instance, stored, history
<1>1. CASE UNCHANGED crawlVars
  BY <1>1 DEF crawlVars
<1>2. CASE MainStep
  BY <1>2, MainLeavesAlone
<1>3. CASE BackgroundStep
  BY <1>3 DEF BackgroundStep, StorePages, StoreSnippets, ThreadDies
<1>4. ASSUME NEW w \in Threads, ThreadStep(w), NEW j \in Jobs, result[j] # "none"
      PROVE  result'[j] = result[j]
  <2>1. CASE TakeJob(w) \/ RunAll(w) \/ Open(w) \/ LoginFails(w) \/ BrowserFails(w) \/ PageCloses(w)
               \/ Switch(w) \/ GiveUp(w)
    BY <2>1 DEF TakeJob, RunAll, Open, LoginFails, BrowserFails, PageCloses, Switch, GiveUp
  <2>2. CASE Asks(w)
    BY <2>2, AsksIs
  <2>3. CASE Answered(w)
    <3>1. pc[w] = "answered" /\ (UNCHANGED result \/ result' = [result EXCEPT ![Job(w)] = "true"])
      BY <2>3 DEF Answered
    <3>2. result[Job(w)] = "none"
      BY <3>1 DEF Reported
    <3> QED BY <1>4, <3>1, <3>2 DEF Typed
  <2>4. ASSUME NEW value, Finishes(w, value) PROVE result'[j] = result[j]
    <3>1. pc[w] # "idle"
      BY <2>4, FinishesIs
    <3>2. ASSUME NEW i \in DOMAIN batch[w] PROVE result[batch[w][i]] = "none"
      <4>1. CASE i = 1
        BY <3>1, <4>1, HasJob DEF Reported
      <4>2. CASE i # 1
        BY <3>2, <4>2 DEF Placed, Fresh
      <4> QED BY <4>1, <4>2
    <3> QED BY <1>4, <2>4, <3>2, FinishesIs
  <2> QED BY <1>4, <2>1, <2>2, <2>3, <2>4, StepIs
<1> QED BY <1>1, <1>2, <1>3, <1>4 DEF CrawlNext

\* What becomes of the places when one thread moves.
LEMMA PlacesMove ==
  ASSUME Typed, Covered, NEW w \in Threads, UNCHANGED run,
         \A v \in Threads : v # w => batch'[v] = batch[v],
         \A j \in Jobs : result[j] # "none" => result'[j] # "none",
         \A j \in Jobs : InQueue(j) \/ With(w, j) =>
           result'[j] # "none" \/ InQueue(j)' \/ With(w, j)'
  PROVE  \A j \in Jobs' : Somewhere(j)'
<1>1. Jobs' = Jobs
  BY DEF Jobs
<1> SUFFICES ASSUME NEW j \in Jobs PROVE Somewhere(j)'
  BY <1>1
<1>2. Somewhere(j)
  BY DEF Covered
<1>3. ASSUME NEW v \in Threads, v # w, With(v, j) PROVE With(v, j)'
  BY <1>3 DEF With
<1> QED BY <1>2, <1>3 DEF Somewhere

LEMMA CoveredKept ==
  Typed /\ RestTyped /\ Placed /\ Reported /\ Covered /\ Alone /\ [CrawlNext]_crawlVars
    => Covered' /\ Alone'
<1> SUFFICES ASSUME Typed, RestTyped, Placed, Reported, Covered, Alone, [CrawlNext]_crawlVars
             PROVE  Covered' /\ Alone'
  OBVIOUS
<1> USE DEF main, thread, instance, stored, history
<1>1. \A j \in Jobs : result[j] # "none" => result'[j] = result[j]
  BY ResultsStay
<1>2. CASE UNCHANGED crawlVars \/ MainStep \/ BackgroundStep
  <2>1. UNCHANGED <<run, queue, pc, batch, result>>
    <3>1. CASE UNCHANGED crawlVars
      BY <3>1 DEF crawlVars
    <3>2. CASE MainStep
      BY <3>2, MainLeavesAlone
    <3>3. CASE BackgroundStep
      BY <3>3 DEF BackgroundStep, StorePages, StoreSnippets, ThreadDies
    <3> QED BY <1>2, <3>1, <3>2, <3>3
  <2> QED BY <2>1 DEF Covered, Alone, Somewhere, InQueue, With, Jobs
<1>3. ASSUME NEW w \in Threads, ThreadStep(w) PROVE Covered' /\ Alone'
  <2>1. /\ run' = run /\ Jobs' = Jobs
        /\ \A v \in Threads : v # w => pc'[v] = pc[v] /\ batch'[v] = batch[v]
    BY <1>3, OthersStay DEF Jobs
  <2>2. \A v \in Threads : \A j : v # w => (With(v, j)' <=> With(v, j))
    BY <2>1 DEF With
  <2>3. CASE TakeJob(w)
    <3>1. /\ run.mode # "single" /\ pc[w] = "idle" /\ pc'[w] = "opening"
          /\ batch'[w] = <<Head(queue)>> /\ queue' = Tail(queue) /\ queue # <<>>
          /\ UNCHANGED result
      BY <2>3 DEF TakeJob, Typed
    <3>2. batch[w] = <<>>
      BY <3>1 DEF Covered
    <3>3. ASSUME NEW j \in Jobs, InQueue(j) \/ With(w, j) PROVE InQueue(j)' \/ With(w, j)'
      <4>1. PICK a \in DOMAIN queue : queue[a] = j
        BY <3>2, <3>3 DEF InQueue, With
      <4>2. a \in 1..Len(queue) /\ Len(queue) \in Nat
        BY DEF Typed
      <4>3. CASE a = 1
        <5>1. Head(queue) = j
          BY <3>1, <4>1, <4>3, Rest DEF Typed
        <5>2. batch'[w][1] = j /\ 1 \in DOMAIN batch'[w]
          BY <3>1, <5>1
        <5> QED BY <5>2 DEF With
      <4>4. CASE a # 1
        <5>1. a - 1 \in 1..(Len(queue) - 1)
          BY <4>2, <4>4
        <5>2. (a - 1) + 1 = a
          BY <4>2
        <5>3. a - 1 \in DOMAIN queue' /\ queue'[a - 1] = j
          BY <3>1, <4>1, <5>1, <5>2, Rest DEF Typed
        <5> QED BY <5>3 DEF InQueue
      <4> QED BY <4>3, <4>4
    <3>4. \A j \in Jobs' : Somewhere(j)'
      BY <1>1, <2>1, <3>3, PlacesMove
    <3> QED BY <2>1, <3>1, <3>4 DEF Covered, Alone
  <2>4. CASE RunAll(w)
    <3>1. /\ run.mode = "single" /\ queue # <<>> /\ pc'[w] = "opening"
          /\ batch'[w] = queue /\ queue' = <<>> /\ UNCHANGED result
      BY <2>4 DEF RunAll, Typed
    <3>2. \A v \in Threads : pc[v] = "idle" /\ batch[v] = <<>>
      BY <3>1 DEF Covered, Alone
    <3>3. \A j \in Jobs : InQueue(j) \/ With(w, j) => With(w, j)'
      BY <3>1, <3>2 DEF InQueue, With
    <3>4. \A j \in Jobs' : Somewhere(j)'
      BY <1>1, <2>1, <3>3, PlacesMove
    <3>5. \A j \in Jobs : result[j] = "none"
      BY <3>1 DEF Alone
    <3>6. \A j \in Jobs : With(w, j)'
      <4> SUFFICES ASSUME NEW j \in Jobs PROVE With(w, j)'
        OBVIOUS
      <4>1. \A v \in Threads : ~With(v, j)
        BY <3>2 DEF With
      <4>2. Somewhere(j)
        BY DEF Covered
      <4> QED BY <3>3, <3>5, <4>1, <4>2 DEF Somewhere
    <3>7. Covered'
      BY <2>1, <3>1, <3>4 DEF Covered
    <3>8. Alone'
      <4>1. \A v \in Threads : pc'[v] # "idle" => v = w
        BY <2>1, <3>2
      <4>2. \A j \in Jobs' : result'[j] = "none" /\ With(w, j)'
        BY <2>1, <3>1, <3>5, <3>6
      <4> QED BY <3>1, <4>1, <4>2 DEF Alone
    <3> QED BY <3>7, <3>8
  <2>5. CASE Asks(w) \/ Open(w) \/ LoginFails(w) \/ BrowserFails(w) \/ PageCloses(w) \/ Switch(w) \/ GiveUp(w)
               \/ (Answered(w) /\ ~(Len(batch[w]) > 1))
    <3>1. UNCHANGED <<queue, result>> /\ pc[w] # "idle"
      BY <2>5, AsksIs DEF Open, LoginFails, BrowserFails, PageCloses, Switch, GiveUp, Answered
    <3>2. batch' = batch
      <4>1. CASE Open(w)
        BY <4>1 DEF Open, Turn, Typed
      <4> QED BY <2>5, <4>1, AsksIs DEF LoginFails, BrowserFails, PageCloses, SameThread,
                 Switch, GiveUp,
                                         Answered
    <3>3. pc'[w] # "idle"
      BY <2>5, AsksIs DEF Open, LoginFails, BrowserFails, PageCloses, Switch, GiveUp, Answered,
         Typed
    <3>4. pc'[w] = "returning" => \A i \in DOMAIN batch[w] : i = 1
      <4>1. ASSUME pc'[w] = "returning" PROVE Answered(w) /\ ~(Len(batch[w]) > 1)
        BY <2>5, <4>1, AsksIs DEF Open, LoginFails, BrowserFails, PageCloses, Switch, GiveUp,
           Typed
      <4>2. batch[w] \in Seq(Jobs)
        BY DEF Typed
      <4>3. DOMAIN batch[w] = 1..Len(batch[w]) /\ Len(batch[w]) \in Nat
        BY <4>2
      <4> QED BY <4>1, <4>3
    <3>5. pc'[w] \in {"opening", "leaving"} => pc[w] = "opening"
      BY <2>5, AsksIs DEF Open, LoginFails, BrowserFails, PageCloses, Switch, GiveUp, Answered,
         Typed
    <3>6. \A j \in Jobs' : Somewhere(j)'
      BY <2>1, <3>1, <3>2 DEF Covered, Somewhere, InQueue, With
    <3>7. Covered'
      BY <2>1, <3>2, <3>3, <3>4, <3>6 DEF Covered
    <3>8. Alone'
      <4> SUFFICES ASSUME run.mode = "single" PROVE Alone'
        BY <2>1 DEF Alone
      <4>1. queue = <<>>
        BY <3>1 DEF Alone
      <4>2. \A v \in Threads : pc'[v] # "idle" => v = w
        BY <2>1, <3>1 DEF Alone
      <4>3. \A j \in Jobs : result[j] # "false"
        BY <3>1 DEF Alone
      <4>4. pc[w] = "opening" => \A j \in Jobs : With(w, j)
        BY DEF Alone
      <4>5. \A j : With(w, j)' <=> With(w, j)
        BY <3>2 DEF With
      <4> QED BY <2>1, <3>1, <3>5, <4>1, <4>2, <4>3, <4>4, <4>5 DEF Alone
    <3> QED BY <3>7, <3>8
  <2>6. CASE Answered(w) /\ Len(batch[w]) > 1
    <3>1. /\ pc[w] = "answered" /\ pc'[w] = "asking" /\ UNCHANGED queue
          /\ result' = [result EXCEPT ![Job(w)] = "true"]
          /\ Turn(w, Tail(batch[w]), cookie[w])
      BY <2>6 DEF Answered, Typed
    <3>2. batch[w] \in Seq(Jobs) /\ batch[w] # <<>> /\ Len(batch[w]) \in Nat
      BY <3>1 DEF Typed
    <3>3. batch'[w] = Tail(batch[w])
      BY <3>1 DEF Turn, Typed
    <3>4. Job(w) \in Jobs /\ Job(w) = batch[w][1]
      BY <3>1, HasJob
    <3>5. run.mode = "single" /\ queue = <<>>
      BY <2>6, <3>1, <3>2 DEF Placed, Alone
    <3>6. ASSUME NEW j \in Jobs, With(w, j) PROVE result'[j] # "none" \/ With(w, j)'
      <4>1. PICK a \in DOMAIN batch[w] : batch[w][a] = j
        BY <3>6 DEF With
      <4>2. a \in 1..Len(batch[w])
        BY <3>2
      <4>3. CASE a = 1
        <5>1. result'[j] = "true"
          BY <3>1, <3>4, <4>1, <4>3 DEF Typed
        <5> QED BY <5>1
      <4>4. CASE a # 1
        <5>1. a - 1 \in 1..(Len(batch[w]) - 1) /\ (a - 1) + 1 = a
          BY <3>2, <4>2, <4>4
        <5>2. a - 1 \in DOMAIN batch'[w] /\ batch'[w][a - 1] = j
          BY <3>2, <3>3, <4>1, <5>1, Rest
        <5> QED BY <5>2 DEF With
      <4> QED BY <4>3, <4>4
    <3>7. \A j \in Jobs' : Somewhere(j)'
      <4>1. \A j \in Jobs : ~InQueue(j)
        BY <3>5 DEF InQueue
      <4> QED BY <1>1, <2>1, <3>6, <4>1, PlacesMove
    <3>8. Covered'
      BY <2>1, <3>1, <3>7 DEF Covered
    <3>9. Alone'
      <4>1. \A v \in Threads : pc'[v] # "idle" => v = w
        BY <2>1, <3>1, <3>5 DEF Alone
      <4>2. \A j \in Jobs : result[j] # "false"
        BY <3>1, <3>5 DEF Alone
      <4>3. \A j \in Jobs' : result'[j] # "false"
        BY <2>1, <3>1, <4>2 DEF Typed
      <4> QED BY <3>1, <3>5, <4>1, <4>3 DEF Alone
    <3> QED BY <3>8, <3>9
  <2>7. ASSUME NEW value, Finishes(w, value) PROVE Covered' /\ Alone'
    <3>1. /\ pc[w] # "idle" /\ pc'[w] = "idle" /\ batch'[w] = <<>> /\ UNCHANGED queue
          /\ value # "none"
          /\ \A j \in Jobs : With(w, j) => result'[j] = value
      BY <2>7, FinishesIs DEF With
    <3>2. \A j \in Jobs : With(w, j) => result'[j] # "none"
      BY <3>1
    <3>3. \A j \in Jobs : InQueue(j) => InQueue(j)'
      BY <3>1 DEF InQueue
    <3>4. \A j \in Jobs' : Somewhere(j)'
      BY <1>1, <2>1, <3>2, <3>3, PlacesMove
    <3>5. Covered'
      BY <2>1, <3>1, <3>4 DEF Covered
    <3>6. Alone'
      <4> SUFFICES ASSUME run.mode = "single" PROVE Alone'
        BY <2>1 DEF Alone
      <4>1. queue = <<>> /\ \A v \in Threads : pc[v] # "idle" => v = w
        BY <3>1 DEF Alone
      <4>2. \A v \in Threads : pc'[v] = "idle"
        BY <2>1, <3>1, <4>1
      <4> QED BY <3>1, <4>1, <4>2 DEF Alone
    <3> QED BY <3>5, <3>6
  <2> QED BY <1>3, <2>3, <2>4, <2>5, <2>6, <2>7, StepIs
<1> QED BY <1>2, <1>3 DEF CrawlNext

-----------------------------------------------------------------------------
(* Errors, and the files in use.                                           *)

NoErrors == [total |-> 0, num |-> 0]

\* The counters of a thread tell how many attempts of its question failed since the
\* last alert: three for a serious error, and one for any other.
Counting ==
  /\ run.mode # "afu" =>
       \A w \in Threads :
         IF pc[w] \in Asking
         THEN \E k \in Nat : misses[w] = 6 * k + 3 * errors[w].num + errors[w].total
         ELSE errors[w] = NoErrors
  /\ \A n \in alerts : n > 0 /\ n % 6 = 0

LEMMA InitCounting == CrawlInit => Counting
BY DEF CrawlInit, Counting, NoErrors, Asking

LEMMA CountErrorCounts ==
  ASSUME RestTyped, NEW w \in Threads, CountError(w), run.mode # "afu",
         \A n \in alerts : n > 0 /\ n % 6 = 0,
         \E k \in Nat : misses[w] = 6 * k + 3 * errors[w].num + errors[w].total
  PROVE  /\ \E k \in Nat : misses'[w] = 6 * k + 3 * errors'[w].num + errors'[w].total
         /\ \A n \in alerts' : n > 0 /\ n % 6 = 0
<1>1. PICK k \in Nat : misses[w] = 6 * k + 3 * errors[w].num + errors[w].total
  OBVIOUS
<1>2. errors[w] \in Counts /\ errors[w].total \in 0..2 /\ errors[w].num \in 0..1
  BY DEF RestTyped, Counts
<1>3. errors'[w] = Counted(errors[w]) /\ misses'[w] = misses[w] + 1
  BY DEF CountError, RestTyped
<1>4. CASE Alarms(errors[w])
  <2>1. misses[w] + 1 = 6 * (k + 1)
    BY <1>1, <1>2, <1>4 DEF Alarms
  <2>2. errors'[w].num = 0 /\ errors'[w].total = 0
    BY <1>3, <1>4 DEF Counted
  <2>3. alerts' = alerts \cup {6 * (k + 1)}
    BY <1>4, <2>1 DEF CountError
  <2>4. 6 * (k + 1) > 0 /\ (6 * (k + 1)) % 6 = 0
    OBVIOUS
  <2>5. \A n \in alerts' : n > 0 /\ n % 6 = 0
    BY <2>3, <2>4
  <2>6. k + 1 \in Nat /\ misses'[w] = 6 * (k + 1) + 3 * errors'[w].num + errors'[w].total
    BY <1>3, <2>1, <2>2
  <2> QED BY <2>5, <2>6
<1>5. CASE ~Alarms(errors[w])
  <2>1. alerts' = alerts
    BY <1>5 DEF CountError
  <2>2. 3 * errors'[w].num + errors'[w].total = 3 * errors[w].num + errors[w].total + 1
    <3>1. CASE errors[w].total = 2
      <4>1. errors'[w].total = 0 /\ errors'[w].num = errors[w].num + 1
        BY <1>3, <1>5, <3>1 DEF Counted
      <4> QED BY <1>2, <3>1, <4>1
    <3>2. CASE errors[w].total # 2
      <4>1. errors'[w].total = errors[w].total + 1 /\ errors'[w].num = errors[w].num
        BY <1>2, <1>3, <1>5, <3>2 DEF Counted, Counts
      <4> QED BY <1>2, <4>1
    <3> QED BY <3>1, <3>2
  <2>3. errors'[w].num \in Int /\ errors'[w].total \in Int
    <3>1. Counted(errors[w]) \in Counts
      BY <1>2, CountedIs
    <3> QED BY <1>3, <3>1 DEF Counts
  <2>4. misses'[w] = 6 * k + 3 * errors'[w].num + errors'[w].total
    BY <1>1, <1>2, <1>3, <2>2, <2>3
  <2> QED BY <2>1, <2>4
<1> QED BY <1>4, <1>5

LEMMA CountingKept == Typed /\ RestTyped /\ Placed /\ Covered /\ Alone /\ Counting
                        /\ [CrawlNext]_crawlVars => Counting'
<1> SUFFICES ASSUME Typed, RestTyped, Placed, Covered, Alone, Counting, [CrawlNext]_crawlVars
             PROVE  Counting'
  OBVIOUS
<1> USE DEF main, thread, instance, stored, history
<1>1. CASE UNCHANGED crawlVars \/ MainStep \/ BackgroundStep
  <2>1. UNCHANGED <<run, pc, errors, misses, alerts>>
    <3>1. CASE UNCHANGED crawlVars
      BY <3>1 DEF crawlVars
    <3>2. CASE MainStep
      BY <3>2 DEF MainStep, MarkRunning, SetStatus, StartPool, Collect, CollectAfu, Complete
    <3>3. CASE BackgroundStep
      BY <3>3 DEF BackgroundStep, StorePages, StoreSnippets, ThreadDies
    <3> QED BY <1>1, <3>1, <3>2, <3>3
  <2> QED BY <2>1 DEF Counting
<1>2. ASSUME NEW w \in Threads, ThreadStep(w) PROVE Counting'
  <2> DEFINE Right(v) == IF pc[v] \in Asking
                         THEN \E k \in Nat : misses[v] = 6 * k + 3 * errors[v].num + errors[v].total
                         ELSE errors[v] = NoErrors
             Alerts == \A n \in alerts : n > 0 /\ n % 6 = 0
  <2>1. run' = run /\ \A v \in Threads : v # w => Right(v)' <=> Right(v)
    BY <1>2, OthersStay
  <2>2. (run.mode # "afu" => Right(w)) /\ Alerts
    BY DEF Counting
  <2>3. SUFFICES (run.mode # "afu" => Right(w)') /\ Alerts'
    <3>1. run.mode # "afu" => \A v \in Threads : Right(v)'
      BY <2>1, <2>3 DEF Counting
    <3> QED BY <2>1, <2>3, <3>1 DEF Counting
  <2>4. CASE TakeJob(w)
    BY <2>2, <2>4 DEF TakeJob, Typed, Asking
  <2>5. CASE RunAll(w)
    <3>1. pc[w] = "idle" /\ pc'[w] = "opening" /\ UNCHANGED <<errors, alerts>>
      BY <2>5 DEF RunAll, Alone, Typed
    <3> QED BY <2>2, <3>1 DEF Asking
  <2>6. CASE Open(w)
    <3>1. /\ pc[w] = "opening" /\ pc'[w] = "asking" /\ UNCHANGED <<errors, alerts>>
          /\ misses'[w] = 0
      BY <2>6 DEF Open, Turn, Typed, RestTyped
    <3>2. run.mode # "afu" => errors'[w].num = 0 /\ errors'[w].total = 0
      BY <2>2, <3>1 DEF Asking, NoErrors
    <3>3. run.mode # "afu" => misses'[w] = 6 * 0 + 3 * errors'[w].num + errors'[w].total
      BY <3>1, <3>2
    <3> QED BY <2>2, <3>1, <3>3 DEF Asking
  <2>7. CASE LoginFails(w) \/ BrowserFails(w) \/ PageCloses(w)
    BY <2>2, <2>7 DEF LoginFails, BrowserFails, PageCloses, Typed, Asking
  <2>8. CASE Asks(w)
    <3>1. pc[w] \in Asking /\ pc'[w] \in Asking
      BY <2>8, AsksIs DEF Asking
    <3>2. UNCHANGED <<errors, misses, alerts>> \/ CountError(w)
      BY <2>8 DEF Asks, PageIsBlank, NoAnswer, AnswerComes, Parse, FailsLate, Collects,
         TemporaryBrowserFails
    <3>3. CASE UNCHANGED <<errors, misses, alerts>>
      BY <2>2, <3>1, <3>3
    <3>4. CASE CountError(w) /\ run.mode # "afu"
      BY <2>2, <3>1, <3>4, CountErrorCounts
    <3>5. CASE CountError(w) /\ run.mode = "afu"
      BY <2>2, <3>5 DEF CountError
    <3> QED BY <3>2, <3>3, <3>4, <3>5
  <2>9. CASE Switch(w)
    BY <2>2, <2>9 DEF Switch, Typed, Asking
  <2>10. CASE GiveUp(w)
    BY <2>2, <2>10 DEF GiveUp, Reset, Typed, RestTyped, Asking, NoErrors
  <2>11. CASE Answered(w)
    <3>1. errors'[w] = NoErrors /\ UNCHANGED alerts
      BY <2>11 DEF Answered, Reset, RestTyped, NoErrors
    <3>2. \/ pc'[w] = "asking" /\ misses'[w] = 0
          \/ pc'[w] = "returning"
      BY <2>11 DEF Answered, Turn, Typed, RestTyped
    <3>3. misses'[w] = 0 => misses'[w] = 6 * 0 + 3 * errors'[w].num + errors'[w].total
      BY <3>1 DEF NoErrors
    <3> QED BY <2>2, <3>1, <3>2, <3>3 DEF Asking
  <2>12. ASSUME NEW value, Finishes(w, value)
         PROVE  (run.mode # "afu" => Right(w)') /\ Alerts'
    BY <2>2, <2>12, FinishesIs DEF Asking
  <2> QED BY <1>2, <2>4, <2>5, <2>6, <2>7, <2>8, <2>9, <2>10, <2>11, <2>12, StepIs
<1> QED BY <1>1, <1>2 DEF CrawlNext

\* The files a thread has marked as in use.
OwnFile(w) == IF pc[w] # "idle" /\ run.mode # "single" THEN {OwnCookie(Job(w))} ELSE {}
SwitchedFile(w) == IF pc[w] \in Asking /\ switched[w] THEN {cookie[w]} ELSE {}
Marked(w) == OwnFile(w) \cup SwitchedFile(w)

FilesMarked == \A f \in inUse : \E w \in Threads : f \in Marked(w)

LEMMA FilesMarkedKept == Typed /\ RestTyped /\ Placed /\ Covered /\ Alone /\ FilesMarked
                           /\ [CrawlNext]_crawlVars => FilesMarked'
<1> SUFFICES ASSUME Typed, RestTyped, Placed, Covered, Alone, FilesMarked, [CrawlNext]_crawlVars
             PROVE  FilesMarked'
  OBVIOUS
<1> USE DEF main, thread, instance, stored, history
<1>1. CASE UNCHANGED crawlVars \/ MainStep \/ BackgroundStep
  <2>1. UNCHANGED <<run, pc, batch, switched, cookie, inUse>>
    <3>1. CASE UNCHANGED crawlVars
      BY <3>1 DEF crawlVars
    <3>2. CASE MainStep
      BY <3>2 DEF MainStep, MarkRunning, SetStatus, StartPool, Collect, CollectAfu, Complete
    <3>3. CASE BackgroundStep
      BY <3>3 DEF BackgroundStep, StorePages, StoreSnippets, ThreadDies
    <3> QED BY <1>1, <3>1, <3>2, <3>3
  <2>2. \A w \in Threads : Marked(w)' = Marked(w)
    BY <2>1 DEF Marked, OwnFile, SwitchedFile, OwnCookie, Job
  <2> QED BY <2>1, <2>2 DEF FilesMarked
<1>2. ASSUME NEW w \in Threads, ThreadStep(w) PROVE FilesMarked'
  <2>1. /\ run' = run
        /\ \A v \in Threads : v # w => Marked(v)' = Marked(v)
    <3>1. ASSUME NEW v \in Threads, v # w PROVE Marked(v)' = Marked(v)
      <4>1. /\ run' = run /\ pc'[v] = pc[v] /\ batch'[v] = batch[v]
            /\ cookie'[v] = cookie[v] /\ switched'[v] = switched[v]
        BY <1>2, <3>1, OthersStay
      <4> QED BY <4>1 DEF Marked, OwnFile, SwitchedFile, OwnCookie, Job
    <3> QED BY <1>2, <3>1, OthersStay
  <2>2. SUFFICES ASSUME NEW f \in inUse'
                 PROVE  /\ f \in inUse \/ f \in Marked(w)'
                        /\ f \in Marked(w) => f \in Marked(w)'
    BY <2>1, <2>2 DEF FilesMarked
  <2>3. batch'[w] = batch[w] => OwnCookie(Job(w))' = OwnCookie(Job(w))
    BY <2>1 DEF OwnCookie, Job
  <2>4. CASE TakeJob(w)
    <3>1. /\ pc[w] = "idle" /\ pc'[w] = "opening" /\ run.mode # "single"
          /\ batch'[w] = <<Head(queue)>>
          /\ inUse' = inUse \cup {OwnCookie(Head(queue))}
      BY <2>4 DEF TakeJob, Typed
    <3>2. Job(w)' = Head(queue)
      BY <3>1 DEF Job
    <3>3. OwnCookie(Job(w))' = OwnCookie(Head(queue))
      BY <2>1, <3>2 DEF OwnCookie
    <3>4. Marked(w) = {} /\ Marked(w)' = {OwnCookie(Head(queue))}
      BY <2>1, <3>1, <3>3 DEF Marked, OwnFile, SwitchedFile, Asking
    <3> QED BY <2>2, <3>1, <3>4
  <2>5. CASE RunAll(w)
    <3>1. pc[w] = "idle" /\ UNCHANGED inUse
      BY <2>5 DEF RunAll, Alone
    <3>2. Marked(w) = {}
      BY <3>1 DEF Marked, OwnFile, SwitchedFile, Asking
    <3> QED BY <2>2, <3>1, <3>2
  <2>6. CASE Open(w) \/ LoginFails(w) \/ BrowserFails(w) \/ PageCloses(w)
    <3>1. /\ pc[w] \in {"opening", "returning"} /\ pc'[w] # "idle" /\ UNCHANGED inUse /\ batch'[w] = batch[w]
      BY <2>6 DEF Open, Turn, LoginFails, BrowserFails, PageCloses, SameThread, Typed
    <3>2. Marked(w) = OwnFile(w) /\ OwnFile(w)' = OwnFile(w)
      BY <2>1, <2>3, <3>1 DEF Marked, OwnFile, SwitchedFile, Asking
    <3> QED BY <2>2, <3>1, <3>2 DEF Marked
  <2>7. CASE Asks(w)
    <3>1. pc[w] \in Asking /\ pc'[w] \in Asking /\ UNCHANGED <<inUse, batch, switched, cookie>>
      BY <2>7, AsksIs DEF Asking
    <3>2. Marked(w)' = Marked(w)
      BY <2>1, <2>3, <3>1 DEF Marked, OwnFile, SwitchedFile, Asking
    <3> QED BY <2>2, <3>1, <3>2
  <2>8. CASE Switch(w)
    <3>1. PICK c : /\ inUse' = GivenBack(w) \cup {c}
                   /\ cookie' = [cookie EXCEPT ![w] = c]
      BY <2>8 DEF Switch
    <3>2. /\ pc[w] = "failed" /\ pc'[w] = "asking" /\ UNCHANGED batch
          /\ switched'[w] /\ cookie'[w] = c
      BY <2>8, <3>1 DEF Switch, Typed, RestTyped
    <3>3. OwnFile(w)' = OwnFile(w) /\ SwitchedFile(w)' = {c}
      BY <2>1, <2>3, <3>2 DEF OwnFile, SwitchedFile, Asking
    <3>4. f \in GivenBack(w) => f \in inUse /\ f \notin SwitchedFile(w)
      BY DEF GivenBack, SwitchedFile
    <3> QED BY <2>2, <3>1, <3>3, <3>4 DEF Marked
  <2>9. CASE GiveUp(w) \/ (Answered(w) /\ ~(Len(batch[w]) > 1))
    <3>1. /\ inUse' = GivenBack(w) /\ pc[w] # "idle" /\ UNCHANGED batch
          /\ pc'[w] # "idle"
      BY <2>9 DEF GiveUp, Answered, Typed
    <3>2. OwnFile(w)' = OwnFile(w)
      BY <2>1, <2>3, <3>1 DEF OwnFile
    <3>3. f \in inUse /\ f \notin SwitchedFile(w)
      BY <2>2, <3>1 DEF GivenBack, SwitchedFile
    <3> QED BY <3>2, <3>3 DEF Marked
  <2>10. CASE Answered(w) /\ Len(batch[w]) > 1
    <3>1. run.mode = "single"
      <4>1. batch[w] \in Seq(Jobs) /\ Len(batch[w]) \in Nat
        BY DEF Typed
      <4> QED BY <2>10, <4>1 DEF Placed
    <3>2. inUse' = GivenBack(w)
      BY <2>10 DEF Answered
    <3>3. f \in inUse /\ f \notin SwitchedFile(w)
      BY <2>2, <3>2 DEF GivenBack, SwitchedFile
    <3>4. OwnFile(w) = {}
      BY <3>1 DEF OwnFile
    <3> QED BY <3>3, <3>4 DEF Marked
  <2>11. ASSUME NEW value, Finishes(w, value)
         PROVE  /\ f \in inUse \/ f \in Marked(w)'
                /\ f \in Marked(w) => f \in Marked(w)'
    <3>1. /\ pc[w] \in {"returning", "leaving", "raising"} /\ Finished(w, value)
      BY <2>11, FinishesIs
    <3>2. f \in inUse /\ f \notin OwnFile(w)
      BY <2>2, <3>1 DEF Finished, OwnFile
    <3>3. SwitchedFile(w) = {}
      BY <3>1 DEF SwitchedFile, Asking
    <3> QED BY <3>2, <3>3 DEF Marked
  <2> QED BY <1>2, <2>4, <2>5, <2>6, <2>7, <2>8, <2>9, <2>10, <2>11, StepIs
<1> QED BY <1>1, <1>2 DEF CrawlNext

\* Whatever fails, a file is in use only while some thread works, and an alert is sent
\* after every sixth failed attempt of a question: the type invariant of a run.
THEOREM RunTypeCorrect == CrawlSpec => []CrawlTypeOK
<1> DEFINE Inv == /\ Typed /\ RestTyped /\ Placed /\ Reported /\ Covered /\ Alone
                  /\ Counting /\ FilesMarked
<1>1. CrawlInit => Inv
  <2>1. CrawlInit => FilesMarked
    BY DEF CrawlInit, FilesMarked
  <2> QED BY <2>1, InitTyped, InitRest, InitPlaced, InitCovered, InitCounting
<1>2. Inv /\ [CrawlNext]_crawlVars => Inv'
  BY TypedKept, RestKept, ReportedKept, CoveredKept, CountingKept, FilesMarkedKept
<1>3. Inv => CrawlTypeOK
  <2> SUFFICES ASSUME Inv PROVE CrawlTypeOK
    OBVIOUS
  <2>1. (\A w \in Threads : pc[w] = "idle") => inUse = {}
    <3>1. ASSUME NEW w \in Threads, pc[w] = "idle" PROVE Marked(w) = {}
      BY <3>1 DEF Marked, OwnFile, SwitchedFile, Asking
    <3> QED BY <3>1 DEF FilesMarked
  <2>2. \A f \in {reply, pending_snippets, current, webs} : f \in [Instances -> {0} \cup Jobs]
    BY DEF Typed
  <2>3. \A n \in alerts : n > 0 /\ n % 6 = 0
    BY DEF Counting
  <2> QED BY <2>1, <2>2, <2>3 DEF Typed, RestTyped, CrawlTypeOK, Counts, Background
<1> QED BY <1>1, <1>2, <1>3, PTL DEF CrawlSpec

-----------------------------------------------------------------------------
(* The statuses.                                                           *)

Answers(j) == replies[j] > 0 \/ j \in silent

\* What a thread of DeepSeek or YuanBao takes for an answer is one, or was not noticed.
Supported ==
  run.mode # "afu" =>
    /\ \A w \in Threads :
         pc[w] \in {"parsing", "collecting", "answered", "returning"} => Answers(Job(w))
    /\ \A w \in Threads : pc[w] = "leaving" => \A j \in Jobs : With(w, j) => j \in silent
    /\ \A j \in Jobs : result[j] = "true" => Answers(j)

\* Once tasks are completed all jobs have succeeded; those not yet reached are waiting.
Settled ==
  /\ run.mode # "afu" /\ (phase = "completing" \/ \E t \in CrawlTasks : status[t] = "done") =>
       \A j \in Jobs : result[j] = "true"
  /\ phase = "completing" =>
       \A t \in CrawlTasks : t \in unmarked \/ status[t] = "done" \/ t \in refused
  /\ StrandedExplained

\* Replies and what is missed in silence only grow.
LEMMA AnswersStay ==
  ASSUME Typed, [CrawlNext]_crawlVars
  PROVE  \A j \in Jobs : (Answers(j) => Answers(j)') /\ (j \in silent => j \in silent')
<1> USE DEF main, thread, instance, stored, history
<1>1. CASE UNCHANGED crawlVars
  BY <1>1 DEF crawlVars, Answers
<1>2. CASE MainStep
  BY <1>2 DEF MainStep, MarkRunning, SetStatus, StartPool, Collect, CollectAfu, Complete,
     Answers
<1>3. CASE BackgroundStep
  BY <1>3 DEF BackgroundStep, StorePages, StoreSnippets, ThreadDies, Answers
<1>4. ASSUME NEW w \in Threads, ThreadStep(w)
      PROVE  \A j \in Jobs : (Answers(j) => Answers(j)') /\ (j \in silent => j \in silent')
  <2>1. CASE AnswerComes(w)
    <3>1. silent \subseteq silent'
      BY <2>1 DEF AnswerComes, InsertReply, RetryReply
    <3>2. \/ UNCHANGED replies
          \/ \E n \in {1, 2} : replies' = [replies EXCEPT ![Job(w)] = @ + n]
      BY <2>1 DEF AnswerComes, InsertReply, RetryReply
    <3>3. ASSUME NEW j \in Jobs, replies[j] > 0 PROVE replies'[j] > 0
      <4>1. replies[j] \in Nat /\ j \in DOMAIN replies
        BY DEF Typed
      <4>2. replies'[j] \in {replies[j], replies[j] + 1, replies[j] + 2}
        BY <3>2, <4>1
      <4> QED BY <3>3, <4>1, <4>2
    <3> QED BY <3>1, <3>3 DEF Answers
  <2>2. CASE TakeJob(w) \/ RunAll(w) \/ Open(w) \/ LoginFails(w) \/ BrowserFails(w) \/ PageCloses(w)
               \/ Switch(w) \/ GiveUp(w) \/ Answered(w)
    BY <2>2 DEF TakeJob, RunAll, Open, LoginFails, BrowserFails, PageCloses, Switch, GiveUp,
       Answered, Answers
  <2>3. CASE Asks(w) /\ ~AnswerComes(w)
    <3>1. UNCHANGED replies /\ silent \subseteq silent'
      BY <2>3 DEF Asks, PageIsBlank, NoAnswer, Parse, FailsLate, Collects, TemporaryBrowserFails
    <3> QED BY <3>1 DEF Answers
  <2>4. ASSUME NEW value, Finishes(w, value)
        PROVE  \A j \in Jobs : (Answers(j) => Answers(j)') /\ (j \in silent => j \in silent')
    <3>1. UNCHANGED <<replies, silent>>
      BY <2>4 DEF Finishes, Return, ReturnAll, Leave, Raise, Finished
    <3> QED BY <3>1 DEF Answers
  <2> QED BY <1>4, <2>1, <2>2, <2>3, <2>4, StepIs
<1> QED BY <1>1, <1>2, <1>3, <1>4 DEF CrawlNext

LEMMA SupportedKept == Typed /\ RestTyped /\ Placed /\ Reported /\ Covered /\ Alone /\ Supported
                         /\ [CrawlNext]_crawlVars => Supported'
<1> SUFFICES ASSUME Typed, RestTyped, Placed, Reported, Covered, Alone, Supported,
                    [CrawlNext]_crawlVars
             PROVE  Supported'
  OBVIOUS
<1> USE DEF main, thread, instance, stored, history
<1>1. \A j \in Jobs : (Answers(j) => Answers(j)') /\ (j \in silent => j \in silent')
  BY AnswersStay
<1>2. CASE UNCHANGED crawlVars \/ MainStep \/ BackgroundStep
  <2>1. UNCHANGED <<run, pc, batch, result>>
    <3>1. CASE UNCHANGED crawlVars
      BY <3>1 DEF crawlVars
    <3>2. CASE MainStep
      BY <3>2 DEF MainStep, MarkRunning, SetStatus, StartPool, Collect, CollectAfu, Complete
    <3>3. CASE BackgroundStep
      BY <3>3 DEF BackgroundStep, StorePages, StoreSnippets, ThreadDies
    <3> QED BY <1>2, <3>1, <3>2, <3>3
  <2>2. Jobs' = Jobs /\ \A w \in Threads : Job(w)' = Job(w) /\ \A j : With(w, j)' <=> With(w, j)
    BY <2>1 DEF Jobs, Job, With
  <2>3. \A w \in Threads : pc[w] # "idle" => Job(w) \in Jobs
    BY HasJob
  <2>4. ASSUME NEW w \in Threads, run.mode # "afu",
               pc[w] \in {"parsing", "collecting", "answered", "returning"}
        PROVE  Answers(Job(w))'
    <3>1. Job(w) \in Jobs /\ Answers(Job(w))
      BY <2>3, <2>4 DEF Supported
    <3>2. PICK j \in Jobs : j = Job(w)
      BY <3>1
    <3>3. Answers(j)'
      BY <1>1, <3>1, <3>2
    <3> QED BY <2>2, <3>2, <3>3 DEF Answers
  <2> QED BY <1>1, <2>1, <2>2, <2>4 DEF Supported
<1>3. ASSUME NEW w \in Threads, ThreadStep(w), run.mode # "afu" PROVE Supported'
  <2>1. /\ run' = run /\ Jobs' = Jobs
        /\ \A v \in Threads : v # w => pc'[v] = pc[v] /\ batch'[v] = batch[v]
    BY <1>3, OthersStay DEF Jobs
  <2>2. SUFFICES /\ pc'[w] \in {"parsing", "collecting", "answered", "returning"} =>
                      Answers(Job(w))'
                 /\ pc'[w] = "leaving" => \A j \in Jobs : With(w, j)' => j \in silent'
                 /\ \A j \in Jobs : result'[j] = "true" => Answers(j)'
    <3>1. ASSUME NEW v \in Threads, v # w,
                 pc'[v] \in {"parsing", "collecting", "answered", "returning"}
          PROVE  Answers(Job(v))'
      <4>1. Job(v) \in Jobs /\ Answers(Job(v))
        BY <1>3, <2>1, <3>1, HasJob DEF Supported
      <4>2. PICK j \in Jobs : j = Job(v)
        BY <4>1
      <4>3. Answers(j)'
        BY <1>1, <4>1, <4>2
      <4>4. Job(v)' = j
        BY <2>1, <3>1, <4>2 DEF Job
      <4> QED BY <4>3, <4>4 DEF Answers
    <3>2. ASSUME NEW v \in Threads, v # w, pc'[v] = "leaving"
          PROVE  \A j \in Jobs : With(v, j)' => j \in silent'
      BY <1>1, <1>3, <2>1, <3>2 DEF Supported, With
    <3> QED BY <2>1, <2>2, <3>1, <3>2 DEF Supported
  <2>3. UNCHANGED result => \A j \in Jobs : result'[j] = "true" => Answers(j)'
    BY <1>1, <1>3 DEF Supported
  <2>4. CASE TakeJob(w) \/ RunAll(w) \/ BrowserFails(w) \/ PageCloses(w) \/ Open(w) \/ Switch(w) \/ GiveUp(w)
    <3>1. pc'[w] \in {"opening", "raising", "asking"} /\ UNCHANGED result
      BY <2>4 DEF TakeJob, RunAll, BrowserFails, PageCloses, Open, Switch, GiveUp, Typed
    <3> QED BY <2>2, <2>3, <3>1
  <2>5. CASE LoginFails(w)
    <3>1. /\ pc'[w] = "leaving" /\ UNCHANGED <<result, batch>>
          /\ silent' = silent \cup {batch[w][i] : i \in DOMAIN batch[w]}
      BY <2>5 DEF LoginFails, Typed
    <3>2. \A j \in Jobs : With(w, j)' => j \in silent'
      BY <3>1 DEF With
    <3> QED BY <2>2, <2>3, <3>1, <3>2
  <2>6. CASE Asks(w)
    <3>1. /\ pc[w] \in {"asking", "parsing", "collecting"}
          /\ pc'[w] \in {"parsing", "collecting", "answered", "failed"}
          /\ UNCHANGED <<batch, result>>
      BY <2>6, AsksIs
    <3>2. PICK j \in Jobs : j = Job(w)
      BY <3>1, HasJob
    <3>3. Job(w)' = j
      BY <3>1, <3>2 DEF Job
    <3>4. pc'[w] # "failed" => Answers(j)'
      <4>1. CASE PageIsBlank(w)
        BY <3>2, <4>1 DEF PageIsBlank, Answers
      <4>2. CASE AnswerComes(w)
        <5>1. \/ j \in silent'
              \/ \E n \in {1, 2} : replies' = [replies EXCEPT ![j] = @ + n]
          BY <3>2, <4>2 DEF AnswerComes, InsertReply, RetryReply
        <5>2. replies \in [Jobs -> Nat]
          BY DEF Typed
        <5> QED BY <5>1, <5>2 DEF Answers
      <4>3. CASE NoAnswer(w) \/ FailsLate(w) \/ TemporaryBrowserFails(w)
        BY <4>3 DEF NoAnswer, FailsLate, TemporaryBrowserFails, Raises, Typed
      <4>4. CASE Parse(w) \/ Collects(w)
        <5>1. pc[w] \in {"parsing", "collecting"}
          BY <4>4 DEF Parse, Collects
        <5>2. Answers(Job(w))
          BY <1>3, <5>1 DEF Supported
        <5> QED BY <1>1, <3>2, <5>2
      <4> QED BY <2>6, <4>1, <4>2, <4>3, <4>4 DEF Asks
    <3> QED BY <2>2, <2>3, <3>1, <3>3, <3>4 DEF Answers
  <2>7. CASE Answered(w)
    <3>1. pc[w] = "answered" /\ pc'[w] \in {"asking", "returning"}
      BY <2>7 DEF Answered, Typed
    <3>2. PICK j \in Jobs : j = Job(w)
      BY <3>1, HasJob
    <3>3. Answers(j)
      BY <1>3, <3>1, <3>2 DEF Supported
    <3>4. Answers(j)'
      BY <1>1, <3>3
    <3>5. \A k \in Jobs : result'[k] = "true" => result[k] = "true" \/ k = j
      BY <2>7, <3>2 DEF Answered, Typed
    <3>6. \A k \in Jobs : result'[k] = "true" => Answers(k)'
      BY <1>1, <1>3, <3>4, <3>5 DEF Supported
    <3>7. pc'[w] = "returning" => Job(w)' = j
      BY <2>7, <3>2 DEF Answered, Job, Typed
    <3> QED BY <2>2, <3>1, <3>4, <3>6, <3>7 DEF Answers
  <2>8. ASSUME NEW value, Finishes(w, value)
        PROVE  /\ pc'[w] = "idle"
               /\ \A j \in Jobs : result'[j] = "true" => Answers(j)'
    <3>1. pc'[w] = "idle"
      BY <2>8, FinishesIs
    <3>2. ASSUME NEW j \in Jobs, result'[j] = "true" PROVE Answers(j)'
      <4>1. CASE ~With(w, j)
        <5>1. result[j] = "true"
          BY <2>8, <3>2, <4>1, FinishesIs DEF With
        <5> QED BY <1>1, <1>3, <5>1 DEF Supported
      <4>2. CASE With(w, j)
        <5>1. value = "true"
          BY <2>8, <3>2, <4>2, FinishesIs DEF With
        <5>2. pc[w] \in {"returning", "leaving"}
          BY <2>8, <5>1 DEF Finishes, Return, ReturnAll, Leave
        <5>3. CASE pc[w] = "leaving"
          BY <1>1, <1>3, <4>2, <5>3 DEF Supported, Answers
        <5>4. CASE pc[w] = "returning"
          <6>1. j = batch[w][1]
            BY <4>2, <5>4 DEF Covered, With
          <6>2. j = Job(w)
            BY <5>4, <6>1, HasJob
          <6> QED BY <1>1, <1>3, <5>4, <6>2 DEF Supported
        <5> QED BY <5>2, <5>3, <5>4
      <4> QED BY <4>1, <4>2
    <3> QED BY <3>1, <3>2
  <2> QED BY <1>3, <2>2, <2>4, <2>5, <2>6, <2>7, <2>8, StepIs
<1>4. ASSUME NEW w \in Threads, ThreadStep(w), run.mode = "afu" PROVE Supported'
  BY <1>4, OthersStay DEF Supported
<1> QED BY <1>2, <1>3, <1>4 DEF CrawlNext

LEMMA InitSettled == CrawlInit => Supported /\ Settled
<1> SUFFICES ASSUME CrawlInit PROVE Supported /\ Settled
  OBVIOUS
<1>1. Supported
  BY DEF CrawlInit, Supported, Answers
<1>2. Settled
  BY DEF CrawlInit, Settled, StrandedExplained
<1> QED BY <1>1, <1>2

\* What a thread has not finished has no result.
LEMMA WithoutResult ==
  ASSUME Typed, Placed, Reported, NEW w \in Threads, pc[w] # "idle"
  PROVE  /\ \A j \in Jobs : With(w, j) => result[j] = "none"
         /\ \E j \in Jobs : With(w, j)
<1>1. ASSUME NEW i \in DOMAIN batch[w] PROVE result[batch[w][i]] = "none"
  <2>1. CASE i = 1
    BY <2>1, HasJob DEF Reported
  <2>2. CASE i # 1
    BY <1>1, <2>2 DEF Placed, Fresh
  <2> QED BY <2>1, <2>2
<1> QED BY <1>1, HasJob DEF With

LEMMA SettledKept == Typed /\ RestTyped /\ Placed /\ Reported /\ Covered /\ Alone /\ Supported
                       /\ Settled /\ [CrawlNext]_crawlVars => Settled'
<1> SUFFICES ASSUME Typed, RestTyped, Placed, Reported, Covered, Alone, Supported, Settled,
                    [CrawlNext]_crawlVars
             PROVE  Settled'
  OBVIOUS
<1> USE DEF main, thread, instance, stored, history
<1>1. \A j \in Jobs : result[j] # "none" => result'[j] = result[j]
  BY ResultsStay
<1>2. \A j \in Jobs : j \in silent => j \in silent'
  BY AnswersStay
<1>3. run' = run /\ Jobs' = Jobs /\ CrawlTasks' = CrawlTasks
  <2>1. run' = run
    <3>1. CASE UNCHANGED crawlVars
      BY <3>1 DEF crawlVars
    <3>2. CASE MainStep
      BY <3>2, MainLeavesAlone
    <3>3. CASE BackgroundStep
      BY <3>3 DEF BackgroundStep, StorePages, StoreSnippets, ThreadDies
    <3> QED BY <3>1, <3>2, <3>3, OthersStay DEF CrawlNext
  <2> QED BY <2>1 DEF Jobs, CrawlTasks
<1>4. \A j \in Jobs : result[j] = "true" => result'[j] = "true"
  BY <1>1
<1>5. HasFailures => HasFailures'
  <2>1. ASSUME NEW j \in Jobs, result[j] = "false" PROVE result'[j] = "false"
    BY <1>1, <2>1
  <2> QED BY <1>3, <2>1 DEF HasFailures
<1>6. silent = Jobs => silent' = Jobs'
  <2>1. silent' \subseteq Jobs'
    BY RestKept DEF RestTyped
  <2> QED BY <1>2, <1>3, <2>1
\* Steps that leave the phase and the statuses alone.
<1>7. ASSUME UNCHANGED <<phase, unmarked, status, refused>> PROVE Settled'
  <2>1. StrandedExplained'
    BY <1>3, <1>5, <1>6, <1>7 DEF Settled, StrandedExplained
  <2> QED BY <1>3, <1>4, <1>7, <2>1 DEF Settled
<1>8. CASE UNCHANGED crawlVars
  BY <1>7, <1>8 DEF crawlVars
<1>9. CASE BackgroundStep
  <2>1. UNCHANGED <<phase, unmarked, status, refused>>
    BY <1>9 DEF BackgroundStep, StorePages, StoreSnippets, ThreadDies
  <2> QED BY <1>7, <2>1
<1>10. CASE MainStep
  <2>1. UNCHANGED <<result, silent>>
    BY <1>10 DEF MainStep, MarkRunning, SetStatus, StartPool, Collect, CollectAfu, Complete
  <2>2. CASE MarkRunning
    <3>1. /\ phase = "marking" /\ phase' = "marking"
          /\ status' = status \/ status' = [status EXCEPT ![NextTask] = "running"]
      BY <2>2 DEF MarkRunning, SetStatus
    <3>2. \A t \in CrawlTasks : status'[t] = "done" => status[t] = "done"
      BY <3>1 DEF RestTyped
    <3> QED BY <1>3, <1>4, <3>1, <3>2 DEF Settled, StrandedExplained
  <2>3. CASE StartPool
    BY <1>3, <1>4, <2>3 DEF StartPool, Settled, StrandedExplained
  <2>4. CASE Collect \/ CollectAfu
    <3>1. /\ AllDone /\ UNCHANGED <<status, refused>>
          /\ \/ HasFailures /\ phase' = "ended" /\ run.mode = "pool"
             \/ ~HasFailures /\ phase' = "completing" /\ unmarked' = CrawlTasks
             \/ run.mode = "afu" /\ phase' = "completing" /\ unmarked' = CrawlTasks
      BY <2>4 DEF Collect, CollectAfu
    <3>2. ~HasFailures => \A j \in Jobs : result[j] = "true"
      BY <3>1 DEF AllDone, HasFailures, Typed
    <3>3. phase' = "ended" => HasFailures'
      BY <1>5, <3>1
    <3>4. StrandedExplained'
      BY <3>1, <3>3 DEF StrandedExplained
    <3> QED BY <1>3, <1>4, <3>1, <3>2, <3>4 DEF Settled
  <2>5. CASE phase = "completing" /\ SetStatus("done") /\ UNCHANGED phase
    <3>1. run.mode # "afu" => \A j \in Jobs' : result'[j] = "true"
      BY <1>3, <1>4, <2>5 DEF Settled
    <3>2. ASSUME NEW t \in CrawlTasks
          PROVE  t \in unmarked' \/ status'[t] = "done" \/ t \in refused'
      <4>1. t \in unmarked \/ status[t] = "done" \/ t \in refused
        BY <2>5 DEF Settled
      <4>2. /\ unmarked' = unmarked \ {NextTask}
            /\ \/ status' = [status EXCEPT ![NextTask] = "done"] /\ UNCHANGED refused
               \/ refused' = refused \cup {NextTask} /\ UNCHANGED status
        BY <2>5 DEF SetStatus
      <4> QED BY <4>1, <4>2 DEF RestTyped
    <3>3. phase' # "ended"
      BY <2>5
    <3> QED BY <1>3, <3>1, <3>2, <3>3 DEF Settled, StrandedExplained
  <2>6. CASE phase = "completing" /\ unmarked = {} /\ phase' = "ended" /\ UNCHANGED <<status, refused>>
    <3>1. \A t \in CrawlTasks' : status'[t] = "done" \/ t \in refused'
      BY <1>3, <2>6 DEF Settled
    <3> QED BY <1>3, <1>4, <2>6, <3>1 DEF Settled, StrandedExplained
  <2> QED BY <1>10, <2>2, <2>3, <2>4, <2>5, <2>6 DEF MainStep, Complete
<1>11. ASSUME NEW w \in Threads, ThreadStep(w) PROVE Settled'
  <2>1. CASE TakeJob(w) \/ RunAll(w) \/ Open(w) \/ LoginFails(w) \/ BrowserFails(w) \/ PageCloses(w)
               \/ Switch(w) \/ GiveUp(w) \/ Answered(w)
    <3>1. UNCHANGED <<phase, unmarked, status, refused>>
      BY <2>1 DEF TakeJob, RunAll, Open, LoginFails, BrowserFails, PageCloses, Switch, GiveUp,
         Answered
    <3> QED BY <1>7, <3>1
  <2>2. CASE Asks(w)
    BY <1>7, <2>2, AsksIs
  <2>3. CASE Return(w)
    <3>1. UNCHANGED <<phase, unmarked, status, refused>>
      BY <2>3 DEF Return, Finished
    <3> QED BY <1>7, <3>1
  <2>4. CASE ReturnAll(w)
    <3>1. /\ pc[w] = "returning" /\ run.mode = "single" /\ Finishes(w, "true")
          /\ phase' = "completing" /\ unmarked' = CrawlTasks
      BY <2>4 DEF ReturnAll, Finishes
    <3>2. ASSUME NEW j \in Jobs PROVE result'[j] = "true"
      <4>1. queue = <<>> /\ (\A v \in Threads : pc[v] # "idle" => v = w)
              /\ result[j] # "false"
        BY <3>1 DEF Alone
      <4>2. \A v \in Threads : v # w => ~With(v, j)
        BY <4>1 DEF Covered, With
      <4>3. ~InQueue(j)
        BY <4>1 DEF InQueue
      <4>4. result[j] # "none" \/ With(w, j)
        BY <4>2, <4>3 DEF Covered, Somewhere
      <4>5. result[j] # "none" => result'[j] = "true"
        BY <1>1, <4>1 DEF Typed
      <4>6. With(w, j) => result'[j] = "true"
        BY <3>1, FinishesIs DEF With
      <4> QED BY <4>4, <4>5, <4>6
    <3> QED BY <1>3, <3>1, <3>2 DEF Settled, StrandedExplained
  <2>5. CASE Leave(w) \/ Raise(w)
    <3>1. /\ UNCHANGED <<unmarked, status, refused>>
          /\ phase' = IF run.mode = "single" THEN "ended" ELSE phase
      BY <2>5 DEF Leave, Raise, Finished
    <3>2. CASE run.mode # "single"
      BY <1>7, <3>1, <3>2
    <3>3. CASE run.mode = "single" /\ Leave(w)
      <4>1. pc[w] = "leaving"
        BY <3>3 DEF Leave
      <4>2. \A j \in Jobs : j \in silent
        BY <3>3, <4>1 DEF Alone, Supported
      <4>3. silent' = Jobs'
        BY <1>6, <4>2 DEF RestTyped
      <4> QED BY <1>3, <1>4, <3>1, <3>3, <4>3 DEF Settled, StrandedExplained
    <3>4. CASE run.mode = "single" /\ Raise(w)
      <4>1. pc[w] # "idle" /\ Finishes(w, "false")
        BY <3>4 DEF Raise, Finishes
      <4>2. PICK j \in Jobs : With(w, j)
        BY <4>1, WithoutResult
      <4>3. result'[j] = "false"
        BY <4>1, <4>2, FinishesIs DEF With
      <4>4. HasFailures'
        BY <1>3, <4>3 DEF HasFailures
      <4> QED BY <1>3, <1>4, <3>1, <3>4, <4>4 DEF Settled, StrandedExplained
    <3> QED BY <2>5, <3>2, <3>3, <3>4
  <2> QED BY <1>11, <2>1, <2>2, <2>3, <2>4, <2>5, StepIs DEF Finishes
<1> QED BY <1>8, <1>9, <1>10, <1>11 DEF CrawlNext

\* For any number of jobs, threads and failures: a task that DeepSeek or YuanBao complete
\* has a reply for each of its jobs but for what is not noticed, and a task stays
\* incomplete only for a failed job, a login that failed or a refused status.
THEOREM StatusesAreExplained == CrawlSpec => []StatusExplained
<1> DEFINE Inv == /\ Typed /\ RestTyped /\ Placed /\ Reported /\ Covered /\ Alone
                  /\ Supported /\ Settled
<1>1. CrawlInit => Inv
  BY InitTyped, InitRest, InitPlaced, InitCovered, InitSettled
<1>2. Inv /\ [CrawlNext]_crawlVars => Inv'
  BY TypedKept, RestKept, ReportedKept, CoveredKept, SupportedKept, SettledKept
<1>3. Inv => StatusExplained
  <2> SUFFICES ASSUME Inv PROVE StatusExplained
    OBVIOUS
  <2>1. ASSUME run.mode # "afu", NEW j \in Jobs, status[run.jobs[j]] = "done"
        PROVE  replies[j] > 0 \/ j \in silent
    <3>1. run.jobs[j] \in CrawlTasks
      BY DEF CrawlTasks
    <3>2. result[j] = "true"
      BY <2>1, <3>1 DEF Settled
    <3> QED BY <2>1, <3>2 DEF Supported, Answers
  <2> QED BY <2>1 DEF Settled, StatusExplained, CompleteHasReplies
<1> QED BY <1>1, <1>2, <1>3, PTL DEF CrawlSpec

=============================================================================

---------------------------- MODULE UnitLifecycle ----------------------------
(***************************************************************************)
(* What the task pipeline promises about one execution unit (a question of *)
(* a business task, in one round), whoever handles it and however their    *)
(* steps interleave: the unit is handed over at most once, it is worked on *)
(* at most Budget times, and a unit that has left the pipeline never comes *)
(* back.  A unit may leave early at any point: a crash between two steps   *)
(* of the code loses it.                                                   *)
(***************************************************************************)
EXTENDS Naturals

CONSTANTS
  Units,     (* execution units                                            *)
  Budget     (* how many times one unit may be worked on                   *)

VARIABLES
  stage,     (* where each unit is                                         *)
  work       (* how many times each unit has been worked on                *)

lifecycleVars == <<stage, work>>

Stages == {"fresh", "assigned", "waiting", "working", "reported", "gone"}

Init ==
  /\ stage = [u \in Units |-> "fresh"]
  /\ work  = [u \in Units |-> 0]

Move(u, from, to) ==
  /\ stage[u] = from
  /\ stage' = [stage EXCEPT ![u] = to]

\* The one place where a unit enters the pipeline.
Assign(u)  == Move(u, "fresh", "assigned") /\ UNCHANGED work

Publish(u) == Move(u, "assigned", "waiting") /\ UNCHANGED work

Claim(u)   == Move(u, "waiting", "working") /\ UNCHANGED work

Attempt(u) ==
  /\ stage[u] = "working"
  /\ work[u] < Budget
  /\ work' = [work EXCEPT ![u] = @ + 1]
  /\ UNCHANGED stage

\* Only a unit with budget left goes back to the queue.
Retry(u) ==
  /\ work[u] < Budget
  /\ Move(u, "working", "waiting")
  /\ UNCHANGED work

Report(u)  == Move(u, "working", "reported") /\ UNCHANGED work

\* Units leave: stored by the listener, cleared by an operator, lost in a crash.
Leave(gone) ==
  /\ stage' = [u \in Units |-> IF u \in gone THEN "gone" ELSE stage[u]]
  /\ UNCHANGED work

Next ==
  \/ \E u \in Units : \/ Assign(u)
                      \/ Publish(u)
                      \/ Claim(u)
                      \/ Attempt(u)
                      \/ Retry(u)
                      \/ Report(u)
  \/ \E gone \in SUBSET Units : Leave(gone)

Spec == Init /\ [][Next]_lifecycleVars
=============================================================================

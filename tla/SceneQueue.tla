----------------------------- MODULE SceneQueue -----------------------------
(***************************************************************************)
(* build_scenequeue_data (runqueue.py): the graph of all tasks collapsed   *)
(* into one of the setscene tasks alone.  process_endpoints walks the      *)
(* chains from the roots and from the dependencies of setscene tasks, a    *)
(* round at a time, and may meet a task again once more of its users have  *)
(* been met.  The order within a round is that of a Python dict.           *)
(***************************************************************************)
EXTENDS SceneGraph

CONSTANT Graphs      \* the graphs to collapse, each with its cantskip

ASSUME SceneQueueAssumption ==
  \A graph \in Graphs : IsGraph(graph) /\ graph.cantskip \subseteq Tasks(graph)

VARIABLES
  g,             \* the graph
  endpoints,     \* the points of this round and the setscene tasks they were added for
  newendpoints,  \* those of the next
  sq_revdeps,    \* the users of each task that have not been met
  squash,        \* sq_revdeps_squash: the setscene tasks found to use each task
  collated,      \* sq_collated_deps: the tasks each setscene task covers
  unskippable,
  harddeps,      \* sq_harddeps
  phase          \* "chains", "unskippable", "check", "hard", "inject", "built" or "fatal"

collapseVars ==
  <<g, endpoints, newendpoints, sq_revdeps, squash, collated, unskippable, harddeps, phase>>

NoPoints == [p \in {} |-> {}]

\* The first two loops: the roots, and the dependencies of setscene tasks.
FirstEndpoints(graph) ==
  [p \in (Roots(graph) \ graph.setscene)
           \cup UNION {graph.depends[s] : s \in graph.setscene} |->
     Revdeps(graph, p) \cap graph.setscene]

CollapseInit ==
  /\ g \in Graphs
  /\ endpoints = FirstEndpoints(g) /\ newendpoints = NoPoints
  /\ sq_revdeps = [t \in Tasks(g) |-> Revdeps(g, t) \ g.setscene]
  /\ squash = [t \in Tasks(g) |-> {}]
  /\ collated = [s \in g.setscene |-> {}]
  /\ unskippable = {}
  /\ harddeps = [s \in g.setscene |-> {}]
  /\ phase = "chains"

\* The setscene tasks a point is used by, as far as is known.
TasksOf(point) == endpoints[point] \cup squash[point]

\* Chains end at a setscene task.
PointOfSetscene(point) ==
  /\ point \in g.setscene
  /\ squash' = [squash EXCEPT ![point] = TasksOf(point)]
  /\ UNCHANGED <<newendpoints, sq_revdeps, collated>>

\* A normal task is covered by its users and hands them on.
HandOn(point, users, kept) ==
  squash' = [t \in Tasks(g) |->
    IF t = point THEN kept
    ELSE squash[t] \cup (IF t \in g.depends[point] THEN users ELSE {})]

Met(point) ==
  /\ sq_revdeps' = [t \in Tasks(g) |->
                      IF t \in g.depends[point] THEN sq_revdeps[t] \ {point}
                      ELSE sq_revdeps[t]]
  /\ LET ready == {d \in g.depends[point] \ g.setscene : sq_revdeps'[d] = {}}
     IN  newendpoints' = [p \in DOMAIN newendpoints \cup ready |->
           IF p \in ready THEN endpoints[point] ELSE newendpoints[p]]

Collate(point, users) ==
  collated' = [s \in g.setscene |-> collated[s] \cup (IF s \in users THEN {point} ELSE {})]

\* Wrong variant: it keeps what it has handed on.
PointOfNormal_Kept(point) ==
  /\ point \notin g.setscene
  /\ Collate(point, TasksOf(point)) /\ HandOn(point, TasksOf(point), TasksOf(point))
  /\ Met(point)

PointOfNormal(point) ==
  /\ point \notin g.setscene
  /\ Collate(point, TasksOf(point)) /\ HandOn(point, TasksOf(point), {}) /\ Met(point)

Process(point) ==
  /\ phase = "chains"
  /\ PointOfSetscene(point) \/ PointOfNormal(point)
  /\ endpoints' = [p \in DOMAIN endpoints \ {point} |-> endpoints[p]]
  /\ UNCHANGED <<g, unskippable, harddeps, phase>>

\* The next round, or the end of the chains.
NextRound ==
  /\ phase = "chains" /\ DOMAIN endpoints = {}
  /\ endpoints' = newendpoints /\ newendpoints' = NoPoints
  /\ \/ DOMAIN newendpoints # {} /\ UNCHANGED <<phase, unskippable>>
     \/ /\ DOMAIN newendpoints = {}
        /\ unskippable' = Roots(g) \cup g.cantskip
        /\ phase' = "unskippable"
  /\ UNCHANGED <<g, sq_revdeps, squash, collated, harddeps>>

\* One turn of `while new`.  Wrong variant: it goes on below setscene tasks.
GrowUnskippable_All ==
  /\ phase = "unskippable"
  /\ unskippable' = unskippable \cup UNION {g.depends[t] : t \in unskippable}
  /\ phase' = IF unskippable' = unskippable THEN "check" ELSE phase
  /\ UNCHANGED <<g, endpoints, newendpoints, sq_revdeps, squash, collated, harddeps>>

GrowUnskippable ==
  /\ phase = "unskippable"
  /\ unskippable' = unskippable \cup UNION {g.depends[t] : t \in unskippable \ g.setscene}
  /\ phase' = IF unskippable' = unskippable THEN "check" ELSE phase
  /\ UNCHANGED <<g, endpoints, newendpoints, sq_revdeps, squash, collated, harddeps>>

\* "Sanity check all dependencies could be changed to setscene task references"
Check ==
  /\ phase = "check"
  /\ phase' = IF \E t \in Normal(g) : squash[t] # {} THEN "fatal" ELSE "hard"
  /\ UNCHANGED <<g, endpoints, newendpoints, sq_revdeps, squash, collated, unskippable,
                 harddeps>>

\* One [depends] of a setscene task: its target is no longer held up by its users.
\* Wrong variant: it still is.
HardDep_Kept(s, d) ==
  /\ phase = "hard" /\ <<s, d>> \in g.hard /\ s \notin harddeps[d]
  /\ harddeps' = [harddeps EXCEPT ![d] = @ \cup {s}]
  /\ squash' = [squash EXCEPT ![s] = @ \cup {d}]
  /\ UNCHANGED <<g, endpoints, newendpoints, sq_revdeps, collated, unskippable, phase>>

HardDep(s, d) ==
  /\ phase = "hard" /\ <<s, d>> \in g.hard /\ s \notin harddeps[d]
  /\ harddeps' = [harddeps EXCEPT ![d] = @ \cup {s}]
  /\ squash' = [squash EXCEPT ![s] = @ \cup {d}, ![d] = {}]
  /\ UNCHANGED <<g, endpoints, newendpoints, sq_revdeps, collated, unskippable, phase>>

HardDepsRead ==
  /\ phase = "hard" /\ \A e \in g.hard : e[1] \in harddeps[e[2]]
  /\ phase' = "inject"
  /\ UNCHANGED <<g, endpoints, newendpoints, sq_revdeps, squash, collated, unskippable,
                 harddeps>>

\* Every hard dependency is put back: zeroing may have lost one that was read before.
\* Wrong variant: it is not.
Inject_Nothing ==
  /\ phase = "inject" /\ phase' = "built"
  /\ UNCHANGED <<g, endpoints, newendpoints, sq_revdeps, squash, collated, unskippable,
                 harddeps>>

Inject ==
  /\ phase = "inject"
  /\ squash' = [t \in Tasks(g) |-> squash[t] \cup {d \in g.setscene : t \in harddeps[d]}]
  /\ phase' = "built"
  /\ UNCHANGED <<g, endpoints, newendpoints, sq_revdeps, collated, unskippable, harddeps>>

Built == phase \in {"built", "fatal"} /\ UNCHANGED collapseVars

CollapseNext ==
  \/ \E p \in DOMAIN endpoints : Process(p)
  \/ NextRound \/ GrowUnskippable \/ Check
  \/ \E e \in g.hard : HardDep(e[1], e[2])
  \/ HardDepsRead \/ Inject \/ Built

CollapseSpec == CollapseInit /\ [][CollapseNext]_collapseVars

-----------------------------------------------------------------------------
\* "Something went badly wrong during scenequeue generation" (runqueue.py:2789) is never
\* said, whatever the graph and the order of the dict.
NeverFatal == phase # "fatal"

\* unskippable is what the build asks for itself, no more and no less.
UnskippableExact ==
  phase = "check" => unskippable = Wanted(g, Roots(g) \cup g.cantskip)

\* "to avoid circular dependencies" (runqueue.py:2822): in no set of setscene tasks does
\* each wait for another of them.
NoCircle ==
  phase = "built" =>
    \A S \in (SUBSET g.setscene) \ {{}} : \E s \in S : squash[s] \cap S = {}

\* What is handed to the run queue is what the graph says: each setscene task with the
\* tasks it covers and with its users, hard dependencies included.  The order of the dict
\* and the order in which the hard dependencies were read make no difference.
HandedOver ==
  phase = "built" =>
    \A s \in g.setscene : collated[s] = Covers(g, s) /\ squash[s] = SceneRevdeps(g, s)
=============================================================================

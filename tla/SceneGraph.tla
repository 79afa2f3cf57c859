----------------------------- MODULE SceneGraph -----------------------------
(***************************************************************************)
(* The task graph bitbake's run queue works on, and what the smaller graph *)
(* of setscene tasks is meant to say about it.  A setscene task restores   *)
(* the result of its task from the shared state instead of building it.    *)
(*                                                                         *)
(* A graph g has g.depends, from each task to the tasks it depends on (it  *)
(* has no cycle), g.setscene, the tasks with a setscene variant, and       *)
(* g.hard, the pairs of setscene tasks of which the first needs the second *)
(* to have been restored ([depends] flags of setscene tasks).              *)
(***************************************************************************)
Tasks(g) == DOMAIN g.depends
Normal(g) == Tasks(g) \ g.setscene
Revdeps(g, t) == {r \in Tasks(g) : t \in g.depends[r]}

\* The tasks below t, down to and including the first setscene task of each chain.
Below(g) ==
  LET below[t \in Tasks(g)] ==
        g.depends[t] \cup UNION {below[d] : d \in g.depends[t] \ g.setscene}
  IN  below

\* The normal tasks that need not be built once s is restored.
Covers(g, s) == Below(g)[s] \ g.setscene

\* The setscene tasks that would make s unneeded.
Users(g, s) == {u \in g.setscene : s \in Below(g)[u]}

\* The setscene tasks that go before s: those that would make it unneeded, or, if others
\* need it restored, none of them; and those it needs restored itself.
SceneRevdeps(g, s) ==
  (IF \E x \in g.setscene : <<x, s>> \in g.hard THEN {} ELSE Users(g, s))
    \cup {d \in g.setscene : <<s, d>> \in g.hard}

\* What the build asks for itself, down to the first setscene tasks.
Wanted(g, tops) == tops \cup UNION {Below(g)[t] : t \in tops \ g.setscene}

Roots(g) == {t \in Tasks(g) : Revdeps(g, t) = {}}

\* What is known of a graph when the run queue gets it.  There is no circle of
\* dependencies (calculate_task_weights ends the build if there is): among any tasks one
\* depends on none of them, and on one none of them depends.
Acyclic(g) ==
  \A S \in (SUBSET Tasks(g)) \ {{}} :
    /\ \E t \in S : g.depends[t] \cap S = {}
    /\ \E t \in S : Revdeps(g, t) \cap S = {}

\* Nor is there a circle of hard dependencies, which nothing looks for.
HardAcyclic(g) ==
  \A S \in (SUBSET g.setscene) \ {{}} : \E s \in S : \A d \in S : <<s, d>> \notin g.hard

IsGraph(g) ==
  /\ \A t \in Tasks(g) : g.depends[t] \subseteq Tasks(g)
  /\ g.setscene \subseteq Tasks(g)
  /\ g.hard \subseteq g.setscene \X g.setscene
  /\ Acyclic(g) /\ HardAcyclic(g)
=============================================================================

-------------------------- MODULE RunQueue_proofs --------------------------
(***************************************************************************)
(* What holds of SceneQueue and of RunQueue whatever the graphs and the    *)
(* builds, of any size.                                                    *)
(*                                                                         *)
(* The graphs have no circle (IsGraph), so of the tasks that something is  *)
(* wrong with there is a lowest and a highest (Lowest, Highest): this is   *)
(* the induction used throughout.  The recursive functions of the modules  *)
(* satisfy their equations because the least closed sets do (Reach, Leads, *)
(* and the L of DoneEquation).                                             *)
(*                                                                         *)
(* First the graphs; then build_scenequeue_data, which ends with the graph *)
(* that execute() starts from; then execute(): the order of the tasks, the *)
(* types, what is built beside what is restored, what is covered, and the  *)
(* end of the build.                                                       *)
(***************************************************************************)
EXTENDS RunQueue, SceneQueue, FiniteSetTheorems, TLAPS

USE DEF vars, sceneVars, queueVars, holdVars, runVars, history

\* The tasks below t, from outside: what every set has that is closed downwards.
Reach(h, t) ==
  {x \in Tasks(h) :
     \A S \in SUBSET Tasks(h) :
       /\ h.depends[t] \subseteq S
       /\ \A y \in S \ h.setscene : h.depends[y] \subseteq S
       => x \in S}

LEMMA ReachEquation ==
  ASSUME NEW h, IsGraph(h), NEW t \in Tasks(h)
  PROVE  Reach(h, t) = h.depends[t] \cup UNION {Reach(h, d) : d \in h.depends[t] \ h.setscene}
<1> DEFINE R == h.depends[t] \cup UNION {Reach(h, d) : d \in h.depends[t] \ h.setscene}
<1>1. h.depends[t] \subseteq Tasks(h)
  BY DEF IsGraph
<1>2. h.depends[t] \subseteq Reach(h, t)
  BY <1>1 DEF Reach
<1>3. ASSUME NEW d \in h.depends[t] \ h.setscene PROVE Reach(h, d) \subseteq Reach(h, t)
  BY <1>1 DEF Reach
<1>4. R \subseteq Reach(h, t)
  BY <1>2, <1>3
<1>5. R \in SUBSET Tasks(h)
  BY <1>1 DEF Reach
<1>6. ASSUME NEW y \in R \ h.setscene PROVE h.depends[y] \subseteq R
  <2>1. CASE y \in h.depends[t]
    <3>1. h.depends[y] \subseteq Reach(h, y)
      BY <1>1, <2>1 DEF Reach, IsGraph
    <3> QED BY <1>6, <2>1, <3>1
  <2>2. ASSUME NEW d \in h.depends[t] \ h.setscene, y \in Reach(h, d)
        PROVE  h.depends[y] \subseteq Reach(h, d)
    BY <1>6, <2>2 DEF Reach, IsGraph
  <2> QED BY <1>6, <2>1, <2>2
<1>7. Reach(h, t) \subseteq R
  BY <1>5, <1>6 DEF Reach
<1> QED BY <1>4, <1>7

LEMMA BelowEquation ==
  ASSUME NEW h, IsGraph(h)
  PROVE  \A t \in Tasks(h) :
           Below(h)[t] =
             h.depends[t] \cup UNION {Below(h)[d] : d \in h.depends[t] \ h.setscene}
<1> DEFINE Eqn(f) == f = [t \in Tasks(h) |->
            h.depends[t] \cup UNION {f[d] : d \in h.depends[t] \ h.setscene}]
           f0 == [t \in Tasks(h) |-> Reach(h, t)]
<1>1. Eqn(f0)
  <2>1. ASSUME NEW t \in Tasks(h)
        PROVE  f0[t] = h.depends[t] \cup UNION {f0[d] : d \in h.depends[t] \ h.setscene}
    <3>1. \A d \in h.depends[t] : f0[d] = Reach(h, d)
      BY DEF IsGraph
    <3>2. UNION {f0[d] : d \in h.depends[t] \ h.setscene}
            = UNION {Reach(h, d) : d \in h.depends[t] \ h.setscene}
      BY <3>1
    <3>3. f0[t] = Reach(h, t)
      OBVIOUS
    <3> QED BY <3>2, <3>3, ReachEquation
  <2> QED BY <2>1
<1> HIDE DEF f0
<1>2. Eqn(CHOOSE f : Eqn(f))
  <2> HIDE DEF Eqn
  <2> QED BY <1>1
<1>3. Below(h) = CHOOSE f : Eqn(f)
  BY DEF Below
<1>4. Eqn(Below(h))
  <2> HIDE DEF Eqn
  <2> QED BY <1>2, <1>3
<1> DEFINE B == Below(h)
<1>5. B = [t \in Tasks(h) |->
            h.depends[t] \cup UNION {B[d] : d \in h.depends[t] \ h.setscene}]
  BY <1>4
<1> HIDE DEF B
<1>6. \A t \in Tasks(h) :
        B[t] = h.depends[t] \cup UNION {B[d] : d \in h.depends[t] \ h.setscene}
  BY <1>5
<1> QED BY <1>6 DEF B

LEMMA BelowCases ==
  ASSUME NEW h, IsGraph(h), NEW t \in Tasks(h), NEW x
  PROVE  x \in Below(h)[t] <=>
           x \in h.depends[t] \/ \E d \in h.depends[t] \ h.setscene : x \in Below(h)[d]
BY BelowEquation

\* Of what does not hold of all tasks there is a lowest counterexample, and a highest.
LEMMA Lowest ==
  ASSUME NEW h, IsGraph(h), NEW T, T \subseteq Tasks(h), T # {}
  PROVE  \E t \in T : h.depends[t] \cap T = {}
BY DEF IsGraph, Acyclic

LEMMA Highest ==
  ASSUME NEW h, IsGraph(h), NEW T, T \subseteq Tasks(h), T # {}
  PROVE  \E t \in T : Revdeps(h, t) \cap T = {}
BY DEF IsGraph, Acyclic

LEMMA BelowTasks ==
  ASSUME NEW h, IsGraph(h), NEW t \in Tasks(h)
  PROVE  Below(h)[t] \subseteq Tasks(h)
<1> DEFINE T == {s \in Tasks(h) : ~(Below(h)[s] \subseteq Tasks(h))}
<1>1. SUFFICES ASSUME T # {} PROVE FALSE
  OBVIOUS
<1>2. PICK s \in T : h.depends[s] \cap T = {}
  BY <1>1, Lowest
<1>3. PICK x \in Below(h)[s] : x \notin Tasks(h)
  OBVIOUS
<1>4. h.depends[s] \subseteq Tasks(h)
  BY DEF IsGraph
<1>5. PICK d \in h.depends[s] : x \in Below(h)[d]
  BY <1>3, <1>4, BelowCases
<1> QED BY <1>2, <1>3, <1>4, <1>5

\* What is below a normal task that is below t is below t.
LEMMA BelowCloses ==
  ASSUME NEW h, IsGraph(h), NEW t \in Tasks(h), NEW y \in Below(h)[t] \ h.setscene
  PROVE  h.depends[y] \subseteq Below(h)[t]
<1> DEFINE T == {s \in Tasks(h) :
                   \E z \in Below(h)[s] \ h.setscene : ~(h.depends[z] \subseteq Below(h)[s])}
<1>1. SUFFICES ASSUME T # {} PROVE FALSE
  OBVIOUS
<1>2. PICK s \in T : h.depends[s] \cap T = {}
  BY <1>1, Lowest
<1>7. PICK z \in Below(h)[s] \ h.setscene : ~(h.depends[z] \subseteq Below(h)[s])
  OBVIOUS
<1>3. PICK x \in h.depends[z] : x \notin Below(h)[s]
  BY <1>7
<1>4. h.depends[s] \subseteq Tasks(h)
  BY DEF IsGraph
<1>5. CASE z \in h.depends[s]
  <2>1. x \in Below(h)[z]
    BY <1>3, <1>4, <1>5, BelowCases
  <2> QED BY <1>3, <1>5, <2>1, BelowCases
<1>6. CASE \E d \in h.depends[s] \ h.setscene : z \in Below(h)[d]
  <2>1. PICK d \in h.depends[s] \ h.setscene : z \in Below(h)[d]
    BY <1>6
  <2>2. x \in Below(h)[d]
    BY <1>2, <1>3, <1>4, <2>1
  <2> QED BY <1>3, <2>1, <2>2, BelowCases
<1> QED BY <1>3, <1>5, <1>6, BelowCases

\* What is below t is a dependency of t, or of a normal task below t.
LEMMA BelowVia ==
  ASSUME NEW h, IsGraph(h), NEW t \in Tasks(h), NEW x \in Below(h)[t]
  PROVE  x \in h.depends[t] \/ \E y \in Below(h)[t] \ h.setscene : x \in h.depends[y]
<1> DEFINE Edge(s) == UNION {h.depends[y] : y \in {s} \cup (Below(h)[s] \ h.setscene)}
           T == {s \in Tasks(h) : ~(Below(h)[s] \subseteq Edge(s))}
<1>1. SUFFICES ASSUME T # {} PROVE FALSE
  OBVIOUS
<1>2. PICK s \in T : h.depends[s] \cap T = {}
  BY <1>1, Lowest
<1>3. PICK z \in Below(h)[s] : z \notin Edge(s)
  OBVIOUS
<1>4. h.depends[s] \subseteq Tasks(h)
  BY DEF IsGraph
<1>5. PICK d \in h.depends[s] \ h.setscene : z \in Below(h)[d]
  BY <1>3, BelowCases
<1>6. z \in Edge(d)
  BY <1>2, <1>4, <1>5
<1>7. d \in Below(h)[s] /\ Below(h)[d] \subseteq Below(h)[s]
  BY <1>5, BelowCases
<1> QED BY <1>3, <1>5, <1>6, <1>7

\* What the build asks for is closed downwards, as far as the first setscene tasks.
LEMMA WantedCloses ==
  ASSUME NEW h, IsGraph(h), NEW tops, tops \subseteq Tasks(h)
  PROVE  /\ Wanted(h, tops) \subseteq Tasks(h)
         /\ \A y \in Wanted(h, tops) \ h.setscene : h.depends[y] \subseteq Wanted(h, tops)
<1>1. Wanted(h, tops) \subseteq Tasks(h)
  BY BelowTasks DEF Wanted
<1>2. ASSUME NEW y \in Wanted(h, tops) \ h.setscene, NEW x \in h.depends[y]
      PROVE  x \in Wanted(h, tops)
  <2>1. CASE y \in tops
    BY <1>2, <2>1, BelowCases DEF Wanted
  <2>2. ASSUME NEW t \in tops \ h.setscene, y \in Below(h)[t]
        PROVE  x \in Wanted(h, tops)
    BY <1>2, <2>2, BelowCloses DEF Wanted
  <2> QED BY <1>2, <2>1, <2>2 DEF Wanted
<1> QED BY <1>1, <1>2

\* A normal task that the build does not ask for itself is covered by a setscene task.
LEMMA WantedOrCovered ==
  ASSUME NEW h, IsGraph(h), NEW tops, Roots(h) \subseteq tops, tops \subseteq Tasks(h),
         NEW t \in Tasks(h), t \notin h.setscene, t \notin Wanted(h, tops)
  PROVE  \E s \in h.setscene : t \in Covers(h, s)
<1> DEFINE T == {x \in Tasks(h) \ (h.setscene \cup Wanted(h, tops)) :
                   \A s \in h.setscene : x \notin Covers(h, s)}
<1>1. SUFFICES ASSUME T # {} PROVE FALSE
  OBVIOUS
<1>2. PICK x \in T : Revdeps(h, x) \cap T = {}
  BY <1>1, Highest
<1>3. x \notin Roots(h)
  BY DEF Wanted
<1>4. PICK r \in Tasks(h) : x \in h.depends[r]
  BY <1>3 DEF Roots, Revdeps
<1>5. r \notin T
  BY <1>2, <1>4 DEF Revdeps
<1>6. CASE r \in h.setscene
  BY <1>4, <1>6, BelowCases DEF Covers
<1>7. CASE r \in Wanted(h, tops) \ h.setscene
  BY <1>4, <1>7, WantedCloses
<1>8. ASSUME NEW s \in h.setscene, r \in Covers(h, s) PROVE FALSE
  <2>1. s \in Tasks(h)
    BY DEF IsGraph
  <2>2. x \in Below(h)[s]
    BY <1>4, <1>8, <2>1, BelowCloses DEF Covers
  <2> QED BY <1>8, <2>2 DEF Covers
<1> QED BY <1>5, <1>6, <1>7, <1>8

\* No setscene tasks go before one another in a circle.
LEMMA NoneInCircle ==
  ASSUME NEW h, IsGraph(h), NEW S, S \subseteq h.setscene, S # {}
  PROVE  \E s \in S : SceneRevdeps(h, s) \cap S = {}
<1>1. S \subseteq Tasks(h)
  BY DEF IsGraph
<1> DEFINE H == {s \in S : \E x \in h.setscene : <<x, s>> \in h.hard}
<1>2. CASE H # {}
  <2>1. PICK s \in H : \A d \in H : <<s, d>> \notin h.hard
    BY <1>2 DEF IsGraph, HardAcyclic
  <2>2. SceneRevdeps(h, s) \cap S = {}
    <3>1. ASSUME NEW d \in S, <<s, d>> \in h.hard PROVE FALSE
      BY <2>1, <3>1
    <3> QED BY <2>1, <3>1 DEF SceneRevdeps
  <2> QED BY <2>2
<1>3. CASE H = {}
  <2> DEFINE T == S \cup UNION {Covers(h, u) : u \in S}
  <2>1. T \subseteq Tasks(h)
    BY <1>1, BelowTasks DEF Covers
  <2>2. PICK x \in T : Revdeps(h, x) \cap T = {}
    <3>1. T # {}
      OBVIOUS
    <3> QED BY <2>1, <3>1, Highest
  <2>3. ASSUME NEW u \in S, x \in Below(h)[u] PROVE FALSE
    <3>1. CASE x \in h.depends[u]
      BY <1>1, <2>2, <3>1 DEF Revdeps
    <3>2. ASSUME NEW y \in Below(h)[u] \ h.setscene, x \in h.depends[y] PROVE FALSE
      <4>1. y \in T
        BY <3>2 DEF Covers
      <4> QED BY <2>1, <2>2, <3>2, <4>1 DEF Revdeps
    <3> QED BY <1>1, <2>3, <3>1, <3>2, BelowVia
  <2>4. x \in S
    BY <2>2, <2>3 DEF Covers
  <2>5. ASSUME NEW d \in S, d \in SceneRevdeps(h, x) PROVE FALSE
    <3>1. <<x, d>> \notin h.hard
      BY <1>3, <2>4
    <3>2. d \in Users(h, x)
      BY <2>5, <3>1 DEF SceneRevdeps
    <3> QED BY <2>3, <2>5, <3>2 DEF Users
  <2> QED BY <2>4, <2>5
<1> QED BY <1>2, <1>3

-----------------------------------------------------------------------------
\* What is in the graphs that collapse, and what each variable is a set of.
GraphInv ==
  /\ IsGraph(g) /\ g.cantskip \subseteq Tasks(g)
  /\ DOMAIN endpoints \subseteq Tasks(g) /\ DOMAIN newendpoints \subseteq Tasks(g)
  /\ squash = [t \in Tasks(g) |-> squash[t]]
  /\ sq_revdeps = [t \in Tasks(g) |-> sq_revdeps[t]]
  /\ collated = [s \in g.setscene |-> collated[s]]
  /\ harddeps = [s \in g.setscene |-> harddeps[s]]

\* Nobody is taken for a user that is not one.
SoundInv ==
  /\ \A p \in DOMAIN endpoints : endpoints[p] \subseteq Users(g, p)
  /\ \A p \in DOMAIN newendpoints : newendpoints[p] \subseteq Users(g, p)
  /\ \A t \in Tasks(g) : squash[t] \subseteq Users(g, t)
  /\ \A t \in Tasks(g) : sq_revdeps[t] \subseteq Revdeps(g, t) \ g.setscene
  /\ \A s \in g.setscene : collated[s] \subseteq Covers(g, s)

Told(u, d) == u \in squash[d] \/ (d \notin g.setscene /\ d \in collated[u])
Pending == DOMAIN endpoints \cup DOMAIN newendpoints

\* Nothing gets lost: every dependency of a setscene task, and of a task it covers, has
\* heard of it, or will; and what has heard of somebody hands it on in the end.
KeptUsers ==
  /\ \A u \in g.setscene : \A d \in g.depends[u] :
       Told(u, d) \/ (d \in DOMAIN endpoints /\ u \in endpoints[d])
  /\ \A u \in g.setscene : \A r \in collated[u] : \A d \in g.depends[r] : Told(u, d)
  /\ \A d \in Normal(g) : squash[d] # {} => d \in Pending \/ sq_revdeps[d] # {}
  /\ \A d \in Tasks(g) : \A r \in sq_revdeps[d] : r \in Pending \/ sq_revdeps[r] # {}

Tops == Roots(g) \cup g.cantskip

\* The chains have been followed.
Followed ==
  /\ \A s \in g.setscene : squash[s] = Users(g, s)
  /\ \A t \in Normal(g) : squash[t] = {}

\* Hard dependencies as far as they have been read.
HardRead ==
  \A s \in g.setscene :
    LET read == {d \in g.setscene : s \in harddeps[d]}
        users == IF harddeps[s] = {} THEN Users(g, s) ELSE {}
    IN  users \subseteq squash[s] /\ squash[s] \subseteq users \cup read

CollapseInv ==
  /\ phase \in {"chains", "unskippable", "check", "hard", "inject", "built"}
  /\ GraphInv
  /\ phase = "chains" => SoundInv /\ KeptUsers
  /\ phase # "chains" =>
       /\ \A s \in g.setscene : collated[s] = Covers(g, s)
       /\ Tops \subseteq unskippable /\ unskippable \subseteq Wanted(g, Tops)
  /\ phase \in {"unskippable", "check"} => Followed
  /\ phase \notin {"chains", "unskippable"} =>
       \A t \in unskippable \ g.setscene : g.depends[t] \subseteq unskippable
  /\ phase \in {"chains", "unskippable", "check"} => \A d \in g.setscene : harddeps[d] = {}
  /\ \A d \in g.setscene : harddeps[d] \subseteq {s \in g.setscene : <<s, d>> \in g.hard}
  /\ phase \in {"hard", "inject"} => HardRead
  /\ phase \in {"inject", "built"} => \A e \in g.hard : e[1] \in harddeps[e[2]]
  /\ HandedOver

LEMMA UsersDown ==
  ASSUME NEW h, IsGraph(h), NEW t \in Tasks(h), NEW d \in h.depends[t]
  PROVE  /\ t \in h.setscene => t \in Users(h, d)
         /\ t \notin h.setscene => Users(h, t) \subseteq Users(h, d)
         /\ t \notin h.setscene => \A u \in Users(h, t) : t \in Covers(h, u)
         /\ d # t /\ d \in Tasks(h)
<1>1. h.setscene \subseteq Tasks(h) /\ d \in Tasks(h)
  BY DEF IsGraph
<1>2. d # t
  <2> DEFINE T == {t}
  <2>1. t \in T /\ T \subseteq Tasks(h)
    OBVIOUS
  <2>2. \A x \in T : x = t
    OBVIOUS
  <2> HIDE DEF T
  <2>3. PICK x \in T : h.depends[x] \cap T = {}
    BY <2>1, Lowest
  <2> QED BY <2>1, <2>2, <2>3
<1> QED BY <1>1, <1>2, BelowCases, BelowCloses DEF Users, Covers

LEMMA CollapseStart == CollapseInit => CollapseInv
<1> SUFFICES ASSUME CollapseInit PROVE CollapseInv
  OBVIOUS
<1>1. IsGraph(g) /\ g.cantskip \subseteq Tasks(g)
  BY SceneQueueAssumption DEF CollapseInit
<1> DEFINE P == (Roots(g) \ g.setscene) \cup UNION {g.depends[s] : s \in g.setscene}
<1>2. endpoints = [p \in P |-> Revdeps(g, p) \cap g.setscene]
  BY DEF CollapseInit, FirstEndpoints
<1>3. newendpoints = [p \in {} |-> {}]
  BY DEF CollapseInit, NoPoints
<1>4. P \subseteq Tasks(g)
  BY <1>1 DEF IsGraph, Roots
<1>5. GraphInv
  BY <1>1, <1>2, <1>3, <1>4 DEF CollapseInit, GraphInv
<1>6. SoundInv
  <2>1. ASSUME NEW p \in P PROVE Revdeps(g, p) \cap g.setscene \subseteq Users(g, p)
    BY <1>1, UsersDown DEF Revdeps
  <2> QED BY <1>2, <1>3, <2>1 DEF CollapseInit, SoundInv
<1>7. KeptUsers
  <2>1. ASSUME NEW u \in g.setscene, NEW d \in g.depends[u]
        PROVE  d \in DOMAIN endpoints /\ u \in endpoints[d]
    BY <1>1, <1>2 DEF IsGraph, Revdeps
  <2>2. ASSUME NEW r \in Normal(g) PROVE r \in P \/ Revdeps(g, r) \ g.setscene # {}
    BY <2>2 DEF Normal, Roots, Revdeps
  <2>3. \A d \in Tasks(g) : \A r \in sq_revdeps[d] : r \in Pending \/ sq_revdeps[r] # {}
    BY <1>2, <2>2 DEF CollapseInit, Pending, Revdeps, Normal
  <2>4. \A u \in g.setscene : collated[u] = {}
    BY DEF CollapseInit
  <2>5. \A d \in Normal(g) : squash[d] = {}
    BY DEF CollapseInit, Normal
  <2> QED BY <2>1, <2>3, <2>4, <2>5 DEF KeptUsers
<1>8. phase = "chains" /\ \A d \in g.setscene : harddeps[d] = {}
  BY DEF CollapseInit
<1> QED BY <1>5, <1>6, <1>7, <1>8 DEF CollapseInv, HandedOver

\* What one point changes.
LEMMA ScenePoint ==
  ASSUME GraphInv, SoundInv, KeptUsers, NEW p \in DOMAIN endpoints, Process(p),
         p \in g.setscene
  PROVE  GraphInv' /\ SoundInv' /\ KeptUsers'
<1>1. /\ squash' = [squash EXCEPT ![p] = endpoints[p] \cup squash[p]]
      /\ UNCHANGED <<g, newendpoints, sq_revdeps, collated, harddeps>>
      /\ endpoints' = [q \in DOMAIN endpoints \ {p} |-> endpoints[q]]
  BY DEF Process, PointOfSetscene, PointOfNormal, TasksOf
<1>2. p \in Tasks(g)
  BY DEF GraphInv
<1>3. \A t \in Tasks(g) : squash'[t] = IF t = p THEN endpoints[p] \cup squash[p] ELSE squash[t]
  BY <1>1, <1>2 DEF GraphInv
<1>4. squash' = [t \in Tasks(g) |-> squash'[t]]
  BY <1>1 DEF GraphInv
<1>5. /\ DOMAIN endpoints' = DOMAIN endpoints \ {p}
      /\ \A q \in DOMAIN endpoints' : endpoints'[q] = endpoints[q]
  BY <1>1
<1>6. GraphInv'
  BY <1>1, <1>4, <1>5 DEF GraphInv
<1>7. SoundInv'
  BY <1>1, <1>2, <1>3, <1>5 DEF SoundInv
<1>8. ASSUME NEW u, NEW d \in Tasks(g), Told(u, d) PROVE Told(u, d)'
  BY <1>1, <1>3, <1>8 DEF Told
<1>9. ASSUME NEW u \in g.setscene, NEW d \in g.depends[u]
      PROVE  Told(u, d)' \/ (d \in DOMAIN endpoints' /\ u \in endpoints'[d])
  <2>1. d \in Tasks(g)
    BY DEF GraphInv, IsGraph
  <2>2. CASE Told(u, d)
    BY <1>8, <2>1, <2>2
  <2>3. CASE d \in DOMAIN endpoints /\ u \in endpoints[d]
    <3>1. CASE d = p
      BY <1>2, <1>3, <2>3, <3>1 DEF Told
    <3>2. CASE d # p
      BY <1>5, <2>3, <3>2
    <3> QED BY <3>1, <3>2
  <2> QED BY <2>2, <2>3 DEF KeptUsers
<1>10. ASSUME NEW u \in g.setscene, NEW r \in collated[u], NEW d \in g.depends[r]
       PROVE  Told(u, d)'
  <2>1. d \in Tasks(g)
    BY BelowTasks DEF GraphInv, IsGraph, SoundInv, Covers
  <2> QED BY <1>8, <2>1 DEF KeptUsers
<1>11. \A r \in Normal(g) : r \in Pending => r \in Pending'
  BY <1>1, <1>5 DEF Pending, Normal
<1>12. \A d \in Normal(g) : squash'[d] = squash[d]
  BY <1>3 DEF Normal
<1>13. \A d \in Tasks(g) : sq_revdeps[d] \subseteq Normal(g)
  BY DEF SoundInv, Revdeps, Normal
<1>14. \A d \in Normal(g) : squash'[d] # {} => d \in Pending' \/ sq_revdeps'[d] # {}
  BY <1>1, <1>11, <1>12 DEF KeptUsers
<1>15. \A d \in Tasks(g) : \A r \in sq_revdeps'[d] : r \in Pending' \/ sq_revdeps'[r] # {}
  BY <1>1, <1>11, <1>13 DEF KeptUsers
<1>16. KeptUsers'
  BY <1>1, <1>9, <1>10, <1>14, <1>15 DEF KeptUsers, Normal
<1> QED BY <1>6, <1>7, <1>16

LEMMA NormalPoint ==
  ASSUME GraphInv, SoundInv, KeptUsers, NEW p \in DOMAIN endpoints, Process(p),
         p \notin g.setscene
  PROVE  GraphInv' /\ SoundInv' /\ KeptUsers'
<1> DEFINE users == endpoints[p] \cup squash[p]
           ready == {d \in g.depends[p] \ g.setscene : sq_revdeps'[d] = {}}
<1>1. /\ UNCHANGED <<g, harddeps>>
      /\ endpoints' = [q \in DOMAIN endpoints \ {p} |-> endpoints[q]]
      /\ squash' = [t \in Tasks(g) |->
           IF t = p THEN {} ELSE squash[t] \cup (IF t \in g.depends[p] THEN users ELSE {})]
      /\ collated' = [s \in g.setscene |-> collated[s] \cup (IF s \in users THEN {p} ELSE {})]
      /\ sq_revdeps' = [t \in Tasks(g) |->
           IF t \in g.depends[p] THEN sq_revdeps[t] \ {p} ELSE sq_revdeps[t]]
  BY DEF Process, PointOfSetscene, PointOfNormal, TasksOf, Collate, HandOn, Met
<1>2. newendpoints' = [q \in DOMAIN newendpoints \cup ready |->
                         IF q \in ready THEN endpoints[p] ELSE newendpoints[q]]
  BY DEF Process, PointOfSetscene, PointOfNormal, Met
<1>3. p \in Tasks(g) /\ p \in Normal(g) /\ IsGraph(g) /\ g.depends[p] \subseteq Tasks(g)
  BY DEF GraphInv, Normal, IsGraph
<1>4. users \subseteq Users(g, p) /\ users \subseteq g.setscene
  BY <1>3 DEF SoundInv, Users
<1>5. \A d \in g.depends[p] : d # p /\ users \subseteq Users(g, d)
  BY <1>3, <1>4, UsersDown
<1>6. \A t \in Tasks(g) :
        squash'[t] = IF t = p THEN {}
                     ELSE squash[t] \cup (IF t \in g.depends[p] THEN users ELSE {})
  BY <1>1
<1>7. \A s \in g.setscene : collated'[s] = collated[s] \cup (IF s \in users THEN {p} ELSE {})
  BY <1>1
<1>8. \A t \in Tasks(g) :
        sq_revdeps'[t] = IF t \in g.depends[p] THEN sq_revdeps[t] \ {p} ELSE sq_revdeps[t]
  BY <1>1
<1>9. /\ DOMAIN endpoints' = DOMAIN endpoints \ {p}
      /\ \A q \in DOMAIN endpoints' : endpoints'[q] = endpoints[q]
      /\ DOMAIN newendpoints' = DOMAIN newendpoints \cup ready
      /\ \A q \in DOMAIN newendpoints' :
           newendpoints'[q] = IF q \in ready THEN endpoints[p] ELSE newendpoints[q]
  BY <1>1, <1>2
<1>10. ready \subseteq g.depends[p] /\ ready \subseteq Tasks(g)
  BY <1>3
<1>11. GraphInv'
  BY <1>1, <1>9, <1>10 DEF GraphInv
<1> HIDE DEF ready
<1>12. SoundInv'
  <2>1. \A q \in DOMAIN endpoints' : endpoints'[q] \subseteq Users(g, q)
    BY <1>9 DEF SoundInv
  <2>2. ASSUME NEW q \in DOMAIN newendpoints' PROVE newendpoints'[q] \subseteq Users(g, q)
    <3>1. CASE q \in ready
      BY <1>5, <1>9, <1>10, <3>1
    <3>2. CASE q \notin ready
      BY <1>9, <3>2 DEF SoundInv
    <3> QED BY <3>1, <3>2
  <2>3. \A t \in Tasks(g) : squash'[t] \subseteq Users(g, t)
    BY <1>5, <1>6 DEF SoundInv
  <2>4. \A t \in Tasks(g) : sq_revdeps'[t] \subseteq Revdeps(g, t) \ g.setscene
    BY <1>8 DEF SoundInv
  <2>5. \A s \in g.setscene : collated'[s] \subseteq Covers(g, s)
    BY <1>3, <1>4, <1>7 DEF SoundInv, Users, Covers
  <2> QED BY <1>1, <2>1, <2>2, <2>3, <2>4, <2>5 DEF SoundInv
<1>13. ASSUME NEW u \in g.setscene, NEW d \in Tasks(g), Told(u, d) PROVE Told(u, d)'
  <2>1. CASE d = p
    BY <1>1, <1>3, <1>7, <1>13, <2>1 DEF Told
  <2>2. CASE d # p
    BY <1>1, <1>6, <1>7, <1>13, <2>2 DEF Told
  <2> QED BY <2>1, <2>2
<1>14. ASSUME NEW u \in g.setscene, NEW d \in g.depends[u]
       PROVE  Told(u, d)' \/ (d \in DOMAIN endpoints' /\ u \in endpoints'[d])
  <2>1. d \in Tasks(g)
    BY DEF GraphInv, IsGraph
  <2>2. CASE Told(u, d)
    BY <1>13, <2>1, <2>2
  <2>3. CASE d \in DOMAIN endpoints /\ u \in endpoints[d]
    <3>1. CASE d = p
      BY <1>1, <1>7, <2>3, <3>1 DEF Told
    <3>2. CASE d # p
      BY <1>9, <2>3, <3>2
    <3> QED BY <3>1, <3>2
  <2> QED BY <2>2, <2>3 DEF KeptUsers
<1>15. ASSUME NEW u \in g.setscene, NEW r \in collated'[u], NEW d \in g.depends[r]
       PROVE  Told(u, d)'
  <2>1. d \in Tasks(g)
    BY <1>3, <1>12, <1>1, BelowTasks DEF GraphInv, IsGraph, SoundInv, Covers
  <2>2. CASE r \in collated[u]
    BY <1>13, <2>1, <2>2 DEF KeptUsers
  <2>3. CASE r = p /\ u \in users
    BY <1>5, <1>6, <2>1, <2>3 DEF Told
  <2> QED BY <1>7, <2>2, <2>3
<1>16. ASSUME NEW r \in Normal(g), r # p, r \in Pending \/ sq_revdeps[r] # {}
       PROVE  r \in Pending' \/ sq_revdeps'[r] # {}
  <2>1. CASE r \in Pending
    BY <1>9, <1>16, <2>1 DEF Pending
  <2>2. CASE sq_revdeps[r] # {} /\ r \notin g.depends[p]
    BY <1>8, <2>2 DEF Normal
  <2>3. CASE r \in g.depends[p]
    <3>1. r \in ready \/ sq_revdeps'[r] # {}
      BY <2>3 DEF Normal, ready
    <3> QED BY <1>9, <3>1 DEF Pending
  <2> QED BY <1>16, <2>1, <2>2, <2>3
<1>17. ASSUME NEW d \in Normal(g), squash'[d] # {}
       PROVE  d \in Pending' \/ sq_revdeps'[d] # {}
  <2>1. d # p /\ d \in Tasks(g)
    BY <1>3, <1>6, <1>17 DEF Normal
  <2>2. CASE squash[d] # {}
    BY <1>16, <2>1, <2>2 DEF KeptUsers
  <2>3. CASE d \in g.depends[p]
    <3>1. d \in ready \/ sq_revdeps'[d] # {}
      BY <2>3 DEF Normal, ready
    <3> QED BY <1>9, <3>1 DEF Pending
  <2> QED BY <1>6, <1>17, <2>1, <2>2, <2>3
<1>18. ASSUME NEW d \in Tasks(g), NEW r \in sq_revdeps'[d]
       PROVE  r \in Pending' \/ sq_revdeps'[r] # {}
  <2>1. r \in sq_revdeps[d]
    BY <1>8
  <2>2. r \in Normal(g) /\ d \in g.depends[r]
    BY <2>1 DEF SoundInv, Revdeps, Normal
  <2>3. r # p
    BY <1>8, <2>2
  <2> QED BY <1>16, <2>1, <2>2, <2>3 DEF KeptUsers
<1>19. KeptUsers'
  BY <1>1, <1>14, <1>15, <1>17, <1>18 DEF KeptUsers, Normal
<1> QED BY <1>11, <1>12, <1>19

\* At the end of the chains everything has been met, from the top down.
LEMMA AllMet ==
  ASSUME GraphInv, SoundInv, KeptUsers, DOMAIN endpoints = {}, DOMAIN newendpoints = {}
  PROVE  \A t \in Tasks(g) : sq_revdeps[t] = {}
<1> DEFINE T == {r \in Normal(g) : sq_revdeps[r] # {}}
<1>1. IsGraph(g) /\ T \subseteq Tasks(g)
  BY DEF GraphInv, Normal
<1>2. ASSUME NEW d \in Tasks(g), NEW r \in sq_revdeps[d] PROVE r \in T /\ r \in Revdeps(g, d)
  <2>1. r \in Revdeps(g, d) /\ r \in Normal(g)
    BY DEF SoundInv, Revdeps, Normal
  <2> QED BY <2>1 DEF KeptUsers, Pending
<1>3. T = {}
  <2>1. SUFFICES ASSUME T # {} PROVE FALSE
    OBVIOUS
  <2>2. PICK t \in T : Revdeps(g, t) \cap T = {}
    <3> HIDE DEF T
    <3> QED BY <1>1, <2>1, Highest
  <2> QED BY <1>1, <1>2, <2>2
<1> QED BY <1>2, <1>3

\* So every setscene task knows its users and what it covers, and no normal task has
\* anything left to hand on.
LEMMA ChainsEnd ==
  ASSUME GraphInv, SoundInv, KeptUsers, DOMAIN endpoints = {}, DOMAIN newendpoints = {}
  PROVE  Followed /\ \A s \in g.setscene : collated[s] = Covers(g, s)
<1>1. \A t \in Normal(g) : squash[t] = {}
  BY AllMet DEF KeptUsers, Pending, Normal
<1>2. IsGraph(g) /\ g.setscene \subseteq Tasks(g)
  BY DEF GraphInv, IsGraph
<1>3. ASSUME NEW u \in g.setscene, NEW x \in Below(g)[u]
      PROVE  IF x \in g.setscene THEN u \in squash[x] ELSE x \in collated[u]
  <2> DEFINE T == {t \in Below(g)[u] :
                     ~(IF t \in g.setscene THEN u \in squash[t] ELSE t \in collated[u])}
  <2>1. SUFFICES ASSUME T # {} PROVE FALSE
    OBVIOUS
  <2>2. T \subseteq Tasks(g) /\ u \in Tasks(g)
    BY <1>2, BelowTasks
  <2>3. PICK t \in T : Revdeps(g, t) \cap T = {}
    <3> HIDE DEF T
    <3> QED BY <1>2, <2>1, <2>2, Highest
  <2>4. t \in Below(g)[u] /\ t \in Tasks(g)
    BY <2>2
  <2>5. Told(u, t)
    <3>1. CASE t \in g.depends[u]
      BY <3>1 DEF KeptUsers
    <3>2. ASSUME NEW y \in Below(g)[u] \ g.setscene, t \in g.depends[y] PROVE Told(u, t)
      <4>1. y \in Tasks(g) /\ y \notin T
        BY <1>2, <2>2, <2>3, <3>2, BelowTasks DEF Revdeps
      <4>2. y \in collated[u]
        BY <3>2, <4>1
      <4> QED BY <3>2, <4>2 DEF KeptUsers
    <3> QED BY <1>2, <2>2, <2>4, <3>1, <3>2, BelowVia
  <2> QED BY <1>1, <2>3, <2>4, <2>5 DEF Told, Normal
<1>4. \A s \in g.setscene : squash[s] = Users(g, s)
  BY <1>2, <1>3 DEF SoundInv, Users
<1>5. \A s \in g.setscene : collated[s] = Covers(g, s)
  BY <1>3 DEF SoundInv, Covers
<1> QED BY <1>1, <1>4, <1>5 DEF Followed

LEMMA RoundStep ==
  ASSUME CollapseInv, NextRound
  PROVE  CollapseInv'
<1>1. /\ phase = "chains" /\ GraphInv /\ SoundInv /\ KeptUsers /\ DOMAIN endpoints = {}
      /\ UNCHANGED <<g, sq_revdeps, squash, collated, harddeps>>
      /\ endpoints' = newendpoints /\ newendpoints' = [p \in {} |-> {}]
  BY DEF CollapseInv, NextRound, NoPoints
<1>2. GraphInv'
  BY <1>1 DEF GraphInv
<1>3. DOMAIN newendpoints' = {}
  BY <1>1
<1>4. \A d \in g.setscene : harddeps[d] = {}
  BY <1>1 DEF CollapseInv
<1>5. CASE UNCHANGED <<phase, unskippable>>
  <2>1. SoundInv'
    BY <1>1, <1>3 DEF SoundInv
  <2>2. Pending' = Pending
    BY <1>1, <1>3 DEF Pending
  <2>3. \A u, d : Told(u, d)' = Told(u, d)
    BY <1>1 DEF Told
  <2>4. KeptUsers'
    BY <1>1, <2>2, <2>3 DEF KeptUsers, Normal
  <2> QED BY <1>1, <1>2, <1>4, <1>5, <2>1, <2>4 DEF CollapseInv, HandedOver
<1>6. CASE /\ DOMAIN newendpoints = {} /\ phase' = "unskippable"
           /\ unskippable' = Roots(g) \cup g.cantskip
  <2>1. Followed /\ \A s \in g.setscene : collated[s] = Covers(g, s)
    BY <1>1, <1>6, ChainsEnd
  <2>2. Followed'
    BY <1>1, <2>1 DEF Followed, Normal
  <2>3. Tops' = Tops /\ unskippable' = Tops /\ Tops \subseteq Wanted(g, Tops)
    BY <1>1, <1>6 DEF Tops, Wanted
  <2> QED BY <1>1, <1>2, <1>4, <1>6, <2>1, <2>2, <2>3 DEF CollapseInv, HandedOver
<1> QED BY <1>5, <1>6 DEF NextRound

LEMMA ProcessStep ==
  ASSUME CollapseInv, NEW p \in DOMAIN endpoints, Process(p)
  PROVE  CollapseInv'
<1>1. /\ phase = "chains" /\ GraphInv /\ SoundInv /\ KeptUsers
      /\ UNCHANGED <<g, unskippable, harddeps, phase>>
  BY DEF CollapseInv, Process
<1>2. GraphInv' /\ SoundInv' /\ KeptUsers'
  BY <1>1, ScenePoint, NormalPoint
<1> QED BY <1>1, <1>2 DEF CollapseInv, HandedOver

LEMMA GrowStep ==
  ASSUME CollapseInv, GrowUnskippable
  PROVE  CollapseInv'
<1>1. /\ phase = "unskippable" /\ GraphInv /\ Followed
      /\ UNCHANGED <<g, endpoints, newendpoints, sq_revdeps, squash, collated, harddeps>>
      /\ unskippable' = unskippable \cup UNION {g.depends[t] : t \in unskippable \ g.setscene}
  BY DEF CollapseInv, GrowUnskippable
<1>2. (phase' = "check" /\ unskippable' = unskippable) \/ phase' = "unskippable"
  BY <1>1 DEF GrowUnskippable
<1>3. GraphInv' /\ Followed'
  BY <1>1 DEF GraphInv, Followed, Normal
<1>4. Tops' = Tops /\ Tops \subseteq Tasks(g)
  BY <1>1 DEF Tops, GraphInv, Roots
<1>5. Tops' \subseteq unskippable' /\ unskippable' \subseteq Wanted(g, Tops)
  BY <1>1, <1>4, WantedCloses DEF CollapseInv, GraphInv
<1>6. phase' = "check" =>
        \A t \in unskippable' \ g.setscene : g.depends[t] \subseteq unskippable'
  BY <1>1, <1>2
<1> QED BY <1>1, <1>2, <1>3, <1>4, <1>5, <1>6 DEF CollapseInv, HandedOver

LEMMA CheckStep ==
  ASSUME CollapseInv, Check
  PROVE  CollapseInv'
<1>1. /\ phase = "check" /\ Followed /\ GraphInv
      /\ UNCHANGED <<g, endpoints, newendpoints, sq_revdeps, squash, collated, unskippable,
                     harddeps>>
  BY DEF CollapseInv, Check
<1>2. phase' = "hard"
  BY <1>1 DEF Check, Followed
<1>3. GraphInv' /\ Tops' = Tops
  BY <1>1 DEF GraphInv, Tops
<1>4. \A d \in g.setscene : harddeps[d] = {}
  BY <1>1 DEF CollapseInv
<1>5. HardRead'
  BY <1>1, <1>4 DEF HardRead, Followed
<1> QED BY <1>1, <1>2, <1>3, <1>5 DEF CollapseInv, HandedOver

LEMMA HardStep ==
  ASSUME CollapseInv, NEW s, NEW d, HardDep(s, d)
  PROVE  CollapseInv'
<1>1. /\ phase = "hard" /\ phase' = phase /\ GraphInv /\ HardRead /\ <<s, d>> \in g.hard
      /\ UNCHANGED <<g, endpoints, newendpoints, sq_revdeps, collated, unskippable>>
      /\ harddeps' = [harddeps EXCEPT ![d] = @ \cup {s}]
      /\ squash' = [squash EXCEPT ![s] = @ \cup {d}, ![d] = {}]
  BY DEF CollapseInv, HardDep
<1>2. s \in g.setscene /\ d \in g.setscene /\ g.setscene \subseteq Tasks(g)
  BY <1>1 DEF GraphInv, IsGraph
<1>3. \A x \in g.setscene : harddeps'[x] = IF x = d THEN harddeps[d] \cup {s} ELSE harddeps[x]
  BY <1>1, <1>2 DEF GraphInv
<1>4. \A x \in g.setscene :
        squash'[x] = IF x = d THEN {} ELSE IF x = s THEN squash[s] \cup {d} ELSE squash[x]
  BY <1>1, <1>2 DEF GraphInv
<1>5. GraphInv' /\ Tops' = Tops
  BY <1>1 DEF GraphInv, Tops
<1>6. HardRead'
  <2> DEFINE read(x) == {y \in g.setscene : x \in harddeps[y]}
             readNext(x) == {y \in g.setscene : x \in harddeps'[y]}
             users(x) == IF harddeps[x] = {} THEN Users(g, x) ELSE {}
             usersNext(x) == IF harddeps'[x] = {} THEN Users(g, x) ELSE {}
  <2>1. ASSUME NEW x \in g.setscene
        PROVE  /\ usersNext(x) \subseteq squash'[x]
               /\ squash'[x] \subseteq usersNext(x) \cup readNext(x)
    <3>1. users(x) \subseteq squash[x] /\ squash[x] \subseteq users(x) \cup read(x)
      BY <1>1 DEF HardRead
    <3>2. read(x) \subseteq readNext(x) /\ (x = s => d \in readNext(x))
      BY <1>2, <1>3
    <3>3. CASE x = d
      BY <1>2, <1>3, <1>4, <3>3
    <3>4. CASE x # d
      <4>1. usersNext(x) = users(x)
        BY <1>3, <3>4
      <4> HIDE DEF users, usersNext, read, readNext
      <4> QED BY <1>4, <3>1, <3>2, <3>4, <4>1
    <3> QED BY <3>3, <3>4
  <2> QED BY <1>1, <2>1 DEF HardRead
<1>7. \A x \in g.setscene : harddeps'[x] \subseteq {y \in g.setscene : <<y, x>> \in g.hard}
  BY <1>1, <1>2, <1>3 DEF CollapseInv
<1> QED BY <1>1, <1>5, <1>6, <1>7 DEF CollapseInv, HandedOver

LEMMA HardDepsReadStep ==
  ASSUME CollapseInv, HardDepsRead
  PROVE  CollapseInv'
<1>1. /\ phase = "hard" /\ phase' = "inject" /\ GraphInv /\ HardRead
      /\ UNCHANGED <<g, endpoints, newendpoints, sq_revdeps, squash, collated, unskippable,
                     harddeps>>
      /\ \A e \in g.hard : e[1] \in harddeps[e[2]]
  BY DEF CollapseInv, HardDepsRead
<1>2. GraphInv' /\ HardRead' /\ Tops' = Tops
  BY <1>1 DEF GraphInv, HardRead, Tops
<1> QED BY <1>1, <1>2 DEF CollapseInv, HandedOver

LEMMA InjectStep ==
  ASSUME CollapseInv, Inject
  PROVE  CollapseInv'
<1>1. /\ phase = "inject" /\ phase' = "built" /\ GraphInv /\ HardRead
      /\ UNCHANGED <<g, endpoints, newendpoints, sq_revdeps, collated, unskippable, harddeps>>
      /\ squash' = [t \in Tasks(g) |-> squash[t] \cup {d \in g.setscene : t \in harddeps[d]}]
      /\ \A e \in g.hard : e[1] \in harddeps[e[2]]
  BY DEF CollapseInv, Inject
<1>2. GraphInv' /\ Tops' = Tops
  BY <1>1 DEF GraphInv, Tops
<1>3. \A d \in g.setscene : \A s \in g.setscene : s \in harddeps[d] <=> <<s, d>> \in g.hard
  <2>1. \A d \in g.setscene : harddeps[d] \subseteq {s \in g.setscene : <<s, d>> \in g.hard}
    BY DEF CollapseInv
  <2>2. ASSUME NEW d \in g.setscene, NEW s \in g.setscene, <<s, d>> \in g.hard
        PROVE  s \in harddeps[d]
    BY <1>1, <2>2
  <2> QED BY <2>1, <2>2
<1>4. ASSUME NEW s \in g.setscene PROVE squash'[s] = SceneRevdeps(g, s)
  <2> DEFINE read == {d \in g.setscene : s \in harddeps[d]}
             users == IF harddeps[s] = {} THEN Users(g, s) ELSE {}
  <2>1. users \subseteq squash[s] /\ squash[s] \subseteq users \cup read
    BY <1>1 DEF HardRead
  <2>2. s \in Tasks(g) /\ squash'[s] = squash[s] \cup read
    BY <1>1 DEF GraphInv, IsGraph
  <2>3. read = {d \in g.setscene : <<s, d>> \in g.hard}
    BY <1>3
  <2>4. harddeps[s] = {} <=> ~\E x \in g.setscene : <<x, s>> \in g.hard
    <3>1. harddeps[s] \subseteq g.setscene
      BY DEF CollapseInv
    <3> QED BY <1>3, <3>1
  <2>5. users = IF \E x \in g.setscene : <<x, s>> \in g.hard THEN {} ELSE Users(g, s)
    BY <2>4
  <2> HIDE DEF users, read
  <2>6. squash'[s] = users \cup read
    BY <2>1, <2>2
  <2> QED BY <2>3, <2>5, <2>6 DEF SceneRevdeps
<1>5. HandedOver'
  BY <1>1, <1>4 DEF CollapseInv, HandedOver
<1> QED BY <1>1, <1>2, <1>5 DEF CollapseInv

LEMMA CollapseStep == CollapseInv /\ [CollapseNext]_collapseVars => CollapseInv'
<1> SUFFICES ASSUME CollapseInv, [CollapseNext]_collapseVars PROVE CollapseInv'
  OBVIOUS
<1>1. CASE UNCHANGED collapseVars
  <2>1. UNCHANGED <<g, endpoints, newendpoints, sq_revdeps, squash, collated, unskippable,
                    harddeps, phase>>
    BY <1>1 DEF collapseVars
  <2>2. \A u, d : Told(u, d)' = Told(u, d)
    BY <2>1 DEF Told
  <2>3. /\ GraphInv' = GraphInv /\ SoundInv' = SoundInv /\ KeptUsers' = KeptUsers
        /\ Followed' = Followed /\ HardRead' = HardRead /\ Tops' = Tops
        /\ HandedOver' = HandedOver
    BY <2>1, <2>2 DEF GraphInv, SoundInv, KeptUsers, Pending, Followed, HardRead, Tops,
                      HandedOver, Normal
  <2> QED BY <2>1, <2>3 DEF CollapseInv
<1>2. CASE Built
  BY <1>1, <1>2 DEF Built
<1> QED
  BY <1>1, <1>2, ProcessStep, RoundStep, GrowStep, CheckStep, HardStep, HardDepsReadStep,
     InjectStep DEF CollapseNext

\* The invariant of the collapse, phase by phase: what has been handed on, what is still
\* to be, and what that comes to.
THEOREM CollapseHolds == CollapseSpec => []CollapseInv
  BY CollapseStart, CollapseStep, PTL DEF CollapseSpec

\* What is closed downwards, as far as setscene tasks, has all that the build asks for.
LEMMA WantedLeast ==
  ASSUME NEW h, IsGraph(h), NEW tops, tops \subseteq Tasks(h),
         NEW U, tops \subseteq U, \A t \in U \ h.setscene : h.depends[t] \subseteq U
  PROVE  Wanted(h, tops) \subseteq U
<1>1. ASSUME NEW t \in tops \ h.setscene, NEW x \in Below(h)[t] PROVE x \in U
  <2> DEFINE T == {y \in Below(h)[t] : y \notin U}
  <2>1. SUFFICES ASSUME T # {} PROVE FALSE
    OBVIOUS
  <2>2. t \in Tasks(h) /\ T \subseteq Tasks(h)
    BY BelowTasks
  <2>3. PICK y \in T : Revdeps(h, y) \cap T = {}
    <3> HIDE DEF T
    <3> QED BY <2>1, <2>2, Highest
  <2>4. y \in h.depends[t] \/ \E z \in Below(h)[t] \ h.setscene : y \in h.depends[z]
    BY <2>2, <2>3, BelowVia
  <2>5. ASSUME NEW z \in Below(h)[t] \ h.setscene, y \in h.depends[z] PROVE FALSE
    <3>1. z \in Tasks(h) /\ z \in Revdeps(h, y)
      BY <2>2, <2>5, BelowTasks DEF Revdeps
    <3> QED BY <2>3, <2>5, <3>1
  <2> QED BY <1>1, <2>3, <2>4, <2>5
<1> QED BY <1>1 DEF Wanted

LEMMA UnskippableIs ==
  ASSUME CollapseInv, phase \notin {"chains", "unskippable"}
  PROVE  unskippable = Wanted(g, Tops)
<1>1. Tops \subseteq Tasks(g) /\ IsGraph(g)
  BY DEF CollapseInv, GraphInv, Tops, Roots
<1> QED BY <1>1, WantedLeast DEF CollapseInv

\* "Something went badly wrong during scenequeue generation" is said of no graph.
THEOREM NeverSaid == CollapseSpec => []NeverFatal
<1>1. CollapseInv => NeverFatal
  BY DEF CollapseInv, NeverFatal
<1> QED BY <1>1, CollapseHolds, PTL

\* The tasks found unskippable are those the build asks for itself, in any graph.
THEOREM Exact == CollapseSpec => []UnskippableExact
<1>1. CollapseInv => UnskippableExact
  BY UnskippableIs DEF UnskippableExact, Tops
<1> QED BY <1>1, CollapseHolds, PTL

\* What is handed to the run queue is what the graph says, whatever the graph, the order
\* of the dict and the order in which the hard dependencies were read.
THEOREM Collapses == CollapseSpec => []HandedOver
<1>1. CollapseInv => HandedOver
  BY DEF CollapseInv
<1> QED BY <1>1, CollapseHolds, PTL

\* No setscene tasks wait for one another in a circle, in any graph.
THEOREM Circleless == CollapseSpec => []NoCircle
<1>1. CollapseInv => NoCircle
  <2> SUFFICES ASSUME CollapseInv, phase = "built", NEW S \in (SUBSET g.setscene) \ {{}}
               PROVE  \E s \in S : squash[s] \cap S = {}
    BY DEF NoCircle
  <2>1. IsGraph(g) /\ S \subseteq g.setscene /\ S # {}
    BY DEF CollapseInv, GraphInv
  <2>2. PICK s \in S : SceneRevdeps(g, s) \cap S = {}
    BY <2>1, NoneInCircle
  <2> QED BY <2>1, <2>2 DEF CollapseInv, HandedOver
<1> QED BY <1>1, CollapseHolds, PTL

-----------------------------------------------------------------------------
\* How the two modules fit together: the same graph, with what was asked for.
LEMMA BelowSame ==
  ASSUME NEW h, NEW k, IsGraph(h), IsGraph(k), h.depends = k.depends, h.setscene = k.setscene,
         NEW t \in Tasks(h)
  PROVE  Below(h)[t] = Below(k)[t]
<1> DEFINE T == {x \in Tasks(h) : Below(h)[x] # Below(k)[x]}
<1>1. SUFFICES ASSUME T # {} PROVE FALSE
  OBVIOUS
<1>2. PICK x \in T : h.depends[x] \cap T = {}
  <2> HIDE DEF T
  <2>1. T \subseteq Tasks(h)
    BY DEF T
  <2> QED BY <1>1, <2>1, Lowest
<1>3. x \in Tasks(h) /\ x \in Tasks(k) /\ h.depends[x] \subseteq Tasks(h)
  BY DEF Tasks, IsGraph
<1>4. ASSUME NEW y PROVE y \in Below(h)[x] <=> y \in Below(k)[x]
  <2>1. y \in Below(h)[x] <=>
          y \in h.depends[x] \/ \E d \in h.depends[x] \ h.setscene : y \in Below(h)[d]
    BY <1>3, BelowCases
  <2>2. y \in Below(k)[x] <=>
          y \in h.depends[x] \/ \E d \in h.depends[x] \ h.setscene : y \in Below(k)[d]
    BY <1>3, BelowCases
  <2>3. \A d \in h.depends[x] : Below(h)[d] = Below(k)[d]
    BY <1>2, <1>3
  <2> QED BY <2>1, <2>2, <2>3
<1>5. Below(h)[x] = Below(k)[x]
  BY <1>4
<1> QED BY <1>2, <1>5

IsOf(build) ==
  /\ IsBuild(build) /\ build.depends = g.depends /\ build.setscene = g.setscene
  /\ build.hard = g.hard /\ build.targets \ build.setscene = g.cantskip

Handed ==
  [revdeps |-> [s \in g.setscene |-> squash[s]],
   deps    |-> [s \in g.setscene |-> {d \in g.setscene : s \in squash[d]}],
   hard    |-> harddeps,
   covered |-> collated,
   unskippable |-> unskippable]

LEMMA SQDataSame ==
  ASSUME CollapseInv, phase = "built", NEW build, IsOf(build)
  PROVE  SQDataOf(build) = Handed
<1>1. IsGraph(g) /\ IsGraph(build) /\ Tasks(build) = Tasks(g) /\ Normal(build) = Normal(g)
      /\ g.setscene \subseteq Tasks(g) /\ Roots(build) = Roots(g)
  BY DEF CollapseInv, GraphInv, IsOf, IsBuild, IsGraph, Tasks, Normal, Roots, Revdeps
<1>2. \A t \in Tasks(g) : Below(build)[t] = Below(g)[t]
  BY <1>1, BelowSame DEF IsOf
<1>3. \A s \in g.setscene : Users(build, s) = Users(g, s) /\ Covers(build, s) = Covers(g, s)
  BY <1>1, <1>2 DEF Users, Covers, IsOf
<1>4. \A s \in g.setscene :
        SceneRevdeps(build, s) = squash[s] /\ Covers(build, s) = collated[s]
  BY <1>3 DEF SceneRevdeps, IsOf, CollapseInv, HandedOver
<1>5. SQDataOf(build).unskippable = unskippable
  <2>1. Roots(build) \cup (build.targets \ build.setscene) = Tops
    BY <1>1 DEF Tops, IsOf
  <2>2. Tops \subseteq Tasks(g)
    BY DEF Tops, CollapseInv, GraphInv, Roots
  <2>3. Wanted(build, Tops) = Wanted(g, Tops)
    BY <1>2, <2>2 DEF Wanted, IsOf
  <2> QED BY <2>1, <2>3, UnskippableIs DEF SQDataOf
<1>6. harddeps = [s \in g.setscene |-> {d \in g.setscene : <<d, s>> \in g.hard}]
  <2>1. harddeps = [s \in g.setscene |-> harddeps[s]]
    BY DEF CollapseInv, GraphInv
  <2>2. ASSUME NEW s \in g.setscene
        PROVE  harddeps[s] = {d \in g.setscene : <<d, s>> \in g.hard}
    <3>1. harddeps[s] \subseteq {d \in g.setscene : <<d, s>> \in g.hard}
      BY DEF CollapseInv
    <3>2. ASSUME NEW d \in g.setscene, <<d, s>> \in g.hard PROVE d \in harddeps[s]
      BY <3>2 DEF CollapseInv
    <3> QED BY <3>1, <3>2
  <2> QED BY <2>1, <2>2
<1>7. collated = [s \in g.setscene |-> collated[s]]
  BY DEF CollapseInv, GraphInv
<1> QED BY <1>4, <1>5, <1>6, <1>7 DEF SQDataOf, Handed, IsOf

\* The setscene tasks execute() is given are those build_scenequeue_data makes of the
\* graph of the build: what RunQueue starts from is what SceneQueue ends with.
THEOREM QueuesMeet ==
  CollapseSpec => [](phase = "built" => \A build : IsOf(build) => SQDataOf(build) = Handed)
<1>1. CollapseInv => (phase = "built" => \A build : IsOf(build) => SQDataOf(build) = Handed)
  BY SQDataSame
<1> QED BY <1>1, CollapseHolds, PTL

-----------------------------------------------------------------------------
\* SceneDone of any graph, for the tasks W the build asks for itself and the setscene
\* tasks D that are decided.
DoneOf(h, W, D) ==
  LET done[t \in Tasks(h)] ==
        IF t \in h.setscene THEN t \in D
        ELSE t \in W \/ \A r \in Revdeps(h, t) : done[r]
  IN  {t \in Tasks(h) : done[t]}

LEMMA DoneEquation ==
  ASSUME NEW h, IsGraph(h), NEW W, NEW D, NEW t \in Tasks(h)
  PROVE  t \in DoneOf(h, W, D) <=>
           IF t \in h.setscene THEN t \in D
           ELSE t \in W \/ Revdeps(h, t) \subseteq DoneOf(h, W, D)
<1> DEFINE Now(S) == {x \in Tasks(h) : IF x \in h.setscene THEN x \in D
                                       ELSE x \in W \/ Revdeps(h, x) \subseteq S}
           L == {x \in Tasks(h) : \A S \in SUBSET Tasks(h) : Now(S) \subseteq S => x \in S}
           Eqn(f) == f = [x \in Tasks(h) |->
                            IF x \in h.setscene THEN x \in D
                            ELSE x \in W \/ \A r \in Revdeps(h, x) : f[r]]
           f0 == [x \in Tasks(h) |-> x \in L]
<1>1. Now(L) \subseteq L
  OBVIOUS
<1>2. L \subseteq Now(L)
  <2>1. Now(Now(L)) \subseteq Now(L) /\ Now(L) \in SUBSET Tasks(h)
    BY <1>1
  <2> HIDE DEF Now
  <2> QED BY <2>1
<1>3. L = Now(L)
  BY <1>1, <1>2
<1>4. \A x : Revdeps(h, x) \subseteq Tasks(h)
  BY DEF Revdeps
<1>5. Eqn(f0)
  <2>1. ASSUME NEW x \in Tasks(h)
        PROVE  (x \in L) = (IF x \in h.setscene THEN x \in D
                            ELSE x \in W \/ \A r \in Revdeps(h, x) : r \in L)
    <3>1. x \in L <=> x \in Now(L)
      BY <1>3
    <3> HIDE DEF L
    <3> QED BY <3>1
  <2>2. ASSUME NEW x \in Tasks(h)
        PROVE  (\A r \in Revdeps(h, x) : f0[r]) <=> (\A r \in Revdeps(h, x) : r \in L)
    <3> HIDE DEF L
    <3> QED BY <1>4
  <2> HIDE DEF L
  <2> QED BY <2>1, <2>2
<1>6. Eqn(CHOOSE f : Eqn(f))
  <2> HIDE DEF Eqn, f0
  <2> QED BY <1>5
<1> DEFINE done == CHOOSE f : Eqn(f)
<1>7. DoneOf(h, W, D) = {x \in Tasks(h) : done[x]}
  BY DEF DoneOf
<1> HIDE DEF done
<1>8. done[t] = (IF t \in h.setscene THEN t \in D
                 ELSE t \in W \/ \A r \in Revdeps(h, t) : done[r])
  BY <1>6 DEF done
<1> QED BY <1>4, <1>7, <1>8

LEMMA DoneGrows ==
  ASSUME NEW h, IsGraph(h), NEW W, NEW D, NEW E, D \subseteq E
  PROVE  DoneOf(h, W, D) \subseteq DoneOf(h, W, E)
<1> DEFINE T == DoneOf(h, W, D) \ DoneOf(h, W, E)
<1>1. SUFFICES ASSUME T # {} PROVE FALSE
  OBVIOUS
<1>2. DoneOf(h, W, D) \subseteq Tasks(h)
  BY DEF DoneOf
<1>3. PICK x \in T : Revdeps(h, x) \cap T = {}
  BY <1>1, <1>2, Highest
<1>4. x \in Tasks(h) /\ x \in DoneOf(h, W, D) /\ x \notin DoneOf(h, W, E)
  BY <1>2
<1>5. x \notin h.setscene /\ x \notin W /\ Revdeps(h, x) \subseteq DoneOf(h, W, D)
  BY <1>4, DoneEquation
<1>6. ~(Revdeps(h, x) \subseteq DoneOf(h, W, E))
  BY <1>4, <1>5, DoneEquation
<1> QED BY <1>3, <1>5, <1>6

\* Once all setscene tasks are decided every task is done.
LEMMA AllDone ==
  ASSUME NEW h, IsGraph(h), NEW W, NEW D, h.setscene \subseteq D
  PROVE  DoneOf(h, W, D) = Tasks(h)
<1> DEFINE T == Tasks(h) \ DoneOf(h, W, D)
<1>1. SUFFICES ASSUME T # {} PROVE FALSE
  BY DEF DoneOf
<1>2. PICK x \in T : Revdeps(h, x) \cap T = {}
  BY <1>1, Highest
<1>3. Revdeps(h, x) \subseteq DoneOf(h, W, D)
  BY <1>2 DEF Revdeps
<1> QED BY <1>2, <1>3, DoneEquation

\* A task that is done although the build does not ask for it itself: the setscene tasks
\* that cover it are decided.
LEMMA DoneMeansDecided ==
  ASSUME NEW h, IsGraph(h), NEW tops, tops \subseteq Tasks(h), NEW D,
         NEW t \in DoneOf(h, Wanted(h, tops), D), t \notin Wanted(h, tops),
         NEW s \in h.setscene, t \in Covers(h, s)
  PROVE  s \in D
<1> DEFINE W == Wanted(h, tops)
           T == {x \in Covers(h, s) : x \notin W /\ x \in DoneOf(h, W, D)}
<1> HIDE DEF W
<1>1. SUFFICES ASSUME s \notin D PROVE FALSE
  OBVIOUS
<1>2. s \in Tasks(h) /\ T \subseteq Tasks(h) /\ T # {}
  BY BelowTasks DEF IsGraph, Covers, W
<1>3. PICK x \in T : Revdeps(h, x) \cap T = {}
  BY <1>2, Highest
<1>4. Revdeps(h, x) \subseteq DoneOf(h, W, D) /\ x \in Tasks(h)
  BY <1>2, <1>3, DoneEquation DEF Covers
<1>5. x \in Below(h)[s] /\ x \notin h.setscene
  BY <1>3 DEF Covers
<1>6. x \notin h.depends[s]
  <2>1. s \notin DoneOf(h, W, D)
    BY <1>1, <1>2, DoneEquation
  <2> QED BY <1>2, <1>4, <2>1 DEF Revdeps
<1>7. PICK y \in Below(h)[s] \ h.setscene : x \in h.depends[y]
  BY <1>2, <1>5, <1>6, BelowVia
<1>8. y \in Tasks(h) /\ y \in Revdeps(h, x)
  BY <1>2, <1>7, BelowTasks DEF Revdeps
<1>9. y \notin W
  BY <1>3, <1>7, WantedCloses DEF W
<1> QED BY <1>3, <1>4, <1>7, <1>8, <1>9 DEF Covers

-----------------------------------------------------------------------------
\* Started tasks were buildable, and what is buildable has all it needs.
OrderInv ==
  /\ runq_complete \subseteq runq_running
  /\ runq_running \subseteq runq_buildable
  /\ \A t \in runq_buildable : b.depends[t] \subseteq runq_complete

LEMMA OrderInit == Init => OrderInv
  BY DEF Init, OrderInv

\* The marking of t as complete keeps the order, for whatever has started by then.
LEMMA DoneKeepsOrder ==
  ASSUME OrderInv, NEW t, TaskDone(t), b' = b,
         runq_running' = runq_running \cup {t}, t \in runq_buildable
  PROVE  OrderInv'
  BY DEF OrderInv, TaskDone, Ready

LEMMA OrderStep == OrderInv /\ [Next]_vars => OrderInv'
<1> SUFFICES ASSUME OrderInv, [Next]_vars PROVE OrderInv'
  OBVIOUS
<1>1. CASE \/ ReadOn \/ NoScene \/ Wait \/ BreakDeadlock \/ End
            \/ Finish \/ Interrupt \/ FinishNow \/ Over
  <2>1. UNCHANGED <<b, runq_complete, runq_running, runq_buildable>>
    BY <1>1 DEF ReadOn, NoScene, Wait, BreakDeadlock, End, Finish, Interrupt, FinishNow, Over
  <2> QED BY <2>1 DEF OrderInv
<1>2. ASSUME NEW s, SkipUnneeded(s) \/ FailOutright(s) \/ StartScene(s) PROVE OrderInv'
  BY <1>2 DEF OrderInv, SkipUnneeded, FailOutright, StartScene
<1>3. CASE Update
  BY <1>3 DEF OrderInv, Update, UpdateHoldoff
<1>4. ASSUME NEW t, SkipTask(t) PROVE OrderInv'
  BY <1>4, DoneKeepsOrder DEF SkipTask, MayRun, Choices
<1>5. ASSUME NEW t, RunTask(t) PROVE OrderInv'
  BY <1>5 DEF OrderInv, RunTask, MayRun, Choices
<1>6. ASSUME NEW t, NEW ok, SceneResult(t, ok) PROVE OrderInv'
  BY <1>6 DEF OrderInv, SceneResult
<1>7. ASSUME NEW t, NEW ok, TaskResult(t, ok) PROVE OrderInv'
  <2>1. t \in runq_running /\ t \in runq_buildable /\ b' = b /\ runq_running' = runq_running
    BY <1>7 DEF TaskResult, Active, OrderInv
  <2>2. runq_running' = runq_running \cup {t}
    BY <2>1
  <2>3. CASE TaskDone(t)
    BY <2>1, <2>2, <2>3, DoneKeepsOrder
  <2>4. CASE runq_complete' = runq_complete /\ runq_buildable' = runq_buildable
    BY <2>1, <2>4 DEF OrderInv
  <2> QED BY <1>7, <2>3, <2>4 DEF TaskResult
<1>8. CASE UNCHANGED vars
  BY <1>8 DEF OrderInv
<1> QED
  BY <1>1, <1>2, <1>3, <1>4, <1>5, <1>6, <1>7, <1>8 DEF Next, Execute, Result

\* A task is started only when everything it depends on is complete, in any build.
THEOREM InOrder == Spec => []DepsFirst
<1>1. OrderInv => DepsFirst
  BY DEF OrderInv, DepsFirst
<1> QED BY <1>1, OrderInit, OrderStep, PTL DEF Spec

-----------------------------------------------------------------------------
\* Which setscene tasks run: those that are undecided and not put off, and after all that
\* goes before.
SceneInv ==
  /\ sq = SQDataOf(b)
  /\ scenequeue_covered \subseteq sq_running /\ scenequeue_notcovered \subseteq sq_running
  /\ sq_live \subseteq sq_running \cap Undecided
  /\ DOMAIN sq_deferred \cap sq_live = {}
  /\ \A s \in b.setscene :
       s \in sq_live \/ s \in sq_buildable \ sq_running => sq.revdeps[s] \subseteq Decided

\* holdoff_tasks is up to date when tasks are chosen, and has all that an undecided
\* setscene task could restore.
HoldInv ==
  /\ holdoff_need_update \in BOOLEAN
  /\ at = "normal" => holdoff_need_update = FALSE
  /\ holdoff_need_update = FALSE =>
       \A s \in Undecided :
         s \in holdoff_tasks /\ sq.covered[s] \subseteq holdoff_tasks \cup runq_complete

\* Nothing that could still be restored is being built.
QuietInv == \A s \in Undecided : ({s} \cup sq.covered[s]) \cap Active = {}

\* A setscene task that is waited for by one that runs is decided, so what falls with s
\* does not run.
LEMMA NoneLiveFalls ==
  ASSUME SceneInv, NEW s \in Undecided
  PROVE  Falls(s) \cap sq_live \subseteq {s}
<1> DEFINE S == {s} \cup (Undecided \ sq_live)
<1>1. S \in SUBSET b.setscene
  BY DEF Undecided
<1>2. ASSUME NEW y \in S, NEW d \in sq.hard[y] \ Decided
      PROVE  d \in S
  <2>1. y \in Undecided
    BY <1>2
  <2>2. d \in b.setscene /\ <<d, y>> \in b.hard
    BY <2>1 DEF SceneInv, SQDataOf, Undecided
  <2>3. d \in Undecided /\ sq.revdeps[d] = SceneRevdeps(b, d)
    BY <2>2, <1>2 DEF SceneInv, SQDataOf, Undecided
  <2>4. y \in sq.revdeps[d]
    BY <2>1, <2>2, <2>3 DEF SceneRevdeps, Undecided
  <2>5. d \notin sq_live
    BY <2>1, <2>2, <2>4 DEF SceneInv, Undecided
  <2> QED BY <2>3, <2>5
<1>3. Falls(s) \subseteq S
  BY <1>1, <1>2 DEF Falls
<1> QED BY <1>3

\* A setscene task is looked at anew, or covered, when the task it was put off for is done:
\* that and no more is what a task that completes does to the setscene tasks.
MaybeCovered ==
  \/ UNCHANGED <<sceneVars, holdoff_need_update>>
  \/ \E s \in DOMAIN sq_deferred :
       s \in b.current \cup b.stamped \cup (built \cap runq_complete) /\ SceneCovered(s)

LEMMA TaskDoneScene ==
  ASSUME NEW t, TaskDone(t)
  PROVE  MaybeCovered /\ DOMAIN sq_deferred' \subseteq DOMAIN sq_deferred
<1> DEFINE waiting == {s \in DOMAIN sq_deferred : sq_deferred[s] = t}
<1>1. CASE UNCHANGED <<sceneVars, sq_deferred, outrightfail, holdoff_need_update>>
  BY <1>1 DEF MaybeCovered
<1>2. ASSUME NEW s \in waiting,
             sq_deferred' = [x \in DOMAIN sq_deferred \ {s} |->
                               IF x \in waiting THEN s ELSE sq_deferred[x]]
      PROVE  DOMAIN sq_deferred' \subseteq DOMAIN sq_deferred
  BY <1>2
<1> QED BY <1>1, <1>2 DEF TaskDone, LookAgain, Undefer, MaybeCovered

LEMMA TaskSteps ==
  ASSUME NEW t, SkipTask(t) \/ \E ok \in BOOLEAN : TaskResult(t, ok)
  PROVE  /\ MaybeCovered /\ DOMAIN sq_deferred' \subseteq DOMAIN sq_deferred
         /\ UNCHANGED <<b, sq, sq_live, sqdone, holdVars, history>>
<1>1. TaskDone(t) \/ UNCHANGED <<sceneVars, sq_deferred, holdoff_need_update>>
  BY DEF SkipTask, TaskResult
<1>2. MaybeCovered /\ DOMAIN sq_deferred' \subseteq DOMAIN sq_deferred
  BY <1>1, TaskDoneScene DEF MaybeCovered
<1> QED BY <1>2 DEF SkipTask, TaskResult

LEMMA SceneInit == Init => SceneInv /\ HoldInv /\ QuietInv
<1> SUFFICES ASSUME Init PROVE SceneInv /\ HoldInv /\ QuietInv
  OBVIOUS
<1>1. SceneInv
  BY DEF Init, SceneInv, Undecided, Decided
<1>2. HoldInv
  BY DEF Init, HoldInv
<1>3. QuietInv
  BY DEF Init, QuietInv, Active
<1> QED BY <1>1, <1>2, <1>3

LEMMA CoverKeeps ==
  ASSUME SceneInv, NEW s, SceneCovered(s), b' = b, sq' = sq, sq_live' = sq_live \ {s},
         DOMAIN sq_deferred' \subseteq DOMAIN sq_deferred
  PROVE  SceneInv'
  BY DEF SceneInv, SceneCovered, Unblocked, Undecided, Decided

LEMMA FallKeeps ==
  ASSUME SceneInv, NEW s, SceneNotCovered(s), b' = b, sq' = sq,
         sq_live' \subseteq sq_live, Falls(s) \cap sq_live' = {},
         DOMAIN sq_deferred' \subseteq DOMAIN sq_deferred
  PROVE  SceneInv'
  BY DEF SceneInv, SceneNotCovered, Unblocked, Undecided, Decided

LEMMA SceneStep == SceneInv /\ [Next]_vars => SceneInv'
<1> SUFFICES ASSUME SceneInv, [Next]_vars PROVE SceneInv'
  OBVIOUS
<1>1. ASSUME UNCHANGED <<b, sq, sceneVars, sq_live>>,
             DOMAIN sq_deferred' \subseteq DOMAIN sq_deferred
      PROVE  SceneInv'
  BY <1>1 DEF SceneInv, Undecided, Decided
<1>13. ASSUME NEW s, Tried(s)
       PROVE  /\ DOMAIN sq_deferred' \subseteq DOMAIN sq_deferred
              /\ s \notin DOMAIN sq_deferred'
  BY <1>13 DEF Tried
<1>2. CASE \/ ReadOn \/ NoScene \/ Wait \/ End \/ Finish
            \/ Interrupt \/ FinishNow \/ Over \/ Update
  BY <1>1, <1>2 DEF ReadOn, NoScene, Wait, End, Finish, Interrupt, FinishNow, Over, Update
<1>3. CASE BreakDeadlock
  <2>1. sq_live = {} /\ sq_live' = {} /\ b' = b /\ sq' = sq
    BY <1>3 DEF BreakDeadlock, Idle
  <2>2. PICK s \in DOMAIN sq_deferred :
          /\ Tried(s)
          /\ \/ SceneNotCovered(sq_deferred[s])
             \/ UNCHANGED <<sceneVars, holdoff_need_update>>
    BY <1>3 DEF BreakDeadlock
  <2>3. CASE SceneNotCovered(sq_deferred[s])
    BY <1>13, <2>1, <2>2, <2>3, FallKeeps
  <2>4. CASE UNCHANGED <<sceneVars, holdoff_need_update>>
    BY <1>1, <1>13, <2>1, <2>2, <2>4
  <2> QED BY <2>2, <2>3, <2>4
<1>4. ASSUME NEW s \in b.setscene, MayTry(s)
      PROVE  s \in Undecided /\ s \notin sq_live /\ s \in sq_buildable \ sq_running
  BY <1>4 DEF MayTry, SceneReady, SceneInv, Undecided, Decided
<1>5. ASSUME NEW s \in b.setscene, SkipUnneeded(s) PROVE SceneInv'
  BY <1>5, <1>13, CoverKeeps DEF SkipUnneeded, SceneReady, SceneInv
<1>6. ASSUME NEW s \in b.setscene, FailOutright(s) PROVE SceneInv'
  <2>1. Falls(s) \cap sq_live' = {}
    BY <1>4, <1>6, NoneLiveFalls DEF FailOutright
  <2> QED BY <1>6, <1>13, <2>1, FallKeeps DEF FailOutright
<1>7. ASSUME NEW s \in b.setscene, StartScene(s) PROVE SceneInv'
  <2>1. DOMAIN sq_deferred' \cap sq_live' = {}
    BY <1>7, <1>13 DEF StartScene, SceneInv
  <2> QED BY <1>4, <1>7, <2>1 DEF StartScene, SceneInv, Undecided, Decided
<1>8. ASSUME NEW s, NEW ok, SceneResult(s, ok) PROVE SceneInv'
  <2>1. /\ b' = b /\ sq' = sq /\ sq_live' = sq_live \ {s} /\ s \in Undecided
        /\ sq_deferred' = sq_deferred
    BY <1>8 DEF SceneResult, SceneInv
  <2>2. CASE SceneCovered(s)
    BY <2>1, <2>2, CoverKeeps
  <2>3. CASE SceneNotCovered(s)
    <3>1. Falls(s) \cap sq_live' = {}
      BY <2>1, NoneLiveFalls
    <3> QED BY <2>1, <2>3, <3>1, FallKeeps
  <2> QED BY <1>8, <2>2, <2>3 DEF SceneResult
<1>9. ASSUME NEW t, RunTask(t) PROVE SceneInv'
  BY <1>1, <1>9 DEF RunTask
<1>10. ASSUME NEW t, SkipTask(t) \/ \E ok \in BOOLEAN : TaskResult(t, ok) PROVE SceneInv'
  <2>1. /\ MaybeCovered /\ DOMAIN sq_deferred' \subseteq DOMAIN sq_deferred
        /\ UNCHANGED <<b, sq, sq_live>>
    BY <1>10, TaskSteps
  <2>2. ASSUME NEW s \in DOMAIN sq_deferred, SceneCovered(s) PROVE SceneInv'
    <3>1. sq_live' = sq_live \ {s}
      BY <2>1 DEF SceneInv
    <3> QED BY <2>1, <2>2, <3>1, CoverKeeps
  <2> QED BY <1>1, <2>1, <2>2 DEF MaybeCovered
<1>11. CASE UNCHANGED vars
  BY <1>1, <1>11
<1> QED
  BY <1>2, <1>3, <1>5, <1>6, <1>7, <1>8, <1>9, <1>10, <1>11 DEF Next, Execute, Result

\* What holds off a task still does after anything that only decides setscene tasks or
\* completes tasks, and does not go on to choose one.
LEMMA HoldKeeps ==
  ASSUME HoldInv, sq' = sq, b' = b, at' # "normal", Undecided' \subseteq Undecided,
         runq_complete \subseteq runq_complete',
         \/ holdoff_need_update' = TRUE
         \/ UNCHANGED <<holdoff_need_update, holdoff_tasks>>
  PROVE  HoldInv'
<1>1. CASE holdoff_need_update' = TRUE
  BY <1>1 DEF HoldInv
<1>2. CASE UNCHANGED <<holdoff_need_update, holdoff_tasks>>
  BY <1>2 DEF HoldInv
<1> QED BY <1>1, <1>2

LEMMA HoldStep == HoldInv /\ [Next]_vars => HoldInv'
<1> SUFFICES ASSUME HoldInv, [Next]_vars PROVE HoldInv'
  OBVIOUS
<1>1. Return => at' # "normal"
  BY DEF Return
<1>2. CASE ReadOn \/ NoScene \/ Wait \/ End \/ Finish \/ Interrupt \/ FinishNow
  <2>1. at' # "normal" /\ Undecided' = Undecided
        /\ UNCHANGED <<b, sq, runq_complete, holdoff_need_update, holdoff_tasks>>
    BY <1>1, <1>2 DEF ReadOn, NoScene, Wait, End, Finish, Interrupt, FinishNow, Undecided,
                      Decided
  <2> QED BY <2>1, HoldKeeps
<1>3. CASE UNCHANGED vars
  BY <1>3 DEF HoldInv, Undecided, Decided
<1>4. CASE Over
  BY <1>3, <1>4 DEF Over
<1>5. CASE Update
  <2>1. UNCHANGED <<b, sq, scenequeue_covered, scenequeue_notcovered, runq_complete>>
    BY <1>5 DEF Update
  <2>2. Undecided' = Undecided
    BY <2>1 DEF Undecided, Decided
  <2>3. CASE holdoff_need_update = FALSE /\ UNCHANGED <<holdVars, holdoff_need_update>>
    BY <2>1, <2>2, <2>3 DEF HoldInv
  <2>4. CASE holdoff_tasks' = Holdoff /\ holdoff_need_update' = FALSE
    <3>1. ASSUME NEW s \in Undecided
          PROVE  s \in Holdoff /\ sq.covered[s] \subseteq Holdoff \cup runq_complete
      BY DEF Holdoff
    <3>2. \A s \in Undecided' :
            s \in holdoff_tasks' /\ sq'.covered[s] \subseteq holdoff_tasks' \cup runq_complete'
      BY <2>1, <2>2, <2>4, <3>1
    <3> QED BY <2>4, <3>2 DEF HoldInv
  <2>5. holdoff_need_update \in BOOLEAN
    BY DEF HoldInv
  <2> QED BY <1>5, <2>3, <2>4, <2>5 DEF Update, UpdateHoldoff
<1>6. ASSUME NEW s, SceneCovered(s) PROVE holdoff_need_update' = TRUE
  BY <1>6 DEF SceneCovered
<1>7. ASSUME NEW s, SceneNotCovered(s) PROVE holdoff_need_update' = TRUE
  BY <1>7 DEF SceneNotCovered
<1>8. ASSUME holdoff_need_update' = TRUE, at' # "normal" PROVE HoldInv'
  BY <1>8 DEF HoldInv
<1>9. CASE BreakDeadlock
  <2>1. at' # "normal" /\ UNCHANGED <<b, sq, runq_complete, holdoff_tasks>>
    BY <1>1, <1>9 DEF BreakDeadlock
  <2>2. PICK s \in DOMAIN sq_deferred :
          \/ SceneNotCovered(sq_deferred[s])
          \/ UNCHANGED <<sceneVars, holdoff_need_update>>
    BY <1>9 DEF BreakDeadlock
  <2>3. CASE UNCHANGED <<sceneVars, holdoff_need_update>>
    BY <2>1, <2>3, HoldKeeps DEF Undecided, Decided
  <2> QED BY <1>7, <1>8, <2>1, <2>2, <2>3
<1>10. ASSUME NEW s \in b.setscene, SkipUnneeded(s) \/ FailOutright(s) PROVE HoldInv'
  BY <1>1, <1>6, <1>7, <1>8, <1>10 DEF SkipUnneeded, FailOutright
<1>11. ASSUME NEW s \in b.setscene, StartScene(s) PROVE HoldInv'
  <2>1. at' # "normal" /\ Undecided' = Undecided
        /\ UNCHANGED <<b, sq, runq_complete, holdoff_need_update, holdoff_tasks>>
    BY <1>1, <1>11 DEF StartScene, Undecided, Decided
  <2> QED BY <2>1, HoldKeeps
<1>12. ASSUME NEW s, NEW ok, SceneResult(s, ok) PROVE HoldInv'
  <2>1. at' # "normal"
    BY <1>12 DEF SceneResult
  <2> QED BY <1>6, <1>7, <1>8, <1>12, <2>1 DEF SceneResult
<1>13. ASSUME NEW t, SkipTask(t) \/ \E ok \in BOOLEAN : TaskResult(t, ok), at' # "normal"
       PROVE  HoldInv'
  <2>1. MaybeCovered /\ UNCHANGED <<b, sq, holdoff_tasks>>
    BY <1>13, TaskSteps
  <2>2. runq_complete \subseteq runq_complete'
    BY <1>13 DEF SkipTask, TaskResult, TaskDone
  <2>3. CASE UNCHANGED <<sceneVars, holdoff_need_update>>
    BY <1>13, <2>1, <2>2, <2>3, HoldKeeps DEF Undecided, Decided
  <2> QED BY <1>6, <1>8, <1>13, <2>1, <2>3 DEF MaybeCovered
<1>14. ASSUME NEW t, SkipTask(t) PROVE HoldInv'
  BY <1>1, <1>13, <1>14 DEF SkipTask
<1>15. ASSUME NEW t, RunTask(t) PROVE HoldInv'
  <2>1. at' # "normal" /\ Undecided' = Undecided
        /\ UNCHANGED <<b, sq, runq_complete, holdoff_need_update, holdoff_tasks>>
    BY <1>1, <1>15 DEF RunTask, Undecided, Decided
  <2> QED BY <2>1, HoldKeeps
<1>16. ASSUME NEW t, NEW ok \in BOOLEAN, TaskResult(t, ok) PROVE HoldInv'
  BY <1>13, <1>16 DEF TaskResult
<1> QED
  BY <1>2, <1>3, <1>4, <1>5, <1>9, <1>10, <1>11, <1>12, <1>14, <1>15, <1>16
     DEF Next, Execute, Result

\* A task is chosen only if no undecided setscene task could restore it, and what is
\* undecided only gets less.
LEMMA QuietStep ==
  OrderInv /\ SceneInv /\ HoldInv /\ QuietInv /\ [Next]_vars => QuietInv'
<1> SUFFICES ASSUME OrderInv, SceneInv, HoldInv, QuietInv, [Next]_vars PROVE QuietInv'
  OBVIOUS
<1>1. ASSUME UNCHANGED <<b, sq>>, Undecided' \subseteq Undecided, Active' \subseteq Active
      PROVE  QuietInv'
  BY <1>1 DEF QuietInv
<1>2. CASE \/ ReadOn \/ NoScene \/ Wait \/ End \/ Finish
            \/ Interrupt \/ FinishNow \/ Over \/ Update
            \/ UNCHANGED vars
  <2>1. UNCHANGED <<b, sq, sceneVars, runq_running, runq_complete, failed_tids>>
    BY <1>2 DEF ReadOn, NoScene, Wait, End, Finish, Interrupt, FinishNow, Over, Update
  <2> QED BY <1>1, <2>1 DEF Undecided, Decided, Active
<1>3. ASSUME NEW s, SceneCovered(s) \/ SceneNotCovered(s), b' = b
      PROVE  Undecided' \subseteq Undecided
  BY <1>3 DEF SceneCovered, SceneNotCovered, Undecided, Decided
<1>4. CASE BreakDeadlock
  <2>1. UNCHANGED <<b, sq, runVars, failed_tids>>
    BY <1>4 DEF BreakDeadlock
  <2>2. PICK s \in DOMAIN sq_deferred :
          \/ SceneNotCovered(sq_deferred[s])
          \/ UNCHANGED <<sceneVars, holdoff_need_update>>
    BY <1>4 DEF BreakDeadlock
  <2>3. CASE UNCHANGED <<sceneVars, holdoff_need_update>>
    BY <1>1, <2>1, <2>3 DEF Undecided, Decided, Active
  <2>4. CASE SceneNotCovered(sq_deferred[s])
    BY <1>1, <1>3, <2>1, <2>4 DEF Active
  <2> QED BY <2>2, <2>3, <2>4
<1>5. ASSUME NEW s, SkipUnneeded(s) \/ FailOutright(s) PROVE QuietInv'
  BY <1>1, <1>3, <1>5 DEF SkipUnneeded, FailOutright, Active
<1>6. ASSUME NEW s, StartScene(s) PROVE QuietInv'
  BY <1>1, <1>6 DEF StartScene, Undecided, Decided, Active
<1>7. ASSUME NEW s, NEW ok, SceneResult(s, ok) PROVE QuietInv'
  BY <1>1, <1>3, <1>7 DEF SceneResult, Active
<1>8. ASSUME NEW t, SkipTask(t) \/ \E ok \in BOOLEAN : TaskResult(t, ok) PROVE QuietInv'
  <2>1. MaybeCovered /\ UNCHANGED <<b, sq>>
    BY <1>8, TaskSteps
  <2>2. Active' \subseteq Active
    BY <1>8 DEF SkipTask, TaskResult, TaskDone, Active
  <2>3. Undecided' \subseteq Undecided
    BY <1>3, <2>1 DEF MaybeCovered, Undecided, Decided
  <2> QED BY <1>1, <2>1, <2>2, <2>3
<1>10. ASSUME NEW t, RunTask(t) PROVE QuietInv'
  <2>1. UNCHANGED <<b, sq>> /\ Undecided' = Undecided /\ Active' \subseteq Active \cup {t}
    BY <1>10 DEF RunTask, Undecided, Decided, Active
  <2>2. t \notin holdoff_tasks /\ t \notin runq_complete /\ holdoff_need_update = FALSE
    BY <1>10 DEF RunTask, MayRun, Choices, OrderInv, HoldInv
  <2>3. \A s \in Undecided : t \notin {s} \cup sq.covered[s]
    BY <2>2 DEF HoldInv
  <2> QED BY <2>1, <2>3 DEF QuietInv
<1> QED
  BY <1>2, <1>4, <1>5, <1>6, <1>7, <1>8, <1>10 DEF Next, Execute, Result

\* While a setscene task runs, neither its task nor any it covers is being built, in any
\* build, with any number of threads.
THEOREM Quiet == Spec => []NotWhileBuilt
<1> DEFINE Inv == OrderInv /\ SceneInv /\ HoldInv /\ QuietInv
<1>1. Init => Inv
  BY OrderInit, SceneInit
<1>2. Inv /\ [Next]_vars => Inv'
  BY OrderStep, SceneStep, HoldStep, QuietStep
<1>3. Inv => NotWhileBuilt
  BY DEF SceneInv, QuietInv, NotWhileBuilt
<1> QED BY <1>1, <1>2, <1>3, PTL DEF Spec

-----------------------------------------------------------------------------
\* The build, and what build_scenequeue_data made of it, do not change.
BuildInv == IsBuild(b) /\ sq = SQDataOf(b)

LEMMA Unchanging == [Next]_vars => UNCHANGED <<b, sq>>
  BY DEF Next, Execute, ReadOn, NoScene, Update, Wait, BreakDeadlock, End, Finish,
         SkipUnneeded, FailOutright, StartScene, SkipTask, RunTask, Interrupt, FinishNow,
         Over, Result, SceneResult, TaskResult

LEMMA BuildKept ==
  /\ Init => BuildInv
  /\ BuildInv /\ [Next]_vars => BuildInv'
<1>1. Init => BuildInv
  BY RunQueueAssumption DEF Init, BuildInv
<1> QED BY <1>1, Unchanging DEF BuildInv

LEMMA SQFacts ==
  ASSUME BuildInv
  PROVE  /\ IsGraph(b) /\ b.setscene \subseteq AllTasks /\ b.targets \subseteq AllTasks
         /\ \A s \in b.setscene :
              /\ sq.revdeps[s] = SceneRevdeps(b, s) /\ sq.covered[s] = Covers(b, s)
              /\ sq.deps[s] = {d \in b.setscene : s \in sq.revdeps[d]}
              /\ sq.hard[s] = {d \in b.setscene : <<d, s>> \in b.hard}
              /\ sq.revdeps[s] \subseteq b.setscene
              /\ sq.covered[s] \subseteq AllTasks \ b.setscene
         /\ sq.unskippable = Wanted(b, Roots(b) \cup (b.targets \ b.setscene))
         /\ Roots(b) \cup (b.targets \ b.setscene) \subseteq AllTasks
         /\ sq.unskippable \subseteq AllTasks
<1>1. IsGraph(b) /\ b.setscene \subseteq AllTasks /\ b.targets \subseteq AllTasks
  BY DEF BuildInv, IsBuild, IsGraph, AllTasks
<1>2. \A s \in b.setscene :
              /\ sq.revdeps[s] = SceneRevdeps(b, s) /\ sq.covered[s] = Covers(b, s)
              /\ sq.deps[s] = {d \in b.setscene : s \in SceneRevdeps(b, d)}
              /\ sq.hard[s] = {d \in b.setscene : <<d, s>> \in b.hard}
  BY DEF BuildInv, SQDataOf
<1>3. \A s \in b.setscene : sq.deps[s] = {d \in b.setscene : s \in sq.revdeps[d]}
  BY <1>2
<1>4. \A s \in b.setscene : sq.revdeps[s] \subseteq b.setscene
  BY <1>2 DEF SceneRevdeps, Users
<1>5. \A s \in b.setscene : sq.covered[s] \subseteq AllTasks \ b.setscene
  BY <1>1, <1>2, BelowTasks DEF Covers, AllTasks
<1>6. sq.unskippable = Wanted(b, Roots(b) \cup (b.targets \ b.setscene))
  BY DEF BuildInv, SQDataOf
<1>7. Roots(b) \cup (b.targets \ b.setscene) \subseteq AllTasks
  BY <1>1 DEF Roots, AllTasks
<1>8. sq.unskippable \subseteq AllTasks
  BY <1>1, <1>6, <1>7, WantedCloses DEF AllTasks
<1> QED BY <1>1, <1>2, <1>3, <1>4, <1>5, <1>6, <1>7, <1>8

\* The sets of setscene tasks stay sets of setscene tasks, whatever is decided.
SceneTypes ==
  /\ \A S \in {scenequeue_covered, scenequeue_notcovered, sq_buildable, sq_running,
               outrightfail, restored} : S \subseteq b.setscene
  /\ sq_live \subseteq sq_running /\ sq_running \subseteq sq_buildable
  /\ \A s \in DOMAIN sq_deferred : {s, sq_deferred[s]} \subseteq b.setscene

TaskTypes ==
  /\ \A S \in {tasks_covered, tasks_notcovered, holdoff_tasks, runq_buildable} :
       S \subseteq AllTasks
  /\ failed_tids \subseteq runq_running /\ runq_complete \subseteq runq_running
  /\ runq_running \subseteq runq_buildable /\ built \subseteq runq_running

\* Where execute() is.
PlaceTypes ==
  /\ at \in {"read", "scene", "holdoff", "normal", "finish", "over"}
  /\ state \in {"Running", "CleanUp", "Complete", "Failed"}
  /\ sqdone \in BOOLEAN /\ holdoff_need_update \in BOOLEAN /\ stopped \in BOOLEAN

\* There are never more workers than threads.
ThreadsInv == Cardinality(Active) + Cardinality(sq_live) <= b.threads

LEMMA PlaceStep == PlaceTypes /\ [Next]_vars => PlaceTypes'
<1> SUFFICES ASSUME PlaceTypes, [Next]_vars PROVE PlaceTypes'
  OBVIOUS
<1>1. Return => at' \in {"finish", "read"}
  BY DEF Return
<1>2. CASE \/ ReadOn \/ NoScene \/ Wait \/ End \/ Finish \/ Interrupt \/ FinishNow \/ Over
           \/ UNCHANGED vars
  BY <1>1, <1>2 DEF PlaceTypes, ReadOn, NoScene, Wait, End, Finish, Interrupt, FinishNow, Over
<1>3. CASE Update
  <2>1. sqdone' \in BOOLEAN /\ state' \in {"Failed", state} /\ at' \in {"over", "normal"}
    BY <1>3 DEF Update, PlaceTypes
  <2>2. holdoff_need_update' \in BOOLEAN /\ stopped' = stopped
    BY <1>3 DEF Update, UpdateHoldoff, PlaceTypes
  <2> QED BY <2>1, <2>2 DEF PlaceTypes
<1>4. ASSUME NEW s, SceneCovered(s) \/ SceneNotCovered(s) PROVE holdoff_need_update' = TRUE
  BY <1>4 DEF SceneCovered, SceneNotCovered
<1>5. ASSUME NEW t, TaskDone(t) PROVE holdoff_need_update' \in BOOLEAN
  BY <1>4, <1>5, TaskDoneScene DEF MaybeCovered, PlaceTypes
<1>6. CASE BreakDeadlock
  <2>1. holdoff_need_update' \in BOOLEAN
    BY <1>4, <1>6 DEF BreakDeadlock, PlaceTypes
  <2> QED BY <1>1, <1>6, <2>1 DEF BreakDeadlock, PlaceTypes
<1>7. ASSUME NEW s, SkipUnneeded(s) \/ FailOutright(s) PROVE PlaceTypes'
  BY <1>1, <1>4, <1>7 DEF SkipUnneeded, FailOutright, PlaceTypes
<1>8. ASSUME NEW s, StartScene(s) PROVE PlaceTypes'
  BY <1>1, <1>8 DEF StartScene, PlaceTypes
<1>9. ASSUME NEW t, SkipTask(t) \/ RunTask(t) PROVE PlaceTypes'
  BY <1>1, <1>5, <1>9 DEF SkipTask, RunTask, PlaceTypes
<1>10. ASSUME NEW s, NEW ok, SceneResult(s, ok) PROVE PlaceTypes'
  BY <1>4, <1>10 DEF SceneResult, PlaceTypes
<1>11. ASSUME NEW t, NEW ok, TaskResult(t, ok) PROVE PlaceTypes'
  BY <1>5, <1>11 DEF TaskResult, PlaceTypes
<1> QED
  BY <1>2, <1>3, <1>6, <1>7, <1>8, <1>9, <1>10, <1>11 DEF Next, Execute, Result

LEMMA CoverTypes ==
  ASSUME BuildInv, SceneTypes, NEW s \in b.setscene, SceneCovered(s), b' = b, sq' = sq
  PROVE  /\ scenequeue_covered' \subseteq b.setscene
         /\ scenequeue_notcovered' \subseteq b.setscene
         /\ sq_buildable' \subseteq b.setscene
         /\ sq_running' \subseteq sq_buildable' /\ sq_running \subseteq sq_running'
<1>1. Unblocked({s}) \subseteq b.setscene
  BY SQFacts DEF Unblocked
<1> QED BY <1>1 DEF SceneTypes, SceneCovered

LEMMA FallTypes ==
  ASSUME BuildInv, SceneTypes, NEW s, SceneNotCovered(s), b' = b, sq' = sq
  PROVE  /\ scenequeue_covered' \subseteq b.setscene
         /\ scenequeue_notcovered' \subseteq b.setscene
         /\ sq_buildable' \subseteq b.setscene
         /\ sq_running' \subseteq sq_buildable' /\ sq_running \subseteq sq_running'
<1>1. Falls(s) \subseteq b.setscene
  BY DEF Falls
<1>2. Unblocked(Falls(s)) \subseteq b.setscene
  BY <1>1, SQFacts DEF Unblocked
<1> QED BY <1>1, <1>2 DEF SceneTypes, SceneNotCovered

LEMMA UndeferTypes ==
  ASSUME SceneTypes, NEW t, Undefer(t), b' = b
  PROVE  /\ outrightfail' \subseteq b.setscene
         /\ \A s \in DOMAIN sq_deferred' : {s, sq_deferred'[s]} \subseteq b.setscene
<1> DEFINE waiting == {s \in DOMAIN sq_deferred : sq_deferred[s] = t}
<1>1. CASE UNCHANGED <<sq_deferred, outrightfail>>
  BY <1>1 DEF SceneTypes
<1>2. ASSUME NEW s \in waiting,
             sq_deferred' = [x \in DOMAIN sq_deferred \ {s} |->
                               IF x \in waiting THEN s ELSE sq_deferred[x]],
             outrightfail' \subseteq outrightfail \cup {s}
      PROVE  /\ outrightfail' \subseteq b.setscene
             /\ \A x \in DOMAIN sq_deferred' : {x, sq_deferred'[x]} \subseteq b.setscene
  <2>1. s \in b.setscene
    BY DEF SceneTypes
  <2>2. DOMAIN sq_deferred' = DOMAIN sq_deferred \ {s}
    BY <1>2
  <2>3. \A x \in DOMAIN sq_deferred \ {s} : sq_deferred'[x] \in {s, sq_deferred[x]}
    BY <1>2
  <2> QED BY <1>2, <2>1, <2>2, <2>3 DEF SceneTypes
<1> QED BY <1>1, <1>2 DEF LookAgain, Undefer

LEMMA TriedTypes ==
  ASSUME SceneTypes, NEW s, Tried(s), b' = b
  PROVE  \A x \in DOMAIN sq_deferred' : {x, sq_deferred'[x]} \subseteq b.setscene
  BY DEF Tried, SceneTypes

LEMMA SceneTypesStep == BuildInv /\ SceneTypes /\ [Next]_vars => SceneTypes'
<1> SUFFICES ASSUME BuildInv, SceneTypes, [Next]_vars PROVE SceneTypes'
  OBVIOUS
<1>1. ASSUME UNCHANGED <<b, sceneVars, sq_live, sq_deferred, outrightfail, restored>>
      PROVE  SceneTypes'
  BY <1>1 DEF SceneTypes
<1>2. CASE \/ ReadOn \/ NoScene \/ Update \/ Wait \/ End \/ Finish \/ Interrupt
           \/ FinishNow \/ Over \/ UNCHANGED vars
  BY <1>1, <1>2 DEF ReadOn, NoScene, Update, Wait, End, Finish, Interrupt, FinishNow, Over
<1>3. CASE BreakDeadlock
  <2>1. UNCHANGED <<b, sq, sq_live, outrightfail, restored>>
    BY <1>3 DEF BreakDeadlock
  <2>2. PICK s \in DOMAIN sq_deferred :
          /\ Tried(s)
          /\ \/ SceneNotCovered(sq_deferred[s])
             \/ UNCHANGED <<sceneVars, holdoff_need_update>>
    BY <1>3 DEF BreakDeadlock
  <2>3. \A x \in DOMAIN sq_deferred' : {x, sq_deferred'[x]} \subseteq b.setscene
    BY <2>1, <2>2, TriedTypes
  <2> QED BY <2>1, <2>2, <2>3, FallTypes DEF SceneTypes
<1>4. ASSUME NEW s \in b.setscene, SkipUnneeded(s) \/ FailOutright(s) PROVE SceneTypes'
  <2>1. UNCHANGED <<b, sq, sq_live, outrightfail, restored>> /\ Tried(s)
    BY <1>4 DEF SkipUnneeded, FailOutright
  <2>2. SceneCovered(s) \/ SceneNotCovered(s)
    BY <1>4 DEF SkipUnneeded, FailOutright
  <2> QED BY <2>1, <2>2, CoverTypes, FallTypes, TriedTypes DEF SceneTypes
<1>5. ASSUME NEW s \in b.setscene, StartScene(s) PROVE SceneTypes'
  <2>1. s \in sq_buildable /\ Tried(s) /\ b' = b
    BY <1>5 DEF StartScene, MayTry, SceneReady
  <2> QED BY <1>5, <2>1, TriedTypes DEF StartScene, SceneTypes
<1>6. ASSUME NEW s, NEW ok, SceneResult(s, ok) PROVE SceneTypes'
  <2>1. /\ UNCHANGED <<b, sq, outrightfail, sq_deferred>> /\ sq_live' = sq_live \ {s}
        /\ s \in b.setscene /\ restored' \subseteq restored \cup {s}
    BY <1>6 DEF SceneResult, SceneTypes
  <2>2. SceneCovered(s) \/ SceneNotCovered(s)
    BY <1>6 DEF SceneResult
  <2> QED BY <2>1, <2>2, CoverTypes, FallTypes DEF SceneTypes
<1>7. ASSUME NEW t, TaskDone(t), UNCHANGED <<b, sq, sq_live, restored>>
      PROVE  SceneTypes'
  <2>1. /\ outrightfail' \subseteq b.setscene
        /\ \A s \in DOMAIN sq_deferred' : {s, sq_deferred'[s]} \subseteq b.setscene
    BY <1>7, UndeferTypes DEF TaskDone
  <2>2. ASSUME NEW s \in DOMAIN sq_deferred, SceneCovered(s) PROVE SceneTypes'
    <3>1. s \in b.setscene
      BY DEF SceneTypes
    <3> QED BY <1>7, <2>1, <2>2, <3>1, CoverTypes DEF SceneTypes
  <2>3. CASE UNCHANGED <<sceneVars, holdoff_need_update>>
    BY <1>7, <2>1, <2>3 DEF SceneTypes
  <2> QED BY <1>7, <2>2, <2>3, TaskDoneScene DEF MaybeCovered
<1>8. ASSUME NEW t, SkipTask(t) \/ RunTask(t) PROVE SceneTypes'
  BY <1>1, <1>7, <1>8 DEF SkipTask, RunTask
<1>9. ASSUME NEW t, NEW ok, TaskResult(t, ok) PROVE SceneTypes'
  BY <1>1, <1>7, <1>9 DEF TaskResult
<1> QED
  BY <1>2, <1>3, <1>4, <1>5, <1>6, <1>8, <1>9 DEF Next, Execute, Result

LEMMA TaskTypesStep == BuildInv /\ SceneTypes /\ TaskTypes /\ [Next]_vars => TaskTypes'
<1> SUFFICES ASSUME BuildInv, SceneTypes, TaskTypes, [Next]_vars PROVE TaskTypes'
  OBVIOUS
<1>1. ASSUME UNCHANGED <<b, holdVars, runVars, failed_tids, built>>
      PROVE  TaskTypes'
  BY <1>1 DEF TaskTypes, AllTasks
<1>2. CASE \/ ReadOn \/ NoScene \/ Wait \/ End \/ Finish \/ Interrupt \/ BreakDeadlock
           \/ FinishNow \/ Over \/ UNCHANGED vars
  BY <1>1, <1>2 DEF ReadOn, NoScene, Wait, End, Finish, Interrupt, FinishNow, Over,
                    BreakDeadlock
<1>3. ASSUME NEW s, SkipUnneeded(s) \/ FailOutright(s) \/ StartScene(s) PROVE TaskTypes'
  BY <1>1, <1>3 DEF SkipUnneeded, FailOutright, StartScene
<1>4. ASSUME NEW s, NEW ok, SceneResult(s, ok) PROVE TaskTypes'
  BY <1>1, <1>4 DEF SceneResult
<1>5. CASE Update
  <2>1. /\ UNCHANGED <<b, runq_running, runq_complete, failed_tids, built>>
        /\ AllTasks' = AllTasks
    BY <1>5 DEF Update, AllTasks
  <2>2. Covered \subseteq AllTasks /\ NotCovered \subseteq AllTasks
    BY DEF Covered, NotCovered, SceneDone
  <2>3. Holdoff \subseteq AllTasks
    <3>1. Undecided \subseteq b.setscene /\ Undecided \subseteq AllTasks
      BY SQFacts DEF Undecided
    <3>2. \A s \in Undecided : sq.covered[s] \subseteq AllTasks
      BY <3>1, SQFacts
    <3> QED BY <3>1, <3>2 DEF Holdoff
  <2>4. /\ tasks_covered' \subseteq AllTasks /\ tasks_notcovered' \subseteq AllTasks
        /\ holdoff_tasks' \subseteq AllTasks
    BY <1>5, <2>2, <2>3 DEF Update, UpdateHoldoff, TaskTypes
  <2>5. runq_buildable \subseteq runq_buildable' /\ runq_buildable' \subseteq AllTasks
    BY <1>5, <2>2 DEF Update, UpdateHoldoff, TaskTypes
  <2> QED BY <2>1, <2>4, <2>5 DEF TaskTypes
<1>6. ASSUME NEW t, TaskDone(t), UNCHANGED <<b, holdVars, failed_tids, built>>,
             t \in runq_buildable, runq_running' = runq_running \cup {t}
      PROVE  TaskTypes'
  <2>1. Ready(t) \subseteq AllTasks
    BY DEF Ready, Revdeps, AllTasks
  <2> QED BY <1>6, <2>1 DEF TaskDone, TaskTypes, AllTasks
<1>7. ASSUME NEW t, SkipTask(t) PROVE TaskTypes'
  <2>1. t \in runq_buildable
    BY <1>7 DEF SkipTask, MayRun, Choices
  <2> QED BY <1>6, <1>7, <2>1 DEF SkipTask
<1>8. ASSUME NEW t, RunTask(t) PROVE TaskTypes'
  <2>1. t \in runq_buildable
    BY <1>8 DEF RunTask, MayRun, Choices
  <2> QED BY <1>8, <2>1 DEF RunTask, TaskTypes, AllTasks
<1>9. ASSUME NEW t, NEW ok, TaskResult(t, ok) PROVE TaskTypes'
  <2>1. /\ t \in runq_running /\ t \in runq_buildable /\ runq_running' = runq_running \cup {t}
        /\ UNCHANGED <<b, holdVars, built>>
    BY <1>9 DEF TaskResult, Active, TaskTypes
  <2>2. CASE TaskDone(t) /\ UNCHANGED failed_tids
    BY <1>6, <2>1, <2>2
  <2>3. CASE failed_tids' = failed_tids \cup {t} /\ UNCHANGED <<runq_complete, runq_buildable>>
    BY <1>9, <2>1, <2>3 DEF TaskResult, TaskTypes, AllTasks
  <2> QED BY <1>9, <2>2, <2>3 DEF TaskResult
<1> QED
  BY <1>2, <1>3, <1>4, <1>5, <1>7, <1>8, <1>9 DEF Next, Execute, Result

LEMMA WorkersCounted ==
  ASSUME BuildInv, SceneTypes, TaskTypes
  PROVE  /\ IsFiniteSet(Active) /\ IsFiniteSet(sq_live)
         /\ Cardinality(Active) \in Nat /\ Cardinality(sq_live) \in Nat
         /\ b.threads \in Nat \ {0}
<1>1. Active \in SUBSET AllTasks
  BY DEF Active, TaskTypes
<1>2. sq_live \in SUBSET AllTasks
  BY SQFacts DEF SceneTypes
<1>3. IsFiniteSet(AllTasks) /\ b.threads \in Nat \ {0}
  BY DEF BuildInv, IsBuild, AllTasks
<1> QED BY <1>1, <1>2, <1>3, FS_Subset, FS_CardinalityType

\* Workers that only get less stay within the threads.
LEMMA FewerWorkers ==
  ASSUME BuildInv, SceneTypes, TaskTypes, ThreadsInv, b' = b,
         Active' \subseteq Active, sq_live' \subseteq sq_live
  PROVE  ThreadsInv'
<1>1. Cardinality(Active') \in Nat /\ Cardinality(Active') <= Cardinality(Active)
  BY WorkersCounted, FS_Subset, FS_CardinalityType
<1>2. Cardinality(sq_live') \in Nat /\ Cardinality(sq_live') <= Cardinality(sq_live)
  BY WorkersCounted, FS_Subset, FS_CardinalityType
<1>3. Cardinality(Active) + Cardinality(sq_live) <= b.threads
  BY DEF ThreadsInv
<1>4. Cardinality(Active') + Cardinality(sq_live') <= b.threads
  BY <1>1, <1>2, <1>3, WorkersCounted
<1> QED BY <1>4 DEF ThreadsInv

LEMMA ThreadsStep ==
  BuildInv /\ SceneTypes /\ TaskTypes /\ ThreadsInv /\ [Next]_vars => ThreadsInv'
<1> SUFFICES ASSUME BuildInv, SceneTypes, TaskTypes, ThreadsInv, [Next]_vars PROVE ThreadsInv'
  OBVIOUS
<1>1. CASE \/ ReadOn \/ NoScene \/ Update \/ Wait \/ End \/ Finish \/ Interrupt
           \/ FinishNow \/ Over \/ BreakDeadlock \/ UNCHANGED vars
  <2>1. UNCHANGED <<b, sq_live, runq_running, runq_complete, failed_tids>>
    BY <1>1 DEF ReadOn, NoScene, Update, Wait, End, Finish, Interrupt, FinishNow, Over,
                BreakDeadlock
  <2> QED BY <2>1, FewerWorkers DEF Active
<1>2. ASSUME NEW s \in b.setscene, SkipUnneeded(s) \/ FailOutright(s) PROVE ThreadsInv'
  BY <1>2, FewerWorkers DEF SkipUnneeded, FailOutright, Active
<1>3. ASSUME NEW s, NEW ok, SceneResult(s, ok) PROVE ThreadsInv'
  BY <1>3, FewerWorkers DEF SceneResult, Active
<1>4. ASSUME NEW t, SkipTask(t) PROVE ThreadsInv'
  BY <1>4, FewerWorkers DEF SkipTask, TaskDone, Active
<1>5. ASSUME NEW t, NEW ok, TaskResult(t, ok) PROVE ThreadsInv'
  BY <1>5, FewerWorkers DEF TaskResult, TaskDone, Active
<1>6. ASSUME NEW s \in b.setscene, StartScene(s) PROVE ThreadsInv'
  <2>1. b' = b /\ Active' = Active /\ sq_live' = sq_live \cup {s} /\ CanStart
    BY <1>6 DEF StartScene, MayTry, SceneReady, Active
  <2>2. Cardinality(sq_live') <= Cardinality(sq_live) + 1 /\ Cardinality(sq_live') \in Nat
    <3>1. /\ IsFiniteSet(sq_live \cup {s})
          /\ Cardinality(sq_live \cup {s}) \in {Cardinality(sq_live), Cardinality(sq_live) + 1}
      BY WorkersCounted, FS_AddElement
    <3> QED BY <2>1, <3>1, WorkersCounted
  <2> QED BY <2>1, <2>2, WorkersCounted DEF ThreadsInv, CanStart
<1>7. ASSUME NEW t, RunTask(t) PROVE ThreadsInv'
  <2>1. b' = b /\ sq_live' = sq_live /\ CanStart
    BY <1>7 DEF RunTask, MayRun
  <2>2. Active' \in SUBSET (Active \cup {t})
    BY <1>7 DEF RunTask, Active
  <2>3. IsFiniteSet(Active \cup {t}) /\ Cardinality(Active \cup {t}) <= Cardinality(Active) + 1
    BY WorkersCounted, FS_AddElement
  <2>4. /\ Cardinality(Active') <= Cardinality(Active \cup {t}) /\ Cardinality(Active') \in Nat
        /\ Cardinality(Active \cup {t}) \in Nat
    BY <2>2, <2>3, FS_Subset, FS_CardinalityType
  <2> QED BY <2>1, <2>3, <2>4, WorkersCounted DEF ThreadsInv, CanStart
<1> QED
  BY <1>1, <1>2, <1>3, <1>4, <1>5, <1>6, <1>7 DEF Next, Execute, Result

LEMMA TypesInit == Init => PlaceTypes /\ SceneTypes /\ TaskTypes /\ ThreadsInv
<1> SUFFICES ASSUME Init PROVE PlaceTypes /\ SceneTypes /\ TaskTypes /\ ThreadsInv
  OBVIOUS
<1>1. BuildInv
  BY BuildKept
<1>2. PlaceTypes
  <2>1. (b.setscene = {}) \in BOOLEAN
    OBVIOUS
  <2> QED BY <2>1 DEF Init, PlaceTypes
<1>3. SceneTypes
  <2>1. b.current \subseteq b.setscene
    BY <1>1 DEF BuildInv, IsBuild
  <2>2. \A s \in DOMAIN b.deferred : {s, b.deferred[s]} \subseteq b.setscene
    BY <1>1 DEF BuildInv, IsBuild
  <2> QED BY <2>1, <2>2 DEF Init, SceneTypes
<1>4. TaskTypes
  BY <1>1, SQFacts DEF Init, TaskTypes
<1>5. Active = {} /\ sq_live = {}
  BY DEF Init, Active
<1> QED BY <1>1, <1>2, <1>3, <1>4, <1>5, FS_EmptySet DEF ThreadsInv, BuildInv, IsBuild

\* execute() keeps every set to what it is a set of, and never has more workers than
\* BB_NUMBER_THREADS, in any build.
THEOREM TypeCorrect == Spec => []TypeOK
<1> DEFINE Inv == BuildInv /\ PlaceTypes /\ SceneTypes /\ TaskTypes /\ ThreadsInv
<1>1. Init => Inv
  BY BuildKept, TypesInit
<1>2. Inv /\ [Next]_vars => Inv'
  BY BuildKept, PlaceStep, SceneTypesStep, TaskTypesStep, ThreadsStep
<1>3. Inv => TypeOK
  BY DEF PlaceTypes, SceneTypes, TaskTypes, ThreadsInv, TypeOK
<1> QED BY <1>1, <1>2, <1>3, PTL DEF Spec

-----------------------------------------------------------------------------
\* What covers a task that is skipped, and keeps one from being skipped, is decided.
PlanInv == tasks_covered \subseteq Covered /\ tasks_notcovered \subseteq NotCovered

\* What is built is not covered, and what has been started is built, covered, or was
\* there.
BuiltInv ==
  /\ built \subseteq NotCovered \cap runq_running
  /\ runq_running \subseteq built \cup b.stamped \cup Covered

\* What is covered though it was never restored, and has no stamp, is used only by what is
\* covered too.
UnneededInv ==
  \A d \in scenequeue_covered \ (restored \cup b.current \cup b.stamped) :
    d \notin sq.unskippable /\ Users(b, d) \subseteq scenequeue_covered

\* No setscene task that another needs restored needs one restored itself.
NoChain(build) == \A e, f \in build.hard : e[2] # f[1]

MissInv == PlanInv /\ BuiltInv /\ UnneededInv

\* What falls with s is undecided.
LEMMA FallsUndecided ==
  ASSUME BuildInv, NEW s \in b.setscene
  PROVE  /\ s \in Falls(s) /\ Falls(s) \subseteq b.setscene
         /\ Falls(s) \subseteq {s} \cup Undecided
<1> DEFINE S == {s} \cup Undecided
<1>1. S \in SUBSET b.setscene
  BY DEF Undecided
<1>2. \A y \in S : sq.hard[y] \ Decided \subseteq S
  BY <1>1, SQFacts DEF Undecided
<1> QED BY <1>1, <1>2 DEF Falls

\* A step that decides setscene tasks: which, and how.
SceneKept == UNCHANGED <<scenequeue_covered, scenequeue_notcovered>>
OneCovered(s) ==
  scenequeue_covered' = scenequeue_covered \cup {s} /\ UNCHANGED scenequeue_notcovered
SomeFall(s) ==
  scenequeue_notcovered' = scenequeue_notcovered \cup Falls(s) /\ UNCHANGED scenequeue_covered

\* What was put off is covered after all, since it has a stamp by now.
Stamped(s) ==
  /\ s \in DOMAIN sq_deferred \cap b.setscene
  /\ s \in b.current \cup b.stamped \cup (built \cap runq_complete)
  /\ OneCovered(s)

LEMMA DecideSteps ==
  ASSUME SceneInv, SceneTypes, [Next]_vars
  PROVE  \/ SceneKept
         \/ \E s \in Undecided :
              OneCovered(s) \/ (SomeFall(s) /\ s \notin DOMAIN sq_deferred')
         \/ \E s : Stamped(s)
         \/ BreakDeadlock /\ \E s \in b.setscene : SomeFall(s)
<1>1. CASE \/ ReadOn \/ NoScene \/ Update \/ Wait \/ End \/ Finish \/ Interrupt
           \/ FinishNow \/ Over \/ UNCHANGED vars
  <2>1. SceneKept
    BY <1>1 DEF ReadOn, NoScene, Update, Wait, End, Finish, Interrupt, FinishNow, Over,
                SceneKept
  <2> QED BY <2>1
<1>2. CASE BreakDeadlock
  <2>1. PICK s \in DOMAIN sq_deferred :
          \/ SceneNotCovered(sq_deferred[s])
          \/ UNCHANGED <<sceneVars, holdoff_need_update>>
    BY <1>2 DEF BreakDeadlock
  <2>2. sq_deferred[s] \in b.setscene
    BY <2>1 DEF SceneTypes
  <2> QED BY <1>2, <2>1, <2>2 DEF SceneNotCovered, SomeFall, SceneKept
<1>3. ASSUME NEW s \in b.setscene, SkipUnneeded(s) \/ FailOutright(s)
      PROVE  /\ s \in Undecided
             /\ OneCovered(s) \/ (SomeFall(s) /\ s \notin DOMAIN sq_deferred')
  <2>1. s \in Undecided /\ s \notin DOMAIN sq_deferred'
    BY <1>3 DEF SkipUnneeded, FailOutright, MayTry, SceneReady, SceneInv, Undecided, Decided,
                Tried
  <2> QED BY <1>3, <2>1 DEF SkipUnneeded, FailOutright, SceneCovered, SceneNotCovered,
                            OneCovered, SomeFall
<1>4. ASSUME NEW s, NEW ok, SceneResult(s, ok)
      PROVE  /\ s \in Undecided
             /\ OneCovered(s) \/ (SomeFall(s) /\ s \notin DOMAIN sq_deferred')
  <2>1. s \in Undecided /\ s \notin DOMAIN sq_deferred'
    BY <1>4 DEF SceneResult, SceneInv
  <2> QED BY <1>4, <2>1 DEF SceneResult, SceneCovered, SceneNotCovered, OneCovered, SomeFall
<1>5. ASSUME NEW s, StartScene(s) \/ RunTask(s) PROVE SceneKept
  BY <1>5 DEF StartScene, RunTask, SceneKept
<1>6. ASSUME NEW t, SkipTask(t) \/ \E ok \in BOOLEAN : TaskResult(t, ok)
      PROVE  SceneKept \/ \E s : Stamped(s)
  <2>1. MaybeCovered
    BY <1>6, TaskSteps
  <2>2. ASSUME NEW s \in DOMAIN sq_deferred,
               s \in b.current \cup b.stamped \cup (built \cap runq_complete), SceneCovered(s)
        PROVE  Stamped(s)
    BY <2>2 DEF Stamped, SceneCovered, OneCovered, SceneTypes
  <2> QED BY <2>1, <2>2 DEF MaybeCovered, SceneKept
<1> QED BY <1>1, <1>2, <1>3, <1>4, <1>5, <1>6 DEF Next, Execute, Result

LEMMA DecidedStays ==
  ASSUME SceneInv, SceneTypes, [Next]_vars
  PROVE  /\ scenequeue_covered \subseteq scenequeue_covered'
         /\ scenequeue_notcovered \subseteq scenequeue_notcovered'
  BY DecideSteps DEF SceneKept, OneCovered, SomeFall, Stamped

LEMMA DeferredShrinks == [Next]_vars => DOMAIN sq_deferred' \subseteq DOMAIN sq_deferred
<1> SUFFICES ASSUME [Next]_vars PROVE DOMAIN sq_deferred' \subseteq DOMAIN sq_deferred
  OBVIOUS
<1>1. ASSUME NEW s, Tried(s) PROVE DOMAIN sq_deferred' \subseteq DOMAIN sq_deferred
  BY <1>1 DEF Tried
<1>2. ASSUME NEW s, SkipUnneeded(s) \/ FailOutright(s) \/ StartScene(s)
      PROVE  DOMAIN sq_deferred' \subseteq DOMAIN sq_deferred
  BY <1>1, <1>2 DEF SkipUnneeded, FailOutright, StartScene
<1>3. CASE BreakDeadlock
  BY <1>1, <1>3 DEF BreakDeadlock
<1>4. CASE UNCHANGED sq_deferred
  BY <1>4
<1> QED
  BY <1>2, <1>3, <1>4, TaskSteps DEF Next, Execute, ReadOn, NoScene, Update, Wait, End,
     Finish, RunTask, Interrupt, FinishNow, Over, Result, SceneResult

\* No setscene task that is put off needs another restored.
NoneHeld(build) == \A e \in build.hard : e[1] \notin DOMAIN build.deferred

\* So what is put off does not fall with another: it is not among the uncovered ones.
HeldInv ==
  /\ DOMAIN sq_deferred \subseteq DOMAIN b.deferred
  /\ DOMAIN sq_deferred \cap scenequeue_notcovered = {}

LEMMA NoneHeldFalls ==
  ASSUME BuildInv, NoneHeld(b), NEW s \in b.setscene
  PROVE  Falls(s) \cap DOMAIN b.deferred \subseteq {s}
<1> DEFINE S == {s} \cup (Undecided \ DOMAIN b.deferred)
<1>1. S \in SUBSET b.setscene
  BY DEF Undecided
<1>2. ASSUME NEW y \in S, NEW d \in sq.hard[y] \ Decided PROVE d \in S
  <2>1. d \in b.setscene /\ <<d, y>> \in b.hard
    BY <1>1, SQFacts
  <2> DEFINE e == <<d, y>>
  <2>2. e \in b.hard /\ e[1] = d
    BY <2>1
  <2> HIDE DEF e
  <2>3. d \notin DOMAIN b.deferred
    BY <2>2 DEF NoneHeld
  <2> QED BY <2>1, <2>3 DEF Undecided
<1>3. Falls(s) \subseteq S
  BY <1>1, <1>2 DEF Falls
<1> QED BY <1>3

LEMMA HeldStep ==
  BuildInv /\ SceneInv /\ SceneTypes /\ NoneHeld(b) /\ HeldInv /\ [Next /\ ~BreakDeadlock]_vars
    => HeldInv'
<1> SUFFICES ASSUME BuildInv, SceneInv, SceneTypes, NoneHeld(b), HeldInv,
                    [Next /\ ~BreakDeadlock]_vars
             PROVE  HeldInv'
  OBVIOUS
<1>1. b' = b /\ DOMAIN sq_deferred' \subseteq DOMAIN sq_deferred
  BY Unchanging, DeferredShrinks
<1>2. CASE SceneKept \/ (\E s \in Undecided : OneCovered(s)) \/ (\E s : Stamped(s))
  BY <1>1, <1>2 DEF HeldInv, SceneKept, OneCovered, Stamped
<1>3. ASSUME NEW s \in Undecided, SomeFall(s), s \notin DOMAIN sq_deferred' PROVE HeldInv'
  <2>1. Falls(s) \cap DOMAIN sq_deferred' = {}
    BY <1>1, <1>3, NoneHeldFalls DEF HeldInv, Undecided
  <2> QED BY <1>1, <1>3, <2>1 DEF HeldInv, SomeFall
<1>4. CASE UNCHANGED vars
  BY <1>4 DEF HeldInv
<1> QED BY <1>2, <1>3, <1>4, DecideSteps

\* One that fell, and was put off too, has been built and is looked at anew.
Returns == \E s \in DOMAIN sq_deferred \cap scenequeue_notcovered : Stamped(s)

LEMMA ApartStep ==
  BuildInv /\ SceneInv /\ SceneTypes /\ NoneInBoth /\ [Next]_vars
    => NoneInBoth' \/ BreakDeadlock \/ Returns
<1> SUFFICES ASSUME BuildInv, SceneInv, SceneTypes, NoneInBoth, [Next]_vars,
                    ~BreakDeadlock, ~Returns
             PROVE  NoneInBoth'
  OBVIOUS
<1>1. CASE SceneKept
  BY <1>1 DEF SceneKept, NoneInBoth
<1>2. ASSUME NEW s \in Undecided, OneCovered(s) \/ SomeFall(s) PROVE NoneInBoth'
  <2>1. Falls(s) \cap scenequeue_covered = {} /\ s \notin scenequeue_notcovered
    BY FallsUndecided DEF Undecided, Decided
  <2> QED BY <1>2, <2>1 DEF OneCovered, SomeFall, NoneInBoth
<1>3. ASSUME NEW s, Stamped(s) PROVE NoneInBoth'
  <2>1. s \notin scenequeue_notcovered
    BY <1>3 DEF Returns, Stamped
  <2> QED BY <1>3, <2>1 DEF Stamped, OneCovered, NoneInBoth
<1> QED BY <1>1, <1>2, <1>3, DecideSteps

LEMMA DoneIs == SceneDone = DoneOf(b, sq.unskippable, Decided)
  BY DEF SceneDone, DoneOf, AllTasks

LEMMA DoneIsNext == SceneDone' = DoneOf(b', sq'.unskippable, Decided')
  BY DEF SceneDone, DoneOf, AllTasks

\* What could make a task uncovered, and covered.
Asked ==
  scenequeue_notcovered \cup CantSkip \cup (sq.unskippable \ b.setscene)
    \cup UNION {sq.covered[s] : s \in scenequeue_notcovered}
Spared == scenequeue_covered \cup UNION {sq.covered[s] : s \in scenequeue_covered}

LEMMA Parts ==
  NotCovered = Asked \cap SceneDone /\ Covered = (Spared \ NotCovered) \cap SceneDone
  BY DEF NotCovered, Covered, Asked, Spared

LEMMA PartsNext ==
  NotCovered' = Asked' \cap SceneDone' /\ Covered' = (Spared' \ NotCovered') \cap SceneDone'
  BY DEF NotCovered, Covered, Asked, Spared

\* A task once covered, or uncovered, stays so.
LEMMA PlanGrows ==
  ASSUME BuildInv, SceneTypes, UNCHANGED <<b, sq>>, NoneInBoth',
         scenequeue_covered \subseteq scenequeue_covered',
         scenequeue_notcovered \subseteq scenequeue_notcovered',
         scenequeue_notcovered' \subseteq b.setscene
  PROVE  Covered \subseteq Covered' /\ NotCovered \subseteq NotCovered'
<1>1. SceneDone \subseteq SceneDone'
  <2>1. Decided \subseteq Decided'
    BY DEF Decided
  <2> QED BY <2>1, SQFacts, DoneGrows, DoneIs, DoneIsNext
<1>2. Asked \subseteq Asked' /\ Spared \subseteq Spared'
  BY DEF Asked, Spared, CantSkip
<1>3. /\ NotCovered' = Asked' \cap SceneDone'
      /\ Covered' = (Spared' \ NotCovered') \cap SceneDone'
  BY PartsNext
<1>4. ASSUME NEW x \in Covered, x \in Asked' PROVE FALSE
  <2>1. x \in SceneDone /\ x \notin Asked /\ x \in AllTasks
    BY <1>4, Parts DEF SceneDone
  <2>2. CASE x \in b.setscene
    <3>1. x \in Decided
      BY <2>1, <2>2, SQFacts, DoneEquation, DoneIs DEF AllTasks
    <3>2. x \in scenequeue_covered
      BY <2>1, <3>1 DEF Decided, Asked
    <3>3. x \in scenequeue_notcovered'
      <4>1. \A s \in scenequeue_notcovered' : x \notin sq.covered[s]
        BY <2>2, SQFacts
      <4> QED BY <1>4, <2>2, <4>1 DEF Asked, CantSkip
    <3> QED BY <3>2, <3>3 DEF NoneInBoth
  <2>3. CASE x \notin b.setscene
    <3>1. PICK f \in scenequeue_notcovered' : x \in sq.covered[f]
      BY <1>4, <2>1, <2>3 DEF Asked, CantSkip
    <3>2. f \in b.setscene /\ x \in Covers(b, f) /\ x \notin sq.unskippable
      BY <2>1, <2>3, <3>1, SQFacts DEF Asked
    <3>3. f \in Decided
      BY <2>1, <3>2, SQFacts, DoneIs, DoneMeansDecided DEF AllTasks
    <3>4. f \notin scenequeue_notcovered
      BY <2>1, <3>1 DEF Asked
    <3> QED BY <3>1, <3>3, <3>4 DEF Decided, NoneInBoth
  <2> QED BY <2>2, <2>3
<1> QED BY <1>1, <1>2, <1>3, <1>4, Parts

LEMMA PlanKept ==
  ASSUME UNCHANGED <<b, sq>>, SceneKept
  PROVE  Covered' = Covered /\ NotCovered' = NotCovered
<1>1. SceneDone' = SceneDone
  BY DEF SceneKept, SceneDone, Decided, AllTasks
<1>2. Asked' = Asked /\ Spared' = Spared
  BY DEF SceneKept, Asked, Spared, CantSkip
<1> QED BY <1>1, <1>2, Parts, PartsNext

\* Where there are no setscene tasks, the build asks for every task itself.
LEMMA AllAsked ==
  ASSUME BuildInv, b.setscene = {}
  PROVE  AllTasks \subseteq NotCovered
<1>1. ASSUME NEW t \in AllTasks PROVE t \in sq.unskippable
  BY <1>1, SQFacts, WantedOrCovered DEF AllTasks
<1>2. ASSUME NEW t \in AllTasks PROVE t \in SceneDone
  BY <1>1, <1>2, SQFacts, DoneIs, DoneEquation DEF AllTasks
<1> QED BY <1>1, <1>2, Parts DEF Asked

LEMMA MissInit == Init => MissInv
<1> SUFFICES ASSUME Init PROVE MissInv
  OBVIOUS
<1>1. BuildInv
  BY BuildKept
<1>2. PlanInv
  <2>1. tasks_covered = {}
    BY DEF Init
  <2>2. tasks_notcovered # {} => b.setscene = {} /\ tasks_notcovered = AllTasks
    BY DEF Init
  <2> QED BY <1>1, <2>1, <2>2, AllAsked DEF PlanInv
<1>3. BuiltInv
  BY DEF Init, BuiltInv
<1>4. UnneededInv
  BY DEF Init, UnneededInv
<1> QED BY <1>2, <1>3, <1>4 DEF MissInv

LEMMA PlanStep ==
  BuildInv /\ SceneInv /\ SceneTypes /\ SceneTypes' /\ PlanInv /\ NoneInBoth' /\ [Next]_vars
    => PlanInv' /\ Covered \subseteq Covered' /\ NotCovered \subseteq NotCovered'
<1> SUFFICES ASSUME BuildInv, SceneInv, SceneTypes, SceneTypes', PlanInv, NoneInBoth',
                    [Next]_vars
             PROVE  PlanInv' /\ Covered \subseteq Covered' /\ NotCovered \subseteq NotCovered'
  OBVIOUS
<1>1. UNCHANGED <<b, sq>>
  BY Unchanging
<1>2. Covered \subseteq Covered' /\ NotCovered \subseteq NotCovered'
  <2>1. scenequeue_notcovered' \subseteq b.setscene
    BY <1>1 DEF SceneTypes
  <2> QED BY <1>1, <2>1, PlanGrows, DecidedStays
<1>3. CASE Update
  <2>1. Covered' = Covered /\ NotCovered' = NotCovered
    BY <1>1, <1>3, PlanKept DEF Update, SceneKept
  <2>2. \/ UNCHANGED <<tasks_covered, tasks_notcovered>>
        \/ tasks_covered' = Covered /\ tasks_notcovered' = NotCovered
    BY <1>3 DEF Update, UpdateHoldoff
  <2> QED BY <1>2, <2>1, <2>2 DEF PlanInv
<1>4. CASE ~Update
  <2>1. UNCHANGED <<tasks_covered, tasks_notcovered>>
    BY <1>4 DEF Next, Execute, ReadOn, NoScene, Wait, BreakDeadlock, End, Finish,
         SkipUnneeded, FailOutright, StartScene, SkipTask, RunTask, Interrupt, FinishNow,
         Over, Result, SceneResult, TaskResult
  <2> QED BY <1>2, <2>1 DEF PlanInv
<1> QED BY <1>3, <1>4

LEMMA BuiltStep ==
  ASSUME PlanInv, BuiltInv, TaskTypes, [Next]_vars, b' = b,
         Covered \subseteq Covered', NotCovered \subseteq NotCovered'
  PROVE  BuiltInv'
<1>1. ASSUME UNCHANGED <<built, runq_running>> PROVE BuiltInv'
  BY <1>1 DEF BuiltInv
<1>2. ASSUME NEW t, SkipTask(t) PROVE BuiltInv'
  <2>1. /\ t \in tasks_covered \cup b.stamped
        /\ runq_running' = runq_running \cup {t} /\ built' = built
    BY <1>2 DEF SkipTask
  <2> QED BY <2>1 DEF PlanInv, BuiltInv
<1>3. ASSUME NEW t, RunTask(t) PROVE BuiltInv'
  <2>1. /\ t \in tasks_notcovered
        /\ runq_running' = runq_running \cup {t} /\ built' = built \cup {t}
    BY <1>3 DEF RunTask, MayRun, Choices
  <2> QED BY <2>1 DEF PlanInv, BuiltInv
<1>4. CASE ~(\E t \in AllTasks : SkipTask(t) \/ RunTask(t))
  BY <1>1, <1>4 DEF Next, Execute, ReadOn, NoScene, Update, Wait, BreakDeadlock, End, Finish,
         SkipUnneeded, FailOutright, StartScene, Interrupt, FinishNow,
         Over, Result, SceneResult, TaskResult
<1> QED BY <1>2, <1>3, <1>4

LEMMA UnneededStep ==
  ASSUME BuildInv, SceneInv, SceneTypes, BuiltInv, UnneededInv, NoChain(b), NoneInBoth',
         [Next]_vars, UNCHANGED <<b, sq>>
  PROVE  UnneededInv'
<1>1. scenequeue_covered \subseteq scenequeue_covered'
  BY DecidedStays
<1>2. ASSUME restored \subseteq restored',
             scenequeue_covered' \subseteq scenequeue_covered \cup restored'
      PROVE  UnneededInv'
  BY <1>1, <1>2 DEF UnneededInv
<1>3. ASSUME NEW s \in b.setscene, SkipUnneeded(s) PROVE UnneededInv'
  <2>1. Users(b, s) \subseteq scenequeue_covered
    <3>1. PICK e \in sq.revdeps[s] : sq.revdeps[s] \subseteq scenequeue_covered
      BY <1>3 DEF SkipUnneeded
    <3>2. SceneRevdeps(b, s) = sq.revdeps[s]
      BY SQFacts
    <3>3. CASE \E x \in b.setscene : <<x, s>> \in b.hard
      <4>1. PICK x \in b.setscene : <<x, s>> \in b.hard
        BY <3>3
      <4>2. <<s, e>> \in b.hard
        BY <3>1, <3>2, <3>3 DEF SceneRevdeps
      <4> QED BY <4>1, <4>2 DEF NoChain
    <3>4. CASE ~\E x \in b.setscene : <<x, s>> \in b.hard
      BY <3>1, <3>2, <3>4 DEF SceneRevdeps
    <3> QED BY <3>3, <3>4
  <2>2. s \notin sq.unskippable /\ scenequeue_covered' = scenequeue_covered \cup {s}
        /\ restored' = restored
    BY <1>3 DEF SkipUnneeded, SceneCovered
  <2> QED BY <2>1, <2>2 DEF UnneededInv
<1>4. ASSUME NEW s, NEW ok, SceneResult(s, ok) PROVE UnneededInv'
  BY <1>2, <1>4 DEF SceneResult, SceneCovered, SceneNotCovered
<1>5. ASSUME NEW s, FailOutright(s) \/ StartScene(s) \/ RunTask(s)
      PROVE  UnneededInv'
  BY <1>2, <1>5 DEF FailOutright, SceneNotCovered, StartScene, RunTask
<1>6. ASSUME NEW t, SkipTask(t) \/ \E ok \in BOOLEAN : TaskResult(t, ok) PROVE UnneededInv'
  <2>1. MaybeCovered /\ restored' = restored
    BY <1>6, TaskSteps
  <2>2. ASSUME NEW s \in DOMAIN sq_deferred,
               s \in b.current \cup b.stamped \cup (built \cap runq_complete), SceneCovered(s)
        PROVE  UnneededInv'
    <3>1. scenequeue_covered' = scenequeue_covered \cup {s} /\ s \in b.setscene
          /\ scenequeue_notcovered' = scenequeue_notcovered
      BY <2>2 DEF SceneCovered, SceneTypes
    <3>2. s \notin built
      <4>1. SUFFICES ASSUME s \in Asked PROVE FALSE
        BY Parts DEF BuiltInv
      <4>2. s \in scenequeue_notcovered
        <5>1. \A f \in scenequeue_notcovered : s \notin sq.covered[f]
          BY <3>1, SQFacts DEF SceneTypes
        <5> QED BY <3>1, <4>1, <5>1 DEF Asked, CantSkip
      <4> QED BY <3>1, <4>2 DEF NoneInBoth
    <3>3. s \in b.current \cup b.stamped
      BY <2>2, <3>2
    <3> QED BY <2>1, <3>1, <3>3 DEF UnneededInv
  <2>3. CASE UNCHANGED <<sceneVars, holdoff_need_update>>
    BY <1>2, <2>1, <2>3
  <2> QED BY <2>1, <2>2, <2>3 DEF MaybeCovered
<1>7. CASE BreakDeadlock
  <2>1. restored' = restored /\ scenequeue_covered' = scenequeue_covered
    BY <1>7 DEF BreakDeadlock, SceneNotCovered
  <2> QED BY <1>2, <2>1
<1>8. CASE \/ ReadOn \/ NoScene \/ Update \/ Wait \/ End \/ Finish \/ Interrupt
           \/ FinishNow \/ Over \/ UNCHANGED vars
  <2>1. restored' = restored /\ scenequeue_covered' = scenequeue_covered
    BY <1>8 DEF ReadOn, NoScene, Update, Wait, End, Finish, Interrupt, FinishNow, Over
  <2> QED BY <1>2, <2>1
<1> QED BY <1>3, <1>4, <1>5, <1>6, <1>7, <1>8 DEF Next, Execute, Result

\* Whatever made a task uncovered makes what it depends on uncovered too, or a setscene
\* task that is asked for, or used by one that fell.
LEMMA NothingMissed ==
  ASSUME BuildInv, SceneTypes, TaskTypes, OrderInv, NoneInBoth, MissInv
  PROVE  NothingMissing
<1> SUFFICES ASSUME NEW t \in built, NEW d \in b.depends[t],
                    d \notin built \cup restored \cup b.stamped \cup b.current
             PROVE  FALSE
  BY DEF NothingMissing
<1>1. t \in AllTasks /\ d \in AllTasks /\ d \in Tasks(b) /\ t \in Tasks(b)
  BY SQFacts DEF MissInv, BuiltInv, TaskTypes, IsGraph, AllTasks
<1>2. d \in runq_running
  BY DEF MissInv, BuiltInv, OrderInv
<1>3. t \in Asked /\ d \in Spared /\ d \notin Asked /\ d \in SceneDone
  BY <1>2, Parts DEF MissInv, BuiltInv
<1>6. ASSUME t \in sq.unskippable \ b.setscene PROVE d \in sq.unskippable
  <2> DEFINE tops == Roots(b) \cup (b.targets \ b.setscene)
  <2>1. tops \subseteq Tasks(b) /\ sq.unskippable = Wanted(b, tops)
    BY SQFacts DEF AllTasks
  <2> HIDE DEF tops
  <2> QED BY <1>6, <2>1, SQFacts, WantedCloses
<1>4. CASE d \in b.setscene
  <2>1. d \in scenequeue_covered
    BY <1>3, <1>4, SQFacts DEF Spared, SceneTypes
  <2>2. d \notin sq.unskippable /\ Users(b, d) \subseteq scenequeue_covered
    BY <2>1 DEF MissInv, UnneededInv
  <2>3. CASE t \in scenequeue_notcovered
    <3>1. t \in b.setscene
      BY <2>3 DEF SceneTypes
    <3>2. t \in Users(b, d)
      BY <1>1, <3>1, BelowCases, SQFacts DEF Users
    <3> QED BY <2>2, <2>3, <3>2 DEF NoneInBoth
  <2>4. CASE t \in CantSkip \cup (sq.unskippable \ b.setscene)
    <3>1. t \in sq.unskippable \ b.setscene
      BY <2>4, SQFacts DEF CantSkip, Wanted
    <3> QED BY <1>6, <2>2, <3>1
  <2>5. ASSUME NEW s \in scenequeue_notcovered, t \in sq.covered[s] PROVE FALSE
    <3>1. s \in b.setscene /\ s \in Tasks(b) /\ t \in Below(b)[s] \ b.setscene
      BY <2>5, SQFacts DEF SceneTypes, Covers, AllTasks
    <3>2. s \in Users(b, d)
      BY <3>1, BelowCloses, SQFacts DEF Users
    <3> QED BY <2>2, <3>2 DEF NoneInBoth
  <2> QED BY <1>3, <2>3, <2>4, <2>5 DEF Asked
<1>5. CASE d \notin b.setscene
  <2>3. CASE t \in scenequeue_notcovered
    <3>1. t \in b.setscene
      BY <2>3 DEF SceneTypes
    <3>2. d \in sq.covered[t]
      BY <1>1, <1>5, <3>1, BelowCases, SQFacts DEF Covers
    <3> QED BY <1>3, <2>3, <3>2 DEF Asked
  <2>4. CASE t \in CantSkip \cup (sq.unskippable \ b.setscene)
    <3>1. t \in sq.unskippable \ b.setscene
      BY <2>4, SQFacts DEF CantSkip, Wanted
    <3>2. d \in sq.unskippable
      BY <1>6, <3>1
    <3> QED BY <1>3, <1>5, <3>2 DEF Asked
  <2>5. ASSUME NEW s \in scenequeue_notcovered, t \in sq.covered[s] PROVE FALSE
    <3>1. s \in b.setscene /\ s \in Tasks(b) /\ t \in Below(b)[s] \ b.setscene
      BY <2>5, SQFacts DEF SceneTypes, Covers, AllTasks
    <3>2. d \in sq.covered[s]
      BY <1>5, <3>1, BelowCloses, SQFacts DEF Covers
    <3> QED BY <1>3, <3>2 DEF Asked
  <2> QED BY <1>3, <2>3, <2>4, <2>5 DEF Asked
<1> QED BY <1>4, <1>5

\* Two steps can put a task among the covered and the uncovered ones: the breaking of a
\* deadlock of deferred tasks, and the second look at one that was put off, fell meanwhile
\* with one it needs restored, and has a stamp by now.  Nothing else decides a setscene
\* task that has been decided.
THEOREM TwoWays == Spec => [][NoneInBoth => NoneInBoth' \/ BreakDeadlock \/ Returns]_vars
<1> DEFINE Inv == BuildInv /\ SceneInv /\ SceneTypes
<1>1. Init => Inv
  BY BuildKept, SceneInit, TypesInit
<1>2. Inv /\ [Next]_vars => Inv'
  BY BuildKept, SceneStep, SceneTypesStep
<1>3. Inv /\ [Next]_vars => [NoneInBoth => NoneInBoth' \/ BreakDeadlock \/ Returns]_vars
  BY ApartStep
<1> QED BY <1>1, <1>2, <1>3, PTL DEF Spec

\* The second is not there in a build in which no task that is put off needs another
\* restored: no task is then both restored, or skipped for one that was, and to be built,
\* unless it was put there to break a deadlock.
THEOREM OnlyBreaking ==
  ASSUME \A build \in Builds : NoneHeld(build)
  PROVE  Spec /\ [][~BreakDeadlock]_vars => []NoneInBoth
<1> DEFINE Inv == BuildInv /\ NoneHeld(b) /\ SceneInv /\ SceneTypes /\ HeldInv /\ NoneInBoth
<1>1. Init => Inv
  <2> SUFFICES ASSUME Init PROVE Inv
    OBVIOUS
  <2>1. BuildInv /\ SceneInv /\ SceneTypes
    BY BuildKept, SceneInit, TypesInit
  <2>2. NoneHeld(b) /\ HeldInv /\ NoneInBoth
    BY DEF Init, HeldInv, NoneInBoth
  <2> QED BY <2>1, <2>2
<1>2. Inv /\ [Next]_vars /\ [~BreakDeadlock]_vars => Inv'
  <2> SUFFICES ASSUME Inv, [Next /\ ~BreakDeadlock]_vars PROVE Inv'
    OBVIOUS
  <2>1. [Next]_vars
    OBVIOUS
  <2>2. BuildInv' /\ SceneInv' /\ SceneTypes'
    BY <2>1, BuildKept, SceneStep, SceneTypesStep
  <2>3. NoneHeld(b)' /\ HeldInv'
    BY <2>1, HeldStep, Unchanging DEF NoneHeld
  <2>4. CASE UNCHANGED vars
    BY <2>4, <2>2, <2>3 DEF NoneInBoth
  <2>5. CASE ~BreakDeadlock
    <3>1. ~Returns
      BY DEF Returns, HeldInv
    <3> QED BY <2>1, <2>2, <2>3, <2>5, <3>1, ApartStep
  <2> QED BY <2>4, <2>5
<1> QED BY <1>1, <1>2, PTL DEF Spec

\* In a build in which no two tasks have the same hash the deadlock is never there.
NoneDeferred == DOMAIN sq_deferred = {}

LEMMA DeferredStep == NoneDeferred /\ [Next]_vars => NoneDeferred' /\ [~BreakDeadlock]_vars
<1> SUFFICES ASSUME NoneDeferred, [Next]_vars PROVE NoneDeferred' /\ [~BreakDeadlock]_vars
  OBVIOUS
<1>1. ~BreakDeadlock
  <2>1. BreakDeadlock => \E s \in DOMAIN sq_deferred : Tried(s)
    BY DEF BreakDeadlock
  <2> QED BY <2>1 DEF NoneDeferred
<1>2. ASSUME NEW s, Tried(s) PROVE NoneDeferred'
  BY <1>2 DEF Tried, NoneDeferred
<1>3. ASSUME NEW t, TaskDone(t) PROVE NoneDeferred'
  BY <1>3, TaskDoneScene DEF NoneDeferred
<1>4. ASSUME UNCHANGED sq_deferred PROVE NoneDeferred'
  BY <1>4 DEF NoneDeferred
<1>5. NoneDeferred'
  BY <1>1, <1>2, <1>3, <1>4 DEF Next, Execute, ReadOn, NoScene, Update, Wait, End, Finish,
         SkipUnneeded, FailOutright, StartScene, SkipTask, RunTask, Interrupt, FinishNow,
         Over, Result, SceneResult, TaskResult
<1> QED BY <1>1, <1>5

\* With tasks of distinct hashes none is both covered and uncovered.
THEOREM Distinct ==
  ASSUME \A build \in Builds : DOMAIN build.deferred = {}
  PROVE  Spec => []NoneInBoth
<1>1. Init => NoneDeferred
  BY DEF Init, NoneDeferred
<1>2. \A build \in Builds : NoneHeld(build)
  BY DEF NoneHeld
<1>3. Spec /\ [][~BreakDeadlock]_vars => []NoneInBoth
  BY <1>2, OnlyBreaking
<1> QED BY <1>1, <1>3, DeferredStep, PTL DEF Spec

LEMMA MissStep ==
  ASSUME BuildInv, NoChain(b), SceneInv, SceneTypes, SceneTypes', TaskTypes, MissInv,
         NoneInBoth', [Next]_vars
  PROVE  MissInv'
<1>1. PlanInv' /\ Covered \subseteq Covered' /\ NotCovered \subseteq NotCovered'
  BY PlanStep DEF MissInv
<1>2. UNCHANGED <<b, sq>>
  BY Unchanging
<1>3. BuiltInv'
  BY <1>1, <1>2, BuiltStep DEF MissInv
<1>4. UnneededInv'
  BY <1>2, UnneededStep DEF MissInv
<1> QED BY <1>1, <1>3, <1>4 DEF MissInv

\* What a task that is built depends on is there: in any build in which no setscene task
\* that is needed restored needs another restored, as long as none ends up in both sets.
THEOREM NoneMissed ==
  ASSUME \A build \in Builds : NoChain(build)
  PROVE  Spec /\ []NoneInBoth => []NothingMissing
<1> DEFINE Inv == /\ BuildInv /\ NoChain(b) /\ SceneInv /\ SceneTypes /\ TaskTypes
                  /\ OrderInv /\ MissInv
<1>1. Init => Inv
  BY BuildKept, SceneInit, TypesInit, OrderInit, MissInit DEF Init
<1>2. Inv /\ NoneInBoth' /\ [Next]_vars => Inv'
  <2> SUFFICES ASSUME Inv, NoneInBoth', [Next]_vars PROVE Inv'
    OBVIOUS
  <2>1. NoChain(b)'
    BY Unchanging DEF NoChain
  <2>2. SceneTypes' /\ TaskTypes' /\ BuildInv' /\ SceneInv' /\ OrderInv'
    BY BuildKept, SceneStep, OrderStep, SceneTypesStep, TaskTypesStep
  <2> QED BY <2>1, <2>2, MissStep
<1>3. Inv /\ NoneInBoth => NothingMissing
  BY NothingMissed
<1> QED BY <1>1, <1>2, <1>3, PTL DEF Spec

\* With tasks of distinct hashes nothing that is built misses anything.
COROLLARY DistinctNoneMissed ==
  ASSUME \A build \in Builds : NoChain(build) /\ DOMAIN build.deferred = {}
  PROVE  Spec => []NothingMissing
<1>1. Spec => []NoneInBoth
  BY Distinct
<1>2. Spec /\ []NoneInBoth => []NothingMissing
  BY NoneMissed
<1> QED BY <1>1, <1>2, PTL

-----------------------------------------------------------------------------
\* A setscene task may be tried as soon as all that goes before it is decided, and runs
\* until it is.
ReadyInv ==
  /\ sq_running \subseteq Decided \cup sq_live
  /\ sqdone => Undecided = {}
  /\ \A s \in b.setscene : sq.revdeps[s] \subseteq Decided => s \in sq_buildable

\* The sets are up to date, and of what they allow all that is ready is buildable.
FreshInv ==
  holdoff_need_update = FALSE =>
    /\ tasks_covered = Covered /\ tasks_notcovered = NotCovered
    /\ Undecided = {} => holdoff_tasks = {}
    /\ \A x \in tasks_covered \cup tasks_notcovered :
         b.depends[x] \subseteq runq_complete => x \in runq_buildable

\* No setscene task that could have been tried was left.
ScanInv ==
  at \in {"holdoff", "normal"} /\ ~sqdone /\ CanStart =>
    sq_buildable \ sq_running \subseteq DOMAIN sq_deferred

LEMMA ReadyInit == Init => ReadyInv /\ FreshInv /\ ScanInv
<1> SUFFICES ASSUME Init PROVE ReadyInv /\ FreshInv /\ ScanInv
  OBVIOUS
<1>1. sq_running = b.current /\ Decided = b.current /\ (sqdone => b.setscene = {})
  BY DEF Init, Decided
<1>2. \A s \in b.setscene : sq.revdeps[s] \subseteq Decided => s \in sq_buildable
  BY <1>1 DEF Init
<1>3. ReadyInv
  BY <1>1, <1>2 DEF ReadyInv, Undecided
<1>4. FreshInv /\ ScanInv
  BY DEF Init, FreshInv, ScanInv
<1> QED BY <1>3, <1>4

LEMMA ReadyCover ==
  ASSUME BuildInv, SceneTypes, ReadyInv, NEW s \in b.setscene, SceneCovered(s),
         UNCHANGED <<b, sq, sqdone>>, sq_live \subseteq sq_live' \cup {s}
  PROVE  ReadyInv'
<1>1. Decided' = Decided \cup {s}
  BY DEF SceneCovered, Decided
<1>2. sq_running' \subseteq Decided' \cup sq_live'
  BY <1>1 DEF ReadyInv, SceneCovered
<1>3. sqdone' => Undecided' = {}
  BY <1>1 DEF ReadyInv, Undecided
<1>4. ASSUME NEW x \in b.setscene, sq.revdeps[x] \subseteq Decided' PROVE x \in sq_buildable'
  <2>1. CASE sq.revdeps[x] \subseteq Decided
    BY <2>1 DEF ReadyInv, SceneCovered
  <2>2. CASE s \in sq.revdeps[x]
    <3>1. x \in Unblocked({s})
      BY <1>4, <2>2, SQFacts DEF Unblocked
    <3> QED BY <3>1 DEF SceneCovered
  <2> QED BY <1>1, <1>4, <2>1, <2>2
<1> QED BY <1>2, <1>3, <1>4 DEF ReadyInv

LEMMA ReadyFall ==
  ASSUME BuildInv, SceneTypes, ReadyInv, NEW s \in b.setscene, SceneNotCovered(s),
         UNCHANGED <<b, sq, sqdone>>, sq_live \subseteq sq_live' \cup {s}
  PROVE  ReadyInv'
<1>1. Decided' = Decided \cup Falls(s) /\ s \in Falls(s) /\ Falls(s) \subseteq b.setscene
  BY FallsUndecided DEF SceneNotCovered, Decided
<1>2. sq_running' \subseteq Decided' \cup sq_live'
  BY <1>1 DEF ReadyInv, SceneNotCovered
<1>3. sqdone' => Undecided' = {}
  BY <1>1 DEF ReadyInv, Undecided
<1>4. ASSUME NEW x \in b.setscene, sq.revdeps[x] \subseteq Decided' PROVE x \in sq_buildable'
  <2>1. CASE sq.revdeps[x] \subseteq Decided
    BY <2>1 DEF ReadyInv, SceneNotCovered
  <2>2. ASSUME NEW y \in Falls(s), y \in sq.revdeps[x] PROVE x \in sq_buildable'
    <3>1. x \in Unblocked(Falls(s))
      BY <1>1, <1>4, <2>2, SQFacts DEF Unblocked
    <3> QED BY <3>1 DEF SceneNotCovered
  <2> QED BY <1>1, <1>4, <2>1, <2>2
<1> QED BY <1>2, <1>3, <1>4 DEF ReadyInv

LEMMA ReadyStep == BuildInv /\ SceneTypes /\ ReadyInv /\ [Next]_vars => ReadyInv'
<1> SUFFICES ASSUME BuildInv, SceneTypes, ReadyInv, [Next]_vars PROVE ReadyInv'
  OBVIOUS
<1>1. ASSUME UNCHANGED <<b, sq, sceneVars, sq_live, sqdone>> PROVE ReadyInv'
  BY <1>1 DEF ReadyInv, Undecided, Decided
<1>2. CASE \/ ReadOn \/ NoScene \/ Wait \/ End \/ Finish \/ Interrupt \/ FinishNow \/ Over
           \/ UNCHANGED vars
  BY <1>1, <1>2 DEF ReadOn, NoScene, Wait, End, Finish, Interrupt, FinishNow, Over
<1>3. CASE Update
  <2>1. UNCHANGED <<b, sq, sceneVars, sq_live>> /\ Undecided' = Undecided
    BY <1>3 DEF Update, Undecided, Decided
  <2>2. sqdone' => sqdone \/ ~SceneErrors'
    BY <1>3 DEF Update
  <2>3. ~SceneErrors' => Undecided' = {}
    BY DEF SceneErrors
  <2> QED BY <2>1, <2>2, <2>3 DEF ReadyInv, Decided
<1>4. CASE BreakDeadlock
  <2>1. PICK s \in DOMAIN sq_deferred :
          \/ SceneNotCovered(sq_deferred[s])
          \/ UNCHANGED <<sceneVars, holdoff_need_update>>
    BY <1>4 DEF BreakDeadlock
  <2>2. sq_deferred[s] \in b.setscene /\ UNCHANGED <<b, sq, sqdone, sq_live>>
    BY <1>4, <2>1 DEF BreakDeadlock, SceneTypes
  <2> QED BY <1>1, <2>1, <2>2, ReadyFall
<1>5. ASSUME NEW s \in b.setscene, SkipUnneeded(s) \/ FailOutright(s) PROVE ReadyInv'
  <2>1. UNCHANGED <<b, sq, sqdone, sq_live>> /\ (SceneCovered(s) \/ SceneNotCovered(s))
    BY <1>5 DEF SkipUnneeded, FailOutright
  <2> QED BY <2>1, ReadyCover, ReadyFall
<1>6. ASSUME NEW s \in b.setscene, StartScene(s) PROVE ReadyInv'
  BY <1>6 DEF StartScene, ReadyInv, Undecided, Decided
<1>7. ASSUME NEW s, NEW ok, SceneResult(s, ok) PROVE ReadyInv'
  <2>1. /\ UNCHANGED <<b, sq, sqdone>> /\ sq_live' = sq_live \ {s} /\ s \in b.setscene
        /\ (SceneCovered(s) \/ SceneNotCovered(s))
    BY <1>7 DEF SceneResult, SceneTypes
  <2> QED BY <2>1, ReadyCover, ReadyFall
<1>8. ASSUME NEW t, RunTask(t) PROVE ReadyInv'
  BY <1>1, <1>8 DEF RunTask
<1>9. ASSUME NEW t, SkipTask(t) \/ \E ok \in BOOLEAN : TaskResult(t, ok) PROVE ReadyInv'
  <2>1. MaybeCovered /\ UNCHANGED <<b, sq, sq_live, sqdone>>
    BY <1>9, TaskSteps
  <2>2. \A s \in DOMAIN sq_deferred : s \in b.setscene
    BY DEF SceneTypes
  <2> QED BY <1>1, <2>1, <2>2, ReadyCover DEF MaybeCovered
<1> QED
  BY <1>2, <1>3, <1>4, <1>5, <1>6, <1>7, <1>8, <1>9 DEF Next, Execute, Result

\* Tasks that complete make buildable what has all it needs by then.
LEMMA FreshKeeps ==
  ASSUME BuildInv, TaskTypes, FreshInv, UNCHANGED <<b, sq, holdVars, holdoff_need_update>>,
         SceneKept,
         \/ UNCHANGED <<runq_complete, runq_buildable>>
         \/ \E t : TaskDone(t)
  PROVE  FreshInv'
<1> SUFFICES ASSUME holdoff_need_update = FALSE PROVE FreshInv'
  BY DEF FreshInv
<1>1. Covered' = Covered /\ NotCovered' = NotCovered /\ Undecided' = Undecided
  BY PlanKept DEF SceneKept, Undecided, Decided
<1>2. ASSUME NEW x \in tasks_covered \cup tasks_notcovered,
             b.depends[x] \subseteq runq_complete'
      PROVE  x \in runq_buildable'
  <2>1. CASE UNCHANGED <<runq_complete, runq_buildable>>
    BY <1>2, <2>1 DEF FreshInv
  <2>2. ASSUME NEW t, TaskDone(t) PROVE x \in runq_buildable'
    <3>1. /\ runq_complete' = runq_complete \cup {t}
          /\ runq_buildable' = runq_buildable \cup Ready(t)
      BY <2>2 DEF TaskDone
    <3>2. CASE b.depends[x] \subseteq runq_complete
      BY <3>1, <3>2 DEF FreshInv
    <3>3. CASE t \in b.depends[x]
      <4>1. x \in Revdeps(b, t)
        BY <3>3 DEF Revdeps, TaskTypes, AllTasks
      <4>2. x \in Ready(t) \/ x \in runq_buildable
        BY <1>2, <4>1 DEF Ready, TaskTypes
      <4> QED BY <3>1, <4>2
    <3> QED BY <1>2, <3>1, <3>2, <3>3
  <2> QED BY <2>1, <2>2
<1> QED BY <1>1, <1>2 DEF FreshInv

LEMMA FreshStep == BuildInv /\ TaskTypes /\ FreshInv /\ [Next]_vars => FreshInv'
<1> SUFFICES ASSUME BuildInv, TaskTypes, FreshInv, [Next]_vars PROVE FreshInv'
  OBVIOUS
<1>1. UNCHANGED <<b, sq>>
  BY Unchanging
<1>2. ASSUME UNCHANGED <<holdVars, holdoff_need_update, scenequeue_covered,
                         scenequeue_notcovered, runq_complete, runq_buildable>>
      PROVE  FreshInv'
  BY <1>1, <1>2, FreshKeeps DEF SceneKept
<1>3. CASE \/ ReadOn \/ NoScene \/ Wait \/ End \/ Finish \/ Interrupt \/ FinishNow \/ Over
           \/ UNCHANGED vars
  BY <1>2, <1>3 DEF ReadOn, NoScene, Wait, End, Finish, Interrupt, FinishNow, Over
<1>4. ASSUME NEW s, SceneCovered(s) \/ SceneNotCovered(s) PROVE FreshInv'
  BY <1>4 DEF SceneCovered, SceneNotCovered, FreshInv
<1>5. CASE Update
  <2>1. CASE UNCHANGED <<holdVars, runq_buildable, holdoff_need_update>>
    BY <1>2, <1>5, <2>1 DEF Update
  <2>2. CASE /\ tasks_covered' = Covered /\ tasks_notcovered' = NotCovered
             /\ runq_buildable' = runq_buildable \cup
                  {t \in Covered \cup NotCovered : b.depends[t] \subseteq runq_complete}
             /\ holdoff_tasks' = Holdoff
    <3>1. SceneKept /\ runq_complete' = runq_complete
      BY <1>5 DEF Update, SceneKept
    <3>2. Covered' = Covered /\ NotCovered' = NotCovered /\ Undecided' = Undecided
      BY <1>1, <3>1, PlanKept DEF SceneKept, Undecided, Decided
    <3>3. Undecided = {} => Holdoff = {}
      BY DEF Holdoff
    <3> QED BY <1>1, <2>2, <3>1, <3>2, <3>3 DEF FreshInv
  <2> QED BY <1>5, <2>1, <2>2 DEF Update, UpdateHoldoff
<1>6. CASE BreakDeadlock
  <2>1. PICK s \in DOMAIN sq_deferred :
          \/ SceneNotCovered(sq_deferred[s])
          \/ UNCHANGED <<sceneVars, holdoff_need_update>>
    BY <1>6 DEF BreakDeadlock
  <2>2. UNCHANGED <<holdVars, runVars>>
    BY <1>6 DEF BreakDeadlock
  <2> QED BY <1>2, <1>4, <2>1, <2>2
<1>7. ASSUME NEW s, SkipUnneeded(s) \/ FailOutright(s) PROVE FreshInv'
  BY <1>4, <1>7 DEF SkipUnneeded, FailOutright
<1>8. ASSUME NEW s, StartScene(s) PROVE FreshInv'
  BY <1>2, <1>8 DEF StartScene
<1>9. ASSUME NEW s, NEW ok, SceneResult(s, ok) PROVE FreshInv'
  BY <1>4, <1>9 DEF SceneResult
<1>10. ASSUME NEW t, TaskDone(t), UNCHANGED holdVars PROVE FreshInv'
  <2>1. MaybeCovered
    BY <1>10, TaskDoneScene
  <2>2. CASE UNCHANGED <<sceneVars, holdoff_need_update>>
    BY <1>1, <1>10, <2>2, FreshKeeps DEF SceneKept
  <2> QED BY <1>4, <2>1, <2>2 DEF MaybeCovered
<1>11. ASSUME NEW t, SkipTask(t) PROVE FreshInv'
  BY <1>10, <1>11 DEF SkipTask
<1>12. ASSUME NEW t, RunTask(t) PROVE FreshInv'
  BY <1>2, <1>12 DEF RunTask
<1>13. ASSUME NEW t, NEW ok, TaskResult(t, ok) PROVE FreshInv'
  <2>1. UNCHANGED holdVars
    BY <1>13 DEF TaskResult
  <2>2. \/ TaskDone(t)
        \/ UNCHANGED <<sceneVars, runq_complete, runq_buildable, holdoff_need_update>>
    BY <1>13 DEF TaskResult
  <2> QED BY <1>2, <1>10, <2>1, <2>2
<1> QED
  BY <1>3, <1>5, <1>6, <1>7, <1>8, <1>9, <1>11, <1>12, <1>13 DEF Next, Execute, Result

LEMMA ScanStep == SceneTypes /\ ScanInv /\ [Next]_vars => ScanInv'
<1> SUFFICES ASSUME SceneTypes, ScanInv, [Next]_vars PROVE ScanInv'
  OBVIOUS
<1>1. ASSUME at' \notin {"holdoff", "normal"} PROVE ScanInv'
  BY <1>1 DEF ScanInv
<1>2. Return => at' \notin {"holdoff", "normal"}
  BY DEF Return
<1>3. CASE NoScene
  <2>1. \A s \in b.setscene : ~MayTry(s)
    BY <1>3 DEF NoScene
  <2>2. ~sqdone /\ CanStart => sq_buildable \ sq_running \subseteq DOMAIN sq_deferred
    BY <1>3, <2>1 DEF NoScene, MayTry, SceneReady, SceneTypes
  <2>3. CanStart' = CanStart
    BY <1>3 DEF NoScene, CanStart, Active
  <2> QED BY <1>3, <2>2, <2>3 DEF NoScene, ScanInv
<1>4. CASE Update
  <2>1. CanStart' = CanStart
    BY <1>4 DEF Update, CanStart, Active
  <2>2. /\ at = "holdoff" /\ (sqdone => sqdone')
        /\ UNCHANGED <<sq_buildable, sq_running, sq_deferred>>
    BY <1>4 DEF Update
  <2> QED BY <2>1, <2>2 DEF ScanInv
<1>5. ASSUME NEW s, StartScene(s) PROVE ScanInv'
  <2>1. Return \/ ~CanStart'
    BY <1>5 DEF StartScene
  <2> QED BY <1>1, <1>2, <2>1 DEF ScanInv
<1>6. CASE UNCHANGED vars
  BY <1>6 DEF ScanInv, CanStart, Active
<1>7. CASE Over
  BY <1>6, <1>7 DEF Over
<1>8. CASE ReadOn \/ End \/ Finish \/ Interrupt \/ FinishNow \/ Wait \/ BreakDeadlock
  BY <1>1, <1>2, <1>8 DEF ReadOn, End, Finish, Interrupt, FinishNow, Wait, BreakDeadlock
<1>9. ASSUME NEW s, SkipUnneeded(s) \/ FailOutright(s) \/ SkipTask(s) \/ RunTask(s)
      PROVE  ScanInv'
  BY <1>1, <1>2, <1>9 DEF SkipUnneeded, FailOutright, SkipTask, RunTask
<1>10. ASSUME NEW t, NEW ok, SceneResult(t, ok) \/ TaskResult(t, ok) PROVE ScanInv'
  BY <1>1, <1>10 DEF SceneResult, TaskResult
<1> QED
  BY <1>3, <1>4, <1>5, <1>6, <1>7, <1>8, <1>9, <1>10 DEF Next, Execute, Result

\* Once every setscene task is decided, every task is covered or not.
LEMMA AllPlanned ==
  ASSUME BuildInv, SceneTypes, Undecided = {}
  PROVE  SceneDone = AllTasks /\ Covered \cup NotCovered = AllTasks
<1>1. SceneDone = AllTasks
  BY SQFacts, AllDone, DoneIs DEF Undecided, AllTasks
<1>2. ASSUME NEW t \in AllTasks PROVE t \in Asked \/ t \in Spared
  <2>1. CASE t \in b.setscene
    BY <2>1 DEF Undecided, Decided, Asked, Spared
  <2>2. CASE t \notin b.setscene /\ t \notin sq.unskippable
    <3> DEFINE tops == Roots(b) \cup (b.targets \ b.setscene)
    <3>1. /\ tops \subseteq Tasks(b) /\ Roots(b) \subseteq tops
          /\ sq.unskippable = Wanted(b, tops)
      BY SQFacts DEF AllTasks
    <3> HIDE DEF tops
    <3>2. PICK s \in b.setscene : t \in Covers(b, s)
      BY <2>2, <3>1, SQFacts, WantedOrCovered DEF AllTasks
    <3>3. s \in Decided /\ t \in sq.covered[s]
      BY <3>2, SQFacts DEF Undecided
    <3> QED BY <3>3 DEF Decided, Asked, Spared
  <2>3. CASE t \in sq.unskippable \ b.setscene
    BY <2>3 DEF Asked
  <2> QED BY <2>1, <2>2, <2>3
<1> QED BY <1>1, <1>2, Parts

\* The sanity check finds nothing when the setscene tasks are all dealt with.
LEMMA NoErrors ==
  ASSUME BuildInv, SceneInv, SceneTypes, Undecided = {}, DOMAIN sq_deferred = {},
         holdoff_tasks = {}, FreshInv, holdoff_need_update = FALSE
  PROVE  ~SceneErrors
<1>1. SceneDone = AllTasks /\ tasks_covered \cup tasks_notcovered = AllTasks
  BY AllPlanned DEF FreshInv
<1>2. sq_running = b.setscene
  BY DEF SceneInv, SceneTypes, Undecided, Decided
<1>3. \A t \in AllTasks : b.depends[t] = {} => t \in runq_buildable
  BY <1>1 DEF FreshInv
<1> QED BY <1>1, <1>2, <1>3 DEF SceneErrors

SweepInv ==
  /\ BuildInv /\ OrderInv /\ SceneInv /\ HoldInv /\ PlaceTypes /\ SceneTypes /\ TaskTypes
  /\ ThreadsInv /\ ReadyInv /\ FreshInv /\ ScanInv

LEMMA SweepInit == Init => SweepInv
  BY BuildKept, OrderInit, SceneInit, TypesInit, ReadyInit DEF SweepInv

LEMMA SweepStep == SweepInv /\ [Next]_vars => SweepInv'
  BY BuildKept, OrderStep, SceneStep, HoldStep, PlaceStep, SceneTypesStep, TaskTypesStep,
     ThreadsStep, ReadyStep, FreshStep, ScanStep DEF SweepInv

AllSettled ==
  SweepInv /\ Undecided = {} /\ DOMAIN sq_deferred = {} /\ holdoff_tasks = {}
    /\ holdoff_need_update = FALSE

LEMMA NoErrorsNext == AllSettled' => ~SceneErrors'
<1>1. AllSettled => ~SceneErrors
  BY NoErrors DEF SweepInv, AllSettled
<1> QED BY <1>1, PTL

\* So Update never ends the build.
LEMMA UpdateGoesOn ==
  ASSUME SweepInv, SweepInv', Update
  PROVE  at' = "normal" /\ state' = state
<1>1. SUFFICES ASSUME SceneErrors', DOMAIN sq_deferred = {}, holdoff_tasks' = {} PROVE FALSE
  BY DEF Update
<1>2. holdoff_need_update' = FALSE
  <2>1. holdoff_need_update \in BOOLEAN
    BY DEF SweepInv, HoldInv
  <2> QED BY <2>1 DEF Update, UpdateHoldoff
<1>3. Undecided' = {}
  BY <1>1, <1>2 DEF SweepInv, HoldInv
<1>4. DOMAIN sq_deferred' = {}
  BY <1>1 DEF Update
<1> QED BY <1>1, <1>2, <1>3, <1>4, NoErrorsNext DEF AllSettled

\* When there is nothing left to do no setscene task is left either.
LEMMA NoneLeft ==
  ASSUME SweepInv, Idle, DOMAIN sq_deferred = {}
  PROVE  Undecided = {}
<1>1. CASE sqdone
  BY <1>1 DEF SweepInv, ReadyInv
<1>2. CASE ~sqdone
  <2>1. CanStart
    <3>1. Active = {} /\ sq_live = {}
      BY DEF Idle
    <3>2. Cardinality(Active) = 0 /\ Cardinality(sq_live) = 0
      BY <3>1, FS_EmptySet
    <3> QED BY <3>2 DEF CanStart, SweepInv, BuildInv, IsBuild
  <2>2. sq_buildable \subseteq sq_running
    BY <1>2, <2>1 DEF SweepInv, ScanInv, Idle
  <2>3. SUFFICES ASSUME Undecided # {} PROVE FALSE
    OBVIOUS
  <2>4. PICK s \in Undecided : SceneRevdeps(b, s) \cap Undecided = {}
    <3>1. Undecided \subseteq b.setscene /\ IsGraph(b)
      BY SQFacts DEF SweepInv, Undecided
    <3> QED BY <2>3, <3>1, NoneInCircle
  <2>5. sq.revdeps[s] \subseteq Decided
    BY <2>4, SQFacts DEF SweepInv, Undecided
  <2>6. s \in sq_running
    BY <2>2, <2>5 DEF SweepInv, ReadyInv, Undecided
  <2> QED BY <2>6 DEF SweepInv, ReadyInv, Idle, Undecided
<1>3. sqdone \in BOOLEAN
  BY DEF SweepInv, PlaceTypes
<1> QED BY <1>1, <1>2, <1>3

LEMMA AtTheEnd ==
  ASSUME SweepInv, Idle, DOMAIN sq_deferred = {}
  PROVE  /\ ~SceneErrors
         /\ \A t \in AllTasks \ runq_complete :
              b.depends[t] \subseteq runq_complete => t \in failed_tids
<1>1. holdoff_need_update = FALSE
  BY DEF SweepInv, HoldInv, Idle
<1>2. Undecided = {} /\ holdoff_tasks = {}
  BY <1>1, NoneLeft DEF SweepInv, FreshInv
<1>3. ~SceneErrors
  BY <1>1, <1>2, NoErrors DEF SweepInv
<1>4. ASSUME NEW t \in AllTasks \ runq_complete, b.depends[t] \subseteq runq_complete
      PROVE  t \in failed_tids
  <2>1. t \in tasks_covered \cup tasks_notcovered
    BY <1>1, <1>2, AllPlanned DEF SweepInv, FreshInv
  <2>2. t \in runq_buildable
    BY <1>1, <1>4, <2>1 DEF SweepInv, FreshInv
  <2>3. t \in runq_running
    BY <1>2, <2>1, <2>2 DEF Idle, Choices
  <2> QED BY <1>4, <2>3 DEF Idle, Active
<1> QED BY <1>3, <1>4

FailInv == state = "Failed" => failed_tids # {}

LEMMA FailStep == SweepInv /\ SweepInv' /\ FailInv /\ [Next]_vars => FailInv'
<1> SUFFICES ASSUME SweepInv, SweepInv', FailInv, [Next]_vars PROVE FailInv'
  OBVIOUS
<1>1. ASSUME UNCHANGED failed_tids, state' \in {state, "CleanUp"} PROVE FailInv'
  BY <1>1 DEF FailInv
<1>2. CASE ReadOn \/ NoScene \/ Wait \/ BreakDeadlock \/ Interrupt \/ Over \/ UNCHANGED vars
  BY <1>1, <1>2 DEF ReadOn, NoScene, Wait, BreakDeadlock, Interrupt, Over
<1>3. CASE Finish \/ FinishNow
  BY <1>3 DEF Finish, FinishNow, FailInv
<1>4. CASE Update
  <2>1. state' = state /\ UNCHANGED failed_tids
    BY <1>4, UpdateGoesOn DEF Update
  <2> QED BY <1>1, <2>1
<1>5. CASE End
  <2>1. SUFFICES ASSUME failed_tids = {}, NeverRun PROVE FALSE
    BY <1>5, AtTheEnd DEF End, FailInv
  <2> DEFINE L == AllTasks \ runq_complete
  <2>2. PICK t \in L : b.depends[t] \cap L = {}
    <3>1. L # {} /\ L \subseteq Tasks(b) /\ IsGraph(b)
      BY <2>1, SQFacts DEF NeverRun, SweepInv, AllTasks
    <3> HIDE DEF L
    <3> QED BY <3>1, Lowest
  <2>3. b.depends[t] \subseteq runq_complete
    BY <2>2, SQFacts DEF IsGraph, SweepInv, AllTasks
  <2> QED BY <1>5, <2>1, <2>2, <2>3, AtTheEnd DEF End
<1>6. ASSUME NEW s, \/ SkipUnneeded(s) \/ FailOutright(s) \/ StartScene(s) \/ SkipTask(s)
                    \/ RunTask(s)
      PROVE  FailInv'
  BY <1>1, <1>6 DEF SkipUnneeded, FailOutright, StartScene, SkipTask, RunTask
<1>7. ASSUME NEW t, NEW ok, SceneResult(t, ok) PROVE FailInv'
  BY <1>1, <1>7 DEF SceneResult
<1>8. ASSUME NEW t, NEW ok, TaskResult(t, ok) PROVE FailInv'
  BY <1>1, <1>8 DEF TaskResult, FailInv
<1> QED
  BY <1>2, <1>3, <1>4, <1>5, <1>6, <1>7, <1>8 DEF Next, Execute, Result

\* A build fails only because one of its tasks failed: whatever the graph, the hashes and
\* the shared state, the sanity checks at the end find nothing.
THEOREM FailsRightly == Spec => []FailsForAReason
<1>1. Init => FailInv
  BY DEF Init, FailInv
<1>2. FailInv => FailsForAReason
  BY DEF FailInv, FailsForAReason
<1> QED BY <1>1, <1>2, SweepInit, SweepStep, FailStep, PTL DEF Spec

-----------------------------------------------------------------------------
\* Needs of any graph, and what every set has that contains t and is closed downwards.
NeedsOf(h) ==
  LET needs[t \in Tasks(h)] == {t} \cup UNION {needs[d] : d \in h.depends[t]} IN needs
Leads(h, t) ==
  {x \in Tasks(h) :
     \A S \in SUBSET Tasks(h) :
       t \in S /\ (\A y \in S : h.depends[y] \subseteq S) => x \in S}

LEMMA LeadsEquation ==
  ASSUME NEW h, IsGraph(h), NEW t \in Tasks(h)
  PROVE  Leads(h, t) = {t} \cup UNION {Leads(h, d) : d \in h.depends[t]}
<1> DEFINE R == {t} \cup UNION {Leads(h, d) : d \in h.depends[t]}
<1>1. h.depends[t] \subseteq Tasks(h)
  BY DEF IsGraph
<1>2. R \subseteq Leads(h, t)
  BY <1>1 DEF Leads
<1>3. R \in SUBSET Tasks(h)
  BY DEF Leads
<1>4. ASSUME NEW y \in R PROVE h.depends[y] \subseteq R
  <2>1. CASE y = t
    <3>1. \A d \in h.depends[t] : d \in Leads(h, d)
      BY <1>1 DEF Leads
    <3> QED BY <2>1, <3>1
  <2>2. ASSUME NEW d \in h.depends[t], y \in Leads(h, d)
        PROVE  h.depends[y] \subseteq Leads(h, d)
    BY <2>2 DEF Leads, IsGraph
  <2> QED BY <2>1, <2>2
<1>5. Leads(h, t) \subseteq R
  BY <1>3, <1>4 DEF Leads
<1> QED BY <1>2, <1>5

LEMMA NeedsEquation ==
  ASSUME NEW h, IsGraph(h)
  PROVE  \A t \in Tasks(h) :
           NeedsOf(h)[t] = {t} \cup UNION {NeedsOf(h)[d] : d \in h.depends[t]}
<1> DEFINE Eqn(f) == f = [t \in Tasks(h) |-> {t} \cup UNION {f[d] : d \in h.depends[t]}]
           f0 == [t \in Tasks(h) |-> Leads(h, t)]
<1>1. Eqn(f0)
  <2>1. ASSUME NEW t \in Tasks(h)
        PROVE  f0[t] = {t} \cup UNION {f0[d] : d \in h.depends[t]}
    <3>1. \A d \in h.depends[t] : f0[d] = Leads(h, d)
      BY DEF IsGraph
    <3>2. UNION {f0[d] : d \in h.depends[t]} = UNION {Leads(h, d) : d \in h.depends[t]}
      BY <3>1
    <3> QED BY <3>2, LeadsEquation
  <2> QED BY <2>1
<1> HIDE DEF f0
<1>2. Eqn(CHOOSE f : Eqn(f))
  <2> HIDE DEF Eqn
  <2> QED BY <1>1
<1> DEFINE B == NeedsOf(h)
<1>3. B = CHOOSE f : Eqn(f)
  BY DEF NeedsOf
<1>4. Eqn(B)
  <2> HIDE DEF Eqn, B
  <2> QED BY <1>2, <1>3
<1>5. B = [t \in Tasks(h) |-> {t} \cup UNION {B[d] : d \in h.depends[t]}]
  BY <1>4
<1> HIDE DEF B
<1>6. \A t \in Tasks(h) : B[t] = {t} \cup UNION {B[d] : d \in h.depends[t]}
  BY <1>5
<1> QED BY <1>6 DEF B

LEMMA NeedsIs == Needs = NeedsOf(b)
  BY DEF Needs, NeedsOf, AllTasks

LEMMA NeedsIsNext == Needs' = NeedsOf(b')
  BY DEF Needs, NeedsOf, AllTasks

\* With -k execute() goes on after a failure, until the user stops it.
OnwardInv ==
  /\ b.keep_going /\ ~stopped => state # "CleanUp" /\ at # "finish"
  /\ KeepsGoing

\* What is undone at the end needs something that failed.
LEMMA UndoneNeeds ==
  ASSUME SweepInv, Idle, DOMAIN sq_deferred = {}
  PROVE  \A t \in AllTasks \ runq_complete : Needs[t] \cap failed_tids # {}
<1> DEFINE L == {t \in AllTasks \ runq_complete : NeedsOf(b)[t] \cap failed_tids = {}}
<1>1. SUFFICES ASSUME L # {} PROVE FALSE
  BY NeedsIs
<1>2. IsGraph(b) /\ AllTasks = Tasks(b)
  BY SQFacts DEF SweepInv, AllTasks
<1>3. PICK t \in L : b.depends[t] \cap L = {}
  <2>1. L \subseteq Tasks(b)
    BY <1>2
  <2> HIDE DEF L
  <2> QED BY <1>1, <1>2, <2>1, Lowest
<1>4. NeedsOf(b)[t] = {t} \cup UNION {NeedsOf(b)[d] : d \in b.depends[t]}
  BY <1>2, NeedsEquation
<1>5. ASSUME NEW d \in b.depends[t] PROVE d \in runq_complete
  <2>1. d \in AllTasks /\ NeedsOf(b)[d] \subseteq NeedsOf(b)[t]
    BY <1>2, <1>4 DEF IsGraph
  <2> QED BY <1>3, <2>1
<1>6. t \in failed_tids
  BY <1>5, AtTheEnd
<1> QED BY <1>4, <1>6

LEMMA OnwardStep == SweepInv /\ SweepInv' /\ OnwardInv /\ [Next]_vars => OnwardInv'
<1> SUFFICES ASSUME SweepInv, SweepInv', OnwardInv, [Next]_vars PROVE OnwardInv'
  OBVIOUS
<1>1. ASSUME UNCHANGED <<b, stopped>>, at' # "over",
             b.keep_going => state' \in {state, "Running"},
             b.keep_going /\ state' # "CleanUp" => at' # "finish"
      PROVE  OnwardInv'
  BY <1>1 DEF OnwardInv, KeepsGoing
<1>2. Return => (at' # "over" /\ (state' # "CleanUp" => at' # "finish"))
  BY DEF Return
<1>3. CASE ReadOn \/ NoScene \/ Wait \/ BreakDeadlock
  BY <1>1, <1>2, <1>3 DEF ReadOn, NoScene, Wait, BreakDeadlock
<1>4. CASE Interrupt \/ FinishNow
  BY <1>4 DEF Interrupt, FinishNow, OnwardInv, KeepsGoing
<1>5. CASE Finish
  <2>1. ~(b.keep_going /\ ~stopped)
    BY <1>5 DEF Finish, OnwardInv
  <2> QED BY <1>5, <2>1 DEF Finish, OnwardInv, KeepsGoing
<1>6. CASE Over \/ UNCHANGED vars
  <2>1. UNCHANGED vars
    BY <1>6 DEF Over
  <2>2. KeepsGoing' = KeepsGoing
    BY <2>1, NeedsIs, NeedsIsNext DEF KeepsGoing, AllTasks
  <2> QED BY <2>1, <2>2 DEF OnwardInv
<1>7. CASE Update
  <2>1. at' = "normal" /\ state' = state /\ UNCHANGED <<b, stopped>>
    BY <1>7, UpdateGoesOn DEF Update
  <2> QED BY <1>1, <2>1
<1>8. CASE End
  <2>1. /\ UNCHANGED <<b, runq_complete, failed_tids, stopped>> /\ state' # "CleanUp"
        /\ at' = "over"
    BY <1>8 DEF End
  <2>2. Needs' = Needs /\ AllTasks' = AllTasks
    BY <2>1, NeedsIs, NeedsIsNext DEF AllTasks
  <2>3. \A t \in AllTasks \ runq_complete : Needs[t] \cap failed_tids # {}
    BY <1>8, UndoneNeeds DEF End
  <2> QED BY <2>1, <2>2, <2>3 DEF OnwardInv, KeepsGoing
<1>9. ASSUME NEW s, SkipUnneeded(s) \/ FailOutright(s) \/ SkipTask(s) \/ RunTask(s)
      PROVE  OnwardInv'
  BY <1>1, <1>2, <1>9 DEF SkipUnneeded, FailOutright, SkipTask, RunTask
<1>10. ASSUME NEW s, StartScene(s) PROVE OnwardInv'
  BY <1>1, <1>2, <1>10 DEF StartScene
<1>11. ASSUME NEW t, NEW ok, SceneResult(t, ok) PROVE OnwardInv'
  BY <1>11 DEF SceneResult, OnwardInv, KeepsGoing
<1>12. ASSUME NEW t, NEW ok, TaskResult(t, ok) PROVE OnwardInv'
  BY <1>12 DEF TaskResult, OnwardInv, KeepsGoing
<1> QED
  BY <1>3, <1>4, <1>5, <1>6, <1>7, <1>8, <1>9, <1>10, <1>11, <1>12 DEF Next, Execute, Result

\* With -k a build that the user does not stop leaves undone only what depends on
\* something that failed.
THEOREM GoesOn == Spec => []KeepsGoing
<1>1. Init => OnwardInv
  BY DEF Init, OnwardInv, KeepsGoing
<1>2. OnwardInv => KeepsGoing
  BY DEF OnwardInv
<1> QED BY <1>1, <1>2, SweepInit, SweepStep, OnwardStep, PTL DEF Spec
=============================================================================

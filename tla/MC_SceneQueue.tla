--------------------------- MODULE MC_SceneQueue ---------------------------
(***************************************************************************)
(* Every graph of four tasks numbered along their dependencies, with every *)
(* set of setscene tasks and a normal target or none; every graph of five, *)
(* which is what it takes for a task to be met twice and to hand on what   *)
(* it gathered in between; and every graph of three with up to two hard    *)
(* dependencies that do not contradict each other.                         *)
(***************************************************************************)
EXTENDS SceneQueue, Integers, FiniteSets

Dags(n) ==
  {[t \in 1..n |-> {d \in 1..n : <<t, d>> \in E}] :
     E \in SUBSET {e \in (1..n) \X (1..n) : e[1] > e[2]}}

Plain(n) ==
  UNION {[depends : Dags(n), setscene : {S}, hard : {{}},
          cantskip : {{}} \cup {{t} : t \in (1..n) \ S}] : S \in SUBSET (1..n)}

Bare(n) == [depends : Dags(n), setscene : SUBSET (1..n), cantskip : {{}}, hard : {{}}]

HardSets(S) ==
  {H \in SUBSET (S \X S) :
     /\ Cardinality(H) <= 2
     /\ \A e \in H : e[1] # e[2] /\ <<e[2], e[1]>> \notin H}

Hard(n) ==
  UNION {[depends : Dags(n), setscene : {S}, cantskip : {{}}, hard : HardSets(S)] :
           S \in SUBSET (1..n)}

AllGraphs == Plain(4) \cup Bare(5) \cup Hard(3)
=============================================================================

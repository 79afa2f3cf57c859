---------------------------- MODULE MC_RunQueue ----------------------------
(***************************************************************************)
(* Every graph of three tasks numbered along their dependencies, with      *)
(* every set of setscene tasks and every set of results in the shared      *)
(* state, and on top of that one thing at a time: -k; a normal target; one *)
(* hard dependency; setscene tasks that are current, with a stamp here or  *)
(* there; one that may not be used, in a build of one thread; and two      *)
(* tasks of the same hash, neither of which is below the other, the one    *)
(* that waits with a stamp or none, and with a hard dependency.            *)
(***************************************************************************)
EXTENDS RunQueue

Three == 1..3
Dags ==
  {[t \in Three |-> {d \in Three : <<t, d>> \in E}] :
     E \in SUBSET {e \in Three \X Three : e[1] > e[2]}}

None == [s \in {} |-> 0]
Of(S) ==
  [depends : Dags, setscene : {S}, hard : {{}}, targets : {{}}, threads : {2},
   keep_going : {FALSE}, current : {{}}, valid : SUBSET S, refused : {{}},
   deferred : {None}, stamped : {{}}]
Plain == UNION {Of(S) : S \in SUBSET Three}

WithK(B) == {[x EXCEPT !.keep_going = TRUE] : x \in B}
WithTarget == {[x EXCEPT !.targets = {2}] : x \in {x \in Plain : 2 \notin x.setscene}}
WithHard ==
  UNION {{[x EXCEPT !.hard = {e}] : e \in {e \in x.setscene \X x.setscene : e[1] # e[2]}} :
           x \in {x \in Plain : x.setscene = {1, 2} \/ x.setscene = Three}}
WithCurrent ==
  UNION {{[x EXCEPT !.current = {s}, !.stamped = M] :
            s \in x.setscene, M \in {{}, {1}, {2}}} : x \in {x \in Plain : x.valid = {}}}
WithRefused ==
  UNION {{[x EXCEPT !.refused = {s}, !.threads = 1] : s \in x.valid} : x \in Plain}

Above(x) ==
  LET above[t \in Three] == {t} \cup UNION {above[d] : d \in x.depends[t]} IN above
Apart(x, s, d) == s \notin Above(x)[d] /\ d \notin Above(x)[s]
Needed(x, s) == Above(x)[s] \cup {e[1] : e \in {e \in x.hard : e[2] = s}}
Shared(x, s, d) == Needed(x, s) \cap Needed(x, d) \cap x.setscene
\* Two that are apart can be numbered either way: the one that waits has the higher number.
Deferred ==
  UNION {{[x EXCEPT !.deferred = [y \in {e[1]} |-> e[2]]] :
            e \in {e \in x.setscene \X x.setscene :
                     e[1] > e[2] /\ Apart(x, e[1], e[2])}} : x \in Plain}

\* The task waited for is not restored, or nothing below both of them is: see Clash.
Harmless(x) ==
  \A s \in DOMAIN x.deferred :
    x.deferred[s] \notin x.valid \/ Shared(x, s, x.deferred[s]) = {}

\* Three tasks of the same hash, of which one is current.
Thrice ==
  {[x EXCEPT !.deferred = [y \in {2, 3} |-> 1], !.current = {2}] :
     x \in {x \in Of(Three) : x.depends = [t \in Three |-> {}]}}

HardDeferred ==
  UNION {{[x EXCEPT !.hard = {e}] : e \in {e \in Three \X Three : e[1] # e[2]}} :
           x \in {x \in Deferred : x.setscene = Three}}
DeferredStamped ==
  UNION {{[x EXCEPT !.stamped = {s}] : s \in DOMAIN x.deferred} : x \in Deferred}

OnlyFirst(x) ==
  Harmless(x) /\ \A s \in DOMAIN x.deferred : x.valid \subseteq {x.deferred[s]}

SomeBuilds ==
  Plain \cup WithK(Plain) \cup WithTarget \cup WithHard \cup WithK(WithCurrent)
    \cup WithRefused \cup Thrice \cup WithK({x \in Deferred : Harmless(x)})
    \cup {x \in DeferredStamped \cup HardDeferred : Harmless(x)}
    \cup {[x EXCEPT !.current = DOMAIN x.deferred] : x \in {x \in Deferred : OnlyFirst(x)}}

\* Two tasks of the same hash, of which the first has been restored, need one that may be
\* restored too.
Clash == {x \in Deferred : ~Harmless(x)}

\* The task that waits needs another to be restored, and falls with it.
Fallen ==
  {x \in HardDeferred : Harmless(x) /\ \E e \in x.hard : e[1] \in DOMAIN x.deferred}
=============================================================================

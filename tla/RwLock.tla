------------------------------- MODULE RwLock -------------------------------
(***************************************************************************)
(* What the callers of bb.utils.lockfile count on: of the processes that   *)
(* hold a lock, either all share it or there is one.                       *)
(***************************************************************************)
CONSTANT Procs
VARIABLE held     \* how each process holds the lock: "none", "SH" or "EX"

Init == held = [p \in Procs |-> "none"]

Acquire(p, mode) ==
  /\ held[p] = "none"
  /\ \A q \in Procs \ {p} : held[q] = "none" \/ (mode = "SH" /\ held[q] = "SH")
  /\ held' = [held EXCEPT ![p] = mode]

Release(p) ==
  /\ held[p] # "none"
  /\ held' = [held EXCEPT ![p] = "none"]

Next == \E p \in Procs : Release(p) \/ \E mode \in {"SH", "EX"} : Acquire(p, mode)

Spec == Init /\ [][Next]_held
=============================================================================

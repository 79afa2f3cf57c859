------------------------------ MODULE Lockfile ------------------------------
(***************************************************************************)
(* bb.utils.lockfile and unlockfile, with which recipes that are built at  *)
(* the same time share downloads, sysroots and caches.  The lock is        *)
(* flock(2) on a file of an agreed name, and unlocking removes that file:  *)
(* who waits for the old file may get a lock nobody else looks at.         *)
(***************************************************************************)
EXTENDS FiniteSets

CONSTANTS
  Procs,        \* the processes that use one lock file
  Inodes,       \* what the name may refer to; a number is reused once nobody has it open
  NoFile,
  Calls         \* the ways lockfile() is called: <<mode, patience>>

VARIABLES
  name,         \* the file the lock's name refers to
  fd,           \* lf: the file each process has open
  flocks,       \* the flock of that open file
  op,           \* what the call of lockfile() asked for: shared or exclusive
  patience,     \* and how: "retry", "block" without retry, or neither, "once"
  pc,
  litter        \* history: a file was left behind by a crash or a failed unlink

vars == <<name, fd, flocks, op, patience, pc, litter>>

Modes == {"SH", "EX"}
Patience == {"retry", "block", "once"}

ASSUME LockfileAssumption ==
  /\ NoFile \notin Inodes
  /\ Calls \subseteq Modes \X Patience

Places == {"away", "open", "flock", "verify", "held", "unlink", "release"}

\* One file is open from open() to close(), and only an open file is locked.
OneOpenFile ==
  \A p \in Procs :
    /\ fd[p] = NoFile <=> pc[p] \in {"away", "open"}
    /\ flocks[p] # "none" => fd[p] # NoFile

TypeOK ==
  /\ name \in Inodes \cup {NoFile}
  /\ fd \in [Procs -> Inodes \cup {NoFile}]
  /\ flocks \in [Procs -> {"none"} \cup Modes]
  /\ op \in [Procs -> Modes]
  /\ patience \in [Procs -> Patience]
  /\ pc \in [Procs -> Places]
  /\ litter \in BOOLEAN
  /\ OneOpenFile

Init ==
  /\ name = NoFile
  /\ fd = [p \in Procs |-> NoFile]
  /\ flocks = [p \in Procs |-> "none"]
  /\ op = [p \in Procs |-> "EX"]
  /\ patience = [p \in Procs |-> "retry"]
  /\ pc = [p \in Procs |-> "away"]
  /\ litter = FALSE

Goto(p, place) == pc' = [pc EXCEPT ![p] = place]

\* Closing the file drops its lock.
Close(p) ==
  /\ fd' = [fd EXCEPT ![p] = NoFile]
  /\ flocks' = [flocks EXCEPT ![p] = "none"]

\* lockfile() without a lock, or unlockfile(), returns.
Return(p) ==
  /\ Goto(p, "away")
  /\ op' = [op EXCEPT ![p] = "EX"]
  /\ patience' = [patience EXCEPT ![p] = "retry"]

\* flock(2) grants `mode` to p on the file it has open.
Grantable(p, mode) ==
  \A q \in Procs \ {p} :
    fd[q] = fd[p] => flocks[q] = "none" \/ (mode = "SH" /\ flocks[q] = "SH")

\* lockfile() is called.  Wrong variant: op is one variable of all callers.
Lock_SharedOp(p, call) ==
  /\ pc[p] = "away"
  /\ op' = [q \in Procs |-> call[1]]
  /\ patience' = [patience EXCEPT ![p] = call[2]]
  /\ Goto(p, "open")
  /\ UNCHANGED <<name, fd, flocks, litter>>

Lock(p, call) ==
  /\ pc[p] = "away"
  /\ op' = [op EXCEPT ![p] = call[1]]
  /\ patience' = [patience EXCEPT ![p] = call[2]]
  /\ Goto(p, "open")
  /\ UNCHANGED <<name, fd, flocks, litter>>

\* open(name, 'a+') takes the file that is there or makes one.
Open(p) ==
  /\ pc[p] = "open"
  /\ \/ name # NoFile /\ name' = name
     \/ name = NoFile /\ name' \in {i \in Inodes : \A q \in Procs : fd[q] # i}
  /\ fd' = [fd EXCEPT ![p] = name']
  /\ Goto(p, "flock")
  /\ UNCHANGED <<flocks, op, patience, litter>>

\* The directory or the file may not be written: the caller exits.
MayNotOpen(p) ==
  /\ pc[p] = "open"
  /\ Return(p)
  /\ UNCHANGED <<name, fd, flocks, litter>>

\* Wrong variant: every lock is asked for as a shared one.
Flock_Shared(p) ==
  /\ pc[p] = "flock"
  /\ Grantable(p, "SH")
  /\ flocks' = [flocks EXCEPT ![p] = "SH"]
  /\ Goto(p, "verify")
  /\ UNCHANGED <<name, fd, op, patience, litter>>

Flock(p) ==
  /\ pc[p] = "flock"
  /\ Grantable(p, op[p])
  /\ flocks' = [flocks EXCEPT ![p] = op[p]]
  /\ Goto(p, "verify")
  /\ UNCHANGED <<name, fd, op, patience, litter>>

\* LOCK_NB: the lock is taken, lockfile() returns None.
WouldBlock(p) ==
  /\ pc[p] = "flock" /\ patience[p] = "once"
  /\ ~Grantable(p, op[p])
  /\ Close(p)
  /\ Return(p)
  /\ UNCHANGED <<name, litter>>

\* The name still refers to the locked file: lockfile() returns it.
Verify(p) ==
  /\ pc[p] = "verify"
  /\ name = fd[p]
  /\ Goto(p, "held")
  /\ UNCHANGED <<name, fd, flocks, op, patience, litter>>

\* Wrong variant: it waits for the same file again instead of opening the name.
Mismatch_SameFile(p) ==
  /\ pc[p] = "verify"
  /\ name # fd[p]
  /\ flocks' = [flocks EXCEPT ![p] = "none"]
  /\ Goto(p, "flock")
  /\ UNCHANGED <<name, fd, op, patience, litter>>

\* Somebody has removed it since it was opened.
Mismatch(p) ==
  /\ pc[p] = "verify"
  /\ name # fd[p]
  /\ Close(p)
  /\ \/ patience[p] = "retry" /\ Goto(p, "open") /\ UNCHANGED <<op, patience>>
     \/ patience[p] # "retry" /\ Return(p)
  /\ UNCHANGED <<name, litter>>

\* unlockfile() tries to promote the lock; if it cannot, the shared one is lost
\* (flock(2)) and the file stays for those who still share it.
\* Wrong variant: a shared lock is not promoted.
Promote_Kept(p) ==
  /\ pc[p] = "held"
  /\ Goto(p, IF op[p] = "EX" THEN "unlink" ELSE "release")
  /\ UNCHANGED <<name, fd, flocks, op, patience, litter>>

Promote(p) ==
  /\ pc[p] = "held"
  /\ \/ /\ Grantable(p, "EX")
        /\ flocks' = [flocks EXCEPT ![p] = "EX"]
        /\ Goto(p, "unlink")
     \/ /\ ~Grantable(p, "EX")
        /\ flocks' = [flocks EXCEPT ![p] = "none"]
        /\ Goto(p, "release")
  /\ UNCHANGED <<name, fd, op, patience, litter>>

\* os.unlink; what goes wrong is ignored.
Unlink(p) ==
  /\ pc[p] = "unlink"
  /\ \/ name' = NoFile /\ litter' = FALSE
     \/ name' = name /\ litter' = TRUE
  /\ Goto(p, "release")
  /\ UNCHANGED <<fd, flocks, op, patience>>

\* LOCK_UN and close
Release(p) ==
  /\ pc[p] = "release"
  /\ Close(p)
  /\ Return(p)
  /\ UNCHANGED <<name, litter>>

\* A process is killed: the system closes its file.
Die(p) ==
  /\ pc[p] # "away"
  /\ Close(p)
  /\ Return(p)
  /\ litter' = TRUE
  /\ UNCHANGED name

Step(p) ==
  \/ Open(p) \/ Flock(p) \/ WouldBlock(p) \/ Verify(p) \/ Mismatch(p)
  \/ Promote(p) \/ Unlink(p) \/ Release(p)

Next ==
  \E p \in Procs :
    \/ \E call \in Calls : Lock(p, call)
    \/ Step(p) \/ MayNotOpen(p) \/ Die(p)

Spec == Init /\ [][Next]_vars

\* The scheduler runs every process; what is done under a lock ends.
FairSpec == Spec /\ \A p \in Procs : WF_vars(Step(p))

-----------------------------------------------------------------------------
Holds(p) == pc[p] = "held"

\* The promise, although the file behind the name comes and goes (utils.py:485-493):
\* an exclusive holder is alone.
MutualExclusion ==
  \A p, q \in Procs : p # q /\ Holds(p) /\ Holds(q) => op[p] = "SH" /\ op[q] = "SH"

\* Nobody removes the file under a holder, or puts another in its place: who comes next
\* meets its lock.
HolderOnDisk == \A p \in Procs : Holds(p) => name = fd[p]

\* "we should clean up after ourselves" (utils.py:486): when everybody is gone, so is
\* the file, unless somebody crashed or could not remove it.
CleansUp == (\A p \in Procs : pc[p] = "away") /\ ~litter => name = NoFile

\* lockfile() and unlockfile() implement the lock.
Rw == INSTANCE RwLock
        WITH held <- [p \in Procs |-> IF Holds(p) THEN op[p] ELSE "none"]
ImplementsRwLock == Rw!Spec

\* The retry loop is unfair to one process (utils.py:495) but not to all: if somebody
\* waits, somebody gets the lock, unless callers are killed or turned away for ever.
Waits(p) == pc[p] \in {"open", "flock", "verify"}
NobodyGone == \A p \in Procs : ~Die(p) /\ ~MayNotOpen(p)
SomebodyGetsIt ==
  <>[][NobodyGone]_vars =>
    \A p \in Procs : Waits(p) ~> ~Waits(p) \/ \E q \in Procs : Holds(q)

\* The inductive invariant behind the promise: locks on one file agree, and whoever is
\* past the check has its lock on the file on disk.
LocksAgree ==
  \A p, q \in Procs :
    p # q /\ fd[p] = fd[q] /\ flocks[p] = "EX" => flocks[q] = "none"
Granted ==
  \A p \in Procs :
    /\ pc[p] \in {"verify", "held"} => flocks[p] = op[p]
    /\ pc[p] = "unlink" => flocks[p] = "EX"
OpenOnDisk == \A p \in Procs : pc[p] \in {"held", "unlink"} => name = fd[p]
LockInv == LocksAgree /\ Granted /\ OpenOnDisk
=============================================================================

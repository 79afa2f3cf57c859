-------------------------- MODULE Lockfile_proofs --------------------------
(***************************************************************************)
(* The lock of Lockfile holds its promise for any number of processes and  *)
(* of inodes: TypeOK and LockInv are inductive, and from them follow the   *)
(* exclusion, the file on disk and the refinement of RwLock.               *)
(***************************************************************************)
EXTENDS Lockfile, TLAPS

USE LockfileAssumption DEF LockfileAssumption

LEMMA TypeInit == Init => TypeOK
  <1> SUFFICES ASSUME Init PROVE TypeOK OBVIOUS
  <1>1. OneOpenFile BY DEF Init, OneOpenFile
  <1>2. /\ name \in Inodes \cup {NoFile} /\ fd \in [Procs -> Inodes \cup {NoFile}]
        /\ flocks \in [Procs -> {"none"} \cup Modes] /\ litter \in BOOLEAN
    BY DEF Init
  <1>3. /\ op \in [Procs -> Modes] /\ patience \in [Procs -> Patience]
        /\ pc \in [Procs -> Places]
    BY DEF Init, Modes, Patience, Places
  <1> QED BY <1>1, <1>2, <1>3 DEF TypeOK

\* Every step keeps the types, and a process has a file open exactly where it should.
LEMMA TypeStep == TypeOK /\ [Next]_vars => TypeOK'
  <1> SUFFICES ASSUME TypeOK, [Next]_vars PROVE TypeOK' OBVIOUS
  <1> USE DEF TypeOK, OneOpenFile, Modes, Patience, Places, Goto
  <1>1. ASSUME NEW p \in Procs, NEW call \in Calls, Lock(p, call) PROVE TypeOK'
    <2>1. call[1] \in Modes /\ call[2] \in Patience OBVIOUS
    <2> QED BY <1>1, <2>1 DEF Lock
  <1>2. ASSUME NEW p \in Procs, Open(p) PROVE TypeOK'
    <2>1. name' \in Inodes BY <1>2 DEF Open
    <2> QED BY <1>2, <2>1 DEF Open
  <1>3. ASSUME NEW p \in Procs, MayNotOpen(p) PROVE TypeOK'
    BY <1>3 DEF MayNotOpen, Return
  <1>4. ASSUME NEW p \in Procs, Flock(p) PROVE TypeOK'
    BY <1>4 DEF Flock
  <1>5. ASSUME NEW p \in Procs, WouldBlock(p) PROVE TypeOK'
    BY <1>5 DEF WouldBlock, Return, Close
  <1>6. ASSUME NEW p \in Procs, Verify(p) PROVE TypeOK'
    BY <1>6 DEF Verify
  <1>7. ASSUME NEW p \in Procs, Mismatch(p) PROVE TypeOK'
    BY <1>7 DEF Mismatch, Return, Close
  <1>8. ASSUME NEW p \in Procs, Promote(p) PROVE TypeOK'
    BY <1>8 DEF Promote
  <1>9. ASSUME NEW p \in Procs, Unlink(p) PROVE TypeOK'
    BY <1>9 DEF Unlink
  <1>10. ASSUME NEW p \in Procs, Release(p) PROVE TypeOK'
    BY <1>10 DEF Release, Return, Close
  <1>11. ASSUME NEW p \in Procs, Die(p) PROVE TypeOK'
    BY <1>11 DEF Die, Return, Close
  <1>12. CASE UNCHANGED vars
    BY <1>12 DEF vars
  <1> QED BY <1>1, <1>2, <1>3, <1>4, <1>5, <1>6, <1>7, <1>8, <1>9, <1>10, <1>11, <1>12
          DEF Next, Step

\* The types, and that a process has one file open exactly from open() to close().
THEOREM Typing == Spec => []TypeOK
  BY TypeInit, TypeStep, PTL DEF Spec

-----------------------------------------------------------------------------
LEMMA LockInvInit == Init => LockInv
  BY DEF Init, LockInv, LocksAgree, Granted, OpenOnDisk

\* The step that matters is Unlink: who removes the name has the exclusive lock of the
\* file behind it, and whoever else is past the check would have a lock of that file too.
LEMMA LockInvStep == TypeOK /\ LockInv /\ [Next]_vars => LockInv'
  <1> SUFFICES ASSUME TypeOK, LockInv, [Next]_vars PROVE LockInv' OBVIOUS
  <1> USE DEF TypeOK, OneOpenFile, LockInv, LocksAgree, Granted, OpenOnDisk, Goto,
              Modes, Patience, Places
  <1>1. ASSUME NEW p \in Procs, NEW call \in Calls, Lock(p, call) PROVE LockInv'
    BY <1>1 DEF Lock
  <1>2. ASSUME NEW p \in Procs, Open(p) PROVE LockInv'
    <2>1. flocks[p] = "none" BY <1>2 DEF Open
    <2>2. LocksAgree' BY <1>2, <2>1 DEF Open
    <2>3. Granted' BY <1>2 DEF Open
    <2>4. \A q \in Procs : pc[q] \in {"held", "unlink"} => name # NoFile OBVIOUS
    <2>5. OpenOnDisk' BY <1>2, <2>4 DEF Open
    <2> QED BY <2>2, <2>3, <2>5
  <1>3. ASSUME NEW p \in Procs, MayNotOpen(p) PROVE LockInv'
    BY <1>3 DEF MayNotOpen, Return
  <1>4. ASSUME NEW p \in Procs, Flock(p) PROVE LockInv'
    <2>1. LocksAgree' BY <1>4 DEF Flock, Grantable
    <2>2. Granted' /\ OpenOnDisk' BY <1>4 DEF Flock
    <2> QED BY <2>1, <2>2
  <1>5. ASSUME NEW p \in Procs, WouldBlock(p) PROVE LockInv'
    BY <1>5 DEF WouldBlock, Return, Close
  <1>6. ASSUME NEW p \in Procs, Verify(p) PROVE LockInv'
    BY <1>6 DEF Verify
  <1>7. ASSUME NEW p \in Procs, Mismatch(p) PROVE LockInv'
    BY <1>7 DEF Mismatch, Return, Close
  <1>8. ASSUME NEW p \in Procs, Promote(p) PROVE LockInv'
    <2>1. LocksAgree' BY <1>8 DEF Promote, Grantable
    <2>2. Granted' /\ OpenOnDisk' BY <1>8 DEF Promote
    <2> QED BY <2>1, <2>2
  <1>9. ASSUME NEW p \in Procs, Unlink(p) PROVE LockInv'
    <2>1. LocksAgree' /\ Granted' BY <1>9 DEF Unlink
    <2>2. flocks[p] = "EX" /\ name = fd[p] BY <1>9 DEF Unlink
    <2>3. ASSUME NEW q \in Procs, q # p, pc[q] \in {"held", "unlink"} PROVE FALSE
      <3>1. fd[q] = fd[p] BY <2>2, <2>3
      <3>2. flocks[q] = "none" BY <2>2, <2>3, <3>1
      <3>3. flocks[q] \in Modes BY <2>3
      <3> QED BY <3>2, <3>3
    <2>4. OpenOnDisk' BY <1>9, <2>3 DEF Unlink
    <2> QED BY <2>1, <2>4
  <1>10. ASSUME NEW p \in Procs, Release(p) PROVE LockInv'
    BY <1>10 DEF Release, Return, Close
  <1>11. ASSUME NEW p \in Procs, Die(p) PROVE LockInv'
    BY <1>11 DEF Die, Return, Close
  <1>12. CASE UNCHANGED vars
    BY <1>12 DEF vars
  <1> QED BY <1>1, <1>2, <1>3, <1>4, <1>5, <1>6, <1>7, <1>8, <1>9, <1>10, <1>11, <1>12
          DEF Next, Step

LEMMA LockInvariant == Spec => []LockInv
  BY LockInvInit, LockInvStep, Typing, PTL DEF Spec

\* Nobody removes the file under a holder or puts another in its place: the inode that
\* lockfile() compared with the name's is the name's until unlockfile() is called.
THEOREM FileStays == Spec => []HolderOnDisk
  <1>1. LockInv => HolderOnDisk BY DEF LockInv, OpenOnDisk, HolderOnDisk, Holds
  <1> QED BY <1>1, LockInvariant, PTL

\* Two processes past the check have locks of one file, the one on disk.
LEMMA HoldersAgree == TypeOK /\ LockInv => MutualExclusion
  BY DEF TypeOK, LockInv, LocksAgree, Granted, OpenOnDisk, MutualExclusion, Holds, Modes

\* An exclusive holder is alone, however often the file is removed and made anew.
THEOREM Exclusion == Spec => []MutualExclusion
  BY HoldersAgree, LockInvariant, Typing, PTL

-----------------------------------------------------------------------------
\* Who will remove the file on disk, or leave that to another who has it open.
Minds(p) == pc[p] \in {"flock", "verify", "held", "unlink"} /\ fd[p] = name

\* While the file is on disk somebody minds it.  A lock is held from flock() on, and one
\* that is being given back is no longer a lock of the file on disk.
CleanInv ==
  /\ \A p \in Procs : flocks[p] # "none" => pc[p] \in {"verify", "held", "unlink", "release"}
  /\ ~litter =>
       /\ name # NoFile => \E p \in Procs : Minds(p)
       /\ \A p \in Procs : pc[p] = "release" /\ flocks[p] # "none" => fd[p] # name

LEMMA CleanInit == Init => CleanInv
  BY DEF Init, CleanInv

\* Who is turned away, because another has the lock of the file on disk, leaves the
\* file to that other one.
LEMMA AnotherMinds ==
  ASSUME TypeOK, CleanInv, ~litter, NEW p \in Procs, NEW mode, fd[p] = name,
         fd[p] # NoFile, ~Grantable(p, mode)
  PROVE  \E q \in Procs : q # p /\ Minds(q)
  <1>1. PICK q \in Procs \ {p} : fd[q] = fd[p] /\ flocks[q] # "none"
    BY DEF Grantable
  <1>2. pc[q] \in {"verify", "held", "unlink"}
    BY <1>1 DEF CleanInv
  <1> QED BY <1>1, <1>2 DEF Minds

\* A process that does not mind the file, or goes on minding it, changes nothing for the
\* others.
LEMMA MindsKept ==
  ASSUME NEW p \in Procs, name' = name, \E q \in Procs : Minds(q),
         Minds(p) => Minds(p)' \/ (\E q \in Procs : q # p /\ Minds(q)),
         \A q \in Procs : q # p => pc'[q] = pc[q] /\ fd'[q] = fd[q]
  PROVE  \E q \in Procs : Minds(q)'
  BY DEF Minds

LEMMA CleanStep == TypeOK /\ LockInv /\ CleanInv /\ [Next]_vars => CleanInv'
  <1> SUFFICES ASSUME TypeOK, LockInv, CleanInv, [Next]_vars PROVE CleanInv' OBVIOUS
  <1> DEFINE Locked == \A q \in Procs :
                         flocks[q] # "none" => pc[q] \in {"verify", "held", "unlink", "release"}
             Minded == name # NoFile => \E q \in Procs : Minds(q)
             Given  == \A q \in Procs :
                         pc[q] = "release" /\ flocks[q] # "none" => fd[q] # name
  <1>0. Locked /\ (~litter => Minded /\ Given) BY DEF CleanInv
  <1> SUFFICES Locked' /\ (~litter' => Minded' /\ Given') BY DEF CleanInv
  <1> USE DEF Goto
  <1> HIDE DEF Minded
  <1>1. ASSUME NEW p \in Procs, NEW call \in Calls, Lock(p, call)
        PROVE  Locked' /\ (~litter' => Minded' /\ Given')
    <2>1. Locked' /\ (~litter' => Given')
      BY <1>0, <1>1 DEF Lock, TypeOK, OneOpenFile
    <2>2. ~litter' => Minded'
      BY <1>0, <1>1, MindsKept DEF Lock, TypeOK, Minds, Minded
    <2> QED BY <2>1, <2>2
  <1>2. ASSUME NEW p \in Procs, Open(p)
        PROVE  Locked' /\ (~litter' => Minded' /\ Given')
    <2>1. Minds(p)'
      BY <1>2 DEF Open, TypeOK, Minds
    <2>2. flocks[p] = "none" /\ fd[p] = NoFile
      BY <1>2 DEF Open, TypeOK, OneOpenFile
    <2>3. Locked'
      BY <1>0, <1>2, <2>2 DEF Open, TypeOK
    <2>4. ASSUME ~litter' PROVE Given'
      BY <1>0, <1>2, <2>2, <2>4 DEF Open, TypeOK
    <2> QED BY <2>1, <2>3, <2>4 DEF Minded
  <1>3. ASSUME NEW p \in Procs, MayNotOpen(p)
        PROVE  Locked' /\ (~litter' => Minded' /\ Given')
    <2>1. Locked' /\ (~litter' => Given')
      BY <1>0, <1>3 DEF MayNotOpen, Return, TypeOK
    <2>2. ~litter' => Minded'
      BY <1>0, <1>3, MindsKept DEF MayNotOpen, Return, TypeOK, Minds, Minded
    <2> QED BY <2>1, <2>2
  <1>4. ASSUME NEW p \in Procs, Flock(p)
        PROVE  Locked' /\ (~litter' => Minded' /\ Given')
    <2>1. Locked' /\ (~litter' => Given')
      BY <1>0, <1>4 DEF Flock, TypeOK
    <2>2. ~litter' => Minded'
      BY <1>0, <1>4, MindsKept DEF Flock, TypeOK, Minds, Minded
    <2> QED BY <2>1, <2>2
  <1>5. ASSUME NEW p \in Procs, WouldBlock(p)
        PROVE  Locked' /\ (~litter' => Minded' /\ Given')
    <2>1. Locked' /\ (~litter' => Given')
      BY <1>0, <1>5 DEF WouldBlock, Close, Return, TypeOK
    <2>2. ASSUME ~litter', name # NoFile, fd[p] = name
          PROVE  \E q \in Procs : q # p /\ Minds(q)
      BY <1>5, <2>2, AnotherMinds DEF WouldBlock
    <2>3. ~litter' => Minded'
      BY <1>0, <1>5, <2>2, MindsKept DEF WouldBlock, Close, Return, TypeOK, Minds, Minded
    <2> QED BY <2>1, <2>3
  <1>6. ASSUME NEW p \in Procs, Verify(p)
        PROVE  Locked' /\ (~litter' => Minded' /\ Given')
    <2>1. Locked' /\ (~litter' => Given')
      BY <1>0, <1>6 DEF Verify, TypeOK
    <2>2. ~litter' => Minded'
      BY <1>0, <1>6, MindsKept DEF Verify, TypeOK, Minds, Minded
    <2> QED BY <2>1, <2>2
  <1>7. ASSUME NEW p \in Procs, Mismatch(p)
        PROVE  Locked' /\ (~litter' => Minded' /\ Given')
    <2>1. Locked' /\ (~litter' => Given')
      BY <1>0, <1>7 DEF Mismatch, Close, Return, TypeOK
    <2>2. ~litter' => Minded'
      BY <1>0, <1>7, MindsKept DEF Mismatch, Close, Return, TypeOK, Minds, Minded
    <2> QED BY <2>1, <2>2
  <1>8. ASSUME NEW p \in Procs, Promote(p)
        PROVE  Locked' /\ (~litter' => Minded' /\ Given')
    <2>1. Locked' /\ (~litter' => Given')
      BY <1>0, <1>8 DEF Promote, TypeOK
    <2>2. ASSUME ~litter', ~Grantable(p, "EX")
          PROVE  \E q \in Procs : q # p /\ Minds(q)
      <3>1. fd[p] = name /\ fd[p] # NoFile
        BY <1>8 DEF Promote, LockInv, OpenOnDisk, TypeOK, OneOpenFile
      <3> QED BY <1>8, <2>2, <3>1, AnotherMinds DEF Promote
    <2>3. ~litter' => Minded'
      BY <1>0, <1>8, <2>2, MindsKept DEF Promote, TypeOK, Minds, Minded
    <2> QED BY <2>1, <2>3
  <1>9. ASSUME NEW p \in Procs, Unlink(p)
        PROVE  Locked' /\ (~litter' => Minded' /\ Given')
    <2>1. Locked'
      BY <1>0, <1>9 DEF Unlink, TypeOK
    <2>2. ASSUME ~litter' PROVE Minded' /\ Given'
      <3>1. name' = NoFile
        BY <1>9, <2>2 DEF Unlink
      <3>2. \A q \in Procs : pc'[q] = "release" => fd'[q] # NoFile
        BY <1>9 DEF Unlink, TypeOK, OneOpenFile
      <3> QED BY <3>1, <3>2 DEF Minded
    <2> QED BY <2>1, <2>2
  <1>10. ASSUME NEW p \in Procs, Release(p)
        PROVE  Locked' /\ (~litter' => Minded' /\ Given')
    <2>1. Locked' /\ (~litter' => Given')
      BY <1>0, <1>10 DEF Release, Close, Return, TypeOK
    <2>2. ~litter' => Minded'
      BY <1>0, <1>10, MindsKept DEF Release, Close, Return, TypeOK, Minds, Minded
    <2> QED BY <2>1, <2>2
  <1>11. ASSUME NEW p \in Procs, Die(p)
        PROVE  Locked' /\ (~litter' => Minded' /\ Given')
    BY <1>0, <1>11 DEF Die, Close, Return, TypeOK
  <1>12. CASE UNCHANGED vars
    BY <1>0, <1>12 DEF vars, Minds, Minded
  <1> QED BY <1>1, <1>2, <1>3, <1>4, <1>5, <1>6, <1>7, <1>8, <1>9, <1>10, <1>11, <1>12
          DEF Next, Step

\* When everybody is away the lock file is gone, unless somebody was killed or could not
\* remove it: who cannot promote its lock, or will not wait, leaves the file to a process
\* that minds it.
THEOREM Cleans == Spec => []CleansUp
  <1>1. CleanInv => CleansUp BY DEF CleanInv, CleansUp, Minds
  <1>2. Spec => []CleanInv
    BY CleanInit, CleanStep, LockInvariant, Typing, PTL DEF Spec
  <1> QED BY <1>1, <1>2, PTL

-----------------------------------------------------------------------------
LEMMA RefinementInit == Init => Rw!Init
  BY DEF Init, Rw!Init, Holds

\* Verify acquires, Promote and the death of a holder release, the rest stutters.
LEMMA RefinementStep ==
  TypeOK /\ LockInv /\ LockInv' /\ TypeOK' /\ [Next]_vars
    => [Rw!Next]_[p \in Procs |-> IF Holds(p) THEN op[p] ELSE "none"]
  <1> SUFFICES ASSUME TypeOK, LockInv, LockInv', TypeOK', [Next]_vars
               PROVE  [Rw!Next]_[p \in Procs |-> IF Holds(p) THEN op[p] ELSE "none"]
    OBVIOUS
  <1> DEFINE how == [p \in Procs |-> IF Holds(p) THEN op[p] ELSE "none"]
  <1> USE DEF TypeOK, Holds, Goto, Modes, Places
  <1>1. ASSUME NEW p \in Procs, NEW call \in Calls, Lock(p, call) PROVE how' = how
    BY <1>1 DEF Lock
  <1>2. ASSUME NEW p \in Procs, Open(p) PROVE how' = how
    BY <1>2 DEF Open
  <1>3. ASSUME NEW p \in Procs, MayNotOpen(p) PROVE how' = how
    BY <1>3 DEF MayNotOpen, Return
  <1>4. ASSUME NEW p \in Procs, Flock(p) PROVE how' = how
    BY <1>4 DEF Flock
  <1>5. ASSUME NEW p \in Procs, WouldBlock(p) PROVE how' = how
    BY <1>5 DEF WouldBlock, Return
  <1>6. ASSUME NEW p \in Procs, Verify(p) PROVE Rw!Next
    <2> PICK mode \in {"SH", "EX"} : mode = op[p] OBVIOUS
    <2>1. how[p] = "none" BY <1>6 DEF Verify
    <2>2. how' = [how EXCEPT ![p] = mode] BY <1>6 DEF Verify
    <2>3. ASSUME NEW q \in Procs \ {p}
          PROVE  how[q] = "none" \/ (mode = "SH" /\ how[q] = "SH")
      <3>1. CASE pc[q] # "held" BY <3>1
      <3>2. CASE pc[q] = "held"
        <4>1. fd[q] = fd[p] /\ flocks[p] = mode /\ flocks[q] = op[q]
          BY <1>6, <3>2 DEF Verify, LockInv, Granted, OpenOnDisk
        <4>2. mode # "EX" /\ op[q] # "EX"
          BY <4>1 DEF LockInv, LocksAgree
        <4> QED BY <3>2, <4>2
      <3> QED BY <3>1, <3>2
    <2>4. Rw!Acquire(p, mode) BY <2>1, <2>2, <2>3 DEF Rw!Acquire
    <2> QED BY <2>4 DEF Rw!Next
  <1>7. ASSUME NEW p \in Procs, Mismatch(p) PROVE how' = how
    BY <1>7 DEF Mismatch, Return
  <1>8. ASSUME NEW p \in Procs, Promote(p) PROVE Rw!Next
    <2>1. how[p] # "none" BY <1>8 DEF Promote
    <2>2. how' = [how EXCEPT ![p] = "none"] BY <1>8 DEF Promote
    <2> QED BY <2>1, <2>2 DEF Rw!Next, Rw!Release
  <1>9. ASSUME NEW p \in Procs, Unlink(p) PROVE how' = how
    BY <1>9 DEF Unlink
  <1>10. ASSUME NEW p \in Procs, Release(p) PROVE how' = how
    BY <1>10 DEF Release, Return
  <1>11. ASSUME NEW p \in Procs, Die(p) PROVE Rw!Next \/ how' = how
    <2>1. CASE pc[p] = "held"
      <3>1. how[p] # "none" BY <2>1
      <3>2. how' = [how EXCEPT ![p] = "none"] BY <1>11, <2>1 DEF Die, Return
      <3> QED BY <3>1, <3>2 DEF Rw!Next, Rw!Release
    <2>2. CASE pc[p] # "held"
      BY <1>11, <2>2 DEF Die, Return
    <2> QED BY <2>1, <2>2
  <1>12. CASE UNCHANGED vars
    BY <1>12 DEF vars
  <1> QED BY <1>1, <1>2, <1>3, <1>4, <1>5, <1>6, <1>7, <1>8, <1>9, <1>10, <1>11, <1>12
          DEF Next, Step

\* lockfile() and unlockfile() implement a readers-writer lock, for any number of
\* callers that wait, try once, crash, or leave the file behind.
THEOREM LockRefines == Spec => ImplementsRwLock
  BY RefinementInit, RefinementStep, Typing, LockInvariant, PTL
     DEF Spec, ImplementsRwLock, Rw!Spec
=============================================================================

------------------------------ MODULE RunQueue ------------------------------
(***************************************************************************)
(* RunQueueExecute (runqueue.py): bitbake's server runs the tasks of a     *)
(* build in worker processes.  From the top of the graph down it tries to  *)
(* restore what it can with setscene tasks; what is not restored, and what *)
(* is below it, is built from the bottom up; what is covered by something  *)
(* restored is skipped.  Both run at the same time.                        *)
(*                                                                         *)
(* execute() is called over and over.  `at` is where it is: it reads the   *)
(* results that have arrived, deals with one setscene task, brings the     *)
(* sets up to date, deals with one task, and returns.                      *)
(***************************************************************************)
EXTENDS SceneGraph, FiniteSets, Integers

CONSTANT Builds
\* A build b is a graph, with
\*   b.targets     the tasks that were asked for
\*   b.threads     BB_NUMBER_THREADS
\*   b.keep_going  -k
\*   b.current     setscene tasks that do nothing or whose stamp is current
\*   b.valid       setscene tasks whose result is in the shared state
\*   b.refused     setscene tasks that -f or --no-setscene keeps from running
\*   b.deferred    setscene tasks put off until the task of the same hash is done
\*   b.stamped     tasks whose stamp is current, or that do nothing

IsBuild(build) ==
  /\ IsGraph(build) /\ IsFiniteSet(Tasks(build))
  /\ build.targets \subseteq Tasks(build) /\ build.stamped \subseteq Tasks(build)
  /\ build.threads \in Nat \ {0} /\ build.keep_going \in BOOLEAN
  /\ \A S \in {build.current, build.valid, build.refused} : S \subseteq build.setscene
  /\ \A s \in DOMAIN build.deferred : {s, build.deferred[s]} \subseteq build.setscene

ASSUME RunQueueAssumption == \A build \in Builds : IsBuild(build)

VARIABLES
  b, sq,                                  \* the build, and its SQData
  at, state,                              \* where execute() is; rq.state
  scenequeue_covered, scenequeue_notcovered,
  sq_buildable, sq_running, sq_live, sq_deferred, outrightfail, sqdone,
  tasks_covered, tasks_notcovered, holdoff_tasks, holdoff_need_update,
  runq_buildable, runq_running, runq_complete, failed_tids,
  built, restored, stopped                \* history: what was really built, what was
                                          \* restored, and whether the user stopped it

sceneVars == <<scenequeue_covered, scenequeue_notcovered, sq_buildable, sq_running>>
queueVars == <<sq_live, sq_deferred, outrightfail, sqdone>>
holdVars == <<tasks_covered, tasks_notcovered, holdoff_tasks>>
runVars == <<runq_buildable, runq_running, runq_complete>>
history == <<built, restored, stopped>>
vars == <<b, sq, at, state, sceneVars, queueVars, holdVars, holdoff_need_update, runVars,
          failed_tids, history>>

AllTasks == Tasks(b)

\* stats.active and sq_stats.active
Active == runq_running \ (runq_complete \cup failed_tids)
\* Wrong variant: one too many.
CanStart_Full == Cardinality(Active) + Cardinality(sq_live) <= b.threads

CanStart == Cardinality(Active) + Cardinality(sq_live) < b.threads

TypeOK ==
  /\ at \in {"read", "scene", "holdoff", "normal", "finish", "over"}
  /\ state \in {"Running", "CleanUp", "Complete", "Failed"}
  /\ \A S \in {scenequeue_covered, scenequeue_notcovered, sq_buildable, sq_running,
               outrightfail, restored} : S \subseteq b.setscene
  /\ sq_live \subseteq sq_running /\ sq_running \subseteq sq_buildable
  /\ \A s \in DOMAIN sq_deferred : {s, sq_deferred[s]} \subseteq b.setscene
  /\ \A S \in {tasks_covered, tasks_notcovered, holdoff_tasks, runq_buildable} :
       S \subseteq AllTasks
  /\ failed_tids \subseteq runq_running /\ runq_complete \subseteq runq_running
  /\ runq_running \subseteq runq_buildable /\ built \subseteq runq_running
  /\ sqdone \in BOOLEAN /\ holdoff_need_update \in BOOLEAN /\ stopped \in BOOLEAN
  /\ Cardinality(Active) + Cardinality(sq_live) <= b.threads

-----------------------------------------------------------------------------
\* build_scenequeue_data, whose graph SceneQueue shows to be this one.
CantSkip == b.targets \ b.setscene

SQDataOf(build) ==
  [revdeps |-> [s \in build.setscene |-> SceneRevdeps(build, s)],
   deps    |-> [s \in build.setscene |->
                  {d \in build.setscene : s \in SceneRevdeps(build, d)}],
   hard    |-> [s \in build.setscene |-> {d \in build.setscene : <<d, s>> \in build.hard}],
   covered |-> [s \in build.setscene |-> Covers(build, s)],
   unskippable |-> Wanted(build, Roots(build) \cup (build.targets \ build.setscene))]

\* With no setscene tasks all tasks are to be built (runqueue.py:1538).
Init ==
  /\ b \in Builds
  /\ sq = SQDataOf(b)
  /\ at = "read" /\ state = "Running"
  /\ scenequeue_covered = b.current /\ scenequeue_notcovered = {}
  /\ sq_buildable = b.current \cup {s \in b.setscene : sq.revdeps[s] \subseteq b.current}
  /\ sq_running = b.current /\ sq_live = {}
  /\ sq_deferred = b.deferred
  /\ outrightfail = b.setscene \ (b.current \cup b.valid \cup DOMAIN b.deferred)
  /\ sqdone = (b.setscene = {})
  /\ tasks_covered = {}
  /\ tasks_notcovered = IF b.setscene = {} THEN AllTasks ELSE {}
  /\ holdoff_tasks = {} /\ holdoff_need_update = TRUE
  /\ runq_buildable = {t \in sq.unskippable \ b.setscene : b.depends[t] = {}}
  /\ runq_running = {} /\ runq_complete = {} /\ failed_tids = {}
  /\ built = {} /\ restored = {} /\ stopped = FALSE

\* execute() returns: finish() is called next if something failed or the user stops it.
Return == at' = IF state' = "CleanUp" THEN "finish" ELSE "read"

-----------------------------------------------------------------------------
Decided == scenequeue_covered \cup scenequeue_notcovered
Undecided == b.setscene \ Decided

\* tasks_scenequeue_done: the tasks all of whose users, up to the setscene tasks on the
\* way, have been dealt with.
SceneDone ==
  LET done[t \in AllTasks] ==
        IF t \in b.setscene THEN t \in Decided
        ELSE t \in sq.unskippable \/ \A r \in Revdeps(b, t) : done[r]
  IN  {t \in AllTasks : done[t]}

\* scenequeue_updatecounters: what may be tried next once the setscene tasks of `from`
\* are dealt with.
Unblocked(from) ==
  {d \in UNION {sq.deps[s] : s \in from} :
     sq.revdeps[d] \subseteq Decided'}

\* sq_task_completeoutright, and sq_task_skip
SceneCovered(s) ==
  /\ scenequeue_covered' = scenequeue_covered \cup {s}
  /\ UNCHANGED scenequeue_notcovered
  /\ sq_running' = sq_running \cup {s}
  /\ sq_buildable' = sq_buildable \cup {s} \cup Unblocked({s})
  /\ holdoff_need_update' = TRUE

\* s, those that need it restored and are not decided, and those that need them in turn.
Falls(s) ==
  {x \in b.setscene :
     \A S \in SUBSET b.setscene :
       s \in S /\ (\A y \in S : sq.hard[y] \ Decided \subseteq S) => x \in S}

\* sq_task_failoutright, and sq_task_fail.  Wrong variant: what comes after is not looked at.
SceneNotCovered_Stops(s) ==
  /\ scenequeue_notcovered' = scenequeue_notcovered \cup Falls(s)
  /\ UNCHANGED scenequeue_covered
  /\ sq_running' = sq_running \cup Falls(s)
  /\ sq_buildable' = sq_buildable \cup Falls(s)
  /\ holdoff_need_update' = TRUE

SceneNotCovered(s) ==
  /\ scenequeue_notcovered' = scenequeue_notcovered \cup Falls(s)
  /\ UNCHANGED scenequeue_covered
  /\ sq_running' = sq_running \cup Falls(s)
  /\ sq_buildable' = sq_buildable \cup Falls(s) \cup Unblocked(Falls(s))
  /\ holdoff_need_update' = TRUE

\* runqueue_process_waitpid, for a setscene task
SceneResult(s, ok) ==
  /\ at \in {"read", "finish"} /\ s \in sq_live
  /\ \/ ok /\ SceneCovered(s) /\ restored' = restored \cup {s}
     \/ ~ok /\ SceneNotCovered(s) /\ UNCHANGED restored
  /\ sq_live' = sq_live \ {s}
  /\ UNCHANGED <<b, sq, at, state, sq_deferred, outrightfail, sqdone, holdVars, runVars,
                 failed_tids, built, stopped>>

\* task_completeoutright: who depends on t may be ready.  Wrong variant: one of what it
\* depends on is enough.
Ready_Any(t) == Revdeps(b, t) \ (runq_running \cup runq_buildable)

Ready(t) ==
  {r \in Revdeps(b, t) \ (runq_running \cup runq_buildable) :
     b.depends[r] \subseteq runq_complete'}

\* update_scenequeue_data, for a task that is no longer put off.  It is covered if a stamp
\* of it is current by now: besides those of before, its own, if it fell with one it needs
\* restored and has been built since.  That is left open: stamps are compared with those
\* below, and some are cached or not made.
LookAgain(s) ==
  \/ /\ s \in b.current \cup b.stamped \cup (built \cap runq_complete)
     /\ SceneCovered(s) /\ UNCHANGED outrightfail
  \/ /\ s \notin b.current
     /\ UNCHANGED <<sceneVars, holdoff_need_update>>
     /\ \/ UNCHANGED outrightfail
        \/ s \notin Decided /\ outrightfail' = outrightfail \cup {s}

\* Of the setscene tasks put off until t one goes on, the others wait for it.
Undefer(t) ==
  LET waiting == {s \in DOMAIN sq_deferred : sq_deferred[s] = t}
  IN  \/ waiting = {} /\ UNCHANGED <<sceneVars, sq_deferred, outrightfail, holdoff_need_update>>
      \/ \E s \in waiting :
           /\ sq_deferred' = [x \in DOMAIN sq_deferred \ {s} |->
                                IF x \in waiting THEN s ELSE sq_deferred[x]]
           /\ LookAgain(s)

TaskDone(t) ==
  /\ runq_complete' = runq_complete \cup {t}
  /\ runq_buildable' = runq_buildable \cup Ready(t)
  /\ Undefer(t)

\* runqueue_process_waitpid, for a task.  Wrong variant: -k makes no difference.
TaskResult_Stops(t, ok) ==
  /\ at \in {"read", "finish"} /\ t \in Active \ sq_live
  /\ \/ ok /\ TaskDone(t) /\ UNCHANGED <<failed_tids, state>>
     \/ /\ ~ok
        /\ failed_tids' = failed_tids \cup {t}
        /\ state' = "CleanUp"
        /\ UNCHANGED <<runq_complete, runq_buildable, sceneVars, sq_deferred, outrightfail,
                       holdoff_need_update>>
  /\ UNCHANGED <<b, sq, at, sq_live, sqdone, holdVars, runq_running, history>>

TaskResult(t, ok) ==
  /\ at \in {"read", "finish"} /\ t \in Active \ sq_live
  /\ \/ ok /\ TaskDone(t) /\ UNCHANGED <<failed_tids, state>>
     \/ /\ ~ok
        /\ failed_tids' = failed_tids \cup {t}
        /\ state' = IF b.keep_going THEN state ELSE "CleanUp"
        /\ UNCHANGED <<runq_complete, runq_buildable, sceneVars, sq_deferred, outrightfail,
                       holdoff_need_update>>
  /\ UNCHANGED <<b, sq, at, sq_live, sqdone, holdVars, runq_running, history>>

Result(t) == \E ok \in BOOLEAN : SceneResult(t, ok) \/ TaskResult(t, ok)

ReadOn ==
  /\ at = "read" /\ at' = "scene"
  /\ UNCHANGED <<b, sq, state, sceneVars, queueVars, holdVars, holdoff_need_update,
                 runVars, failed_tids, history>>

-----------------------------------------------------------------------------
SceneReady(s) == at = "scene" /\ ~sqdone /\ CanStart /\ s \in sq_buildable \ sq_running

\* It is not put off, or the task it was put off for is done by now.
MayTry(s) ==
  SceneReady(s) /\ (s \in DOMAIN sq_deferred => sq_deferred[s] \in runq_complete)
Tried(s) == sq_deferred' = [x \in DOMAIN sq_deferred \ {s} |-> sq_deferred[x]]

\* Everything that uses s has been restored, and the recipes agree that it can do without.
\* Wrong variant: one that is restored is enough.
SkipUnneeded_Any(s) ==
  /\ SceneReady(s)
  /\ s \notin sq.unskippable \cup b.targets
  /\ sq.revdeps[s] \cap scenequeue_covered # {}
  /\ SceneCovered(s) /\ Tried(s)
  /\ UNCHANGED state /\ Return
  /\ UNCHANGED <<b, sq, sq_live, outrightfail, sqdone, holdVars, runVars, failed_tids,
                 history>>

SkipUnneeded(s) ==
  /\ SceneReady(s)
  /\ s \notin sq.unskippable \cup b.targets
  /\ sq.revdeps[s] # {} /\ sq.revdeps[s] \subseteq scenequeue_covered
  /\ SceneCovered(s) /\ Tried(s)
  /\ UNCHANGED state /\ Return
  /\ UNCHANGED <<b, sq, sq_live, outrightfail, sqdone, holdVars, runVars, failed_tids,
                 history>>

\* Its result is not in the shared state (which is looked up again for one that was put
\* off until now), or it may not be used.
FailOutright(s) ==
  /\ MayTry(s)
  /\ s \in outrightfail \cup b.refused \cup DOMAIN sq_deferred
  /\ SceneNotCovered(s) /\ Tried(s)
  /\ UNCHANGED state /\ Return
  /\ UNCHANGED <<b, sq, sq_live, outrightfail, sqdone, holdVars, runVars, failed_tids,
                 history>>

StartScene(s) ==
  /\ MayTry(s) /\ Tried(s)
  /\ s \notin outrightfail \cup b.refused
  /\ sq_running' = sq_running \cup {s} /\ sq_live' = sq_live \cup {s}
  /\ UNCHANGED <<b, sq, state, scenequeue_covered, scenequeue_notcovered, sq_buildable,
                 outrightfail, sqdone, holdVars, holdoff_need_update, runVars, failed_tids,
                 history>>
  /\ \/ CanStart' /\ Return
     \/ ~CanStart' /\ at' = "holdoff"

NoScene ==
  /\ at = "scene"
  /\ \A s \in b.setscene : ~MayTry(s)
  /\ at' = "holdoff"
  /\ UNCHANGED <<b, sq, state, sceneVars, queueVars, holdVars, holdoff_need_update,
                 runVars, failed_tids, history>>

-----------------------------------------------------------------------------
\* update_holdofftasks
NotCovered ==
  (scenequeue_notcovered \cup CantSkip \cup (sq.unskippable \ b.setscene)
     \cup UNION {sq.covered[s] : s \in scenequeue_notcovered}) \cap SceneDone

Covered ==
  ((scenequeue_covered \cup UNION {sq.covered[s] : s \in scenequeue_covered})
     \ NotCovered) \cap SceneDone

\* Wrong variant: only the setscene tasks themselves are held off.
Holdoff_SceneOnly == Undecided

Holdoff == Undecided \cup ((UNION {sq.covered[s] : s \in Undecided}) \ runq_complete)

UpdateHoldoff ==
  \/ ~holdoff_need_update /\ UNCHANGED <<holdVars, runq_buildable, holdoff_need_update>>
  \/ /\ holdoff_need_update
     /\ tasks_covered' = Covered /\ tasks_notcovered' = NotCovered
     /\ runq_buildable' = runq_buildable \cup
          {t \in Covered \cup NotCovered : b.depends[t] \subseteq runq_complete}
     /\ holdoff_tasks' = Holdoff
     /\ holdoff_need_update' = FALSE

\* summarise_scenequeue_errors
SceneErrors ==
  \/ DOMAIN sq_deferred # {} \/ holdoff_tasks # {}
  \/ Undecided # {} \/ sq_running # b.setscene
  \/ tasks_covered \cup tasks_notcovered # AllTasks \/ SceneDone # AllTasks
  \/ \E t \in AllTasks \ runq_buildable : b.depends[t] = {}

\* The setscene tasks are all dealt with.
Update ==
  /\ at = "holdoff"
  /\ UpdateHoldoff
  /\ UNCHANGED <<b, sq, sceneVars, sq_live, sq_deferred, outrightfail, runq_running,
                 runq_complete, failed_tids, history>>
  /\ LET finished == sq_live = {} /\ ~sqdone /\ DOMAIN sq_deferred = {}
                       /\ holdoff_tasks' = {}
         failed == finished /\ SceneErrors'
     IN  /\ sqdone' = (sqdone \/ (finished /\ ~failed))
         /\ state' = IF failed THEN "Failed" ELSE state
         /\ at' = IF failed THEN "over" ELSE "normal"

-----------------------------------------------------------------------------
\* What the scheduler may choose; the schedulers differ in the order.
Choices ==
  (runq_buildable \ (runq_running \cup holdoff_tasks))
    \cap (tasks_covered \cup tasks_notcovered)
MayRun(t) == at = "normal" /\ CanStart /\ t \in Choices

\* Covered by something restored, or there already.
SkipTask(t) ==
  /\ MayRun(t) /\ t \in tasks_covered \cup b.stamped
  /\ runq_running' = runq_running \cup {t}
  /\ TaskDone(t)
  /\ UNCHANGED state /\ Return
  /\ UNCHANGED <<b, sq, sq_live, sqdone, holdVars, failed_tids, history>>

RunTask(t) ==
  /\ MayRun(t) /\ t \notin tasks_covered \cup b.stamped
  /\ runq_running' = runq_running \cup {t}
  /\ built' = built \cup {t}
  /\ UNCHANGED state /\ Return
  /\ UNCHANGED <<b, sq, sceneVars, queueVars, holdVars, holdoff_need_update,
                 runq_buildable, runq_complete, failed_tids, restored, stopped>>

\* Nothing to start, or too much pressure on the machine to add to what runs.
Wait ==
  /\ at = "normal" /\ Active \cup sq_live # {}
  /\ \/ \A t \in Choices : ~MayRun(t)
     \/ Active # {}
  /\ UNCHANGED state /\ Return
  /\ UNCHANGED <<b, sq, sceneVars, queueVars, holdVars, holdoff_need_update, runVars,
                 failed_tids, history>>

Idle == at = "normal" /\ Active \cup sq_live = {} /\ Choices = {}

\* "Runqeueue deadlocked on deferred tasks".  It is the task waited for that is put among
\* the uncovered ones.  Wrong variant: the other is not taken off the list.
BreakDeadlock_Kept ==
  /\ Idle
  /\ \E s \in DOMAIN sq_deferred :
       IF sq_deferred[s] \notin runq_complete
       THEN SceneNotCovered(sq_deferred[s])
       ELSE UNCHANGED <<sceneVars, holdoff_need_update>>
  /\ UNCHANGED state /\ Return
  /\ UNCHANGED <<b, sq, queueVars, holdVars, runVars, failed_tids, history>>

BreakDeadlock ==
  /\ Idle
  /\ \E s \in DOMAIN sq_deferred :
       /\ Tried(s)
       /\ IF sq_deferred[s] \notin runq_complete
          THEN SceneNotCovered(sq_deferred[s])
          ELSE UNCHANGED <<sceneVars, holdoff_need_update>>
  /\ UNCHANGED state /\ Return
  /\ UNCHANGED <<b, sq, sq_live, outrightfail, sqdone, holdVars, runVars, failed_tids,
                 history>>

NeverRun == \E t \in AllTasks : t \notin runq_complete
End ==
  /\ Idle /\ DOMAIN sq_deferred = {}
  /\ state' = IF failed_tids # {} \/ SceneErrors \/ NeverRun THEN "Failed" ELSE "Complete"
  /\ at' = "over"
  /\ UNCHANGED <<b, sq, sceneVars, queueVars, holdVars, holdoff_need_update, runVars,
                 failed_tids, history>>

-----------------------------------------------------------------------------
\* finish(): once a task has failed, or the user has stopped the build, it waits for the
\* tasks that run.
Finish ==
  /\ at = "finish" /\ Active \cup sq_live = {}
  /\ state' = IF failed_tids # {} THEN "Failed" ELSE "Complete"
  /\ at' = "over"
  /\ UNCHANGED <<b, sq, sceneVars, queueVars, holdVars, holdoff_need_update, runVars,
                 failed_tids, history>>

Interrupt ==
  /\ at = "read" /\ at' = "finish" /\ state' = "CleanUp" /\ stopped' = TRUE
  /\ UNCHANGED <<b, sq, sceneVars, queueVars, holdVars, holdoff_need_update, runVars,
                 failed_tids, built, restored>>

\* finish_now(): the user stops the build once more, and running tasks are killed.
FinishNow ==
  /\ at \in {"read", "finish"} /\ at' = "over" /\ stopped' = TRUE
  /\ state' = IF failed_tids # {} THEN "Failed" ELSE "Complete"
  /\ UNCHANGED <<b, sq, sceneVars, queueVars, holdVars, holdoff_need_update, runVars,
                 failed_tids, built, restored>>

Over == at = "over" /\ UNCHANGED vars

Execute ==
  \/ ReadOn \/ NoScene \/ Update \/ Wait \/ BreakDeadlock \/ End \/ Finish
  \/ \E s \in b.setscene : SkipUnneeded(s) \/ FailOutright(s) \/ StartScene(s)
  \/ \E t \in AllTasks : SkipTask(t) \/ RunTask(t)

Next == Execute \/ Interrupt \/ FinishNow \/ Over \/ \E t \in AllTasks : Result(t)

Spec == Init /\ [][Next]_vars

-----------------------------------------------------------------------------
\* A task is started only when everything it depends on is complete.
DepsFirst == \A t \in runq_running : b.depends[t] \subseteq runq_complete

\* What a task that is built depends on is there: built, restored, or there from before.
\* It was not skipped because something else was restored.
NothingMissing ==
  \A t \in built : b.depends[t] \subseteq built \cup restored \cup b.stamped \cup b.current

\* "If covered tasks are running, need to wait for them to complete" (runqueue.py:2087):
\* what a setscene task restores is not being built at the same time.
NotWhileBuilt == \A s \in sq_live : ({s} \cup sq.covered[s]) \cap Active = {}

\* "No task should end up in both covered and uncovered, that is a bug"
\* (runqueue.py:2034).
NoneInBoth == scenequeue_covered \cap scenequeue_notcovered = {}

\* The sanity checks at the end find nothing: a build fails because a task failed.
FailsForAReason == state = "Failed" => failed_tids # {}

\* -k: "as much as possible will be built before stopping" (main.py:139): what is left
\* undone depends on something that failed.
Needs ==
  LET needs[t \in AllTasks] == {t} \cup UNION {needs[d] : d \in b.depends[t]} IN needs
KeepsGoing ==
  at = "over" /\ ~stopped /\ b.keep_going =>
    \A t \in AllTasks \ runq_complete : Needs[t] \cap failed_tids # {}

\* The build comes to an end, if workers do.
Ends == <>(at = "over")
FairSpec ==
  Spec /\ WF_vars(Execute)
       /\ \A t \in UNION {DOMAIN build.depends : build \in Builds} : SF_vars(Result(t))
=============================================================================

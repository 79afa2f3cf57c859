-------------------------- MODULE HudService_proofs --------------------------
(***************************************************************************)
(* What HudService promises for every value of its constants: its types in *)
(* any surroundings, and in plain use (Stress = {}) the safety properties  *)
(* that its runs check on small instances.                                 *)
(*                                                                         *)
(* The argument: the script and the HUD never drive can0 at the same time  *)
(* (ScriptAlone; one HUD, which stop finds: OneHud).  So what the script   *)
(* has read of can0 stays true until it uses it (ScriptKnows), what the    *)
(* probe has heard stays true until it transmits (ProbesSound), and can0   *)
(* goes up at a guess only listen-only.                                    *)
(***************************************************************************)
EXTENDS HudService, TLAPS

USE HudServiceAssumption DEF HudServiceAssumption

-----------------------------------------------------------------------------
(***************************************************************************)
(* Types.                                                                  *)
(***************************************************************************)
\* can0's variables keep their types.
LEMMA CanType == TypeOK /\ [Next]_vars => CanTypeOK'
  <1> SUFFICES ASSUME CanTypeOK, ScriptTypeOK, HudTypeOK, [Next]_vars PROVE CanTypeOK'
    BY DEF TypeOK
  <1> USE DEF CanTypeOK, canVars, canState, Goto, Authors
  <1>1. CASE BootStart \/ WaitForFb \/ FindCan \/ ReadOperstate \/ WarnMuted \/ Launch
             \/ Kill \/ RmPidfile \/ SleepThenStart
    BY <1>1 DEF BootStart, WaitForFb, FindCan, ReadOperstate, WarnMuted, Launch,
                Kill, RmPidfile, SleepThenStart
  <1>2. ASSUME NEW lo \in BOOLEAN, TypeCan(lo), UNCHANGED <<author, bus>> PROVE CanTypeOK'
    BY <1>2 DEF TypeCan, Can!Configure, Can!Accepts
  <1>3. CASE StartClear
    BY <1>2, <1>3 DEF StartClear, ClearListenOnly, Can!Down
  <1>4. CASE DownCan
    BY <1>4 DEF DownCan, Can!Down
  <1>5. CASE ConfigureCan
    BY <1>2, <1>5 DEF ConfigureCan, ScriptTypeOK, Config
  <1>6. CASE UpCan
    BY <1>6 DEF UpCan, Can!Up
  <1>7. CASE StopClear
    BY <1>2, <1>7 DEF StopClear, ClearListenOnly, Can!Down
  <1>8. ASSUME NEW p \in Pids, HudApp(p) PROVE CanTypeOK'
    <2>1. CASE AppBoot(p) \/ AppListen(p) \/ AppAgain(p)
      BY <2>1 DEF AppBoot, AppListen, AppAgain
    <2>2. CASE IpDown(p)
      BY <2>2 DEF IpDown, Can!Down
    <2>3. CASE IpType(p)
      BY <2>3 DEF IpType, Can!Configure, HudTypeOK, AppState
    <2>4. CASE IpUp(p)
      BY <2>4 DEF IpUp, Can!Up
    <2> QED
      BY <1>8, <2>1, <2>2, <2>3, <2>4 DEF HudApp
  <1>9. CASE Operator
    BY <1>9 DEF Operator, Invoke, EditConfig, SetByHand
  <1>10. CASE World
    BY <1>10 DEF World, FbAppears, Ignition, BusOff, Rejoin, PowerCut, Crash
  <1>11. CASE UNCHANGED vars
    BY <1>11 DEF vars
  <1> QED
    BY <1>1, <1>3, <1>4, <1>5, <1>6, <1>7, <1>8, <1>9, <1>10, <1>11
       DEF Next, Script, Start, Stop

\* The board's variables keep their types.
LEMMA BoardType == TypeOK /\ [Next]_vars => BoardTypeOK'
  <1> SUFFICES ASSUME BoardTypeOK, [Next]_vars PROVE BoardTypeOK'
    BY DEF TypeOK
  <1> USE DEF BoardTypeOK, boardState
  <1>1. CASE BootStart \/ SleepThenStart
    BY <1>1 DEF BootStart, SleepThenStart
  <1>2. CASE Start
    BY <1>2 DEF Start, WaitForFb, FindCan, StartClear, ClearListenOnly, ReadOperstate,
                DownCan, ConfigureCan, UpCan, WarnMuted, Launch
  <1>3. CASE Stop
    BY <1>3 DEF Stop, Kill, StopClear, ClearListenOnly, RmPidfile
  <1>4. ASSUME NEW p \in Pids, HudApp(p) PROVE BoardTypeOK'
    BY <1>4 DEF HudApp
  <1>5. CASE Operator
    BY <1>5 DEF Operator, Invoke, EditConfig, SetByHand
  <1>6. CASE Ignition
    <2>1. talking' \in BOOLEAN
      BY <1>6 DEF Ignition
    <2> QED
      BY <1>6, <2>1 DEF Ignition
  <1>7. CASE FbAppears \/ BusOff \/ Rejoin \/ PowerCut \/ (\E p \in Pids : Crash(p))
    BY <1>7 DEF FbAppears, BusOff, Rejoin, PowerCut, Crash
  <1>8. CASE UNCHANGED vars
    BY <1>8 DEF vars
  <1> QED
    BY <1>1, <1>2, <1>3, <1>4, <1>5, <1>6, <1>7, <1>8 DEF Next, Script, World

\* The script's variables keep their types.
LEMMA ScriptType == TypeOK /\ [Next]_vars => ScriptTypeOK'
  <1> SUFFICES ASSUME BoardTypeOK, ScriptTypeOK, [Next]_vars PROVE ScriptTypeOK'
    BY DEF TypeOK
  <1> USE DEF ScriptTypeOK, BoardTypeOK, StartSteps, StopSteps, scriptVars, Source, Goto
  <1>1. CASE BootStart \/ SleepThenStart
    BY <1>1 DEF BootStart, SleepThenStart
  <1>2. CASE WaitForFb
    BY <1>2 DEF WaitForFb
  <1>3. CASE StartClear \/ StopClear
    BY <1>3 DEF StartClear, StopClear, ClearListenOnly
  <1>4. CASE FindCan \/ ReadOperstate \/ DownCan \/ ConfigureCan
    BY <1>4 DEF FindCan, ReadOperstate, DownCan, ConfigureCan
  <1>5. CASE UpCan \/ Launch \/ Kill \/ RmPidfile
    BY <1>5 DEF UpCan, Launch, Kill, RmPidfile
  <1>6. CASE WarnMuted
    BY <1>6 DEF WarnMuted
  <1>7. ASSUME NEW p \in Pids, HudApp(p) PROVE ScriptTypeOK'
    BY <1>7 DEF HudApp
  <1>8. CASE Operator
    BY <1>8 DEF Operator, Invoke, EditConfig, SetByHand
  <1>9. CASE PowerCut
    <2>1. waited' \in 0..FbWait
      BY <1>9 DEF PowerCut
    <2> QED
      BY <1>9, <2>1 DEF PowerCut
  <1>10. CASE \/ FbAppears \/ Ignition \/ BusOff \/ Rejoin \/ (\E p \in Pids : Crash(p))
              \/ UNCHANGED vars
    BY <1>10 DEF FbAppears, Ignition, BusOff, Rejoin, Crash, vars
  <1> QED
    BY <1>1, <1>2, <1>3, <1>4, <1>5, <1>6, <1>7, <1>8, <1>9, <1>10
       DEF Next, Script, Start, Stop, World

\* Whatever becomes of a hud_app is again a state of one.
LEMMA BecomesType ==
  ASSUME HudTypeOK, NEW p \in Pids, NEW a \in AppState, Becomes(p, a)
  PROVE  app' \in [Pids -> AppState]
  BY DEF HudTypeOK, Becomes

\* A process that is not there has a state, too.
LEMMA NoProcessType == NoProcess \in AppState
  BY DEF NoProcess, AppState, AppPhases, Config, Probes

\* A signal leaves every hud_app in a state of one.
LEMMA DieType ==
  ASSUME HudTypeOK, NEW p \in Pids, Die(p)
  PROVE  app' \in [Pids -> AppState]
  <1>1. [app[p] EXCEPT !.dying = TRUE] \in AppState
    BY DEF HudTypeOK, AppState
  <1> QED
    BY <1>1, NoProcessType DEF HudTypeOK, Die

\* A probe sets out listen-only.
LEMMA SetsOut ==
  ASSUME HudTypeOK, NEW p \in Pids, NEW left \in SUBSET Rates, TryOneOf(p, left)
  PROVE  \E a \in AppState : /\ app' = [app EXCEPT ![p] = a]
                             /\ a.ph = "down" /\ a.lo /\ a.probes
                             /\ a.dying = app[p].dying /\ a.conf = app[p].conf
  <1> DEFINE state(r) == [app[p] EXCEPT !.ph = "down", !.try = r, !.left = left \ {r},
                                        !.lo = TRUE, !.probes = TRUE]
  <1>1. PICK r \in left : Becomes(p, state(r))
    BY Zenon DEF TryOneOf
  <1>2. /\ state(r) \in AppState /\ state(r).ph = "down"
        /\ state(r).dying = app[p].dying /\ state(r).conf = app[p].conf
    BY DEF HudTypeOK, AppState, AppPhases, IpSteps
  <1>3. state(r).lo /\ state(r).probes
    BY DEF HudTypeOK, AppState
  <1> HIDE DEF state
  <1> QED
    BY <1>1, <1>2, <1>3 DEF Becomes

\* So does the next rate of a probe ...
LEMMA TryOneOfType ==
  ASSUME HudTypeOK, NEW p \in Pids, NEW left \in SUBSET Rates, TryOneOf(p, left)
  PROVE  app' \in [Pids -> AppState]
  BY SetsOut DEF HudTypeOK

\* ... and the end of an `ip` child.
LEMMA IpDoneType ==
  ASSUME HudTypeOK, NEW p \in Pids, NEW next \in AppPhases, IpDone(p, next)
  PROVE  app' \in [Pids -> AppState]
  <1>1. [app[p] EXCEPT !.ph = next] \in AppState
    BY DEF HudTypeOK, AppState
  <1> QED
    BY <1>1, NoProcessType, BecomesType DEF IpDone

\* The pidfile and the processes keep their types.
LEMMA HudType == TypeOK /\ [Next]_vars => HudTypeOK'
  <1> SUFFICES ASSUME ScriptTypeOK, HudTypeOK, [Next]_vars PROVE HudTypeOK'
    BY DEF TypeOK
  <1>1. CASE UNCHANGED hudState
    BY <1>1 DEF HudTypeOK, hudState
  <1>2. CASE Launch
    <2>1. [NoProcess EXCEPT !.ph = "boot", !.conf = conf] \in AppState
      BY NoProcessType DEF ScriptTypeOK, AppState, AppPhases
    <2> QED
      BY <1>2, <2>1 DEF Launch, HudTypeOK
  <1>3. CASE Kill
    BY <1>3, DieType DEF Kill, HudTypeOK
  <1>4. CASE RmPidfile
    BY <1>4 DEF RmPidfile, HudTypeOK
  <1>5. ASSUME NEW p \in Pids, HudApp(p) PROVE HudTypeOK'
    <2>1. pidfile' = pidfile
      BY <1>5 DEF HudApp
    <2>2. app' \in [Pids -> AppState]
      <3>1. CASE AppBoot(p)
        <4>1. [app[p] EXCEPT !.ph = "run"] \in AppState
          BY DEF HudTypeOK, AppState, AppPhases
        <4> QED
          BY <3>1, <4>1, BecomesType, TryOneOfType DEF AppBoot
      <3>2. CASE IpDown(p)
        BY <3>2, IpDoneType DEF IpDown, AppPhases, IpSteps
      <3>3. CASE IpType(p)
        BY <3>3, IpDoneType DEF IpType, AppPhases, IpSteps
      <3>4. CASE IpUp(p)
        BY <3>4, IpDoneType DEF IpUp, AppPhases, IpSteps
      <3>5. CASE AppListen(p)
        <4>1. /\ [app[p] EXCEPT !.ph = "down", !.lo = FALSE] \in AppState
              /\ [app[p] EXCEPT !.ph = "parked"] \in AppState
              /\ app[p].left \in SUBSET Rates
          BY DEF HudTypeOK, AppState, AppPhases, IpSteps
        <4> QED
          BY <3>5, <4>1, BecomesType, TryOneOfType DEF AppListen
      <3>6. CASE AppAgain(p)
        BY <3>6, TryOneOfType DEF AppAgain
      <3> QED
        BY <1>5, <3>1, <3>2, <3>3, <3>4, <3>5, <3>6 DEF HudApp
    <2> QED
      BY <2>1, <2>2 DEF HudTypeOK
  <1>6. ASSUME NEW p \in Pids, Crash(p) PROVE HudTypeOK'
    BY <1>6, DieType DEF Crash, HudTypeOK
  <1>7. CASE PowerCut
    BY <1>7, NoProcessType DEF PowerCut, HudTypeOK
  <1>8. CASE \/ BootStart \/ WaitForFb \/ FindCan \/ StartClear \/ ReadOperstate
             \/ DownCan \/ ConfigureCan \/ UpCan \/ WarnMuted \/ StopClear
             \/ SleepThenStart
    BY <1>1, <1>8 DEF BootStart, WaitForFb, FindCan, StartClear, StopClear,
       ClearListenOnly, ReadOperstate, DownCan, ConfigureCan, UpCan, WarnMuted,
       SleepThenStart
  <1>9. CASE Operator \/ FbAppears \/ Ignition \/ BusOff \/ Rejoin
    BY <1>1, <1>9 DEF Operator, Invoke, EditConfig, SetByHand, FbAppears, Ignition,
                      BusOff, Rejoin
  <1>10. CASE UNCHANGED vars
    BY <1>1, <1>10 DEF vars
  <1> QED
    BY <1>2, <1>3, <1>4, <1>5, <1>6, <1>7, <1>8, <1>9, <1>10
       DEF Next, Script, Start, Stop, World

\* Every step keeps the types.
LEMMA TypeStep == TypeOK /\ [Next]_vars => TypeOK'
  BY CanType, BoardType, ScriptType, HudType DEF TypeOK

\* The types hold when the board is switched on.
LEMMA TypeInit == Init => TypeOK
  <1> SUFFICES ASSUME Init PROVE TypeOK
    OBVIOUS
  <1> USE DEF Init
  <1>1. CanTypeOK
    BY DEF CanTypeOK, Can!Init, Authors
  <1>2. BoardTypeOK
    BY DEF BoardTypeOK
  <1>3. ScriptTypeOK
    <2>1. waited \in 0..FbWait
      OBVIOUS
    <2> QED
      BY <2>1 DEF ScriptTypeOK
  <1>4. HudTypeOK
    BY NoProcessType DEF HudTypeOK
  <1> QED
    BY <1>1, <1>2, <1>3, <1>4 DEF TypeOK

\* The script and hud_app, in any surroundings, keep every variable in its
\* type; wait_for_fb gives up after FB_WAIT_S polls (hud-init:77-86).
THEOREM TypeCorrect == Spec => []TypeOK
  BY TypeInit, TypeStep, PTL DEF Spec

-----------------------------------------------------------------------------
(***************************************************************************)
(* PlainInv is inductive when Stress = {}.                                 *)
(***************************************************************************)
\* A process that is not there is dead and measures nothing.
LEMMA NoProcessFacts ==
  /\ NoProcess.ph = "dead" /\ ~NoProcess.dying /\ ~NoProcess.probes
  BY DEF NoProcess

\* No child of a killed hud_app outlives it.
LEMMA DeathIsFinal ==
  ASSUME Stress = {}, NEW p \in Pids, Die(p)
  PROVE  app' = [app EXCEPT ![p] = NoProcess]
  BY DEF Die

\* The HUD acts only while the script does not, or is about to kill it.
LEMMA HudActs ==
  ASSUME OneHud, ScriptAlone, NEW p \in Pids, HudApp(p)
  PROVE  /\ app[p] # NoProcess
         /\ pidfile = p
         /\ ~app[p].dying
         /\ \A q \in Pids \ {p} : app[q] = NoProcess
         /\ pc \notin StartSteps \cup (StopSteps \ {"kill"})
         /\ pc = "idle" => cmd # "stop"
         /\ booted
  <1>1. app[p] # NoProcess
    BY NoProcessFacts DEF HudApp, AppBoot, IpDown, IpType, IpUp, AppListen, AppAgain,
                          IpSteps
  <1> QED
    BY <1>1 DEF OneHud, ScriptAlone, NoHud

\* It stays the same HUD.
LEMMA HudStays ==
  ASSUME HudTypeOK, NEW p \in Pids, HudApp(p), ~app[p].dying
  PROVE  \E a \in AppState : /\ app' = [app EXCEPT ![p] = a]
                             /\ a.ph # "dead" /\ ~a.dying /\ a.conf = app[p].conf
  <1>1. app[p] \in AppState
    BY DEF HudTypeOK
  <1>2. ASSUME NEW left, TryOneOf(p, left), left \in SUBSET Rates
        PROVE \E a \in AppState : /\ app' = [app EXCEPT ![p] = a]
                                  /\ a.ph # "dead" /\ ~a.dying /\ a.conf = app[p].conf
    BY <1>2, SetsOut
  <1>3. CASE AppBoot(p)
    BY <1>1, <1>2, <1>3 DEF AppBoot, Becomes, AppState, AppPhases, IpSteps
  <1>4. CASE IpDown(p) \/ IpType(p)
    BY <1>1, <1>4 DEF IpDown, IpType, IpDone, Becomes, AppState, AppPhases, IpSteps
  <1>5. CASE IpUp(p)
    BY <1>1, <1>5 DEF IpUp, IpDone, Becomes, AppState, AppPhases, IpSteps
  <1>6. CASE AppListen(p)
    <2>1. /\ [app[p] EXCEPT !.ph = "down", !.lo = FALSE] \in AppState
          /\ [app[p] EXCEPT !.ph = "parked"] \in AppState
          /\ app[p].left \in SUBSET Rates
      BY <1>1 DEF AppState, AppPhases, IpSteps
    <2> QED
      BY <1>1, <1>2, <1>6, <2>1 DEF AppListen, Becomes, AppState
  <1>7. CASE AppAgain(p)
    BY <1>2, <1>7 DEF AppAgain
  <1> QED
    BY <1>3, <1>4, <1>5, <1>6, <1>7 DEF HudApp

\* A HUD is launched only when none is there, and takes the pidfile with it.
LEMMA OneHudStep ==
  ASSUME Stress = {}, PlainInv, [Next]_vars
  PROVE  OneHud'
  <1> USE DEF PlainInv, OneHud, Goto
  <1>1. CASE UNCHANGED hudState /\ (pc' # "idle" \/ (UNCHANGED <<pc, conf>>))
    BY <1>1 DEF hudState
  <1>2. CASE BootStart \/ SleepThenStart
    BY <1>1, <1>2 DEF BootStart, SleepThenStart, Source
  <1>3. CASE StartClear \/ StopClear
    BY <1>1, <1>3 DEF StartClear, StopClear, ClearListenOnly
  <1>4. CASE FindCan \/ ReadOperstate \/ DownCan \/ ConfigureCan \/ UpCan \/ WarnMuted
    BY <1>1, <1>4 DEF FindCan, ReadOperstate, DownCan, ConfigureCan, UpCan, WarnMuted
  <1>5. CASE WaitForFb
    BY <1>5 DEF WaitForFb, hudState, ScriptAlone, StartSteps, NoHud
  <1>6. CASE Launch
    <2>1. \A p \in Pids : app[p] = NoProcess
      BY <1>6 DEF Launch, ScriptAlone, StartSteps, NoHud
    <2> QED
      <3> DEFINE new == [NoProcess EXCEPT !.ph = "boot", !.conf = conf]
      <3>1. PICK p \in Pids : app' = [app EXCEPT ![p] = new] /\ pidfile' = p
        BY <1>6 DEF Launch
      <3>2. new.ph = "boot" /\ new.conf = conf /\ ~new.dying
        BY DEF NoProcess
      <3> HIDE DEF new
      <3> QED
        BY <1>6, <2>1, <3>1, <3>2 DEF Launch, TypeOK, HudTypeOK
  <1>7. CASE Kill
    BY <1>7, DeathIsFinal DEF Kill, Alive, TypeOK, HudTypeOK
  <1>8. CASE RmPidfile
    BY <1>8 DEF RmPidfile, ScriptAlone, StopSteps, NoHud
  <1>9. ASSUME NEW p \in Pids, HudApp(p) PROVE OneHud'
    BY <1>9, HudActs, HudStays DEF HudApp, scriptVars, TypeOK, HudTypeOK
  <1>10. CASE Operator
    BY <1>1, <1>10 DEF Operator, Invoke, Source, EditConfig, SetByHand, scriptVars
  <1>11. CASE PowerCut
    BY <1>11 DEF PowerCut
  <1>12. ASSUME NEW p \in Pids, Crash(p) PROVE OneHud'
    BY <1>12, DeathIsFinal DEF Crash, TypeOK, HudTypeOK, scriptVars
  <1>13. CASE FbAppears \/ Ignition \/ BusOff \/ Rejoin \/ UNCHANGED vars
    BY <1>1, <1>13 DEF FbAppears, Ignition, BusOff, Rejoin, vars, scriptVars
  <1> QED
    BY <1>2, <1>3, <1>4, <1>5, <1>6, <1>7, <1>8, <1>9, <1>10, <1>11, <1>12, <1>13
       DEF Next, Script, Start, Stop, World

\* The script goes past `kill`, or starts, only when no HUD is there.
LEMMA ScriptAloneStep ==
  ASSUME Stress = {}, PlainInv, [Next]_vars
  PROVE  ScriptAlone'
  <1> USE DEF PlainInv, ScriptAlone, Goto, StartSteps, StopSteps
  <1>1. app' = app => (NoHud => NoHud')
    BY DEF NoHud
  <1>2. CASE BootStart \/ SleepThenStart
    BY <1>1, <1>2 DEF BootStart, SleepThenStart, Source, hudState, boardState
  <1>3. CASE StartClear \/ StopClear
    BY <1>1, <1>3 DEF StartClear, StopClear, ClearListenOnly, hudState, boardState
  <1>4. CASE FindCan \/ ReadOperstate \/ DownCan \/ ConfigureCan \/ UpCan \/ WarnMuted
             \/ RmPidfile \/ WaitForFb
    BY <1>1, <1>4 DEF FindCan, ReadOperstate, DownCan, ConfigureCan, UpCan, WarnMuted,
                      RmPidfile, WaitForFb, hudState, boardState
  <1>5. CASE Launch
    BY <1>5 DEF Launch, boardState
  <1>6. CASE Kill
    <2>1. NoHud'
      BY <1>6, DeathIsFinal DEF Kill, Alive, OneHud, NoHud, TypeOK, HudTypeOK
    <2> QED
      BY <1>6, <2>1 DEF Kill, boardState
  <1>7. ASSUME NEW p \in Pids, HudApp(p) PROVE ScriptAlone'
    BY <1>7, HudActs DEF HudApp, boardState, scriptVars
  <1>8. CASE Operator
    BY <1>1, <1>8 DEF Operator, Invoke, Source, EditConfig, SetByHand, boardState,
                      scriptVars, hudState
  <1>9. CASE PowerCut
    BY <1>9 DEF PowerCut, NoHud
  <1>10. ASSUME NEW p \in Pids, Crash(p) PROVE ScriptAlone'
    <2>1. NoHud => NoHud'
      BY <1>10, DeathIsFinal DEF Crash, NoHud, TypeOK, HudTypeOK
    <2> QED
      BY <1>10, <2>1 DEF Crash, boardState, scriptVars
  <1>11. CASE FbAppears \/ Ignition \/ BusOff \/ Rejoin \/ UNCHANGED vars
    BY <1>1, <1>11 DEF FbAppears, Ignition, BusOff, Rejoin, vars, boardState, scriptVars,
                       hudState
  <1> QED
    BY <1>2, <1>3, <1>4, <1>5, <1>6, <1>7, <1>8, <1>9, <1>10, <1>11
       DEF Next, Script, Start, Stop, World

\* Only `start` takes can0 up, and only a can0 that is there.
LEMMA CanKnownStep ==
  ASSUME PlainInv, [Next]_vars
  PROVE  CanKnown'
  <1> USE DEF PlainInv, CanKnown, Goto
  <1>1. CASE UNCHANGED <<canState, present>>
    BY <1>1 DEF canState, canVars
  <1>2. CASE BootStart \/ WaitForFb \/ FindCan \/ ReadOperstate \/ WarnMuted \/ Launch
             \/ Kill \/ RmPidfile \/ SleepThenStart
    BY <1>1, <1>2 DEF BootStart, WaitForFb, FindCan, ReadOperstate, WarnMuted, Launch,
                      Kill, RmPidfile, SleepThenStart, boardState
  <1>3. ASSUME NEW lo \in BOOLEAN, TypeCan(lo), UNCHANGED present PROVE CanKnown'
    BY <1>3 DEF TypeCan, Can!Configure, Can!Accepts
  <1>4. CASE StartClear \/ StopClear
    BY <1>1, <1>3, <1>4 DEF StartClear, StopClear, ClearListenOnly, Can!Down,
                            canState, canVars, boardState
  <1>5. CASE DownCan
    BY <1>5 DEF DownCan, Can!Down, boardState
  <1>6. CASE ConfigureCan
    BY <1>1, <1>3, <1>6 DEF ConfigureCan, TypeOK, ScriptTypeOK, Config,
                            canState, canVars, boardState
  <1>7. CASE UpCan
    BY <1>7 DEF UpCan, Can!Up, ScriptKnows, StartSteps, canState, canVars, boardState
  <1>8. ASSUME NEW p \in Pids, HudApp(p) PROVE CanKnown'
    <2>1. CASE AppBoot(p) \/ AppListen(p) \/ AppAgain(p)
      BY <1>1, <1>8, <2>1 DEF HudApp, AppBoot, AppListen, AppAgain, boardState
    <2>2. CASE IpDown(p)
      BY <1>8, <2>2 DEF HudApp, IpDown, Can!Down, boardState
    <2>3. CASE IpType(p)
      BY <1>8, <2>3 DEF HudApp, IpType, Can!Configure, Can!Accepts, canVars, boardState
    <2>4. CASE IpUp(p)
      BY <1>8, <2>4 DEF HudApp, IpUp, Can!Up, ProbesSound, Probing, IpSteps,
                        canState, canVars, boardState
    <2> QED
      BY <1>8, <2>1, <2>2, <2>3, <2>4 DEF HudApp
  <1>9. CASE Operator
    BY <1>1, <1>9 DEF Operator, Invoke, EditConfig, SetByHand, boardState
  <1>10. CASE World
    BY <1>1, <1>10 DEF World, FbAppears, Ignition, BusOff, Rejoin, PowerCut, Crash,
                       canVars, boardState
  <1>11. CASE UNCHANGED vars
    BY <1>1, <1>11 DEF vars, boardState
  <1> QED
    BY <1>2, <1>4, <1>5, <1>6, <1>7, <1>8, <1>9, <1>10, <1>11
       DEF Next, Script, Start, Stop

\* can0 goes up at a guess only listen-only, or as the configuration tells.
LEMMA NoGuessedTransmitStep ==
  ASSUME PlainInv, [Next]_vars
  PROVE  NoGuessedTransmit'
  <1> USE DEF PlainInv, NoGuessedTransmit, Goto
  <1>1. CASE UNCHANGED canState
    BY <1>1 DEF canState, canVars
  <1>2. CASE BootStart \/ WaitForFb \/ FindCan \/ ReadOperstate \/ WarnMuted \/ Launch
             \/ Kill \/ RmPidfile \/ SleepThenStart
    BY <1>1, <1>2 DEF BootStart, WaitForFb, FindCan, ReadOperstate, WarnMuted, Launch,
                      Kill, RmPidfile, SleepThenStart
  <1>3. ASSUME NEW lo \in BOOLEAN, TypeCan(lo) PROVE NoGuessedTransmit'
    BY <1>3 DEF TypeCan, Can!Configure, Can!Accepts
  <1>4. CASE StartClear \/ StopClear
    BY <1>1, <1>3, <1>4 DEF StartClear, StopClear, ClearListenOnly, Can!Down,
                            canState, canVars
  <1>5. CASE DownCan
    BY <1>5 DEF DownCan, Can!Down
  <1>6. CASE ConfigureCan
    BY <1>1, <1>3, <1>6 DEF ConfigureCan, TypeOK, ScriptTypeOK, Config, canState, canVars
  <1>7. CASE UpCan
    BY <1>7 DEF UpCan, Can!Up, ScriptKnows, canState, canVars
  <1>8. ASSUME NEW p \in Pids, HudApp(p) PROVE NoGuessedTransmit'
    <2>1. CASE AppBoot(p) \/ AppListen(p) \/ AppAgain(p)
      BY <1>1, <2>1 DEF AppBoot, AppListen, AppAgain
    <2>2. CASE IpDown(p)
      BY <2>2 DEF IpDown, Can!Down
    <2>3. CASE IpType(p)
      BY <1>1, <2>3 DEF IpType, Can!Configure, Can!Accepts, canState, canVars
    <2>4. CASE IpUp(p)
      <3>1. ~listen => rate = VehicleRate
        <4>1. app[p].ph = "up" /\ app[p].ph \in IpSteps
          BY <2>4 DEF IpUp, IpSteps
        <4>2. Probing(app[p])
          BY DEF ProbesSound
        <4>3. /\ listen <=> app[p].lo
              /\ rate = app[p].try
              /\ ~app[p].lo => app[p].try = VehicleRate
          BY <4>1, <4>2, Zenon DEF Probing
        <4> QED
          BY <4>3, Zenon
      <3>2. (Can!Up /\ author' = "app") \/ UNCHANGED canState
        BY <2>4, Zenon DEF IpUp
      <3> QED
        BY <3>1, <3>2 DEF Can!Up, canState, canVars
    <2> QED
      BY <1>8, <2>1, <2>2, <2>3, <2>4 DEF HudApp
  <1>9. CASE Operator
    BY <1>1, <1>9 DEF Operator, Invoke, EditConfig, SetByHand
  <1>10. CASE World
    BY <1>1, <1>10 DEF World, FbAppears, Ignition, BusOff, Rejoin, PowerCut, Crash, canVars
  <1>11. CASE UNCHANGED vars
    BY <1>1, <1>11 DEF vars
  <1> QED
    BY <1>2, <1>4, <1>5, <1>6, <1>7, <1>8, <1>9, <1>10, <1>11
       DEF Next, Script, Start, Stop

\* What the script knows stays true while it runs: no HUD is there to interfere.
LEMMA ScriptKnowsStep ==
  ASSUME Stress = {}, PlainInv, [Next]_vars
  PROVE  ScriptKnows'
  <1> USE DEF PlainInv, ScriptKnows, Goto, StartSteps, StopSteps
  <1>1. CASE UNCHANGED <<canState, present, pc, cmd, conf>>
    BY <1>1 DEF canState, canVars, Can!CanOpen
  <1>2. CASE BootStart \/ SleepThenStart
    BY <1>2 DEF BootStart, SleepThenStart, Source
  <1>3. CASE WaitForFb
    BY <1>3 DEF WaitForFb, ScriptAlone, canState, canVars, boardState
  <1>4. CASE FindCan
    BY <1>4 DEF FindCan, CanKnown, canState, canVars, boardState
  <1>5. CASE StartClear
    BY <1>5 DEF StartClear, ClearListenOnly, TypeCan, Refused, Can!Down, Can!Configure,
                Can!Accepts, canVars, boardState
  <1>6. CASE ReadOperstate
    BY <1>6 DEF ReadOperstate, canState, canVars, boardState
  <1>7. CASE DownCan
    BY <1>7 DEF DownCan, Can!Down, boardState
  <1>8. CASE ConfigureCan
    <2>1. CASE Goto("type", "up") /\ TypeCan(conf.lo)
      <3>1. ~up /\ ~up' /\ present /\ rate' \in Rates
        BY <2>1 DEF TypeCan, Can!Configure, Can!Accepts
      <3>2. Can!CanOpen'
        BY <1>8, <2>1, <3>1 DEF TypeCan, Can!Configure, Can!Accepts, Can!CanOpen
      <3>3. listen' = conf.lo
        BY <2>1 DEF TypeCan, Can!Configure
      <3>4. listen' <=> conf'.lo
        BY <2>1, <3>3, Zenon
      <3> QED
        <4>1. pc' = "up" /\ present' = present
          BY <1>8, <2>1 DEF ConfigureCan, boardState
        <4> HIDE DEF Goto
        <4> QED
          BY <3>1, <3>2, <3>4, <4>1
    <2>2. CASE Goto("type", "warn") /\ Refused(conf.lo) /\ UNCHANGED canVars
      BY <1>8, <2>2 DEF ConfigureCan, Refused, Can!Accepts, canVars, boardState
    <2> QED
      BY <1>8, <2>1, <2>2 DEF ConfigureCan
  <1>9. CASE UpCan
    BY <1>9 DEF UpCan, Can!Up, Can!CanOpen, canState, canVars, boardState
  <1>10. CASE WarnMuted \/ Launch
    BY <1>10 DEF WarnMuted, Launch, ScriptAlone, canState, canVars, boardState
  <1>11. CASE Kill
    BY <1>11 DEF Kill, canState, canVars, boardState
  <1>12. CASE StopClear
    BY <1>12 DEF StopClear, ClearListenOnly, TypeCan, Refused, Can!Down, Can!Configure,
                 Can!Accepts, canVars, boardState
  <1>13. CASE RmPidfile
    BY <1>13 DEF RmPidfile, canState, canVars, boardState
  <1>14. ASSUME NEW p \in Pids, HudApp(p) PROVE ScriptKnows'
    BY <1>14, HudActs DEF HudApp, scriptVars
  <1>15. CASE Operator
    BY <1>1, <1>15 DEF Operator, Invoke, Source, EditConfig, SetByHand, scriptVars,
                       boardState
  <1>16. CASE PowerCut
    BY <1>16 DEF PowerCut
  <1>17. CASE FbAppears \/ Ignition \/ (\E p \in Pids : Crash(p)) \/ UNCHANGED vars
    BY <1>1, <1>17 DEF FbAppears, Ignition, Crash, vars, scriptVars, boardState
  <1>18. CASE BusOff \/ Rejoin
    BY <1>18 DEF BusOff, Rejoin, canVars, scriptVars, boardState, Can!CanOpen
  <1> QED
    BY <1>2, <1>3, <1>4, <1>5, <1>6, <1>7, <1>8, <1>9, <1>10, <1>11, <1>12, <1>13,
       <1>14, <1>15, <1>16, <1>17, <1>18 DEF Next, Script, Start, Stop, World

\* Nothing is asked of a process that is not there.
LEMMA NoProcessProbes == Probing(NoProcess) /\ Probing(NoProcess)'
  BY DEF Probing, NoProcess, IpSteps

\* A probe hears what it hears until it transmits: only it drives can0.
LEMMA ProbesSoundStep ==
  ASSUME Stress = {}, PlainInv, [Next]_vars
  PROVE  ProbesSound'
  <1> USE DEF PlainInv, ProbesSound
  <1>1. CASE UNCHANGED <<canState, present, app>>
    BY <1>1 DEF Probing, canState, canVars
  <1>2. CASE NoHud'
    BY <1>2, NoProcessProbes DEF NoHud
  <1>3. ASSUME NoHud, app' = app PROVE ProbesSound'
    BY <1>2, <1>3 DEF NoHud
  <1>4. CASE BootStart \/ SleepThenStart \/ WaitForFb \/ FindCan \/ ReadOperstate
             \/ WarnMuted \/ RmPidfile
    BY <1>1, <1>4 DEF BootStart, SleepThenStart, WaitForFb, FindCan, ReadOperstate,
                      WarnMuted, RmPidfile, hudState, boardState
  <1>5. CASE StartClear \/ StopClear
    BY <1>3, <1>5 DEF StartClear, StopClear, ClearListenOnly, Goto, ScriptAlone,
                      StartSteps, StopSteps, hudState
  <1>6. CASE DownCan \/ ConfigureCan \/ UpCan
    BY <1>3, <1>6 DEF DownCan, ConfigureCan, UpCan, Goto, ScriptAlone, StartSteps,
                      hudState
  <1>7. CASE Launch
    <2>1. PICK p \in Pids, a \in AppState :
            app' = [app EXCEPT ![p] = a] /\ a.ph = "boot" /\ ~a.probes
      <3>1. [NoProcess EXCEPT !.ph = "boot", !.conf = conf] \in AppState
        BY NoProcessType DEF TypeOK, ScriptTypeOK, AppState, AppPhases
      <3>2. ~[NoProcess EXCEPT !.ph = "boot", !.conf = conf].probes
        BY DEF NoProcess
      <3> QED
        BY <1>7, <3>1, <3>2, NoProcessType DEF Launch, AppState
    <2>2. \A q \in Pids : app[q] = NoProcess
      BY <1>7 DEF Launch, Goto, ScriptAlone, StartSteps, NoHud
    <2>3. Probing(a)'
      BY <2>1 DEF Probing, IpSteps
    <2> QED
      BY <2>1, <2>2, <2>3, NoProcessProbes DEF TypeOK, HudTypeOK
  <1>8. CASE Kill
    <2>1. NoHud'
      BY <1>8, DeathIsFinal DEF Kill, Alive, OneHud, NoHud, TypeOK, HudTypeOK
    <2> QED
      BY <1>2, <2>1
  <1>9. ASSUME NEW p \in Pids, HudApp(p) PROVE ProbesSound'
    <2> USE DEF TypeOK, HudTypeOK
    <2>1. /\ present' = present
          /\ ~app[p].dying
          /\ \A q \in Pids \ {p} : app[q] = NoProcess
      BY <1>9, HudActs DEF HudApp, boardState
    <2>2. ASSUME NEW a, app' = [app EXCEPT ![p] = a], Probing(a)' PROVE ProbesSound'
      BY <2>1, <2>2, NoProcessProbes
    <2>3. app[p] \in AppState /\ Probing(app[p])
      OBVIOUS
    <2>4. ASSUME NEW left \in SUBSET Rates, TryOneOf(p, left), UNCHANGED canState,
                 present, app[p].conf.probe = "on" \/ ~(author = "hand" /\ up)
          PROVE  ProbesSound'
      <3>1. PICK a \in AppState : /\ app' = [app EXCEPT ![p] = a]
                                 /\ a.ph = "down" /\ a.lo /\ a.probes
                                 /\ a.conf = app[p].conf
        BY <2>4, SetsOut
      <3>2. Probing(a)'
        BY <2>1, <2>4, <3>1 DEF Probing, IpSteps, canState, canVars
      <3> QED
        BY <2>2, <3>1, <3>2
    <2>5. CASE AppBoot(p)
      <3>1. CASE WantsProbe(app[p].conf.probe)
        BY <2>4, <2>5, <3>1 DEF AppBoot, WantsProbe
      <3>2. CASE ~WantsProbe(app[p].conf.probe)
        <4>1. PICK a \in AppState : /\ app' = [app EXCEPT ![p] = a] /\ a.ph = "run"
                                   /\ a.probes = app[p].probes /\ a.conf = app[p].conf
          BY <2>3, <2>5, <3>2 DEF AppBoot, Becomes, AppState, AppPhases
        <4>2. Probing(a)'
          BY <2>1, <2>3, <2>5, <4>1 DEF AppBoot, Probing, IpSteps, canState, canVars
        <4> QED
          BY <2>2, <4>1, <4>2
      <3> QED
        BY <3>1, <3>2
    <2>6. ASSUME NEW next \in AppPhases, IpDone(p, next)
          PROVE  \E a \in AppState : /\ app' = [app EXCEPT ![p] = a] /\ a.ph = next
                                     /\ a.lo = app[p].lo /\ a.try = app[p].try
                                     /\ a.probes = app[p].probes /\ a.conf = app[p].conf
      BY <2>1, <2>3, <2>6 DEF IpDone, Becomes, AppState
    <2>7. CASE IpDown(p)
      <3>1. PICK a \in AppState : /\ app' = [app EXCEPT ![p] = a] /\ a.ph = "type"
                                 /\ a.lo = app[p].lo /\ a.try = app[p].try
                                 /\ a.probes = app[p].probes /\ a.conf = app[p].conf
        BY <2>6, <2>7 DEF IpDown, AppPhases, IpSteps
      <3>2. Probing(a)'
        BY <2>1, <2>3, <2>7, <3>1 DEF IpDown, Can!Down, Probing, IpSteps
      <3> QED
        BY <2>2, <3>1, <3>2
    <2>8. CASE IpType(p)
      <3>1. CASE Can!Configure(app[p].try, FdMode, app[p].lo) /\ IpDone(p, "up")
        <4>1. PICK a \in AppState : /\ app' = [app EXCEPT ![p] = a] /\ a.ph = "up"
                                   /\ a.lo = app[p].lo /\ a.try = app[p].try
                                   /\ a.probes = app[p].probes /\ a.conf = app[p].conf
          BY <2>6, <3>1 DEF AppPhases, IpSteps
        <4>2. listen' <=> a.lo
          BY <3>1, <4>1, Zenon DEF Can!Configure
        <4>3. Probing(a)'
          BY <2>1, <2>3, <2>8, <3>1, <4>1, <4>2
             DEF IpType, Can!Configure, Can!Accepts, Probing, IpSteps
        <4> QED
          BY <2>2, <4>1, <4>3
      <3>2. CASE IpDone(p, "parked") /\ UNCHANGED canVars
        <4>1. PICK a \in AppState : /\ app' = [app EXCEPT ![p] = a] /\ a.ph = "parked"
                                   /\ a.probes = app[p].probes /\ a.conf = app[p].conf
          BY <2>6, <3>2 DEF AppPhases, IpSteps
        <4>2. Probing(a)'
          BY <2>1, <2>3, <2>8, <3>2, <4>1 DEF IpType, Probing, IpSteps, canVars
        <4> QED
          BY <2>2, <4>1, <4>2
      <3> QED
        BY <2>8, <3>1, <3>2 DEF IpType
    <2>9. CASE IpUp(p)
      <3>1. PICK a \in AppState :
              /\ app' = [app EXCEPT ![p] = a]
              /\ a.ph = (IF app[p].lo THEN "listen" ELSE "run")
              /\ a.lo = app[p].lo /\ a.try = app[p].try
              /\ a.probes = app[p].probes /\ a.conf = app[p].conf
        BY <2>6, <2>9, Zenon DEF IpUp, AppPhases, IpSteps
      <3>2. (Can!Up /\ author' = "app") \/ (~up /\ UNCHANGED canState)
        BY <2>3, <2>9 DEF IpUp, Probing
      <3>3. a.ph = "listen" => listen /\ rate = app[p].try
        BY <2>3, <2>9, <3>1, Zenon DEF IpUp, Probing
      <3>4. Probing(a)'
        BY <2>1, <2>3, <2>9, <3>1, <3>2, <3>3
           DEF IpUp, Can!Up, Probing, IpSteps, canState, canVars
      <3> QED
        BY <2>2, <3>1, <3>4
    <2>10. CASE AppListen(p)
      <3>1. CASE Hears /\ Becomes(p, [app[p] EXCEPT !.ph = "down", !.lo = FALSE])
        <4>1. PICK a \in AppState : /\ app' = [app EXCEPT ![p] = a] /\ a.ph = "down"
                                   /\ a.try = app[p].try
                                   /\ a.probes = app[p].probes /\ a.conf = app[p].conf
          <5> DEFINE b == [app[p] EXCEPT !.ph = "down", !.lo = FALSE]
          <5>1. b \in AppState
            BY <2>3 DEF AppState, AppPhases, IpSteps
          <5>2. /\ b.ph = "down" /\ b.try = app[p].try
                /\ b.probes = app[p].probes /\ b.conf = app[p].conf
            BY <2>3 DEF AppState
          <5>3. app' = [app EXCEPT ![p] = b]
            BY <3>1 DEF Becomes
          <5> HIDE DEF b
          <5> QED
            BY <5>1, <5>2, <5>3
        <4>2. Probing(a)'
          BY <2>1, <2>3, <2>10, <3>1, <4>1
             DEF AppListen, Hears, Probing, IpSteps, AppState, canState, canVars
        <4> QED
          BY <2>2, <4>1, <4>2
      <3>2. CASE TryOneOf(p, app[p].left)
        BY <2>3, <2>4, <2>10, <3>2 DEF AppListen, Probing, AppState
      <3>3. CASE Becomes(p, [app[p] EXCEPT !.ph = "parked"])
        <4>1. PICK a \in AppState : /\ app' = [app EXCEPT ![p] = a] /\ a.ph = "parked"
                                   /\ a.probes = app[p].probes /\ a.conf = app[p].conf
          <5> DEFINE b == [app[p] EXCEPT !.ph = "parked"]
          <5>1. b \in AppState
            BY <2>3 DEF AppState, AppPhases, IpSteps
          <5>2. /\ b.ph = "parked"
                /\ b.probes = app[p].probes /\ b.conf = app[p].conf
            BY <2>3 DEF AppState
          <5>3. app' = [app EXCEPT ![p] = b]
            BY <3>3 DEF Becomes
          <5> HIDE DEF b
          <5> QED
            BY <5>1, <5>2, <5>3
        <4>2. Probing(a)'
          BY <2>1, <2>3, <2>10, <4>1
             DEF AppListen, Probing, IpSteps, AppState, canState, canVars
        <4> QED
          BY <2>2, <4>1, <4>2
      <3> QED
        BY <2>10, <3>1, <3>2, <3>3 DEF AppListen
    <2>11. CASE AppAgain(p)
      BY <2>3, <2>4, <2>11 DEF AppAgain, Probing
    <2> QED
      BY <1>9, <2>5, <2>7, <2>8, <2>9, <2>10, <2>11 DEF HudApp
  <1>10. CASE Operator
    <2>1. CASE \/ \E c \in {"start", "stop", "restart"} : Invoke(c)
               \/ EditConfig
      BY <1>1, <2>1 DEF Invoke, EditConfig, hudState, boardState
    <2>2. ASSUME NEW r \in Rates, NEW lo \in BOOLEAN, SetByHand(r, lo)
          PROVE  ProbesSound'
      BY <1>3, <2>2 DEF SetByHand, hudState
    <2> QED
      BY <1>10, <2>1, <2>2 DEF Operator
  <1>11. CASE PowerCut
    BY <1>2, <1>11 DEF PowerCut, NoHud
  <1>12. ASSUME NEW p \in Pids, Crash(p) PROVE ProbesSound'
    <2>1. NoHud'
      BY <1>12, DeathIsFinal, NoProcessFacts
         DEF Crash, Alive, OneHud, NoHud, TypeOK, HudTypeOK
    <2> QED
      BY <1>2, <2>1
  <1>13. CASE FbAppears \/ Ignition \/ UNCHANGED vars
    BY <1>1, <1>13 DEF FbAppears, Ignition, vars, hudState, boardState
  <1>14. CASE BusOff \/ Rejoin
    BY <1>14 DEF BusOff, Rejoin, Probing, canVars, hudState, boardState
  <1> QED
    BY <1>4, <1>5, <1>6, <1>7, <1>8, <1>9, <1>10, <1>11, <1>12, <1>13, <1>14
       DEF Next, Script, Start, Stop, World

\* The parts of PlainInv are inductive together.
LEMMA PlainInvStep ==
  ASSUME Stress = {}, PlainInv, [Next]_vars
  PROVE  PlainInv'
  <1>1. TypeOK'
    BY TypeStep DEF PlainInv
  <1> QED
    BY <1>1, OneHudStep, ScriptAloneStep, ProbesSoundStep, ScriptKnowsStep,
       CanKnownStep, NoGuessedTransmitStep DEF PlainInv

\* PlainInv holds when the board is switched on.
LEMMA PlainInvInit == Init => PlainInv
  <1> SUFFICES ASSUME Init PROVE PlainInv
    OBVIOUS
  <1>1. NoHud /\ ~up /\ ~listen /\ pc = "idle"
    BY DEF Init, NoHud, Can!Init
  <1>2. OneHud /\ ScriptAlone
    BY <1>1 DEF OneHud, ScriptAlone, NoHud, StartSteps, StopSteps
  <1>3. ProbesSound
    BY <1>1, NoProcessProbes DEF ProbesSound, NoHud
  <1>4. ScriptKnows /\ CanKnown /\ NoGuessedTransmit
    BY <1>1 DEF ScriptKnows, CanKnown, NoGuessedTransmit, StartSteps
  <1> QED
    BY <1>2, <1>3, <1>4, TypeInit DEF PlainInv

\* PlainInv is an invariant of plain use.
LEMMA PlainInvHolds == ASSUME Stress = {} PROVE Spec => []PlainInv
  BY PlainInvInit, PlainInvStep, PTL DEF Spec

-----------------------------------------------------------------------------
\* In plain use can0 never transmits at a rate that is a guess, of the script
\* or of the probe, for any rates and any configurations (hud-init:50-62).
THEOREM GuessNeverTransmits == ASSUME Stress = {} PROVE Spec => []NoGuessedTransmit
  <1>1. PlainInv => NoGuessedTransmit
    BY DEF PlainInv
  <1> QED
    BY <1>1, PlainInvHolds, PTL

\* In plain use no HUD starts on a can0 that an earlier run left mute
\* (hud-init:88-95).
THEOREM MuteNotInherited == ASSUME Stress = {} PROVE Spec => []NoInheritedMute
  <1>1. PlainInv => NoInheritedMute
    BY DEF PlainInv, ScriptKnows, NoInheritedMute
  <1> QED
    BY <1>1, PlainInvHolds, PTL

\* In plain use `stop` leaves can0 able to talk (hud-init:263-265).
THEOREM StopUnmutes == ASSUME Stress = {} PROVE Spec => []StopLeavesNoMute
  <1>1. PlainInv => StopLeavesNoMute
    BY DEF PlainInv, ScriptKnows, StopLeavesNoMute
  <1> QED
    BY <1>1, PlainInvHolds, PTL

\* In plain use can0 is up when the HUD is launched, with or without CAN FD,
\* if the driver takes what is asked of it (hud-init:136-153).
THEOREM CanComesUp == ASSUME Stress = {} PROVE Spec => []CanUpAtLaunch
  <1>1. PlainInv => CanUpAtLaunch
    BY DEF PlainInv, ScriptKnows, CanUpAtLaunch
  <1> QED
    BY <1>1, PlainInvHolds, PTL

\* In plain use the HUD that runs is the one in the pidfile, and after a restart
\* it has the configuration that restart read (hud-init:256-273).
THEOREM HudIsKnown == ASSUME Stress = {} PROVE Spec => [](RecordedHud /\ RestartApplies)
  <1>1. PlainInv => RecordedHud /\ RestartApplies
    BY NoProcessFacts DEF PlainInv, OneHud, RecordedHud, RestartApplies, Alive
  <1> QED
    BY <1>1, PlainInvHolds, PTL

\* The configurations hud-default:5-7 does not warn of: who mutes can0 does not leave
\* the decision to measure to hud_app.
SoundChoice(c) == c.lo => c.probe # "auto"

\* A HUD whose configuration mutes can0 for good has been warned about, and only such
\* a configuration lets it settle on a mute can0.
HudWarned ==
  \A p \in Pids : app[p] # NoProcess =>
    /\ SoundChoice(app[p].conf)
    /\ app[p].conf.lo /\ app[p].conf.probe = "off" => warned
    /\ app[p].ph = "boot" /\ up /\ listen => app[p].conf.lo
    /\ app[p].ph = "run" /\ up /\ listen => warned

WarnInv ==
  /\ SoundChoice(cfg) /\ SoundChoice(conf)
  /\ pc = "launch" => (warned <=> conf.lo /\ conf.probe = "off")
  /\ HudWarned

\* The HUD's own steps: it settles on a can0 that it has not measured only with the
\* configuration it was launched with.
LEMMA HudWarnedStep ==
  ASSUME PlainInv, HudWarned, NEW p \in Pids, HudApp(p)
  PROVE  HudWarned'
  <1> DEFINE Settled == /\ app'[p].ph # "boot"
                        /\ app'[p].ph = "run" /\ up' /\ listen' => warned
  <1>1. /\ app[p] # NoProcess /\ ~app[p].dying
        /\ app \in [Pids -> AppState]
        /\ \A q \in Pids \ {p} : app[q] = NoProcess
    BY HudActs DEF PlainInv, TypeOK, HudTypeOK
  <1>2. app'[p].conf = app[p].conf /\ \A q \in Pids \ {p} : app'[q] = NoProcess
    BY <1>1, HudStays DEF PlainInv, TypeOK, HudTypeOK
  <1>3. warned' = warned
    BY DEF HudApp, scriptVars
  <1>4. ASSUME NEW left \in SUBSET Rates, TryOneOf(p, left) PROVE Settled
    BY <1>1, <1>4, SetsOut DEF PlainInv, TypeOK, HudTypeOK
  <1>5. Settled
    <2>1. CASE AppBoot(p) /\ WantsProbe(app[p].conf.probe)
      BY <1>4, <2>1 DEF AppBoot
    <2>2. CASE AppBoot(p) /\ ~WantsProbe(app[p].conf.probe)
      <3>1. app'[p].ph = "run" /\ up' = up /\ listen' = listen /\ app[p].ph = "boot"
        BY <1>1, <2>2 DEF AppBoot, Becomes, AppState, canState, canVars
      <3>2. app[p].conf.probe \in Probes
        BY <1>1 DEF AppState, Config
      <3>3. up /\ listen => app[p].conf.lo /\ app[p].conf.probe = "off"
        BY <1>1, <2>2, <3>1, <3>2
           DEF HudWarned, SoundChoice, WantsProbe, PlainInv, CanKnown, Probes
      <3> QED
        BY <1>1, <3>1, <3>3 DEF HudWarned
    <2>3. CASE IpDown(p) \/ IpType(p)
      BY <1>1, <2>3 DEF IpDown, IpType, IpDone, Becomes, AppState
    <2>4. CASE IpUp(p)
      <3>1. /\ app[p].ph = "up" /\ app'[p].ph \in {"listen", "run"}
            /\ app'[p].ph = "run" => ~app[p].lo
        BY <1>1, <2>4 DEF IpUp, IpDone, Becomes, AppState
      <3>2. listen' = listen /\ (listen <=> app[p].lo)
        BY <2>4, <3>1
           DEF IpUp, Can!Up, canState, canVars, PlainInv, ProbesSound, Probing
      <3> QED
        BY <3>1, <3>2
    <2>5. CASE AppListen(p)
      BY <1>1, <1>4, <2>5 DEF AppListen, Becomes, AppState
    <2>6. CASE AppAgain(p)
      BY <1>4, <2>6 DEF AppAgain
    <2> QED
      BY <2>1, <2>2, <2>3, <2>4, <2>5, <2>6 DEF HudApp
  <1> QED
    BY <1>1, <1>2, <1>3, <1>5 DEF HudWarned, SoundChoice

\* The script warns before it launches, and while a HUD is there it warns no more.
LEMMA WarnInvStep ==
  ASSUME Stress = {}, \A c \in Configs : SoundChoice(c), PlainInv, WarnInv, [Next]_vars
  PROVE  WarnInv'
  <1>1. SoundChoice(cfg') /\ SoundChoice(conf')
    <2> USE DEF WarnInv, SoundChoice
    <2>1. CASE BootStart \/ SleepThenStart \/ Operator
      BY <2>1 DEF BootStart, SleepThenStart, Operator, Invoke, Source, EditConfig,
                  SetByHand, boardState, scriptVars
    <2>2. CASE Start \/ Stop
      BY <2>2 DEF Start, Stop, WaitForFb, FindCan, StartClear, StopClear, ClearListenOnly,
                  ReadOperstate, DownCan, ConfigureCan, UpCan, WarnMuted, Launch, Kill,
                  RmPidfile, Goto, boardState
    <2>3. CASE World \/ (\E p \in Pids : HudApp(p)) \/ UNCHANGED vars
      BY <2>3 DEF World, FbAppears, Ignition, BusOff, Rejoin, PowerCut, Crash, HudApp, vars,
                  boardState, scriptVars
    <2> QED
      BY <2>1, <2>2, <2>3 DEF Next, Script
  <1>2. (pc = "launch" => (warned <=> conf.lo /\ conf.probe = "off"))'
    <2> USE DEF WarnInv, Goto
    <2>1. CASE BootStart \/ SleepThenStart \/ Operator
      BY <2>1 DEF BootStart, SleepThenStart, Operator, Invoke, Source, EditConfig,
                  SetByHand, scriptVars
    <2>2. CASE WarnMuted
      BY <2>2, Zenon DEF WarnMuted
    <2>3. CASE (Start /\ ~WarnMuted) \/ Stop
      BY <2>3 DEF Start, Stop, WaitForFb, FindCan, StartClear, StopClear, ClearListenOnly,
                  ReadOperstate, DownCan, ConfigureCan, UpCan, Launch, Kill, RmPidfile
    <2>4. CASE World \/ (\E p \in Pids : HudApp(p)) \/ UNCHANGED vars
      BY <2>4 DEF World, FbAppears, Ignition, BusOff, Rejoin, PowerCut, Crash, HudApp, vars,
                  scriptVars
    <2> QED
      BY <2>1, <2>2, <2>3, <2>4 DEF Next, Script
  <1>3. HudWarned'
    <2> USE DEF HudWarned
    <2>1. CASE UNCHANGED <<canVars, warned, app>>
      BY <2>1 DEF WarnInv, SoundChoice, canVars
    <2>2. CASE NoHud'
      BY <2>2 DEF NoHud
    <2>3. CASE BootStart \/ SleepThenStart \/ WaitForFb \/ FindCan \/ ReadOperstate
               \/ RmPidfile \/ FbAppears \/ Ignition \/ BusOff \/ Rejoin \/ UNCHANGED vars
      BY <2>1, <2>3 DEF BootStart, SleepThenStart, WaitForFb, FindCan, ReadOperstate,
                        RmPidfile, FbAppears, Ignition, BusOff, Rejoin, Source, canState,
                        hudState, scriptVars, vars
    <2>4. CASE StartClear \/ StopClear \/ DownCan \/ ConfigureCan \/ UpCan \/ WarnMuted
      <3>1. NoHud /\ app' = app
        BY <2>4 DEF StartClear, StopClear, ClearListenOnly, DownCan, ConfigureCan, UpCan,
                    WarnMuted, Goto, PlainInv, ScriptAlone, StartSteps, StopSteps, hudState
      <3> QED
        BY <2>2, <3>1 DEF NoHud
    <2>5. CASE Launch
      <3> DEFINE new == [NoProcess EXCEPT !.ph = "boot", !.conf = conf]
      <3>1. pc = "launch" /\ NoHud /\ UNCHANGED canState /\ UNCHANGED warned
        BY <2>5 DEF Launch, Goto, PlainInv, ScriptAlone, StartSteps
      <3>2. PICK p \in Pids : app' = [app EXCEPT ![p] = new]
        BY <2>5 DEF Launch
      <3>3. new.ph = "boot" /\ new.conf = conf
        BY DEF NoProcess
      <3>4. up /\ listen => conf.lo
        BY <3>1 DEF PlainInv, ScriptKnows
      <3>5. app'[p] = new /\ \A q \in Pids \ {p} : app'[q] = NoProcess
        BY <3>1, <3>2 DEF NoHud, PlainInv, TypeOK, HudTypeOK
      <3> HIDE DEF new
      <3> QED
        BY <3>1, <3>3, <3>4, <3>5 DEF WarnInv, SoundChoice, canState, canVars
    <2>6. CASE Kill \/ \E p \in Pids : Crash(p)
      <3>1. UNCHANGED <<canState, warned>>
        BY <2>6 DEF Kill, Crash, Goto, scriptVars
      <3>2. app' = app \/ \E p \in Pids : app' = [app EXCEPT ![p] = NoProcess]
        BY <2>6, DeathIsFinal DEF Kill, Crash
      <3> QED
        BY <3>1, <3>2
           DEF WarnInv, SoundChoice, canState, canVars, PlainInv, TypeOK, HudTypeOK
    <2>7. ASSUME NEW p \in Pids, HudApp(p) PROVE HudWarned'
      BY <2>7, HudWarnedStep DEF WarnInv
    <2>8. CASE Operator
      <3>1. CASE \E r \in Rates, lo \in BOOLEAN : SetByHand(r, lo)
        BY <2>2, <3>1 DEF SetByHand, NoHud, hudState
      <3> QED
        BY <2>1, <2>8, <3>1 DEF Operator, Invoke, Source, EditConfig, canState, hudState,
                                scriptVars
    <2>9. CASE PowerCut
      BY <2>2, <2>9 DEF PowerCut, NoHud
    <2> QED
      BY <2>3, <2>4, <2>5, <2>6, <2>7, <2>8, <2>9 DEF Next, Script, Start, Stop, World
  <1> QED
    BY <1>1, <1>2, <1>3 DEF WarnInv

\* In plain use a HUD that has settled on a mute can0 has been warned about, for any
\* configurations but those hud-default:5-7 warns of (hud-init:63-67 and 178-190).
THEOREM MuteWarned ==
  ASSUME Stress = {}, \A c \in Configs : SoundChoice(c)
  PROVE  Spec => []MuteIsWarned
  <1>1. Init => WarnInv
    BY DEF Init, WarnInv, HudWarned, NoProcess
  <1>2. WarnInv => MuteIsWarned
    BY NoProcessFacts DEF WarnInv, HudWarned, MuteIsWarned
  <1>3. PlainInv /\ WarnInv /\ [Next]_vars => WarnInv'
    BY WarnInvStep
  <1> QED
    BY <1>1, <1>2, <1>3, PlainInvHolds, PTL DEF Spec

\* In plain use neither the script nor a HUD without --probe on touches a can0
\* that a person has brought up to talk and that has not been off the bus since
\* (hud-init:20-23; the two exceptions are the code's own, 99-109 and 123-134).
THEOREM HandsAreKeptOff == ASSUME Stress = {} PROVE Spec => HandsOff
  <1> DEFINE Touched == /\ author = "hand" /\ up /\ ~listen /\ bus = "on"
                        /\ Script \/ \E p \in Pids : app[p].conf.probe # "on" /\ HudApp(p)
  <1>1. ASSUME PlainInv, Touched PROVE UNCHANGED canState
    <2>1. ~listen /\ bus = "on"
      BY <1>1
    <2>2. CASE Script
      <3>1. pc \notin {"clear_down", "unmute_down", "clear_type", "unmute_type", "down",
                       "type", "up"}
        BY <1>1, <2>1 DEF PlainInv, ScriptKnows
      <3> USE DEF Goto, canState
      <3>2. CASE StartClear \/ StopClear
        BY <3>1, <3>2 DEF StartClear, StopClear, ClearListenOnly
      <3>3. CASE Start /\ ~StartClear
        BY <3>1, <3>3 DEF Start, WaitForFb, FindCan, ReadOperstate, DownCan, ConfigureCan,
                          UpCan, WarnMuted, Launch
      <3>4. CASE Kill \/ RmPidfile \/ SleepThenStart
        BY <3>4 DEF Kill, RmPidfile, SleepThenStart
      <3> QED
        BY <2>2, <3>2, <3>3, <3>4 DEF Script, Start, Stop
    <2>3. ASSUME NEW p \in Pids, app[p].conf.probe # "on", HudApp(p)
          PROVE  UNCHANGED canState
      <3>1. app[p].ph \notin IpSteps
        BY <1>1, <2>3 DEF PlainInv, ProbesSound, Probing
      <3> QED
        BY <2>3, <3>1 DEF HudApp, AppBoot, IpDown, IpType, IpUp, AppListen, AppAgain,
                          IpSteps
    <2> QED
      BY <1>1, <2>2, <2>3
  <1>2. PlainInv => [Touched => UNCHANGED canState]_vars
    BY <1>1
  <1> QED
    BY <1>2, PlainInvHolds, PTL DEF HandsOff
=============================================================================

-------------------------------- MODULE Boot --------------------------------
(***************************************************************************)
(* Booting the board with sysvinit: rcS.d with the splash and the first    *)
(* boot's postinst scripts, then the default runlevel with the Bluetooth   *)
(* script in the background, the demo if its link still says so, and the   *)
(* HUD.  Power may be cut anywhere; runlevels may be changed.  Composes    *)
(* BootScreen and OneKiwiBt.                                               *)
(***************************************************************************)
EXTENDS BootScreen, OneKiwiBt, Sequences

CONSTANTS
  Levels,       \* runlevels that have the links, in the postinst's order
  Default       \* the runlevel of /etc/inittab

LevelSet == {Levels[i] : i \in DOMAIN Levels}

ASSUME BootAssumption ==
  /\ Levels \in Seq(LevelSet) /\ Default \in LevelSet /\ Starts # {}
  /\ LevelSet \cap {"off", "S", "halt", "N"} = {}

VARIABLES
  level,     \* runlevel: "off", "S", "halt" or one of Levels
  prev,      \* the runlevel before, "N" after power-on
  todo,      \* commands the rc script still runs
  links,     \* for each level: does lvgl-v9 have its S98 or its K98 link
  pending,   \* the postinst script of onekiwi-hud-svc has not been removed yet
  late       \* history: hud-init gave up waiting for /dev/fb0 since power-on

rcVars == <<level, prev, todo, links, pending, late>>
vars == <<rcVars, fbVars, btVars>>

NoBt == UNCHANGED btVars

\* A command of a script, and the level whose link it is about.
Commands == {"splash", "move", "rm", "bt", "demo", "hud", "unbind", "launch",
             "kill_demo", "logo", "kill_hud"} \X LevelSet
Do(command) == << <<command, Default>> >>

TypeOK ==
  /\ FbTypeOK /\ BtTypeOK
  /\ level \in LevelSet \cup {"off", "S", "halt"}
  /\ prev \in LevelSet \cup {"N"}
  /\ todo \in Seq(Commands)
  /\ links \in [LevelSet -> {"S", "K"}] /\ pending \in BOOLEAN /\ late \in BOOLEAN

Init ==
  /\ FbInit /\ BtInit
  /\ level = "off" /\ prev = "N" /\ todo = <<>>
  /\ links = [l \in LevelSet |-> "S"] /\ pending = TRUE /\ late = FALSE

\* Wrong variant: it stops after the first level.
Postinst_FirstOnly == << <<"move", Levels[1]>> >> \o Do("rm")

\* The scriptlet renames the link of one level after the other and is then removed.
Postinst == [i \in DOMAIN Levels |-> <<"move", Levels[i]>>] \o Do("rm")

\* rcS.d: S01splash .. S99run-postinsts
RcS == Do("splash") \o (IF pending THEN Postinst ELSE <<>>)

DemoStop == Do("kill_demo") \o Do("logo")

\* Wrong variant: the demo is stopped before the HUD.
KillScripts_HudLast(l) ==
  IF prev' = "N" THEN <<>>
  ELSE IF l = "halt" THEN DemoStop \o Do("kill_hud")
  ELSE IF links[l] = "K" THEN DemoStop ELSE <<>>

\* K scripts run unless the machine has just booted: K01hud before K98lvgl-v9.
KillScripts(l) ==
  IF prev' = "N" THEN <<>>
  ELSE IF l = "halt" THEN Do("kill_hud") \o DemoStop
  ELSE IF links[l] = "K" THEN DemoStop ELSE <<>>

\* A service with a start link in the level before and no stop link in this one
\* is left alone.
Skipped == prev' # "N"

\* S21onekiwi-bt, S98lvgl-v9, S99hud
StartScripts(l) ==
  IF l = "halt" THEN <<>>
  ELSE (IF Skipped THEN <<>> ELSE Do("bt"))
       \o (IF links[l] = "K" \/ (Skipped /\ links[prev'] = "S") THEN <<>> ELSE Do("demo"))
       \o (IF Skipped THEN <<>> ELSE Do("hud"))

-----------------------------------------------------------------------------
PowerOn ==
  /\ level = "off"
  /\ level' = "S" /\ prev' = "N" /\ todo' = RcS
  /\ UNCHANGED <<links, pending, late, fbVars>> /\ NoBt

\* init: rc S has ended; rc for the default level, or for the level asked for.
EnterLevel(l) ==
  /\ todo = <<>>
  /\ \/ level = "S" /\ l = Default /\ prev' = "N"
     \/ level \in LevelSet /\ l # level /\ prev' = level
  /\ level' = l
  /\ todo' = KillScripts(l) \o StartScripts(l)
  /\ UNCHANGED <<links, pending, late, fbVars>> /\ NoBt

\* The command at the head of rc's list; what is left of it is `rest`.
At(command) == todo # <<>> /\ Head(todo)[1] = command
RcGoesOn(rest) == todo' = rest /\ UNCHANGED <<level, prev, links, pending, late>>

RunSplash == At("splash") /\ SplashLogo /\ RcGoesOn(Tail(todo)) /\ NoBt

\* mv S98lvgl-v9 K98lvgl-v9, if S98lvgl-v9 is there
MoveLink(l) ==
  /\ At("move") /\ Head(todo)[2] = l
  /\ links' = [links EXCEPT ![l] = "K"]
  /\ todo' = Tail(todo)
  /\ UNCHANGED <<level, prev, pending, late, fbVars>> /\ NoBt

RemovePostinst ==
  /\ At("rm")
  /\ pending' = FALSE
  /\ todo' = Tail(todo)
  /\ UNCHANGED <<level, prev, links, late, fbVars>> /\ NoBt

BootShell == CHOOSE s \in Starts : TRUE

\* Wrong variant: without the & rc waits for the shell to end.
RunBt_Foreground ==
  /\ At("bt")
  /\ \/ Start(BootShell) /\ job[BootShell] = "none" /\ UNCHANGED todo
     \/ job[BootShell] = "done" /\ NoBt /\ todo' = Tail(todo)
  /\ UNCHANGED <<level, prev, links, pending, late, fbVars>>

\* S21onekiwi-bt returns at once: all that waits is in the background.
RunBt == At("bt") /\ Start(BootShell) /\ RcGoesOn(Tail(todo)) /\ UNCHANGED fbVars

RunDemo == At("demo") /\ DemoStart /\ RcGoesOn(Tail(todo)) /\ NoBt

\* hud-init start: wait_for_fb, unbind the console, launch.
HudSeesFb ==
  /\ At("hud") /\ fb0
  /\ RcGoesOn(Do("unbind") \o Do("launch") \o Tail(todo))
  /\ UNCHANGED fbVars /\ NoBt

HudGivesUp ==
  /\ At("hud") /\ ~fb0
  /\ late' = TRUE /\ todo' = Tail(todo)
  /\ UNCHANGED <<level, prev, links, pending, fbVars>> /\ NoBt

HudUnbinds == At("unbind") /\ UnbindConsole /\ RcGoesOn(Tail(todo)) /\ NoBt
HudLaunches == At("launch") /\ HudLaunch /\ RcGoesOn(Tail(todo)) /\ NoBt

\* lvgl-v9-init stop: kill the demo, then redraw the logo.
RunKillDemo == At("kill_demo") /\ DemoKill /\ RcGoesOn(Tail(todo)) /\ NoBt
RunLogo == At("logo") /\ SplashLogo /\ RcGoesOn(Tail(todo)) /\ NoBt
RunKillHud == At("kill_hud") /\ HudKill /\ RcGoesOn(Tail(todo)) /\ NoBt

Rc ==
  \/ EnterLevel(Default) /\ level = "S"
  \/ RunSplash \/ RemovePostinst \/ RunBt \/ RunDemo
  \/ HudSeesFb \/ HudGivesUp \/ HudUnbinds \/ HudLaunches
  \/ RunKillDemo \/ RunLogo \/ RunKillHud
  \/ \E l \in LevelSet : MoveLink(l)

\* Power is cut, or the halted board is switched off: only the links and the
\* postinst script survive.
PowerCut ==
  /\ level # "off"
  /\ level' = "off" /\ prev' = "N" /\ todo' = <<>> /\ late' = FALSE
  /\ Dark
  /\ job' = [s \in Starts |-> "none"] /\ polled' = [s \in Starts |-> 0]
  /\ adapter' = AllOff /\ daemon' = FALSE /\ spp' = 0 /\ overlap' = FALSE
  /\ saw' = [s \in Starts |-> FALSE] /\ calm' = [s \in Starts |-> FALSE]
  /\ UNCHANGED <<links, pending>>

\* Somebody runs telinit or halt, or starts the Bluetooth script by hand.
Telinit == \E l \in LevelSet \cup {"halt"} : level \in LevelSet /\ EnterLevel(l)
StartByHand ==
  /\ level \in LevelSet /\ todo = <<>>
  /\ \E s \in Starts : Start(s)
  /\ UNCHANGED <<rcVars, fbVars>>

\* Where no HUD runs, as after hud-init gave up, somebody starts the demo by hand.
DemoByHand ==
  /\ level \in LevelSet /\ todo = <<>> /\ huds = 0
  /\ todo' = Do("demo")
  /\ UNCHANGED <<level, prev, links, pending, late, fbVars>> /\ NoBt

Bt == level # "off" /\ ((\E s \in Starts : Shell(s)) \/ BtWorld) /\ UNCHANGED <<rcVars, fbVars>>

Paint ==
  /\ level # "off"
  /\ FbAppears \/ DemoDraws \/ HudDraws \/ ConsolePrints
  /\ UNCHANGED rcVars /\ NoBt

Next == PowerOn \/ Rc \/ PowerCut \/ Telinit \/ StartByHand \/ DemoByHand \/ Bt \/ Paint

Spec == Init /\ [][Next]_vars

\* rc runs its scripts and a HUD that runs draws; nothing is assumed of Bluetooth.
FairSpec ==
  /\ Spec
  /\ WF_vars(Rc)
  /\ WF_vars(HudDraws /\ level # "off" /\ UNCHANGED rcVars /\ NoBt)

-----------------------------------------------------------------------------
\* A change of runlevel never starts a second HUD beside the first (rc:146-161).
OneHudPerBoot == huds <= 1

\* A board that has been halted shows the logo, not the last picture of a HUD that
\* no longer runs: the HUD is stopped before the demo's stop redraws it
\* (splash.c:2-4, lvgl-v9-init:25-26).
IdleLogo == level = "halt" /\ todo = <<>> /\ ~bound => screen = "logo"

\* A board that boots shows the HUD, however slow Bluetooth is, unless the
\* framebuffer comes too late, power goes, or it is halted (onekiwi-bt:11-12,
\* hud-init:77-86).
HudOnScreen ==
  level = "S" ~> screen = "hud" \/ late \/ level \in {"off", "halt"}
=============================================================================

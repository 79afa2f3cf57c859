----------------------------- MODULE HudService -----------------------------
(***************************************************************************)
(* The HUD service on the board: the init script hud-init, the hud_app it  *)
(* launches, the operator, and the CAN interface can0 all of them drive.   *)
(*                                                                         *)
(* CAN_BITRATE is a guess.  A controller that transmits at a wrong rate    *)
(* answers every frame of a live vehicle with error flags, so the script   *)
(* brings can0 up listen-only and hud_app measures the rate and then       *)
(* leaves listen-only.  CAN control modes are sticky: whoever dies in      *)
(* between leaves can0 mute for those who come after.                      *)
(*                                                                         *)
(* One step is one command of the script or one `ip` child of hud_app.     *)
(* hud_app is shipped as a binary; it is modelled from its help text and   *)
(* from what hud-init and hud-default rely on, without the active          *)
(* handshake of --obd2.                                                    *)
(***************************************************************************)
EXTENDS Naturals, FiniteSets

CONSTANTS
  Rates, NoRate, FdMode, ListenSupported,   \* as in CanIface
  CanRate,        \* CAN_BITRATE
  VehicleRate,    \* the rate of the bus the board is plugged into
  Configs,        \* what /etc/default/hud may say
  FbWait,         \* FB_WAIT_S
  Pids, NoPid,    \* processes of hud_app
  Stress          \* what the surroundings do beyond plain use, see StressKinds

\* "start_twice": `start` is run while a HUD is running.
\* "orphan_ip":   an `ip` child of a killed hud_app still runs to its end.
StressKinds == {"start_twice", "orphan_ip"}

Probes == {"on", "auto", "off"}          \* --probe
Config == [lo : BOOLEAN, probe : Probes] \* lo: CAN_LISTEN_ONLY=yes

ASSUME HudServiceAssumption ==
  /\ NoRate \notin Rates
  /\ CanRate \in Rates
  /\ VehicleRate \in Rates
  /\ FdMode \in BOOLEAN
  /\ ListenSupported \in BOOLEAN
  /\ Configs \subseteq Config
  /\ FbWait \in Nat
  /\ NoPid \notin Pids
  /\ Stress \subseteq StressKinds

VARIABLES
  up, listen, rate, drate,   \* can0, as in CanIface
  author,    \* history: who brought can0 up last
  bus,       \* since then: "on" the bus, "off" it (bus-off), or on it "again"
  present,   \* /sys/class/net/can0 exists
  talking,   \* the vehicle's bus carries frames
  fb0,       \* /dev/fb0 exists
  booted,    \* rc has run the service's start link
  cfg,       \* /etc/default/hud
  pc,        \* the command the script is about to run; "idle": no script
  cmd,       \* the script's argument, of the running or the last script
  conf,      \* /etc/default/hud as that script sourced it
  waited,    \* i of wait_for_fb
  warned,    \* warn_muted_without_probe has spoken in the last start
  pidfile,   \* /var/run/hud.pid
  app        \* the processes of hud_app

canVars    == <<up, listen, rate, drate>>
canState   == <<canVars, author, bus>>
boardState == <<present, talking, fb0, booted, cfg>>
scriptVars == <<pc, cmd, conf, waited, warned>>
hudState   == <<pidfile, app>>
vars       == <<canState, boardState, scriptVars, hudState>>

Can == INSTANCE CanIface WITH wire <- "quiet"

Authors == {"none", "hand", "told", "script", "app"}

StartSteps == {"fb", "present", "clear", "clear_down", "clear_type",
               "operstate", "down", "type", "up", "warn", "launch"}
StopSteps  == {"kill", "unmute", "unmute_down", "unmute_type", "rm", "sleep"}

IpSteps   == {"down", "type", "up"}
AppPhases == {"dead", "boot", "listen", "parked", "run"} \cup IpSteps

\* conf: the arguments; left: rates still to be tried; lo, try: the mode and
\* rate being set; probes: it measures the bus; dying: killed, its child is not
AppState == [ph : AppPhases, conf : Config, left : SUBSET Rates, lo : BOOLEAN,
             try : Rates, probes : BOOLEAN, dying : BOOLEAN]

CanTypeOK ==
  /\ up \in BOOLEAN /\ listen \in BOOLEAN /\ drate \in BOOLEAN
  /\ rate \in Rates \cup {NoRate}
  /\ author \in Authors
  /\ bus \in {"on", "off", "again"}

BoardTypeOK ==
  /\ present \in BOOLEAN /\ talking \in BOOLEAN /\ fb0 \in BOOLEAN
  /\ booted \in BOOLEAN
  /\ cfg \in Config

ScriptTypeOK ==
  /\ pc \in {"idle"} \cup StartSteps \cup StopSteps
  /\ cmd \in {"start", "stop", "restart"}
  /\ conf \in Config
  /\ waited \in 0..FbWait
  /\ warned \in BOOLEAN

HudTypeOK ==
  /\ pidfile \in Pids \cup {NoPid}
  /\ app \in [Pids -> AppState]

\* wait_for_fb polls no more than FB_WAIT_S times, among the types.
TypeOK == CanTypeOK /\ BoardTypeOK /\ ScriptTypeOK /\ HudTypeOK

NoProcess == [ph |-> "dead", conf |-> [lo |-> FALSE, probe |-> "off"],
              left |-> {}, lo |-> FALSE, try |-> CanRate,
              probes |-> FALSE, dying |-> FALSE]

Alive(p) == app[p].ph # "dead" /\ ~app[p].dying
NoHud    == \A p \in Pids : app[p] = NoProcess

Init ==
  /\ Can!Init
  /\ author = "none" /\ bus = "on"
  /\ present \in BOOLEAN /\ talking \in BOOLEAN /\ fb0 = FALSE
  /\ booted = FALSE
  /\ cfg \in Configs /\ conf = cfg
  /\ pc = "idle" /\ cmd = "stop" /\ waited = 0 /\ warned = FALSE
  /\ pidfile = NoPid
  /\ app = [p \in Pids |-> NoProcess]

(***************************************************************************)
(* Running the script.  Each invocation sources /etc/default/hud anew; for *)
(* `restart` that happens again in `$0 start`.                             *)
(***************************************************************************)
Source(next) ==
  /\ conf' = cfg
  /\ pc' = next
  /\ waited' = 0
  /\ UNCHANGED warned

\* The start link S99hud, once per boot.
BootStart ==
  /\ ~booted /\ pc = "idle"
  /\ booted' = TRUE
  /\ cmd' = "start"
  /\ Source("fb")
  /\ UNCHANGED <<canState, present, talking, fb0, cfg, hudState>>

\* The operator runs the script; plain use starts only a service that is down.
Invoke(c) ==
  /\ booted /\ pc = "idle"
  /\ c = "start" /\ "start_twice" \notin Stress => NoHud
  /\ c = "start" => \E p \in Pids : app[p].ph = "dead"
  /\ cmd' = c
  /\ Source(IF c = "start" THEN "fb" ELSE "kill")
  /\ UNCHANGED <<canState, boardState, hudState>>

Goto(from, to) == pc = from /\ pc' = to /\ UNCHANGED <<cmd, conf, waited>>

(***************************************************************************)
(* start                                                                   *)
(***************************************************************************)
\* wait_for_fb: poll every second, give up (exit 1) after FB_WAIT_S polls.
WaitForFb ==
  /\ pc = "fb"
  /\ \/ waited < FbWait /\ fb0 /\ pc' = "present" /\ UNCHANGED waited
     \/ waited < FbWait /\ ~fb0 /\ waited' = waited + 1 /\ UNCHANGED pc
     \/ waited = FbWait /\ pc' = "idle" /\ UNCHANGED waited
  /\ UNCHANGED <<canState, boardState, cmd, conf, warned, hudState>>

\* The first lines of bring_up_can.
FindCan ==
  /\ Goto("present", IF present THEN "clear" ELSE "warn")
  /\ UNCHANGED <<canState, boardState, warned, hudState>>

\* Wrong variant: no data bit rate, as when CAN_DBITRATE was never set
\* (hud-init:43-47).
TypeCan_BitrateOnly(lo) == Can!Configure(CanRate, FALSE, lo)

\* `ip link set can0 type can ..`: with the FD timing first, then classic.
TypeCan(lo) ==
  \/ Can!Configure(CanRate, TRUE, lo)
  \/ ~Can!Accepts(TRUE, lo) /\ Can!Configure(CanRate, FALSE, lo)

Refused(lo) == ~Can!Accepts(TRUE, lo) /\ ~Can!Accepts(FALSE, lo)

\* clear_listen_only, called at `test` and returning to `next`.
ClearListenOnly(test, down, type, next) ==
  /\ \/ Goto(test, IF listen THEN down ELSE next) /\ UNCHANGED canVars
     \/ Goto(down, type) /\ Can!Down
     \/ Goto(type, next) /\ TypeCan(FALSE)
     \/ Goto(type, next) /\ Refused(FALSE) /\ UNCHANGED canVars
  /\ UNCHANGED <<author, bus, boardState, warned, hudState>>

\* Wrong variant: start trusts that stop has cleaned up.
StartClear_Skipped ==
  /\ Goto("clear", "operstate")
  /\ UNCHANGED <<canState, boardState, warned, hudState>>

StartClear == ClearListenOnly("clear", "clear_down", "clear_type", "operstate")

\* Wrong variant: can0 is configured whatever its state.
ReadOperstate_Ignored ==
  /\ Goto("operstate", "down")
  /\ UNCHANGED <<canState, boardState, warned, hudState>>

\* An interface that is up by now is somebody else's: hands off.  The script
\* reads operstate, which a bus-off can0, although UP, has at "down".
ReadOperstate ==
  /\ Goto("operstate", IF up /\ bus # "off" THEN "warn" ELSE "down")
  /\ UNCHANGED <<canState, boardState, warned, hudState>>

DownCan ==
  /\ Goto("down", "type")
  /\ Can!Down
  /\ UNCHANGED <<author, bus, boardState, warned, hudState>>

\* Wrong variants: listen-only is left out; it is given up when refused; there
\* is no fallback for a controller without CAN FD.
ConfigureCan_Loud ==
  /\ Goto("type", "up")
  /\ TypeCan(FALSE)
  /\ UNCHANGED <<author, bus, boardState, warned, hudState>>

ConfigureCan_GivesUpListenOnly ==
  /\ Goto("type", "up")
  /\ IF Refused(conf.lo) THEN TypeCan(FALSE) ELSE TypeCan(conf.lo)
  /\ UNCHANGED <<author, bus, boardState, warned, hudState>>

\* If both forms are refused can0 stays down: never up without listen-only.
ConfigureCan ==
  /\ \/ Goto("type", "up") /\ TypeCan(conf.lo)
     \/ Goto("type", "warn") /\ Refused(conf.lo) /\ UNCHANGED canVars
  /\ UNCHANGED <<author, bus, boardState, warned, hudState>>

UpCan ==
  /\ Goto("up", "warn")
  /\ \/ Can!Up /\ author' = (IF conf.lo THEN "script" ELSE "told") /\ bus' = "on"
     \/ (up \/ ~Can!CanOpen) /\ UNCHANGED canState
  /\ UNCHANGED <<boardState, warned, hudState>>

\* Wrong variant: the pattern for `--probe off` matches nothing.
WarnMuted_NoMatch ==
  /\ Goto("warn", "launch")
  /\ warned' = FALSE
  /\ UNCHANGED <<canState, boardState, hudState>>

WarnMuted ==
  /\ Goto("warn", "launch")
  /\ warned' = (conf.lo /\ conf.probe = "off")
  /\ UNCHANGED <<canState, boardState, hudState>>

\* start-stop-daemon -S looks for a live /bin/sh of this pidfile; hud_app has
\* replaced that shell by `exec`, so it always launches and takes the pidfile.
Launch ==
  /\ Goto("launch", "idle")
  /\ \E p \in Pids :
       /\ app[p].ph = "dead"
       /\ app' = [app EXCEPT ![p] = [NoProcess EXCEPT !.ph = "boot", !.conf = conf]]
       /\ pidfile' = p
  /\ UNCHANGED <<canState, boardState, warned>>

(***************************************************************************)
(* stop, restart                                                           *)
(***************************************************************************)
\* SIGTERM has its default action in hud_app; an `ip` it has forked is not hit.
Die(p) ==
  \/ app' = [app EXCEPT ![p] = NoProcess]
  \/ /\ "orphan_ip" \in Stress
     /\ app[p].ph \in IpSteps
     /\ app' = [app EXCEPT ![p].dying = TRUE]

\* Wrong variant: with -x /bin/sh the running hud_app is not recognised.
Kill_NotMatched ==
  /\ Goto("kill", "unmute")
  /\ UNCHANGED <<canState, boardState, warned, hudState>>

\* start-stop-daemon -K -p PIDFILE || true; it does not wait for the process.
Kill ==
  /\ Goto("kill", "unmute")
  /\ IF pidfile \in Pids /\ Alive(pidfile) THEN Die(pidfile) ELSE UNCHANGED app
  /\ UNCHANGED <<canState, boardState, warned, pidfile>>

StopClear == ClearListenOnly("unmute", "unmute_down", "unmute_type", "rm")

RmPidfile ==
  /\ Goto("rm", IF cmd = "restart" THEN "sleep" ELSE "idle")
  /\ pidfile' = NoPid
  /\ UNCHANGED <<canState, boardState, warned, app>>

SleepThenStart ==
  /\ pc = "sleep"
  /\ Source("fb")
  /\ UNCHANGED <<canState, boardState, cmd, hudState>>

Start == \/ WaitForFb \/ FindCan \/ StartClear \/ ReadOperstate \/ DownCan
         \/ ConfigureCan \/ UpCan \/ WarnMuted \/ Launch

Stop == Kill \/ StopClear \/ RmPidfile

Script == Start \/ Stop \/ SleepThenStart

(***************************************************************************)
(* hud_app: for each rate, take can0 down, set the rate listen-only, bring *)
(* it up and listen; at the rate that is heard, do the same without        *)
(* listen-only.  Each `ip` is a child process of its own.                  *)
(***************************************************************************)
Becomes(p, state) == app' = [app EXCEPT ![p] = state]

\* Set out for one of the rates in left.
TryOneOf(p, left) ==
  \E r \in left :
    Becomes(p, [app[p] EXCEPT !.ph = "down", !.try = r, !.left = left \ {r},
                              !.lo = TRUE, !.probes = TRUE])

\* A killed process goes no further than the child that was running.
IpDone(p, next) ==
  IF app[p].dying THEN Becomes(p, NoProcess)
                  ELSE Becomes(p, [app[p] EXCEPT !.ph = next])

\* Wrong variant: --probe on is taken for auto.
WantsProbe_OnlyIfDown(mode) == present /\ ~up /\ mode # "off"

\* --probe auto measures only if can0 is down; on also takes it from others.
WantsProbe(mode) == present /\ (mode = "on" \/ (mode = "auto" /\ ~up))

AppBoot(p) ==
  /\ app[p].ph = "boot"
  /\ IF WantsProbe(app[p].conf.probe)
       THEN TryOneOf(p, Rates)
       ELSE Becomes(p, [app[p] EXCEPT !.ph = "run"])
  /\ UNCHANGED canState

IpDown(p) ==
  /\ app[p].ph = "down"
  /\ Can!Down
  /\ IpDone(p, "type")
  /\ UNCHANGED <<author, bus>>

\* Without --loud-probe a refused listen-only leaves can0 as it is, silent.
IpType(p) ==
  /\ app[p].ph = "type"
  /\ \/ Can!Configure(app[p].try, FdMode, app[p].lo) /\ IpDone(p, "up")
     \/ /\ ~Can!Accepts(FdMode, app[p].lo)
        /\ IpDone(p, "parked")
        /\ UNCHANGED canVars
  /\ UNCHANGED <<author, bus>>

IpUp(p) ==
  /\ app[p].ph = "up"
  /\ \/ Can!Up /\ author' = "app" /\ bus' = "on"
     \/ (up \/ ~Can!CanOpen) /\ UNCHANGED canState
  /\ IpDone(p, IF app[p].lo THEN "listen" ELSE "run")

Hears == talking /\ up /\ bus # "off" /\ rate = VehicleRate

AppListen(p) ==
  /\ app[p].ph = "listen"
  /\ \/ /\ Hears
        /\ Becomes(p, [app[p] EXCEPT !.ph = "down", !.lo = FALSE])
     \/ ~Hears /\ TryOneOf(p, app[p].left)
     \/ ~Hears /\ app[p].left = {} /\ Becomes(p, [app[p] EXCEPT !.ph = "parked"])
  /\ UNCHANGED canState

\* The retry of a probe that found nothing, and the new probe after the bus
\* has fallen silent.
AppAgain(p) ==
  /\ \/ app[p].ph = "parked"
     \/ app[p].ph = "run" /\ app[p].probes /\ ~talking
  /\ TryOneOf(p, Rates)
  /\ UNCHANGED canState

HudApp(p) ==
  /\ AppBoot(p) \/ IpDown(p) \/ IpType(p) \/ IpUp(p) \/ AppListen(p) \/ AppAgain(p)
  /\ UNCHANGED <<boardState, scriptVars, pidfile>>

(***************************************************************************)
(* The surroundings.                                                       *)
(***************************************************************************)
Crash(p) ==
  /\ Alive(p)
  /\ Die(p)
  /\ UNCHANGED <<canState, boardState, scriptVars, pidfile>>

FbAppears ==
  /\ ~fb0
  /\ fb0' = TRUE
  /\ UNCHANGED <<canState, present, talking, booted, cfg, scriptVars, hudState>>

Ignition ==
  /\ talking' = ~talking
  /\ UNCHANGED <<canState, present, fb0, booted, cfg, scriptVars, hudState>>

EditConfig ==
  /\ cfg' \in Configs
  /\ UNCHANGED <<canState, present, talking, fb0, booted, scriptVars, hudState>>

\* The operator brings can0 up at a rate and in a mode of his choice, while
\* neither the script nor a HUD is running.
SetByHand(r, lo) ==
  /\ present /\ booted /\ pc = "idle" /\ NoHud
  /\ lo => ListenSupported
  /\ up' = TRUE /\ listen' = lo /\ rate' = r /\ drate' = (drate \/ FdMode)
  /\ author' = "hand" /\ bus' = "on"
  /\ UNCHANGED <<boardState, scriptVars, hudState>>

\* Its errors drive a transmitting controller off the bus: the carrier is gone,
\* but can0 stays UP.
BusOff ==
  /\ up /\ ~listen /\ bus # "off"
  /\ bus' = "off"
  /\ UNCHANGED <<canVars, author, boardState, scriptVars, hudState>>

\* A restart-ms that somebody has set, or `ip link set can0 type can restart`.
Rejoin ==
  /\ up /\ bus = "off"
  /\ bus' = "again"
  /\ UNCHANGED <<canVars, author, boardState, scriptVars, hudState>>

\* The controller and /var/run start afresh, /etc stays.
PowerCut ==
  /\ up' = FALSE /\ listen' = FALSE /\ rate' = NoRate /\ drate' = FALSE
  /\ author' = "none" /\ bus' = "on"
  /\ fb0' = FALSE /\ booted' = FALSE
  /\ pc' = "idle" /\ cmd' = "stop" /\ waited' = 0 /\ warned' = FALSE
  /\ pidfile' = NoPid
  /\ app' = [p \in Pids |-> NoProcess]
  /\ UNCHANGED <<present, talking, cfg, conf>>

Operator == \/ \E c \in {"start", "stop", "restart"} : Invoke(c)
            \/ EditConfig
            \/ \E r \in Rates, lo \in BOOLEAN : SetByHand(r, lo)

World == \/ FbAppears \/ Ignition \/ BusOff \/ Rejoin \/ PowerCut
         \/ \E p \in Pids : Crash(p)

Next == \/ BootStart \/ Script
        \/ \E p \in Pids : HudApp(p)
        \/ Operator \/ World

Spec == Init /\ [][Next]_vars

\* The kernel runs every process that can run; nothing else is promised.
FairSpec == Spec /\ WF_vars(Script) /\ \A p \in Pids : WF_vars(HudApp(p))

-----------------------------------------------------------------------------
(***************************************************************************)
(* Properties.                                                             *)
(***************************************************************************)
\* can0 transmits at a rate the vehicle does not use only if a person chose
\* it: by hand or with CAN_LISTEN_ONLY=no.  Neither the script's guess nor the
\* rates hud_app tries ever reach the bus (hud-init:50-62 and 148-152).
NoGuessedTransmit ==
  up /\ ~listen /\ rate # VehicleRate => author \in {"hand", "told"}

\* A HUD is never launched on a can0 left mute by a run that died while
\* probing: mute at launch means this start chose it (hud-init:88-95).
NoInheritedMute == pc = "launch" /\ up /\ listen => conf.lo /\ author = "script"

\* After `stop` can0 is not left listen-only (hud-init:263-265); only a person can
\* have made it so since.
StopLeavesNoMute ==
  pc = "idle" /\ cmd = "stop" /\ NoHud /\ listen => up /\ author = "hand"

\* A HUD that has settled on a mute can0 has been warned about (hud-init:63-67
\* and 178-190).
MuteIsWarned ==
  \A p \in Pids : app[p].ph = "run" /\ up /\ listen => warned

\* The script always gets can0 up, on a controller that starts in CAN FD mode
\* as on a classic one, unless the driver refuses listen-only (hud-init:43-47
\* and 136-153).
CanUpAtLaunch ==
  pc = "launch" /\ present /\ (conf.lo => ListenSupported) => up

\* A can0 that a person has brought up to talk, and that has not been off the bus
\* since, is not touched: not by the script, and by hud_app only if it was told to
\* with --probe on (hud-init:20-23).  The code makes the exceptions: listen-only it
\* takes for what an earlier probe left behind (99-109), a bus-off can0 for one
\* that is down (123-134), which may be on the bus again by the time it is taken.
HandsOff ==
  [][(/\ author = "hand" /\ up /\ ~listen /\ bus = "on"
      /\ Script \/ \E p \in Pids : app[p].conf.probe # "on" /\ HudApp(p))
     => UNCHANGED canState]_vars

\* When `restart` has ended every HUD runs with the configuration that restart
\* has read (hud-default:1).
RestartApplies ==
  pc = "idle" /\ cmd = "restart" => \A p \in Pids : Alive(p) => app[p].conf = conf

\* The HUD that runs is the one in the pidfile, so stop and status find it.
RecordedHud == \A p \in Pids : Alive(p) => pidfile = p

\* With --probe on, a start on a live bus ends with can0 at the vehicle's rate
\* and able to talk, unless the bus falls silent, the board loses power, or the
\* HUD is stopped or crashes (hud-init:58, hud-default:5-7).
EventuallyHeard ==
  (/\ pc \in StartSteps /\ fb0 /\ waited < FbWait
   /\ present /\ talking /\ conf.probe = "on")
    ~> (\/ up /\ ~listen /\ bus # "off" /\ rate = VehicleRate
        \/ ~talking \/ ~booted \/ pc \in StopSteps \/ (pc = "idle" /\ NoHud))

-----------------------------------------------------------------------------
(***************************************************************************)
(* Why the safety properties hold in plain use (Stress = {}): the parts of *)
(* an inductive invariant.                                                 *)
(***************************************************************************)
\* There is at most one HUD, stop finds it, and it runs what was last sourced.
OneHud ==
  \A p \in Pids : app[p] # NoProcess =>
    /\ pidfile = p
    /\ app[p].ph # "dead" /\ ~app[p].dying
    /\ pc = "idle" => app[p].conf = conf

\* But for `kill`, the script never runs beside a HUD: one of the two drives can0.
ScriptAlone ==
  /\ pc \in StartSteps \cup (StopSteps \ {"kill"}) => NoHud
  /\ pc \in StartSteps \cup {"sleep"} => cmd # "stop"
  /\ pc = "idle" /\ cmd = "stop" => NoHud
  /\ ~booted => pc = "idle" /\ NoHud

\* A probe sets out for a transmitting can0 only at the rate it has heard.
Probing(a) ==
  /\ a.ph \in IpSteps /\ ~a.lo => a.try = VehicleRate
  /\ a.ph \in {"type", "up"} => ~up
  /\ a.ph = "up" => (listen <=> a.lo) /\ rate = a.try
  /\ a.ph = "listen" => listen /\ rate = a.try
  /\ a.ph \in IpSteps \cup {"listen", "parked"} => a.probes
  /\ a.probes => present /\ (a.conf.probe = "on" \/ ~(author = "hand" /\ up))

ProbesSound == \A p \in Pids : Probing(app[p])

\* What the script knows of can0 at each of its commands.
ScriptKnows ==
  /\ pc \in {"clear_type", "unmute_type", "type", "up"} => ~up
  /\ pc = "down" /\ up => bus # "on"
  /\ pc \in {"operstate", "down", "type", "rm", "sleep"} => ~listen
  /\ pc \in {"clear_down", "unmute_down"} => listen
  /\ pc \in StartSteps \ {"fb", "present", "warn", "launch"} => present
  /\ pc = "up" => (listen <=> conf.lo) /\ Can!CanOpen
  /\ pc \in {"warn", "launch"} =>
       /\ up /\ listen => conf.lo /\ author = "script"
       /\ present /\ (conf.lo => ListenSupported) => up
  /\ pc = "idle" /\ cmd = "stop" /\ listen => up /\ author = "hand"

CanKnown == ~present => ~up

\* All of it: who drives can0 has it to himself and what he knows of it is still
\* true when he acts on it (hud-init:77-190, 256-273).
PlainInv ==
  /\ TypeOK /\ OneHud /\ ScriptAlone /\ ProbesSound /\ ScriptKnows /\ CanKnown
  /\ NoGuessedTransmit
=============================================================================

# TwoKIwi: TLA+ models, checks and proofs

The repository builds the Linux image of a head-up display (HUD) for a car: a Renesas RZ/V2L
board that reads the vehicle's CAN bus and shows it on a small screen. Almost all of its files are
vendored Yocto layers. The project's own program is in `src/yocto/meta-onekiwi-hud/`,
`src/flash_spi.py` and `src/setup.sh`; of the vendored code the models take what boots the board
(sysvinit's `rc`, `run-postinsts`) and the concurrent core of what builds the image (bitbake's lock
files and run queue). This directory holds the TLA+ modules of that code, what TLC checks about
them and what TLAPS proves.

Short names used below, in the modules and in `PROJECT.json`:
`hud-init`, `hud-default`: `recipes-hud/onekiwi-hud-svc/files/`; `onekiwi-bt`:
`recipes-connectivity/onekiwi-bt/files/`; `lvgl-v9-init`, `main.c`: `recipes-graphics/lvgl-v9/files/`;
`splash.c`: `recipes-hud/splash/files/`; `0003`:
`recipes-kernel/linux/linux-renesas/0003-can-rcar_canfd-add-listen-only-and-berr-reporting.patch`;
`rc`: `yocto/poky/meta/recipes-core/sysvinit/sysvinit/`; `utils.py`, `runqueue.py`:
`yocto/poky/bitbake/lib/bb/`.

To run: `tlc -config X.cfg M` for the pairs in the table of runs, `tlapm M_proofs.tla` for the proofs.

## 1. Inventory

| Component | State it keeps | Operations | Talks to | Module |
|---|---|---|---|---|
| CAN interface `can0` | up, control modes, bit timing | `ip link set can0 down / type can .. / up` | the vehicle's bus; everyone who runs `ip` | `CanIface` (abstract) |
| `rcar_canfd` with patch 0003 | CHMDC, CTME, BEIE, CERFL, Common FIFO, echo skbs, `can.state` | start, stop, start_xmit, error interrupt, changelink | networking core (RTNL), the controller | `RcarCanfd` |
| HUD service (`hud-init`) | `/var/run/hud.pid`, `/etc/default/hud`, sysfs | start, stop, restart, status | `can0`, `/dev/fb0`, hud_app | `HudService`, and its place in the boot in `Boot` |
| `hud_app` (a binary) | phase of its bus probe, rates left to try | probe the bus, run | `can0` through `ip` children | in `HudService`, external |
| Bluetooth start script | adapter flags, SPP records, a background shell per start | start | bluetoothd, sdptool | `OneKiwiBt` |
| Boot sequence and boot screen | runlevel, links S98/K98, postinst script, who draws on `/dev/fb0` | rc, postinst, start and stop of splash, demo and HUD | init, the framebuffer | `BootScreen`, `Boot` |
| Flip copy (`main.c`) | LVGL's buffer, framebuffer memory | `fb_init`, `vflip_flush` | LVGL, the framebuffer | `FlipCopy` |
| `flash_spi.py` | where it is in its conversation, unread bytes | 8 calls in sequence | boot ROM, flash writer (external) over a serial line | `FlashSpi` |
| `setup.sh` | the directories of three layers | clone, checkout, re-run | git | `SetupEnv` |
| bitbake lock files | a file that comes and goes, a flock per open file | `lockfile`, `unlockfile` | every recipe and cache that shares a directory | `RwLock` (abstract), `Lockfile` |
| bitbake setscene graph | the graph of all tasks, the graph of setscene tasks | `build_scenequeue_data` | run queue | `SceneGraph` (reference), `SceneQueue` |
| bitbake run queue | covered, uncovered, buildable, running, held-off, deferred tasks | `execute`, `finish`, `finish_now` | worker processes | `RunQueue` |
| Splash logo, image recipe, patch 0002, panel patch, network script, systemd units, skeleton app, recipes | | | | not modelled or only in effect, see 7 |

**What is hard.**

* *CAN bit rate.* `CAN_BITRATE` is a guess. A controller that transmits at a wrong rate answers every
  frame of a live vehicle with error flags. So the script brings can0 up listen-only, hud_app measures
  the rate and only then leaves listen-only. Control modes are sticky, so whoever dies in between
  leaves can0 mute for the next user, who sees a healthy interface that never transmits. Five actors
  touch can0 without a lock: script, hud_app, its `ip` children, an operator, and the ignition key.
* *Register order.* The controller takes CTME (its listen-only bit) only in reset mode; frames, errors
  and interrupts fall between any two writes of start() and stop(); a bus-off is restarted by a
  start() without a stop(); BEIE is only ever set; stop() goes on after a failed reset.
* *One screen, no lock.* Splash, demo, HUD and the kernel's console draw on one framebuffer; only the
  order of links keeps them apart, and a script of the first boot renames those links one by one,
  under a power switch.
* *Bluetooth that hangs.* The start script waits for an adapter in a background shell; shells of
  several starts overlap, adapter and bluetoothd come and go between two of their commands.
* *Blind conversation.* `flash_spi.py` ignores three of its six reads and takes any `C` and any `>`
  for what it waits for. Lines get lost, transfers break off, runs are repeated without a reset.
* *Re-runs.* `setup.sh` remembers earlier runs only by "the directory exists".
* *A lock that removes its file.* Whoever unlocks unlinks the file others have open and wait for.
* *Two queues at once.* The run queue restores tasks from the top of the graph down and builds them
  from the bottom up at the same time, skips what a restored task covers, defers tasks of equal
  hash, and must neither build what is being restored nor stop short.

**What makes each component correct.** `can0`/driver: listen-only never drives the bus; leaving it
restores transmission; no frame, no error flag and no interrupt enable leaks from one session into the
next. HUD service: no transmission at a guess; no inherited mute; hands off a can0 a person has set;
stop and restart act on the HUD that runs; a start on a live bus ends up heard. Boot: the HUD gets the
screen, alone, whatever Bluetooth does. Bluetooth: findable after a start that saw the adapter; one SPP
record. Flip copy: the screen is the display upside down, inside the mapping. Flash script: "done" is
true; no image at another's address; every run ends. Setup: "complete" is true; nothing already
fetched is lost. Lock files: a readers-writer lock. Setscene graph: the collapsed graph says of each
setscene task what the full one does. Run queue: nothing is built on something missing; a build
ends, and fails only because a task failed.

`PROJECT.json` lists the hazards line by line with the properties that guard them.

## 2. Modules and how they correspond to the code

```
CanIface  <-- implemented by --  RcarCanfd  <-- RcarCanfd_proofs
    ^
    |  INSTANCE (the commands `ip` runs)
HudService  <-- MC_HudService, HudService_proofs

BootScreen --\
              >-- Boot  <-- MC_Boot, Boot_proofs
OneKiwiBt  --/

FlipCopy  <-- MC_FlipCopy, FlipCopy_proofs
FlashSpi  <-- FlashSpi_proofs                SetupEnv  <-- SetupEnv_proofs

RwLock  <-- implemented by --  Lockfile  <-- MC_Lockfile, Lockfile_proofs

SceneGraph  <-- SceneQueue  <-- MC_SceneQueue
    ^               ^
    |               \------ RunQueue_proofs (both, and that the second starts
    |               /                        where the first ends)
    \--------- RunQueue    <-- MC_RunQueue
```

**CanIface.** The abstract interface: `Down`, `Configure`, `Up` are the three `ip` commands, with the
kernel's refusals (`Accepts`: no change while UP, no data rate without FD, no listen-only the driver
does not list; `CanOpen`: a controller that starts in FD mode wants a data bit rate,
hud-init:138-146). `Drive` is guarded by `up /\ ~listen`: that is the promise everything rests on.

**RcarCanfd.** One channel. `step` says which register write of start() (`irq`, `ctme`, `oper`) or
stop() (`reset`, `unctme`, `flush`) comes next; any frame, error or interrupt may fall in between.
Start and stop do not overlap each other or a change of mode, since RTNL serialises them. Every hunk of
0003 has its action: `EnableInterrupts` (BEIE only set, never cleared), `StartCtme`, `StopCtme`
(`WriteCtme`: no effect outside reset), `Xmit` (dropped while listening, warned once per session),
`ErrorIrq` (BEF gated by BERR_REPORTING). `StopResetFails` is the branch in which the wait for
reset times out; the history variable `unreset` remembers it until a stop() succeeds.

**HudService.** `pc` is the command the script runs next; `clear_listen_only` is a sub-sequence used by
start and stop. The script and each hud_app process take one `ip` command per step, so they
interleave at that grain. `conf` is `/etc/default/hud` as *this* invocation sourced it, `cfg` the file
itself; an edit in between is seen by the next invocation. `app[p]` is a process of hud_app with its
own `conf` (its arguments). `author` is a history variable: who brought can0 up last; `bus` says whether
its controller is on the bus, off it (bus-off) or on it again. Crashes, power cuts, the ignition, bus-off
and its end, the late framebuffer and an operator who sets can0 by hand, at any rate and in either mode, are
actions of the world. `ReadOperstate` reads operstate, not the administrative flag: a can0 that is bus-off is
UP, but has no carrier and counts as down. `HandsOff` speaks of a can0 that was set up to talk and has
not been off the bus since; what the code does with the others is in section 5.
hud_app is a binary: its probe is modelled from what hud-init:50-74 and hud-default rely on.

**BootScreen** gives what the commands of the scripts do to the framebuffer: `SplashLogo` (ends
quietly without `/dev/fb0`), `DemoStart` (recognised if it runs already), `HudLaunch` (never
recognised, as in `HudService`), `UnbindConsole`. `screen` is who drew last; `Draw` is any of the
processes that have the framebuffer open.

**OneKiwiBt.** `job[s]` is the command the background shell `s` runs next, `polled[s]` its count.
Every answer of bluetoothctl is what adapter and bluetoothd are at that step; both come and go as
actions of the world, and bluetoothd forgets flags and records when it stops. A flag set on an
adapter without power may be kept or not. `saw`, `calm` and `overlap` are history.

**Boot** composes the two with `rc`. `todo` is what is left of the list of commands rc runs: the
splash and the postinst script in rcS.d, then the K and S links of the runlevel. The Bluetooth
script returns at once (`RunBt`), its shell runs on beside rc. `MoveLink` is one `mv` of the
postinst script, so power may be cut between two of them; the script is removed by `run-postinsts`
only when it has ended, and links and script are all that survives. A change of runlevel runs K links
and skips what the level before had started too (rc:128-161). `DemoByHand` is an operator who starts the
demo on a board on which no HUD runs, since hud-init gave up; that nobody starts one beside the other
by hand is an assumption.

**FlipCopy.** One action per memcpy of `vflip_flush`, between `Render` (LVGL redraws an area of its
buffer) and `FlushReady`. The framebuffer is a function from pixels to what is drawn there; before
the first flush it holds the splash logo. `fb_init` does not compare the framebuffer's height or
stride with 640x480; the model starts only where the display fits (`Fits`).

**FlashSpi.** `rx`, `tx` are the two directions of the line, in tokens rather than characters. `Seen`
lets a read swallow tokens behind the one that matched, since a read takes all there is; `Unseen` is
a timeout, allowed at any time the wanted token is not there. `careless` is history: a run was begun without
resetting the board.

**SetupEnv.** `tree` gives what is in each layer's directory. `Look` is `[ ! -d .. ]`, and `set -e` ends a run
at the first failure. Nothing else survives a run.

**RwLock** and **Lockfile.** `name` is the inode the lock's name refers to; `fd[p]` and `flocks[p]`
the file process `p` has open and its flock. One action per system call of lockfile() (open, flock,
the comparison of inodes) and unlockfile() (promotion, unlink, release); `Mismatch` is the branch in
which the file was removed meanwhile. An inode number is free again when nobody has it open. Any
process may be killed anywhere. `RwLock` is the promise: holders share, or there is one.

**SceneGraph** states, by recursion over the graph, what a graph of setscene tasks should say:
what a setscene task covers, who uses it, what cannot be skipped. **SceneQueue** is the algorithm of
build_scenequeue_data: rounds of endpoints, `Process` for one point of a round in any order (a
Python dict's), squashing normal tasks into their users, the unskippable set, the hard dependencies.
`IsGraph` is what is known of a graph by then: calculate_task_weights (runqueue.py:592) has ended the
build if dependencies form a circle (`Acyclic`). Nothing looks for a circle of hard dependencies;
that there is none (`HardAcyclic`) is a property of the recipes. Since `RunQueue_proofs` extends SceneQueue and RunQueue,
the former's `Init`, `Next` and `Spec` are called `CollapseInit`, `CollapseNext` and `CollapseSpec`.

**RunQueue.** `at` is the place execute() has come to: `read` (results of workers arrive), `scene`
(one setscene task is skipped, failed or started), `holdoff` (update_holdofftasks and the end of the
setscene queue), `normal` (one task is skipped or started, or a deadlock of deferred tasks is broken),
`finish` (finish(), after a failure or an interrupt) and `over`. Each early return of execute() is a
`Return`. Results come at `read` and `finish` only, since the server reads its pipes there. Its graph
of setscene tasks is `SQDataOf`, written with the operators of SceneGraph: what
build_scenequeue_data computes, by `scene_queue` on small graphs and by the theorem `QueuesMeet` on all.

Definitions whose name has an underscore and is commented "Wrong variant" (`StartCtme_Clears`, ...)
are not used by the models: they are plausible mistakes, one or more for each property, put in the
place of the real definition to confirm that the property notices.

## 3. Runs

| Run | Kind | What it shows | Distinct states |
|---|---|---|---|
| `canfd_sessions` | pass | the driver keeps the promise of CanIface over any sequence of sessions, and its own books (FIFO, bus-off) | 52,881 |
| `hud_plain` | pass | the safety of can0 and of the pidfile over boots, starts, stops, restarts, crashes, power cuts, edits, can0 set by hand in either mode or driven off the bus, on an FD controller; and that a start on a live bus ends at the vehicle's rate, able to talk | 250,400 |
| `hud_classic` | pass | the fallbacks on a controller without FD whose driver refuses listen-only | 183,420 |
| `hud_twice` | violation | a second start launches a second HUD and restart ends only one | |
| `flash_runs` | pass | "FLASH XONG" is true, no image is misplaced, every run ends, with lost lines and broken transfers | 5,412 |
| `setup_reruns` | pass | runs that fail or are killed anywhere and run again | 165 |
| `boot` | pass | first and later boots, cut anywhere, changes of runlevel, a demo started by hand, a slow framebuffer, a Bluetooth that hangs: demo and HUD never share the screen, and the HUD gets it | 1,534,390 |
| `flip` | pass | any sequence of dirty areas, on framebuffers just as large as the display, taller, and with padded rows | 14,348 |
| `bb_lockfile` | pass | three processes and a file each of them removes: the lock is a readers-writer lock, the file goes at the end, somebody always gets it | 216,386 |
| `scene_queue` | pass | every graph up to the bounds collapses to what SceneGraph says, in any order of the dict | 631,002 |
| `runqueue` | pass | builds of three tasks, restored, skipped and built side by side, with failures, `-k`, interrupts, and deferred tasks that get a stamp or need another restored | 880,979 |
| `runqueue_deferred` | violation | breaking a deadlock of deferred tasks marks a restored task as not covered | |

**Bounds, and why they are enough.**

* `Rates`: two, one the vehicle's and one not; the guess `CanRate` is the wrong one. No property and no guard
  distinguishes rates further. The proofs hold for any set.
* `FifoDepth` 2: empty, in between, full. `FbWait` 2: found at once, found late, given up.
* `Pids` 2: a HUD and a second one beside it. `start` is not invoked when no pid is free, which bounds
  `hud_twice` only; in plain use there is never a second HUD (proved: `HudIsKnown`).
* `Configs`: all five combinations of `CAN_LISTEN_ONLY` and `--probe` but the one hud-default:5-7 warns
  of (listen-only with `auto`): see 5.
* `Starts` 2 (shells that overlap), `Polls` 1 (seen, or given up), `Levels` <<"3", "5">> with the default
  last, as in the postinst's loop, so that a cut leaves the default link behind.
* `flip`: a display of 2 by 3, framebuffers of 2 to 4 rows and 1 to 3 pixels per row, of which
  those it fits; every area.
* `MaxRx` 3: the board has no more than three unread tokens; a longer backlog only repeats tokens
  that one read swallows together.
* `SetupEnv`: the three layers the script clones.
* `bb_lockfile`: a holder, one that waits for the holder's file and one that opens the next; as many
  inodes (`EnoughInodes`). The calls are those the tree makes: shared and exclusive with retry,
  exclusive without waiting. `block` without retry is used nowhere and is covered by the proofs only.
* `scene_queue`: all graphs of four tasks with any setscene tasks and one target or none; of five
  without targets, since a task is met twice from five on; of three with up to two hard dependencies.
* `runqueue`: all graphs of three tasks with any setscene tasks and any results in the shared state,
  times one feature at a time (`-k`, a target, a hard dependency, current tasks, a refused one with one
  thread, deferred tasks), and a deferred task together with a stamp (`DeferredStamped`) or with a hard
  dependency between any two tasks (`HardDeferred`). Two tasks of the same hash are apart in the graph, so
  that the one that waits can be given the higher number. The builds in which the task waited for may be
  restored and both need a third one (`Clash`, hard dependencies counted in `Needed`) are
  `runqueue_deferred`'s.

**Stress.** `Stress` names what plain use of the HUD service excludes: `start_twice` (start while a HUD
runs), which `hud_twice` lets in, and `orphan_ip` (an `ip` child runs on after its parent was killed).
`Faults` does the same for the flash writer's `write`. Section 5 says what happens with them.

**Assumptions taken from outside the repository.** CTME alone makes the channel silent; a reset clears
CERFL; the boot ROM and the flash writer answer as the script expects; hud_app probes as its help
text says; bluetoothd keeps records and flags in memory; flock(2) converts a lock on Linux
without letting another in between (4.0 and later), on a local file system, with no
inherited descriptors. A person sets can0 by hand only while neither the script nor a HUD runs: inside
hud-init:123-134 there is a window between reading operstate and `ip link set can0 down` in which
the script would take can0 away from somebody. That window is listed as a hazard, not modelled. What
he sets is any rate and either mode; a controller that listens only never goes bus-off.

**Fairness.** `hud_plain`: weak fairness of the script and of each hud_app, that is, the kernel runs every process
that can run. Nothing is assumed of the bus or the operator: `EventuallyHeard` excuses a bus that falls
silent, a stop, a crash and a power cut. `flash_runs`: weak fairness of the script's calls only, since
each read has a timeout and XMODEM bounds its retries; the board may stay silent for ever. `boot`: weak
fairness of rc and of a HUD that draws; nothing of the Bluetooth shells, which is the point of
`HudOnScreen`. `bb_lockfile`: weak fairness of each process that is inside a call or holds the lock; calls need not come, and
`SomebodyGetsIt` excuses callers killed for ever. The lock is not fair to one process and the property
does not say so. `runqueue`: weak fairness of execute(), which the server calls over and over, and strong fairness of each
result, for a worker that ends has put its message in a pipe, where it stays until it is read. The
other runs check safety and assume no fairness.

## 4. Proofs

`tlapm` proves all eight proof modules completely, for every value of the constants that satisfies the
named assumptions:

* `RcarCanfdAssumption`, `HudServiceAssumption`, `OneKiwiBtAssumption`, `BootAssumption`, `FlipCopyAssumption`,
  `LockfileAssumption`, `FlashSpiAssumption`, `SetupEnvAssumption`: types of the parameters, and for
  Boot that runlevels are told apart from the pseudo-levels.
* `SceneQueueAssumption`, `RunQueueAssumption`: each graph is a graph (`IsGraph`, see 2), and of a build (`IsBuild`)
  that it has finitely many tasks, that its sets are sets of its tasks, and that BB_NUMBER_THREADS is
  at least 1, which runqueue.py:1794 demands. TLC evaluates both on every graph and build of the runs.

**RcarCanfd_proofs.**

| Theorem | States |
|---|---|
| `TypeCorrect` | `[]TypeOK`, with the FIFO never above its depth |
| `ListeningQueueEmpty` | `[]ListeningFifoEmpty` |
| `BerrIrqRequested`, `BerrNotTold` | the bus-error interrupt is enabled, and error counters told, only on request |
| `ListeningIsSilent` | `[]SilentWhenListening` |
| `TransmittingIsHeard` | `[]HeardWhenNotListening` |
| `NoBusOffListening` | `[]ListeningNeverBusOff` |
| `DriverImplementsCanIface` | `Spec => Iface!Spec`: every step of the driver is one of CanIface or a stutter |

The argument is the invariant `SilenceInv`. `SilentWhenListening` is not inductive: it says nothing of
the moments inside start() and stop(). `ChannelSound` adds what holds there: a closed interface is in
reset (`ResetWhenClosed`), so start() can write CTME; in operation CTME equals the session's mode
(`ModeInForce`); a channel halted by bus-off was transmitting (`HaltIsNormal`), so a restart, which
finds it outside reset, needs no change of CTME; and the bus is driven only by a channel in
operation without CTME (`DrivesOnBus`). A successful stop() establishes all of it from any
state (`ResetMakesSound`), which is why it is conditional on `unreset`. The refinement mapping turns `wire`
to quiet while `unreset`: what the channel does then is the first disagreement of section 5, not part of
the promise.

**HudService_proofs.** `TypeCorrect` holds in any surroundings. The others are about plain use,
`Stress = {}`, and fail without that assumption.

| Theorem | States |
|---|---|
| `TypeCorrect` | `[]TypeOK`, with at most FB_WAIT_S polls |
| `GuessNeverTransmits` | `[]NoGuessedTransmit` |
| `MuteNotInherited` | `[]NoInheritedMute` |
| `StopUnmutes` | `[]StopLeavesNoMute` |
| `CanComesUp` | `[]CanUpAtLaunch` |
| `HudIsKnown` | `[](RecordedHud /\ RestartApplies)` |
| `MuteWarned` | `[]MuteIsWarned`, for configurations of `SoundChoice` |
| `HandsAreKeptOff` | the action property `HandsOff`: a can0 set up by hand to talk, and not off the bus since, is left alone |

The argument is the invariant `PlainInv`. None of the properties is inductive, since each depends on what
script or probe read of can0 some steps earlier. `OneHud` (at most one HUD, and the pidfile names
it) and `ScriptAlone` (but for `kill`, the script runs no command beside a living HUD)
give that the two never drive can0 at the same time. Hence what the script has read is still true
when it acts (`ScriptKnows`), what the probe has heard is still true when it leaves listen-only
(`ProbesSound`), and can0 goes up at a guess only listen-only. `WarnInv` adds what the script has said
to what the HUD it launched may settle on. `SoundChoice` names the configurations the proof needs:
no listen-only, or a probe in a form the script recognises.

**Boot_proofs.** `Typing`; `DemoApart`: `[]DemoNeverBesideHud`; `NoTextAcross`: no kernel message across
a running HUD; `OneHud`: no change of runlevel starts a second one; `HaltedShowsLogo`: `[]IdleLogo`;
`SecondRecord`: `[]SecondRecordNeedsOverlap`; `Findable`: `[]FindableAfterStart`; for any list of runlevels,
any number of shells and polls. The argument: whatever is left of rcS's list still moves every link
that is not moved yet, and the postinst script is removed last (`SplashList` in `RcInv`); so by the
time a runlevel is entered all links are K98 and no list rc can have starts the demo (`BootLists`,
`SwitchLists`, `HaltLists`; `DemoList` is a person's). Each list determines who has the screen (`ScreenInv`). For
Bluetooth, `RecordInv` says that without overlap one shell at most is between its look and its add,
and `ShellInv` what an undisturbed shell has done so far.

**FlipCopy_proofs.** `Typing`; `Inside`: `[]InsideMapping`; `Upside`: `[]Mirrored`; `Outside`: what lies above or
beside the mirrored display is never written; for any display, any framebuffer it fits, any areas.
`CellMapped` and `CellsApart` are the geometry: every pixel of the display has a cell of its own inside the
mapping. `CopyInv` says that all but the rows still pending are mirrored already.

**FlashSpi_proofs.** `Typing`; `NoneMisplaced`: `[]NoMisplacedImage`, for any faults, write errors included.
`NoMisplacedImage` depends on what has been lost: `CommandInv` relates the lines sent so far (`Sent`), those on
their way and the question the writer is at (`Stage`): it can never be further than the lines that are
gone allow, and the last line on its way is the address to save to. A lost line therefore delays
the writer, which then asks for no transfer, and never shifts an address.

`Flashed`: `"write" \notin Faults => (Spec => []DoneMeansFlashed)`. With write errors it is false
(section 5, 6), so the hypothesis is the property's own. It does not need the reset that `NoMisplacedImage`
needs. The script looks at nothing but prompts, so `FlashedInv` says what a prompt tells it: as long as no
line was lost, the lines on their way are those the writer waits for and those it took are in place (`LinesInv`); the writer is at the end of a command only in that case, and
until it is back at its prompt there is no prompt to be read (`PromptInv`); and the second image never
touches the first (`KeptInv`).

**SetupEnv_proofs.** `Typing`, `NothingAbsent`: `[]CompleteMeansPresent`, `Kept`: the action property
`FetchedLayersStay`, for the layers the script lists. The invariant `FetchInv` says that every layer behind the script is
there and that it clones only where nothing is.

**Lockfile_proofs.** `Typing`; `FileStays`: `[]HolderOnDisk`; `Exclusion`: `[]MutualExclusion`; `LockRefines`: Lockfile
implements RwLock; `Cleans`: `[]CleansUp`; for any processes and files. The invariant is `LockInv`: locks on one file
agree, and whoever is past the comparison of inodes has its lock on the file the name refers to, so the
next one meets it. `CleansUp` speaks only of the moment when everybody is away. `CleanInv` says why it comes out
so: as long as nothing was left behind by a crash, somebody still *minds* the file on disk, that
is, has it open and will look at it again; who gives it up without removing it (no promotion, no
patience) does so only beside another who minds it.

**RunQueue_proofs.** About the collapse (`CollapseSpec`), for any graph, any order of the dict and of the hard
dependencies:

| Theorem | States |
|---|---|
| `CollapseHolds` | `[]CollapseInv`, the invariant behind the next five |
| `NeverSaid` | `[]NeverFatal` |
| `Exact` | `[]UnskippableExact` |
| `Collapses` | `[]HandedOver` |
| `Circleless` | `[]NoCircle` |
| `QueuesMeet` | once built, `SQDataOf` of every build of the graph is what has been handed over |

and about execute() (`Spec`), for any builds:

| Theorem | States |
|---|---|
| `InOrder` | `[]DepsFirst` |
| `TypeCorrect` | `[]TypeOK`, with never more workers than threads |
| `Quiet` | `[]NotWhileBuilt` |
| `TwoWays` | a step from `NoneInBoth` to its opposite is `BreakDeadlock` or `Returns` |
| `OnlyBreaking` | `[]NoneInBoth`, in behaviours without the step `BreakDeadlock`, if no deferred task needs another restored |
| `Distinct` | `[]NoneInBoth`, if no two setscene tasks have the same hash |
| `NoneMissed` | `[]NoneInBoth => []NothingMissing`, if no build has a chain of hard dependencies |
| `DistinctNoneMissed` | `[]NothingMissing`, if neither is there |
| `FailsRightly` | `[]FailsForAReason` |
| `GoesOn` | `[]KeepsGoing` |

*Induction along the graph.* A circle-free graph is one in which every set of tasks that is not empty has a task that depends
on none of them and one on which none of them depends. That is how `Acyclic` is stated, so "every task
is ..." is proved by looking at a lowest (`Lowest`) or highest (`Highest`) task that is not.
The recursive functions of the modules (`Below`, `SceneDone`, `Needs`) are known to the prover by
their equation only; the lemmas `ReachEquation`, `BelowEquation` and their like get it from the least closed set,
which needs no recursion.

*The collapse.* No property is inductive: they speak of the end. `CollapseInv` says of every moment that nobody is
taken for a user who is not one (`SoundInv`), that what has been found is not lost but with the task
or on its way down to it (`KeptUsers`, `Followed`), and what zeroing the users has done so far
(`HardRead`). A normal task met too early is met again, because it stays among those whose users have not
all been met.

*Order and quiet.* The `continue` at runqueue.py:2089 that was meant to wait for running tasks waits for nothing; what
keeps a task from being built while it is restored is `QuietInv`: nothing an *undecided* setscene task
could restore is running. It rests on `HoldInv`: `holdoff_tasks` is up to date whenever a task is chosen.
`ThreadsInv` counts the workers of the two queues together, which needs that the sets are finite.

*Nothing missing.* `MissInv`: what is built is not covered, what was started is built, covered or was
there (`BuiltInv`), and a setscene task that counts as covered though it was never restored is used by
covered ones only (`UnneededInv`). Both hypotheses of `NoneMissed` are needed. `NoneInBoth` fails in
`runqueue_deferred`.

*In both sets.* A setscene task is decided once, with two exceptions, which `TwoWays` names: the step of that
finding, and `Returns`, the second look at a deferred task (`LookAgain`) that fell meanwhile with one it needs restored
(section 5, 11). `OnlyBreaking` excludes the second by its hypothesis, `NoneHeld`: where no
deferred task needs another restored, a deferred task is never decided (`HeldInv`), for nothing but a hard
dependency takes it down before it is let go.

*Chains.* `NoChain` says that no setscene task that must be restored for another needs a third one restored. Where there is
such a chain, the users of the middle one are zeroed and only its own hard dependency is left to tell
whether it is still wanted; then execute() relies on the answer of the recipes (`setscene_depvalid`), which the
model leaves open. TLC finds `NothingMissing` violated on such a build: three tasks, `hard = {<<2, 1>>, <<3, 2>>}`, 3
depends on 2 and is not in the shared state. `Builds` of `runqueue` has no chain.

*The end.* A build could stop short with tasks left and no failure if a setscene task that is ready were never tried
or a task that is ready were never buildable. `ReadyInv` says that whoever may be tried is
`sq_buildable`, `ScanInv` that a scan that found nothing left nothing, `FreshInv` and `SweepInv` that the sets are
up to date and of what they allow everything ready is buildable. `FailInv` and, with `-k`, `OnwardInv` follow
by a lowest task that is not complete. Deferred tasks and the forced one of the finding are included.

**Proved but in no run**: the type invariants except RunQueue's, `BerrIrqOnlyOnRequest`,
`BerrToldOnlyOnRequest`, `StopLeavesNoMute`, `RecordedHud`, `NoTextOverHud`, `OneHudPerBoot`, `RestUntouched`,
`HolderOnDisk`.

**Only model-checked**: the liveness properties `EventuallyHeard`, `EveryRunEnds`, `HudOnScreen`, `SomebodyGetsIt`
and `Ends`, since liveness under fairness is out of the prover's reach, and so is ENABLED. Every
invariant and action property of the passing runs is stated by a theorem; for `DoneMeansFlashed`,
`NothingMissing` and those of plain use of the HUD service with the hypotheses given above.

## 5. Findings

Two runs show a disagreement between the code and what it or its texts say; `PROJECT.json` quotes both
under `findings`.

1. `hud-init:256` (`hud_twice`). start-stop-daemon never recognises the running HUD, so a second start is
   not refused, and restart then ends only one of the two.
2. `runqueue.py:2249` (`runqueue_deferred`). `dict.pop` returns the value, so breaking a deadlock of deferred
   tasks forces the task that was waited for instead of the one that waits. If it had been restored it
   is then covered and uncovered, which runqueue.py:2034 calls a bug.

Further disagreements, each found with these models and left out of the checked runs so that those
can say what holds otherwise:

3. `0003:120`. stop() ignores a failed reset, and the comment at 0003:26-27 relies on the reset. Drop `~unreset` from
   `SilentWhenListening` in `canfd_sessions`: a transmitting session is closed, the reset times out and
   leaves the channel in operation (`StopResetFails`); the interface is configured listen-only and
   opened; CTME cannot be written outside reset, and the channel goes on acknowledging frames.
4. `hud-init:69`. Without `/etc/default/hud` the built-in settings are listen-only with `--probe auto`: can0 stays
   mute and no warning is printed. Add `Yes("auto")` to `SoundConfigs`: `MuteIsWarned` is violated.
5. `hud-init:265`. stop cleans can0 up while an `ip` child of the killed hud_app may still run, which then
   brings can0 up again, transmitting at a rate that was only being tried. Set `Stress = {"orphan_ip"}` in
   `hud_plain`: `NoGuessedTransmit` is violated.
6. `flash_spi.py:105`. The prompt is taken for success although it also follows a write error. Add `"write"` to
   `Faults` in `flash_runs`: `DoneMeansFlashed` is violated.
7. `setup.sh:32`. Clone and checkout are two steps and the re-run looks at the first only: after a failed
   checkout the re-run says "Setup Complete!" with a layer on the wrong branch. `said => \A l : tree[l] = "wanted"`
   is violated in `setup_reruns`.
8. `lvgl-v9-init:26`. A change of runlevel runs `K98lvgl-v9 stop`, which redraws the logo over a running HUD until it
   next draws, where hud-init:212-213 says that nothing but the HUD writes to the framebuffer any more.
In `boot`, "the HUD has drawn since it was launched, and now the logo shows" is reachable by `Telinit`.
9. `hud-init:99`. A can0 that somebody has set to another mode is not overwritten, say hud-init:20-23; but one
   set listen-only by hand is taken down and switched over by `clear_listen_only`, on start and on stop. The
   comment at hud-init:95-96 holds that nobody sets listen-only by hand. Drop `~listen` from `HandsOff` in
   `hud_plain`: it is violated by `SetByHand` and a stop.
10. `hud-init:124`. A can0 that somebody has brought up and that has gone bus-off is still UP, but its operstate is
   "down": the script takes it down and configures it, the opposite of hud-init:20-23. It does so even if the
   controller comes back between the reading and `ip link set can0 down`. Drop `bus = "on"` from
   `HandsOff` in `hud_plain`: it is violated by `SetByHand`, `BusOff` and a start.
11. `runqueue.py:1986`. A second way into both sets, which runqueue.py:2034 calls a bug: a deferred task that needs
   another one restored falls with it (2541) and stays deferred; it is built; then the task it was deferred after
   completes, its stamp is looked up anew (2899-2909), is current, and the task is covered while it is among the
   uncovered. Set `Builds <- Fallen` in `RunQueue_deferred.cfg`: `NoneInBoth` is violated
   by `LookAgain`. Unlike finding 2 this does no harm in the model, since the task has been built:
   `runqueue` contains these builds and passes.

## 6. Plan

Done: all modules above, each with a run, and proofs of all their safety properties.

Next, in this order:

1. **HudService, rest**: the keyboard behind HUD_INPUT (hud-init:226-254), the check that hud_app is
   installed; the window at hud-init:123-134 as a third kind of `Stress`.
2. **RunQueue**: a worker that dies (runqueue.py:3068); `setscene_depvalid` as a constant relation, so that
   `NoneMissed` can say what a recipe must answer for chains of hard dependencies.
3. **Rehashing** (process_possible_migrations), as a module on top of RunQueue, on graphs of three tasks.
4. **Proofs about single findings**: that after a change of runlevel the logo can cover the HUD only until it next
   draws (section 5, 8), and that with `orphan_ip` only a child that outlived its parent transmits at a guess (5, 5).
5. **WicBoot**: `fix_wic_boot` on two sectors; running it twice changes nothing more; no other byte changes.

## 7. Not modelled, and why

* *Patch 0002* writes one register bit once at probe, before any other actor exists.
* *Network script*: adds or removes one address; shares nothing with the rest.
* *Panel patch, kernel options, device tree, recipes*: tables and lists, no control.
* *systemd units, skeleton app, lvgldemo-service*: the image uses sysvinit and installs none of them.
* *Image recipe* (`fix_wic_boot`): straight-line, run by one task of the build; planned.
* *Splash logo*: only that it draws. Centring and pixel conversion are straight-line arithmetic with
  bounds checks of their own.
* *hud_app beyond its probe* (display, OBD-II, signals, navigation link): no source in the repository.
* *HUD service*: status only reads; the keyboard and the check for hud_app are planned.
* *Boot*: of the runlevels without the links only halt, and a reboot is halt and power on; a read-only root file system, on which
  links cannot be moved, is excluded.
* *main.c*: the widgets, the clock and the logo are LVGL calls; a framebuffer too small for the display is
  excluded by `Fits`, since nothing in main.c checks it.
* *Lock files*: NFS, descriptors inherited by children, and more than one name in a list: every
  recipe in the tree gives one lock per list.
* *Run queue*: rehashing (process_possible_migrations), the setscene whitelist and `--setscene-only`,
  a worker that dies, fakeroot workers, tasks that share a stamp, `number_threads` flags, dry runs.
* *Vendored layers*: meta-openembedded, meta-renesas, meta-qt6 and the rest are recipes of other
  projects; of poky and bitbake only the parts named in section 1 are modelled. Parsing, fetching,
  the hash server, devtool and Toaster have no part in what the board or this project's scripts do, and make up
  nearly all of the repository's lines, so that the share of lines the models cover is small.
* In the modelled parts: log lines, formatting, CAN FD frame contents, XMODEM blocks, byte-wise
  serial data, pid reuse by other programs.

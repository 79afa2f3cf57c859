----------------------------- MODULE OneKiwiBt -----------------------------
(***************************************************************************)
(* The Bluetooth start script.  Each start leaves a background shell that  *)
(* waits for the adapter, makes it discoverable and pairable, and          *)
(* registers the SPP record unless one is there already.  bluetoothctl,    *)
(* sdptool and bluetoothd are external; they may stop, come back or hang.  *)
(***************************************************************************)
EXTENDS Naturals

CONSTANTS
  Starts,     \* the background shells there may be at a time
  Polls       \* polls for "Powered: yes" (20 in the script)

ASSUME OneKiwiBtAssumption == Polls \in Nat \ {0}

VARIABLES
  job,        \* the command each background shell runs next
  polled,     \* polls it has made
  adapter,    \* powered, discoverable, pairable
  daemon,     \* bluetoothd runs
  spp,        \* SPP records bluetoothd holds
  saw,        \* history: the shell has seen the adapter powered
  calm,       \* history: adapter and bluetoothd stayed since that shell began
  overlap     \* history: two shells looked for the record before either added it

btVars == <<job, polled, adapter, daemon, spp, saw, calm, overlap>>

Steps == {"poll", "discoverable", "pairable", "browse", "add"}
Flags == {"powered", "discoverable", "pairable"}
AllOff == [flag \in Flags |-> FALSE]

BtTypeOK ==
  /\ job \in [Starts -> Steps \cup {"none", "done"}]
  /\ polled \in [Starts -> 0..Polls]
  /\ adapter \in [Flags -> BOOLEAN]
  /\ daemon \in BOOLEAN /\ overlap \in BOOLEAN
  /\ spp \in Nat
  /\ saw \in [Starts -> BOOLEAN] /\ calm \in [Starts -> BOOLEAN]

BtInit ==
  /\ job = [s \in Starts |-> "none"] /\ polled = [s \in Starts |-> 0]
  /\ adapter = AllOff /\ daemon = FALSE /\ spp = 0 /\ overlap = FALSE
  /\ saw = [s \in Starts |-> FALSE] /\ calm = [s \in Starts |-> FALSE]

Goto(s, step) == job' = [job EXCEPT ![s] = step]

\* start: everything else happens in ( .. ) &
Start(s) ==
  /\ job[s] \in {"none", "done"}
  /\ Goto(s, "poll")
  /\ polled' = [polled EXCEPT ![s] = 0]
  /\ saw' = [saw EXCEPT ![s] = FALSE]
  /\ calm' = [calm EXCEPT ![s] = daemon]
  /\ UNCHANGED <<adapter, daemon, spp, overlap>>

\* bluetoothctl show | grep "Powered: yes"
SeesPower(s) ==
  /\ job[s] = "poll" /\ polled[s] < Polls
  /\ daemon /\ adapter.powered
  /\ saw' = [saw EXCEPT ![s] = TRUE]
  /\ Goto(s, "discoverable")
  /\ UNCHANGED <<polled, adapter, daemon, spp, calm, overlap>>

\* No answer, or no power: sleep and count; the loop ends all the same.
SeesNoPower(s) ==
  /\ job[s] = "poll" /\ polled[s] < Polls
  /\ ~(daemon /\ adapter.powered)
  /\ polled' = [polled EXCEPT ![s] = @ + 1]
  /\ Goto(s, IF polled[s] + 1 = Polls THEN "discoverable" ELSE "poll")
  /\ UNCHANGED <<adapter, daemon, spp, saw, calm, overlap>>

\* Wrong variant: pairable is left out.
SetFlag_Discoverable(s, flag, next) ==
  /\ job[s] = flag
  /\ adapter' = IF daemon THEN [adapter EXCEPT !["discoverable"] = TRUE] ELSE adapter
  /\ Goto(s, next)
  /\ UNCHANGED <<polled, daemon, spp, saw, calm, overlap>>

\* bluetoothctl discoverable on, pairable on: the result is ignored.  On an
\* adapter without power bluetoothd may or may not keep the flag.
SetFlag(s, flag, next) ==
  /\ job[s] = flag
  /\ \E kept \in BOOLEAN :
       /\ daemon /\ adapter.powered => kept
       /\ ~daemon => ~kept
       /\ adapter' = IF kept THEN [adapter EXCEPT ![flag] = TRUE] ELSE adapter
  /\ Goto(s, next)
  /\ UNCHANGED <<polled, daemon, spp, saw, calm, overlap>>

\* Wrong variant: no guard against registering twice.
Browse_Unguarded(s) ==
  /\ job[s] = "browse"
  /\ Goto(s, "add")
  /\ UNCHANGED <<polled, adapter, daemon, spp, saw, calm, overlap>>

\* sdptool browse local | grep "Serial Port": without bluetoothd there is none.
Browse(s) ==
  /\ job[s] = "browse"
  /\ Goto(s, IF daemon /\ spp > 0 THEN "done" ELSE "add")
  /\ overlap' = (overlap \/ \E t \in Starts \ {s} : job[t] = "add")
  /\ UNCHANGED <<polled, adapter, daemon, spp, saw, calm>>

\* sdptool add
AddRecord(s) ==
  /\ job[s] = "add"
  /\ spp' = IF daemon THEN spp + 1 ELSE spp
  /\ Goto(s, "done")
  /\ UNCHANGED <<polled, adapter, daemon, saw, calm, overlap>>

Shell(s) ==
  \/ SeesPower(s) \/ SeesNoPower(s)
  \/ SetFlag(s, "discoverable", "pairable") \/ SetFlag(s, "pairable", "browse")
  \/ Browse(s) \/ AddRecord(s)

\* bluetoothd starts, stops (and forgets its records and flags), and the adapter
\* is plugged and pulled.
DaemonStarts ==
  /\ ~daemon /\ daemon' = TRUE
  /\ UNCHANGED <<job, polled, adapter, spp, saw, calm, overlap>>

Disturbed == calm' = [s \in Starts |-> FALSE]

DaemonStops ==
  /\ daemon /\ daemon' = FALSE
  /\ spp' = 0
  /\ overlap' = \E s, t \in Starts : s # t /\ job[s] = "add" /\ job[t] = "add"
  /\ adapter' = [adapter EXCEPT !["discoverable"] = FALSE, !["pairable"] = FALSE]
  /\ Disturbed
  /\ UNCHANGED <<job, polled, saw>>

AdapterPowers ==
  /\ ~adapter.powered
  /\ adapter' = [adapter EXCEPT !["powered"] = TRUE]
  /\ UNCHANGED <<job, polled, daemon, spp, saw, calm, overlap>>

AdapterPulled ==
  /\ adapter.powered
  /\ adapter' = AllOff
  /\ Disturbed
  /\ UNCHANGED <<job, polled, daemon, spp, saw, overlap>>

BtWorld == DaemonStarts \/ DaemonStops \/ AdapterPowers \/ AdapterPulled
BtNext == (\E s \in Starts : Start(s) \/ Shell(s)) \/ BtWorld

\* The guard keeps a restart from registering SPP twice; it does not help two
\* shells that run at the same time, and nothing else produces a second record
\* (onekiwi-bt:37-41).
SecondRecordNeedsOverlap == spp > 1 => overlap

\* A start that saw the adapter powered leaves the HUD findable, pairable and with
\* its SPP record, unless adapter or bluetoothd went away meanwhile.  A start that
\* gave up after its polls promises nothing (onekiwi-bt:22-41).
FindableAfterStart ==
  \A s \in Starts : job[s] = "done" /\ saw[s] /\ calm[s] =>
    adapter.discoverable /\ adapter.pairable /\ spp > 0
=============================================================================

------------------------------ MODULE CanIface ------------------------------
(***************************************************************************)
(* What a SocketCAN interface promises to the programs that drive it with  *)
(* `ip link`: the init script hud-init, hud_app and an operator at the     *)
(* console.  The promise the HUD is built on is the guard of Drive: an     *)
(* interface that is listen-only, or down, never drives the vehicle's bus. *)
(* RcarCanfd is shown to implement this module, HudService relies on it.   *)
(***************************************************************************)
CONSTANTS
  Rates,            \* the bit rates `ip` is given
  NoRate,           \* no bit timing configured yet
  FdMode,           \* the controller starts in CAN FD mode
  ListenSupported   \* the driver lists CAN_CTRLMODE_LISTENONLY

VARIABLES
  up,       \* the interface is UP
  listen,   \* CAN_CTRLMODE_LISTENONLY; sticky across down and up
  rate,     \* nominal bit timing
  drate,    \* the data bit timing is configured
  wire      \* what this node does to the bus: "quiet" or "driven"

canVars == <<up, listen, rate, drate, wire>>

TypeOK ==
  /\ up \in BOOLEAN
  /\ listen \in BOOLEAN
  /\ rate \in Rates \cup {NoRate}
  /\ drate \in BOOLEAN
  /\ wire \in {"quiet", "driven"}

Init ==
  /\ up = FALSE
  /\ listen = FALSE
  /\ rate = NoRate
  /\ drate = FALSE
  /\ wire = "quiet"

\* ip link set can0 down
Down ==
  /\ up' = FALSE
  /\ wire' = "quiet"
  /\ UNCHANGED <<listen, rate, drate>>

\* Does the kernel take `type can bitrate r [dbitrate .. fd on] listen-only lo`?
\* withData: the command carries the data bit rate.
Accepts(withData, lo) ==
  /\ ~up
  /\ withData => FdMode
  /\ lo => ListenSupported

Configure(r, withData, lo) ==
  /\ Accepts(withData, lo)
  /\ rate' = r
  /\ drate' = (drate \/ withData)
  /\ listen' = lo
  /\ UNCHANGED <<up, wire>>

\* Does `ip link set can0 up` succeed on an interface that is down?
CanOpen == rate # NoRate /\ (FdMode => drate)

Up ==
  /\ ~up
  /\ CanOpen
  /\ up' = TRUE
  /\ UNCHANGED <<listen, rate, drate, wire>>

\* A frame, an acknowledge bit or an error flag of ours is on the bus.
Drive ==
  /\ up
  /\ ~listen
  /\ wire' = "driven"
  /\ UNCHANGED <<up, listen, rate, drate>>

Quiet ==
  /\ wire' = "quiet"
  /\ UNCHANGED <<up, listen, rate, drate>>

Next ==
  \/ Down
  \/ \E r \in Rates, withData, lo \in BOOLEAN : Configure(r, withData, lo)
  \/ Up
  \/ Drive
  \/ Quiet

Spec == Init /\ [][Next]_canVars
=============================================================================

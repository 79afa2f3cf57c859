----------------------------- MODULE RcarCanfd -----------------------------
(***************************************************************************)
(* One channel of the CAN controller under the driver rcar_canfd as kernel *)
(* patch 0003 (listen-only mode and bus-error reporting) leaves it.  The   *)
(* start and stop sequences are broken into their register writes, so an   *)
(* interrupt or a frame can fall between any two of them; the networking   *)
(* core's RTNL lock keeps ndo_open, ndo_stop and a change of control mode  *)
(* from overlapping one another.                                           *)
(***************************************************************************)
EXTENDS Naturals

CONSTANTS
  Rates, NoRate,    \* as in CanIface
  FdMode,           \* gpriv->fdmode
  FifoDepth         \* entries of the transmit Common FIFO

ASSUME RcarCanfdAssumption ==
  /\ NoRate \notin Rates
  /\ FdMode \in BOOLEAN
  /\ FifoDepth \in Nat \ {0}

VARIABLES
  ifup,     \* IFF_UP
  ctrl,     \* priv->can.ctrlmode, of the two modes userspace may choose
  rate,     \* priv->can.bittiming
  drate,    \* priv->can.data_bittiming is set
  step,     \* the next write of the start or stop sequence under way
  canstate, \* priv->can.state
  fifo,     \* frames in the Common FIFO, each with its echo skb
  dropped,  \* the drop of a frame in listen-only mode has been warned of
  told,     \* error classes of the last error frame given to userspace
  unreset,  \* history: the last stop() could not reset the channel
  chmode,   \* CCTR.CHMDC: the channel's mode
  ctme,     \* CCTR.CTME: CAN test mode, the channel never drives the bus
  eie,      \* CCTR: the error interrupts that start() always enables
  beie,     \* CCTR.BEIE: bus error interrupt enable
  erfl,     \* CERFL: latched error flags
  wire      \* what the channel does to the bus

linkVars == <<ifup, ctrl, rate, drate>>
drvVars  == <<step, canstate, fifo, dropped, told, unreset>>
regVars  == <<chmode, ctme, eie, beie, erfl, wire>>
vars     == <<linkVars, drvVars, regVars>>

CtrlModes == {"listen", "berr"}   \* LISTENONLY, BERR_REPORTING
ErrFlags  == {"BEF", "EWF", "BOEF"}
Starting  == {"irq", "ctme", "oper"}
Stopping  == {"reset", "unctme", "flush"}

LinkTypeOK ==
  /\ ifup \in BOOLEAN
  /\ ctrl \in SUBSET CtrlModes
  /\ rate \in Rates \cup {NoRate}
  /\ drate \in BOOLEAN

DriverTypeOK ==
  /\ step \in {"none"} \cup Starting \cup Stopping
  /\ canstate \in {"stopped", "active", "busoff"}
  /\ dropped \in BOOLEAN
  /\ told \in SUBSET ErrFlags
  /\ unreset \in BOOLEAN

RegisterTypeOK ==
  /\ chmode \in {"reset", "oper", "halt"}
  /\ ctme \in BOOLEAN
  /\ eie \in BOOLEAN
  /\ beie \in BOOLEAN
  /\ erfl \in SUBSET ErrFlags
  /\ wire \in {"quiet", "driven"}

FifoBounded == fifo \in 0..FifoDepth

\* The Common FIFO never holds more than it can, whatever is queued and sent.
TypeOK == LinkTypeOK /\ DriverTypeOK /\ RegisterTypeOK /\ FifoBounded

listening == "listen" \in ctrl

\* rcar_canfd_probe has run: every channel is in reset.
Init ==
  /\ ifup = FALSE /\ ctrl = {} /\ rate = NoRate /\ drate = FALSE
  /\ step = "none" /\ canstate = "stopped" /\ fifo = 0
  /\ dropped = FALSE /\ told = {} /\ unreset = FALSE
  /\ chmode = "reset" /\ ctme = FALSE /\ eie = FALSE /\ beie = FALSE
  /\ erfl = {} /\ wire = "quiet"

(***************************************************************************)
(* The networking core.                                                    *)
(***************************************************************************)
\* Wrong variant: a control mode is changed on a running interface.
ChangeLink_WhileUp(r, withData, modes) ==
  /\ step = "none"
  /\ withData => FdMode
  /\ ctrl' = modes
  /\ rate' = r
  /\ drate' = (drate \/ withData)
  /\ UNCHANGED <<ifup, drvVars, regVars>>

\* can_changelink: refused with -EBUSY while the interface is UP.
ChangeLink(r, withData, modes) ==
  /\ ~ifup /\ step = "none"
  /\ withData => FdMode
  /\ ctrl' = modes
  /\ rate' = r
  /\ drate' = (drate \/ withData)
  /\ UNCHANGED <<ifup, drvVars, regVars>>

\* open_candev rejects missing bit timing; then ndo_open calls start().
Open ==
  /\ ~ifup /\ step = "none"
  /\ rate # NoRate /\ (FdMode => drate)
  /\ step' = "irq"
  /\ UNCHANGED <<linkVars, canstate, fifo, dropped, told, unreset, regVars>>

Close ==
  /\ ifup /\ step = "none"
  /\ step' = "reset"
  /\ UNCHANGED <<linkVars, canstate, fifo, dropped, told, unreset, regVars>>

\* do_set_mode(CAN_MODE_START) after a bus-off: start() without a stop().
Restart ==
  /\ ifup /\ step = "none" /\ canstate = "busoff"
  /\ step' = "irq"
  /\ UNCHANGED <<linkVars, canstate, fifo, dropped, told, unreset, regVars>>

(***************************************************************************)
(* rcar_canfd_start.                                                       *)
(***************************************************************************)
\* rcar_canfd_enable_channel_interrupts sets bits and clears none.
EnableInterrupts ==
  /\ step = "irq"
  /\ eie' = TRUE
  /\ beie' = (beie \/ "berr" \in ctrl)
  /\ step' = "ctme"
  /\ UNCHANGED <<linkVars, canstate, fifo, dropped, told, unreset,
                 chmode, ctme, erfl, wire>>

\* Wrong variant: set_bit where clear_bit is meant.
WriteCtme_SetBit(b) ==
  \/ chmode = "reset" /\ ctme' = (ctme \/ b)
  \/ chmode # "reset" /\ UNCHANGED ctme

\* The controller takes a write to CTME only in reset mode.
WriteCtme(b) ==
  \/ chmode = "reset" /\ ctme' = b
  \/ chmode # "reset" /\ UNCHANGED ctme

\* Wrong variant: start() trusts the mode the channel is in.
StartCtme_Clears ==
  /\ step = "ctme"
  /\ WriteCtme(FALSE)
  /\ step' = "oper"
  /\ UNCHANGED <<linkVars, canstate, fifo, dropped, told, unreset,
                 chmode, eie, beie, erfl, wire>>

StartCtme ==
  /\ step = "ctme"
  /\ \/ listening /\ WriteCtme(TRUE)
     \/ ~listening /\ WriteCtme(FALSE)
  /\ step' = "oper"
  /\ UNCHANGED <<linkVars, canstate, fifo, dropped, told, unreset,
                 chmode, eie, beie, erfl, wire>>

StartOper ==
  /\ step = "oper"
  /\ chmode' = "oper"
  /\ canstate' = "active"
  /\ ifup' = TRUE
  /\ step' = "none"
  /\ UNCHANGED <<ctrl, rate, drate, fifo, dropped, told, unreset,
                 ctme, eie, beie, erfl, wire>>

(***************************************************************************)
(* rcar_canfd_stop.                                                        *)
(***************************************************************************)
\* Wrong variant: the latched error flags outlive the session.
StopReset_KeepsFlags ==
  /\ step = "reset"
  /\ chmode' = "reset"
  /\ wire' = "quiet"
  /\ unreset' = FALSE
  /\ step' = "unctme"
  /\ UNCHANGED <<linkVars, canstate, fifo, dropped, told,
                 ctme, eie, beie, erfl>>

\* A channel in reset mode is off the bus and its error flags are zero.
StopReset ==
  /\ step = "reset"
  /\ chmode' = "reset"
  /\ erfl' = {}
  /\ wire' = "quiet"
  /\ unreset' = FALSE
  /\ step' = "unctme"
  /\ UNCHANGED <<linkVars, canstate, fifo, dropped, told,
                 ctme, eie, beie>>

\* The wait times out: stop() logs "channel %u reset failed" and goes on.
StopResetFails ==
  /\ step = "reset"
  /\ unreset' = TRUE
  /\ step' = "unctme"
  /\ UNCHANGED <<linkVars, canstate, fifo, dropped, told, regVars>>

StopCtme ==
  /\ step = "unctme"
  /\ WriteCtme(FALSE)
  /\ step' = "flush"
  /\ UNCHANGED <<linkVars, canstate, fifo, dropped, told, unreset,
                 chmode, eie, beie, erfl, wire>>

\* Interrupts off, FIFOs disabled, echo skbs freed by close_candev.
StopFlush ==
  /\ step = "flush"
  /\ eie' = FALSE
  /\ beie' = FALSE
  /\ fifo' = 0
  /\ canstate' = "stopped"
  /\ ifup' = FALSE
  /\ step' = "none"
  /\ UNCHANGED <<ctrl, rate, drate, dropped, told, unreset,
                 chmode, ctme, erfl, wire>>

(***************************************************************************)
(* Frames and errors.                                                      *)
(***************************************************************************)
\* Wrong variant: a frame is queued in a listening session too.
Xmit_Queues ==
  /\ ifup /\ step = "none" /\ canstate # "busoff"
  /\ fifo < FifoDepth
  /\ fifo' = fifo + 1
  /\ UNCHANGED <<linkVars, step, canstate, dropped, told, unreset, regVars>>

\* rcar_canfd_start_xmit; the queue runs from the end of start() to stop()
\* and is stopped while the FIFO is full.
Xmit ==
  /\ ifup /\ step = "none" /\ canstate # "busoff"
  /\ fifo < FifoDepth
  /\ IF listening
       THEN dropped' = TRUE /\ UNCHANGED fifo
       ELSE fifo' = fifo + 1 /\ UNCHANGED dropped
  /\ UNCHANGED <<linkVars, step, canstate, told, unreset, regVars>>

OnBus == chmode = "oper" /\ ~ctme

\* A queued frame goes out.
HwSend ==
  /\ OnBus /\ fifo > 0
  /\ fifo' = fifo - 1
  /\ wire' = "driven"
  /\ UNCHANGED <<linkVars, step, canstate, dropped, told, unreset,
                 chmode, ctme, eie, beie, erfl>>

\* The channel acknowledges somebody's frame, or flags it as an error.
HwAnswer ==
  /\ OnBus
  /\ wire' = "driven"
  /\ UNCHANGED <<linkVars, drvVars, chmode, ctme, eie, beie, erfl>>

HwQuiet ==
  /\ wire = "driven"
  /\ wire' = "quiet"
  /\ UNCHANGED <<linkVars, drvVars, chmode, ctme, eie, beie, erfl>>

\* The bus shows an error; the flags latch whether or not they interrupt.
HwError(f) ==
  /\ chmode = "oper" /\ f \in {"BEF", "EWF"}
  /\ erfl' = erfl \cup {f}
  /\ UNCHANGED <<linkVars, drvVars, chmode, ctme, eie, beie, wire>>

\* The transmit error counter overflows: only a node that drives the bus
\* counts up, and the controller halts the channel at bus-off entry.
HwBusOff ==
  /\ OnBus /\ wire = "driven"
  /\ chmode' = "halt"
  /\ erfl' = erfl \cup {"BOEF"}
  /\ wire' = "quiet"
  /\ UNCHANGED <<linkVars, drvVars, ctme, eie, beie>>

\* rcar_canfd_error: one read of CERFL, reported and then cleared.
ErrorIrq ==
  /\ \/ beie /\ "BEF" \in erfl
     \/ eie /\ erfl \ {"BEF"} # {}
  /\ told' = IF "berr" \in ctrl THEN erfl ELSE erfl \ {"BEF"}
  /\ IF "BOEF" \in erfl
       THEN canstate' = "busoff" /\ fifo' = 0
       ELSE UNCHANGED <<canstate, fifo>>
  /\ erfl' = {}
  /\ UNCHANGED <<linkVars, step, dropped, unreset, chmode, ctme, eie, beie, wire>>

Rtnl == \/ \E r \in Rates, withData \in BOOLEAN, modes \in SUBSET CtrlModes :
             ChangeLink(r, withData, modes)
        \/ Open
        \/ Close
        \/ Restart

Start == EnableInterrupts \/ StartCtme \/ StartOper

Stop == StopReset \/ StopResetFails \/ StopCtme \/ StopFlush

Hardware == \/ HwSend
            \/ HwAnswer
            \/ HwQuiet
            \/ \E f \in ErrFlags : HwError(f)
            \/ HwBusOff

Next == Rtnl \/ Start \/ Stop \/ Xmit \/ ErrorIrq \/ Hardware

Spec == Init /\ [][Next]_vars

-----------------------------------------------------------------------------
(***************************************************************************)
(* Properties.                                                             *)
(***************************************************************************)
Iface == INSTANCE CanIface WITH
           up <- ifup, listen <- listening, ListenSupported <- TRUE,
           wire <- IF unreset THEN "quiet" ELSE wire

\* The driver and the controller together keep the promise of CanIface, of
\* which the one that matters is that a listen-only or closed interface never
\* drives the bus (0003:15-20).  What the channel does between a stop() that
\* could not reset it and the next one that can is not part of the promise.
ImplementsCanIface == Iface!Spec

\* The same promise as an invariant: while can0 is up and listen-only the node
\* is silent, whatever session, bus-off or queue came before (0003:99-113).
SilentWhenListening == ifup /\ listening /\ ~unreset => wire = "quiet"

(***************************************************************************)
(* Why it is silent, as an inductive invariant: CTME can only be written   *)
(* in reset, and every start() either finds the channel in reset or is a   *)
(* restart after a bus-off, which only a transmitting session can reach.   *)
(***************************************************************************)
ResetWhenClosed == ~ifup \/ step \in {"unctme", "flush"} => chmode = "reset"
ModeInForce     == chmode = "oper" => ifup /\ (ctme <=> listening)
HaltIsNormal    == chmode = "halt" => ~ctme /\ ~listening
CtmeWritten     == step = "oper" => (ctme <=> listening)
DrivesOnBus     == wire = "driven" => chmode = "oper" /\ ~ctme
TimingKnown     == ifup \/ step \in Starting => rate # NoRate /\ (FdMode => drate)

ChannelSound ==
  /\ ResetWhenClosed
  /\ ModeInForce
  /\ HaltIsNormal
  /\ CtmeWritten
  /\ DrivesOnBus

\* Timing is set before the channel starts, and after a reset its mode follows
\* from the session: never on the bus in normal mode while listening (0003:99-126).
SilenceInv == TypeOK /\ TimingKnown /\ (unreset \/ ChannelSound)

\* Coming back from a listening session the channel is not left in test mode,
\* where it would look healthy and transmit nothing (0003:122-126).
HeardWhenNotListening ==
  ifup /\ chmode = "oper" /\ ~listening /\ ~unreset => ~ctme

\* An interface that listens holds no frame and no echo skb: neither one taken
\* during the session nor one left by an earlier session (0003:135-145).
ListeningFifoEmpty == ifup /\ listening /\ step = "none" => fifo = 0

\* Its inductive form: frames are queued only by an open, transmitting session.
QueuedOnlyTransmitting == fifo > 0 => ifup /\ ~listening

\* A listening node can never go bus-off, and a bus-off of the session before
\* is not charged to it (0003:103).
ListeningNeverBusOff ==
  ifup /\ listening /\ step = "none" /\ ~unreset => canstate # "busoff"

\* The bus-error interrupt is enabled only in a session that asked for it, also
\* when an earlier session had asked (0003:69-75).
BerrIrqOnlyOnRequest == beie => "berr" \in ctrl

\* Its inductive form: BEIE belongs to a session that is open or opening.
BeieInSession == beie => "berr" \in ctrl /\ (ifup \/ step \in Starting)

\* To a userspace that has not asked a bus error is invisible: by itself it
\* raises no interrupt, and latched beside an enabled flag in one read of CERFL
\* it is not in the report (0003:83-91).
BerrToldOnlyOnRequest ==
  [][ErrorIrq /\ "berr" \notin ctrl => erfl # {"BEF"} /\ "BEF" \notin told']_vars
=============================================================================

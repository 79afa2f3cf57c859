-------------------------- MODULE RcarCanfd_proofs --------------------------
(***************************************************************************)
(* For every set of bit rates, FIFO depth and kind of controller:          *)
(* RcarCanfd is type correct, keeps its books, keeps a listening node      *)
(* silent in every session whose predecessor's stop() reset the channel,   *)
(* and implements CanIface.                                                *)
(***************************************************************************)
EXTENDS RcarCanfd, TLAPS

USE RcarCanfdAssumption DEF RcarCanfdAssumption

-----------------------------------------------------------------------------
LEMMA LinkType == TypeOK /\ [Next]_vars => LinkTypeOK'
  <1> SUFFICES ASSUME LinkTypeOK, [Next]_vars PROVE LinkTypeOK'
    BY DEF TypeOK
  <1> USE DEF LinkTypeOK, linkVars
  <1>1. CASE Rtnl
    BY <1>1 DEF Rtnl, ChangeLink, Open, Close, Restart
  <1>2. CASE Start
    BY <1>2 DEF Start, EnableInterrupts, StartCtme, StartOper
  <1>3. CASE Stop
    BY <1>3 DEF Stop, StopReset, StopResetFails, StopCtme, StopFlush,
                WriteCtme
  <1>4. CASE Xmit \/ ErrorIrq \/ Hardware
    BY <1>4 DEF Xmit, ErrorIrq, Hardware,
                HwSend, HwAnswer, HwQuiet, HwError, HwBusOff
  <1>5. CASE UNCHANGED vars
    BY <1>5 DEF vars
  <1> QED
    BY <1>1, <1>2, <1>3, <1>4, <1>5 DEF Next

LEMMA DriverType == TypeOK /\ [Next]_vars => DriverTypeOK'
  <1> SUFFICES ASSUME DriverTypeOK, erfl \in SUBSET ErrFlags, [Next]_vars
               PROVE  DriverTypeOK'
    BY DEF TypeOK, RegisterTypeOK
  <1> USE DEF DriverTypeOK, drvVars, Starting, Stopping
  <1>1. CASE Rtnl
    BY <1>1 DEF Rtnl, ChangeLink, Open, Close, Restart
  <1>2. CASE Start
    BY <1>2 DEF Start, EnableInterrupts, StartCtme, StartOper
  <1>3. CASE Stop
    BY <1>3 DEF Stop, StopReset, StopResetFails, StopCtme, StopFlush,
                WriteCtme
  <1>4. CASE Xmit
    BY <1>4 DEF Xmit
  <1>5. CASE ErrorIrq
    BY <1>5 DEF ErrorIrq
  <1>6. CASE Hardware
    BY <1>6 DEF Hardware, HwSend, HwAnswer, HwQuiet, HwError, HwBusOff
  <1>7. CASE UNCHANGED vars
    BY <1>7 DEF vars
  <1> QED
    BY <1>1, <1>2, <1>3, <1>4, <1>5, <1>6, <1>7 DEF Next

LEMMA FifoType == TypeOK /\ [Next]_vars => FifoBounded'
  <1> SUFFICES ASSUME FifoBounded, [Next]_vars PROVE FifoBounded'
    BY DEF TypeOK
  <1> USE DEF FifoBounded, drvVars
  <1>1. CASE Rtnl
    BY <1>1 DEF Rtnl, ChangeLink, Open, Close, Restart
  <1>2. CASE Start
    BY <1>2 DEF Start, EnableInterrupts, StartCtme, StartOper
  <1>3. CASE Stop
    BY <1>3 DEF Stop, StopReset, StopResetFails, StopCtme, StopFlush,
                WriteCtme
  <1>4. CASE Xmit
    BY <1>4 DEF Xmit
  <1>5. CASE ErrorIrq
    BY <1>5 DEF ErrorIrq
  <1>6. CASE Hardware
    BY <1>6 DEF Hardware, HwSend, HwAnswer, HwQuiet, HwError, HwBusOff
  <1>7. CASE UNCHANGED vars
    BY <1>7 DEF vars
  <1> QED
    BY <1>1, <1>2, <1>3, <1>4, <1>5, <1>6, <1>7 DEF Next

LEMMA RegisterType == TypeOK /\ [Next]_vars => RegisterTypeOK'
  <1> SUFFICES ASSUME RegisterTypeOK, [Next]_vars PROVE RegisterTypeOK'
    BY DEF TypeOK
  <1> USE DEF RegisterTypeOK, regVars
  <1>1. CASE Rtnl
    BY <1>1 DEF Rtnl, ChangeLink, Open, Close, Restart
  <1>2. CASE EnableInterrupts
    BY <1>2 DEF EnableInterrupts
  <1>3. CASE StartCtme
    BY <1>3 DEF StartCtme, WriteCtme, listening
  <1>4. CASE StartOper
    BY <1>4 DEF StartOper
  <1>5. CASE Stop
    BY <1>5 DEF Stop, StopReset, StopResetFails, StopCtme, StopFlush,
                WriteCtme
  <1>6. CASE Xmit \/ ErrorIrq
    BY <1>6 DEF Xmit, ErrorIrq
  <1>7. CASE Hardware
    BY <1>7 DEF Hardware, HwSend, HwAnswer, HwQuiet, HwError, HwBusOff, ErrFlags
  <1>8. CASE UNCHANGED vars
    BY <1>8 DEF vars
  <1> QED
    BY <1>1, <1>2, <1>3, <1>4, <1>5, <1>6, <1>7, <1>8 DEF Next, Start

LEMMA TypeInit == Init => TypeOK
  <1> SUFFICES ASSUME Init PROVE TypeOK
    OBVIOUS
  <1>1. LinkTypeOK
    BY DEF Init, LinkTypeOK
  <1>2. DriverTypeOK
    BY DEF Init, DriverTypeOK
  <1>3. RegisterTypeOK
    BY DEF Init, RegisterTypeOK
  <1>4. FifoBounded
    BY DEF Init, FifoBounded
  <1> QED
    BY <1>1, <1>2, <1>3, <1>4 DEF TypeOK

LEMMA TypeStep == TypeOK /\ [Next]_vars => TypeOK'
  BY LinkType, DriverType, RegisterType, FifoType DEF TypeOK

\* The variables of RcarCanfd keep their types: in particular the Common FIFO
\* never holds more than FifoDepth frames.
THEOREM TypeCorrect == Spec => []TypeOK
  BY TypeInit, TypeStep, PTL DEF Spec

-----------------------------------------------------------------------------
(***************************************************************************)
(* Queue and interrupt bookkeeping; a failed reset does not disturb it.    *)
(***************************************************************************)
LEMMA QueueInvariant == Spec => []QueuedOnlyTransmitting
<1>1. Init => QueuedOnlyTransmitting
  BY DEF Init, QueuedOnlyTransmitting
<1>2. TypeOK /\ QueuedOnlyTransmitting /\ [Next]_vars => QueuedOnlyTransmitting'
  <2> SUFFICES ASSUME fifo \in 0..FifoDepth, QueuedOnlyTransmitting, [Next]_vars
               PROVE  QueuedOnlyTransmitting'
    BY DEF TypeOK, FifoBounded
  <2> USE DEF QueuedOnlyTransmitting, linkVars, drvVars, listening
  <2>1. CASE Rtnl
    BY <2>1 DEF Rtnl, ChangeLink, Open, Close, Restart
  <2>2. CASE Start
    BY <2>2 DEF Start, EnableInterrupts, StartCtme, StartOper, WriteCtme
  <2>3. CASE Stop
    BY <2>3 DEF Stop, StopReset, StopResetFails, StopCtme, StopFlush, WriteCtme
  <2>4. CASE Xmit
    BY <2>4 DEF Xmit
  <2>5. CASE ErrorIrq
    BY <2>5 DEF ErrorIrq
  <2>6. CASE Hardware
    BY <2>6 DEF Hardware, HwSend, HwAnswer, HwQuiet, HwError, HwBusOff
  <2>7. CASE UNCHANGED vars
    BY <2>7 DEF vars
  <2> QED
    BY <2>1, <2>2, <2>3, <2>4, <2>5, <2>6, <2>7 DEF Next
<1> QED
  BY <1>1, <1>2, TypeCorrect, PTL DEF Spec

\* A listening session holds no frame and no echo skb, neither its own nor an
\* earlier session's (the drop in start_xmit and the flush in stop).
THEOREM ListeningQueueEmpty == Spec => []ListeningFifoEmpty
<1>1. TypeOK /\ QueuedOnlyTransmitting => ListeningFifoEmpty
  BY DEF TypeOK, FifoBounded, QueuedOnlyTransmitting, ListeningFifoEmpty
<1> QED
  BY <1>1, TypeCorrect, QueueInvariant, PTL

LEMMA BeieInvariant == Spec => []BeieInSession
<1>1. Init => BeieInSession
  BY DEF Init, BeieInSession
<1>2. BeieInSession /\ [Next]_vars => BeieInSession'
  <2> SUFFICES ASSUME BeieInSession, [Next]_vars PROVE BeieInSession'
    OBVIOUS
  <2> USE DEF BeieInSession, linkVars, regVars, Starting
  <2>1. CASE Rtnl
    BY <2>1 DEF Rtnl, ChangeLink, Open, Close, Restart
  <2>2. CASE EnableInterrupts
    BY <2>2 DEF EnableInterrupts
  <2>3. CASE StartCtme \/ StartOper
    BY <2>3 DEF StartCtme, StartOper, WriteCtme
  <2>4. CASE Stop
    BY <2>4 DEF Stop, StopReset, StopResetFails, StopCtme, StopFlush, WriteCtme
  <2>5. CASE Xmit \/ ErrorIrq
    BY <2>5 DEF Xmit, ErrorIrq
  <2>6. CASE Hardware
    BY <2>6 DEF Hardware, HwSend, HwAnswer, HwQuiet, HwError, HwBusOff, drvVars
  <2>7. CASE UNCHANGED vars
    BY <2>7 DEF vars, drvVars
  <2> QED
    BY <2>1, <2>2, <2>3, <2>4, <2>5, <2>6, <2>7 DEF Next, Start
<1> QED
  BY <1>1, <1>2, PTL DEF Spec

\* The bus-error interrupt is enabled only in a session that asked for it
\* (enable_channel_interrupts, and the disabling in stop).
THEOREM BerrIrqRequested == Spec => []BerrIrqOnlyOnRequest
<1>1. BeieInSession => BerrIrqOnlyOnRequest
  BY DEF BeieInSession, BerrIrqOnlyOnRequest
<1> QED
  BY <1>1, BeieInvariant, PTL

\* To a session that has not asked a bus error neither raises an interrupt nor
\* shows in a report (0003:83-91).
THEOREM BerrNotTold == Spec => BerrToldOnlyOnRequest
<1>1. BerrIrqOnlyOnRequest /\ ErrorIrq /\ "berr" \notin ctrl =>
        erfl # {"BEF"} /\ "BEF" \notin told'
  BY DEF BerrIrqOnlyOnRequest, ErrorIrq
<1> QED
  BY <1>1, BerrIrqRequested, PTL DEF BerrToldOnlyOnRequest

-----------------------------------------------------------------------------
(***************************************************************************)
(* Silence.  The exception for a stop() that could not reset the channel   *)
(* cannot be dropped: README.md gives the counterexample.                  *)
(***************************************************************************)
LEMMA TimingStep == TimingKnown /\ [Next]_vars => TimingKnown'
  <1> SUFFICES ASSUME TimingKnown, [Next]_vars PROVE TimingKnown'
    OBVIOUS
  <1> USE DEF TimingKnown, Starting, linkVars, drvVars
  <1>1. CASE Rtnl
    BY <1>1 DEF Rtnl, ChangeLink, Open, Close, Restart
  <1>2. CASE Start
    BY <1>2 DEF Start, EnableInterrupts, StartCtme, StartOper, WriteCtme
  <1>3. CASE Stop
    BY <1>3 DEF Stop, StopReset, StopResetFails, StopCtme, StopFlush, WriteCtme
  <1>4. CASE Xmit \/ ErrorIrq
    BY <1>4 DEF Xmit, ErrorIrq
  <1>5. CASE Hardware
    BY <1>5 DEF Hardware, HwSend, HwAnswer, HwQuiet, HwError, HwBusOff, drvVars
  <1>6. CASE UNCHANGED vars
    BY <1>6 DEF vars
  <1> QED
    BY <1>1, <1>2, <1>3, <1>4, <1>5, <1>6 DEF Next

\* A stop() that resets the channel makes it sound, whatever it was before.
LEMMA ResetMakesSound == StopReset => ChannelSound'
  BY DEF StopReset, ChannelSound, ResetWhenClosed, ModeInForce, HaltIsNormal,
         CtmeWritten, DrivesOnBus

\* And any other step but a failing reset leaves a sound channel sound.
LEMMA SoundStep ==
  ASSUME TypeOK, ChannelSound, [Next]_vars, ~StopReset, ~StopResetFails
  PROVE  ChannelSound'
  <1> USE DEF ChannelSound, ResetWhenClosed, ModeInForce, HaltIsNormal,
              CtmeWritten, DrivesOnBus, listening, linkVars, drvVars, regVars
  <1>1. CASE Rtnl
    <2>1. ASSUME NEW r \in Rates, NEW withData \in BOOLEAN,
                 NEW modes \in SUBSET CtrlModes, ChangeLink(r, withData, modes)
          PROVE  ~ifup' /\ chmode' = "reset" /\ step' = "none" /\ wire' # "driven"
      BY <2>1 DEF ChangeLink
    <2>2. CASE \E r \in Rates, withData \in BOOLEAN, modes \in SUBSET CtrlModes :
                 ChangeLink(r, withData, modes)
      BY <2>1, <2>2
    <2>3. CASE Open \/ Close \/ Restart
      BY <2>3 DEF Open, Close, Restart
    <2> QED
      BY <1>1, <2>2, <2>3 DEF Rtnl
  <1>2. CASE EnableInterrupts
    BY <1>2 DEF EnableInterrupts
  <1>3. CASE StartCtme
    BY <1>3 DEF StartCtme, WriteCtme, TypeOK, RegisterTypeOK
  <1>4. CASE StartOper
    BY <1>4 DEF StartOper
  <1>5. CASE StopCtme \/ StopFlush
    BY <1>5 DEF StopCtme, StopFlush, WriteCtme
  <1>6. CASE Xmit \/ ErrorIrq
    BY <1>6 DEF Xmit, ErrorIrq
  <1>7. CASE Hardware
    BY <1>7 DEF Hardware, HwSend, HwAnswer, HwQuiet, HwError, HwBusOff, OnBus
  <1>8. CASE UNCHANGED vars
    BY <1>8 DEF vars
  <1> QED
    BY <1>1, <1>2, <1>3, <1>4, <1>5, <1>6, <1>7, <1>8 DEF Next, Start, Stop

\* Only a stop() that resets the channel ends the exception.
LEMMA UnresetStep ==
  ASSUME [Next]_vars, unreset, ~StopReset
  PROVE  unreset'
  <1> USE DEF drvVars
  <1>1. CASE Rtnl
    BY <1>1 DEF Rtnl, ChangeLink, Open, Close, Restart
  <1>2. CASE Start
    BY <1>2 DEF Start, EnableInterrupts, StartCtme, StartOper, WriteCtme
  <1>3. CASE StopResetFails \/ StopCtme \/ StopFlush
    BY <1>3 DEF StopResetFails, StopCtme, StopFlush, WriteCtme
  <1>4. CASE Xmit \/ ErrorIrq
    BY <1>4 DEF Xmit, ErrorIrq
  <1>5. CASE Hardware
    BY <1>5 DEF Hardware, HwSend, HwAnswer, HwQuiet, HwError, HwBusOff
  <1>6. CASE UNCHANGED vars
    BY <1>6 DEF vars
  <1> QED
    BY <1>1, <1>2, <1>3, <1>4, <1>5, <1>6 DEF Next, Stop

LEMMA SilenceInvariant == Spec => []SilenceInv
<1>1. Init => SilenceInv
  BY TypeInit DEF Init, SilenceInv, ChannelSound, ResetWhenClosed, ModeInForce,
                  HaltIsNormal, CtmeWritten, DrivesOnBus, TimingKnown, Starting
<1>2. SilenceInv /\ [Next]_vars => SilenceInv'
  <2> SUFFICES ASSUME SilenceInv, [Next]_vars
               PROVE  unreset' \/ ChannelSound'
    BY TypeStep, TimingStep DEF SilenceInv
  <2>1. CASE StopReset
    BY <2>1, ResetMakesSound
  <2>2. CASE StopResetFails
    BY <2>2 DEF StopResetFails
  <2>3. CASE ~StopReset /\ ~StopResetFails
    BY <2>3, SoundStep, UnresetStep DEF SilenceInv
  <2> QED
    BY <2>1, <2>2, <2>3
<1> QED
  BY <1>1, <1>2, PTL DEF Spec

\* While can0 is up and listen-only the node never drives the vehicle's bus: no
\* frame, no acknowledge, no error flag, unless the last stop() could not reset
\* the channel (0003:15-20 and 0003:99-113).
THEOREM ListeningIsSilent == Spec => []SilentWhenListening
<1>1. SilenceInv => SilentWhenListening
  BY DEF SilenceInv, TypeOK, RegisterTypeOK, ChannelSound, DrivesOnBus,
         ModeInForce, SilentWhenListening
<1> QED
  BY <1>1, SilenceInvariant, PTL

\* A session that does not listen is never left in test mode by an earlier one
\* that did (0003:122-126).
THEOREM TransmittingIsHeard == Spec => []HeardWhenNotListening
<1>1. SilenceInv => HeardWhenNotListening
  BY DEF SilenceInv, ChannelSound, ModeInForce, HeardWhenNotListening
<1> QED
  BY <1>1, SilenceInvariant, PTL

\* A latched bus-off belongs to a transmitting session that is open, and so does
\* the state it leads to, until the reset in stop() has cleared them.
BusOffTransmits ==
  \/ unreset
  \/ /\ "BOEF" \in erfl => ~listening /\ ifup /\ step \notin {"unctme", "flush"}
     /\ canstate = "busoff" => step \in {"unctme", "flush"} \/ (~listening /\ ifup)

\* The latch is set by a channel that drives the bus, and start() and stop() leave
\* none behind.
LEMMA BusOffStep ==
  SilenceInv /\ BusOffTransmits /\ [Next]_vars => BusOffTransmits'
  <1> SUFFICES ASSUME SilenceInv, BusOffTransmits, [Next]_vars PROVE BusOffTransmits'
    OBVIOUS
  <1> USE DEF BusOffTransmits, listening, linkVars, drvVars, regVars
  <1>1. CASE Rtnl
    BY <1>1 DEF Rtnl, ChangeLink, Open, Close, Restart
  <1>2. CASE Start
    BY <1>2 DEF Start, EnableInterrupts, StartCtme, StartOper, WriteCtme
  <1>3. CASE StopReset \/ StopResetFails \/ StopCtme
    BY <1>3 DEF StopReset, StopResetFails, StopCtme, WriteCtme
  <1>4. CASE StopFlush
    BY <1>4 DEF StopFlush
  <1>5. CASE Xmit \/ ErrorIrq
    BY <1>5 DEF Xmit, ErrorIrq
  <1>6. CASE HwSend \/ HwAnswer \/ HwQuiet \/ \E f \in ErrFlags : HwError(f)
    BY <1>6 DEF HwSend, HwAnswer, HwQuiet, HwError
  <1>7. CASE HwBusOff
    BY <1>7 DEF HwBusOff, OnBus, SilenceInv, ChannelSound, ModeInForce, ResetWhenClosed,
                TypeOK, LinkTypeOK, RegisterTypeOK
  <1>8. CASE UNCHANGED vars
    BY <1>8 DEF vars
  <1> QED
    BY <1>1, <1>2, <1>3, <1>4, <1>5, <1>6, <1>7, <1>8 DEF Next, Stop, Hardware

\* A node that listens never goes bus-off, and no bus-off of an earlier session is
\* charged to it, unless the last stop() could not reset the channel (0003:103).
THEOREM NoBusOffListening == Spec => []ListeningNeverBusOff
<1>1. Init => BusOffTransmits
  BY DEF Init, BusOffTransmits
<1>2. BusOffTransmits => ListeningNeverBusOff
  BY DEF BusOffTransmits, ListeningNeverBusOff
<1> QED
  BY <1>1, <1>2, BusOffStep, SilenceInvariant, PTL DEF Spec

-----------------------------------------------------------------------------
(***************************************************************************)
(* Refinement.  A register write, an interrupt or a hardware event is a    *)
(* stutter of CanIface, except that going operational is its Up, the end   *)
(* of stop() its Down, and whatever the channel puts on the bus its Drive. *)
(***************************************************************************)
LEMMA RefinementInit == Init => Iface!Init
  BY DEF Init, Iface!Init, listening

LEMMA RefinementStep ==
  ASSUME SilenceInv, [Next]_vars
  PROVE  [Iface!Next]_Iface!canVars
  <1> USE DEF linkVars, drvVars, regVars, listening, Iface!canVars
  <1>1. ASSUME NEW r \in Rates, NEW withData \in BOOLEAN,
               NEW modes \in SUBSET CtrlModes, ChangeLink(r, withData, modes)
        PROVE  \E lo \in BOOLEAN : Iface!Configure(r, withData, lo)
    <2>1. CASE "listen" \in modes
      <3>1. Iface!Configure(r, withData, TRUE)
        BY <1>1, <2>1 DEF ChangeLink, Iface!Configure, Iface!Accepts
      <3> QED
        BY <3>1
    <2>2. CASE "listen" \notin modes
      <3>1. Iface!Configure(r, withData, FALSE)
        BY <1>1, <2>2 DEF ChangeLink, Iface!Configure, Iface!Accepts
      <3> QED
        BY <3>1
    <2> QED
      BY <2>1, <2>2
  <1>2. CASE Open \/ Close \/ Restart
    BY <1>2 DEF Open, Close, Restart
  <1>3. CASE EnableInterrupts \/ StartCtme
    BY <1>3 DEF EnableInterrupts, StartCtme, WriteCtme
  <1>4. CASE StartOper
    <2>1. CASE ifup
      BY <1>4, <2>1 DEF StartOper, SilenceInv, TypeOK, LinkTypeOK
    <2>2. CASE ~ifup
      BY <1>4, <2>2 DEF StartOper, SilenceInv, TimingKnown, Starting,
                        Iface!Next, Iface!Up, Iface!CanOpen
    <2> QED
      BY <2>1, <2>2
  <1>5. CASE StopReset
    BY <1>5 DEF StopReset, Iface!Next, Iface!Quiet
  <1>6. CASE StopResetFails \/ StopCtme
    BY <1>6 DEF StopResetFails, StopCtme, WriteCtme, Iface!Next, Iface!Quiet
  <1>7. CASE StopFlush
    <2>1. unreset \/ wire = "quiet"
      BY <1>7 DEF StopFlush, SilenceInv, ChannelSound, ResetWhenClosed,
                  DrivesOnBus, TypeOK, RegisterTypeOK
    <2> QED
      BY <1>7, <2>1 DEF StopFlush, Iface!Next, Iface!Down
  <1>8. CASE Xmit \/ ErrorIrq
    BY <1>8 DEF Xmit, ErrorIrq
  <1>9. CASE HwSend \/ HwAnswer
    <2>1. unreset \/ (ifup /\ ~listening)
      BY <1>9 DEF HwSend, HwAnswer, OnBus, SilenceInv, ChannelSound, ModeInForce
    <2> QED
      BY <1>9, <2>1 DEF HwSend, HwAnswer, Iface!Next, Iface!Drive
  <1>10. CASE HwQuiet \/ HwBusOff
    BY <1>10 DEF HwQuiet, HwBusOff, Iface!Next, Iface!Quiet
  <1>11. CASE \E f \in ErrFlags : HwError(f)
    BY <1>11 DEF HwError
  <1>12. CASE UNCHANGED vars
    BY <1>12 DEF vars
  <1> QED
    BY <1>1, <1>2, <1>3, <1>4, <1>5, <1>6, <1>7, <1>8, <1>9, <1>10, <1>11,
       <1>12 DEF Next, Rtnl, Start, Stop, Hardware, Iface!Next

\* The driver with patch 0003 on this controller is a CanIface: every
\* program that relies on the interface's promise may rely on the driver.
THEOREM DriverImplementsCanIface == Spec => ImplementsCanIface
<1>1. SilenceInv /\ [Next]_vars => [Iface!Next]_Iface!canVars
  BY RefinementStep
<1> QED
  BY <1>1, RefinementInit, SilenceInvariant, PTL
     DEF Spec, ImplementsCanIface, Iface!Spec
=============================================================================

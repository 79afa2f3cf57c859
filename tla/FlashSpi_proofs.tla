--------------------------- MODULE FlashSpi_proofs ---------------------------
(***************************************************************************)
(* What holds of the flash script for any bound on the unread tokens and   *)
(* for any of the faults: no image ever lands where it does not belong,    *)
(* as long as the board is reset before each run.  The writer programs     *)
(* only what it received after taking all three lines of one command, so   *)
(* a lost line stops the transfer instead of misplacing it.                *)
(***************************************************************************)
EXTENDS FlashSpi, SequenceTheorems, TLAPS

USE FlashSpiAssumption DEF FlashSpiAssumption

LEMMA TakenFrom ==
  ASSUME NEW S, NEW q \in Seq(S), NEW n \in 0..Len(q)
  PROVE  SubSeq(q, n + 1, Len(q)) \in Seq(S)
         /\ Len(SubSeq(q, n + 1, Len(q))) = Len(q) - n
  BY LenProperties

LEMMA ReadTypes ==
  ASSUME TypeOK, NEW wanted, Seen(wanted) \/ Unseen(wanted)
  PROVE  rx' \in Seq(Tokens) /\ Len(rx') <= MaxRx
  <1>1. rx \in Seq(Tokens) /\ Len(rx) <= MaxRx /\ Len(rx) \in Nat
    BY DEF TypeOK
  <1>2. CASE Seen(wanted)
    <2>1. PICK n \in 1..Len(rx) : rx' = SubSeq(rx, n + 1, Len(rx))
      BY <1>2 DEF Seen
    <2>2. n \in 0..Len(rx)
      BY <1>1, <2>1
    <2>3. rx' \in Seq(Tokens) /\ Len(rx') = Len(rx) - n
      BY <1>1, <2>1, <2>2, TakenFrom
    <2> QED
      BY <1>1, <2>1, <2>3
  <1>3. CASE Unseen(wanted)
    BY <1>3 DEF Unseen
  <1> QED
    BY <1>2, <1>3

LEMMA SayTypes ==
  ASSUME TypeOK, NEW token \in Tokens, Say(token)
  PROVE  rx' \in Seq(Tokens) /\ Len(rx') <= MaxRx
  BY DEF TypeOK, Say

LEMMA WriteTypes ==
  ASSUME TypeOK, NEW line \in Lines, Write(line)
  PROVE  tx' \in Seq(Lines) /\ Len(tx') = Len(tx) + 1 /\ tx'[Len(tx')] = line
  BY DEF TypeOK, Write

LEMMA TailTypes ==
  ASSUME TypeOK, tx # <<>>
  PROVE  /\ Head(tx) \in Lines /\ Head(tx) = tx[1] /\ Tail(tx) \in Seq(Lines)
         /\ Len(tx) \in Nat \ {0} /\ Len(Tail(tx)) = Len(tx) - 1
         /\ Tail(tx) # <<>> => Tail(tx)[Len(Tail(tx))] = tx[Len(tx)]
  <1>1. tx \in Seq(Lines)
    BY DEF TypeOK
  <1>2. /\ Head(tx) \in Lines /\ Tail(tx) \in Seq(Lines) /\ Len(Tail(tx)) = Len(tx) - 1
        /\ \A i \in 1..Len(Tail(tx)) : Tail(tx)[i] = tx[i + 1]
    BY <1>1, HeadTailProperties
  <1>3. Len(tx) \in Nat \ {0} /\ Head(tx) = tx[1]
    BY <1>1, EmptySeq
  <1>4. ASSUME Tail(tx) # <<>> PROVE Tail(tx)[Len(Tail(tx))] = tx[Len(tx)]
    <2>1. Len(Tail(tx)) \in 1..Len(Tail(tx))
      BY <1>2, <1>4, EmptySeq
    <2> QED
      BY <1>2, <1>3, <2>1
  <1> QED
    BY <1>2, <1>3, <1>4

LEMMA TypesInit == Init => TypeOK
  <1> SUFFICES ASSUME Init PROVE TypeOK
    OBVIOUS
  <1>1. flash \in [Addresses -> {<<"old", "0">>} \cup (Images \X Lines)]
    BY DEF Init
  <1>2. careless \in BOOLEAN
    BY Zenon DEF Init
  <1>3. rx \in Seq(Tokens) /\ Len(rx) <= MaxRx /\ tx \in Seq(Lines)
    BY DEF Init
  <1> QED
    BY <1>1, <1>2, <1>3 DEF Init, TypeOK, Ended, Images, Lines, Addresses

\* The flash writer is never sent by a command of the writer.
ImageInv ==
  /\ pc \in {"xls2", "addr1", "erase", "write"} => image # "writer"
  /\ pc \in {"bootrom", "writer_boot"} => image = "writer"

LEMMA ImageStep == ASSUME TypeOK, ImageInv, [Next]_vars PROVE ImageInv'
  <1>1. CASE Run \/ Host
    BY <1>1 DEF Run, Host, AwaitBootRom, AwaitWriter, AwaitTop, AwaitSave, AwaitErase, XSend,
                XSendFails, AwaitPrompt, TypeOK, ImageInv, Ended, Images
  <1>2. CASE Board \/ LoseLine \/ Reset \/ UNCHANGED vars
    BY <1>2 DEF Board, Ask, WriterStarts, TakeLine, Program, LoseLine, Reset, vars, hostVars,
                ImageInv
  <1> QED
    BY <1>1, <1>2 DEF Next

LEMMA TypesStep == ASSUME TypeOK, ImageInv, [Next]_vars PROVE TypeOK'
  <1> USE DEF hostVars, boardVars
  <1>1. CASE Run
    <2>1. careless' \in BOOLEAN
      BY <1>1, Zenon DEF Run
    <2> QED
      BY <1>1, <2>1 DEF Run, TypeOK, Reading, Images
  <1>2. CASE AwaitBootRom \/ AwaitErase
    <2>1. rx' \in Seq(Tokens) /\ Len(rx') <= MaxRx
      BY <1>2, ReadTypes DEF AwaitBootRom, AwaitErase
    <2> QED
      BY <1>2, <2>1 DEF AwaitBootRom, AwaitErase, TypeOK, Ended
  <1>3. CASE AwaitWriter \/ AwaitPrompt
    <2>1. rx' \in Seq(Tokens) /\ Len(rx') <= MaxRx
      BY <1>3, ReadTypes DEF AwaitWriter, AwaitPrompt
    <2>2. tx' \in Seq(Lines)
      BY <1>3, WriteTypes DEF AwaitWriter, AwaitPrompt, TypeOK, Lines
    <2> QED
      BY <1>3, <2>1, <2>2 DEF AwaitWriter, AwaitPrompt, TypeOK, Ended, Reading, Images
  <1>4. CASE AwaitTop \/ AwaitSave
    <2>1. rx' \in Seq(Tokens) /\ Len(rx') <= MaxRx
      BY <1>4, ReadTypes DEF AwaitTop, AwaitSave
    <2>2. TopOf[image] \in Lines /\ SaveOf[image] \in Lines
      BY <1>4 DEF AwaitTop, AwaitSave, ImageInv, TypeOK, Images, TopOf, SaveOf, Lines, Addresses
    <2>3. tx' \in Seq(Lines)
      BY <1>4, <2>2, WriteTypes DEF AwaitTop, AwaitSave
    <2> QED
      BY <1>4, <2>3, <2>1, <2>2 DEF AwaitTop, AwaitSave, TypeOK, Ended, Reading, Images
  <1>5. CASE XSend
    <2>1. rx' \in Seq(Tokens) /\ Len(rx') <= MaxRx /\ tx' \in Seq(Lines)
      BY <1>5 DEF XSend
    <2> QED
      BY <1>5, <2>1 DEF XSend, TypeOK, Ended, Reading
  <1>13. CASE XSendFails
    <2>1. rx' \in Seq(Tokens) /\ Len(rx') <= MaxRx
      BY <1>13 DEF XSendFails
    <2> QED
      BY <1>13, <2>1 DEF XSendFails, TypeOK, Ended
  <1>6. CASE Ask
    <2>1. rx' \in Seq(Tokens) /\ Len(rx') <= MaxRx
      BY <1>6, SayTypes DEF Ask, Tokens
    <2> QED
      BY <1>6, <2>1 DEF Ask, TypeOK
  <1>7. CASE WriterStarts
    <2>1. rx' \in Seq(Tokens) /\ Len(rx') <= MaxRx
      BY <1>7, SayTypes DEF WriterStarts, Tokens
    <2> QED
      BY <1>7, <2>1 DEF WriterStarts, TypeOK
  <1>8. CASE TakeLine
    <2>1. rx' \in Seq(Tokens) /\ Len(rx') <= MaxRx
      <3>1. rx' = rx \/ Say(">") \/ Say("top") \/ Say("save") \/ Say("send")
        BY <1>8 DEF TakeLine
      <3> QED
        BY <3>1, SayTypes DEF Tokens, TypeOK
    <2>2. tx' \in Seq(Lines) /\ Head(tx) \in Lines
      BY <1>8, TailTypes DEF TakeLine
    <2>3. /\ board' \in {"rom", "booting", "prompt", "top", "save", "ready", "writing"}
          /\ top' \in Lines /\ save' \in Lines
      BY <1>8, <2>2 DEF TakeLine, TypeOK
    <2> QED
      BY <1>8, <2>1, <2>2, <2>3 DEF TakeLine, TypeOK
  <1>9. CASE Program
    <2>1. rx' \in Seq(Tokens) /\ Len(rx') <= MaxRx
      BY <1>9, SayTypes DEF Program, Tokens
    <2>2. flash' \in [Addresses -> {<<"old", "0">>} \cup (Images \X Lines)]
      BY <1>9 DEF Program, TypeOK
    <2> QED
      BY <1>9, <2>1, <2>2 DEF Program, TypeOK
  <1>10. CASE LoseLine
    <2>1. tx' \in Seq(Lines)
      BY <1>10, TailTypes DEF LoseLine
    <2> QED
      BY <1>10, <2>1 DEF LoseLine, TypeOK
  <1>11. CASE Reset
    BY <1>11 DEF Reset, TypeOK
  <1>12. CASE UNCHANGED vars
    BY <1>12 DEF vars, TypeOK
  <1> QED
    BY <1>1, <1>2, <1>3, <1>4, <1>5, <1>6, <1>7, <1>8, <1>9, <1>10, <1>11, <1>12, <1>13
       DEF Next, Host, Board

-----------------------------------------------------------------------------
\* How many lines of a command the script has sent, and how many of them the writer
\* has taken at the very least.
Sent == IF pc = "xls2" THEN 1 ELSE IF pc = "addr1" THEN 2 ELSE 3
Stage == IF board = "top" THEN 1 ELSE IF board = "save" THEN 2
         ELSE IF board = "ready" THEN 3 ELSE 0

InCommand == pc \in {"xls2", "addr1", "erase"} \/ (pc = "send" /\ image # "writer")

\* While the script sends a command, the writer is no further than the lines that are
\* no longer on their way allow, and the last line of all is the address to save to.
CommandInv ==
  InCommand =>
    /\ board # "rom"
    /\ Len(tx) + Stage <= Sent
    /\ pc \in {"erase", "send"} /\ tx # <<>> => tx[Len(tx)] = SaveOf[image]
    /\ board = "ready" => save = SaveOf[image]

\* The boot ROM, while the script is about to send the writer; and between commands
\* nothing is on its way.
PhaseInv ==
  /\ board = "rom" => tx = <<>>
  /\ pc = "bootrom" \/ (pc = "send" /\ image = "writer") => board = "rom"
  /\ pc \in {"writer_boot", "write"} => tx = <<>> /\ Stage = 0 /\ board # "rom"

\* What is being written is where it belongs.
WritingInv == board = "writing" => got # "writer" /\ save = SaveOf[got]

Placed == CommandInv /\ PhaseInv /\ WritingInv
PlaceInv == ~careless => Placed /\ NoMisplacedImage

LEMMA PlaceInit == Init => PlaceInv
  BY DEF Init, PlaceInv, Placed, CommandInv, InCommand, PhaseInv, WritingInv,
         NoMisplacedImage, Addresses

\* The steps of the script.
LEMMA HostStep ==
  ASSUME TypeOK, ImageInv, Placed, Host
  PROVE  Placed'
  <1> USE DEF Placed
  <1>1. CASE AwaitBootRom \/ AwaitErase
    <2>1. Stage' = Stage
      BY <1>1 DEF AwaitBootRom, AwaitErase, boardVars, Stage
    <2> QED
      BY <1>1, <2>1 DEF AwaitBootRom, AwaitErase, boardVars, Sent, CommandInv, InCommand,
                        PhaseInv, WritingInv, ImageInv
  <1>2. CASE AwaitWriter \/ AwaitPrompt
    <2>1. Stage' = Stage
      BY <1>2 DEF AwaitWriter, AwaitPrompt, boardVars, Stage
    <2>2. tx = <<>> /\ Stage = 0 /\ board # "rom"
      BY <1>2 DEF AwaitWriter, AwaitPrompt, PhaseInv
    <2>3. CASE pc' \in Ended
      BY <1>2, <2>1, <2>2, <2>3 DEF AwaitWriter, AwaitPrompt, boardVars, CommandInv, InCommand,
                                    PhaseInv, WritingInv, Ended
    <2>4. CASE pc' = "xls2" /\ Write("XLS2")
      <3>1. Len(tx') = 1
        BY <2>2, <2>4 DEF Write
      <3>2. board # "ready"
        BY <2>2 DEF Stage
      <3> QED
        BY <1>2, <2>1, <2>2, <2>4, <3>1, <3>2
           DEF AwaitWriter, AwaitPrompt, boardVars, Sent, CommandInv, InCommand, PhaseInv,
               WritingInv
    <2> QED
      BY <1>2, <2>3, <2>4 DEF AwaitWriter, AwaitPrompt, Ended
  <1>3. CASE AwaitTop
    <2>1. TopOf[image] \in Lines
      BY <1>3 DEF AwaitTop, ImageInv, TypeOK, Images, TopOf, Lines, Addresses
    <2>2. Len(tx') = Len(tx) + 1 /\ Len(tx) \in Nat
      BY <1>3, <2>1, WriteTypes DEF AwaitTop, TypeOK
    <2>3. Stage' = Stage /\ Stage \in Nat /\ Len(tx) + Stage <= 1 /\ board # "rom"
      <3>1. pc = "xls2" /\ board' = board
        BY <1>3 DEF AwaitTop, boardVars
      <3>2. Sent = 1
        BY <3>1 DEF Sent
      <3>4. InCommand
        BY <3>1 DEF InCommand
      <3>3. Stage' = Stage /\ Stage \in Nat
        BY <3>1 DEF Stage
      <3> QED
        BY <3>2, <3>3, <3>4 DEF CommandInv
    <2>4. board # "ready"
      BY <2>2, <2>3 DEF Stage
    <2> QED
      BY <1>3, <2>2, <2>3, <2>4
         DEF AwaitTop, boardVars, Sent, CommandInv, InCommand, PhaseInv, WritingInv
  <1>4. CASE AwaitSave
    <2>1. SaveOf[image] \in Lines
      BY <1>4 DEF AwaitSave, ImageInv, TypeOK, Images, SaveOf, Lines, Addresses
    <2>2. Len(tx') = Len(tx) + 1 /\ Len(tx) \in Nat /\ tx'[Len(tx')] = SaveOf[image]
      BY <1>4, <2>1, WriteTypes DEF AwaitSave, TypeOK
    <2>3. Stage' = Stage /\ Stage \in Nat /\ Len(tx) + Stage <= 2 /\ board # "rom"
      <3>1. pc = "addr1" /\ board' = board
        BY <1>4 DEF AwaitSave, boardVars
      <3>2. Sent = 2
        BY <3>1 DEF Sent
      <3>4. InCommand
        BY <3>1 DEF InCommand
      <3>3. Stage' = Stage /\ Stage \in Nat
        BY <3>1 DEF Stage
      <3> QED
        BY <3>2, <3>3, <3>4 DEF CommandInv
    <2>4. board # "ready"
      BY <2>2, <2>3 DEF Stage
    <2> QED
      BY <1>4, <2>2, <2>3, <2>4
         DEF AwaitSave, boardVars, Sent, CommandInv, InCommand, PhaseInv, WritingInv
  <1>5. CASE XSend
    <2>1. board \in {"rom", "ready"} /\ pc = "send" /\ tx' = <<>> /\ got' = image
          /\ save' = save /\ image' = image
      BY <1>5 DEF XSend, Receiving
    <2>2. board = "rom" => image = "writer" /\ board' = "booting" /\ pc' = "writer_boot"
      BY <1>5, <2>1 DEF XSend, CommandInv, InCommand
    <2>3. board = "ready" => image # "writer" /\ board' = "writing" /\ pc' = "write"
                             /\ save = SaveOf[image]
      BY <1>5, <2>1 DEF XSend, CommandInv, InCommand, PhaseInv
    <2>4. Stage' = 0 /\ board' # "rom"
      BY <2>1, <2>2, <2>3 DEF Stage
    <2> QED
      BY <2>1, <2>2, <2>3, <2>4 DEF CommandInv, InCommand, PhaseInv, WritingInv
  <1>6. CASE XSendFails
    BY <1>6 DEF XSendFails, boardVars, CommandInv, InCommand, PhaseInv, WritingInv
  <1> QED
    BY <1>1, <1>2, <1>3, <1>4, <1>5, <1>6 DEF Host

\* The steps of the board and of the line.
LEMMA TakeStep == ASSUME TypeOK, ImageInv, Placed, TakeLine PROVE Placed'
  <1> USE DEF Placed
  <1>1. /\ tx # <<>> /\ tx' = Tail(tx) /\ Len(tx) \in Nat \ {0} /\ Len(tx') = Len(tx) - 1
        /\ Head(tx) = tx[1] /\ (tx' # <<>> => tx'[Len(tx')] = tx[Len(tx)])
    BY TailTypes DEF TakeLine
  <1>2. UNCHANGED <<pc, image, got>>
    BY DEF TakeLine, hostVars
  <1>3. board # "rom" /\ board' # "rom" /\ (board' = "writing" => board = "writing")
        /\ (board # "save" => save' = save)
    BY <1>1 DEF TakeLine, PhaseInv
  <1>4. Stage' <= Stage + 1 /\ Stage \in Nat /\ Stage' \in Nat /\ (Stage' = 3 => Stage = 2 \/ Stage = 3)
    BY DEF TakeLine, Stage
  <1>5. pc \notin {"writer_boot", "write"}
    BY <1>1 DEF PhaseInv
  <1>6. ASSUME InCommand PROVE Len(tx') + Stage' <= Sent'
    BY <1>1, <1>2, <1>4, <1>6 DEF CommandInv, Sent
  <1>7. ASSUME InCommand, board' = "ready" PROVE save' = SaveOf[image]
    <2>1. CASE board = "save"
      <3>1. Len(tx) + 2 <= Sent /\ Stage = 2
        BY <1>7, <2>1 DEF CommandInv, Stage
      <3>2. Len(tx) = 1 /\ Sent = 3
        BY <1>1, <3>1 DEF Sent
      <3>3. pc \in {"erase", "send"}
        BY <1>7, <3>2 DEF Sent, InCommand
      <3>4. tx[Len(tx)] = SaveOf[image]
        BY <1>1, <1>7, <3>3 DEF CommandInv
      <3>5. save' = Head(tx)
        BY <2>1 DEF TakeLine
      <3> QED
        BY <1>1, <3>2, <3>4, <3>5
    <2>2. CASE board = "ready"
      BY <1>3, <1>7, <2>2 DEF CommandInv
    <2> QED
      BY <1>7, <2>1, <2>2 DEF TakeLine
  <1>8. board = "writing" => save' = save
    BY <1>3
  <1>9. PhaseInv'
    BY <1>2, <1>3, <1>5, <1>1 DEF PhaseInv
  <1>10. WritingInv'
    BY <1>2, <1>3, <1>8 DEF WritingInv
  <1>11. CommandInv'
    BY <1>1, <1>2, <1>3, <1>6, <1>7 DEF CommandInv, InCommand
  <1> QED
    BY <1>9, <1>10, <1>11

LEMMA OtherStep ==
  ASSUME TypeOK, ImageInv, Placed, Ask \/ WriterStarts \/ Program \/ LoseLine \/ Reset
  PROVE  Placed'
  <1> USE DEF Placed
  <1>1. CASE Ask
    BY <1>1 DEF Ask, hostVars, boardVars, CommandInv, InCommand, PhaseInv, WritingInv, Stage, Sent
  <1>2. CASE WriterStarts
    BY <1>2 DEF WriterStarts, hostVars, CommandInv, InCommand, PhaseInv, WritingInv, Stage, Sent
  <1>3. CASE Program
    BY <1>3 DEF Program, hostVars, CommandInv, InCommand, PhaseInv, WritingInv, Stage, Sent
  <1>4. CASE LoseLine
    <2>1. /\ Len(tx) \in Nat \ {0} /\ Len(tx') = Len(tx) - 1 /\ tx # <<>>
          /\ (tx' # <<>> => tx'[Len(tx')] = tx[Len(tx)])
      BY <1>4, TailTypes DEF LoseLine
    <2>2. Stage' = Stage /\ Stage \in Nat /\ Sent' = Sent /\ Sent \in Nat
      BY <1>4 DEF LoseLine, hostVars, boardVars, Stage, Sent
    <2>3. UNCHANGED <<hostVars, boardVars>>
      BY <1>4 DEF LoseLine
    <2> QED
      BY <2>1, <2>2, <2>3 DEF hostVars, boardVars, CommandInv, InCommand, PhaseInv, WritingInv
  <1>5. CASE Reset
    BY <1>5 DEF Reset, hostVars, CommandInv, InCommand, PhaseInv, WritingInv, Ended
  <1> QED
    BY <1>1, <1>2, <1>3, <1>4, <1>5

LEMMA PlaceStep == ASSUME TypeOK, ImageInv, PlaceInv, [Next]_vars PROVE PlaceInv'
  <1> SUFFICES ASSUME ~careless' PROVE Placed' /\ NoMisplacedImage'
    BY DEF PlaceInv
  <1>1. CASE Run
    BY <1>1 DEF Run, boardVars, PlaceInv, Placed, CommandInv, InCommand, PhaseInv, WritingInv,
                NoMisplacedImage
  <1>3. CASE Program
    <2>1. Placed /\ NoMisplacedImage
      BY <1>3 DEF PlaceInv, Program, hostVars
    <2>2. got \in {"bl2", "fip"} /\ save = SaveOf[got]
      BY <1>3, <2>1 DEF Program, Placed, WritingInv, TypeOK, Images
    <2>3. flash' = flash \/ flash' = [flash EXCEPT ![save] = <<got, top>>]
      BY <1>3 DEF Program
    <2>4. NoMisplacedImage'
      <3>1. flash["0"][1] \in {"old", "bl2"} /\ flash["20000"][1] \in {"old", "fip"}
        BY <1>3, <2>1 DEF Program, hostVars, NoMisplacedImage
      <3>2. (got = "bl2" /\ save = "0") \/ (got = "fip" /\ save = "20000")
        <4>1. SaveOf["bl2"] = "0" /\ SaveOf["fip"] = "20000"
          BY DEF SaveOf
        <4> QED
          BY <2>2, <4>1
      <3>3. DOMAIN flash = {"0", "20000"}
        BY DEF TypeOK, Addresses
      <3> QED
        BY <2>3, <3>1, <3>2, <3>3 DEF NoMisplacedImage
    <2> QED
      BY <1>3, <2>1, <2>4, OtherStep
  <1>4. CASE Host \/ TakeLine \/ Ask \/ WriterStarts \/ LoseLine \/ Reset \/ UNCHANGED vars
    <2>1. UNCHANGED <<flash, careless>>
      BY <1>4 DEF Host, AwaitBootRom, AwaitWriter, AwaitTop, AwaitSave, AwaitErase,
                  XSend, XSendFails, AwaitPrompt, Ask, WriterStarts, TakeLine, LoseLine, Reset,
                  vars, hostVars, boardVars
    <2>2. Placed /\ NoMisplacedImage
      BY <2>1 DEF PlaceInv
    <2>3. Placed'
      <3>1. CASE UNCHANGED vars
        BY <2>2, <3>1 DEF vars, hostVars, boardVars, Placed, CommandInv, InCommand, PhaseInv,
                          WritingInv, Stage, Sent
      <3> QED
        BY <1>4, <2>2, <3>1, HostStep, TakeStep, OtherStep
    <2> QED
      BY <2>1, <2>2, <2>3 DEF NoMisplacedImage
  <1> QED
    BY <1>1, <1>3, <1>4 DEF Next, Board

Inv == TypeOK /\ ImageInv /\ PlaceInv

LEMMA Invariance == Spec => []Inv
  <1>1. Init => Inv
    BY TypesInit, PlaceInit DEF Init, ImageInv, Inv
  <1>2. Inv /\ [Next]_vars => Inv'
    BY TypesStep, ImageStep, PlaceStep DEF Inv
  <1> QED
    BY <1>1, <1>2, PTL DEF Spec

\* Every variable keeps its type, whatever the board answers and whatever is lost.
THEOREM Typing == Spec => []TypeOK
  BY Invariance, PTL DEF Inv

\* With a board that is reset before each run, the address of a boot image holds that
\* image or what was there before, however the runs end.
THEOREM NoneMisplaced == Spec => []NoMisplacedImage
  <1>1. Inv => NoMisplacedImage
    BY DEF Inv, PlaceInv, NoMisplacedImage
  <1> QED
    BY <1>1, Invariance, PTL

-----------------------------------------------------------------------------
\* The three lines of the command for an image, in the order in which they are sent.
LineOf(n) == CASE n = 1 -> "XLS2" [] n = 2 -> TopOf[image] [] n = 3 -> SaveOf[image]

\* From the first prompt of the writer on, reset or not: if no line was lost, those on
\* their way are the ones the writer waits for, and those it has taken are in place.
\* The writer is at the end of a command only if none was lost.
LinesInv ==
  InCommand =>
    /\ board \in {"prompt", "top", "save", "ready"}
    /\ Len(tx) + Stage <= Sent
    /\ Len(tx) + Stage = Sent =>
         /\ \A i \in 1..Len(tx) : tx[i] = LineOf(Stage + i)
         /\ Stage >= 2 => top = TopOf[image]
    /\ Stage = 3 => save = SaveOf[image]

\* While the script waits for the prompt after a transfer, nothing is to be read before
\* the board is back at its prompt, and what was sent is then in the flash.
InFlash(im) == flash[SaveOf[im]] = <<im, TopOf[im]>>
PromptInv ==
  /\ pc \in {"writer_boot", "write"} =>
       /\ tx = <<>> /\ board \in {"booting", "writing", "prompt"}
       /\ board # "prompt" => rx = <<>>
  /\ pc = "write" =>
       /\ image # "writer" /\ board # "booting"
       /\ board = "writing" => got = image /\ save = SaveOf[image] /\ top = TopOf[image]
       /\ board = "prompt" => InFlash(image)

\* The first image stays while the second one is sent, and both when the script is done.
KeptInv ==
  /\ (InCommand \/ pc = "write") /\ image = "fip" => InFlash("bl2")
  /\ pc = "done" =>
       board \in {"prompt", "rom"} /\ tx = <<>> /\ InFlash("bl2") /\ InFlash("fip")

FlashedInv == LinesInv /\ PromptInv /\ KeptInv

LEMMA FlashedInit == Init => FlashedInv
  BY DEF Init, FlashedInv, LinesInv, InCommand, PromptInv, KeptInv

\* One line more is sent: if none was lost so far, it is the next one of the command.
LEMMA LineSent ==
  ASSUME TypeOK, NEW n \in 1..3, NEW line \in Lines, line = LineOf(n), Write(line),
         Len(tx) + Stage <= n - 1,
         Len(tx) + Stage = n - 1 => \A i \in 1..Len(tx) : tx[i] = LineOf(Stage + i)
  PROVE  /\ Len(tx') = Len(tx) + 1
         /\ Len(tx') + Stage <= n
         /\ Len(tx') + Stage = n => \A i \in 1..Len(tx') : tx'[i] = LineOf(Stage + i)
  <1>1. Len(tx) \in Nat /\ Stage \in Nat /\ tx \in Seq(Lines)
    BY DEF TypeOK, Stage
  <1>2. Len(tx') = Len(tx) + 1 /\ tx'[Len(tx) + 1] = line
        /\ \A i \in 1..Len(tx) : tx'[i] = tx[i]
    BY <1>1 DEF Write
  <1>3. ASSUME Len(tx') + Stage = n, NEW i \in 1..Len(tx') PROVE tx'[i] = LineOf(Stage + i)
    <2>1. CASE i = Len(tx) + 1
      BY <1>1, <1>2, <1>3, <2>1
    <2>2. CASE i \in 1..Len(tx)
      BY <1>1, <1>2, <1>3, <2>2
    <2> QED
      BY <1>1, <1>2, <2>1, <2>2
  <1> QED
    BY <1>1, <1>2, <1>3

\* A read that has seen what it wanted found something to read.
LEMMA SeenSome == ASSUME TypeOK, NEW wanted, Seen(wanted) PROVE rx # <<>>
  BY DEF Seen, TypeOK

\* The steps of the script.  It leaves the board as it is, and goes on after a transfer
\* only when the board is back at its prompt.
LEMMA HostFlashed ==
  ASSUME TypeOK, ImageInv, FlashedInv, Host
  PROVE  FlashedInv'
  <1> USE DEF FlashedInv
  <1>1. ASSUME pc' \in {"send", "failed"}, image = "writer" \/ pc' = "failed", image' = image
        PROVE  FlashedInv'
    BY <1>1 DEF LinesInv, InCommand, PromptInv, KeptInv
  <1>2. CASE AwaitBootRom \/ XSendFails
    BY <1>1, <1>2 DEF AwaitBootRom, XSendFails, ImageInv
  <1>3. CASE AwaitErase
    <2>1. UNCHANGED <<image, tx, board, top, save, got, flash>> /\ pc = "erase" /\ pc' = "send"
      BY <1>3 DEF AwaitErase, boardVars
    <2>2. InCommand /\ Sent = 3 /\ Sent' = 3 /\ Stage' = Stage
      BY <2>1 DEF InCommand, Sent, Stage
    <2>3. LinesInv'
      BY <2>1, <2>2 DEF LinesInv, LineOf
    <2>4. PromptInv' /\ KeptInv'
      BY <2>1, <2>2 DEF PromptInv, KeptInv, InFlash
    <2> QED
      BY <2>3, <2>4
  <1>4. CASE AwaitWriter \/ AwaitPrompt
    <2>1. UNCHANGED boardVars /\ pc \in {"writer_boot", "write"} /\ tx = <<>>
      BY <1>4 DEF AwaitWriter, AwaitPrompt, PromptInv
    <2>2. CASE Unseen({">"}) /\ pc' = "failed"
      BY <2>1, <2>2 DEF LinesInv, InCommand, PromptInv, KeptInv
    <2>3. CASE Seen({">"})
      <3>1. board = "prompt" /\ board' = "prompt" /\ flash' = flash
        BY <2>1, <2>3, SeenSome DEF PromptInv, boardVars
      <3>2. pc = "write" => InFlash(image)
        BY <3>1 DEF PromptInv
      <3>3. CASE pc' = "xls2" /\ Write("XLS2") /\ (image' = "bl2" \/ (image' = "fip" /\ image = "bl2" /\ pc = "write"))
        <4>1. Len(tx') = 1 /\ tx'[1] = "XLS2" /\ Stage' = 0 /\ Sent' = 1
          BY <2>1, <3>1, <3>3 DEF Write, Stage, Sent
        <4>2. LinesInv'
          BY <3>1, <4>1 DEF LinesInv, LineOf
        <4>3. image' = "fip" => InFlash("bl2")
          BY <3>2, <3>3
        <4> QED
          BY <3>1, <3>3, <4>2, <4>3 DEF PromptInv, KeptInv, InFlash
      <3>4. CASE pc' = "done" /\ UNCHANGED <<image, tx>> /\ pc = "write" /\ image # "bl2"
        <4>1. image = "fip"
          BY <3>4 DEF PromptInv, TypeOK, Images
        <4>2. InFlash("fip") /\ InFlash("bl2")
          BY <3>2, <3>4, <4>1 DEF KeptInv
        <4> QED
          BY <2>1, <3>1, <3>4, <4>2 DEF LinesInv, InCommand, PromptInv, KeptInv, InFlash
      <3>5. Unseen({">"}) => FALSE
        BY <2>3 DEF Seen, Unseen, Matches, TypeOK
      <3> QED
        BY <1>4, <3>3, <3>4, <3>5 DEF AwaitWriter, AwaitPrompt
    <2> QED
      BY <1>4, <2>2, <2>3 DEF AwaitWriter, AwaitPrompt
  <1>5. CASE AwaitTop \/ AwaitSave
    <2>1. UNCHANGED <<image, board, top, save, got, flash>>
      BY <1>5 DEF AwaitTop, AwaitSave, boardVars
    <2>2. PICK n \in {2, 3} : /\ n = 2 => pc = "xls2" /\ pc' = "addr1" /\ Write(TopOf[image])
                              /\ n = 3 => pc = "addr1" /\ pc' = "erase" /\ Write(SaveOf[image])
      BY <1>5 DEF AwaitTop, AwaitSave
    <2>9. Write(LineOf(n)) /\ LineOf(n) \in {TopOf[image], SaveOf[image]}
      BY <2>2 DEF LineOf
    <2>10. image \in {"bl2", "fip"}
      BY <2>2 DEF ImageInv, TypeOK, Images
    <2>3. LineOf(n) \in Lines
      BY <2>9, <2>10 DEF TopOf, SaveOf, Lines, Addresses
    <2>4. InCommand /\ Sent = n - 1 /\ Sent' = n /\ Stage' = Stage /\ InCommand'
      <3>1. Stage' = Stage
        BY <2>1 DEF Stage
      <3> QED
        BY <2>2, <3>1 DEF InCommand, Sent
    <2>5. /\ Len(tx') + Stage <= n /\ Len(tx') = Len(tx) + 1
          /\ Len(tx') + Stage = n => \A i \in 1..Len(tx') : tx'[i] = LineOf(Stage + i)
      BY <2>3, <2>4, <2>9, LineSent DEF LinesInv
    <2>6. Len(tx) \in Nat /\ Stage \in Nat
      BY DEF TypeOK, Stage
    <2>7. LinesInv'
      BY <2>1, <2>4, <2>5, <2>6 DEF LinesInv, LineOf
    <2>8. PromptInv' /\ KeptInv'
      <3>1. pc' \notin {"writer_boot", "write", "done"}
        BY <2>2
      <3> QED
        BY <2>1, <2>4, <3>1 DEF PromptInv, KeptInv, InFlash
    <2> QED
      BY <2>7, <2>8
  <1>6. CASE XSend
    <2>1. UNCHANGED <<image, top, save, flash>> /\ tx' = <<>> /\ rx' = <<>> /\ got' = image
          /\ pc = "send" /\ pc' \in {"writer_boot", "write"}
          /\ (pc' = "write" <=> image # "writer") /\ board \in {"rom", "ready"}
          /\ board' = IF board = "rom" THEN "booting" ELSE "writing"
      BY <1>6 DEF XSend, Receiving
    <2>2. ~InCommand'
      BY <2>1 DEF InCommand
    <2>3. CASE image = "writer"
      BY <2>1, <2>2, <2>3 DEF LinesInv, PromptInv, KeptInv
    <2>4. CASE image # "writer"
      <3>1. InCommand /\ Sent = 3
        BY <2>1, <2>4 DEF InCommand, Sent
      <3>2. board = "ready" /\ Stage = 3 /\ Len(tx) \in Nat
        BY <2>1, <3>1 DEF LinesInv, Stage, TypeOK
      <3>3. save = SaveOf[image] /\ top = TopOf[image]
        BY <3>1, <3>2 DEF LinesInv
      <3> QED
        BY <2>1, <2>2, <2>4, <3>1, <3>2, <3>3 DEF LinesInv, PromptInv, KeptInv, InFlash
    <2> QED
      BY <2>3, <2>4
  <1> QED
    BY <1>2, <1>3, <1>4, <1>5, <1>6 DEF Host

\* The writer takes a line of the command: the one it waits for, unless one was lost.
LEMMA TakeFlashed ==
  ASSUME TypeOK, ImageInv, FlashedInv, TakeLine
  PROVE  FlashedInv'
  <1> USE DEF FlashedInv
  <1>1. /\ tx # <<>> /\ Len(tx) \in Nat \ {0} /\ Len(tx') = Len(tx) - 1 /\ Head(tx) = tx[1]
        /\ \A i \in 1..Len(tx') : tx'[i] = tx[i + 1]
    <2>1. tx # <<>> /\ tx \in Seq(Lines) /\ tx' = Tail(tx)
      BY DEF TakeLine, TypeOK
    <2> QED
      BY <2>1, TailTypes, HeadTailProperties
  <1>2. UNCHANGED <<pc, image, got, flash, careless>>
    BY DEF TakeLine, hostVars
  <1>3. pc \notin {"writer_boot", "write", "done"}
    BY <1>1 DEF PromptInv, KeptInv
  <1>4. ASSUME InCommand
        PROVE  LinesInv'
    <2> DEFINE full == Len(tx) + Stage = Sent
    <2>1. /\ board \in {"prompt", "top", "save", "ready"} /\ Len(tx) + Stage <= Sent
          /\ full => /\ \A i \in 1..Len(tx) : tx[i] = LineOf(Stage + i)
                     /\ Stage >= 2 => top = TopOf[image]
          /\ Stage = 3 => save = SaveOf[image]
      BY <1>4 DEF LinesInv
    <2>2. Sent' = Sent /\ Sent \in 1..3 /\ Stage \in 0..3
      BY <1>2 DEF Sent, Stage
    <2>3. full => tx[1] = LineOf(Stage + 1)
      BY <1>1, <2>1
    <2>4. board # "ready"
      <3>1. Len(tx) + Stage <= 3 /\ Len(tx) >= 1
        BY <1>1, <2>1, <2>2
      <3> QED
        BY <3>1 DEF Stage
    <2>5. CASE board = "prompt" /\ Head(tx) = "XLS2"
      <3>1. Stage = 0 /\ Stage' = 1 /\ board' = "top"
        BY <2>5 DEF TakeLine, Stage
      <3>2. ASSUME full, NEW i \in 1..Len(tx') PROVE tx'[i] = LineOf(Stage' + i)
        <4>1. i + 1 \in 1..Len(tx) /\ tx'[i] = tx[i + 1]
          BY <1>1
        <4>2. tx[i + 1] = LineOf(Stage + (i + 1))
          BY <2>1, <3>2, <4>1
        <4> QED
          BY <3>1, <4>1, <4>2
      <3> QED
        BY <1>1, <1>2, <2>1, <2>2, <3>1, <3>2 DEF LinesInv, LineOf
    <2>6. CASE board = "prompt" /\ Head(tx) # "XLS2"
      <3>1. Stage = 0 /\ Stage' = 0 /\ board' = "prompt"
        BY <2>6 DEF TakeLine, Stage
      <3>2. ~full
        BY <1>1, <2>3, <2>6, <3>1 DEF LineOf
      <3>3. Len(tx') + Stage' < Sent
        BY <1>1, <2>1, <2>2, <3>1, <3>2
      <3> QED
        BY <1>1, <1>2, <2>2, <3>1, <3>3 DEF LinesInv
    <2>7. CASE board = "top"
      <3>1. Stage = 1 /\ Stage' = 2 /\ board' = "save" /\ top' = tx[1]
        BY <1>1, <2>7 DEF TakeLine, Stage
      <3>2. ASSUME full, NEW i \in 1..Len(tx') PROVE tx'[i] = LineOf(Stage' + i)
        <4>1. i + 1 \in 1..Len(tx) /\ tx'[i] = tx[i + 1]
          BY <1>1
        <4>2. tx[i + 1] = LineOf(Stage + (i + 1))
          BY <2>1, <3>2, <4>1
        <4> QED
          BY <3>1, <4>1, <4>2
      <3>3. full => top' = TopOf[image]
        BY <2>3, <3>1 DEF LineOf
      <3> QED
        BY <1>1, <1>2, <2>1, <2>2, <3>1, <3>2, <3>3 DEF LinesInv, LineOf
    <2>8. CASE board = "save"
      <3>1. Stage = 2 /\ Stage' = 3 /\ board' = "ready" /\ save' = tx[1] /\ top' = top
        BY <1>1, <2>8 DEF TakeLine, Stage
      <3>2. Len(tx) = 1 /\ full /\ Len(tx') = 0
        BY <1>1, <2>1, <2>2, <3>1
      <3>3. save' = SaveOf[image] /\ top' = TopOf[image]
        BY <2>1, <2>3, <3>1, <3>2 DEF LineOf
      <3> QED
        BY <1>2, <2>2, <3>1, <3>2, <3>3 DEF LinesInv
    <2> QED
      BY <2>1, <2>4, <2>5, <2>6, <2>7, <2>8
  <1>5. LinesInv'
    BY <1>2, <1>4 DEF LinesInv, InCommand
  <1>6. PromptInv' /\ KeptInv'
    BY <1>2, <1>3 DEF PromptInv, KeptInv, InCommand, InFlash
  <1> QED
    BY <1>5, <1>6

LEMMA BoardFlashed ==
  ASSUME "write" \notin Faults, TypeOK, ImageInv, FlashedInv,
         Run \/ Ask \/ WriterStarts \/ Program \/ LoseLine \/ Reset
  PROVE  FlashedInv'
  <1> USE DEF FlashedInv
  <1>1. CASE Run
    BY <1>1 DEF Run, boardVars, LinesInv, InCommand, PromptInv, KeptInv
  <1>2. CASE Ask
    <2>1. UNCHANGED <<hostVars, tx, boardVars>> /\ board \in {"rom", "ready"}
      BY <1>2 DEF Ask, Receiving
    <2> QED
      BY <2>1 DEF hostVars, boardVars, LinesInv, InCommand, Stage, Sent, LineOf, PromptInv,
                  KeptInv, InFlash
  <1>3. CASE WriterStarts
    <2>1. UNCHANGED <<hostVars, tx, top, save, got, flash>> /\ board = "booting"
          /\ board' = "prompt"
      BY <1>3 DEF WriterStarts
    <2>2. ~InCommand /\ pc # "write" /\ pc # "done"
      BY <2>1 DEF LinesInv, PromptInv, KeptInv
    <2> QED
      BY <2>1, <2>2 DEF hostVars, LinesInv, InCommand, PromptInv, KeptInv
  <1>4. CASE Program
    <2>1. UNCHANGED <<hostVars, tx, top, save, got>> /\ board = "writing" /\ board' = "prompt"
      BY <1>4 DEF Program
    <2>2. ~InCommand /\ pc # "done"
      BY <2>1 DEF LinesInv, KeptInv
    <2>3. CASE pc # "write"
      BY <2>1, <2>2, <2>3 DEF hostVars, LinesInv, InCommand, PromptInv, KeptInv
    <2>4. CASE pc = "write"
      <3>1. image \in {"bl2", "fip"} /\ got = image /\ save = SaveOf[image]
            /\ top = TopOf[image]
        BY <2>1, <2>4 DEF PromptInv, TypeOK, Images
      <3>2. SaveOf["bl2"] = "0" /\ SaveOf["fip"] = "20000"
        BY DEF SaveOf
      <3>3. flash' = [flash EXCEPT ![save] = <<got, top>>] /\ DOMAIN flash = {"0", "20000"}
        BY <1>4, <3>1, <3>2 DEF Program, Addresses, TypeOK
      <3>4. InFlash(image)'
        BY <2>1, <3>1, <3>2, <3>3 DEF hostVars, InFlash
      <3>5. image = "fip" => InFlash("bl2")'
        BY <2>4, <3>1, <3>2, <3>3 DEF KeptInv, InFlash
      <3> QED
        BY <2>1, <2>2, <2>4, <3>1, <3>4, <3>5
           DEF hostVars, LinesInv, InCommand, PromptInv, KeptInv
    <2> QED
      BY <2>3, <2>4
  <1>5. CASE LoseLine
    <2>1. tx # <<>> /\ Len(tx) \in Nat \ {0} /\ Len(tx') = Len(tx) - 1
      BY <1>5, TailTypes DEF LoseLine
    <2>2. UNCHANGED <<hostVars, rx, boardVars>>
      BY <1>5 DEF LoseLine
    <2>3. pc \notin {"writer_boot", "write", "done"}
      BY <2>1 DEF PromptInv, KeptInv
    <2>4. Sent' = Sent /\ Stage' = Stage /\ Sent \in Nat /\ Stage \in Nat
      BY <2>2 DEF hostVars, boardVars, Sent, Stage
    <2>5. Len(tx) + Stage <= Sent => Len(tx') + Stage' < Sent'
      BY <2>1, <2>4
    <2>6. LinesInv'
      BY <2>2, <2>4, <2>5 DEF hostVars, boardVars, LinesInv, InCommand
    <2>7. PromptInv' /\ KeptInv'
      BY <2>2, <2>3 DEF hostVars, boardVars, PromptInv, KeptInv, InCommand, InFlash
    <2> QED
      BY <2>6, <2>7
  <1>6. CASE Reset
    BY <1>6 DEF Reset, hostVars, Ended, LinesInv, InCommand, PromptInv, KeptInv, InFlash
  <1> QED
    BY <1>1, <1>2, <1>3, <1>4, <1>5, <1>6

LEMMA FlashedStep ==
  ASSUME "write" \notin Faults, TypeOK, ImageInv, FlashedInv, [Next]_vars
  PROVE  FlashedInv'
  <1>1. CASE UNCHANGED vars
    BY <1>1 DEF vars, hostVars, boardVars, FlashedInv, LinesInv, InCommand, Stage, Sent,
                LineOf, PromptInv, KeptInv, InFlash
  <1> QED
    BY <1>1, HostFlashed, TakeFlashed, BoardFlashed DEF Next, Board

\* If the writer programs what it says it has programmed, the script says it is done only
\* when both images are in place, each with its load address: whatever lines are lost,
\* whatever transfer breaks off, and even if the board was not reset before the run.
THEOREM Flashed == "write" \notin Faults => (Spec => []DoneMeansFlashed)
  <1> SUFFICES ASSUME "write" \notin Faults PROVE Spec => []DoneMeansFlashed
    OBVIOUS
  <1>1. FlashedInv => DoneMeansFlashed
    BY DEF FlashedInv, KeptInv, InFlash, SaveOf, TopOf, DoneMeansFlashed
  <1>2. Inv /\ FlashedInv /\ [Next]_vars => FlashedInv'
    BY FlashedStep DEF Inv
  <1>3. Spec => []FlashedInv
    BY <1>2, FlashedInit, Invariance, PTL DEF Spec
  <1> QED
    BY <1>1, <1>3, PTL
=============================================================================

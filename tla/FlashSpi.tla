------------------------------ MODULE FlashSpi ------------------------------
(***************************************************************************)
(* flash_spi.py writes the two boot images to the board's SPI flash over a *)
(* serial line: it waits for the boot ROM, sends the flash writer by       *)
(* XMODEM, then gives the writer one XLS2 command per image.  The script   *)
(* knows the board only by what it reads: three of its six reads ignore    *)
(* whether the prompt they wait for has come, any 'C' is a request, and    *)
(* the prompt '>' after a transfer is taken for success.                   *)
(*                                                                         *)
(* The board (boot ROM and flash writer) is not in this repository; it is  *)
(* modelled from the conversation the script expects.                      *)
(***************************************************************************)
EXTENDS Naturals, Sequences

CONSTANTS
  MaxRx,     \* bound on the unread tokens the board can have sent
  Faults     \* what may go wrong on the way, see FaultKinds

\* "line":  a line the script writes is lost
\* "xmodem": a transfer breaks off
\* "write": the writer fails to program the flash and returns to its prompt
FaultKinds == {"line", "xmodem", "write"}

ASSUME FlashSpiAssumption ==
  /\ MaxRx \in Nat \ {0}
  /\ Faults \subseteq FaultKinds

VARIABLES
  pc,      \* the call the script is in
  image,   \* what it is sending or about to send: FILES[..]
  rx,      \* tokens from the board that the script has not read
  tx,      \* lines from the script that the board has not read
  board,   \* what the board is doing
  top,     \* the Program Top Address the writer has been given
  save,    \* the Qspi Save Address the writer has been given
  got,     \* the image the board has received
  flash,   \* what the flash holds at each address
  careless \* history: a run began without a reset of the board

hostVars  == <<pc, image, careless>>
boardVars == <<board, top, save, got, flash>>
vars      == <<hostVars, rx, tx, boardVars>>

Images    == {"writer", "bl2", "fip"}
Addresses == {"0", "20000"}          \* where the boot images belong
Lines     == {"XLS2", "11E00"} \cup Addresses
Tokens    == {"C", "send", "top", "save", ">"}

\* Wrong variant: the two images swapped.
SaveOf_Swapped == [bl2 |-> "20000", fip |-> "0"]

\* xls2('11E00', '0', BL2) and xls2('0', '20000', FIP)
TopOf  == [bl2 |-> "11E00", fip |-> "0"]
SaveOf == [bl2 |-> "0", fip |-> "20000"]

Reading == {"bootrom", "writer_boot", "xls2", "addr1", "erase", "write"}
Ended   == {"idle", "done", "failed"}

TypeOK ==
  /\ pc \in Ended \cup Reading \cup {"send"}
  /\ image \in Images
  /\ rx \in Seq(Tokens) /\ Len(rx) <= MaxRx
  /\ tx \in Seq(Lines)
  /\ board \in {"rom", "booting", "prompt", "top", "save", "ready", "writing"}
  /\ top \in Lines /\ save \in Lines
  /\ got \in Images
  /\ flash \in [Addresses -> {<<"old", "0">>} \cup (Images \X Lines)]
  /\ careless \in BOOLEAN

Init ==
  /\ pc = "idle" /\ image = "writer"
  /\ rx = <<>> /\ tx = <<>>
  /\ board = "rom" /\ top = "0" /\ save = "0" /\ got = "writer"
  /\ flash = [a \in Addresses |-> <<"old", "0">>]
  /\ careless = FALSE

(***************************************************************************)
(* The script.                                                             *)
(***************************************************************************)
\* Opening the port drops what is unread (reset_input_buffer).
Run ==
  /\ pc \in Ended
  /\ careless' = (careless \/ board # "rom")
  /\ pc' = "bootrom" /\ image' = "writer"
  /\ rx' = <<>>
  /\ UNCHANGED <<tx, boardVars>>

(***************************************************************************)
(* read_until: a read takes all there is, so the tokens behind the one     *)
(* that matched may be gone with it.                                       *)
(***************************************************************************)
Matches(wanted, n) == \E i \in 1..n : rx[i] \in wanted

Seen(wanted) ==
  \E n \in 1..Len(rx) : Matches(wanted, n) /\ rx' = SubSeq(rx, n + 1, Len(rx))

Unseen(wanted) ==
  /\ ~Matches(wanted, Len(rx))
  /\ rx' = <<>>

Write(line) == tx' = Append(tx, line)

\* Wrong variant: the wait has no end.
AwaitBootRom_NoTimeout ==
  /\ pc = "bootrom"
  /\ Seen({"C", "send"}) /\ pc' = "send"
  /\ UNCHANGED <<image, careless, tx, boardVars>>

\* Step 1: 120 s for the boot ROM.
AwaitBootRom ==
  /\ pc = "bootrom"
  /\ \/ Seen({"C", "send"}) /\ pc' = "send"
     \/ Unseen({"C", "send"}) /\ pc' = "failed"
  /\ UNCHANGED <<image, careless, tx, boardVars>>

\* 30 s for the writer's prompt; then the first command goes out.
AwaitWriter ==
  /\ pc = "writer_boot"
  /\ \/ Seen({">"}) /\ pc' = "xls2" /\ image' = "bl2" /\ Write("XLS2")
     \/ Unseen({">"}) /\ pc' = "failed" /\ UNCHANGED <<image, tx>>
  /\ UNCHANGED <<careless, boardVars>>

\* The three reads whose result xls2() does not look at.
AwaitTop ==
  /\ pc = "xls2"
  /\ Seen({"top"}) \/ Unseen({"top"})
  /\ Write(TopOf[image])
  /\ pc' = "addr1"
  /\ UNCHANGED <<image, careless, boardVars>>

AwaitSave ==
  /\ pc = "addr1"
  /\ Seen({"save"}) \/ Unseen({"save"})
  /\ Write(SaveOf[image])
  /\ pc' = "erase"
  /\ UNCHANGED <<image, careless, boardVars>>

AwaitErase ==
  /\ pc = "erase"
  /\ Seen({"send", "C"}) \/ Unseen({"send", "C"})
  /\ pc' = "send"
  /\ UNCHANGED <<image, careless, tx, boardVars>>

Receiving == board \in {"rom", "ready"}

\* xsend succeeds only against a board that asks for blocks.
XSend ==
  /\ pc = "send" /\ Receiving
  /\ pc' = IF image = "writer" THEN "writer_boot" ELSE "write"
  /\ rx' = <<>> /\ tx' = <<>>
  /\ got' = image
  /\ board' = IF board = "rom" THEN "booting" ELSE "writing"
  /\ UNCHANGED <<image, careless, top, save, flash>>

\* Wrong variant: the result of xsend() is not looked at.
XSendFails_Ignored ==
  /\ pc = "send"
  /\ ~Receiving \/ "xmodem" \in Faults
  /\ pc' = IF image = "writer" THEN "writer_boot" ELSE "write"
  /\ rx' = <<>>
  /\ UNCHANGED <<image, careless, tx, boardVars>>

XSendFails ==
  /\ pc = "send"
  /\ ~Receiving \/ "xmodem" \in Faults
  /\ pc' = "failed"
  /\ rx' = <<>>
  /\ UNCHANGED <<image, careless, tx, boardVars>>

\* 120 s for the prompt after the transfer: the only test of success.
AwaitPrompt ==
  /\ pc = "write"
  /\ \/ /\ Seen({">"})
        /\ IF image = "bl2"
             THEN pc' = "xls2" /\ image' = "fip" /\ Write("XLS2")
             ELSE pc' = "done" /\ UNCHANGED <<image, tx>>
     \/ Unseen({">"}) /\ pc' = "failed" /\ UNCHANGED <<image, tx>>
  /\ UNCHANGED <<careless, boardVars>>

Host == \/ AwaitBootRom \/ AwaitWriter \/ AwaitTop \/ AwaitSave \/ AwaitErase
        \/ XSend \/ XSendFails \/ AwaitPrompt

(***************************************************************************)
(* The board.                                                              *)
(***************************************************************************)
Say(token) == Len(rx) < MaxRx /\ rx' = Append(rx, token)

\* A receiver asks for the first block again and again.
Ask ==
  /\ Receiving
  /\ Say("C")
  /\ UNCHANGED <<hostVars, tx, boardVars>>

WriterStarts ==
  /\ board = "booting"
  /\ board' = "prompt"
  /\ Say(">")
  /\ UNCHANGED <<hostVars, tx, top, save, got, flash>>

\* The writer takes one line: a command, or the answer to its question.
TakeLine ==
  /\ tx # <<>>
  /\ tx' = Tail(tx)
  /\ \/ /\ board = "prompt" /\ Head(tx) = "XLS2"
        /\ board' = "top" /\ Say("top") /\ UNCHANGED <<top, save>>
     \/ /\ board = "prompt" /\ Head(tx) # "XLS2"
        /\ Say(">") /\ UNCHANGED <<board, top, save>>
     \/ /\ board = "top"
        /\ top' = Head(tx) /\ board' = "save" /\ Say("save") /\ UNCHANGED save
     \/ /\ board = "save"
        /\ save' = Head(tx) /\ board' = "ready" /\ Say("send") /\ UNCHANGED top
     \/ /\ board \notin {"prompt", "top", "save"}
        /\ UNCHANGED <<board, top, save, rx>>
  /\ UNCHANGED <<hostVars, got, flash>>

\* It programs what it has received where it was told to, and prompts again.
Program ==
  /\ board = "writing"
  /\ \/ save \in Addresses /\ flash' = [flash EXCEPT ![save] = <<got, top>>]
     \/ save \notin Addresses /\ UNCHANGED flash
     \/ "write" \in Faults /\ UNCHANGED flash
  /\ board' = "prompt"
  /\ Say(">")
  /\ UNCHANGED <<hostVars, tx, top, save, got>>

Board == Ask \/ WriterStarts \/ TakeLine \/ Program

(***************************************************************************)
(* The line and the operator.                                              *)
(***************************************************************************)
LoseLine ==
  /\ "line" \in Faults
  /\ tx # <<>>
  /\ tx' = Tail(tx)
  /\ UNCHANGED <<hostVars, rx, boardVars>>

\* Reset in SCIF mode: the boot ROM starts over.
Reset ==
  /\ pc \in Ended \cup {"bootrom"}
  /\ board' = "rom" /\ rx' = <<>> /\ tx' = <<>>
  /\ UNCHANGED <<hostVars, top, save, got, flash>>

Next == Run \/ Host \/ Board \/ LoseLine \/ Reset

Spec == Init /\ [][Next]_vars

\* Every call of the script returns: each read has a timeout and XMODEM a limit
\* on its retries.
FairSpec == Spec /\ WF_vars(Host)

-----------------------------------------------------------------------------
(***************************************************************************)
(* Properties.                                                             *)
(***************************************************************************)
\* When the script says FLASH XONG both images are in the flash, each at its
\* address and with its load address (flash_spi.py:111-117).
DoneMeansFlashed ==
  pc = "done" => flash["0"] = <<"bl2", "11E00">> /\ flash["20000"] = <<"fip", "0">>

\* If the board is reset before each run, as the instructions say, the address of
\* a boot image holds that image or what was there before: no other image, and
\* never the flash writer, which is for the boot ROM only (flash_spi.py:8-10).
NoMisplacedImage ==
  ~careless =>
    flash["0"][1] \in {"old", "bl2"} /\ flash["20000"][1] \in {"old", "fip"}

\* A run ends, whatever the board does or leaves undone (flash_spi.py:34-47).
EveryRunEnds == pc \notin Ended ~> pc \in Ended
=============================================================================

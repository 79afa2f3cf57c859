---------------------------- MODULE Boot_proofs ----------------------------
(***************************************************************************)
(* Booting, for any number of runlevels and of Bluetooth shells: what is   *)
(* left of rc's list tells what has been done, so the demo never runs, one *)
(* HUD has the screen to itself, and a halted board shows the logo.        *)
(***************************************************************************)
EXTENDS Boot, SequenceTheorems, TLAPS

USE BootAssumption, OneKiwiBtAssumption DEF BootAssumption, OneKiwiBtAssumption

-----------------------------------------------------------------------------
(***************************************************************************)
(* Bluetooth.                                                              *)
(***************************************************************************)
\* No two shells are past the look for the record and before adding theirs, as long as
\* overlap says so; and then the one there may be has found no record.
RecordInv ==
  /\ ~daemon => spp = 0
  /\ ~overlap =>
       /\ spp <= 1
       /\ \A s \in Starts : job[s] = "add" =>
            spp = 0 /\ \A t \in Starts \ {s} : job[t] # "add"

\* What a shell that has seen the adapter powered, and was not disturbed, has done.
Past(s, flag) ==
  job[s] \in IF flag = "discoverable" THEN {"pairable", "browse", "add", "done"}
                                      ELSE {"browse", "add", "done"}

ShellInv ==
  \A s \in Starts : calm[s] =>
    /\ daemon
    /\ saw[s] =>
         /\ adapter.powered
         /\ \A flag \in {"discoverable", "pairable"} : Past(s, flag) => adapter[flag]
         /\ job[s] = "done" => spp > 0

BtInv == BtTypeOK /\ RecordInv /\ ShellInv

LEMMA BtInvInit == BtInit => BtInv
  <1> SUFFICES ASSUME BtInit PROVE BtInv
    OBVIOUS
  <1>1. BtTypeOK
    <2>1. job \in [Starts -> Steps \cup {"none", "done"}] /\ adapter \in [Flags -> BOOLEAN]
      BY DEF BtInit, AllOff
    <2>2. polled \in [Starts -> 0..Polls] /\ spp \in Nat
      BY DEF BtInit
    <2>3. saw \in [Starts -> BOOLEAN] /\ calm \in [Starts -> BOOLEAN]
      BY Zenon DEF BtInit
    <2>4. daemon \in BOOLEAN /\ overlap \in BOOLEAN
      BY Zenon DEF BtInit
    <2> QED
      BY <2>1, <2>2, <2>3, <2>4 DEF BtTypeOK
  <1>2. RecordInv /\ ShellInv
    BY DEF BtInit, RecordInv, ShellInv
  <1> QED
    BY <1>1, <1>2 DEF BtInv

LEMMA BtTypeStep == ASSUME BtTypeOK, BtNext \/ UNCHANGED btVars PROVE BtTypeOK'
  <1> USE DEF BtTypeOK, Goto, Steps, AllOff, Flags
  <1>1. ASSUME NEW s \in Starts, Start(s) PROVE BtTypeOK'
    BY <1>1 DEF Start
  <1>2. ASSUME NEW s \in Starts, SeesPower(s) PROVE BtTypeOK'
    BY <1>2 DEF SeesPower
  <1>7. ASSUME NEW s \in Starts, SeesNoPower(s) PROVE BtTypeOK'
    <2>1. polled[s] + 1 \in 0..Polls
      BY <1>7 DEF SeesNoPower
    <2> QED
      BY <1>7, <2>1 DEF SeesNoPower
  <1>3. ASSUME NEW s \in Starts, NEW flag \in {"discoverable", "pairable"},
               NEW next \in Steps, SetFlag(s, flag, next)
        PROVE  BtTypeOK'
    BY <1>3 DEF SetFlag
  <1>4. ASSUME NEW s \in Starts, Browse(s) PROVE BtTypeOK'
    <2>1. overlap' \in BOOLEAN
      BY <1>4, Zenon DEF Browse
    <2>2. job' \in [Starts -> Steps \cup {"none", "done"}]
      BY <1>4 DEF Browse
    <2> QED
      BY <1>4, <2>1, <2>2 DEF Browse
  <1>8. ASSUME NEW s \in Starts, AddRecord(s) PROVE BtTypeOK'
    <2>1. spp' \in Nat
      BY <1>8 DEF AddRecord
    <2>2. job' \in [Starts -> Steps \cup {"none", "done"}]
      BY <1>8 DEF AddRecord
    <2> QED
      BY <1>8, <2>1, <2>2 DEF AddRecord
  <1>5. CASE BtWorld
    <2>1. overlap' \in BOOLEAN /\ daemon' \in BOOLEAN
      BY <1>5, Zenon DEF BtWorld, DaemonStarts, DaemonStops, AdapterPowers, AdapterPulled
    <2>2. adapter' \in [Flags -> BOOLEAN]
      <3>1. CASE DaemonStarts
        BY <3>1 DEF DaemonStarts
      <3>2. CASE DaemonStops
        BY <3>2 DEF DaemonStops
      <3>3. CASE AdapterPowers
        BY <3>3 DEF AdapterPowers
      <3>4. CASE AdapterPulled
        BY <3>4 DEF AdapterPulled
      <3> QED
        BY <1>5, <3>1, <3>2, <3>3, <3>4 DEF BtWorld
    <2>3. saw' \in [Starts -> BOOLEAN] /\ calm' \in [Starts -> BOOLEAN]
      BY <1>5, Zenon
         DEF BtWorld, DaemonStarts, DaemonStops, AdapterPowers, AdapterPulled, Disturbed
    <2>4. job' = job /\ polled' = polled
      BY <1>5, Zenon DEF BtWorld, DaemonStarts, DaemonStops, AdapterPowers, AdapterPulled
    <2>5. spp' = spp \/ spp' = 0
      BY <1>5, Zenon DEF BtWorld, DaemonStarts, DaemonStops, AdapterPowers, AdapterPulled
    <2> QED
      BY <2>1, <2>2, <2>3, <2>4, <2>5
  <1>6. CASE UNCHANGED btVars
    BY <1>6 DEF btVars
  <1> QED
    BY <1>1, <1>2, <1>3, <1>4, <1>5, <1>6, <1>7, <1>8 DEF BtNext, Shell

LEMMA RecordStep ==
  ASSUME BtTypeOK, RecordInv, BtNext \/ UNCHANGED btVars PROVE RecordInv'
  <1> USE DEF BtTypeOK, RecordInv, Goto, Steps
  <1>1. ASSUME NEW s \in Starts, Start(s) \/ SeesPower(s) \/ SeesNoPower(s)
        PROVE  RecordInv'
    BY <1>1 DEF Start, SeesPower, SeesNoPower
  <1>2. ASSUME NEW s \in Starts, NEW flag, NEW next \in {"pairable", "browse"},
               SetFlag(s, flag, next)
        PROVE  RecordInv'
    BY <1>2 DEF SetFlag
  <1>3. ASSUME NEW s \in Starts, Browse(s) PROVE RecordInv'
    <2>1. ~overlap' => ~overlap /\ \A t \in Starts \ {s} : job[t] # "add"
      BY <1>3 DEF Browse
    <2>2. job'[s] = "add" => spp = 0
      BY <1>3 DEF Browse
    <2> QED
      BY <1>3, <2>1, <2>2 DEF Browse
  <1>4. ASSUME NEW s \in Starts, AddRecord(s) PROVE RecordInv'
    BY <1>4 DEF AddRecord
  <1>5. CASE DaemonStops
    BY <1>5 DEF DaemonStops
  <1>6. CASE DaemonStarts \/ AdapterPowers \/ AdapterPulled \/ UNCHANGED btVars
    BY <1>6 DEF DaemonStarts, AdapterPowers, AdapterPulled, btVars
  <1> QED
    BY <1>1, <1>2, <1>3, <1>4, <1>5, <1>6 DEF BtWorld, BtNext, Shell

LEMMA ShellStep ==
  ASSUME BtTypeOK, RecordInv, ShellInv, BtNext \/ UNCHANGED btVars PROVE ShellInv'
  <1> USE DEF BtTypeOK, ShellInv, Past, Goto, Steps, Flags
  <1>1. ASSUME NEW s \in Starts, Start(s) PROVE ShellInv'
    BY <1>1 DEF Start
  <1>2. ASSUME NEW s \in Starts, SeesPower(s) \/ SeesNoPower(s) PROVE ShellInv'
    BY <1>2 DEF SeesPower, SeesNoPower
  <1>3. ASSUME NEW s \in Starts, SetFlag(s, "discoverable", "pairable") PROVE ShellInv'
    BY <1>3 DEF SetFlag
  <1>4. ASSUME NEW s \in Starts, SetFlag(s, "pairable", "browse") PROVE ShellInv'
    BY <1>4 DEF SetFlag
  <1>5. ASSUME NEW s \in Starts, Browse(s) PROVE ShellInv'
    BY <1>5 DEF Browse
  <1>6. ASSUME NEW s \in Starts, AddRecord(s) PROVE ShellInv'
    BY <1>6 DEF AddRecord
  <1>7. CASE BtWorld
    BY <1>7 DEF BtWorld, DaemonStarts, DaemonStops, AdapterPowers, AdapterPulled, Disturbed,
                AllOff
  <1>8. CASE UNCHANGED btVars
    BY <1>8 DEF btVars
  <1> QED
    BY <1>1, <1>2, <1>3, <1>4, <1>5, <1>6, <1>7, <1>8 DEF BtNext, Shell

-----------------------------------------------------------------------------
(***************************************************************************)
(* The scripts.                                                            *)
(***************************************************************************)
C(command) == <<command, Default>>
AllMoved == \A l \in LevelSet : links[l] = "K"

\* rcS still has a move to make for every level that has its S98 link, and it removes
\* the postinst script last.
SplashList ==
  /\ todo \in Seq({"splash", "move", "rm"} \X LevelSet)
  /\ \A l \in LevelSet : links[l] = "S" => \E i \in 1..Len(todo) : todo[i] = <<"move", l>>
  /\ \A i \in 1..Len(todo) : todo[i][1] = "rm" => i = Len(todo)

BootLists == {<<C("bt"), C("hud")>>, <<C("hud")>>, <<C("unbind"), C("launch")>>,
              <<C("launch")>>, <<>>}
SwitchLists == {<<C("kill_demo"), C("logo")>>, <<C("logo")>>, <<>>}
HaltLists == {<<C("kill_hud"), C("kill_demo"), C("logo")>>} \cup SwitchLists
DemoList == <<C("demo")>>

RcInv ==
  /\ level \in LevelSet \cup {"off", "S", "halt"} /\ prev \in LevelSet \cup {"N"}
  /\ links \in [LevelSet -> {"S", "K"}] /\ pending \in BOOLEAN /\ late \in BOOLEAN
  /\ ~pending => AllMoved
  /\ level = "off" => todo = <<>>
  /\ level = "S" => SplashList
  /\ level \in LevelSet \cup {"halt"} => AllMoved
  /\ level \in LevelSet /\ prev = "N" => todo \in BootLists \cup {DemoList}
  /\ level \in LevelSet /\ prev # "N" => todo \in SwitchLists \cup {DemoList}
  /\ level = "halt" => todo \in HaltLists

\* Who has the screen, by what rc has still to do.
ScreenInv ==
  /\ fb0 \in BOOLEAN /\ bound \in BOOLEAN /\ screen \in Drawers
  /\ (demo = TRUE \/ demo = FALSE) /\ huds \in 0..1
  /\ demo = TRUE => huds = 0
  /\ level \in {"off", "S"} => demo = FALSE
  /\ level \in LevelSet /\ todo \in BootLists \ {<<>>} => demo = FALSE
  /\ level \in LevelSet /\ todo = DemoList => huds = 0
  /\ level = "halt" /\ todo \in {<<C("logo")>>, <<>>} => demo = FALSE
  /\ level \in {"off", "S"} => huds = 0
  /\ level \in LevelSet /\ prev = "N" /\ todo # <<>> => huds = 0
  /\ level = "halt" /\ todo \in SwitchLists => huds = 0
  /\ level \in LevelSet /\ todo = <<C("unbind"), C("launch")>> => fb0 = TRUE
  /\ level \in LevelSet /\ todo = <<C("launch")>> => bound = FALSE
  /\ huds = 1 => bound = FALSE
  /\ bound = FALSE => fb0 = TRUE
  /\ level = "halt" /\ todo = <<>> /\ bound = FALSE => screen = "logo"

BootInv == RcInv /\ ScreenInv

LEMMA LevelsApart ==
  /\ "off" \notin LevelSet /\ "S" \notin LevelSet /\ "halt" \notin LevelSet
  /\ "N" \notin LevelSet
  OBVIOUS

LEMMA ListHeads ==
  /\ \A a : <<a>> # <<>> /\ Head(<<a>>) = a /\ Tail(<<a>>) = <<>>
  /\ \A a, b : <<a, b>> # <<>> /\ Head(<<a, b>>) = a /\ Tail(<<a, b>>) = <<b>>
  /\ \A a, b, c : <<a, b, c>> # <<>> /\ Head(<<a, b, c>>) = a /\ Tail(<<a, b, c>>) = <<b, c>>
  OBVIOUS

LEMMA ListSums ==
  ASSUME NEW a, NEW b, NEW c
  PROVE  /\ <<>> \o <<a>> = <<a>> /\ <<a>> \o <<>> = <<a>>
         /\ <<a, b>> \o <<>> = <<a, b>> /\ <<a, b, c>> \o <<>> = <<a, b, c>>
         /\ <<a>> \o <<b>> = <<a, b>> /\ <<a>> \o <<b, c>> = <<a, b, c>>
         /\ <<>> \o <<>> = <<>>
  <1> DEFINE S == {a, b, c}
  <1>1. <<a>> \in Seq(S) /\ <<b>> \in Seq(S) /\ <<a, b>> \in Seq(S) /\ <<b, c>> \in Seq(S)
        /\ <<a, b, c>> \in Seq(S) /\ <<>> \in Seq(S)
    OBVIOUS
  <1> HIDE DEF S
  <1>2. /\ <<>> \o <<a>> = <<a>> /\ <<a>> \o <<>> = <<a>>
        /\ <<a, b>> \o <<>> = <<a, b>> /\ <<a, b, c>> \o <<>> = <<a, b, c>>
        /\ <<>> \o <<>> = <<>>
    BY <1>1, ConcatEmptySeq, Zenon
  <1>3. <<a>> \o <<b>> = <<a, b>>
    <2> DEFINE s == <<a>> \o <<b>>
    <2>1. s \in Seq(S) /\ Len(s) = 2 /\ s[1] = a /\ s[2] = b
      BY <1>1, ConcatProperties
    <2> HIDE DEF s
    <2> DEFINE t == <<a, b>>
    <2>2. t \in Seq(S) /\ Len(s) = Len(t) /\ \A i \in 1..Len(s) : s[i] = t[i]
      BY <1>1, <2>1
    <2> HIDE DEF t
    <2>3. s = t
      BY <2>1, <2>2, SeqEqual
    <2> QED
      BY <2>3 DEF s, t
  <1>4. <<a>> \o <<b, c>> = <<a, b, c>>
    <2> DEFINE s == <<a>> \o <<b, c>>
    <2>1. s \in Seq(S) /\ Len(s) = 3 /\ s[1] = a /\ s[2] = b /\ s[3] = c
      BY <1>1, ConcatProperties
    <2> HIDE DEF s
    <2> DEFINE t == <<a, b, c>>
    <2>2. t \in Seq(S) /\ Len(s) = Len(t) /\ \A i \in 1..Len(s) : s[i] = t[i]
      BY <1>1, <2>1
    <2> HIDE DEF t
    <2>3. s = t
      BY <2>1, <2>2, SeqEqual
    <2> QED
      BY <2>3 DEF s, t
  <1> QED
    BY <1>2, <1>3, <1>4

LEMMA Prepended ==
  ASSUME NEW T, NEW e \in T, NEW s \in Seq(T)
  PROVE  /\ <<e>> \o s \in Seq(T) /\ Len(<<e>> \o s) = Len(s) + 1
         /\ (<<e>> \o s)[1] = e
         /\ \A i \in 1..Len(s) : (<<e>> \o s)[i + 1] = s[i]
  <1>1. <<e>> \in Seq(T) /\ Len(<<e>>) = 1
    OBVIOUS
  <1> QED
    BY <1>1, ConcatProperties

LEMMA PostinstList ==
  ASSUME RcInv, level = "off" PROVE todo' = RcS /\ links' = links => SplashList'
  <1> SUFFICES ASSUME todo' = RcS, links' = links PROVE SplashList'
    OBVIOUS
  <1> DEFINE T == {"splash", "move", "rm"} \X LevelSet
             Moves == [i \in DOMAIN Levels |-> <<"move", Levels[i]>>]
  <1>1. Do("splash") \in Seq(T) /\ Do("rm") \in Seq(T) /\ Len(Do("splash")) = 1
        /\ Len(Do("rm")) = 1 /\ Do("splash")[1] = C("splash") /\ Do("rm")[1] = C("rm")
    BY DEF Do, C
  <1>2. Moves \in Seq(T) /\ Len(Moves) = Len(Levels)
        /\ \A i \in 1..Len(Levels) : Moves[i] = <<"move", Levels[i]>>
    BY DEF LevelSet
  <1> HIDE DEF Moves
  <1>3. CASE pending = TRUE
    <2> DEFINE P == Moves \o Do("rm")
    <2>1. P \in Seq(T) /\ Len(P) = Len(Levels) + 1 /\ P[Len(Levels) + 1] = C("rm")
          /\ \A i \in 1..Len(Levels) : P[i] = <<"move", Levels[i]>>
      BY <1>1, <1>2, ConcatProperties
    <2> HIDE DEF P
    <2>2. todo' = Do("splash") \o P
      BY <1>3 DEF RcS, Postinst, P, Moves
    <2>3. todo' \in Seq(T) /\ Len(todo') = Len(Levels) + 2
          /\ todo'[1] = C("splash") /\ todo'[Len(Levels) + 2] = C("rm")
          /\ \A i \in 1..Len(Levels) : todo'[i + 1] = <<"move", Levels[i]>>
      <3> HIDE DEF T
      <3>1. C("splash") \in T
        BY DEF T, C
      <3>2. todo' = <<C("splash")>> \o P
        BY <2>2 DEF Do, C
      <3>3. /\ todo' \in Seq(T) /\ Len(todo') = Len(P) + 1 /\ todo'[1] = C("splash")
            /\ \A i \in 1..Len(P) : todo'[i + 1] = P[i]
        BY <2>1, <3>1, <3>2, Prepended
      <3> QED
        BY <2>1, <3>3
    <2>4. \A i \in 2..Len(Levels) + 1 : todo'[i] = <<"move", Levels[i - 1]>>
      BY <2>3
    <2>5. ASSUME NEW l \in LevelSet PROVE \E i \in 1..Len(todo') : todo'[i] = <<"move", l>>
      <3>1. PICK i \in 1..Len(Levels) : l = Levels[i]
        BY DEF LevelSet
      <3>2. todo'[i + 1] = <<"move", l>> /\ i + 1 \in 1..Len(todo')
        BY <2>3, <3>1
      <3> QED
        BY <3>2
    <2>6. \A i \in 1..Len(todo') : todo'[i][1] = "rm" => i = Len(todo')
      <3> SUFFICES ASSUME NEW i \in 1..Len(todo'), i # Len(todo') PROVE todo'[i][1] # "rm"
        OBVIOUS
      <3>1. i = 1 \/ i \in 2..Len(Levels) + 1
        BY <2>3
      <3>2. todo'[i] = C("splash") \/ todo'[i] = <<"move", Levels[i - 1]>>
        BY <2>3, <2>4, <3>1
      <3> QED
        BY <3>2 DEF C
    <2> QED
      BY <2>3, <2>5, <2>6 DEF SplashList
  <1>4. CASE pending = FALSE
    <2>1. todo' = Do("splash") \o <<>>
      BY <1>4 DEF RcS
    <2>2. todo' = <<C("splash")>>
      BY <2>1, ListSums DEF Do, C
    <2>3. AllMoved
      BY <1>4 DEF RcInv
    <2> QED
      BY <2>2, <2>3 DEF SplashList, AllMoved, C
  <1> QED
    BY <1>3, <1>4 DEF RcInv

-----------------------------------------------------------------------------
(***************************************************************************)
(* What rc's list is when it runs a command, and what the command leaves.  *)
(***************************************************************************)
\* The list by the command at its head, in the runlevels.
LEMMA ListAt ==
  ASSUME RcInv, NEW command, At(command), level # "S"
  PROVE  /\ level \in LevelSet \cup {"halt"} /\ AllMoved
         /\ command \in {"bt", "hud", "unbind", "launch"} => level \in LevelSet /\ prev = "N"
         /\ command = "bt" => todo = <<C("bt"), C("hud")>>
         /\ command = "hud" => todo = <<C("hud")>>
         /\ command = "unbind" => todo = <<C("unbind"), C("launch")>>
         /\ command = "launch" => todo = <<C("launch")>>
         /\ command = "kill_hud" => level = "halt" /\ todo = <<C("kill_hud"), C("kill_demo"), C("logo")>>
         /\ command = "kill_demo" => prev # "N" \/ level = "halt"
         /\ command = "kill_demo" => todo = <<C("kill_demo"), C("logo")>>
         /\ command = "logo" => todo = <<C("logo")>>
         /\ command = "logo" => prev # "N" \/ level = "halt"
         /\ command = "demo" => level \in LevelSet /\ todo = DemoList
         /\ command \notin {"splash", "move", "rm"}
  <1>1. level # "off" /\ todo # <<>> /\ Head(todo)[1] = command
    BY DEF RcInv, At
  <1>3. level \in LevelSet \cup {"halt"} /\ AllMoved
    BY <1>1 DEF RcInv
  <1>4. CASE level \in LevelSet /\ prev = "N"
    <2>1. todo \in BootLists \cup {DemoList}
      BY <1>4 DEF RcInv
    <2> QED
      BY <1>1, <1>3, <1>4, <2>1, ListHeads, LevelsApart DEF BootLists, DemoList, C
  <1>5. CASE level \in LevelSet /\ prev # "N"
    <2>1. todo \in SwitchLists \cup {DemoList}
      BY <1>5 DEF RcInv
    <2> QED
      BY <1>1, <1>3, <1>5, <2>1, ListHeads, LevelsApart DEF SwitchLists, DemoList, C
  <1>6. CASE level = "halt"
    <2>1. todo \in HaltLists
      BY <1>6 DEF RcInv
    <2> QED
      BY <1>1, <1>3, <1>6, <2>1, ListHeads, LevelsApart DEF HaltLists, SwitchLists, C
  <1> QED
    BY <1>3, <1>4, <1>5, <1>6

\* In rcS only the splash, the links and the removal of the postinst script are left.
LEMMA SplashAt ==
  ASSUME RcInv, NEW command, At(command), level = "S"
  PROVE  /\ command \in {"splash", "move", "rm"}
         /\ command = "rm" => AllMoved
         /\ /\ command # "move" \/ links'[Head(todo)[2]] = "K"
            /\ \A l \in LevelSet : links'[l] = "S" => links[l] = "S"
            /\ todo' = Tail(todo)
            => SplashList'
  <1> DEFINE T == {"splash", "move", "rm"} \X LevelSet
  <1>1. todo \in Seq(T) /\ todo # <<>> /\ Head(todo)[1] = command
    BY DEF RcInv, SplashList, At
  <1>2. /\ Head(todo) \in T /\ Head(todo) = todo[1] /\ Tail(todo) \in Seq(T)
        /\ Len(todo) \in Nat \ {0} /\ Len(Tail(todo)) = Len(todo) - 1
        /\ \A i \in 1..Len(todo) - 1 : Tail(todo)[i] = todo[i + 1]
    <2> HIDE DEF T
    <2>1. /\ Head(todo) \in T /\ Tail(todo) \in Seq(T) /\ Len(Tail(todo)) = Len(todo) - 1
          /\ \A i \in 1..Len(Tail(todo)) : Tail(todo)[i] = todo[i + 1]
      BY <1>1, HeadTailProperties, Zenon
    <2>2. Len(todo) \in Nat \ {0}
      BY <1>1, EmptySeq, LenProperties
    <2>3. Head(todo) = todo[1]
      BY <1>1
    <2> QED
      BY <2>1, <2>2, <2>3
  <1>3. command \in {"splash", "move", "rm"}
    BY <1>1, <1>2
  <1>4. ASSUME command = "rm" PROVE AllMoved
    <2>3. 1 \in 1..Len(todo) /\ todo[1][1] = "rm"
      BY <1>1, <1>2, <1>4
    <2>4. \A i \in 1..Len(todo) : todo[i][1] = "rm" => i = Len(todo)
      BY Zenon DEF RcInv, SplashList
    <2>1. Len(todo) = 1
      BY <2>3, <2>4
    <2>2. ASSUME NEW l \in LevelSet PROVE links[l] = "K"
      <3>1. ~ \E i \in 1..Len(todo) : todo[i] = <<"move", l>>
        BY <1>1, <1>2, <1>4, <2>1
      <3> QED
        BY <3>1 DEF RcInv, SplashList
    <2> QED
      BY <2>2 DEF AllMoved
  <1>5. ASSUME command # "move" \/ links'[Head(todo)[2]] = "K",
               \A l \in LevelSet : links'[l] = "S" => links[l] = "S",
               todo' = Tail(todo)
        PROVE  SplashList'
    <2>1. ASSUME NEW l \in LevelSet, links'[l] = "S"
          PROVE  \E i \in 1..Len(todo') : todo'[i] = <<"move", l>>
      <3>1. PICK i \in 1..Len(todo) : todo[i] = <<"move", l>>
        BY <1>5, <2>1 DEF RcInv, SplashList
      <3>2. i # 1
        BY <1>1, <1>2, <1>5, <2>1, <3>1
      <3>3. i - 1 \in 1..Len(todo') /\ todo'[i - 1] = todo[i]
        BY <1>2, <1>5, <3>2
      <3> QED
        BY <3>1, <3>3
    <2>2. ASSUME NEW i \in 1..Len(todo'), todo'[i][1] = "rm" PROVE i = Len(todo')
      <3>1. i + 1 \in 1..Len(todo) /\ todo[i + 1] = todo'[i]
        BY <1>2, <1>5
      <3>2. i + 1 = Len(todo)
        BY <2>2, <3>1 DEF RcInv, SplashList
      <3>3. Len(todo') = Len(todo) - 1 /\ i \in Nat
        BY <1>2, <1>5
      <3> QED
        BY <3>2, <3>3
    <2>3. todo' \in Seq(T)
      BY <1>2, <1>5
    <2> QED
      BY <2>1, <2>2, <2>3 DEF SplashList
  <1> QED
    BY <1>3, <1>4, <1>5

\* What rc is given to do on entering a runlevel.
LEMMA ListOnEntry ==
  ASSUME RcInv, NEW l \in LevelSet \cup {"halt"}, EnterLevel(l)
  PROVE  /\ AllMoved /\ links' = links
         /\ level = "S" => l \in LevelSet /\ prev' = "N" /\ todo' = <<C("bt"), C("hud")>>
         /\ level # "S" =>
              /\ level \in LevelSet /\ prev' = level
              /\ l \in LevelSet => todo' = <<C("kill_demo"), C("logo")>>
              /\ l = "halt" => todo' = <<C("kill_hud"), C("kill_demo"), C("logo")>>
  <1> USE DEF Do
  <1>1. AllMoved /\ links' = links
    <2>1. todo = <<>> /\ links' = links
      BY DEF EnterLevel
    <2>2. ASSUME level = "S" PROVE AllMoved
      <3>1. \A m \in LevelSet : links[m] = "S" => \E i \in 1..Len(todo) : todo[i] = <<"move", m>>
        BY <2>2, Zenon DEF RcInv, SplashList
      <3>2. 1..Len(todo) = {}
        BY <2>1
      <3> QED
        BY <3>1, <3>2 DEF AllMoved, RcInv
    <2>3. ASSUME level \in LevelSet PROVE AllMoved
      BY <2>3 DEF RcInv
    <2> QED
      BY <2>1, <2>2, <2>3 DEF EnterLevel
  <1>2. ASSUME level = "S"
        PROVE  l \in LevelSet /\ prev' = "N" /\ todo' = <<C("bt"), C("hud")>>
    <2>1. l = Default /\ prev' = "N"
      BY <1>2, LevelsApart, Zenon DEF EnterLevel
    <2>2. links[l] = "K" /\ l # "halt"
      BY <1>1, <2>1, LevelsApart DEF AllMoved
    <2>3. KillScripts(l) = <<>>
      BY <2>1 DEF KillScripts
    <2>4. StartScripts(l) = (<<C("bt")>> \o <<>>) \o <<C("hud")>>
      <3>1. ~Skipped /\ (links[l] = "K" \/ (Skipped /\ links[prev'] = "S"))
        BY <2>1, <2>2 DEF Skipped
      <3> QED
        BY <2>2, <3>1, Zenon DEF StartScripts, C
    <2>5. StartScripts(l) = <<C("bt"), C("hud")>>
      BY <2>4, ListSums
    <2>6. todo' = <<>> \o <<C("bt"), C("hud")>>
      BY <2>3, <2>5 DEF EnterLevel
    <2>7. <<C("bt"), C("hud")>> \in Seq({C("bt"), C("hud")})
      OBVIOUS
    <2>8. todo' = <<C("bt"), C("hud")>>
      BY <2>6, <2>7, ConcatEmptySeq, Zenon
    <2> QED
      BY <2>1, <2>8
  <1>3. ASSUME level # "S"
        PROVE  /\ level \in LevelSet /\ prev' = level
               /\ l \in LevelSet => todo' = <<C("kill_demo"), C("logo")>>
               /\ l = "halt" => todo' = <<C("kill_hud"), C("kill_demo"), C("logo")>>
    <2>1. level \in LevelSet /\ prev' = level /\ prev' # "N"
      BY <1>3, LevelsApart, Zenon DEF EnterLevel
    <2>2. DemoStop = <<C("kill_demo"), C("logo")>>
      BY ListSums DEF DemoStop, C
    <2>3. ASSUME l \in LevelSet PROVE todo' = <<C("kill_demo"), C("logo")>>
      <3>1. links[l] = "K" /\ l # "halt"
        BY <1>1, <2>3, LevelsApart DEF AllMoved
      <3>2. KillScripts(l) = DemoStop
        BY <2>1, <3>1 DEF KillScripts
      <3>3. StartScripts(l) = (<<>> \o <<>>) \o <<>>
        <4>1. Skipped /\ (links[l] = "K" \/ (Skipped /\ links[prev'] = "S"))
          BY <2>1, <3>1 DEF Skipped
        <4> QED
          BY <3>1, <4>1, Zenon DEF StartScripts
      <3>4. StartScripts(l) = <<>>
        BY <3>3, ListSums
      <3>5. todo' = <<C("kill_demo"), C("logo")>> \o <<>>
        BY <2>2, <3>2, <3>4 DEF EnterLevel
      <3> QED
        BY <3>5, ListSums
    <2>4. ASSUME l = "halt" PROVE todo' = <<C("kill_hud"), C("kill_demo"), C("logo")>>
      <3>1. KillScripts(l) = <<C("kill_hud")>> \o <<C("kill_demo"), C("logo")>>
        BY <2>1, <2>2, <2>4, Zenon DEF KillScripts, C
      <3>2. KillScripts(l) = <<C("kill_hud"), C("kill_demo"), C("logo")>>
        BY <3>1, ListSums
      <3>3. StartScripts(l) = <<>>
        BY <2>4 DEF StartScripts
      <3>4. todo' = <<C("kill_hud"), C("kill_demo"), C("logo")>> \o <<>>
        BY <3>2, <3>3 DEF EnterLevel
      <3> QED
        BY <3>4, ListSums
    <2> QED
      BY <2>1, <2>3, <2>4
  <1> QED
    BY <1>1, <1>2, <1>3

-----------------------------------------------------------------------------
LEMMA BootInvInit == Init => BootInv
  <1> SUFFICES ASSUME Init PROVE BootInv
    OBVIOUS
  <1>1. links \in [LevelSet -> {"S", "K"}]
    BY DEF Init
  <1>2. RcInv
    BY <1>1, LevelsApart DEF Init, RcInv
  <1>3. ScreenInv
    <2>1. fb0 = FALSE /\ bound = TRUE /\ demo = FALSE /\ huds = 0 /\ screen = "nobody"
          /\ level = "off" /\ todo = <<>>
      BY DEF Init, FbInit
    <2>2. fb0 \in BOOLEAN /\ bound \in BOOLEAN
      BY <2>1, Zenon
    <2>3. <<>> # <<C("unbind"), C("launch")>> /\ <<>> # <<C("launch")>>
      BY ListHeads
    <2> QED
      BY <2>1, <2>2, <2>3, LevelsApart DEF ScreenInv, Drawers
  <1> QED
    BY <1>2, <1>3 DEF BootInv

\* A command that only takes itself off the list, after and in rcS.
LEMMA ListGoesOn ==
  ASSUME RcInv, NEW command, At(command), level # "S", todo' = Tail(todo),
         UNCHANGED <<level, prev, links, pending>>, late' \in BOOLEAN
  PROVE  RcInv'
  <1>1. /\ level \in LevelSet /\ prev = "N" => todo' \in BootLists
        /\ level \in LevelSet /\ prev # "N" => todo' \in SwitchLists
        /\ level = "halt" => todo' \in HaltLists
    <2> HIDE DEF C
    <2>1. todo # <<>>
      BY DEF At
    <2>2. ASSUME todo \in BootLists PROVE todo' \in BootLists
      <3>1. todo = <<C("bt"), C("hud")>> => todo' = <<C("hud")>>
        BY ListHeads
      <3>2. todo = <<C("unbind"), C("launch")>> => todo' = <<C("launch")>>
        BY ListHeads
      <3>3. todo = <<C("hud")>> \/ todo = <<C("launch")>> => todo' = <<>>
        BY ListHeads
      <3> QED
        BY <2>1, <2>2, <3>1, <3>2, <3>3, Zenon DEF BootLists
    <2>3. ASSUME todo \in SwitchLists PROVE todo' \in SwitchLists
      BY <2>1, <2>3, ListHeads DEF SwitchLists
    <2>5. ASSUME todo = DemoList PROVE todo' \in BootLists \cap SwitchLists
      <3>1. todo' = <<>>
        BY <2>5, ListHeads DEF DemoList
      <3> QED
        BY <3>1 DEF BootLists, SwitchLists
    <2>4. ASSUME todo \in HaltLists PROVE todo' \in HaltLists
      <3>1. todo = <<C("kill_hud"), C("kill_demo"), C("logo")>>
            => todo' = <<C("kill_demo"), C("logo")>>
        BY ListHeads
      <3> QED
        BY <2>3, <2>4, <3>1, Zenon DEF HaltLists, SwitchLists
    <2> QED
      BY <2>2, <2>3, <2>4, <2>5 DEF RcInv
  <1>2. level # "off"
    BY DEF RcInv, At
  <1> QED
    BY <1>1, <1>2 DEF RcInv, AllMoved

LEMMA SplashGoesOn ==
  ASSUME RcInv, NEW command, At(command), level = "S", todo' = Tail(todo),
         UNCHANGED <<level, prev, late>>, pending' \in BOOLEAN, ~pending' => AllMoved',
         links' \in [LevelSet -> {"S", "K"}],
         \A l \in LevelSet : links'[l] = "S" => links[l] = "S",
         command # "move" \/ links'[Head(todo)[2]] = "K"
  PROVE  RcInv'
  <1>1. SplashList'
    BY SplashAt
  <1> QED
    BY <1>1, LevelsApart DEF RcInv

\* hud-init goes on to its own two commands.
LEMMA HudStarts ==
  ASSUME RcInv, HudSeesFb
  PROVE  level \in LevelSet /\ prev = "N" /\ todo' = <<C("unbind"), C("launch")>>
  <1>1. At("hud") /\ todo' = Do("unbind") \o Do("launch") \o Tail(todo)
    BY DEF HudSeesFb, RcGoesOn
  <1>2. level # "S"
    <2> SUFFICES ASSUME level = "S" PROVE FALSE
      OBVIOUS
    <2>1. "hud" \in {"splash", "move", "rm"}
      BY <1>1, SplashAt, Zenon
    <2> QED
      BY <2>1
  <1>3. level \in LevelSet /\ prev = "N" /\ Tail(todo) = <<>>
    BY <1>1, <1>2, ListAt, ListHeads
  <1>4. todo' = <<C("unbind")>> \o <<C("launch")>> \o <<>>
    BY <1>1, <1>3 DEF Do, C
  <1>5. todo' = <<C("unbind"), C("launch")>>
    BY <1>4, ListSums
  <1> QED
    BY <1>3, <1>5

LEMMA RcStep == ASSUME RcInv, [Next]_vars PROVE RcInv'
  <1> USE LevelsApart
  <1>1. CASE PowerOn
    <2>1. SplashList'
      BY <1>1, PostinstList DEF PowerOn
    <2> QED
      BY <1>1, <2>1 DEF PowerOn, RcInv, AllMoved
  <1>2. ASSUME NEW l \in LevelSet \cup {"halt"}, EnterLevel(l) PROVE RcInv'
    <2>1. level' = l /\ UNCHANGED <<links, pending, late>>
      BY <1>2 DEF EnterLevel
    <2> QED
      BY <1>2, <2>1, ListOnEntry DEF RcInv, AllMoved, BootLists, SwitchLists, HaltLists
  <1>3. ASSUME NEW command, At(command), command # "move", RcGoesOn(Tail(todo)) PROVE RcInv'
    <2>1. /\ todo' = Tail(todo) /\ UNCHANGED <<level, prev, links, pending, late>>
          /\ late' \in BOOLEAN /\ pending' \in BOOLEAN /\ links' \in [LevelSet -> {"S", "K"}]
          /\ ~pending' => AllMoved'
      BY <1>3 DEF RcGoesOn, RcInv, AllMoved
    <2>2. CASE level # "S"
      BY <1>3, <2>1, <2>2, ListGoesOn
    <2>3. CASE level = "S"
      BY <1>3, <2>1, <2>3, SplashGoesOn
    <2> QED
      BY <2>2, <2>3
  <1>4. CASE RunSplash \/ RunBt \/ RunDemo \/ HudUnbinds \/ HudLaunches
             \/ RunKillDemo \/ RunLogo \/ RunKillHud
    BY <1>3, <1>4 DEF RunSplash, RunBt, RunDemo, HudUnbinds, HudLaunches, RunKillDemo, RunLogo,
                      RunKillHud
  <1>5. ASSUME NEW l \in LevelSet, MoveLink(l) PROVE RcInv'
    <2>1. At("move") /\ Head(todo)[2] = l /\ todo' = Tail(todo)
          /\ UNCHANGED <<level, prev, pending, late>> /\ links' = [links EXCEPT ![l] = "K"]
      BY <1>5 DEF MoveLink
    <2>2. level = "S"
      BY <2>1, ListAt
    <2>3. links' \in [LevelSet -> {"S", "K"}] /\ links'[l] = "K"
          /\ \A m \in LevelSet : links'[m] = "S" => links[m] = "S"
      BY <2>1 DEF RcInv
    <2>4. pending' \in BOOLEAN /\ (~pending' => AllMoved')
      BY <2>1, <2>3 DEF RcInv, AllMoved
    <2> QED
      BY <2>1, <2>2, <2>3, <2>4, SplashGoesOn
  <1>6. CASE RemovePostinst
    <2>1. At("rm") /\ todo' = Tail(todo) /\ UNCHANGED <<level, prev, links, late>>
          /\ pending' = FALSE
      BY <1>6 DEF RemovePostinst
    <2>2. level = "S"
      BY <2>1, ListAt
    <2>3. AllMoved
      BY <2>1, <2>2, SplashAt
    <2>4. AllMoved' /\ links' \in [LevelSet -> {"S", "K"}] /\ pending' \in BOOLEAN
      BY <2>1, <2>3 DEF RcInv, AllMoved
    <2> QED
      BY <2>1, <2>2, <2>4, SplashGoesOn
  <1>9. CASE HudSeesFb
    <2>1. UNCHANGED <<level, prev, links, pending, late>>
      BY <1>9 DEF HudSeesFb, RcGoesOn
    <2>2. level \in LevelSet /\ prev = "N" /\ todo' \in BootLists
      BY <1>9, HudStarts DEF BootLists
    <2> QED
      BY <2>1, <2>2 DEF RcInv, AllMoved
  <1>10. CASE HudGivesUp
    <2>1. At("hud") /\ UNCHANGED <<level, prev, links, pending>> /\ todo' = Tail(todo)
          /\ late' \in BOOLEAN
      BY <1>10 DEF HudGivesUp
    <2>2. level # "S"
      BY <2>1, SplashAt
    <2> QED
      BY <2>1, <2>2, ListGoesOn
  <1>7. CASE PowerCut
    BY <1>7 DEF PowerCut, RcInv, AllMoved
  <1>8. CASE StartByHand \/ Bt \/ Paint \/ UNCHANGED vars
    BY <1>8 DEF StartByHand, Bt, Paint, vars, rcVars, RcInv, AllMoved, SplashList
  <1>11. CASE DemoByHand
    <2>1. level \in LevelSet /\ todo' = DemoList
          /\ UNCHANGED <<level, prev, links, pending, late>>
      BY <1>11 DEF DemoByHand, Do, DemoList, C
    <2> QED
      BY <2>1 DEF RcInv, AllMoved
  <1> QED
    BY <1>1, <1>2, <1>4, <1>5, <1>6, <1>7, <1>8, <1>9, <1>10, <1>11
       DEF Next, Rc, Telinit

\* rc's lists tell one another apart, and from those that start with the HUD's commands.
LEMMA ListsApart ==
  /\ <<C("bt"), C("hud")>> # <<C("unbind"), C("launch")>>
  /\ <<C("bt"), C("hud")>> # <<C("launch")>> /\ <<C("hud")>> # <<C("launch")>>
  /\ <<>> # <<C("launch")>> /\ <<>> # <<C("unbind"), C("launch")>>
  /\ <<C("kill_hud"), C("kill_demo"), C("logo")>> \notin SwitchLists
  /\ \A list \in HaltLists :
       list # <<C("unbind"), C("launch")>> /\ list # <<C("launch")>>
  /\ \A list \in HaltLists : list # DemoList /\ list \notin BootLists \ {<<>>}
  /\ DemoList \notin BootLists \cup {<<C("logo")>>} /\ DemoList # <<>>
  /\ <<C("kill_demo"), C("logo")>> \notin {<<C("logo")>>, <<>>}
  /\ <<C("kill_hud"), C("kill_demo"), C("logo")>> \notin {<<C("logo")>>, <<>>}
  <1> DEFINE K == <<C("kill_hud"), C("kill_demo"), C("logo")>>
  <1>1. C("bt") # C("unbind") /\ C("hud") # C("launch") /\ C("kill_demo") # C("unbind")
        /\ C("logo") # C("launch")
    BY DEF C
  <1>2. K \notin SwitchLists /\ K # <<C("unbind"), C("launch")>> /\ K # <<C("launch")>>
    BY DEF SwitchLists
  <1>3. /\ <<C("kill_demo"), C("logo")>> # <<C("unbind"), C("launch")>>
        /\ <<C("kill_demo"), C("logo")>> # <<C("launch")>>
        /\ <<C("logo")>> # <<C("launch")>> /\ <<C("logo")>> # <<C("unbind"), C("launch")>>
        /\ <<>> # <<C("launch")>> /\ <<>> # <<C("unbind"), C("launch")>>
    BY <1>1
  <1>4. /\ <<C("bt"), C("hud")>> # <<C("unbind"), C("launch")>>
        /\ <<C("bt"), C("hud")>> # <<C("launch")>> /\ <<C("hud")>> # <<C("launch")>>
    BY <1>1
  <1>5. <<C("kill_demo"), C("logo")>> \notin BootLists \ {<<>>} /\ K \notin BootLists \ {<<>>}
        /\ <<C("logo")>> \notin BootLists \ {<<>>}
    <2>1. C("kill_demo") # C("bt") /\ C("kill_demo") # C("unbind") /\ C("logo") # C("hud")
          /\ C("logo") # C("launch")
      BY DEF C
    <2> HIDE DEF C
    <2> QED
      BY <2>1 DEF BootLists
  <1>8. <<C("kill_demo"), C("logo")>> # DemoList /\ K # DemoList /\ <<C("logo")>> # DemoList
        /\ <<>> # DemoList
    <2>1. C("logo") # C("demo")
      BY DEF C
    <2> HIDE DEF C
    <2> QED
      BY <2>1 DEF DemoList
  <1>9. \A list \in HaltLists : list # DemoList /\ list \notin BootLists \ {<<>>}
    BY <1>5, <1>8, Zenon DEF HaltLists, SwitchLists
  <1>6. /\ DemoList \notin BootLists \cup {<<C("logo")>>} /\ DemoList # <<>>
        /\ <<C("kill_demo"), C("logo")>> \notin {<<C("logo")>>, <<>>}
        /\ K \notin {<<C("logo")>>, <<>>}
    BY DEF DemoList, BootLists, C
  <1> HIDE DEF C
  <1>7. \A list \in HaltLists :
          list # <<C("unbind"), C("launch")>> /\ list # <<C("launch")>>
    BY <1>2, <1>3, Zenon DEF HaltLists, SwitchLists
  <1> QED
    BY <1>2, <1>3, <1>4, <1>6, <1>7, <1>9

LEMMA BootListsApart ==
  /\ <<C("hud")>> # DemoList /\ <<C("unbind"), C("launch")>> # DemoList
  /\ <<C("launch")>> # DemoList /\ <<>> # DemoList
  /\ <<C("hud")>> # <<C("unbind"), C("launch")>> /\ <<>> \notin BootLists \ {<<>>}
  /\ <<C("launch")>> # <<C("unbind"), C("launch")>>
  BY DEF DemoList, C

\* While rc starts the services of the default level, the demo does not run.
LEMMA NoDemoYet ==
  ASSUME ScreenInv, level \in LevelSet,
         \/ todo = <<C("bt"), C("hud")>> \/ todo = <<C("hud")>>
         \/ todo = <<C("unbind"), C("launch")>> \/ todo = <<C("launch")>>
  PROVE  demo = FALSE
  <1> HIDE DEF C
  <1>1. todo \in BootLists
    BY Zenon DEF BootLists
  <1>2. todo # <<>>
    BY ListHeads
  <1> QED
    BY <1>1, <1>2 DEF ScreenInv

\* In rcS, and while the board is off, there is little to say of the screen.
LEMMA ScreenInRcS ==
  ASSUME ScreenInv, level' \in {"off", "S"}, huds' = 0, demo' = FALSE,
         bound' \in BOOLEAN, fb0' \in BOOLEAN, screen' \in Drawers,
         bound' = FALSE => fb0' = TRUE
  PROVE  ScreenInv'
  BY LevelsApart DEF ScreenInv

\* rc runs a command after rcS.
LEMMA ScreenCommand ==
  ASSUME RcInv, ScreenInv, level # "S",
         RunBt \/ RunDemo \/ HudSeesFb \/ HudGivesUp \/ HudUnbinds \/ HudLaunches
               \/ RunKillDemo \/ RunLogo \/ RunKillHud
  PROVE  ScreenInv'
  <1> USE LevelsApart, ListsApart DEF RcGoesOn
  <1>1. CASE RunBt
    <2>1. At("bt") /\ todo' = Tail(todo) /\ UNCHANGED <<level, prev, fbVars>>
      BY <1>1 DEF RunBt
    <2>4. level \in LevelSet /\ prev = "N" /\ todo = <<C("bt"), C("hud")>>
      BY <2>1, ListAt, Zenon
    <2>2. /\ level \in LevelSet /\ prev = "N" /\ todo = <<C("bt"), C("hud")>>
          /\ todo' = <<C("hud")>> /\ todo # <<>>
      BY <2>1, <2>4, ListHeads, Zenon
    <2>3. demo = FALSE
      BY <2>2, NoDemoYet
    <2> QED
      BY <2>1, <2>2, <2>3, BootListsApart DEF ScreenInv, fbVars
  <1>2. CASE RunDemo
    <2>1. level \in LevelSet /\ todo = DemoList /\ todo' = <<>>
          /\ UNCHANGED <<level, prev, fb0, bound, huds, screen>> /\ (demo' = TRUE \/ demo' = FALSE)
      BY <1>2, ListAt, ListHeads DEF RunDemo, DemoStart, DemoList, ScreenInv
    <2> QED
      BY <2>1 DEF ScreenInv
  <1>3. CASE HudSeesFb
    <2>1. At("hud") /\ fb0 = TRUE /\ UNCHANGED <<level, prev, fbVars>>
      BY <1>3 DEF HudSeesFb, ScreenInv
    <2>4. level \in LevelSet /\ prev = "N" /\ todo = <<C("hud")>>
      BY <2>1, ListAt, Zenon
    <2>2. todo # <<>> /\ todo' = <<C("unbind"), C("launch")>>
      BY <1>3, <2>4, HudStarts, ListHeads, Zenon
    <2>3. demo = FALSE
      BY <2>4, NoDemoYet
    <2> QED
      BY <2>1, <2>2, <2>3, <2>4, BootListsApart DEF ScreenInv, fbVars
  <1>4. CASE HudGivesUp
    <2>1. level \in LevelSet /\ todo' = <<>> /\ UNCHANGED <<level, prev, fbVars>>
      BY <1>4, ListAt, ListHeads DEF HudGivesUp
    <2> QED
      BY <2>1, BootListsApart DEF ScreenInv, fbVars
  <1>5. CASE HudUnbinds
    <2>1. At("unbind") /\ todo' = Tail(todo) /\ bound' = FALSE
          /\ UNCHANGED <<level, prev, fb0, demo, huds, screen>>
      BY <1>5 DEF HudUnbinds, UnbindConsole
    <2>4. level \in LevelSet /\ prev = "N" /\ todo = <<C("unbind"), C("launch")>>
      BY <2>1, ListAt, Zenon
    <2>2. /\ level \in LevelSet /\ prev = "N" /\ todo = <<C("unbind"), C("launch")>>
          /\ todo' = <<C("launch")>> /\ todo # <<>>
      BY <2>1, <2>4, ListHeads, Zenon
    <2>3. demo = FALSE /\ fb0 = TRUE
      BY <2>2, NoDemoYet DEF ScreenInv
    <2> QED
      BY <2>1, <2>2, <2>3, BootListsApart DEF ScreenInv
  <1>6. CASE HudLaunches
    <2>1. At("launch") /\ todo' = Tail(todo) /\ huds' = huds + 1
          /\ UNCHANGED <<level, prev, fb0, bound, demo, screen>>
      BY <1>6 DEF HudLaunches, HudLaunch
    <2>4. level \in LevelSet /\ prev = "N" /\ todo = <<C("launch")>>
      BY <2>1, ListAt, Zenon
    <2>2. /\ level \in LevelSet /\ prev = "N" /\ todo = <<C("launch")>> /\ todo' = <<>>
          /\ todo # <<>>
      BY <2>1, <2>4, ListHeads, Zenon
    <2>3. demo = FALSE /\ bound = FALSE /\ huds = 0
      BY <2>2, NoDemoYet DEF ScreenInv
    <2> QED
      BY <2>1, <2>2, <2>3, BootListsApart DEF ScreenInv
  <1>7. CASE RunKillDemo
    <2>1. todo = <<C("kill_demo"), C("logo")>> /\ todo' = <<C("logo")>>
          /\ (prev # "N" \/ level = "halt") /\ demo' = FALSE
          /\ UNCHANGED <<level, prev, fb0, bound, huds, screen>>
      <3>1. At("kill_demo") /\ todo' = Tail(todo) /\ demo' = FALSE
            /\ UNCHANGED <<level, prev, fb0, bound, huds, screen>>
        BY <1>7 DEF RunKillDemo, DemoKill
      <3>2. todo = <<C("kill_demo"), C("logo")>> /\ (prev # "N" \/ level = "halt")
        BY <3>1, ListAt
      <3> QED
        BY <3>1, <3>2, ListHeads
    <2>2. todo \in SwitchLists /\ todo' \in HaltLists
      BY <2>1 DEF SwitchLists, HaltLists
    <2> QED
      BY <2>1, <2>2, ListHeads DEF ScreenInv
  <1>8. CASE RunLogo
    <2>1. todo = <<C("logo")>> /\ todo' = <<>> /\ (prev # "N" \/ level = "halt")
          /\ screen' = (IF fb0 THEN "logo" ELSE screen)
          /\ UNCHANGED <<level, prev, fb0, bound, huds, demo>>
      BY <1>8, ListAt, ListHeads DEF RunLogo, SplashLogo
    <2>2. todo \in SwitchLists
      BY <2>1 DEF SwitchLists
    <2>3. screen' \in Drawers /\ (fb0 = TRUE => screen' = "logo")
      BY <2>1 DEF ScreenInv, Drawers
    <2> QED
      BY <2>1, <2>2, <2>3 DEF ScreenInv
  <1>9. CASE RunKillHud
    <2>1. level = "halt" /\ todo' = <<C("kill_demo"), C("logo")>>
          /\ UNCHANGED <<level, prev, fb0, bound, demo, screen>>
          /\ huds' = IF huds = 0 THEN 0 ELSE huds - 1
      <3>1. At("kill_hud") /\ todo' = Tail(todo)
            /\ UNCHANGED <<level, prev, fb0, bound, demo, screen>>
            /\ huds' = IF huds = 0 THEN 0 ELSE huds - 1
        BY <1>9 DEF RunKillHud, HudKill
      <3>2. level = "halt" /\ todo = <<C("kill_hud"), C("kill_demo"), C("logo")>>
        BY <3>1, ListAt
      <3> QED
        BY <3>1, <3>2, ListHeads
    <2>2. huds' = 0
      BY <2>1 DEF ScreenInv
    <2> QED
      BY <2>1, <2>2, ListHeads DEF ScreenInv
  <1> QED
    BY <1>1, <1>2, <1>3, <1>4, <1>5, <1>6, <1>7, <1>8, <1>9

LEMMA OnlyAfterRcS ==
  ASSUME RcInv,
         RunBt \/ RunDemo \/ HudSeesFb \/ HudGivesUp \/ HudUnbinds \/ HudLaunches
               \/ RunKillDemo \/ RunLogo \/ RunKillHud
  PROVE  level # "S"
  <1> DEFINE Later == {"bt", "demo", "hud", "unbind", "launch", "kill_demo", "logo", "kill_hud"}
  <1>1. PICK command \in Later : At(command)
    BY DEF RunBt, RunDemo, HudSeesFb, HudGivesUp, HudUnbinds, HudLaunches, RunKillDemo, RunLogo,
           RunKillHud
  <1>2. command \notin {"splash", "move", "rm"}
    OBVIOUS
  <1> QED
    BY <1>1, <1>2, SplashAt, Zenon

LEMMA ScreenStep == ASSUME RcInv, ScreenInv, [Next]_vars PROVE ScreenInv'
  <1> USE LevelsApart
  <1>1. CASE PowerOn
    BY <1>1, ScreenInRcS DEF PowerOn, fbVars, ScreenInv
  <1>2. ASSUME NEW l \in LevelSet \cup {"halt"}, EnterLevel(l) PROVE ScreenInv'
    <2>1. level' = l /\ UNCHANGED fbVars
      BY <1>2 DEF EnterLevel
    <2>2. CASE level = "S"
      <3>1. l \in LevelSet /\ todo' = <<C("bt"), C("hud")>>
        BY <1>2, <2>2, ListOnEntry
      <3> QED
        BY <2>1, <2>2, <3>1, ListsApart DEF ScreenInv, fbVars
    <2>3. CASE level # "S"
      <3>1. /\ prev' # "N"
            /\ l \in LevelSet => todo' = <<C("kill_demo"), C("logo")>>
            /\ l = "halt" => todo' = <<C("kill_hud"), C("kill_demo"), C("logo")>>
        BY <1>2, <2>3, ListOnEntry
      <3>2. l \in LevelSet => todo' \in HaltLists
        BY <3>1 DEF HaltLists, SwitchLists
      <3> QED
        BY <2>1, <3>1, <3>2, ListsApart, ListHeads DEF ScreenInv, fbVars
    <2> QED
      BY <2>2, <2>3
  <1>3. CASE RunBt \/ RunDemo \/ HudSeesFb \/ HudGivesUp \/ HudUnbinds \/ HudLaunches
             \/ RunKillDemo \/ RunLogo \/ RunKillHud
    <2>1. level # "S"
      BY <1>3, OnlyAfterRcS
    <2> QED
      BY <1>3, <2>1, ScreenCommand
  <1>7. CASE RunSplash \/ RemovePostinst \/ \E l \in LevelSet : MoveLink(l)
    <2>1. level = "S" /\ level' = level
      BY <1>7, ListAt DEF RunSplash, RemovePostinst, MoveLink, RcGoesOn
    <2>2. UNCHANGED <<fb0, bound, demo, huds>>
          /\ (screen' = "logo" \/ screen' = screen)
      BY <1>7 DEF RunSplash, RemovePostinst, MoveLink, SplashLogo, fbVars
    <2> QED
      BY <2>1, <2>2, ScreenInRcS DEF ScreenInv, Drawers
  <1>4. CASE PowerCut
    BY <1>4, ScreenInRcS DEF PowerCut, Dark, Drawers
  <1>5. CASE StartByHand \/ Bt \/ UNCHANGED vars
    BY <1>5 DEF StartByHand, Bt, vars, rcVars, fbVars, ScreenInv
  <1>8. CASE DemoByHand
    <2>1. level \in LevelSet /\ huds = 0 /\ todo' = DemoList /\ UNCHANGED <<level, prev, fbVars>>
      BY <1>8 DEF DemoByHand, Do, DemoList, C
    <2>2. /\ todo' \notin BootLists \ {<<>>} /\ todo' # <<>>
          /\ todo' # <<C("unbind"), C("launch")>> /\ todo' # <<C("launch")>>
      BY <2>1, ListsApart, BootListsApart, Zenon
    <2> QED
      BY <2>1, <2>2 DEF ScreenInv, fbVars
  <1>6. CASE Paint
    <2>1. UNCHANGED <<rcVars, bound, demo, huds>>
      BY <1>6 DEF Paint, FbAppears, DemoDraws, HudDraws, ConsolePrints, Draw
    <2>2. CASE FbAppears
      BY <2>1, <2>2 DEF FbAppears, ScreenInv, rcVars
    <2>3. CASE DemoDraws
      <3>1. demo = TRUE /\ fb0' = fb0 /\ screen' = "demo"
        BY <2>3 DEF DemoDraws, Draw, ScreenInv
      <3>2. ~(level = "halt" /\ todo = <<>>)
        BY <3>1 DEF ScreenInv
      <3> QED
        BY <2>1, <3>1, <3>2 DEF ScreenInv, rcVars, Drawers
    <2>4. CASE HudDraws
      <3>1. huds = 1 /\ fb0' = fb0 /\ screen' = "hud"
        BY <2>4 DEF HudDraws, Draw, ScreenInv
      <3>2. ~(level = "halt" /\ todo = <<>>)
        BY <3>1 DEF ScreenInv, SwitchLists
      <3> QED
        BY <2>1, <3>1, <3>2 DEF ScreenInv, rcVars, Drawers
    <2>5. CASE ConsolePrints
      BY <2>1, <2>5 DEF ConsolePrints, Draw, ScreenInv, rcVars, Drawers
    <2> QED
      BY <1>6, <2>2, <2>3, <2>4, <2>5 DEF Paint
  <1> QED
    BY <1>1, <1>2, <1>3, <1>4, <1>5, <1>6, <1>7, <1>8 DEF Next, Rc, Telinit

-----------------------------------------------------------------------------
(***************************************************************************)
(* Bluetooth in a board that boots, and the theorems.                      *)
(***************************************************************************)
LEMMA BtInvStep == ASSUME BtInv, [Next]_vars PROVE BtInv'
  <1>1. CASE BtNext \/ UNCHANGED btVars
    BY <1>1, BtTypeStep, RecordStep, ShellStep DEF BtInv
  <1>2. CASE PowerCut
    <2>1. BtInit'
      BY <1>2 DEF PowerCut, BtInit, AllOff
    <2> QED
      BY <2>1, BtInvInit, PTL
  <1>3. CASE RunBt
    <2>1. BootShell \in Starts
      BY DEF BootShell
    <2> QED
      BY <1>1, <1>3, <2>1 DEF RunBt, BtNext
  <1> QED
    BY <1>1, <1>2, <1>3
       DEF Next, vars, PowerOn, Rc, EnterLevel, RunSplash, RemovePostinst, RunDemo, HudSeesFb,
           HudGivesUp, HudUnbinds, HudLaunches, RunKillDemo, RunLogo, RunKillHud, MoveLink,
           Telinit, StartByHand, DemoByHand, Bt, BtNext, Paint, NoBt

Inv == BootInv /\ BtInv

LEMMA Invariance == Spec => []Inv
  <1>1. Init => Inv
    BY BootInvInit, BtInvInit DEF Init, Inv
  <1>2. Inv /\ [Next]_vars => Inv'
    BY RcStep, ScreenStep, BtInvStep DEF Inv, BootInv
  <1> QED
    BY <1>1, <1>2, PTL DEF Spec

\* Every variable keeps its type; rc's list holds commands of the scripts only.
THEOREM Typing == Spec => []TypeOK
  <1>1. Inv => TypeOK
    <2> SUFFICES ASSUME Inv PROVE TypeOK
      OBVIOUS
    <2>1. todo \in Seq(Commands)
      <3>1. CASE level = "off"
        BY <3>1 DEF Inv, BootInv, RcInv
      <3>2. CASE level = "S"
        <4>1. todo \in Seq({"splash", "move", "rm"} \X LevelSet)
          BY <3>2, LevelsApart DEF Inv, BootInv, RcInv, SplashList
        <4> QED
          BY <4>1 DEF Commands
      <3>3. CASE level \in LevelSet \cup {"halt"}
        <4>1. todo \in BootLists \cup HaltLists \cup {DemoList}
          BY <3>3 DEF Inv, BootInv, RcInv, HaltLists
        <4>2. \A name \in {"bt", "hud", "unbind", "launch", "kill_demo", "logo", "kill_hud",
                          "demo"} :
                C(name) \in Commands
          BY DEF C, Commands
        <4> HIDE DEF C
        <4>3. C("bt") \in Commands /\ C("hud") \in Commands /\ C("unbind") \in Commands
              /\ C("launch") \in Commands /\ C("kill_demo") \in Commands
              /\ C("logo") \in Commands /\ C("kill_hud") \in Commands
              /\ C("demo") \in Commands
          BY <4>2
        <4>4. BootLists \subseteq Seq(Commands)
          BY <4>3 DEF BootLists
        <4>5. HaltLists \subseteq Seq(Commands)
          BY <4>3 DEF HaltLists, SwitchLists
        <4>6. DemoList \in Seq(Commands)
          BY <4>3 DEF DemoList
        <4> QED
          BY <4>1, <4>4, <4>5, <4>6
      <3> QED
        BY <3>1, <3>2, <3>3 DEF Inv, BootInv, RcInv
    <2>2. FbTypeOK
      <3>1. fb0 \in BOOLEAN /\ bound \in BOOLEAN /\ screen \in Drawers /\ huds \in 0..1
        BY Zenon DEF Inv, BootInv, ScreenInv
      <3>2. demo \in BOOLEAN
        BY Zenon DEF Inv, BootInv, ScreenInv
      <3>3. huds \in 0..2
        BY <3>1
      <3> QED
        BY <3>1, <3>2, <3>3 DEF FbTypeOK
    <2> QED
      BY <2>1, <2>2 DEF Inv, BootInv, RcInv, BtInv, TypeOK
  <1> QED
    BY <1>1, Invariance, PTL

\* The demo and the HUD never run together: rcS has renamed the demo's link before the
\* first runlevel looks at it, on the first boot and after any cut of power.
THEOREM DemoApart == Spec => []DemoNeverBesideHud
  <1>1. Inv => DemoNeverBesideHud
    BY DEF Inv, BootInv, ScreenInv, DemoNeverBesideHud
  <1> QED
    BY <1>1, Invariance, PTL

\* No kernel message is drawn across a HUD that runs.
THEOREM NoTextAcross == Spec => []NoTextOverHud
  <1>1. Inv => NoTextOverHud
    BY DEF Inv, BootInv, ScreenInv, NoTextOverHud
  <1> QED
    BY <1>1, Invariance, PTL

\* However often the runlevel changes, at most one HUD runs.
THEOREM OneHud == Spec => []OneHudPerBoot
  <1>1. Inv => OneHudPerBoot
    BY DEF Inv, BootInv, ScreenInv, OneHudPerBoot
  <1> QED
    BY <1>1, Invariance, PTL

\* A board that has been halted shows the logo.
THEOREM HaltedShowsLogo == Spec => []IdleLogo
  <1>1. Inv => IdleLogo
    BY DEF Inv, BootInv, ScreenInv, IdleLogo
  <1> QED
    BY <1>1, Invariance, PTL

\* Only shells that overlap register a second SPP record.
THEOREM SecondRecord == Spec => []SecondRecordNeedsOverlap
  <1>1. Inv => SecondRecordNeedsOverlap
    BY DEF Inv, BtInv, BtTypeOK, RecordInv, SecondRecordNeedsOverlap
  <1> QED
    BY <1>1, Invariance, PTL

\* A start that saw the adapter powered leaves the HUD findable.
THEOREM Findable == Spec => []FindableAfterStart
  <1>1. Inv => FindableAfterStart
    BY DEF Inv, BtInv, ShellInv, Past, FindableAfterStart
  <1> QED
    BY <1>1, Invariance, PTL
=============================================================================

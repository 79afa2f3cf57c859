----------------------------- MODULE BootScreen -----------------------------
(***************************************************************************)
(* Who draws on /dev/fb0: the splash logo, the LVGL demo, the HUD and the  *)
(* kernel's text console.  Nothing locks the framebuffer: whoever has it   *)
(* open overwrites what was there.  The module gives what the scripts'     *)
(* commands do to it; Boot says in which order they run.                   *)
(***************************************************************************)
EXTENDS Naturals

VARIABLES
  fb0,      \* /dev/fb0 is there
  bound,    \* the text console is bound to it
  demo,     \* lvgl-v9-demo runs
  huds,     \* processes of hud_app
  screen    \* who drew last

fbVars == <<fb0, bound, demo, huds, screen>>

Drawers == {"nobody", "logo", "demo", "hud", "text"}

FbTypeOK ==
  /\ fb0 \in BOOLEAN /\ bound \in BOOLEAN /\ demo \in BOOLEAN
  /\ huds \in 0..2 /\ screen \in Drawers

\* What a board that has just got power shows.
Dark ==
  /\ fb0' = FALSE /\ bound' = TRUE /\ demo' = FALSE /\ huds' = 0 /\ screen' = "nobody"

FbInit == fb0 = FALSE /\ bound = TRUE /\ demo = FALSE /\ huds = 0 /\ screen = "nobody"

\* splash-logo ends quietly when it cannot open /dev/fb0.
SplashLogo ==
  /\ screen' = IF fb0 THEN "logo" ELSE screen
  /\ UNCHANGED <<fb0, bound, demo, huds>>

\* start-stop-daemon -S -x finds a demo that runs; a demo without /dev/fb0 ends at once.
DemoStart ==
  /\ demo' = (demo \/ fb0)
  /\ UNCHANGED <<fb0, bound, huds, screen>>

DemoKill ==
  /\ demo' = FALSE
  /\ UNCHANGED <<fb0, bound, huds, screen>>

\* for v in vtcon*: echo 0 > bind
UnbindConsole ==
  /\ bound' = FALSE
  /\ UNCHANGED <<fb0, demo, huds, screen>>

\* start-stop-daemon -S -x /bin/sh never matches a HUD that runs.
HudLaunch ==
  /\ huds < 2
  /\ huds' = huds + 1
  /\ UNCHANGED <<fb0, bound, demo, screen>>

HudKill ==
  /\ huds' = IF huds = 0 THEN 0 ELSE huds - 1
  /\ UNCHANGED <<fb0, bound, demo, screen>>

FbAppears ==
  /\ ~fb0 /\ fb0' = TRUE
  /\ UNCHANGED <<bound, demo, huds, screen>>

Draw(who) ==
  /\ fb0 /\ screen # who /\ screen' = who
  /\ UNCHANGED <<fb0, bound, demo, huds>>

DemoDraws == demo /\ Draw("demo")
HudDraws == huds > 0 /\ Draw("hud")
ConsolePrints == bound /\ Draw("text")

\* The demo would keep the HUD from the screen; only the scripts' order and the
\* postinst that renames its links keep the two apart (onekiwi-hud-svc_1.0.bb:52-61).
DemoNeverBesideHud == ~(demo /\ huds > 0)

\* While a HUD runs no kernel message is drawn across it (hud-init:204-213).
NoTextOverHud == huds > 0 => ~bound
=============================================================================

------------------------------ MODULE FlipCopy ------------------------------
(***************************************************************************)
(* How the demo brings its picture to the framebuffer (main.c).  LVGL      *)
(* renders into a full-screen buffer (direct mode) and reports the area    *)
(* that changed; vflip_flush copies it row by row, each to the mirrored    *)
(* row of the framebuffer.  The splash logo is what was there before.      *)
(***************************************************************************)
EXTENDS Integers

CONSTANTS
  DispW, DispH,   \* DISP_W, DISP_H
  Sizes           \* framebuffers: visible rows and pixels per row in memory

ASSUME FlipCopyAssumption ==
  /\ DispW \in Nat \ {0} /\ DispH \in Nat \ {0}
  /\ Sizes \subseteq [yres : Nat \ {0}, stride : Nat \ {0}]

VARIABLES
  fb,         \* the framebuffer's size
  mem,        \* its pixels, from the first mapped one on
  draw_buf,   \* LVGL's buffer: the value of each pixel of the display
  area,       \* what is being flushed
  i,          \* the row it is at
  shown       \* history: the first refresh has been flushed

vars == <<fb, mem, draw_buf, area, i, shown>>

Xs == 0..(DispW - 1)
Ys == 0..(DispH - 1)
Areas == {a \in [x1 : Xs, y1 : Ys, x2 : Xs, y2 : Ys] : a.x1 <= a.x2 /\ a.y1 <= a.y2}
WholeScreen == [x1 |-> 0, y1 |-> 0, x2 |-> DispW - 1, y2 |-> DispH - 1]
NoArea == [x1 |-> 0, y1 |-> 0, x2 |-> -1, y2 |-> -1]

Colours == {"dark", "light"}
Mapped == 0..(fb.stride * fb.yres - 1)

\* fb_init takes any framebuffer of 32 bits; these are the ones the display fits.
Fits(size) == size.yres >= DispH /\ size.stride >= DispW

Height(a) == a.y2 - a.y1 + 1
InArea(a, x, y) == x \in a.x1..a.x2 /\ y \in a.y1..a.y2

\* Where row y of the display goes, and where pixel (x, y) of it goes.
\* Wrong variant: the row after.
RowAt_Below(y) == fb.yres - y

RowAt(y) == fb.yres - 1 - y
PixelAt(x, y) == RowAt(y) * fb.stride + x

TypeOK ==
  /\ fb \in Sizes
  /\ draw_buf \in [Xs \X Ys -> Colours]
  /\ area \in Areas \cup {NoArea}
  /\ i \in 0..Height(area)
  /\ shown \in BOOLEAN

\* fb_init; the logo is on the screen.
Init ==
  /\ fb \in {s \in Sizes : Fits(s)}
  /\ mem = [p \in 0..(fb.stride * fb.yres - 1) |-> "logo"]
  /\ draw_buf = [p \in Xs \X Ys |-> "dark"]
  /\ area = NoArea /\ i = 0 /\ shown = FALSE

Idle == area = NoArea

\* lv_timer_handler: the first refresh takes the whole screen, later ones the area
\* whose pixels have changed.
Render(a) ==
  /\ Idle
  /\ shown \/ a = WholeScreen
  /\ \E c \in Colours :
       draw_buf' = [p \in Xs \X Ys |-> IF InArea(a, p[1], p[2]) THEN c ELSE draw_buf[p]]
  /\ area' = a /\ i' = 0
  /\ UNCHANGED <<fb, mem, shown>>

\* The memcpy of one row: the framebuffer's pixels it writes and what it writes.
Written(y) == PixelAt(area.x1, y)..PixelAt(area.x2, y)
Source(p, y) == draw_buf[<<p - PixelAt(0, y), y>>]

CopyRow ==
  /\ ~Idle /\ i < Height(area)
  /\ LET y == area.y1 + i
     IN  mem' = [p \in DOMAIN mem |-> IF p \in Written(y) THEN Source(p, y) ELSE mem[p]]
  /\ i' = i + 1
  /\ UNCHANGED <<fb, draw_buf, area, shown>>

\* Wrong variant: the last row of an area is not copied.
FlushReady_OneShort ==
  /\ ~Idle /\ i + 1 >= Height(area)
  /\ area' = NoArea /\ i' = 0 /\ shown' = TRUE
  /\ UNCHANGED <<fb, mem, draw_buf>>

\* lv_display_flush_ready
FlushReady ==
  /\ ~Idle /\ i = Height(area)
  /\ area' = NoArea /\ i' = 0 /\ shown' = TRUE
  /\ UNCHANGED <<fb, mem, draw_buf>>

Next == (\E a \in Areas : Render(a)) \/ CopyRow \/ FlushReady

Spec == Init /\ [][Next]_vars

\* On a framebuffer the display fits no row is copied outside the mapped memory, for
\* any area LVGL may flush (main.c:76-80).
InsideMapping == ~Idle /\ i < Height(area) => Written(area.y1 + i) \subseteq Mapped

\* Between flushes the screen shows the display upside down, whatever areas have been
\* flushed one after another (main.c:64-68).
Mirrored ==
  Idle /\ shown =>
    \A x \in Xs, y \in Ys : mem[PixelAt(x, y)] = draw_buf[<<x, y>>]

\* What lies above the mirrored display, and beside it, is never written: the logo
\* stays there (main.c:72-80).
RestUntouched ==
  \A row \in 0..(fb.yres - 1), x \in 0..(fb.stride - 1) :
    row < fb.yres - DispH \/ x >= DispW => mem[row * fb.stride + x] = "logo"
=============================================================================

-------------------------- MODULE FlipCopy_proofs --------------------------
(***************************************************************************)
(* What holds of the demo's copy for a display and a framebuffer of any    *)
(* size, the first no larger than the second: it stays inside the mapping, *)
(* and between flushes the screen is the display upside down.              *)
(***************************************************************************)
EXTENDS FlipCopy, TLAPS

USE FlipCopyAssumption DEF vars, Xs, Ys

\* A product of two numbers that are not negative is not negative, and it grows with
\* either of them.
LEMMA Grows ==
  ASSUME NEW k \in Nat, NEW m \in Nat, NEW s \in Nat, k <= m
  PROVE  0 <= k * s /\ k * s <= m * s
<1>1. PICK d \in Nat : m = k + d
  <2>1. m - k \in Nat /\ m = k + (m - k)
    OBVIOUS
  <2> QED BY <2>1
<1>2. m * s = k * s + d * s
  BY <1>1
<1>3. k * s \in Nat /\ d * s \in Nat
  BY <1>1
<1> QED BY <1>2, <1>3

\* The framebuffer is one that the display fits, and the pixels in memory are its own.
FitInv ==
  /\ fb \in Sizes /\ Fits(fb)
  /\ DOMAIN mem = Mapped

\* Every place in a row of the framebuffer is in the mapping.
LEMMA CellMapped ==
  ASSUME FitInv, NEW row \in 0..(fb.yres - 1), NEW x \in 0..(fb.stride - 1)
  PROVE  row * fb.stride + x \in Mapped
<1>1. fb.yres \in Nat /\ fb.stride \in Nat /\ row \in Nat /\ row <= fb.yres - 1
      /\ fb.yres - 1 \in Nat
  BY DEF FitInv
<1>2. 0 <= row * fb.stride /\ row * fb.stride <= (fb.yres - 1) * fb.stride
  BY <1>1, Grows
<1>3. (fb.yres - 1) * fb.stride = fb.stride * fb.yres - fb.stride
  BY <1>1
<1>4. row * fb.stride \in Int /\ fb.stride * fb.yres \in Int
  BY <1>1
<1> QED BY <1>1, <1>2, <1>3, <1>4 DEF Mapped

LEMMA PixelMapped ==
  ASSUME FitInv, NEW x \in Xs, NEW y \in Ys
  PROVE  PixelAt(x, y) \in Mapped
<1>1. RowAt(y) \in 0..(fb.yres - 1) /\ x \in 0..(fb.stride - 1)
  BY DEF FitInv, Fits, RowAt
<1> QED BY <1>1, CellMapped DEF PixelAt

\* A piece of a row of memory lies in that row alone.
LEMMA CellsApart ==
  ASSUME NEW s \in Nat, NEW k \in Nat, NEW m \in Nat,
         NEW x \in 0..(s - 1), NEW x1 \in 0..(s - 1), NEW x2 \in 0..(s - 1),
         k * s + x \in (m * s + x1)..(m * s + x2)
  PROVE  k = m /\ x \in x1..x2
<1>1. k * s \in Int /\ m * s \in Int
  OBVIOUS
<1>2. ASSUME k < m PROVE FALSE
  <2>1. k + 1 <= m /\ k + 1 \in Nat
    BY <1>2
  <2>2. (k + 1) * s <= m * s
    BY <2>1, Grows
  <2>3. (k + 1) * s = k * s + s
    OBVIOUS
  <2> QED BY <1>1, <2>2, <2>3
<1>3. ASSUME m < k PROVE FALSE
  <2>1. m + 1 <= k /\ m + 1 \in Nat
    BY <1>3
  <2>2. (m + 1) * s <= k * s
    BY <2>1, Grows
  <2>3. (m + 1) * s = m * s + s
    OBVIOUS
  <2> QED BY <1>1, <2>2, <2>3
<1>4. k = m
  BY <1>2, <1>3
<1> QED BY <1>1, <1>4

\* Two pixels of the display have different places, and a row is one piece of memory.
LEMMA RowsApart ==
  ASSUME FitInv, NEW x \in Xs, NEW y \in Ys, NEW z \in Ys,
         NEW x1 \in Xs, NEW x2 \in Xs, PixelAt(x, y) \in PixelAt(x1, z)..PixelAt(x2, z)
  PROVE  y = z /\ x \in x1..x2
<1>1. fb.stride \in Nat /\ fb.stride >= DispW /\ fb.yres \in Nat /\ fb.yres >= DispH
  BY DEF FitInv, Fits
<1>2. RowAt(y) \in Nat /\ RowAt(z) \in Nat
  BY <1>1 DEF RowAt
<1>3. RowAt(y) = RowAt(z) /\ x \in x1..x2
  BY <1>1, <1>2, CellsApart DEF PixelAt
<1> QED BY <1>1, <1>3 DEF RowAt

-----------------------------------------------------------------------------
\* What an area is, and that none is not one.
LEMMA AreaFacts ==
  /\ \A a \in Areas : a \in [x1 : Xs, y1 : Ys, x2 : Xs, y2 : Ys] /\ a.x1 <= a.x2 /\ a.y1 <= a.y2
  /\ \A a \in Areas : Height(a) \in Nat \ {0}
  /\ NoArea \notin Areas /\ Height(NoArea) = 0
  /\ WholeScreen # NoArea
  BY DEF Areas, Height, NoArea, WholeScreen

LEMMA Types == TypeOK /\ FitInv /\ [Next]_vars => TypeOK' /\ FitInv'
<1> SUFFICES ASSUME TypeOK, FitInv, [Next]_vars PROVE TypeOK' /\ FitInv'
  OBVIOUS
<1>1. ASSUME NEW a \in Areas, Render(a) PROVE TypeOK' /\ FitInv'
  <2>1. PICK c \in Colours :
          draw_buf' = [p \in Xs \X Ys |-> IF InArea(a, p[1], p[2]) THEN c ELSE draw_buf[p]]
    BY <1>1 DEF Render
  <2>2. draw_buf' \in [Xs \X Ys -> Colours]
    BY <2>1 DEF TypeOK
  <2>3. i' \in 0..Height(area')
    BY <1>1, AreaFacts DEF Render
  <2> QED BY <1>1, <2>2, <2>3 DEF TypeOK, Render, FitInv, Fits, Mapped
<1>2. CASE CopyRow
  <2>1. i' \in 0..Height(area')
    BY <1>2, AreaFacts DEF CopyRow, TypeOK, Idle
  <2>2. DOMAIN mem' = DOMAIN mem
    BY <1>2 DEF CopyRow
  <2> QED BY <1>2, <2>1, <2>2 DEF TypeOK, CopyRow, FitInv, Fits, Mapped
<1>3. CASE FlushReady
  <2>1. i' \in 0..Height(area')
    BY <1>3, AreaFacts DEF FlushReady
  <2> QED BY <1>3, <2>1 DEF TypeOK, FlushReady, FitInv, Fits, Mapped
<1>4. CASE UNCHANGED vars
  BY <1>4 DEF TypeOK, FitInv, Fits, Mapped
<1> QED BY <1>1, <1>2, <1>3, <1>4 DEF Next

LEMMA TypesInit == Init => TypeOK /\ FitInv
<1> SUFFICES ASSUME Init PROVE TypeOK /\ FitInv
  OBVIOUS
<1>1. i \in 0..Height(area)
  BY AreaFacts DEF Init
<1>2. draw_buf \in [Xs \X Ys -> Colours]
  BY DEF Init, Colours
<1> QED BY <1>1, <1>2 DEF Init, TypeOK, FitInv, Mapped

\* Every value has its type, for a display and a framebuffer of any size.
THEOREM Typing == Spec => []TypeOK
  BY TypesInit, Types, PTL DEF Spec

\* The row that is about to be copied is a row of the area.
LEMMA RowOfArea ==
  ASSUME TypeOK, ~Idle, i < Height(area)
  PROVE  /\ area \in Areas /\ area.x1 \in Xs /\ area.x2 \in Xs
         /\ area.y1 + i \in Ys /\ area.y1 + i \in area.y1..area.y2
<1>1. area \in Areas
  BY DEF TypeOK, Idle
<1>2. i \in Nat
  BY <1>1, AreaFacts DEF TypeOK
<1> QED BY <1>1, <1>2, AreaFacts DEF Height

\* No row is copied outside the mapping, whatever the area.
THEOREM Inside == Spec => []InsideMapping
<1>1. ASSUME TypeOK, FitInv PROVE InsideMapping
  <2> SUFFICES ASSUME ~Idle, i < Height(area) PROVE Written(area.y1 + i) \subseteq Mapped
    BY DEF InsideMapping
  <2>1. PixelAt(area.x1, area.y1 + i) \in Mapped /\ PixelAt(area.x2, area.y1 + i) \in Mapped
    BY <1>1, RowOfArea, PixelMapped
  <2>2. fb.stride * fb.yres \in Int
    BY <1>1 DEF FitInv
  <2> QED BY <2>1, <2>2 DEF Mapped, Written
<1> QED BY <1>1, TypesInit, Types, PTL DEF Spec

-----------------------------------------------------------------------------
\* The rows of the area that are still to be copied.
Pending(x, y) == InArea(area, x, y) /\ y >= area.y1 + i

\* The first flush is of the whole screen, and all that is not pending is mirrored.
CopyInv ==
  /\ ~Idle => shown = TRUE \/ area = WholeScreen
  /\ shown = TRUE \/ area = WholeScreen =>
       \A x \in Xs, y \in Ys : ~Pending(x, y) => mem[PixelAt(x, y)] = draw_buf[<<x, y>>]

LEMMA CopyInit == Init => CopyInv
  BY AreaFacts DEF Init, CopyInv, Idle

LEMMA CopyStep == TypeOK /\ FitInv /\ CopyInv /\ [Next]_vars => CopyInv'
<1> SUFFICES ASSUME TypeOK, FitInv, CopyInv, [Next]_vars PROVE CopyInv'
  OBVIOUS
<1>1. ASSUME NEW a \in Areas, Render(a) PROVE CopyInv'
  <2>1. a = area' /\ i' = 0 /\ UNCHANGED <<fb, mem, shown>> /\ Idle
        /\ (shown = TRUE \/ a = WholeScreen)
    BY <1>1 DEF Render, TypeOK
  <2>2. PICK c \in Colours :
          draw_buf' = [p \in Xs \X Ys |-> IF InArea(a, p[1], p[2]) THEN c ELSE draw_buf[p]]
    BY <1>1 DEF Render
  <2>3. ASSUME NEW x \in Xs, NEW y \in Ys, ~Pending(x, y)'
        PROVE  mem'[PixelAt(x, y)'] = draw_buf'[<<x, y>>]
    <3>1. ~InArea(a, x, y)
      BY <2>1, <2>3, AreaFacts DEF Pending, InArea
    <3>2. shown = TRUE
      BY <2>1, <3>1 DEF InArea, WholeScreen
    <3>3. ~Pending(x, y)
      BY <2>1 DEF Pending, InArea, Idle, NoArea
    <3>4. mem[PixelAt(x, y)] = draw_buf[<<x, y>>]
      BY <3>2, <3>3 DEF CopyInv
    <3>5. draw_buf'[<<x, y>>] = draw_buf[<<x, y>>]
      BY <2>2, <3>1
    <3> QED BY <2>1, <3>4, <3>5 DEF PixelAt, RowAt
  <2> QED BY <2>1, <2>3 DEF CopyInv
<1>2. CASE CopyRow
  <2> DEFINE z == area.y1 + i
  <2>1. UNCHANGED <<fb, draw_buf, area, shown>> /\ i' = i + 1 /\ ~Idle /\ i < Height(area)
        /\ mem' = [p \in DOMAIN mem |-> IF p \in Written(z) THEN Source(p, z) ELSE mem[p]]
    BY <1>2 DEF CopyRow
  <2>2. area \in Areas /\ area.x1 \in Xs /\ area.x2 \in Xs /\ z \in Ys
        /\ z \in area.y1..area.y2
    BY <2>1, RowOfArea
  <2>3. ASSUME NEW x \in Xs, NEW y \in Ys, shown = TRUE \/ area = WholeScreen, ~Pending(x, y)'
        PROVE  mem'[PixelAt(x, y)] = draw_buf[<<x, y>>]
    <3>1. PixelAt(x, y) \in DOMAIN mem
      BY PixelMapped DEF FitInv
    <3>2. CASE PixelAt(x, y) \in Written(z)
      <4>1. y = z
        BY <2>2, <3>2, RowsApart DEF Written
      <4>2. PixelAt(x, z) - PixelAt(0, z) = x
        <5>1. RowAt(z) * fb.stride \in Int
          BY <2>2 DEF RowAt, FitInv
        <5> QED BY <5>1 DEF PixelAt
      <4> QED BY <2>1, <3>1, <3>2, <4>1, <4>2 DEF Source
    <3>3. CASE PixelAt(x, y) \notin Written(z)
      <4>1. ~Pending(x, y)
        <5>1. ASSUME y = z, x \in area.x1..area.x2 PROVE FALSE
          <6>1. RowAt(z) * fb.stride \in Int
            BY <2>2 DEF RowAt, FitInv
          <6> QED BY <2>2, <3>3, <5>1, <6>1 DEF Written, PixelAt
        <5>2. y >= z => y = z \/ y >= area.y1 + i'
          <6>1. i \in Nat /\ area.y1 \in Nat
            BY <2>2, AreaFacts DEF TypeOK
          <6> QED BY <2>1, <6>1
        <5> QED BY <2>1, <2>3, <5>1, <5>2 DEF Pending, InArea
      <4> QED BY <2>1, <2>3, <3>1, <3>3, <4>1 DEF CopyInv
    <3> QED BY <3>2, <3>3
  <2>4. \A x \in Xs, y \in Ys : PixelAt(x, y)' = PixelAt(x, y)
    BY <2>1 DEF PixelAt, RowAt
  <2> QED BY <2>1, <2>3, <2>4 DEF CopyInv, Idle
<1>3. CASE FlushReady
  <2>1. UNCHANGED <<fb, mem, draw_buf>> /\ ~Idle /\ i = Height(area) /\ area' = NoArea
        /\ shown' = TRUE
    BY <1>3 DEF FlushReady
  <2>2. area \in Areas
    BY <2>1 DEF TypeOK, Idle
  <2>3. \A x \in Xs, y \in Ys : ~Pending(x, y)
    BY <2>1, <2>2, AreaFacts DEF Pending, InArea, Height
  <2>4. \A x \in Xs, y \in Ys : mem[PixelAt(x, y)] = draw_buf[<<x, y>>]
    BY <2>1, <2>3 DEF CopyInv
  <2> QED BY <2>1, <2>4 DEF CopyInv, Idle, PixelAt, RowAt
<1>4. CASE UNCHANGED vars
  BY <1>4 DEF CopyInv, Idle, Pending, PixelAt, RowAt
<1> QED BY <1>1, <1>2, <1>3, <1>4 DEF Next

\* Between flushes the screen is the display upside down, whatever areas were flushed.
THEOREM Upside == Spec => []Mirrored
<1>1. ASSUME CopyInv, TypeOK PROVE Mirrored
  <2>1. ASSUME Idle PROVE \A x \in Xs, y \in Ys : ~Pending(x, y)
    BY <2>1 DEF Idle, Pending, InArea, NoArea
  <2> QED BY <1>1, <2>1 DEF CopyInv, Mirrored, TypeOK
<1> QED BY <1>1, TypesInit, Types, CopyInit, CopyStep, PTL DEF Spec

-----------------------------------------------------------------------------
\* Only the rows and columns of the mirrored display are ever written.
THEOREM Outside == Spec => []RestUntouched
<1>1. Init => RestUntouched
  <2> SUFFICES ASSUME Init PROVE RestUntouched
    OBVIOUS
  <2>1. FitInv
    BY TypesInit
  <2> QED BY <2>1, CellMapped DEF Init, RestUntouched, Mapped
<1>2. TypeOK /\ FitInv /\ RestUntouched /\ [Next]_vars => RestUntouched'
  <2> SUFFICES ASSUME TypeOK, FitInv, RestUntouched, [Next]_vars PROVE RestUntouched'
    OBVIOUS
  <2>1. CASE CopyRow
    <3> DEFINE z == area.y1 + i
    <3>1. fb' = fb /\ ~Idle /\ i < Height(area)
          /\ mem' = [p \in DOMAIN mem |-> IF p \in Written(z) THEN Source(p, z) ELSE mem[p]]
      BY <2>1 DEF CopyRow
    <3>2. area.x1 \in Xs /\ area.x2 \in Xs /\ z \in Ys
      BY <3>1, RowOfArea
    <3> HIDE DEF z
    <3>3. ASSUME NEW row \in 0..(fb.yres - 1), NEW x \in 0..(fb.stride - 1),
                 row < fb.yres - DispH \/ x >= DispW
          PROVE  mem'[row * fb.stride + x] = "logo"
      <4>1. fb.stride \in Nat /\ fb.stride >= DispW /\ fb.yres \in Nat /\ fb.yres >= DispH
        BY DEF FitInv, Fits
      <4>2. RowAt(z) \in Nat /\ row \in Nat /\ RowAt(z) >= fb.yres - DispH
        BY <3>2, <4>1 DEF RowAt
      <4>3. area.x1 \in 0..(fb.stride - 1) /\ area.x2 \in 0..(fb.stride - 1) /\ area.x2 < DispW
        BY <3>2, <4>1
      <4>4. ASSUME row * fb.stride + x \in Written(z) PROVE FALSE
        <5>1. row = RowAt(z) /\ x \in area.x1..area.x2
          BY <4>1, <4>2, <4>3, <4>4, CellsApart DEF Written, PixelAt
        <5>2. CASE row < fb.yres - DispH
          BY <4>1, <4>2, <5>1, <5>2
        <5>3. CASE x >= DispW
          BY <3>2, <4>1, <5>1, <5>3
        <5> QED BY <3>3, <5>2, <5>3
      <4>5. mem[row * fb.stride + x] = "logo"
        BY <3>3 DEF RestUntouched
      <4>6. row * fb.stride + x \in DOMAIN mem
        BY <4>2, CellMapped DEF FitInv
      <4> QED BY <3>1, <4>4, <4>5, <4>6
    <3> QED BY <3>1, <3>3 DEF RestUntouched
  <2>2. CASE UNCHANGED <<fb, mem>>
    BY <2>2 DEF RestUntouched
  <2> QED BY <2>1, <2>2 DEF Next, Render, FlushReady
<1> QED BY <1>1, <1>2, TypesInit, Types, PTL DEF Spec
=============================================================================

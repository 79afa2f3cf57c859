---------------------------- MODULE MC_FlipCopy ----------------------------
(***************************************************************************)
(* Framebuffers of exactly the display's size, with padded rows, with more *)
(* rows, and two the display does not fit (Init leaves those out).         *)
(***************************************************************************)
EXTENDS FlipCopy
SomeSizes == [yres : 2..4, stride : 1..3]
=============================================================================

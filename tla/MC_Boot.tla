------------------------------ MODULE MC_Boot ------------------------------
(***************************************************************************)
(* Model-checking instance of Boot: two of the four runlevels with links,  *)
(* the default one last, as in the postinst.                               *)
(***************************************************************************)
EXTENDS Boot
LevelOrder == <<"3", "5">>
=============================================================================

------------------------------ MODULE MCHires ------------------------------
(***************************************************************************)
(* The hire manager for TLC. MCHires.cfg: two hires share an executor of    *)
(* one thread, so that one waits while the other runs. MCHiresPanels.cfg:   *)
(* two panels watch one hire, so that they share its event queue. One       *)
(* phase stands for the six that run_hire announces before it persists:     *)
(* each announces itself, works, and may raise. The server may restart      *)
(* once.                                                                    *)
(***************************************************************************)
EXTENDS Hires

=============================================================================

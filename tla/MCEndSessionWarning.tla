------------------------ MODULE MCEndSessionWarning -------------------------
(* Instance of EndSessionWarning for TLC.  The delays keep the order and the  *)
(* gaps of {1, 5, 10, 30} minutes on a scale TLC can enumerate, with a second *)
(* of two units, so that an iteration can take less than one.                 *)
EXTENDS EndSessionWarning

MCFineTimers == <<3, 5, 8>>
MCJump == {-3, 0, 4}
=============================================================================

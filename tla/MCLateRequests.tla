--------------------------- MODULE MCLateRequests ---------------------------
(***************************************************************************)
(* The instance of LateRequests for TLC; liveness is checked without       *)
(* symmetry.                                                               *)
(***************************************************************************)
EXTENDS LateRequests
=============================================================================

----------------------------- MODULE MCTCPStack -----------------------------
(***************************************************************************)
(* Small instances of TCPStack for TLC: more connections than the accept   *)
(* channel holds, and more than there are peers, so keys are used again.   *)
(***************************************************************************)
EXTENDS TCPStack

=============================================================================

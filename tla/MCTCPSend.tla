------------------------------ MODULE MCTCPSend ------------------------------
(***************************************************************************)
(* Small instances of TCPSend for TLC.  The sequence space is a circle of  *)
(* 2 * Half numbers and ISS is close to its end, so every run of the       *)
(* stream crosses the wrap; IRS is the last number, so the peer's next     *)
(* sequence number is 0 and the window-freshness rule crosses it as well.  *)
(***************************************************************************)
EXTENDS TCPSend

=============================================================================

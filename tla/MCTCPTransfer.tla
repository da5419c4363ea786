---------------------------- MODULE MCTCPTransfer ----------------------------
(***************************************************************************)
(* A small instance of TCPTransfer for TLC: three bytes, segments of at    *)
(* most two, windows of one and two, and a sequence space that wraps after *)
(* the first byte.                                                         *)
(***************************************************************************)
EXTENDS TCPTransfer

=============================================================================

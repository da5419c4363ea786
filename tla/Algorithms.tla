------------------------------ MODULE Algorithms ------------------------------
(***************************************************************************)
(* The formats and computations of the program side by side: a behaviour   *)
(* follows one packet, one handshake message, one line of a request or one *)
(* key exchange, and leaves the others alone.                              *)
(***************************************************************************)
EXTENDS Packets, TLSMessages, HTTPLines, X25519

NoPackets ==
  /\ packet = [kind |-> "none"] /\ frame = <<>> /\ how = "built" /\ phase = "done"
  /\ got = NoPacket /\ optAt = 0 /\ mss = 0

NoMessages ==
  /\ message = [kind |-> "none"] /\ bytes = <<>> /\ damaged = FALSE
  /\ todo = <<>> /\ hello = <<>> /\ mstate = "none"

NoLines == stream = <<"header", <<>>>> /\ pos = 0 /\ buf = <<>> /\ line = [err |-> "EOF"]

NoExchange ==
  /\ stage = 5 /\ secret = <<0, 0>> /\ public = <<-1, basepoint>> /\ shared = <<-1, -1>>
  /\ t = Bits /\ x2 = 0 /\ z2 = 0 /\ x3 = 0 /\ z3 = 0 /\ swap = 0 /\ R = <<>>

AlgorithmsInit ==
  \/ PacketInit /\ NoMessages /\ NoLines /\ NoExchange
  \/ NoPackets /\ MessageInit /\ NoLines /\ NoExchange
  \/ NoPackets /\ NoMessages /\ LineInit /\ NoExchange
  \/ NoPackets /\ NoMessages /\ NoLines /\ XInit

AlgorithmsNext ==
  \/ PacketNext /\ UNCHANGED <<messageVars, lineVars, xVars>>
  \/ MessageNext /\ UNCHANGED <<packetVars, lineVars, xVars>>
  \/ LineNext /\ UNCHANGED <<packetVars, messageVars, xVars>>
  \/ XNext /\ UNCHANGED <<packetVars, messageVars, lineVars>>

AlgorithmsSpec ==
  AlgorithmsInit /\ [][AlgorithmsNext]_<<packetVars, messageVars, lineVars, xVars>>

=============================================================================

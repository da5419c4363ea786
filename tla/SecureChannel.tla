---------------------------- MODULE SecureChannel ----------------------------
(***************************************************************************)
(* What a TLS connection promises its two users, whatever happens on the   *)
(* wire: two streams of bytes.  What is read is a prefix of what was       *)
(* written, and the server's side of the connection neither delivers nor   *)
(* accepts a byte before the handshake has opened it.                      *)
(***************************************************************************)
EXTENDS Integers, Sequences

VARIABLES
  opened,     \* the server's handshake has succeeded
  toServer,   \* bytes written by the client
  atServer,   \* bytes read by the server's application
  toClient,   \* bytes written by the server's application
  atClient    \* bytes read by the client

channelVars == <<opened, toServer, atServer, toClient, atClient>>

Begins(s, t) == Len(s) <= Len(t) /\ SubSeq(t, 1, Len(s)) = s

ChannelInit ==
  /\ opened = FALSE
  /\ toServer = <<>> /\ atServer = <<>> /\ toClient = <<>> /\ atClient = <<>>

Open ==
  /\ ~opened /\ opened' = TRUE
  /\ UNCHANGED <<toServer, atServer, toClient, atClient>>

ClientWrites ==
  /\ Begins(toServer, toServer')
  /\ UNCHANGED <<opened, atServer, toClient, atClient>>

ServerReads ==
  /\ opened
  /\ Begins(atServer, atServer') /\ Begins(atServer', toServer)
  /\ UNCHANGED <<opened, toServer, toClient, atClient>>

ServerWrites ==
  /\ opened
  /\ Begins(toClient, toClient')
  /\ UNCHANGED <<opened, toServer, atServer, atClient>>

ClientReads ==
  /\ Begins(atClient, atClient') /\ Begins(atClient', toClient)
  /\ UNCHANGED <<opened, toServer, atServer, toClient>>

ChannelNext == Open \/ ClientWrites \/ ServerReads \/ ServerWrites \/ ClientReads

ChannelSpec == ChannelInit /\ [][ChannelNext]_channelVars

=============================================================================

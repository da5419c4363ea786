------------------------------ MODULE MCTLSConn ------------------------------
(***************************************************************************)
(* A small instance of TLSConn for TLC: a client with an acceptable        *)
(* ClientHello for each plan, and one client for each reason to refuse a   *)
(* ClientHello.                                                            *)
(***************************************************************************)
EXTENDS TLSConn

Share(group, len, key) == [group |-> group, len |-> len, key |-> key]

Good == [wellFormed |-> TRUE, sessionID |-> "id",
         supportedVersions |-> {"1.3", "1.2"}, cipherSuites |-> {"AES128", "other"},
         supportedGroups |-> {"x25519", "other"}, signatureAlgorithms |-> {"P256"},
         keyShares |-> <<Share("x25519", 32, "client_share"), Share("x25519", 31, "second")>>]

OtherFirst == [Good EXCEPT !.keyShares = <<Share("other", 31, "other_key")>> \o @]

BadHellos ==
  {[Good EXCEPT !.wellFormed = FALSE],
   [Good EXCEPT !.supportedVersions = {"1.2"}],
   [Good EXCEPT !.cipherSuites = {"other"}],
   [Good EXCEPT !.supportedGroups = {}],
   [Good EXCEPT !.signatureAlgorithms = {}],
   [Good EXCEPT !.keyShares = <<Share("other", 32, "client_share")>>],
   [Good EXCEPT !.keyShares = <<Share("x25519", 31, "client_share")>>],
   [Good EXCEPT !.keyShares = <<Share("x25519", 32, "low_order")>>]}

MCClients ==
  [hello : {Good}, plan : {"update", "bad_finished", "trailing", "wrong_message",
                           "no_finished", "not_a_hello"}]
    \cup [hello : BadHellos \cup {OtherFirst}, plan : {"honest"}]

=============================================================================

----------------------------- MODULE MCEnvelope -----------------------------
(***************************************************************************)
(* alice has a DID; bob an address and the DER of an X25519 key; carol an  *)
(* address and, as in the zone file of the repository, an Ed25519 key.  A  *)
(* mail is in plain text; in long HTML beside an empty text; in HTML and   *)
(* long text with another attached.  Three mails, so that a forward can be *)
(* forwarded.                                                              *)
(***************************************************************************)
EXTENDS Envelope, TLC

CONSTANTS alice, bob, carol

Address(u) == [scheme |-> "address", key |-> [form |-> "address", of |-> u]]
Did(k) == [scheme |-> "did", key |-> k]
AliceKey == [form |-> "x25519", of |-> alice]
Part(t, d, c) == [type |-> t, disposition |-> d, content |-> c]

MCName == (alice :> Did(AliceKey)) @@ (bob :> Address(bob)) @@ (carol :> Address(carol))
MCPublished == (alice :> AliceKey) @@ (bob :> [form |-> "x25519Der", of |-> bob])
               @@ (carol :> [form |-> "ed25519", of |-> carol])
MCLists == {<<alice>>, <<carol>>, <<bob, alice>>}
MCBodies ==
    {<<Part("text", "inline", {"start", "foreign"})>>,
     <<Part("html", "none", {"start", "rest"}), Part("text", "none", {}),
       Part("other", "attachment", {})>>,
     <<Part("html", "none", {"start"}), Part("text", "attachment", {"start", "rest"}),
       Part("text", "none", {"foreign"})>>}
=============================================================================

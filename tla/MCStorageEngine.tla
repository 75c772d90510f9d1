-------------------------- MODULE MCStorageEngine --------------------------
(***************************************************************************)
(* Instances of StorageEngine for TLC.  Two mails come from one address    *)
(* (so approvals meet on its identities), the third has an empty From:     *)
(* header: its address and its domain are both the empty identity.         *)
(***************************************************************************)
EXTENDS StorageEngine, TLC

CONSTANTS c1, c2, m1, m2, m3, alice, spamDomain

MCClients == {c1, c2}
MCOneClient == {c1}
MCMails == {m1, m2, m3}
MCIdentities == {alice, spamDomain, Blank}
MCSenderOf == (m1 :> alice) @@ (m2 :> alice) @@ (m3 :> Blank)
MCDomainOf == (m1 :> spamDomain) @@ (m2 :> spamDomain) @@ (m3 :> Blank)

Symmetry == Permutations(MCClients) \cup Permutations({m1, m2})
=============================================================================

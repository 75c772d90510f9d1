--------------------------- MODULE MCRateLimiter ---------------------------
(***************************************************************************)
(* Five mails, four of them between the same two domains, a quota of two  *)
(* and an hour of two ticks: a window fills, slides past an entry and      *)
(* fills again, and the other pair is not charged for it.                  *)
(***************************************************************************)
EXTENDS RateLimiter, TLC

CONSTANTS m1, m2, m3, m4, m5

MCMails == {m1, m2, m3, m4, m5}
MCPairOf == (m1 :> "ab") @@ (m2 :> "ab") @@ (m3 :> "ab") @@ (m4 :> "ab") @@ (m5 :> "ac")
MCPairs == {"ab", "ac"}

Symmetry == Permutations({m1, m2, m3, m4})
=============================================================================

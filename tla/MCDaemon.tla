------------------------------ MODULE MCDaemon ------------------------------
(***************************************************************************)
(* Two spoofed mails and a signed one of one domain, and a signed and a    *)
(* spoofed mail with an empty From:.  The second spoofed mail, of the same *)
(* sender, is graded before or after an operator approved or rejected the  *)
(* first.  Its token is good, and the recipient knows the sender in whose  *)
(* name the first comes.  The token of the signed mail expires as the      *)
(* clock leaves 0, so its grade is B, A or D; that of the signed mail with *)
(* an empty From: is not signed.  The quota is one per pair and hour, and  *)
(* the hour one tick: a mail of a pair is refused or waits for the next    *)
(* hour or a restart.  One restart.                                        *)
(*                                                                         *)
(* A behaviour has, beside the first spoofed mail, the other two of its    *)
(* domain or the two with an empty From: (ThreeMails, a constraint).       *)
(***************************************************************************)
EXTENDS Daemon, TLC

CONSTANTS spoofed, spoofedAgain, signed, spoofedBlank, signedBlank,
          mallory, alice, shop, bank

Named == {spoofed, spoofedAgain, signed}

MCIdentities == {mallory, alice, shop, bank, Blank}
MCSenderOf == [m \in Mails |->
    CASE m \in {spoofed, spoofedAgain} -> mallory
      [] m = signed -> alice
      [] OTHER -> Blank]
MCDomainOf == [m \in Mails |-> IF m \in Named THEN shop ELSE Blank]
MCPairs == {"shopToBob", "nobodyToBob"}
MCPairOf == [m \in Mails |-> IF m \in Named THEN "shopToBob" ELSE "nobodyToBob"]
MCSignatureValid == {signed, signedBlank} \cap Mails
MCReputable == {bank}
MCTokenOf == [m \in Mails |->
    CASE m = signed -> [signed |-> TRUE, expires |-> 0, voucher |-> bank]
      [] m = spoofedAgain -> [signed |-> TRUE, expires |-> 1, voucher |-> bank]
      [] m = signedBlank -> [signed |-> FALSE, expires |-> 1, voucher |-> bank]
      [] OTHER -> NoToken]

ThreeMails ==
    \/ \A m \in {spoofedAgain, signed} : stage[m] = "new"
    \/ \A m \in {spoofedBlank, signedBlank} : stage[m] = "new"
=============================================================================

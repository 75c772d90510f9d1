---------------------------- MODULE MCResolverTls ----------------------------
(***************************************************************************)
(* A did:web whose host replaces its document twice, beside a did:mx2; the *)
(* clock goes from 0 to 3 and an entry lives for two ticks.  Three         *)
(* processes share the certificate and make three keys.  The resolver and  *)
(* the TLS manager have nothing to do with each other: each is checked     *)
(* while the other has not begun.                                          *)
(***************************************************************************)
EXTENDS DidResolver, TlsManager, TLC

CONSTANTS web, mx2, daemon, proxy, tool

MCMethod == (web :> "web") @@ (mx2 :> "mx2")

Init == DRInit /\ TMInit

Next ==
    \/ TMInit /\ DRNext /\ UNCHANGED tmVars
    \/ DRInit /\ TMNext /\ UNCHANGED drVars

Spec == Init /\ [][Next]_<<drVars, tmVars>>
=============================================================================

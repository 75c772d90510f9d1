-------------------------- MODULE QuarantineQueue --------------------------
(***************************************************************************)
(* What the quarantine of the MX2 daemon promises, without its tables,     *)
(* connections or callers.  A Grade E mail is held once; it then leaves    *)
(* the queue once, either released to its recipient or discarded, and it   *)
(* is released only after every identity it was sent under (the address    *)
(* and its domain) is trusted.  An identity is trusted only on behalf of a *)
(* mail that was held.                                                     *)
(*                                                                         *)
(* StorageEngine implements this specification for any number of callers.  *)
(***************************************************************************)
CONSTANTS
    Mails,         \* the mails that may be quarantined
    IdentitiesOf   \* [Mails -> sets of identities]

VARIABLES
    fate,          \* [Mails -> Fates]
    trusted        \* identities whose mail goes to the inbox

vars == <<fate, trusted>>

Fates == {"new", "held", "released", "discarded"}

Init ==
    /\ fate = [m \in Mails |-> "new"]
    /\ trusted = {}

\* The mail is put in the queue.
Hold(m) ==
    /\ fate[m] = "new"
    /\ fate' = [fate EXCEPT ![m] = "held"]
    /\ UNCHANGED trusted

\* Approving a mail extends trust one identity at a time.  The mail may have
\* been discarded meanwhile by somebody else; it was held all the same.
Trust(m, i) ==
    /\ fate[m] # "new"
    /\ i \in IdentitiesOf[m]
    /\ trusted' = trusted \cup {i}
    /\ UNCHANGED fate

Release(m) ==
    /\ fate[m] = "held"
    /\ IdentitiesOf[m] \subseteq trusted
    /\ fate' = [fate EXCEPT ![m] = "released"]
    /\ UNCHANGED trusted

Discard(m) ==
    /\ fate[m] = "held"
    /\ fate' = [fate EXCEPT ![m] = "discarded"]
    /\ UNCHANGED trusted

Next ==
    \E m \in Mails :
        \/ Hold(m)
        \/ \E i \in IdentitiesOf[m] : Trust(m, i)
        \/ Release(m)
        \/ Discard(m)

Spec == Init /\ [][Next]_vars
=============================================================================

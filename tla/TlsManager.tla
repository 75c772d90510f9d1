----------------------------- MODULE TlsManager -----------------------------
(***************************************************************************)
(* The self-signed certificate and its key (src/tls_manager.py): two files *)
(* in one directory, each written in place, the key first, by any process  *)
(* that does not find both.  A process may die at any step.                *)
(***************************************************************************)
EXTENDS Naturals

CONSTANTS
    Procs,      \* the processes that share config/certs
    Absent,     \* no such file
    Broken,     \* a file that is empty, or a part of what was to be written
    MaxKeys     \* bound on the keys that are generated

ASSUME FileAssumption == {Absent, Broken} \cap Nat = {} /\ Absent # Broken

VARIABLES
    made,       \* how many keys have been generated
    keyFile,    \* daemon.key: Absent, Broken or the number of a key
    certFile,   \* daemon.crt: the same, of the key that it certifies
    writer,     \* [Procs -> where it is, and with which key]
    loaded,     \* [Procs -> the keys that it made a context with]
    torn,       \* a process died between opening and writing the certificate
    raced       \* two processes generated at once

tmVars == <<made, keyFile, certFile, writer, loaded, torn, raced>>

Resting == [at |-> "idle", key |-> 0]

\* Inside ensure_self_signed_cert, from the check to the end.
Generating(p) == writer[p].at \in {"key", "keyOpen", "cert", "certOpen"}

Goto(p, step) == writer' = [writer EXCEPT ![p].at = step]

-----------------------------------------------------------------------------
TMInit ==
    /\ made = 0
    /\ keyFile = Absent
    /\ certFile = Absent
    /\ writer = [p \in Procs |-> Resting]
    /\ loaded = [p \in Procs |-> {}]
    /\ torn = FALSE
    /\ raced = FALSE

\* Variant: either file is taken for the pair.
EitherExists == certFile # Absent \/ keyFile # Absent

\* os.path.exists of both; of what they hold nothing is asked.
BothExist == certFile # Absent /\ keyFile # Absent

Reuse(p) ==
    /\ writer[p].at = "idle"
    /\ BothExist
    /\ Goto(p, "load")
    /\ UNCHANGED <<made, keyFile, certFile, loaded, torn, raced>>

\* The caller names the two files itself: only the certificate is asked for.
Given(p) ==
    /\ writer[p].at = "idle"
    /\ certFile # Absent
    /\ Goto(p, "load")
    /\ UNCHANGED <<made, keyFile, certFile, loaded, torn, raced>>

\* Variant: a certificate is made although there is one.
GenerateAlways(p) ==
    /\ writer[p].at = "idle"
    /\ made < MaxKeys
    /\ made' = made + 1
    /\ writer' = [writer EXCEPT ![p] = [at |-> "key", key |-> made + 1]]
    /\ raced' = (raced \/ \E q \in Procs : Generating(q))
    /\ UNCHANGED <<keyFile, certFile, loaded, torn>>

Generate(p) ==
    /\ writer[p].at = "idle"
    /\ ~BothExist
    /\ made < MaxKeys
    /\ made' = made + 1
    /\ writer' = [writer EXCEPT ![p] = [at |-> "key", key |-> made + 1]]
    /\ raced' = (raced \/ \E q \in Procs : Generating(q))
    /\ UNCHANGED <<keyFile, certFile, loaded, torn>>

\* open(key_path, "wb").
OpenKey(p) ==
    /\ writer[p].at = "key"
    /\ keyFile' = Broken
    /\ Goto(p, "keyOpen")
    /\ UNCHANGED <<made, certFile, loaded, torn, raced>>

WriteKey(p) ==
    /\ writer[p].at = "keyOpen"
    /\ keyFile' = writer[p].key
    /\ Goto(p, "cert")
    /\ UNCHANGED <<made, certFile, loaded, torn, raced>>

\* open(cert_path, "wb").
OpenCert(p) ==
    /\ writer[p].at = "cert"
    /\ certFile' = Broken
    /\ Goto(p, "certOpen")
    /\ UNCHANGED <<made, keyFile, loaded, torn, raced>>

WriteCert(p) ==
    /\ writer[p].at = "certOpen"
    /\ certFile' = writer[p].key
    /\ Goto(p, "load")
    /\ UNCHANGED <<made, keyFile, loaded, torn, raced>>

\* Variant: the files are not checked.
LoadUnchecked(p) ==
    /\ writer[p].at = "load"
    /\ loaded' = [loaded EXCEPT ![p] = @ \cup {keyFile}]
    /\ writer' = [writer EXCEPT ![p] = Resting]
    /\ UNCHANGED <<made, keyFile, certFile, torn, raced>>

\* load_cert_chain raises unless the files hold a key and its certificate.
Load(p) ==
    /\ writer[p].at = "load"
    /\ loaded' = [loaded EXCEPT ![p] =
                    IF keyFile \in Nat /\ certFile = keyFile THEN @ \cup {keyFile} ELSE @]
    /\ writer' = [writer EXCEPT ![p] = Resting]
    /\ UNCHANGED <<made, keyFile, certFile, torn, raced>>

\* The process ends, or a write fails: what was opened is left as it is.
Die(p) ==
    /\ writer' = [writer EXCEPT ![p] = Resting]
    /\ torn' = (torn \/ writer[p].at = "certOpen")
    /\ UNCHANGED <<made, keyFile, certFile, loaded, raced>>

\* create_ssl_context, for the pair in config/certs.  Files elsewhere that a
\* caller names have no part in it.
CreateContext(p) ==
    \/ Given(p) \/ Reuse(p) \/ Generate(p)
    \/ OpenKey(p) \/ WriteKey(p)
    \/ OpenCert(p) \/ WriteCert(p)
    \/ Load(p)

TMNext == \E p \in Procs : CreateContext(p) \/ Die(p)

TMSpec == TMInit /\ [][TMNext]_tmVars
-----------------------------------------------------------------------------
Files == Nat \cup {Absent, Broken}

Steps == {"idle", "key", "keyOpen", "cert", "certOpen", "load"}

TMTypeOK ==
    /\ made \in Nat
    /\ keyFile \in Files
    /\ certFile \in Files
    /\ writer \in [Procs -> [at : Steps, key : Nat]]
    /\ loaded \in [Procs -> SUBSET Nat]
    /\ torn \in BOOLEAN
    /\ raced \in BOOLEAN

\* A pair that the next call takes for good is good, or still being written,
\* unless a process died in the certificate or two generated at once: a death
\* anywhere before the certificate is repaired by the next call.
PairMatches ==
    \/ torn \/ raced
    \/ \E p \in Procs : Generating(p)
    \/ BothExist => keyFile \in Nat /\ certFile = keyFile

\* Every process that has a context has one of the same key, under the same
\* conditions: nobody who shares the directory ever replaces the key of a
\* certificate that was handed out.
OneIdentity ==
    torn \/ raced \/
    \A p, q \in Procs : \A k \in loaded[p], l \in loaded[q] : k = l
=============================================================================

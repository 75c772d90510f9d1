----------------------------- MODULE CASEngine -----------------------------
(***************************************************************************)
(* MX2CASEngine.write and read (src/cas.py): the content-addressable store *)
(* of attachments, one file per SHA-256 under storage/cas.                 *)
(*                                                                         *)
(* The writers are the processes that share the directory: the daemon      *)
(* (_handle_cas_upload, _process_attachment) and the SMTP proxy, which     *)
(* translates every mail itself before it posts it.  write() tests for the *)
(* file, opens it with "wb", which creates or empties it, and writes the   *)
(* content; nothing is locked, no temporary file is renamed.  A write may  *)
(* die at any step (a full disk, the process killed); it cleans nothing    *)
(* up.  A file is the set of its chunks: a writer fills the positions from *)
(* its own offset on, so a file emptied under a writer gets a hole.        *)
(***************************************************************************)
EXTENDS Integers

CONSTANTS
    Writers,
    Blobs,        \* contents, and so their SHA-256
    K             \* chunks of a content, K >= 1

ASSUME ChunkAssumption == K \in Nat \ {0}

VARIABLES
    exists,       \* [Blobs -> BOOLEAN]: there is a file of that name
    chunks,       \* [Blobs -> SUBSET (1..K)]: what the file holds
    pc,           \* the step each writer is about to take
    arg,          \* the content each writer was given
    next,         \* the chunk a writer writes next
    failed,       \* history: a write of the content died with its file open
    acked         \* history: write() returned for the content

vars == <<exists, chunks, pc, arg, next, failed, acked>>

Whole(b) == exists[b] /\ chunks[b] = 1..K

Ack(b) == acked' = [acked EXCEPT ![b] = TRUE]

Init ==
    /\ exists = [b \in Blobs |-> FALSE]
    /\ chunks = [b \in Blobs |-> {}]
    /\ pc = [w \in Writers |-> "idle"]
    /\ arg \in [Writers -> Blobs]
    /\ next = [w \in Writers |-> 1]
    /\ failed = [b \in Blobs |-> FALSE]
    /\ acked = [b \in Blobs |-> FALSE]

-----------------------------------------------------------------------------
\* write() hashes the content it is called with.
Call(w, b) ==
    /\ pc[w] = "idle"
    /\ pc' = [pc EXCEPT ![w] = "check"]
    /\ arg' = [arg EXCEPT ![w] = b]
    /\ UNCHANGED <<exists, chunks, next, failed, acked>>

\* os.path.exists is true: the content is taken to be stored.
Deduplicate(w) ==
    /\ pc[w] = "check"
    /\ exists[arg[w]]
    /\ pc' = [pc EXCEPT ![w] = "idle"]
    /\ Ack(arg[w])
    /\ UNCHANGED <<exists, chunks, arg, next, failed>>

\* Variant: the file is written whether or not it is there.
MissAlways(w) ==
    /\ pc[w] = "check"
    /\ pc' = [pc EXCEPT ![w] = "open"]
    /\ UNCHANGED <<exists, chunks, arg, next, failed, acked>>

\* Variant: the hash is returned before the content is written.
MissAcks(w) ==
    /\ pc[w] = "check"
    /\ ~exists[arg[w]]
    /\ pc' = [pc EXCEPT ![w] = "open"]
    /\ Ack(arg[w])
    /\ UNCHANGED <<exists, chunks, arg, next, failed>>

\* os.path.exists is false: the content is to be written.
Miss(w) ==
    /\ pc[w] = "check"
    /\ ~exists[arg[w]]
    /\ pc' = [pc EXCEPT ![w] = "open"]
    /\ UNCHANGED <<exists, chunks, arg, next, failed, acked>>

\* open(file_path, "wb"), which empties a file that appeared meanwhile.
Open(w) ==
    /\ pc[w] = "open"
    /\ exists' = [exists EXCEPT ![arg[w]] = TRUE]
    /\ chunks' = [chunks EXCEPT ![arg[w]] = {}]
    /\ next' = [next EXCEPT ![w] = 1]
    /\ pc' = [pc EXCEPT ![w] = "write"]
    /\ UNCHANGED <<arg, failed, acked>>

\* Variant: one chunk too many is written.
WriteChunkBeyond(w) ==
    /\ pc[w] = "write"
    /\ next[w] <= K + 1
    /\ chunks' = [chunks EXCEPT ![arg[w]] = @ \cup {next[w]}]
    /\ next' = [next EXCEPT ![w] = @ + 1]
    /\ UNCHANGED <<exists, pc, arg, failed, acked>>

\* f.write and the flush of close() hand the content to the kernel, in pieces.
WriteChunk(w) ==
    /\ pc[w] = "write"
    /\ next[w] <= K
    /\ chunks' = [chunks EXCEPT ![arg[w]] = @ \cup {next[w]}]
    /\ next' = [next EXCEPT ![w] = @ + 1]
    /\ UNCHANGED <<exists, pc, arg, failed, acked>>

\* Variant: the file is left before the last chunk is flushed.
ReturnUnflushed(w) ==
    /\ pc[w] = "write"
    /\ next[w] >= K
    /\ pc' = [pc EXCEPT ![w] = "idle"]
    /\ Ack(arg[w])
    /\ UNCHANGED <<exists, chunks, arg, next, failed>>

\* The file is closed and the hash returned.
Return(w) ==
    /\ pc[w] = "write"
    /\ next[w] > K
    /\ pc' = [pc EXCEPT ![w] = "idle"]
    /\ Ack(arg[w])
    /\ UNCHANGED <<exists, chunks, arg, next, failed>>

\* The call dies; the file stays as it is.
Fail(w) ==
    /\ pc[w] # "idle"
    /\ failed' = [failed EXCEPT ![arg[w]] = @ \/ (pc[w] = "write" /\ next[w] <= K)]
    /\ pc' = [pc EXCEPT ![w] = "idle"]
    /\ UNCHANGED <<exists, chunks, arg, next, acked>>

WriteStep(w) ==
    \/ Deduplicate(w)
    \/ Miss(w)
    \/ Open(w)
    \/ WriteChunk(w)
    \/ Return(w)

Next ==
    \E w \in Writers :
        \/ \E b \in Blobs : Call(w, b)
        \/ WriteStep(w)
        \/ Fail(w)

Spec == Init /\ [][Next]_vars

\* A process that entered write() goes on until it returns or dies.
FairSpec == Spec /\ \A w \in Writers : WF_vars(WriteStep(w))

-----------------------------------------------------------------------------
TypeOK ==
    /\ exists \in [Blobs -> BOOLEAN]
    /\ chunks \in [Blobs -> SUBSET (1..K)]
    /\ pc \in [Writers -> {"idle", "check", "open", "write"}]
    /\ arg \in [Writers -> Blobs]
    /\ next \in [Writers -> 1..(K + 1)]
    /\ failed \in [Blobs -> BOOLEAN]
    /\ acked \in [Blobs -> BOOLEAN]

\* Somebody will still open, or is still filling, the file of b.
BeingWritten(b) == \E w \in Writers : arg[w] = b /\ pc[w] \in {"open", "write"}

\* Unless a write died in it, a file nobody is writing holds the whole content:
\* two processes that both missed it and overwrite each other leave no hole.
QuiescentIsWhole ==
    \A b \in Blobs :
        (exists[b] /\ ~BeingWritten(b) /\ ~failed[b]) => Whole(b)

\* Once a content is stored and nobody is writing it, it stays stored: later
\* uploads of it are deduplicated and never open the file again.
StoredStays ==
    \A b \in Blobs :
        [](Whole(b) /\ ~BeingWritten(b) => [](Whole(b) /\ ~BeingWritten(b)))

\* A content whose hash was returned is whole sooner or later, if no write of
\* it dies.  (At once it need not be: another writer may be filling the file.)
AckedBecomesWhole == \A b \in Blobs : acked[b] ~> (Whole(b) \/ failed[b])

\* The store works by "saving them exactly once" (cas.py): a returned hash names
\* the content.
AckedIsWhole == \A b \in Blobs : acked[b] => Whole(b)
=============================================================================

----------------------------- MODULE SealChain -----------------------------
(***************************************************************************)
(* Shield's tamper evidence: an append-only log with one sealed entry per  *)
(* line, a small state file with the latest signed checkpoint and the      *)
(* incidents, and the copy of both a running Shield keeps in memory.  A    *)
(* leaf is the payload it hashes, a Merkle root the sequence of leaves     *)
(* under it, and a signature is good on the root it was made for: hashes   *)
(* and Ed25519 are taken to be collision free and unforgeable.             *)
(***************************************************************************)
EXTENDS Integers, Sequences, FiniteSets, SequencesExt

CONSTANT Nothing      \* Python's None

VARIABLES
    log,        \* the log's lines: [height, payload], or Garbage
    torn,       \* the log ends in a line without its newline
    saved,      \* state file: the checkpoint's root (its height is the length)
    incidents,  \* state file and memory: what an examiner must be able to see
    leaves,     \* SealChain._leaves of the running Shield
    cp,         \* SealChain.checkpoint of the running Shield
    dirty,      \* SealChain._batch_dirty
    lock        \* SealChain._lock: the thread inside a batch, or Nothing

disk  == <<log, torn, saved>>
chain == <<log, torn, saved, incidents, leaves, cp, dirty, lock>>

\* A line that is not an entry: two writes run together.
Garbage == [height |-> 0, payload |-> Nothing]

ChainInit ==
    /\ log = <<>> /\ torn = FALSE /\ saved = Nothing /\ incidents = {}
    /\ leaves = <<>> /\ cp = Nothing /\ dirty = FALSE /\ lock = Nothing

Payloads(lines) == [i \in DOMAIN lines |-> lines[i].payload]

\* _scan_log: the entries up to the first line that is not in its place; a
\* line without its newline is not read.
ScanLog ==
    LET good == {n \in 0 .. Len(log) : \A i \in 1 .. n : log[i].height = i} IN
    SubSeq(log, 1, CHOOSE n \in good : \A m \in good : m <= n)

\* _checkpoint_matches: the signed root against the entries it covered.
CheckpointMatches(c, all) == c = Nothing \/ IsPrefix(c, all)

\* _trim_torn_tail.
TrimTornTailSkipped == torn
TrimTornTail == FALSE

\* SealChain.__init__ / _load: read the state file and the log, set aside a
\* broken log, trim a torn one, compare the checkpoint, write the state back.
Load ==
    LET good   == ScanLog
        broken == good # log
    IN  /\ log' = good
        /\ torn' = IF broken THEN FALSE ELSE TrimTornTail
        /\ leaves' = Payloads(good)
        /\ cp' = saved
        /\ incidents' = incidents
              \cup (IF broken THEN {"chain_broken"} ELSE {})
              \cup (IF CheckpointMatches(saved, Payloads(good)) THEN {}
                    ELSE {"checkpoint_mismatch"})
        /\ dirty' = FALSE /\ lock' = Nothing
        /\ UNCHANGED saved

\* _append_line: one line, flushed and synced.  After a torn line the two run
\* together.
AppendLine(p) ==
    /\ log' = Append(log, IF torn THEN Garbage ELSE [height |-> Len(leaves) + 1, payload |-> p])
    /\ torn' = FALSE

\* _stamp, inside a batch: a payload already sealed adds nothing.  (Every
\* sealing path of Shield holds a batch, so the signature waits for its end.)
Sealed(p) == p \in Range(leaves)
Stamp(p) ==
    IF Sealed(p) THEN UNCHANGED <<log, torn, leaves, dirty, saved, incidents, cp>>
    ELSE /\ AppendLine(p)
         /\ leaves' = Append(leaves, p)
         /\ dirty' = TRUE
         /\ UNCHANGED <<saved, incidents, cp>>

\* _sign_checkpoint: a root over every leaf, written with the state file.
SignCheckpoint == cp' = leaves /\ saved' = leaves

\* The end of batch(): one signature for everything it sealed.
EndBatch ==
    /\ IF dirty THEN SignCheckpoint ELSE UNCHANGED <<cp, saved>>
    /\ dirty' = FALSE /\ lock' = Nothing
    /\ UNCHANGED <<log, torn, incidents, leaves>>

\* A receipt or the Coriqo publisher signs on its own thread, between batches.
Sign ==
    /\ lock = Nothing /\ leaves # <<>> /\ cp # leaves
    /\ SignCheckpoint
    /\ UNCHANGED <<log, torn, incidents, leaves, dirty, lock>>

\* verify_chain: the log against the leaves in memory, between batches.
VerifyChain ==
    /\ lock = Nothing
    /\ incidents' = incidents
          \cup (IF ScanLog # log THEN {"chain_broken"} ELSE {})
          \cup (IF Payloads(log) # leaves THEN {"chain_changed"} ELSE {})
    /\ UNCHANGED <<log, torn, saved, leaves, cp, dirty, lock>>

\* The answer of verify_chain.
TamperEvident == incidents = {} /\ CheckpointMatches(cp, leaves)

=============================================================================

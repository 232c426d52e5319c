------------------------------- MODULE Ledger -------------------------------
(***************************************************************************)
(* The per-device hash-chained ledger (recorder/ledger.py), the            *)
(* checkpointer that signs its head (recorder/checkpoint.py) and the       *)
(* recorder that drives both (recorder/integration.py).                    *)
(*                                                                         *)
(* A writer is one Ledger object: a recorder process, or the rotation CLI  *)
(* with its own second Ledger on the same SQLite file.  Inside a writer an *)
(* RLock serialises appends, so `call' holds at most one append at a time; *)
(* between writers only SQLite's write transaction serialises.  The thread *)
(* that records agent events notes each seq with the checkpointer AFTER    *)
(* the append has released the lock; a verdict thread appends through the  *)
(* same object and never notes (verdicts.py).                              *)
(***************************************************************************)
EXTENDS Naturals, Sequences, FiniteSets, Verify

CONSTANTS
    Writers,        \* Ledger objects that may be open on the file
    Strict,         \* those opened with strict_mode=True
    Events,         \* events callers hand to append, each once
    RECORD_FAILURE, \* the kind of the marker _drain_failures writes
    EVERY_EVENTS,   \* Checkpointer.every_events
    MaxFaults,      \* bound: SQLite errors injected
    MaxCrashes      \* bound: process and OS crashes

ASSUME LedgerAssumption ==
    /\ Strict \subseteq Writers
    /\ RECORD_FAILURE \notin Events
    /\ EVERY_EVENTS \in Nat \ {0}
    /\ MaxFaults \in Nat
    /\ MaxCrashes \in Nat

VARIABLES
    rows,     \* table agent_events: seq -> row
    cps,      \* table checkpoints: seq_end -> checkpoint
    txns,     \* transactions committed so far, in WAL order
    up,       \* writer -> "down" | "open" | "closed"
    head,     \* writer -> Ledger._head
    nextSeq,  \* writer -> Ledger._next_seq
    failures, \* writer -> Ledger._pending_failures
    call,     \* writer -> the append in progress under Ledger._lock
    noting,   \* writer -> seq returned by append, not yet noted; 0 if none
    window,   \* writer -> Checkpointer's pending start, end and count
    fate,     \* event -> what became of it, as its caller could know it
    faults,   \* SQLite errors so far
    crashes   \* crashes so far

disk == <<rows, cps, txns>>
chain == <<head, nextSeq>>
checkpointer == <<noting, window>>
bounds == <<faults, crashes>>
vars == <<rows, cps, txns, up, head, nextSeq, failures, call, noting, window,
          fate, faults, crashes>>

-----------------------------------------------------------------------------
(* Data *)

Digests == [ev : Events \cup {RECORD_FAILURE}, dropped : SUBSET Events]
Hashes == Seq(Nat \X Digests)
Rows == [prev : Hashes, hash : Hashes, digest : Digests, txn : Nat]
Checkpoints == [seq_start : Nat, chain_head : Hashes, txn : Nat]
Windows == [start : Nat, end : Nat, count : Nat]
Fates == {"new", "calling", "recorded", "queued", "raised", "logged", "lost",
          "vanished"}

Idle == [step |-> "idle"]
Calls == {Idle} \cup
    [step : {"insert", "resync"}, drain : BOOLEAN, attempt : {0, 1},
     ev : Events, note : BOOLEAN]

EmptyWindow == [start |-> 0, end |-> 0, count |-> 0]

\* f with key k bound to v: an INSERT into a table keyed by k.
Insert(f, k, v) == [x \in DOMAIN f \cup {k} |-> IF x = k THEN v ELSE f[x]]

\* The rows of a table committed by transaction n or before.
UpToTxn(f, n) == [k \in {x \in DOMAIN f : f[x].txn <= n} |-> f[k]]

\* Event e has a row of its own; a record_failure marker names e.
Carried(f, e) == \E s \in DOMAIN f : f[s].digest.ev = e
Marked(f, e) == \E s \in DOMAIN f : e \in f[s].digest.dropped

\* _resume: SELECT ... ORDER BY seq DESC LIMIT 1.
MaxSeqOf(seqs) == IF seqs = {} THEN 0
                  ELSE CHOOSE s \in seqs : \A t \in seqs : t <= s
LastSeq == MaxSeqOf(DOMAIN rows)

\* Mutant of _resume: the chain restarts at genesis.
ResumeHeadMutant == GENESIS_PREV_HASH
ResumeHead == IF DOMAIN rows = {} THEN GENESIS_PREV_HASH
              ELSE rows[LastSeq].hash
ResumeNextSeq == LastSeq + 1

\* Mutant: INSERT OR REPLACE, the primary key stops nobody.
SeqFreeMutant(w) == TRUE

\* The seq primary key: does the next INSERT find its seq unused?
SeqFree(w) == nextSeq[w] \notin DOMAIN rows

-----------------------------------------------------------------------------
Init ==
    /\ rows = << >>
    /\ cps = << >>
    /\ txns = 0
    /\ up = [w \in Writers |-> "down"]
    /\ head = [w \in Writers |-> GENESIS_PREV_HASH]
    /\ nextSeq = [w \in Writers |-> 1]
    /\ failures = [w \in Writers |-> {}]
    /\ call = [w \in Writers |-> Idle]
    /\ noting = [w \in Writers |-> 0]
    /\ window = [w \in Writers |-> EmptyWindow]
    /\ fate = [e \in Events |-> "new"]
    /\ faults = 0
    /\ crashes = 0

\* Ledger.__init__: the chain continues from the last row on disk.
Open(w) ==
    /\ up[w] = "down"
    /\ up' = [up EXCEPT ![w] = "open"]
    /\ head' = [head EXCEPT ![w] = ResumeHead]
    /\ nextSeq' = [nextSeq EXCEPT ![w] = ResumeNextSeq]
    /\ failures' = [failures EXCEPT ![w] = {}]
    /\ noting' = [noting EXCEPT ![w] = 0]
    /\ window' = [window EXCEPT ![w] = EmptyWindow]
    /\ UNCHANGED <<disk, call, fate, bounds>>

\* append on a closed ledger: a write failure that is never queued.
AppendClosed(w, e) ==
    /\ up[w] = "closed"
    /\ fate[e] = "new"
    /\ fate' = [fate EXCEPT ![e] = IF w \in Strict THEN "raised" ELSE "logged"]
    /\ UNCHANGED <<disk, up, chain, failures, call, checkpointer, bounds>>

\* append takes the lock.  note says whether the recording thread called
\* (Recorder.record, which will note the seq) or a verdict thread.
BeginAppend(w, e, note) ==
    /\ up[w] = "open"
    /\ call[w] = Idle
    /\ fate[e] = "new"
    /\ note => noting[w] = 0
    /\ call' = [call EXCEPT ![w] =
            [step |-> "insert", drain |-> failures[w] # {}, attempt |-> 0,
             ev |-> e, note |-> note]]
    /\ fate' = [fate EXCEPT ![e] = "calling"]
    /\ UNCHANGED <<disk, up, chain, failures, checkpointer, bounds>>

\* What the append in progress is trying to write: the marker that names
\* every dropped event while draining, the caller's event after that.
Stamped(w) ==
    IF call[w].drain
    THEN [ev |-> RECORD_FAILURE, dropped |-> failures[w]]
    ELSE [ev |-> call[w].ev, dropped |-> {}]

\* The drain is over, well or badly: go on with the caller's event.
AfterDrain(w) ==
    call' = [call EXCEPT ![w].step = "insert", ![w].drain = FALSE,
                         ![w].attempt = 0]

\* _append_locked, the INSERT commits: the row first, the head after it.
CommitRow(w) ==
    LET seq == nextSeq[w]
        hash == compute_entry_hash(head[w], seq, Stamped(w))
    IN  /\ call[w].step = "insert"
        /\ SeqFree(w)
        /\ rows' = Insert(rows, seq,
                     [prev |-> head[w], hash |-> hash, digest |-> Stamped(w),
                      txn |-> txns + 1])
        /\ txns' = txns + 1
        /\ head' = [head EXCEPT ![w] = hash]
        /\ nextSeq' = [nextSeq EXCEPT ![w] = seq + 1]
        /\ IF call[w].drain
           THEN /\ failures' = [failures EXCEPT ![w] = {}]
                /\ AfterDrain(w)
                /\ UNCHANGED <<fate, noting>>
           ELSE /\ fate' = [fate EXCEPT ![call[w].ev] = "recorded"]
                /\ noting' = IF call[w].note
                             THEN [noting EXCEPT ![w] = seq] ELSE noting
                /\ call' = [call EXCEPT ![w] = Idle]
                /\ UNCHANGED failures
        /\ UNCHANGED <<cps, up, window, bounds>>

\* First IntegrityError on the seq primary key: roll back, resync, try again.
Collide(w) ==
    /\ call[w].step = "insert"
    /\ ~SeqFree(w)
    /\ call[w].attempt = 0
    /\ call' = [call EXCEPT ![w].step = "resync"]
    /\ UNCHANGED <<disk, up, chain, failures, checkpointer, fate, bounds>>

\* Mutant: the retry neither re-reads the head nor counts as an attempt.
ResyncMutant(w) ==
    /\ call[w].step = "resync"
    /\ call' = [call EXCEPT ![w].step = "insert"]
    /\ UNCHANGED <<disk, up, chain, failures, checkpointer, fate, bounds>>

\* Re-read the head from disk, outside any transaction.
Resync(w) ==
    /\ call[w].step = "resync"
    /\ head' = [head EXCEPT ![w] = ResumeHead]
    /\ nextSeq' = [nextSeq EXCEPT ![w] = ResumeNextSeq]
    /\ call' = [call EXCEPT ![w].step = "insert", ![w].attempt = 1]
    /\ UNCHANGED <<disk, up, failures, checkpointer, fate, bounds>>

\* Mutant: the pending list is cleared whether or not its marker was written.
OnWriteFailureMutant(w) ==
    IF call[w].drain
    THEN /\ AfterDrain(w)
         /\ failures' = [failures EXCEPT ![w] = {}]
         /\ UNCHANGED fate
    ELSE LET e == call[w].ev
         IN  /\ call' = [call EXCEPT ![w] = Idle]
             /\ failures' = IF w \in Strict THEN failures
                            ELSE [failures EXCEPT ![w] = @ \cup {e}]
             /\ fate' = [fate EXCEPT ![e] =
                            IF w \in Strict THEN "raised" ELSE "queued"]

\* _drain_failures and _on_write_failure: what a failed write does.  A
\* failed marker leaves the failures pending and the caller's event goes on;
\* a failed event is raised in strict mode and remembered otherwise.
OnWriteFailure(w) ==
    IF call[w].drain
    THEN AfterDrain(w) /\ UNCHANGED <<failures, fate>>
    ELSE LET e == call[w].ev
         IN  /\ call' = [call EXCEPT ![w] = Idle]
             /\ failures' = IF w \in Strict THEN failures
                            ELSE [failures EXCEPT ![w] = @ \cup {e}]
             /\ fate' = [fate EXCEPT ![e] =
                            IF w \in Strict THEN "raised" ELSE "queued"]

\* Another writer won the seq again between Resync and the second INSERT.
CollideAgain(w) ==
    /\ call[w].step = "insert"
    /\ ~SeqFree(w)
    /\ call[w].attempt = 1
    /\ OnWriteFailure(w)
    /\ UNCHANGED <<disk, up, chain, checkpointer, bounds>>

\* BEGIN, INSERT, COMMIT or the resync's SELECT raises another SQLite error.
WriteFault(w) ==
    /\ call[w].step # "idle"
    /\ faults < MaxFaults
    /\ faults' = faults + 1
    /\ OnWriteFailure(w)
    /\ UNCHANGED <<disk, up, chain, checkpointer, crashes>>

-----------------------------------------------------------------------------
(* Checkpointer *)

\* Mutant: the window's end is the next seq, not the last one.
EmitMutant(w, v) ==
    /\ call[w] = Idle
    /\ txns' = txns + 1
    /\ cps' = Insert(cps, v.end + 1, [seq_start |-> v.start,
                                     chain_head |-> head[w],
                                     txn |-> txns + 1])

\* append_checkpoint of _emit's checkpoint for window v: insert if no
\* checkpoint has this seq_end.  chain_head is the ledger's head at emit time.
Emit(w, v) ==
    /\ call[w] = Idle
    /\ txns' = txns + 1
    /\ cps' = IF v.end \in DOMAIN cps THEN cps
              ELSE Insert(cps, v.end, [seq_start |-> v.start,
                                       chain_head |-> head[w],
                                       txn |-> txns + 1])

\* Checkpointer.note, called by Recorder.record with append's seq.  The
\* count makes a checkpoint due; so may every_seconds, at any time.  If
\* append_checkpoint raises, record swallows it and the window stays.
Note(w) ==
    LET s == noting[w]
        v == [start |-> IF window[w].start = 0 THEN s ELSE window[w].start,
              end |-> s, count |-> window[w].count + 1]
    IN  /\ up[w] = "open"
        /\ s # 0
        /\ noting' = [noting EXCEPT ![w] = 0]
        /\ \/ /\ v.count < EVERY_EVENTS
              /\ window' = [window EXCEPT ![w] = v]
              /\ UNCHANGED <<cps, txns, faults>>
           \/ /\ Emit(w, v)
              /\ window' = [window EXCEPT ![w] = EmptyWindow]
              /\ UNCHANGED faults
           \/ /\ faults < MaxFaults
              /\ faults' = faults + 1
              /\ window' = [window EXCEPT ![w] = v]
              /\ UNCHANGED <<cps, txns>>
        /\ UNCHANGED <<rows, up, chain, failures, call, fate, crashes>>

\* Recorder.close: flush the window (its failure does not stop the close),
\* then Ledger.close.  Failures still pending have no append left to carry
\* their marker.
Close(w) ==
    /\ up[w] = "open"
    /\ call[w] = Idle
    /\ noting[w] = 0
    /\ up' = [up EXCEPT ![w] = "closed"]
    /\ \/ /\ window[w].count > 0
          /\ Emit(w, window[w])
          /\ window' = [window EXCEPT ![w] = EmptyWindow]
          /\ UNCHANGED faults
       \/ /\ window[w].count > 0
          /\ faults < MaxFaults
          /\ faults' = faults + 1
          /\ UNCHANGED <<cps, txns, window>>
       \/ /\ window[w].count = 0
          /\ UNCHANGED <<cps, txns, window, faults>>
    /\ fate' = [e \in Events |-> IF e \in failures[w] THEN "lost" ELSE fate[e]]
    /\ UNCHANGED <<rows, chain, failures, call, noting, crashes>>

-----------------------------------------------------------------------------
(* Crashes *)

\* The writer's process ends: its memory is gone, the file is untouched.
Crash(w) ==
    /\ up[w] # "down"
    /\ crashes < MaxCrashes
    /\ crashes' = crashes + 1
    /\ up' = [up EXCEPT ![w] = "down"]
    /\ call' = [call EXCEPT ![w] = Idle]
    /\ failures' = [failures EXCEPT ![w] = {}]
    /\ noting' = [noting EXCEPT ![w] = 0]
    /\ window' = [window EXCEPT ![w] = EmptyWindow]
    /\ fate' = [e \in Events |->
                  IF \/ e \in failures[w]
                     \/ call[w] # Idle /\ call[w].ev = e
                  THEN "lost" ELSE fate[e]]
    /\ UNCHANGED <<disk, chain, faults>>

\* synchronous=NORMAL: the machine stops, every writer with it, and the WAL
\* keeps only its first n transactions.
OSCrash(n) ==
    /\ crashes < MaxCrashes
    /\ crashes' = crashes + 1
    /\ n \in 0..txns
    /\ rows' = UpToTxn(rows, n)
    /\ cps' = UpToTxn(cps, n)
    /\ txns' = n
    /\ up' = [w \in Writers |-> "down"]
    /\ call' = [w \in Writers |-> Idle]
    /\ failures' = [w \in Writers |-> {}]
    /\ noting' = [w \in Writers |-> 0]
    /\ window' = [w \in Writers |-> EmptyWindow]
    /\ fate' = [e \in Events |->
                  CASE fate[e] = "calling" -> "lost"
                    [] fate[e] = "queued" /\ ~Marked(UpToTxn(rows, n), e) -> "lost"
                    [] fate[e] = "recorded" /\ ~Carried(UpToTxn(rows, n), e)
                         -> "vanished"
                    [] OTHER -> fate[e]]
    /\ UNCHANGED <<chain, faults>>

-----------------------------------------------------------------------------
\* The append in progress: whatever happens to it next.
AppendStep(w) ==
    CommitRow(w) \/ Collide(w) \/ Resync(w) \/ CollideAgain(w) \/ WriteFault(w)

WriterStep(w) ==
    \/ Open(w)
    \/ \E e \in Events : AppendClosed(w, e)
    \/ \E e \in Events, note \in BOOLEAN : BeginAppend(w, e, note)
    \/ AppendStep(w)
    \/ Note(w)
    \/ Close(w)
    \/ Crash(w)

Next ==
    \/ \E w \in Writers : WriterStep(w)
    \/ \E n \in 0..txns : OSCrash(n)

\* A running process finishes the append it is in.
Fairness == \A w \in Writers : WF_vars(AppendStep(w))

Spec == Init /\ [][Next]_vars

FairSpec == Spec /\ Fairness

-----------------------------------------------------------------------------
(* Properties *)

\* Every variable keeps its type: in particular _next_seq is never below 1,
\* so no writer can produce a row outside the seq space the verifier walks.
TypeOK ==
    /\ DOMAIN rows \subseteq Nat \ {0}
    /\ rows \in [DOMAIN rows -> Rows]
    /\ DOMAIN cps \subseteq Nat
    /\ cps \in [DOMAIN cps -> Checkpoints]
    /\ txns \in Nat
    /\ up \in [Writers -> {"down", "open", "closed"}]
    /\ head \in [Writers -> Hashes]
    /\ nextSeq \in [Writers -> Nat \ {0}]
    /\ failures \in [Writers -> SUBSET Events]
    /\ call \in [Writers -> Calls]
    /\ noting \in [Writers -> Nat]
    /\ window \in [Writers -> Windows]
    /\ fate \in [Events -> Fates]
    /\ faults \in 0..MaxFaults
    /\ crashes \in 0..MaxCrashes

\* The rows are seqs 1 to LastSeq (ledger.py _append_locked: a writer only
\* inserts right after a row it knows), each links to the one before it, and
\* they were committed in seq order.
Contiguous == LastSeq \in Nat /\ DOMAIN rows = 1..LastSeq
Linked ==
    \A s \in DOMAIN rows :
        /\ rows[s].prev = IF s = 1 THEN GENESIS_PREV_HASH ELSE rows[s - 1].hash
        /\ rows[s].hash = compute_entry_hash(rows[s].prev, s, rows[s].digest)
TxnOrder ==
    /\ \A s \in DOMAIN rows : rows[s].txn <= txns
    /\ \A s, t \in DOMAIN rows : s < t => rows[s].txn < rows[t].txn

\* An honest ledger verifies (ledger.py append/_resume against verify.py
\* _walk_chain): however writers race for a seq, fail, crash and reopen,
\* the file holds one chain from genesis with no gap and no broken link.
ChainVerifies ==
    /\ missing_ranges(DOMAIN rows) = {}
    /\ broken_links(rows) = {}

\* No open writer is ahead of the file, and what it remembers of the chain
\* is on it: a stale _next_seq always collides and is never a fork
\* (ledger.py _append_locked's resync argument).
HeadsOnChain ==
    \A w \in Writers : up[w] = "open" =>
        \/ nextSeq[w] = 1 /\ head[w] = GENESIS_PREV_HASH
        \/ nextSeq[w] - 1 \in DOMAIN rows /\ head[w] = rows[nextSeq[w] - 1].hash

\* Only an open writer is inside append: close waits for the lock and a
\* crash takes the call with it (ledger.py append, close).
CallsOpen == \A w \in Writers : call[w].step # "idle" => up[w] = "open"

\* append tells the truth about every event (ledger.py append,
\* _on_write_failure, _drain_failures): an event it returned an entry for has
\* exactly one row; one it dropped has no row and is either still pending in
\* an open writer or named by a record_failure marker on the chain; no marker
\* names an event that was recorded or refused.
Accounted ==
    \A e \in Events :
        /\ fate[e] = "recorded" <=> Carried(rows, e)
        /\ \A s, t \in DOMAIN rows :
              rows[s].digest.ev = e /\ rows[t].digest.ev = e => s = t
        /\ fate[e] = "queued" =>
              \/ \E w \in Writers : up[w] = "open" /\ e \in failures[w]
              \/ Marked(rows, e)
        /\ Marked(rows, e) => fate[e] = "queued"

\* The strengthening that makes Accounted inductive: an event is inside at
\* most one append, a drain has something to report, and a dropped event is
\* pending in one place only and not yet reported.
CallsOwnEvents ==
    /\ \A w \in Writers : call[w].step # "idle" =>
          /\ fate[call[w].ev] = "calling"
          /\ call[w].drain => failures[w] # {}
    /\ \A w, x \in Writers :
          /\ call[w].step # "idle"
          /\ call[x].step # "idle"
          /\ call[w].ev = call[x].ev
          => w = x
DroppedOnce ==
    /\ \A w \in Writers : \A e \in failures[w] :
          /\ up[w] = "open" => fate[e] = "queued" /\ ~Marked(rows, e)
          /\ up[w] = "closed" => fate[e] = "lost"
          /\ up[w] # "down"
    /\ \A w, x \in Writers : \A e \in failures[w] \cap failures[x] : w = x

\* A checkpoint signs a head of this very chain, at or after the last seq it
\* claims (checkpoint.py _emit, ledger.py append_checkpoint), also after an
\* OS crash has cut the file: no surviving signature refers to a lost row.
CheckpointsOnChain ==
    \A e \in DOMAIN cps :
        /\ cps[e].seq_start \in 1..e
        /\ e \in DOMAIN rows
        /\ \E k \in DOMAIN rows : k >= e /\ cps[e].chain_head = rows[k].hash

\* The strengthening that makes CheckpointsOnChain inductive: a window spans
\* seqs its writer has already seen committed, the seq being noted comes
\* after it, and a checkpoint was committed after the row it signs.
WindowsBehindHead ==
    \A w \in Writers : up[w] = "open" =>
        /\ noting[w] < nextSeq[w]
        /\ window[w].start = 0 <=> window[w].count = 0
        /\ window[w].count = 0 => window[w].end = 0
        /\ window[w].count > 0 => /\ window[w].start <= window[w].end
                                 /\ window[w].end < nextSeq[w]
        /\ noting[w] # 0 => window[w].end < noting[w]
SignedAfterRow ==
    \A e \in DOMAIN cps :
        /\ cps[e].seq_start \in 1..e
        /\ cps[e].txn <= txns
        /\ \E k \in DOMAIN rows : /\ k >= e
                                 /\ cps[e].chain_head = rows[k].hash
                                 /\ rows[k].txn < cps[e].txn

\* The ledger is an append-only log with crash-truncation: the digests in seq
\* order implement EvidenceLog (one linear history whatever the writers do).
Abs == INSTANCE EvidenceLog
         WITH log <- [s \in DOMAIN rows |-> rows[s].digest],
              Digests <- Digests
ImplementsLog == Abs!Spec

\* An append that took the lock gives it back (ledger.py _append_locked: at
\* most two attempts), so no writer waits for it forever.
AppendTerminates ==
    \A w \in Writers : call[w].step # "idle" ~> call[w].step = "idle"

\* seal-format.md 8: a checkpoint's chain_head is "expected to equal
\* entry_hash at seq_end"; the verifier fails any checkpoint where it is not.
CheckpointsVerify == bad_checkpoints(rows, cps) = {}
=============================================================================

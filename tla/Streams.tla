------------------------------ MODULE Streams ------------------------------
(***************************************************************************)
(* The two other streams of the shipper (recorder/shipper.py): checkpoints *)
(* for the epoch tree, and one attestation per agent of the verdicts that  *)
(* a checkpoint covers.  Each has a watermark in the ledger file           *)
(* (recorder/ledger.py).  Several recorder processes may share the file,   *)
(* each with its own checkpointer and its own shipper thread; verdicts are *)
(* appended without the checkpointer being told.  The store keeps          *)
(* checkpoints (ingest/store.py accept_checkpoints), Coriqo, external,     *)
(* seals attestations and knows one again by its chain head, which is the  *)
(* term it is computed from.                                               *)
(***************************************************************************)
EXTENDS Integers, FiniteSets, SequencesExt

CONSTANTS
    Recorders,      \* recorder processes on one ledger file
    Subjects,       \* agents that verdicts are about
    NoSubject,      \* a verdict without agent_id
    ShipLimit,      \* Shipper.max_batch_events
    MaxRows, MaxDeaths, MaxRefusals       \* bounds of the model

ASSUME StreamsAssumption ==
    /\ ShipLimit \in Nat \ {0} /\ NoSubject \notin Subjects
    /\ MaxRows \in Nat /\ MaxDeaths \in Nat /\ MaxRefusals \in Nat

VARIABLES
    rows,       \* agent_events: per seq, the subject of a verdict, or "captured"
    open,       \* Checkpointer: the window noted and not yet emitted
    checkpoints,\* table checkpoints, in the order of insertion
    synced,     \* sync_state: the checkpoint and the attestation watermark
    pass,       \* the shipper threads
    held,       \* the store's checkpoints
    sealed,     \* Coriqo: the attestations it has accepted
    deaths, refusals

streamVars == <<rows, open, checkpoints, synced, pass, held, sealed, deaths, refusals>>
recorded == <<rows, open, checkpoints>>
remote == <<held, sealed>>

NoWindow == [from |-> 0, to |-> 0]
Resting == [pc |-> "resting"]
Emitted == {checkpoints[i] : i \in DOMAIN checkpoints}

StreamsInit ==
    /\ rows = <<>> /\ open = [r \in Recorders |-> NoWindow] /\ checkpoints = <<>>
    /\ synced = [checkpoint |-> 0, attestation |-> 0]
    /\ pass = [r \in Recorders |-> Resting]
    /\ held = {} /\ sealed = {} /\ deaths = 0 /\ refusals = 0

-----------------------------------------------------------------------------
(* What fills the ledger.                                                  *)

\* Recorder.record: append, then Checkpointer.note.
Capture(r) ==
    /\ Len(rows) < MaxRows
    /\ rows' = Append(rows, "captured")
    /\ open' = [open EXCEPT ![r] =
                    [from |-> IF @ = NoWindow THEN Len(rows) + 1 ELSE @.from,
                     to |-> Len(rows) + 1]]
    /\ UNCHANGED <<checkpoints, synced, pass, remote, deaths, refusals>>

\* VerdictRecorder._append: no checkpointer hears of it.
AppendVerdict(subject) ==
    /\ Len(rows) < MaxRows
    /\ rows' = Append(rows, subject)
    /\ UNCHANGED <<open, checkpoints, synced, pass, remote, deaths, refusals>>

\* Checkpointer._emit, from note when one is due or from flush, and
\* append_checkpoint, which keeps what is there for the same seq_end.
EmitCheckpoint(r) ==
    /\ open[r] # NoWindow
    /\ checkpoints' = IF \E c \in Emitted : c.to = open[r].to THEN checkpoints
                      ELSE Append(checkpoints, open[r])
    /\ open' = [open EXCEPT ![r] = NoWindow]
    /\ UNCHANGED <<rows, synced, pass, remote, deaths, refusals>>

-----------------------------------------------------------------------------
(* ship_checkpoints_once                                                   *)

\* The first rows after a watermark, by seq_end, of which there is one each.
Unsynced(watermark) ==
    LET between(c) == {e \in Emitted : watermark < e.to /\ e.to < c.to}
    IN  {c \in Emitted : c.to > watermark /\ Cardinality(between(c)) < ShipLimit}

\* read_unsynced_checkpoints; with nothing to send the pass goes on.
ReadCheckpoints(r) ==
    /\ pass[r].pc = "resting"
    /\ LET batch == Unsynced(synced.checkpoint)
       IN  pass' = [pass EXCEPT ![r] =
                        IF batch = {} THEN [pc |-> "sent"]
                        ELSE [pc |-> "post", batch |-> batch]]
    /\ UNCHANGED <<recorded, synced, remote, deaths, refusals>>

\* accept_checkpoints: one seq_end never stands for two checkpoints.
Contradicts(c) == \E h \in held : h.to = c.to /\ h # c

\* The batch arrives.  The server may reject some of it, which its answer
\* lists; a contradiction, or a checkpoint that ends before it starts, has
\* the store refuse it whole.  (The device's last contact and its last
\* checkpoint, updated after the commit, are not told apart here.)
StoreCheckpoints(r, rejected, lost) ==
    /\ pass[r].pc = "post"
    /\ LET batch == pass[r].batch
           refused == \E c \in batch : Contradicts(c) \/ c.to < c.from
       IN  /\ rejected \subseteq batch \ held
           /\ refused => rejected = {}
           /\ held' = IF refused THEN held ELSE held \cup (batch \ rejected)
           /\ refusals' = refusals + (IF rejected = {} /\ ~lost THEN 0 ELSE 1)
           /\ refusals' <= MaxRefusals
           /\ pass' = [pass EXCEPT ![r] =
                            IF refused \/ lost THEN Resting
                            ELSE [pc |-> "answer", batch |-> @.batch, rejected |-> rejected]]
    /\ UNCHANGED <<recorded, synced, sealed, deaths>>

\* The request never arrives: ShipError ends the pass.
PostFails(r) ==
    /\ pass[r].pc = "post" /\ refusals < MaxRefusals
    /\ refusals' = refusals + 1
    /\ pass' = [pass EXCEPT ![r] = Resting]
    /\ UNCHANGED <<recorded, synced, remote, deaths>>

\* _advance_watermark: short of the first rejected seq_end past the watermark.
Advanced(current, batch, rejected) ==
    LET gaps == {c \in rejected : c.to > current}
        safe == {c \in batch : \A g \in gaps : c.to < g.to}
    IN  Max({c.to : c \in safe} \cup {current})

\* set_synced_checkpoint_up_to touches its own column only.
ReceiveCheckpointAnswer(r) ==
    /\ pass[r].pc = "answer"
    /\ synced' = [synced EXCEPT !.checkpoint =
                    Advanced(@, pass[r].batch, pass[r].rejected)]
    /\ pass' = [pass EXCEPT ![r] = [pc |-> "sent"]]
    /\ UNCHANGED <<recorded, remote, deaths, refusals>>

-----------------------------------------------------------------------------
(* ship_attestations_once                                                  *)

\* _group_attestable_by_agent and build_envelope, for one agent: its verdicts
\* in the window, which are always in the order of their seqs.  The chain head
\* is over nothing else.
Envelope(c, subject) ==
    [subject |-> subject, events |-> {seq \in c.from..c.to : rows[seq] = subject}]

\* The agents that a window has verdicts of; one without agent_id is skipped.
SubjectsOf(c) == {rows[seq] : seq \in c.from..c.to} \cap Subjects

\* The pass goes by seq_end.
First(todo) == CHOOSE c \in todo : \A e \in todo : c.to <= e.to

\* The pass turns to a checkpoint: read_range, group, start with any agent.
Turn(todo) ==
    IF todo = {} THEN Resting
    ELSE [pc |-> "attest", todo |-> todo, left |-> SubjectsOf(First(todo))]

\* read_checkpoints_pending_attestation
ReadPending(r) ==
    /\ pass[r].pc = "sent"
    /\ pass' = [pass EXCEPT ![r] = Turn(Unsynced(synced.attestation))]
    /\ UNCHANGED <<recorded, synced, remote, deaths, refusals>>

\* _attest: accepted, or known already by its chain head.
Attest(r, subject) ==
    /\ pass[r].pc = "attest" /\ subject \in pass[r].left
    /\ sealed' = sealed \cup {Envelope(First(pass[r].todo), subject)}
    /\ pass' = [pass EXCEPT ![r].left = @ \ {subject}]
    /\ UNCHANGED <<recorded, synced, held, deaths, refusals>>

\* Mutant: a refused envelope is skipped and the pass goes on.
AfterRefusalSkips(p, subject) == [p EXCEPT !.left = @ \ {subject}]

\* ShipError: nothing after it is shipped in this pass.
AfterRefusal(p, subject) == Resting

\* Refused, or unanswered, which may hide that it was sealed.
AttestFails(r, subject, landed) ==
    /\ pass[r].pc = "attest" /\ subject \in pass[r].left
    /\ refusals < MaxRefusals
    /\ refusals' = refusals + 1
    /\ sealed' = IF landed THEN sealed \cup {Envelope(First(pass[r].todo), subject)}
                 ELSE sealed
    /\ pass' = [pass EXCEPT ![r] = AfterRefusal(@, subject)]
    /\ UNCHANGED <<recorded, synced, held, deaths>>

\* set_synced_attestation_up_to, once every envelope of the checkpoint is out;
\* it raises when another shipper's watermark is past it, which ends the pass.
AttestationDone(r) ==
    /\ pass[r].pc = "attest" /\ pass[r].left = {}
    /\ LET end == First(pass[r].todo).to
       IN  IF end < synced.attestation
           THEN pass' = [pass EXCEPT ![r] = Resting] /\ UNCHANGED synced
           ELSE /\ synced' = [synced EXCEPT !.attestation = end]
                /\ pass' = [pass EXCEPT ![r] = Turn(@.todo \ {First(@.todo)})]
    /\ UNCHANGED <<recorded, remote, deaths, refusals>>

\* The process dies, with the window it had noted.
RecorderDies(r) ==
    /\ deaths < MaxDeaths
    /\ deaths' = deaths + 1
    /\ open' = [open EXCEPT ![r] = NoWindow]
    /\ pass' = [pass EXCEPT ![r] = Resting]
    /\ UNCHANGED <<rows, checkpoints, synced, remote, refusals>>

StreamsNext ==
    \/ \E subject \in Subjects \cup {NoSubject} : AppendVerdict(subject)
    \/ \E r \in Recorders :
         \/ Capture(r)
         \/ EmitCheckpoint(r)
         \/ ReadCheckpoints(r)
         \/ \E rejected \in SUBSET Emitted, lost \in BOOLEAN :
              StoreCheckpoints(r, rejected, lost)
         \/ PostFails(r)
         \/ ReceiveCheckpointAnswer(r)
         \/ ReadPending(r)
         \/ \E subject \in Subjects :
              \/ Attest(r, subject)
              \/ \E landed \in BOOLEAN : AttestFails(r, subject, landed)
         \/ AttestationDone(r)
         \/ RecorderDies(r)

StreamsSpec == StreamsInit /\ [][StreamsNext]_streamVars

-----------------------------------------------------------------------------
(* Properties.                                                             *)

\* It ends after every checkpoint inserted before it.
InOrder(i) == \A j \in 1..(i - 1) : checkpoints[j].to < checkpoints[i].to

\* shipper.py ship_checkpoints_once and ship_attestations_once: whatever is
\* lost, rejected or shipped twice, and whoever dies, the store holds every
\* checkpoint up to the one watermark, and Coriqo has sealed every agent's
\* verdicts in every window up to the other, of all checkpoints inserted in
\* the order of their seq_end; and no envelope was ever sealed that is not
\* all of an agent's verdicts in some checkpoint's window, so that a resend
\* never reshapes a batch.
StreamsComplete ==
    /\ \A i \in DOMAIN checkpoints : InOrder(i) =>
         /\ checkpoints[i].to <= synced.checkpoint => checkpoints[i] \in held
         /\ checkpoints[i].to <= synced.attestation =>
              \A subject \in SubjectsOf(checkpoints[i]) :
                 Envelope(checkpoints[i], subject) \in sealed
    /\ \A e \in sealed : \E c \in Emitted :
         e.subject \in SubjectsOf(c) /\ e = Envelope(c, e.subject)
=============================================================================

------------------------------ MODULE Sessions ------------------------------
(***************************************************************************)
(* Publishing recorded sessions to Coriqo (recorder/coriqo_agents.py       *)
(* publish_session): a trajectory, a trace per tool call in batches, the   *)
(* controls of third parties, and the close; beside it the receipt store   *)
(* (recorder/receipts.py), one row per trace, written before the trace is  *)
(* sent, and the thread that fetches the receipts.  Coriqo is external; it *)
(* may refuse, flag, alter or swallow a trace, and requests and answers    *)
(* get lost.  verify_receipts (recorder/verify.py) reads the store.        *)
(***************************************************************************)
EXTENDS Integers, FiniteSets

CONSTANTS
    MaxTraceBatch,      \* MAX_TRACE_BATCH
    UnavailableAfter,   \* UNAVAILABLE_AFTER
    MaxSteps, MaxRuns, MaxStoreFaults       \* bounds of the model

ASSUME SessionsAssumption ==
    /\ MaxTraceBatch \in Nat \ {0} /\ UnavailableAfter \in Nat \ {0}
    /\ MaxSteps \in Nat \ {0} /\ MaxRuns \in Nat /\ MaxStoreFaults \in Nat

VARIABLES
    pub,        \* publish_session
    runs,       \* Coriqo: trajectory -> what it holds of it
    store,      \* receipt store: <<trajectory, step>> -> row
    unstored,   \* history: rows whose write failed, or that were waived
    fetch       \* fetch_receipts: the row it is asking about

sessionVars == <<pub, runs, store, unstored, fetch>>

NotPublishing == [pc |-> "idle"]
Runs == DOMAIN runs
Run == pub.run
NotFetching == [pc |-> "idle"]

SessionsInit ==
    /\ pub = NotPublishing /\ runs = <<>> /\ store = [k \in {} |-> {}] /\ unstored = {}
    /\ fetch = NotFetching

\* Add a trajectory to what Coriqo holds.
Opened(n) ==
    [r \in Runs \cup {Cardinality(Runs) + 1} |->
        IF r \in Runs THEN runs[r]
        ELSE [n |-> n, status |-> "open", recorded |-> {}, altered |-> {},
              flagged |-> {}]]

\* open_trajectory, for a session with n tool calls (read_tool_steps); when
\* the answer is lost, or the agent is suspended, the publish ends here.
Open(n) ==
    /\ pub.pc = "idle" /\ Cardinality(Runs) < MaxRuns
    /\ \/ runs' = Opened(n)
          /\ pub' = [pc |-> "rows", run |-> Cardinality(Runs) + 1, n |-> n, next |-> 1,
                     flagged |-> FALSE]
       \/ runs' = Opened(n) /\ UNCHANGED pub
    /\ UNCHANGED <<store, unstored, fetch>>

-----------------------------------------------------------------------------
(* ReceiptStore: every change is one load, change and save under a lock.   *)

NewRow == [hash |-> FALSE, mismatch |-> FALSE, rejected |-> FALSE, bundle |-> FALSE,
           errors |-> 0]

Keys(r, steps) == {<<r, s>> : s \in steps}

\* A write fails rarely; then the row stays as it is.
Stored(ks, ok) == ok \subseteq ks /\ Cardinality(unstored \cup (ks \ ok)) <= MaxStoreFaults

\* record_sent, for the next step.
RecordSent ==
    /\ pub.pc = "rows"
    /\ LET k == <<Run, pub.next>>
       IN \E ok \in SUBSET {k} :
            /\ Stored({k}, ok)
            /\ store' = [x \in DOMAIN store \cup ok |-> IF x \in ok THEN NewRow ELSE store[x]]
            /\ unstored' = unstored \cup ({k} \ ok)
    /\ pub' = IF pub.next < pub.n THEN [pub EXCEPT !.next = @ + 1]
              ELSE [pub EXCEPT !.pc = "batch", !.next = 1]
    /\ UNCHANGED <<runs, fetch>>

\* content_mismatches: do the hashes echoed differ from those of what was sent?
Mismatched(k, alt) == k[2] \in alt

\* record_ack: the row, if there is one, gets the event hash it was told.
Acked(ks, alt) ==
    [x \in DOMAIN store |->
        IF x \in ks THEN [store[x] EXCEPT !.hash = TRUE, !.mismatch = Mismatched(x, alt)]
        ELSE store[x]]

\* mark_rejected leaves a row that was acknowledged alone.
MarkedRejected(ks) ==
    [x \in DOMAIN store |->
        IF x \in ks /\ ~store[x].hash THEN [store[x] EXCEPT !.rejected = TRUE] ELSE store[x]]

\* An operator waives a rejected row (forget).
Forget(k) ==
    /\ k \in DOMAIN store /\ store[k].rejected /\ Cardinality(unstored) < MaxStoreFaults
    /\ store' = [x \in DOMAIN store \ {k} |-> store[x]]
    /\ unstored' = unstored \cup {k}
    /\ UNCHANGED <<pub, runs, fetch>>

-----------------------------------------------------------------------------
(* publish_session, once the trajectory is open.                           *)

BatchEnd == IF pub.next + MaxTraceBatch - 1 < pub.n
            THEN pub.next + MaxTraceBatch - 1 ELSE pub.n
TraceBatch == pub.next..BatchEnd

Record(rec, flg, alt) ==
    LET x == runs[Run] IN
    [runs EXCEPT ![Run] = [x EXCEPT !.recorded = @ \cup rec, !.flagged = @ \cup flg,
                                    !.altered = @ \cup alt]]

\* The run is flagged when any of its batches was.
Flagged(before, flg) == before \/ flg # {}

\* The traces the answer lists; an older server lists none.
Listed(rec, full) == IF full THEN rec ELSE {}

\* A 2xx for a batch; Coriqo may have swallowed or altered some of it.
BatchAccepted(rec, flg, alt, full) ==
    /\ pub.pc = "batch"
    /\ rec \subseteq TraceBatch /\ flg \subseteq rec /\ alt \subseteq rec
    /\ runs' = Record(rec, flg, alt)
    /\ \E ok \in SUBSET Keys(Run, Listed(rec, full)) :
         /\ Stored(Keys(Run, Listed(rec, full)), ok)
         /\ store' = Acked(ok, alt)
         /\ unstored' = unstored \cup (Keys(Run, Listed(rec, full)) \ ok)
    /\ pub' = [pub EXCEPT !.flagged = Flagged(@, flg), !.next = BatchEnd + 1,
                          !.pc = IF BatchEnd = pub.n THEN "controls" ELSE "batch"]
    /\ UNCHANGED fetch

\* An error, or no answer, which may hide that the batch was recorded: this
\* and the later steps' rows are rejected.
BatchFails(landed, flg) ==
    /\ pub.pc = "batch"
    /\ flg \subseteq TraceBatch
    /\ runs' = IF landed THEN Record(TraceBatch, flg, {}) ELSE runs
    /\ store' = MarkedRejected(Keys(Run, pub.next..pub.n))
    /\ pub' = [pub EXCEPT !.pc = "quiet"]
    /\ UNCHANGED <<unstored, fetch>>

Closed(status) == [runs EXCEPT ![Run].status = status]

\* _close_quietly: best effort, then the error goes on to the caller.
CloseQuietly ==
    /\ pub.pc = "quiet"
    /\ runs' = Closed("flagged") \/ runs' = runs
    /\ pub' = NotPublishing
    /\ UNCHANGED <<store, unstored, fetch>>

\* _publish_external_controls never stops a publish.
PublishControls ==
    /\ pub.pc = "controls" /\ pub' = [pub EXCEPT !.pc = "complete"]
    /\ UNCHANGED <<runs, store, unstored, fetch>>

\* complete_trajectory; when it fails the run stays open.
Complete ==
    /\ pub.pc = "complete"
    /\ \/ runs' = Closed(IF pub.flagged THEN "flagged" ELSE "completed")
       \/ runs' = runs
    /\ pub' = NotPublishing
    /\ UNCHANGED <<store, unstored, fetch>>

PublisherDies ==
    /\ pub.pc # "idle" /\ pub' = NotPublishing
    /\ UNCHANGED <<runs, store, unstored, fetch>>

-----------------------------------------------------------------------------
(* fetch_receipts: the row is read, Coriqo is asked, the row is changed.   *)

\* awaiting: acknowledged and without a bundle, and old enough.
Await(k) ==
    /\ fetch.pc = "idle" /\ k \in DOMAIN store
    /\ store[k].hash /\ ~store[k].bundle
    /\ fetch' = [pc |-> "ask", key |-> k, erred |-> store[k].errors > 0]
    /\ UNCHANGED <<pub, runs, store, unstored>>

\* Coriqo has a receipt only for what it recorded.
Receipt ==
    /\ fetch.pc = "ask"
    /\ fetch.key[2] \in runs[fetch.key[1]].recorded
    /\ store' = IF fetch.key \in DOMAIN store
                THEN [store EXCEPT ![fetch.key].bundle = TRUE, ![fetch.key].errors = 0]
                ELSE store
    /\ fetch' = NotFetching
    /\ UNCHANGED <<pub, runs, unstored>>

\* 202: the route works, so an earlier streak of errors is over.
NotYet ==
    /\ fetch.pc = "ask"
    /\ store' = IF fetch.erred /\ fetch.key \in DOMAIN store
                THEN [store EXCEPT ![fetch.key].errors = 0] ELSE store
    /\ fetch' = NotFetching
    /\ UNCHANGED <<pub, runs, unstored>>

\* 403 or 404, counted up to where verify reports it.
Unavailable ==
    /\ fetch.pc = "ask"
    /\ store' = IF fetch.key \in DOMAIN store /\ store[fetch.key].errors < UnavailableAfter
                THEN [store EXCEPT ![fetch.key].errors = @ + 1] ELSE store
    /\ fetch' = NotFetching
    /\ UNCHANGED <<pub, runs, unstored>>

-----------------------------------------------------------------------------
(* verify_receipts, with the SDK and a pinned key; a bundle Coriqo handed  *)
(* out verifies.                                                           *)

\* Mutant: a rejected row is not reported.
RowFindingsWaived(row, overdue) ==
    IF ~row.hash
    THEN IF row.rejected THEN {} ELSE IF overdue THEN {"unacknowledged"} ELSE {}
    ELSE IF row.mismatch THEN {"content_mismatch"} ELSE {}

\* What is wrong with one row.
RowFindings(row, overdue) ==
    IF ~row.hash
    THEN IF row.rejected THEN {"batch_rejected"}
         ELSE IF overdue THEN {"unacknowledged"} ELSE {}
    ELSE (IF row.mismatch THEN {"content_mismatch"} ELSE {}) \cup
         (IF row.bundle THEN {}
          ELSE IF row.errors >= UnavailableAfter THEN {"receipts_unavailable"}
          ELSE IF overdue THEN {"receipt_overdue"} ELSE {})

\* Findings that are listed and do not fail the check.
Waived(allow_pending) == IF allow_pending THEN {"receipt_overdue"} ELSE {}

\* ok: something was tracked, and nothing found that is not waived.
VerifyReceipts(overdue, allow_pending) ==
    /\ DOMAIN store # {}
    /\ UNION {RowFindings(store[k], overdue) : k \in DOMAIN store} \subseteq
         Waived(allow_pending)

\* read_tool_steps: a session's tool calls, by index.
ToolSteps == 1..MaxSteps

\* ReceiptFetcher: one row after another, again and again.
FetchStep ==
    \/ \E k \in DOMAIN store : Await(k)
    \/ Receipt
    \/ NotYet
    \/ Unavailable

SessionsNext ==
    \/ \E n \in ToolSteps : Open(n)
    \/ RecordSent
    \/ \E k \in DOMAIN store : Forget(k)
    \/ \E rec \in SUBSET ToolSteps : \E flg, alt \in SUBSET rec, full \in BOOLEAN :
         BatchAccepted(rec, flg, alt, full)
    \/ \E landed \in BOOLEAN, flg \in SUBSET ToolSteps : BatchFails(landed, flg)
    \/ CloseQuietly
    \/ PublishControls
    \/ Complete
    \/ PublisherDies
    \/ FetchStep

SessionsSpec == SessionsInit /\ [][SessionsNext]_sessionVars

-----------------------------------------------------------------------------
(* Properties.                                                             *)

\* coriqo_agents.py publish_session, receipts.py, verify.py verify_receipts:
\* a run closed as completed has no flagged step in any of its batches; a
\* trace Coriqo recorded has a row, unless the store failed or an operator
\* waived it, and an acknowledged row is of a recorded trace; and when the
\* store verifies, late enough, every step of a completed run is recorded as
\* it was sent, whatever was lost, swallowed or altered on the way.
VerifiedMeansRecorded ==
    /\ \A r \in Runs : runs[r].status = "completed" => runs[r].flagged = {}
    /\ \A r \in Runs : \A s \in runs[r].recorded : <<r, s>> \in DOMAIN store \cup unstored
    /\ \A k \in DOMAIN store : store[k].hash => k[2] \in runs[k[1]].recorded
    /\ \A allow_pending \in BOOLEAN : VerifyReceipts(TRUE, allow_pending) =>
         \A r \in Runs : \A s \in 1..runs[r].n :
            \/ <<r, s>> \in unstored
            \/ s \in runs[r].recorded \ runs[r].altered
            \/ <<r, s>> \notin DOMAIN store /\ runs[r].status # "completed"
=============================================================================

---------------------------- MODULE ShieldBrowser ----------------------------
(***************************************************************************)
(* The browser extension's service worker and the endpoint it sends to:    *)
(* rows wait in a capped queue, a flush hands them to Shield, which files  *)
(* and seals them and answers with the number of sealed entries; the       *)
(* extension remembers the highest number it was told.  The worker and     *)
(* Shield may each be killed, and an answer may get lost.                  *)
(***************************************************************************)
EXTENDS ShieldFeed

CONSTANTS
    BrowserRows,    \* rows captured in the browser, each with its own row_id
    OtherRows,      \* rows of the proxy and the MCP gateway
    Flights,        \* flushes that may be under way at once
    AppsOff,        \* rows of apps the policy does not record
    MaxQueued,      \* MAX_QUEUED
    MaxFaults       \* bound on killed workers and lost answers

\* Every captured row gets a row_id of its own (crypto.randomUUID), and the
\* proxy and the gateway use none of them.
ASSUME BrowserAssumption ==
    /\ \A r \in BrowserRows \cup OtherRows :
          r = [kind |-> r.kind, key |-> r.key, of |-> r.of, text |-> r.text] /\ r.text \in BOOLEAN
    /\ \A r, q \in BrowserRows : r.key = q.key => r = q
    /\ \A r \in BrowserRows, q \in OtherRows : r.key # q.key
    /\ Nothing \notin Flights /\ MaxQueued \in Nat \ {0} /\ MaxFaults \in Nat

VARIABLES
    queue,      \* rows waiting; chrome.storage.session holds the same
    flight,     \* a flush: where it is, its rows, the answer it got
    req,        \* what a handler thread still has to do: rows, flight, accepted
    dedupe,     \* browser_dedupe of the running Shield
    consent, witness, rollback,     \* chrome.storage.local
    captured, filed, dropped,       \* history: rows noted, appended, given up
    faults

browser == <<queue, flight, req, dedupe, consent, witness, rollback, captured,
             filed, dropped, faults>>
vars == <<fvars, browser>>

Idle == [stage |-> "idle", batch |-> <<>>, total |-> 0]
NoRequest == [rows |-> <<>>, flight |-> Nothing, accepted |-> FALSE]

Init ==
    /\ FeedInit
    /\ queue = <<>> /\ flight = [f \in Flights |-> Idle]
    /\ req = [t \in Handlers |-> NoRequest] /\ dedupe = {}
    /\ consent = TRUE /\ witness = 0 /\ rollback = FALSE
    /\ captured = {} /\ filed = EmptyBag /\ dropped = {} /\ faults = 0

Keys(rows) == {r.key : r \in Range(rows)}

-----------------------------------------------------------------------------
(* The service worker.                                                     *)

\* The newest MAX_QUEUED rows stay, older ones are dropped.
Capped(rows) ==
    SubSeq(rows, IF Len(rows) > MaxQueued THEN Len(rows) - MaxQueued + 1 ELSE 1, Len(rows))

\* onMessage agent.capture: with consent the row is queued and a flush set up.
Capture(r) ==
    /\ consent /\ r.key \notin captured
    /\ captured' = captured \cup {r.key}
    /\ queue' = Capped(Append(queue, r))
    /\ dropped' = dropped \cup (Keys(Append(queue, r)) \ Keys(queue'))
    /\ UNCHANGED <<fvars, flight, req, dedupe, consent, witness, rollback, filed, faults>>

\* agent.setConsent off: nothing waiting is sent later.
Withdraw ==
    /\ consent /\ captured # {}
    /\ consent' = FALSE
    /\ queue' = <<>> /\ dropped' = dropped \cup Keys(queue)
    /\ UNCHANGED <<fvars, flight, req, dedupe, witness, rollback, captured, filed, faults>>

\* flush(), from its timer, the alarm or a worker that starts: it takes the
\* queue.  A newer row sets the timer again, so two may be under way.
Flush(f) ==
    /\ consent /\ queue # <<>> /\ flight[f] = Idle
    /\ flight' = [flight EXCEPT ![f] = [stage |-> "check", batch |-> queue, total |-> 0]]
    /\ queue' = <<>>
    /\ UNCHANGED <<fvars, req, dedupe, consent, witness, rollback, captured, filed, dropped, faults>>

\* checkServer found the paired Shield; the rows are posted.
Post(f, t) ==
    /\ flight[f].stage = "check"
    /\ up /\ pc[Main] = "serving" /\ At(t, "idle", "ingest")
    /\ req' = [req EXCEPT ![t] = [rows |-> flight[f].batch, flight |-> f, accepted |-> FALSE]]
    /\ flight' = [flight EXCEPT ![f] = [flight[f] EXCEPT !.stage = "posted"]]
    /\ UNCHANGED <<chain, ledger, up, work, lines, scanned, offset, pollLock, seen, items,
                   passed, crashes, scrubs, queue, dedupe, consent, witness, rollback,
                   captured, filed, dropped, faults>>

\* flush's catch: the rows go back in front of the newer ones, within the cap,
\* unless consent was withdrawn while they were out.
PutBackNewest(batch) == queue
PutBack(batch) == Capped(batch \o queue)

PutsBack(f) ==
    LET back == IF consent THEN PutBack(flight[f].batch) ELSE <<>>
        cut  == IF consent THEN Capped(flight[f].batch \o queue) ELSE <<>>
    IN  /\ queue' = back
        /\ dropped' = dropped \cup (Keys(flight[f].batch \o queue) \ Keys(cut))
        /\ flight' = [flight EXCEPT ![f] = Idle]

\* No Shield there, another program on its port, or the connection died with
\* the Shield that was answering.
Refused(f) ==
    /\ \/ flight[f].stage = "check" /\ ~up
       \/ flight[f].stage = "posted" /\ \A t \in Handlers : req[t].flight # f
    /\ PutsBack(f)
    /\ UNCHANGED <<fvars, req, dedupe, consent, witness, rollback, captured, filed, faults>>

\* The answer gets lost on its way.
LoseAnswer(f) ==
    /\ flight[f].stage = "answered" /\ faults < MaxFaults
    /\ PutsBack(f) /\ faults' = faults + 1
    /\ UNCHANGED <<fvars, req, dedupe, consent, witness, rollback, captured, filed>>

\* The answer arrives: noteWitness compares the count with the highest known.
\* The warning stays until the person accepts the shorter record.
NoteWitness(f) ==
    /\ flight[f].stage = "answered"
    /\ rollback' = (rollback \/ flight[f].total < witness)
    /\ witness' = IF ~rollback /\ flight[f].total > witness THEN flight[f].total ELSE witness
    /\ flight' = [flight EXCEPT ![f] = Idle]
    /\ UNCHANGED <<fvars, queue, req, dedupe, consent, captured, filed, dropped, faults>>

\* acceptRecord, from the popup, with the count Shield reports now.
AcceptRecord ==
    /\ rollback /\ up /\ pc[Main] = "serving"
    /\ rollback' = FALSE /\ witness' = Len(leaves)
    /\ UNCHANGED <<fvars, queue, flight, req, dedupe, consent, captured, filed, dropped, faults>>

\* Chrome ends the worker: its flushes go with it, the queue is read back.
KillWorker ==
    /\ faults < MaxFaults /\ faults' = faults + 1
    /\ \E f \in Flights : flight[f] # Idle
    /\ dropped' = dropped \cup UNION {Keys(flight[f].batch) : f \in Flights}
    /\ flight' = [f \in Flights |-> Idle]
    /\ req' = [t \in Handlers |-> [req[t] EXCEPT !.flight = Nothing]]
    /\ UNCHANGED <<fvars, queue, dedupe, consent, witness, rollback, captured, filed>>

-----------------------------------------------------------------------------
(* POST /api/browser.                                                      *)

\* A row whose row_id was seen is a retry.
Fresh(r) == r.key \notin dedupe

\* _browser_ingest, one row: cleaned, deduplicated, and filed when its app is on.
IngestRow(t) ==
    LET r == Head(req[t].rows)
        file == Fresh(r) /\ r.key \notin AppsOff
    IN  /\ pc[t] = "ingest" /\ req[t].rows # <<>>
        /\ dedupe' = dedupe \cup {r.key}
        /\ IF file THEN AppendRow(r) /\ filed' = filed (+) SetToBag({r.key})
           ELSE UNCHANGED <<ledger, filed>>
        /\ req' = [req EXCEPT ![t] = [rows |-> Tail(req[t].rows), flight |-> req[t].flight,
                                      accepted |-> req[t].accepted \/ file]]
        /\ Goto(t, IF Len(req[t].rows) > 1 THEN "ingest"
                   ELSE IF req[t].accepted \/ file THEN "poll" ELSE "reply")
        /\ UNCHANGED <<chain, up, work, lines, scanned, offset, pollLock, seen, items, passed,
                       crashes, scrubs, queue, flight, consent, witness, rollback, captured,
                       dropped, faults>>

\* Sealed now, not on the watcher's next tick.
IngestPoll(t) == PollTake(t, "poll") /\ UNCHANGED browser

\* The answer: how many were accepted and how many entries are sealed.
Answer(t) ==
    /\ At(t, "reply", "idle")
    /\ flight' = IF req[t].flight = Nothing THEN flight
                 ELSE [flight EXCEPT ![req[t].flight] =
                          [stage |-> "answered", batch |-> flight[req[t].flight].batch,
                           total |-> Len(leaves)]]
    /\ req' = [req EXCEPT ![t] = NoRequest]
    /\ UNCHANGED <<chain, ledger, up, work, lines, scanned, offset, pollLock, seen, items,
                   passed, crashes, scrubs, queue, dedupe, consent, witness, rollback,
                   captured, filed, dropped, faults>>

\* The proxy or the gateway files one of its rows, in their order.
OtherAppend(r) ==
    /\ Copies(r.key, filed) = 0
    /\ r.kind \in {"result", "reply"} =>
          \E o \in OtherRows : o.kind \in {"call", "send"} /\ o.of = r.of /\ Copies(o.key, filed) > 0
    /\ ProxyAppend(r)
    /\ filed' = filed (+) SetToBag({r.key})
    /\ UNCHANGED <<queue, flight, req, dedupe, consent, witness, rollback, captured, dropped, faults>>

\* Shield is killed; what its handlers had in hand is gone.
ShieldCrash ==
    /\ Crash
    /\ req' = [t \in Handlers |-> NoRequest] /\ dedupe' = {}
    /\ UNCHANGED <<queue, flight, consent, witness, rollback, captured, filed, dropped, faults>>

ShieldStep ==
    \/ Start \/ ScanBegin \/ ScanRead \/ ScanOffset \/ WatcherPoll \/ ScrubLedger
    \/ \E t \in Threads : AbsorbRow(t) \/ FinishPoll(t)
    \/ \E t \in Handlers : Resync(t)
    \/ up /\ pc[Main] = "serving" /\ (Sign \/ VerifyChain)
          /\ UNCHANGED <<feed, crashes, scrubs>>

Next ==
    \/ ShieldStep /\ UNCHANGED browser
    \/ ShieldCrash
    \/ \E t \in Handlers : IngestRow(t) \/ IngestPoll(t) \/ Answer(t)
    \/ \E r \in OtherRows : OtherAppend(r)
    \/ \E r \in BrowserRows : Capture(r)
    \/ \E f \in Flights : \/ Flush(f) \/ Refused(f) \/ LoseAnswer(f) \/ NoteWitness(f)
                          \/ \E t \in Handlers : Post(f, t)
    \/ Withdraw \/ AcceptRecord \/ KillWorker

Spec == Init /\ [][Next]_vars

-----------------------------------------------------------------------------
(* Properties.                                                             *)

\* Killing Shield at any step, in the middle of writing a log line included,
\* and restarting it never makes an untouched record look edited: no incident
\* is noted and the signed checkpoint matches the entries (SealChain._load,
\* verify_chain).
NoFalseAlarm == incidents = {} /\ (up => TamperEvident)

SealedKeys == {leaves[i].id.key : i \in DOMAIN leaves}

\* When /api/browser answers, every row it filed is sealed, whichever thread
\* did it (_browser_ingest: "poll() is locked").  Only a scrub that ran at the
\* same time may have moved the feed past a row.
SealedWhenAnswered ==
    \A t \in Handlers : pc[t] = "reply" /\ req[t].flight # Nothing =>
        LET sent == {r \in Range(flight[req[t].flight].batch) : r.kind = "send"} IN
        {r.key : r \in sent} \cap Keys(ledger) \subseteq SealedKeys \cup passed

\* A row captured with consent is waiting, on its way, or filed, unless it was
\* given up for a reason the worker has: the cap, a withdrawal, or Chrome
\* ending it in the middle of a flush.  A row the extension sends again after a
\* lost answer is filed once, as long as Shield was not restarted in between
\* (browser_dedupe).
RowsArriveOnce ==
    /\ captured \subseteq
         Keys(queue) \cup (UNION {Keys(flight[f].batch) : f \in Flights})
         \cup DOMAIN filed \cup dropped \cup AppsOff
    /\ \A k \in {r.key : r \in BrowserRows} : Copies(k, filed) <= 1 + crashes
=============================================================================

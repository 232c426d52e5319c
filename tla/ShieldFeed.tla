----------------------------- MODULE ShieldFeed -----------------------------
(***************************************************************************)
(* Shield's record of what was sent to AI apps: the ledger file that the   *)
(* proxy, the MCP gateway and the browser ingest append to, and the Feed   *)
(* that turns its rows into interactions and seals them.  The startup      *)
(* scan, the watcher thread and the request handlers run in one process    *)
(* that may be killed at any step.                                         *)
(***************************************************************************)
EXTENDS SealChain, Bags

CONSTANTS
    Main, Watcher,      \* the thread in serve() and the watcher thread
    Handlers,           \* request handler threads
    KeptText,           \* keys of rows stored with message text
    OldRows,            \* keys of rows past their retention
    MaxItems,           \* ShieldConfig.max_interactions
    MaxTrouble          \* bound on crashes and scrubs of one behaviour

Threads == {Main, Watcher} \cup Handlers

\* The threads are told apart by their identity.
ASSUME FeedAssumption ==
    /\ Main # Watcher /\ {Main, Watcher} \cap Handlers = {} /\ Nothing \notin Threads
    /\ MaxItems \in Nat /\ MaxTrouble \in Nat

VARIABLES
    ledger,     \* the ledger's rows
    up,         \* Shield is running
    pc,         \* where each thread is
    work,       \* lines a thread has read and not absorbed yet
    lines,      \* scan_initial's lines, as many as it read
    scanned, offset,    \* Feed._scanned, Feed._offset
    pollLock,   \* Feed._poll_lock
    seen,       \* Feed._seen_rows: how often a row's key was met
    items,      \* Feed.items, newest first
    passed,     \* history: rows the offset was moved past unread
    crashes, scrubs

feed == <<ledger, up, pc, work, lines, scanned, offset, pollLock, seen, items, passed>>
fvars == <<chain, feed, crashes, scrubs>>

\* A ledger row: its kind, the fields _row_id_for keys it by, the call or the
\* send it belongs to, and whether its text is still there.
Row(kind, key, of) == [kind |-> kind, key |-> key, of |-> of, text |-> key \in KeptText]

FeedInit ==
    /\ ChainInit
    /\ ledger = <<>> /\ up = FALSE
    /\ pc = [t \in Threads |-> "idle"]
    /\ work = [t \in Threads |-> <<>>] /\ lines = 0
    /\ scanned = FALSE /\ offset = 0 /\ pollLock = Nothing
    /\ seen = EmptyBag /\ items = <<>> /\ passed = {}
    /\ crashes = 0 /\ scrubs = 0

At(t, here, there) == pc[t] = here /\ pc' = [pc EXCEPT ![t] = there]
Goto(t, there) == pc' = [pc EXCEPT ![t] = there]

-----------------------------------------------------------------------------
(* Rows into interactions.                                                 *)

\* append_row: one line under the ledger's file lock.
AppendRow(r) == ledger' = Append(ledger, r)

\* How many copies of a key a bag holds.
Copies(k, bag) == IF k \in DOMAIN bag THEN bag[k] ELSE 0

\* _row_id_for: the n-th row with this key, text and scrub markers left out.
RowIdFor(r) == [key |-> r.key, n |-> Copies(r.key, seen) + 1]

\* The payload _add seals: what happened, and the fingerprint of the text in
\* place of the text (a scrub computes it anew).
SealPayload(id, r) == [id |-> id, text |-> r.text, outcome |-> "sent"]

\* _add: a message is sealed at once, a running tool call when it ends.
NewItem(r) == [id |-> RowIdFor(r), of |-> r.of, payload |-> SealPayload(RowIdFor(r), r),
               running |-> r.kind = "call"]

\* close_seal, _attach_tools, _attach_reply: the item a later row is about,
\* matched by the call id or the send id.
MatchIn(r) == {i \in DOMAIN items : /\ items[i].of = r.of
                                    /\ items[i].running = (r.kind = "result")}
Matched(r) == CHOOSE i \in MatchIn(r) : \A j \in MatchIn(r) : i <= j

\* _absorb: one row of the ledger.  A status, a health row or a row that
\* matches nothing changes no seal.
Absorb(r) ==
    /\ seen' = seen (+) SetToBag({r.key})
    /\ CASE r.kind \in {"send", "call"} ->
              /\ items' = SubSeq(<<NewItem(r)>> \o items, 1,
                                 IF Len(items) < MaxItems THEN Len(items) + 1 ELSE MaxItems)
              /\ IF r.kind = "send" THEN Stamp(NewItem(r).payload)
                 ELSE UNCHANGED <<log, torn, leaves, dirty, saved, incidents, cp>>
         [] r.kind \in {"result", "reply"} /\ MatchIn(r) # {} ->
              LET i == Matched(r)
                  p == [items[i].payload EXCEPT !.outcome = r.kind]
              IN  items' = [items EXCEPT ![i].running = FALSE] /\ Stamp(p)
         [] OTHER -> UNCHANGED <<items, log, torn, leaves, dirty, saved, incidents, cp>>

-----------------------------------------------------------------------------
(* The startup scan, the watcher and scrubbing.                            *)

\* Rows whose date is past retention are deleted; the n-th row left is the one
\* with n of them up to it.
Retained(rows) ==
    LET kept == {i \in DOMAIN rows : rows[i].key \notin OldRows}
    IN  [n \in 1 .. Cardinality(kept) |->
            rows[CHOOSE i \in kept : Cardinality({j \in kept : j <= i}) = n]]

\* main() and serve() up to the first scan: the Feed is made (which loads the
\* chain), the watcher started, and rows past their retention deleted.
Start ==
    /\ ~up /\ up' = TRUE
    /\ Load
    /\ ledger' = Retained(ledger)
    /\ pc' = [t \in Threads |-> IF t = Main THEN "scan" ELSE "idle"]
    /\ UNCHANGED <<work, lines, scanned, offset, pollLock, seen, items, passed, crashes, scrubs>>

\* scan_initial, its first line.
ScanBegin ==
    /\ At(Main, "scan", "scanRead")
    /\ scanned' = TRUE
    /\ UNCHANGED <<chain, ledger, up, lines, work, offset, pollLock, seen, items, passed, crashes, scrubs>>

\* scan_initial reads the ledger.
ScanRead ==
    /\ At(Main, "scanRead", IF ledger = <<>> THEN "scanOffset" ELSE "absorb")
    /\ work' = [work EXCEPT ![Main] = ledger]
    /\ lines' = Len(ledger)
    /\ UNCHANGED <<chain, ledger, up, scanned, offset, pollLock, seen, items, passed, crashes, scrubs>>

\* One line of a batch: the first takes the chain's lock.
AbsorbRow(t) ==
    /\ pc[t] = "absorb" /\ work[t] # <<>> /\ lock \in {Nothing, t}
    /\ lock' = t
    /\ Absorb(Head(work[t]))
    /\ work' = [work EXCEPT ![t] = Tail(@)]
    /\ pc' = [pc EXCEPT ![t] = IF Len(work[t]) = 1 THEN "endBatch" ELSE "absorb"]
    /\ UNCHANGED <<ledger, up, lines, scanned, offset, pollLock, passed, crashes, scrubs>>

\* The batch ends: sign, let go of the locks.
FinishPoll(t) ==
    /\ At(t, "endBatch", IF t \in Handlers THEN "reply" ELSE IF t = Main THEN "scanOffset" ELSE "idle")
    /\ EndBatch
    /\ pollLock' = IF pollLock = t THEN Nothing ELSE pollLock
    /\ UNCHANGED <<ledger, up, lines, work, scanned, offset, seen, items, passed, crashes, scrubs>>

\* scan_initial's last line; from here on requests are served.
ScanOffset ==
    /\ At(Main, "scanOffset", "serving")
    /\ offset' = lines /\ lines' = 0
    /\ UNCHANGED <<chain, ledger, up, work, scanned, pollLock, seen, items, passed, crashes, scrubs>>

\* History: rows behind the offset that nobody has absorbed or holds.
Skipped(n, w) ==
    {r.key : r \in Range(SubSeq(ledger, 1, n))}
        \ (DOMAIN seen \cup {r.key : r \in UNION {Range(w[t]) : t \in Threads}})
Scrubbing == \E t \in Handlers : pc[t] = "resync"

\* Feed.poll / _poll_locked: the lines after the offset are this thread's.
\* Nothing is taken before the scan began; a shorter file was rewritten.
\* (The stat() shortcut only skips a poll with nothing to read.)
PollLockIgnored == TRUE
PollLockFree == pollLock = Nothing
PollTake(t, from) ==
    /\ pc[t] = from /\ PollLockFree
    /\ LET n == Len(ledger)
           new == IF scanned /\ offset < n THEN SubSeq(ledger, offset + 1, n) ELSE <<>>
       IN  /\ offset' = IF scanned THEN n ELSE offset
           /\ work' = [work EXCEPT ![t] = new]
           /\ pollLock' = IF new = <<>> THEN pollLock ELSE t
           /\ Goto(t, IF new # <<>> THEN "absorb"
                      ELSE IF t \in Handlers THEN "reply" ELSE "idle")
           /\ passed' = IF Scrubbing THEN passed \cup Skipped(offset', work') ELSE passed
    /\ UNCHANGED <<chain, ledger, up, lines, scanned, seen, items, crashes, scrubs>>

WatcherPoll == up /\ scanned /\ offset # Len(ledger) /\ PollTake(Watcher, "idle")

\* POST /api/privacy/scrub: every stored text becomes its fingerprint and rows
\* past retention go, in place and under the ledger's lock.
ScrubLedger ==
    /\ up /\ pc[Main] = "serving" /\ crashes + scrubs < MaxTrouble
    /\ \E t \in Handlers :
          /\ At(t, "idle", "resync")
          /\ LET kept == Retained(ledger) IN
             ledger' = [i \in DOMAIN kept |-> [kept[i] EXCEPT !.text = FALSE]]
    /\ scrubs' = scrubs + 1
    /\ UNCHANGED <<chain, up, lines, work, scanned, offset, pollLock, seen, items, passed, crashes>>

\* Feed.resync, after it and without either lock.
Resync(t) ==
    /\ At(t, "resync", "idle")
    /\ offset' = Len(ledger)
    /\ passed' = passed \cup Skipped(Len(ledger), work)
    /\ UNCHANGED <<chain, ledger, up, lines, work, scanned, pollLock, seen, items, crashes, scrubs>>

\* The proxy or the MCP gateway files a row: another process.
ProxyAppend(r) ==
    /\ AppendRow(r)
    /\ UNCHANGED <<chain, up, lines, pc, work, scanned, offset, pollLock, seen, items, passed, crashes, scrubs>>

\* The process dies.  A line of the log may be half written.
Crash ==
    /\ up /\ crashes + scrubs < MaxTrouble
    /\ up' = FALSE /\ crashes' = crashes + 1
    /\ torn' \in {torn, lock # Nothing}
    /\ leaves' = <<>> /\ cp' = Nothing /\ dirty' = FALSE /\ lock' = Nothing
    /\ pc' = [t \in Threads |-> "idle"] /\ work' = [t \in Threads |-> <<>>]
    /\ lines' = 0
    /\ scanned' = FALSE /\ offset' = 0 /\ pollLock' = Nothing
    /\ seen' = EmptyBag /\ items' = <<>> /\ passed' = {}
    /\ UNCHANGED <<log, saved, incidents, ledger, scrubs>>

=============================================================================

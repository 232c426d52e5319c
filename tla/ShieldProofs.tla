---------------------------- MODULE ShieldProofs ----------------------------
(***************************************************************************)
(* Proofs about Shield.  ShieldPolicy: for any policies an administrator   *)
(* writes, any edits the person makes and any number of versions and       *)
(* failed polls.  ShieldBrowser, over ShieldFeed and SealChain: for any    *)
(* rows, flushes, handlers, kills, scrubs and lost answers.                *)
(***************************************************************************)
EXTENDS FiniteSetTheorems, SequenceTheorems, WellFoundedInduction, ShieldPolicy,
        ShieldBrowser, TLAPS

-----------------------------------------------------------------------------
(* The inductive invariant *)

RowSet(n) == [version : 1..n, policy : AdminPolicies \cup {None}]

\* A row that the device holds, or is about to, is the effective one or older.
NotAhead(row) ==
    row # None =>
        /\ Effective # None /\ row.version <= Effective.version
        /\ row.version = Effective.version => row = Effective

ServerOK ==
    /\ versions \in Nat
    /\ default \in {None} \cup RowSet(versions)
    /\ override \in {None} \cup RowSet(versions)
    /\ reissue \in BOOLEAN /\ stranded \in BOOLEAN
    /\ reissue => Live(default) /\ override # None /\ override.policy = None
DeviceOK ==
    /\ held \in {None} \cup RowSet(versions)
    /\ poll \in {None} \cup RowSet(versions)
    /\ reported = None \/ (held # None /\ reported \in 1..held.version)
    /\ ~stranded /\ ~reissue => NotAhead(held) /\ NotAhead(poll)

PolicyInv == ServerOK /\ DeviceOK

-----------------------------------------------------------------------------
(* Rows *)

\* A row is not None, and stays a row as versions are added.
LEMMA RowIs ==
    ASSUME NEW n \in Nat
    PROVE  /\ \A p \in AdminPolicies \cup {None} :
                /\ PolicyRow(n + 1, p) \in RowSet(n + 1)
                /\ PolicyRow(n + 1, p).version = n + 1 /\ PolicyRow(n + 1, p).policy = p
           /\ RowSet(n) \subseteq RowSet(n + 1)
           /\ \A row \in RowSet(n) : row # None /\ row.version \in 1..n
<1>1. None \notin [version : Nat, policy : AdminPolicies \cup {None}]
    BY PolicyAssumption
<1>2. 1..n \subseteq Nat /\ 1..n \subseteq 1..(n + 1) /\ n + 1 \in 1..(n + 1)
    OBVIOUS
<1> QED
    BY <1>1, <1>2 DEF PolicyRow, RowSet

\* A row written above all others, once effective, is ahead of what was sent.
LEMMA NewestIsAhead ==
    ASSUME ServerOK, DeviceOK, versions' = versions + 1, UNCHANGED <<held, poll>>,
           Effective' # None, Effective'.version = versions'
    PROVE  NotAhead(held)' /\ NotAhead(poll)'
<1>1. versions \in Nat
    BY DEF ServerOK
<1>2. ASSUME NEW row \in {None} \cup RowSet(versions), row # None
      PROVE  row.version \in Nat /\ row.version < versions + 1
  <2>1. row.version \in 1..versions
      BY <1>1, <1>2, RowIs
  <2>2. \A n \in Nat : \A v \in 1..n : v \in Nat /\ v < n + 1
      OBVIOUS
  <2> QED
      BY <1>1, <2>1, <2>2
<1> QED
    BY <1>1, <1>2 DEF NotAhead, DeviceOK

\* Where the effective row does not change, nothing gets ahead of it.
LEMMA SameIsAhead ==
    ASSUME NotAhead(held), NotAhead(poll), UNCHANGED <<held, poll>>, Effective' = Effective
    PROVE  NotAhead(held)' /\ NotAhead(poll)'
BY DEF NotAhead

\* What the device holds is still a row when the server writes another.
LEMMA DeviceKeeps ==
    ASSUME ServerOK, DeviceOK, versions' \in {versions, versions + 1}, UNCHANGED device,
           ~stranded' /\ ~reissue' => NotAhead(held)' /\ NotAhead(poll)'
    PROVE  DeviceOK'
<1>1. RowSet(versions) \subseteq RowSet(versions')
    BY RowIs DEF ServerOK
<1> QED
    BY <1>1 DEF DeviceOK, device

-----------------------------------------------------------------------------
(* The server's steps *)

\* PUT /policy and DELETE /policy.
LEMMA PutDefaultInv ==
    ASSUME ServerOK, DeviceOK, NEW p \in AdminPolicies \cup {None}, PutDefault(p)
    PROVE  ServerOK' /\ DeviceOK'
<1>1. /\ versions' = versions + 1 /\ ~reissue /\ default' = PolicyRow(versions + 1, p)
      /\ UNCHANGED <<override, reissue, stranded, device>>
    BY DEF PutDefault, NextVersion
<1>2. versions \in Nat
    BY DEF ServerOK
<1>3. /\ default' \in RowSet(versions') /\ default' # None /\ default'.version = versions + 1
      /\ override' \in {None} \cup RowSet(versions')
  <2>1. versions + 1 \in Nat
      BY <1>2
  <2>2. default' \in RowSet(versions + 1) /\ default'.version = versions + 1
      BY <1>1, <1>2, RowIs
  <2>3. default' # None
      BY <2>1, <2>2, RowIs
  <2> QED
      BY <1>1, <1>2, <2>2, <2>3, RowIs DEF ServerOK
<1>4. ServerOK'
    BY <1>1, <1>2, <1>3 DEF ServerOK
<1>5. ASSUME ~stranded', ~reissue' PROVE NotAhead(held)' /\ NotAhead(poll)'
  <2>1. CASE Live(override)
    <3>1. Effective' = Effective
        BY <1>1, <2>1 DEF Effective, Live
    <3>2. NotAhead(held) /\ NotAhead(poll)
        BY <1>1, <1>5 DEF DeviceOK
    <3> QED
        BY <1>1, <3>1, <3>2, SameIsAhead DEF device
  <2>2. CASE ~Live(override)
    <3>1. override = None \/ override.version \in 1..versions
        BY <1>2, RowIs DEF ServerOK
    <3>2. override = None \/ default'.version > override.version
        BY <1>2, <1>3, <3>1
    <3>3. Effective' = default'
        BY <1>1, <1>3, <2>2, <3>2 DEF Effective, Live
    <3> QED
        BY <1>1, <1>3, <3>3, NewestIsAhead DEF device
  <2> QED
      BY <2>1, <2>2
<1> QED
    BY <1>1, <1>4, <1>5, DeviceKeeps

\* PUT /devices/{id}/policy.
LEMMA PutOverrideInv ==
    ASSUME ServerOK, DeviceOK, NEW p \in AdminPolicies, PutOverride(p)
    PROVE  ServerOK' /\ DeviceOK'
<1>1. /\ versions' = versions + 1 /\ ~reissue /\ override' = PolicyRow(versions + 1, p)
      /\ UNCHANGED <<default, reissue, stranded, device>>
    BY DEF PutOverride, NextVersion
<1>2. versions \in Nat /\ versions + 1 \in Nat
    BY DEF ServerOK
<1>3. /\ override' \in RowSet(versions + 1) /\ override'.version = versions + 1
      /\ override'.policy = p
    BY <1>1, <1>2, RowIs
<1>4. override' # None /\ p # None
    BY <1>2, <1>3, RowIs, PolicyAssumption
<1>5. ServerOK'
    BY <1>1, <1>2, <1>3, RowIs DEF ServerOK
<1>6. Effective' = override'
    BY <1>3, <1>4 DEF Effective, Live
<1>7. NotAhead(held)' /\ NotAhead(poll)'
    BY <1>1, <1>3, <1>4, <1>6, NewestIsAhead DEF device
<1> QED
    BY <1>1, <1>5, <1>7, DeviceKeeps

\* release_device_override: without a live default, the tombstone is the newest.
LEMMA ReleaseInv ==
    ASSUME ServerOK, DeviceOK, ReleaseOverride
    PROVE  ServerOK' /\ DeviceOK'
<1>1. /\ versions' = versions + 1 /\ ~reissue /\ override' = PolicyRow(versions + 1, None)
      /\ reissue' = Live(default) /\ UNCHANGED <<default, stranded, device>>
    BY DEF ReleaseOverride, NextVersion, NeedsReissue
<1>2. versions \in Nat /\ versions + 1 \in Nat
    BY DEF ServerOK
<1>3. /\ override' \in RowSet(versions + 1) /\ override'.version = versions + 1
      /\ override'.policy = None
    BY <1>1, <1>2, RowIs
<1>4. override' # None
    BY <1>2, <1>3, RowIs
<1>5. ServerOK'
    BY <1>1, <1>2, <1>3, <1>4, RowIs DEF ServerOK, Live
<1>6. ASSUME ~stranded', ~reissue' PROVE NotAhead(held)' /\ NotAhead(poll)'
  <2>1. ~Live(default)
      BY <1>1, <1>6
  <2>2. default = None \/ default.version \in 1..versions
      BY <1>2, RowIs DEF ServerOK
  <2>3. default = None \/ ~(default.version > override'.version)
      BY <1>2, <1>3, <2>2
  <2>4. Effective' = override'
      BY <1>1, <1>3, <1>4, <2>1, <2>3 DEF Effective, Live
  <2> QED
      BY <1>1, <1>3, <1>4, <2>4, NewestIsAhead DEF device
<1> QED
    BY <1>1, <1>5, <1>6, DeviceKeeps

\* _reissue_default_above: the default is effective and the newest again.
LEMMA ReissueInv ==
    ASSUME ServerOK, DeviceOK, ReissueDefault
    PROVE  ServerOK' /\ DeviceOK'
<1>1. /\ versions' = versions + 1 /\ reissue /\ ~reissue' /\ reissue' = FALSE
      /\ default' = PolicyRow(versions + 1, default.policy)
      /\ UNCHANGED <<override, stranded, device>>
    BY DEF ReissueDefault
<1>2. versions \in Nat /\ versions + 1 \in Nat
    BY DEF ServerOK
<1>3. /\ default \in RowSet(versions) /\ default.policy # None
      /\ override # None /\ override.policy = None
    BY <1>1 DEF ServerOK, Live
<1>4. default.policy \in AdminPolicies \cup {None}
    BY <1>3 DEF RowSet
<1>5. /\ default' \in RowSet(versions + 1) /\ default'.version = versions + 1
      /\ default'.policy = default.policy
    BY <1>1, <1>2, <1>4, RowIs
<1>6. default' # None
    BY <1>2, <1>5, RowIs
<1>7. ServerOK'
    BY <1>1, <1>2, <1>5, RowIs DEF ServerOK
<1>8. Effective' = default'
    BY <1>1, <1>3, <1>5, <1>6 DEF Effective, Live
<1>9. NotAhead(held)' /\ NotAhead(poll)'
    BY <1>1, <1>5, <1>6, <1>8, NewestIsAhead DEF device
<1> QED
    BY <1>1, <1>7, <1>9, DeviceKeeps

\* The server dies half-way through a release.
LEMMA ServerCrashInv ==
    ASSUME ServerOK, DeviceOK, ServerCrash
    PROVE  ServerOK' /\ DeviceOK'
<1>1. /\ reissue' = FALSE /\ stranded' = TRUE /\ UNCHANGED <<override, default, versions, device>>
    BY DEF ServerCrash
<1>2. ServerOK'
    BY <1>1 DEF ServerOK
<1> QED
    BY <1>1, <1>2, DeviceKeeps

-----------------------------------------------------------------------------
(* The device's steps *)

\* poll_policy: what is on its way is what is effective.
LEMMA PollInv ==
    ASSUME ServerOK, DeviceOK, PollPolicy
    PROVE  DeviceOK'
<1>1. poll' = Effective /\ Effective # None /\ UNCHANGED <<server, held, reported>>
    BY DEF PollPolicy
<1>2. Effective \in {None} \cup RowSet(versions)
    BY DEF Effective, ServerOK
<1>3. Effective.version <= Effective.version
  <2>1. Effective.version \in Nat
      BY <1>1, <1>2, RowIs DEF ServerOK
  <2> QED
      BY <2>1
<1>4. Effective' = Effective
    BY <1>1 DEF server, Effective, Live
<1>5. NotAhead(poll)' /\ (NotAhead(held) => NotAhead(held)')
    BY <1>1, <1>3, <1>4 DEF NotAhead
<1> QED
    BY <1>1, <1>2, <1>5 DEF DeviceOK, server

\* apply_managed_envelope: what is held only gets newer.
LEMMA ApplyInv ==
    ASSUME ServerOK, DeviceOK, ApplyEnvelope
    PROVE  DeviceOK'
<1>1. /\ poll # None /\ poll' = None /\ UNCHANGED <<server, reported>>
      /\ held' = IF Accepts(poll) THEN poll ELSE held
    BY DEF ApplyEnvelope
<1>2. Effective' = Effective
    BY <1>1 DEF server, Effective, Live
<1>3. held' \in {None} \cup RowSet(versions)
    BY <1>1 DEF DeviceOK
<1>4. reported = None \/ (held' # None /\ reported \in 1..held'.version)
  <2>1. CASE held' = held
      BY <2>1 DEF DeviceOK
  <2>2. CASE held' = poll /\ Accepts(poll) /\ reported # None
    <3>1. held # None /\ reported \in 1..held.version /\ poll.version > held.version
        BY <2>2 DEF DeviceOK, Accepts, HaveVersion
    <3>2. held.version \in Nat /\ poll.version \in Nat
        BY <1>1, <3>1, RowIs DEF ServerOK, DeviceOK
    <3>3. reported \in 1..poll.version
        BY <3>1, <3>2
    <3> QED
        BY <1>1, <2>2, <3>3
  <2> QED
      BY <1>1, <2>1, <2>2
<1>5. ~stranded /\ ~reissue => NotAhead(held)' /\ NotAhead(poll)'
    BY <1>1, <1>2 DEF NotAhead, DeviceOK
<1> QED
    BY <1>1, <1>3, <1>4, <1>5 DEF DeviceOK, server

\* A checkpoint or a heartbeat reports the version that is held.
LEMMA ReportInv ==
    ASSUME ServerOK, DeviceOK, Report
    PROVE  DeviceOK'
<1>1. held # None /\ reported' = held.version /\ UNCHANGED <<server, held, poll>>
    BY DEF Report
<1>2. held.version \in 1..versions /\ versions \in Nat
    BY <1>1, RowIs DEF ServerOK, DeviceOK
<1>3. held.version \in 1..held.version
    BY <1>2
<1>4. Effective' = Effective
    BY <1>1 DEF server, Effective, Live
<1>5. ~stranded /\ ~reissue => NotAhead(held)' /\ NotAhead(poll)'
    BY <1>1, <1>4 DEF NotAhead, DeviceOK
<1> QED
    BY <1>1, <1>3, <1>5 DEF DeviceOK, server

-----------------------------------------------------------------------------
(* The theorem *)

\* No policy has been written yet.
LEMMA PolicyStart == PolicyInit => PolicyInv
<1> SUFFICES ASSUME PolicyInit PROVE PolicyInv
    OBVIOUS
<1>1. ServerOK
    BY DEF PolicyInit, ServerOK
<1>2. DeviceOK
    BY DEF PolicyInit, DeviceOK, NotAhead
<1> QED
    BY <1>1, <1>2 DEF PolicyInv

\* Every step keeps the invariant.
LEMMA PolicyStep == PolicyInv /\ [PolicyNext]_pvars => PolicyInv'
<1> SUFFICES ASSUME ServerOK, DeviceOK, [PolicyNext]_pvars
             PROVE  ServerOK' /\ DeviceOK'
    BY DEF PolicyInv
<1>1. ASSUME UNCHANGED <<server, held, poll, reported>> PROVE ServerOK' /\ DeviceOK'
  <2>1. Effective' = Effective
      BY <1>1 DEF server, Effective, Live
  <2> QED
      BY <1>1, <2>1 DEF server, ServerOK, DeviceOK, NotAhead, Live
<1>3. ASSUME NEW p \in AdminPolicies, PutDefault(p) \/ PutOverride(p)
      PROVE  ServerOK' /\ DeviceOK'
    BY <1>3, PutDefaultInv, PutOverrideInv DEF PutDefault, PutOverride, device
<1>4. ASSUME DeleteDefault PROVE ServerOK' /\ DeviceOK'
    BY <1>4, PutDefaultInv DEF DeleteDefault, PutDefault, device
<1>5. ASSUME ReleaseOverride \/ ReissueDefault \/ ServerCrash
      PROVE  ServerOK' /\ DeviceOK'
    BY <1>5, ReleaseInv, ReissueInv, ServerCrashInv
       DEF ReleaseOverride, ReissueDefault, ServerCrash, device
<1>6. ASSUME PollPolicy \/ PollFails \/ ApplyEnvelope \/ Report
      PROVE  ServerOK' /\ DeviceOK'
  <2>1. UNCHANGED server
      BY <1>6 DEF PollPolicy, PollFails, ApplyEnvelope, Report
  <2>2. ServerOK'
      BY <2>1 DEF server, ServerOK, Live
  <2>3. CASE PollFails
    <3>1. poll' = None /\ UNCHANGED <<held, reported>>
        BY <2>3 DEF PollFails
    <3>2. Effective' = Effective
        BY <2>1 DEF server, Effective, Live
    <3> QED
        BY <2>1, <2>2, <3>1, <3>2 DEF server, DeviceOK, NotAhead
  <2> QED
      BY <1>6, <2>1, <2>2, <2>3, PollInv, ApplyInv, ReportInv
<1>7. ASSUME NEW e \in Edits, SavePolicy(e) PROVE ServerOK' /\ DeviceOK'
    BY <1>1, <1>7 DEF SavePolicy
<1>8. ASSUME ReadPolicy PROVE ServerOK' /\ DeviceOK'
    BY <1>1, <1>8 DEF ReadPolicy
<1>9. CASE UNCHANGED pvars
    BY <1>1, <1>9 DEF pvars, server
<1> QED
    BY <1>3, <1>4, <1>5, <1>6, <1>7, <1>8, <1>9 DEF PolicyNext

\* The inductive invariant of Shield's policies and settings.
THEOREM PolicyInvariant == PolicySpec => []PolicyInv
<1> QED
    BY PolicyStart, PolicyStep, PTL DEF PolicySpec

\* A device that the server's drift list leaves out holds the policy assigned
\* to it (pick_effective, release_device_override, apply_managed_envelope), for
\* any number of policies, overrides, releases, deletions and failed polls.
THEOREM NoHiddenDrift == PolicySpec => []NoDriftNoDifference
<1>1. PolicyInv => NoDriftNoDifference
  <2> SUFFICES ASSUME PolicyInv, ~stranded, ~reissue, Effective # None,
                      reported = Effective.version
               PROVE  held # None /\ held.policy = Effective.policy
      BY DEF NoDriftNoDifference
  <2>1. ServerOK /\ DeviceOK
      BY DEF PolicyInv
  <2>2. Effective \in RowSet(versions) /\ Effective.version \in 1..versions /\ versions \in Nat
    <3>1. Effective \in RowSet(versions)
        BY <2>1 DEF ServerOK, Effective
    <3> QED
        BY <2>1, <3>1, RowIs DEF ServerOK
  <2>3. reported # None
    <3>1. Effective.version \in Nat
        BY <2>2
    <3> QED
        BY <3>1, PolicyAssumption
  <2>4. held # None /\ reported \in 1..held.version
      BY <2>1, <2>3 DEF DeviceOK
  <2>5. held.version \in Nat
      BY <2>1, <2>4, RowIs DEF ServerOK, DeviceOK
  <2>6. NotAhead(held)
      BY <2>1 DEF DeviceOK
  <2>7. held.version = Effective.version
      BY <2>2, <2>4, <2>5, <2>6 DEF NotAhead
  <2> QED
      BY <2>4, <2>6, <2>7 DEF NotAhead
<1> QED
    BY <1>1, PolicyInvariant, PTL

-----------------------------------------------------------------------------
(* The record and its seals: what every state satisfies.                   *)

AllRows == BrowserRows \cup OtherRows
AllKeys == {r.key : r \in AllRows}
BrowserKeys == {r.key : r \in BrowserRows}

\* A row as the ledger holds it: a scrub may have taken its text.
FiledRows ==
    {r \in [kind : {q.kind : q \in AllRows}, key : AllKeys, of : {q.of : q \in AllRows}, text : BOOLEAN] :
        \A q \in BrowserRows : q.key = r.key => q.kind = r.kind}
PayloadSet == [id : [key : AllKeys, n : Nat], text : BOOLEAN, outcome : {"sent", "result", "reply"}]
EntrySet == [height : Nat, payload : PayloadSet]
ItemSet == [id : [key : AllKeys, n : Nat], of : {q.of : q \in AllRows}, payload : PayloadSet,
            running : BOOLEAN]
Places == {"idle", "scan", "scanRead", "absorb", "endBatch", "scanOffset", "serving",
           "resync", "ingest", "poll", "reply"}
FlightSet == [stage : {"idle", "check", "posted", "answered"}, batch : Seq(BrowserRows), total : Nat]
RequestSet == [rows : Seq(BrowserRows), flight : Flights \cup {Nothing}, accepted : BOOLEAN]

\* The log holds its entries in their places, nothing in it or signed over it
\* differs from what memory holds, and a torn line is only there while Shield
\* is down.
ChainOK ==
    /\ log \in Seq(EntrySet)
    /\ \A i \in DOMAIN log : log[i].height = i
    /\ leaves \in Seq(PayloadSet)
    /\ saved \in Seq(PayloadSet) \cup {Nothing} /\ CheckpointMatches(saved, Payloads(log))
    /\ cp \in Seq(PayloadSet) \cup {Nothing} /\ CheckpointMatches(cp, leaves)
    /\ incidents = {}
    /\ up => ~torn /\ leaves = Payloads(log)

FeedType ==
    /\ ledger \in Seq(FiledRows) /\ up \in BOOLEAN
    /\ pc \in [Threads -> Places] /\ work \in [Threads -> Seq(FiledRows)]
    /\ lines \in Nat /\ scanned \in BOOLEAN /\ offset \in Nat
    /\ pollLock \in Threads \cup {Nothing}
    /\ IsABag(seen) /\ items \in Seq(ItemSet)
    /\ crashes \in Nat

BrowserType ==
    /\ queue \in Seq(BrowserRows)
    /\ flight \in [Flights -> FlightSet] /\ req \in [Handlers -> RequestSet]
    /\ dedupe \subseteq BrowserKeys /\ IsABag(filed)

\* A Shield that is down does nothing and remembers nothing.
DownOK ==
    ~up => /\ \A t \in Threads : pc[t] = "idle"
           /\ offset = 0 /\ ~scanned /\ pollLock = Nothing /\ DOMAIN seen = {}

\* Requests are served after the scan; a thread holds lines only while it
\* absorbs them, and behind the poll lock unless it is the scan.
ThreadsOK ==
    /\ \A t \in Handlers : pc[t] # "idle" => pc[Main] = "serving"
    /\ pc[Main] \notin {"idle", "scan"} => scanned
    /\ ~scanned => offset = 0
    /\ \A t \in Threads : pc[t] # "absorb" => work[t] = <<>>
    /\ \A t \in Threads : work[t] # <<>> => pollLock = t \/ t = Main
    
\* The keys of the first n rows, and of the lines threads hold.
KeysUpTo(rows, n) == {rows[i].key : i \in 1..n}
Held(ws) == UNION {Keys(ws[t]) : t \in Threads}

\* Every row behind the offset was absorbed, is held, or was noted as passed,
\* and so was every row the scan read.
OffsetOK ==
    /\ ~Scrubbing => /\ offset <= Len(ledger)
                     /\ KeysUpTo(ledger, offset) \subseteq DOMAIN seen \cup passed \cup Held(work)
    /\ pc[Main] \in {"absorb", "endBatch", "scanOffset"} =>
         /\ lines <= Len(ledger)
         /\ KeysUpTo(ledger, lines) \subseteq DOMAIN seen \cup passed \cup Held(work)

\* What a handler has not gone through is in its list; a flush has at most one.
RequestsOK ==
    /\ \A t \in Handlers : pc[t] # "ingest" => req[t].rows = <<>>
    /\ \A t \in Handlers : req[t].flight # Nothing =>
          /\ flight[req[t].flight].stage = "posted"
          /\ Keys(req[t].rows) \subseteq Keys(flight[req[t].flight].batch)
          /\ Keys(flight[req[t].flight].batch) \subseteq Keys(req[t].rows) \cup dedupe
    /\ \A s, t \in Handlers : req[s].flight = req[t].flight /\ s # t => req[s].flight = Nothing

\* Where a captured row may be, with this queue, these flushes, rows filed and
\* rows dropped.
Kept(k, q, fl, fd, d) ==
    \/ k \in Keys(q) \/ k \in DOMAIN fd \/ k \in d \/ k \in AppsOff
    \/ \E f \in Flights : k \in Keys(fl[f].batch)

\* Filed rows: once for every time Shield forgot which it knows.
FiledOK ==
    /\ dedupe \subseteq DOMAIN filed \cup AppsOff
    /\ \A f \in Flights : flight[f].stage = "answered" => Keys(flight[f].batch) \subseteq DOMAIN filed \cup AppsOff
    /\ \A k \in BrowserKeys : Copies(k, filed) <= crashes + (IF k \in dedupe THEN 1 ELSE 0)
    /\ \A k \in captured : Kept(k, queue, flight, filed, dropped)

\* A captured row is in one place of the worker: no two rows of the queue and
\* of the flushes have one key, nor has a row of a request nobody waits for.
DistinctKeys(rows) == \A i, j \in DOMAIN rows : rows[i].key = rows[j].key => i = j
OnceOK ==
    /\ DistinctKeys(queue) /\ Keys(queue) \subseteq captured
    /\ \A f \in Flights :
          /\ DistinctKeys(flight[f].batch) /\ Keys(flight[f].batch) \subseteq captured
          /\ Keys(flight[f].batch) \cap Keys(queue) = {}
    /\ \A f, g \in Flights : f # g => Keys(flight[f].batch) \cap Keys(flight[g].batch) = {}
    /\ \A t \in Handlers :
          /\ DistinctKeys(req[t].rows) /\ Keys(req[t].rows) \subseteq captured
          /\ req[t].flight = Nothing =>
                /\ Keys(req[t].rows) \cap Keys(queue) = {}
                /\ \A f \in Flights : Keys(req[t].rows) \cap Keys(flight[f].batch) = {}
    /\ Keys(ledger) \cap BrowserKeys \subseteq captured \ AppsOff

\* A handler that is still going to absorb the row with this key.
WillAbsorb(t, k) ==
    /\ k \notin Keys(req[t].rows)
    /\ \/ pc[t] = "ingest" /\ req[t].accepted
       \/ pc[t] = "poll"
       \/ pc[t] = "absorb" /\ k \in Keys(work[t])

\* A row filed by this Shield and not absorbed yet is with the handler that
\* filed it, and the worker waits for that handler's answer.
Pending == (dedupe \cap Keys(ledger)) \ (DOMAIN seen \cup passed)
PendingOK ==
    \A k \in Pending :
        /\ k \notin Keys(queue)
        /\ \A f \in Flights : k \in Keys(flight[f].batch) =>
              \E t \in Handlers : req[t].flight = f /\ WillAbsorb(t, k)

\* An absorbed message is sealed.
SeenOK == \A q \in BrowserRows : q.kind = "send" /\ q.key \in DOMAIN seen => q.key \in SealedKeys

-----------------------------------------------------------------------------
(* Sequences of rows.                                                      *)

\* The keys of a list, by position.
LEMMA KeysAt ==
    ASSUME NEW rows, NEW k
    PROVE  k \in Keys(rows) <=> \E i \in DOMAIN rows : rows[i].key = k
BY DEF Keys, Range

\* The keys of a list that grows at its end.
LEMMA KeysAppend ==
    ASSUME NEW S, NEW rows \in Seq(S), NEW r \in S
    PROVE  /\ Append(rows, r) \in Seq(S)
           /\ Keys(Append(rows, r)) = Keys(rows) \cup {r.key}
           /\ DistinctKeys(rows) /\ r.key \notin Keys(rows) => DistinctKeys(Append(rows, r))
<1> DEFINE a == Append(rows, r)
           n == Len(rows)
<1>1. n \in Nat /\ a \in Seq(S) /\ DOMAIN rows = 1..n /\ DOMAIN a = 1..(n + 1)
    BY LenProperties, AppendProperties
<1>2. a[n + 1] = r /\ \A i \in 1..n : a[i] = rows[i]
    BY AppendProperties
<1> HIDE DEF a, n
<1>3. Keys(a) \subseteq Keys(rows) \cup {r.key}
  <2> SUFFICES ASSUME NEW k \in Keys(a) PROVE k \in Keys(rows) \cup {r.key}
      OBVIOUS
  <2>1. PICK i \in 1..(n + 1) : a[i].key = k
      BY <1>1, KeysAt
  <2>2. i = n + 1 \/ i \in 1..n
      BY <1>1
  <2> QED
      BY <1>1, <1>2, <2>1, <2>2, KeysAt
<1>4. Keys(rows) \subseteq Keys(a)
  <2> SUFFICES ASSUME NEW k \in Keys(rows) PROVE k \in Keys(a)
      OBVIOUS
  <2>1. PICK i \in 1..n : rows[i].key = k
      BY <1>1, KeysAt
  <2>2. i \in 1..(n + 1)
      BY <1>1
  <2> QED
      BY <1>1, <1>2, <2>1, <2>2, KeysAt
<1>5. r.key \in Keys(a)
  <2>1. n + 1 \in 1..(n + 1)
      BY <1>1
  <2> QED
      BY <1>1, <1>2, <2>1, KeysAt
<1>6. ASSUME DistinctKeys(rows), r.key \notin Keys(rows) PROVE DistinctKeys(a)
  <2> SUFFICES ASSUME NEW i \in 1..(n + 1), NEW j \in 1..(n + 1), a[i].key = a[j].key PROVE i = j
      BY <1>1 DEF DistinctKeys
  <2>1. \A m \in 1..(n + 1) : m = n + 1 \/ m \in 1..n
      BY <1>1
  <2>2. \A m \in 1..n : a[m].key # r.key
      BY <1>1, <1>2, <1>6, KeysAt
  <2> QED
      BY <1>1, <1>2, <1>6, <2>1, <2>2 DEF DistinctKeys
<1> QED
    BY <1>1, <1>3, <1>4, <1>5, <1>6 DEF a

\* The keys of two lists in a row.
LEMMA KeysConcat ==
    ASSUME NEW S, NEW rows \in Seq(S), NEW more \in Seq(S)
    PROVE  /\ rows \o more \in Seq(S)
           /\ Keys(rows \o more) = Keys(rows) \cup Keys(more)
           /\ DistinctKeys(rows) /\ DistinctKeys(more) /\ Keys(rows) \cap Keys(more) = {}
                => DistinctKeys(rows \o more)
<1> DEFINE a == rows \o more
           n == Len(rows)
           m == Len(more)
<1>1. n \in Nat /\ m \in Nat /\ a \in Seq(S) /\ DOMAIN rows = 1..n /\ DOMAIN more = 1..m
      /\ Len(a) = n + m /\ DOMAIN a = 1..(n + m)
    BY LenProperties, ConcatProperties
<1>2. /\ \A i \in 1..n : i \in 1..(n + m) /\ a[i] = rows[i]
      /\ \A i \in 1..m : n + i \in 1..(n + m) /\ a[n + i] = more[i]
  <2>1. \A i \in 1..(n + m) : a[i] = IF i <= n THEN rows[i] ELSE more[i - n]
      BY ConcatProperties
  <2> HIDE DEF a, n, m
  <2> QED
      BY <1>1, <2>1
<1> HIDE DEF a, n, m
<1>3. \A i \in 1..(n + m) : \/ i \in 1..n /\ a[i] = rows[i]
                            \/ i - n \in 1..m /\ a[i] = more[i - n]
  <2> TAKE i \in 1..(n + m)
  <2>1. i \in 1..n \/ (i - n \in 1..m /\ n + (i - n) = i)
      BY <1>1
  <2> QED
      BY <1>2, <2>1
<1>4. Keys(a) \subseteq Keys(rows) \cup Keys(more)
  <2> SUFFICES ASSUME NEW k \in Keys(a) PROVE k \in Keys(rows) \cup Keys(more)
      OBVIOUS
  <2>1. PICK i \in 1..(n + m) : a[i].key = k
      BY <1>1, KeysAt
  <2> QED
      BY <1>1, <1>2, <1>3, <2>1, KeysAt
<1>5. Keys(rows) \cup Keys(more) \subseteq Keys(a)
  <2> SUFFICES ASSUME NEW k \in Keys(rows) \cup Keys(more) PROVE k \in Keys(a)
      OBVIOUS
  <2>1. (\E i \in 1..n : rows[i].key = k) \/ (\E i \in 1..m : more[i].key = k)
      BY <1>1, KeysAt
  <2> QED
      BY <1>1, <1>2, <2>1, KeysAt
<1>6. ASSUME DistinctKeys(rows), DistinctKeys(more), Keys(rows) \cap Keys(more) = {}
      PROVE  DistinctKeys(a)
  <2> SUFFICES ASSUME NEW i \in 1..(n + m), NEW j \in 1..(n + m), a[i].key = a[j].key PROVE i = j
      BY <1>1 DEF DistinctKeys
  <2>1. ASSUME NEW x \in 1..n, NEW y \in 1..m PROVE rows[x].key # more[y].key
      BY <1>1, <1>6, KeysAt
  <2>2. CASE i \in 1..n /\ j \in 1..n
      BY <1>1, <1>2, <1>6, <2>2 DEF DistinctKeys
  <2>3. CASE i \in 1..n /\ a[i] = rows[i] /\ j - n \in 1..m /\ a[j] = more[j - n]
      BY <2>1, <2>3
  <2>4. CASE i - n \in 1..m /\ a[i] = more[i - n] /\ j \in 1..n /\ a[j] = rows[j]
      BY <2>1, <2>4
  <2>5. CASE i - n \in 1..m /\ a[i] = more[i - n] /\ j - n \in 1..m /\ a[j] = more[j - n]
    <3>1. i - n = j - n
        BY <1>1, <1>6, <2>5 DEF DistinctKeys
    <3> QED
        BY <1>1, <3>1
  <2> QED
      BY <1>3, <2>2, <2>3, <2>4, <2>5
<1> QED
    BY <1>1, <1>4, <1>5, <1>6 DEF a

\* The first row and the rest.
LEMMA KeysTail ==
    ASSUME NEW S, NEW rows \in Seq(S), rows # <<>>
    PROVE  /\ Head(rows) \in S /\ Tail(rows) \in Seq(S)
           /\ Keys(rows) = {Head(rows).key} \cup Keys(Tail(rows))
           /\ DistinctKeys(rows) => DistinctKeys(Tail(rows)) /\ Head(rows).key \notin Keys(Tail(rows))
           /\ Len(rows) = 1 => Tail(rows) = <<>>
           /\ Len(rows) \in Nat /\ (Len(rows) # 1 => Len(rows) > 1 /\ Tail(rows) # <<>>)
<1> DEFINE a == Tail(rows)
           n == Len(rows)
<1>1. n \in Nat /\ n > 0 /\ a \in Seq(S) /\ DOMAIN rows = 1..n /\ Len(a) = n - 1 /\ DOMAIN a = 1..(n - 1)
      /\ Head(rows) = rows[1] /\ Head(rows) \in S
    BY LenProperties, HeadTailProperties, EmptySeq
<1>2. \A i \in 1..(n - 1) : i + 1 \in 1..n /\ a[i] = rows[i + 1]
    BY HeadTailProperties
<1>3. n = 1 => a = <<>>
    BY <1>1, EmptySeq
<1>4. n # 1 => n > 1 /\ a # <<>>
  <2>1. Len(<<>>) = 0
      BY EmptySeq
  <2>2. n # 1 => n > 1 /\ Len(a) # 0
      BY <1>1
  <2> QED
      BY <2>1, <2>2
<1> HIDE DEF a, n
<1>5. \A i \in 1..n : i = 1 \/ (i - 1 \in 1..(n - 1) /\ a[i - 1] = rows[i])
  <2>1. \A i \in 1..n : i = 1 \/ (i - 1 \in 1..(n - 1) /\ i = (i - 1) + 1)
      BY <1>1
  <2> QED
      BY <1>2, <2>1
<1>6. Keys(rows) \subseteq {Head(rows).key} \cup Keys(a)
  <2> SUFFICES ASSUME NEW k \in Keys(rows) PROVE k = rows[1].key \/ k \in Keys(a)
      BY <1>1
  <2>1. PICK i \in 1..n : rows[i].key = k
      BY <1>1, KeysAt
  <2> QED
      BY <1>1, <1>5, <2>1, KeysAt
<1>7. {Head(rows).key} \cup Keys(a) \subseteq Keys(rows)
  <2>1. ASSUME NEW k \in Keys(a) PROVE k \in Keys(rows)
    <3>1. PICK i \in 1..(n - 1) : a[i].key = k
        BY <1>1, KeysAt
    <3> QED
        BY <1>1, <1>2, <3>1, KeysAt
  <2>2. 1 \in 1..n
      BY <1>1
  <2>3. rows[1].key \in Keys(rows)
      BY <1>1, <2>2, KeysAt
  <2> QED
      BY <1>1, <2>1, <2>3
<1>8. ASSUME DistinctKeys(rows) PROVE DistinctKeys(a) /\ Head(rows).key \notin Keys(a)
  <2>1. ASSUME NEW i \in 1..(n - 1), NEW j \in 1..(n - 1), a[i].key = a[j].key PROVE i = j
    <3>1. i + 1 = j + 1
        BY <1>1, <1>2, <1>8, <2>1 DEF DistinctKeys
    <3> QED
        BY <3>1
  <2>2. ASSUME NEW i \in 1..(n - 1), a[i].key = rows[1].key PROVE FALSE
    <3>1. 1 \in 1..n
        BY <1>1
    <3>2. i + 1 = 1
        BY <1>1, <1>2, <1>8, <2>2, <3>1 DEF DistinctKeys
    <3> QED
        BY <3>2
  <2>3. DistinctKeys(a)
      BY <1>1, <2>1 DEF DistinctKeys
  <2> QED
      BY <1>1, <2>2, <2>3, KeysAt
<1> QED
    BY <1>1, <1>3, <1>4, <1>6, <1>7, <1>8 DEF a, n

\* No rows, no keys.
LEMMA KeysEmpty == Keys(<<>>) = {} /\ DistinctKeys(<<>>)
BY DEF Keys, Range, DistinctKeys

\* A part of a list.
LEMMA KeysSub ==
    ASSUME NEW S, NEW rows \in Seq(S), NEW lo \in Nat, lo > 0
    PROVE  LET part == SubSeq(rows, lo, Len(rows)) IN
           /\ part \in Seq(S)
           /\ Keys(part) = {rows[i].key : i \in lo..Len(rows)}
           /\ Keys(part) \subseteq Keys(rows)
           /\ DistinctKeys(rows) => DistinctKeys(part)
<1> DEFINE n == Len(rows)
           part == SubSeq(rows, lo, n)
<1>1. n \in Nat /\ DOMAIN rows = 1..n
    BY LenProperties
<1>2. /\ part \in Seq(S)
      /\ DOMAIN part = 1..(IF lo <= n THEN n - lo + 1 ELSE 0)
      /\ \A i \in 1..(n - lo + 1) : part[i] = rows[lo + i - 1]
  <2>1. \A i \in lo..n : rows[i] \in S
      BY <1>1, ElementOfSeq
  <2> HIDE DEF n
  <2>2. /\ part \in Seq(S) /\ Len(part) = IF lo <= n THEN n - lo + 1 ELSE 0
        /\ \A i \in 1..(n - lo + 1) : part[i] = rows[lo + i - 1]
      BY <1>1, <2>1, SubSeqProperties
  <2> QED
      BY <1>1, <2>2, LenProperties
<1> HIDE DEF n, part
<1>3. \A i \in lo..n : i - lo + 1 \in DOMAIN part /\ part[i - lo + 1] = rows[i] /\ i \in 1..n
  <2> TAKE i \in lo..n
  <2>1. i - lo + 1 \in 1..(n - lo + 1) /\ lo <= n /\ lo + (i - lo + 1) - 1 = i /\ i \in 1..n
      BY <1>1
  <2> QED
      BY <1>2, <2>1
<1>4. \A i \in DOMAIN part : lo + i - 1 \in lo..n /\ part[i] = rows[lo + i - 1]
  <2> TAKE i \in DOMAIN part
  <2>1. i \in 1..(n - lo + 1) /\ lo + i - 1 \in lo..n
      BY <1>1, <1>2
  <2> QED
      BY <1>2, <2>1
<1>5. Keys(part) \subseteq {rows[i].key : i \in lo..n}
    BY <1>4, KeysAt
<1>6. {rows[i].key : i \in lo..n} \subseteq Keys(part)
    BY <1>3, KeysAt
<1>7. {rows[i].key : i \in lo..n} \subseteq Keys(rows)
    BY <1>1, <1>3, KeysAt
<1>8. ASSUME DistinctKeys(rows) PROVE DistinctKeys(part)
  <2> SUFFICES ASSUME NEW i \in DOMAIN part, NEW j \in DOMAIN part, part[i].key = part[j].key PROVE i = j
      BY DEF DistinctKeys
  <2>1. lo + i - 1 = lo + j - 1
    <3>1. lo + i - 1 \in 1..n /\ lo + j - 1 \in 1..n
        BY <1>3, <1>4
    <3>2. rows[lo + i - 1].key = rows[lo + j - 1].key
        BY <1>4
    <3> QED
        BY <1>1, <1>8, <3>1, <3>2 DEF DistinctKeys
  <2>2. i \in Int /\ j \in Int
      BY <1>2
  <2> QED
      BY <2>1, <2>2
<1> QED
    BY <1>2, <1>5, <1>6, <1>7, <1>8 DEF part, n

\* The cap keeps some of the rows.
LEMMA CappedIs ==
    ASSUME NEW S, NEW rows \in Seq(S)
    PROVE  /\ Capped(rows) \in Seq(S)
           /\ Keys(Capped(rows)) \subseteq Keys(rows)
           /\ DistinctKeys(rows) => DistinctKeys(Capped(rows))
<1> DEFINE lo == IF Len(rows) > MaxQueued THEN Len(rows) - MaxQueued + 1 ELSE 1
<1>1. lo \in Nat /\ lo > 0
  <2>1. Len(rows) \in Nat /\ MaxQueued \in Nat
      BY LenProperties, BrowserAssumption
  <2> QED
      BY <2>1
<1>2. Capped(rows) = SubSeq(rows, lo, Len(rows))
    BY DEF Capped
<1> HIDE DEF lo
<1> QED
    BY <1>1, <1>2, KeysSub

\* How many elements of a finite set of numbers are up to i.
Place(S, i) == Cardinality({j \in S : j <= i})

\* The places of the elements of S count from 1 to its size.
LEMMA PlaceIs ==
    ASSUME NEW N \in Nat, NEW S \in SUBSET (1..N)
    PROVE  /\ Cardinality(S) \in Nat
           /\ \A k \in 1..Cardinality(S) : \E i \in S : Place(S, i) = k
<1>1. IsFiniteSet(S) /\ Cardinality(S) \in Nat
  <2>1. IsFiniteSet(1..N)
    BY FS_Interval
  <2> QED BY <2>1, FS_Subset, FS_CardinalityType
<1>2. ASSUME NEW i \in S
      PROVE  /\ IsFiniteSet({j \in S : j <= i}) /\ Place(S, i) \in 1..Cardinality(S)
  <2> DEFINE T == {j \in S : j <= i}
  <2>1. T \in SUBSET S /\ i \in T
    OBVIOUS
  <2>2. IsFiniteSet(T) /\ Cardinality(T) <= Cardinality(S) /\ Cardinality(T) \in Nat
    BY <1>1, <2>1, FS_Subset, FS_CardinalityType
  <2>3. Cardinality(T) # 0
    BY <2>1, <2>2, FS_EmptySet
  <2> QED BY <1>1, <2>2, <2>3 DEF Place
<1>3. ASSUME NEW i \in S, NEW j \in S, Place(S, i) = Place(S, j), i < j
      PROVE  FALSE
  <2> DEFINE T == {k \in S : k <= i}
             U == {k \in S : k <= j}
  <2>1. T \in SUBSET U /\ j \in U /\ j \notin T
    <3>1. i \in Nat /\ j \in Nat /\ S \subseteq Nat
      OBVIOUS
    <3>2. \A k \in Nat : k <= i => k <= j
      BY <1>3, <3>1
    <3>3. j <= j /\ ~(j <= i)
      BY <1>3, <3>1
    <3> QED BY <3>1, <3>2, <3>3
  <2>2. IsFiniteSet(U) /\ Cardinality(T) = Cardinality(U)
    BY <1>2, <1>3 DEF Place
  <2> HIDE DEF T, U
  <2> QED BY <2>1, <2>2, FS_Subset
<1>4. \A i, j \in S : Place(S, i) = Place(S, j) => i = j
  <2> SUFFICES ASSUME NEW i \in S, NEW j \in S, Place(S, i) = Place(S, j)
               PROVE  i = j
    OBVIOUS
  <2>1. ~(i < j) /\ ~(j < i)
    BY <1>3
  <2>2. i \in Nat /\ j \in Nat
    OBVIOUS
  <2> QED BY <2>1, <2>2
<1>5. ASSUME NEW k \in 1..Cardinality(S) PROVE \E i \in S : Place(S, i) = k
  <2> DEFINE f == [i \in S |-> Place(S, i)]
             n == Cardinality(S)
  <2>1. f \in Injection(S, 1..n)
    <3>1. f \in [S -> 1..n]
      BY <1>2
    <3>2. \A a, b \in DOMAIN f : f[a] = f[b] => a = b
      BY <1>4
    <3> QED BY <3>1, <3>2 DEF Injection, IsInjective
  <2>2. IsFiniteSet(1..n) /\ Cardinality(1..n) = n
    <3>1. n \in Nat /\ 1 \in Int /\ n \in Int
      BY <1>1
    <3> HIDE DEF n
    <3>2. /\ IsFiniteSet(1..n)
          /\ Cardinality(1..n) = IF 1 > n THEN 0 ELSE n - 1 + 1
      BY <3>1, FS_Interval
    <3> QED BY <3>1, <3>2
  <2>3. f \in Surjection(S, 1..n)
    BY <2>1, <2>2, FS_Injection
  <2>4. \E i \in S : f[i] = k
    BY <2>3 DEF Surjection
  <2> QED BY <2>4
<1> QED BY <1>1, <1>2, <1>4, <1>5

\* What is left after retention: some of the rows, in a list.
LEMMA RetainedIs ==
    ASSUME NEW S, NEW rows \in Seq(S)
    PROVE  Retained(rows) \in Seq(S) /\ Keys(Retained(rows)) \subseteq Keys(rows)
<1> DEFINE kept == {i \in DOMAIN rows : rows[i].key \notin OldRows}
           at(n) == CHOOSE i \in kept : Place(kept, i) = n
           c == Cardinality(kept)
<1>1. Len(rows) \in Nat /\ DOMAIN rows = 1..Len(rows) /\ \A i \in 1..Len(rows) : rows[i] \in S
    BY LenProperties
<1>2. Retained(rows) = [n \in 1..c |-> rows[at(n)]]
    BY DEF Retained, Place
<1>3. kept \in SUBSET (1..Len(rows))
    BY <1>1
<1> HIDE DEF kept
<1>4. c \in Nat /\ \A n \in 1..c : at(n) \in kept
    BY <1>1, <1>3, PlaceIs
<1> HIDE DEF at, c
<1>5. \A n \in 1..c : at(n) \in DOMAIN rows /\ rows[at(n)] \in S
    BY <1>1, <1>3, <1>4
<1>6. Retained(rows) \in Seq(S)
    BY <1>2, <1>4, <1>5, IsASeq
<1>7. \A i \in DOMAIN Retained(rows) : \E j \in DOMAIN rows : Retained(rows)[i] = rows[j]
    BY <1>2, <1>5
<1> QED
    BY <1>6, <1>7, KeysAt

\* A scrub leaves the rows that are retained, without their text.
LEMMA ScrubbedIs ==
    ASSUME NEW rows \in Seq(FiledRows), NEW kept, kept = Retained(rows),
           NEW new, new = [i \in DOMAIN kept |-> [kept[i] EXCEPT !.text = FALSE]]
    PROVE  new \in Seq(FiledRows) /\ Keys(new) \subseteq Keys(rows)
<1>1. kept \in Seq(FiledRows) /\ Keys(kept) \subseteq Keys(rows)
    BY RetainedIs
<1>2. Len(kept) \in Nat /\ DOMAIN kept = 1..Len(kept) /\ \A i \in 1..Len(kept) : kept[i] \in FiledRows
    BY <1>1, LenProperties
<1>3. ASSUME NEW r \in FiledRows
      PROVE  [r EXCEPT !.text = FALSE] \in FiledRows /\ [r EXCEPT !.text = FALSE].key = r.key
    BY DEF FiledRows
<1>4. \A i \in DOMAIN kept : new[i] \in FiledRows /\ new[i].key = kept[i].key
    BY <1>2, <1>3
<1>5. new \in Seq(FiledRows) /\ DOMAIN new = DOMAIN kept
    BY <1>2, <1>4, IsASeq
<1>6. Keys(new) \subseteq Keys(kept)
    BY <1>4, <1>5, KeysAt
<1> QED
    BY <1>1, <1>5, <1>6

\* Rows of the browser and of the other writers are rows of the ledger.
LEMMA RowsAreFiled ==
    /\ \A r \in AllRows : r \in FiledRows
    /\ \A r \in BrowserRows : r \in AllRows /\ r.key \in BrowserKeys
    /\ \A r \in OtherRows : r \in AllRows /\ r.key \notin BrowserKeys
    /\ \A r \in FiledRows : r.key \in AllKeys
<1>1. \A r \in BrowserRows : r \in AllRows /\ r.key \in BrowserKeys
    BY DEF AllRows, BrowserKeys
<1>2. \A r \in OtherRows : r \in AllRows /\ r.key \notin BrowserKeys
    BY BrowserAssumption DEF AllRows, BrowserKeys
<1>3. ASSUME NEW r \in AllRows PROVE r \in FiledRows
  <2>1. r = [kind |-> r.kind, key |-> r.key, of |-> r.of, text |-> r.text] /\ r.text \in BOOLEAN
      BY BrowserAssumption DEF AllRows
  <2>2. r.kind \in {q.kind : q \in AllRows} /\ r.key \in AllKeys /\ r.of \in {q.of : q \in AllRows}
      BY DEF AllKeys
  <2>3. \A q \in BrowserRows : q.key = r.key => q.kind = r.kind
    <3>1. CASE r \in BrowserRows
        BY <3>1, BrowserAssumption
    <3>2. CASE r \in OtherRows
        BY <3>2, BrowserAssumption
    <3> QED
        BY <3>1, <3>2 DEF AllRows
  <2> HIDE DEF AllRows
  <2> QED
      BY <2>1, <2>2, <2>3 DEF FiledRows
<1> QED
    BY <1>1, <1>2, <1>3 DEF FiledRows

\* One more occurrence in a bag.
LEMMA BagAddIs ==
    ASSUME NEW bag, IsABag(bag), NEW k, NEW more, more = bag (+) SetToBag({k})
    PROVE  /\ IsABag(more) /\ DOMAIN more = DOMAIN bag \cup {k}
           /\ Copies(k, more) = Copies(k, bag) + 1
           /\ \A j : Copies(j, bag) \in Nat
<1>1. SetToBag({k}) = [e \in {k} |-> 1]
    BY DEF SetToBag
<1>2. more = [e \in DOMAIN bag \cup {k} |-> (IF e \in DOMAIN bag THEN bag[e] ELSE 0)
                                              + (IF e \in {k} THEN 1 ELSE 0)]
    BY <1>1 DEF (+)
<1>3. bag \in [DOMAIN bag -> {n \in Nat : n > 0}]
    BY DEF IsABag
<1>4. IsABag(more) /\ DOMAIN more = DOMAIN bag \cup {k}
  <2>1. DOMAIN more = DOMAIN bag \cup {k}
      BY <1>2
  <2>2. \A e \in DOMAIN bag \cup {k} : more[e] \in Nat /\ more[e] > 0
      BY <1>2, <1>3
  <2>3. more = [e \in DOMAIN more |-> more[e]]
      BY <1>2
  <2> QED
      BY <2>1, <2>2, <2>3 DEF IsABag
<1>5. Copies(k, more) = Copies(k, bag) + 1
    BY <1>2, <1>3 DEF Copies
<1>7. ASSUME NEW j PROVE Copies(j, bag) \in Nat
    BY <1>3 DEF Copies
<1> QED
    BY <1>4, <1>5, <1>7

\* The other keys' copies stay.
LEMMA BagOthersAre ==
    \A bag, more, k, j : IsABag(bag) /\ more = bag (+) SetToBag({k})
                            => j = k \/ Copies(j, more) = Copies(j, bag)
<1> TAKE bag, more, k, j
<1> HAVE IsABag(bag) /\ more = bag (+) SetToBag({k})
<1>1. SetToBag({k}) = [e \in {k} |-> 1]
    BY DEF SetToBag
<1>2. more = [e \in DOMAIN bag \cup {k} |-> (IF e \in DOMAIN bag THEN bag[e] ELSE 0)
                                              + (IF e \in {k} THEN 1 ELSE 0)]
    BY <1>1 DEF (+)
<1>3. bag \in [DOMAIN bag -> {n \in Nat : n > 0}]
    BY DEF IsABag
<1> QED
    BY <1>2, <1>3 DEF Copies

\* The empty bag.
LEMMA EmptyBagIs == IsABag(EmptyBag) /\ DOMAIN EmptyBag = {} /\ \A j : Copies(j, EmptyBag) = 0
BY DEF IsABag, EmptyBag, SetToBag, Copies

-----------------------------------------------------------------------------
(* The seals: killing Shield never makes its record look edited.           *)

\* The first n elements of a sequence.
LEMMA FirstOf ==
    ASSUME NEW S, NEW s \in Seq(S), NEW n \in 0..Len(s)
    PROVE  /\ SubSeq(s, 1, n) \in Seq(S) /\ Len(SubSeq(s, 1, n)) = n
           /\ DOMAIN SubSeq(s, 1, n) = 1..n
           /\ \A i \in 1..n : SubSeq(s, 1, n)[i] = s[i]
<1>1. Len(s) \in Nat /\ 1 \in Int /\ n \in Int /\ n \in Nat
    BY LenProperties
<1>2. \A i \in 1..n : s[i] \in S
    BY <1>1, ElementOfSeq
<1>3. /\ SubSeq(s, 1, n) \in Seq(S)
      /\ Len(SubSeq(s, 1, n)) = IF 1 <= n THEN n - 1 + 1 ELSE 0
      /\ \A i \in 1..n - 1 + 1 : SubSeq(s, 1, n)[i] = s[1 + i - 1]
    BY <1>1, <1>2, SubSeqProperties
<1>4. n - 1 + 1 = n /\ (~(1 <= n) => n = 0) /\ \A i \in 1..n : 1 + i - 1 = i
    BY <1>1
<1>5. Len(SubSeq(s, 1, n)) = n /\ \A i \in 1..n : SubSeq(s, 1, n)[i] = s[i]
    BY <1>3, <1>4
<1> QED
    BY <1>3, <1>5, LenProperties

\* A prefix, element by element.
LEMMA PrefixIs ==
    ASSUME NEW S, NEW s \in Seq(S), NEW t \in Seq(S)
    PROVE  IsPrefix(s, t) <=> Len(s) <= Len(t) /\ \A i \in 1..Len(s) : s[i] = t[i]
<1> DEFINE n == Len(s)
<1>1. n \in Nat /\ Len(t) \in Nat /\ n \in 0..Len(s)
    BY LenProperties
<1>2. SubSeq(s, 1, n) = s
    BY SubSeqFull
<1> SUFFICES ASSUME n <= Len(t)
             PROVE  SubSeq(s, 1, n) = SubSeq(t, 1, n) <=> \A i \in 1..n : s[i] = t[i]
    BY DEF IsPrefix
<1>3. n \in 0..Len(t)
    BY <1>1
<1>4. /\ SubSeq(t, 1, n) \in Seq(S) /\ Len(SubSeq(t, 1, n)) = n
      /\ \A i \in 1..n : SubSeq(t, 1, n)[i] = t[i]
    BY <1>3, FirstOf
<1>5. ASSUME \A i \in 1..n : s[i] = t[i] PROVE s = SubSeq(t, 1, n)
    BY <1>4, <1>5, SeqEqual
<1> QED
    BY <1>2, <1>4, <1>5

\* A longer sequence has the same prefixes.
LEMMA PrefixGrows ==
    ASSUME NEW S, NEW c, c \in Seq(S) \cup {Nothing}, NEW s \in Seq(S), NEW x \in S
    PROVE  /\ CheckpointMatches(c, s) => CheckpointMatches(c, Append(s, x))
           /\ CheckpointMatches(s, s)
<1>1. /\ Append(s, x) \in Seq(S) /\ Len(Append(s, x)) = Len(s) + 1
      /\ \A i \in 1..Len(s) : Append(s, x)[i] = s[i]
    BY AppendProperties
<1>2. Len(s) \in Nat
    BY LenProperties
<1>3. ASSUME c \in Seq(S), IsPrefix(c, s) PROVE IsPrefix(c, Append(s, x))
  <2>1. Len(c) \in Nat /\ Len(c) <= Len(s) /\ \A i \in 1..Len(c) : c[i] = s[i]
      BY <1>3, PrefixIs, LenProperties
  <2>2. Len(c) <= Len(s) + 1 /\ \A i \in 1..Len(c) : i \in 1..Len(s)
      BY <1>2, <2>1
  <2>3. \A i \in 1..Len(c) : c[i] = Append(s, x)[i]
      BY <1>1, <2>1, <2>2
  <2> QED
      BY <1>1, <1>3, <2>2, <2>3, PrefixIs
<1>4. IsPrefix(s, s)
  <2>1. Len(s) <= Len(s)
      BY <1>2
  <2> QED
      BY <2>1, PrefixIs
<1> QED
    BY <1>3, <1>4 DEF CheckpointMatches

\* The payloads of the log.
LEMMA PayloadsIs ==
    ASSUME NEW l \in Seq(EntrySet)
    PROVE  /\ Payloads(l) \in Seq(PayloadSet) /\ Len(Payloads(l)) = Len(l)
           /\ \A e \in EntrySet : Payloads(Append(l, e)) = Append(Payloads(l), e.payload)
<1>1. Len(l) \in Nat /\ DOMAIN l = 1..Len(l) /\ \A i \in 1..Len(l) : l[i] \in EntrySet
    BY LenProperties
<1>2. \A e \in EntrySet : e.payload \in PayloadSet
    BY DEF EntrySet
<1>3. \A i \in 1..Len(l) : l[i].payload \in PayloadSet
    BY <1>1, <1>2
<1>4. Payloads(l) = [i \in 1..Len(l) |-> l[i].payload]
    BY <1>1 DEF Payloads
<1>5. Payloads(l) \in Seq(PayloadSet)
    BY <1>1, <1>3, <1>4, IsASeq
<1>6. Len(Payloads(l)) = Len(l)
  <2>1. DOMAIN Payloads(l) = 1..Len(l)
      BY <1>4
  <2> QED
      BY <1>1, <1>5, <2>1, LenProperties
<1>7. ASSUME NEW e \in EntrySet PROVE Payloads(Append(l, e)) = Append(Payloads(l), e.payload)
  <2> DEFINE a == Append(l, e)
             b == Append(Payloads(l), e.payload)
  <2>1. /\ a \in Seq(EntrySet) /\ DOMAIN a = 1..(Len(l) + 1)
        /\ a[Len(l) + 1] = e /\ \A i \in 1..Len(l) : a[i] = l[i]
      BY AppendProperties, LenProperties
  <2>2. /\ b \in Seq(PayloadSet) /\ DOMAIN b = 1..(Len(l) + 1)
        /\ b[Len(l) + 1] = e.payload /\ \A i \in 1..Len(l) : b[i] = Payloads(l)[i]
      BY <1>2, <1>5, <1>6, AppendProperties, LenProperties
  <2>3. b = [i \in 1..(Len(l) + 1) |-> b[i]]
    <3>1. Len(b) = Len(l) + 1
        BY <1>2, <1>5, <1>6, AppendProperties
    <3>2. b = [i \in 1..Len(b) |-> b[i]]
        BY <2>2, SeqDef
    <3> QED
        BY <3>1, <3>2
  <2> HIDE DEF a, b
  <2>4. \A i \in 1..(Len(l) + 1) : i = Len(l) + 1 \/ i \in 1..Len(l)
      BY <1>1
  <2>5. \A i \in 1..(Len(l) + 1) : a[i].payload = b[i]
      BY <1>4, <2>1, <2>2, <2>4
  <2>6. Payloads(a) = [i \in 1..(Len(l) + 1) |-> a[i].payload]
      BY <2>1 DEF Payloads
  <2>7. Payloads(a) = b
      BY <2>3, <2>5, <2>6
  <2> QED
      BY <2>7 DEF a, b
<1> QED
    BY <1>5, <1>6, <1>7

\* A log whose entries are in their places is read to its end (_scan_log).
LEMMA ScanLogIs ==
    ASSUME log \in Seq(EntrySet), \A i \in DOMAIN log : log[i].height = i
    PROVE  ScanLog = log
<1> DEFINE good == {n \in 0 .. Len(log) : \A i \in 1 .. n : log[i].height = i}
<1>1. Len(log) \in Nat /\ DOMAIN log = 1..Len(log)
    BY LenProperties
<1>2. Len(log) \in good /\ \A n \in good : n \in Nat /\ n <= Len(log)
    BY <1>1
<1> HIDE DEF good
<1>3. ASSUME NEW n \in good, \A k \in good : k <= n PROVE n = Len(log)
    BY <1>1, <1>2, <1>3
<1>4. (CHOOSE n \in good : \A k \in good : k <= n) = Len(log)
    BY <1>2, <1>3
<1>5. ScanLog = SubSeq(log, 1, Len(log))
    BY <1>4 DEF ScanLog, good
<1> QED
    BY <1>5, SubSeqFull

\* _stamp: one more entry in its place, or nothing.
LEMMA StampKeeps ==
    ASSUME ChainOK, up, NEW p \in PayloadSet, Stamp(p), up' = up
    PROVE  /\ ChainOK'
           /\ \A i \in DOMAIN leaves : i \in DOMAIN leaves' /\ leaves'[i] = leaves[i]
           /\ \E i \in DOMAIN leaves' : leaves'[i] = p
<1>1. log \in Seq(EntrySet) /\ leaves \in Seq(PayloadSet) /\ leaves = Payloads(log) /\ ~torn
    BY DEF ChainOK
<1>2. CASE Sealed(p)
  <2>1. UNCHANGED <<log, torn, leaves, dirty, saved, incidents, cp>>
      BY <1>2 DEF Stamp
  <2>2. ChainOK'
      BY <2>1 DEF ChainOK, CheckpointMatches, Payloads
  <2>3. \E i \in DOMAIN leaves : leaves[i] = p
      BY <1>2 DEF Sealed, Range
  <2> QED
      BY <2>1, <2>2, <2>3
<1>3. CASE ~Sealed(p)
  <2> DEFINE e == [height |-> Len(leaves) + 1, payload |-> p]
             n == Len(log)
  <2>1. /\ log' = Append(log, e) /\ torn' = FALSE /\ leaves' = Append(leaves, p)
        /\ UNCHANGED <<saved, incidents, cp>>
      BY <1>1, <1>3 DEF Stamp, AppendLine
  <2>2. Len(leaves) = n /\ n \in Nat
      BY <1>1, PayloadsIs, LenProperties
  <2>3. e \in EntrySet /\ e.payload = p /\ e.height = n + 1
      BY <2>2 DEF EntrySet
  <2> HIDE DEF e
  <2>4. /\ log' \in Seq(EntrySet) /\ DOMAIN log' = 1..(n + 1)
        /\ log'[n + 1] = e /\ \A i \in 1..n : log'[i] = log[i]
      BY <1>1, <2>1, <2>3, AppendProperties, LenProperties
  <2>5. DOMAIN log = 1..n /\ \A i \in 1..n : log[i].height = i
      BY <1>1, LenProperties DEF ChainOK
  <2> HIDE DEF n
  <2>6. \A i \in DOMAIN log' : log'[i].height = i
    <3>1. \A i \in 1..(n + 1) : i = n + 1 \/ i \in 1..n
        BY <2>2
    <3> QED
        BY <2>3, <2>4, <2>5, <3>1
  <2>7. Payloads(log') = Append(Payloads(log), p)
      BY <1>1, <2>1, <2>3, PayloadsIs
  <2>8. /\ leaves' \in Seq(PayloadSet) /\ DOMAIN leaves = 1..n /\ DOMAIN leaves' = 1..(n + 1)
        /\ leaves'[n + 1] = p /\ \A i \in 1..n : leaves'[i] = leaves[i]
      BY <1>1, <2>1, <2>2, AppendProperties, LenProperties
  <2>9. Payloads(log) \in Seq(PayloadSet)
      BY <1>1, PayloadsIs
  <2>10. CheckpointMatches(saved, Payloads(log'))
      BY <2>7, <2>9, PrefixGrows DEF ChainOK
  <2>11. CheckpointMatches(cp, leaves')
      BY <1>1, <2>1, PrefixGrows DEF ChainOK
  <2>12. ChainOK'
    <3>1. (saved \in Seq(PayloadSet) \cup {Nothing})' /\ (cp \in Seq(PayloadSet) \cup {Nothing})'
        BY <2>1 DEF ChainOK
    <3>2. CheckpointMatches(saved, Payloads(log))' /\ CheckpointMatches(cp, leaves)'
        BY <2>1, <2>10, <2>11 DEF CheckpointMatches, Payloads
    <3>3. (leaves = Payloads(log))'
        BY <1>1, <2>1, <2>7 DEF Payloads
    <3>4. incidents' = {} /\ torn' = FALSE
        BY <2>1 DEF ChainOK
    <3> QED
        BY <2>4, <2>6, <2>8, <3>1, <3>2, <3>3, <3>4 DEF ChainOK
  <2>13. n + 1 \in 1..(n + 1) /\ \A i \in 1..n : i \in 1..(n + 1)
      BY <2>2
  <2> QED
      BY <2>8, <2>12, <2>13
<1> QED
    BY <1>2, <1>3

\* _load: what a killed Shield left behind is read back without an incident.
LEMMA LoadKeeps ==
    ASSUME ChainOK, Load, up' = TRUE
    PROVE  ChainOK'
<1>1. ScanLog = log
    BY ScanLogIs DEF ChainOK
<1>2. log \in Seq(EntrySet) /\ incidents = {} /\ CheckpointMatches(saved, Payloads(log))
    BY DEF ChainOK
<1>3. /\ log' = log /\ torn' = FALSE /\ leaves' = Payloads(log) /\ cp' = saved /\ saved' = saved
      /\ incidents' = {}
    BY <1>1, <1>2 DEF Load, TrimTornTail
<1>4. Payloads(log) \in Seq(PayloadSet)
    BY <1>2, PayloadsIs
<1>5. (leaves = Payloads(log))'
    BY <1>3 DEF Payloads
<1>6. CheckpointMatches(saved, Payloads(log))' /\ CheckpointMatches(cp, leaves)'
    BY <1>2, <1>3 DEF Payloads, CheckpointMatches
<1> QED
    BY <1>3, <1>4, <1>5, <1>6 DEF ChainOK

\* The end of a batch, a receipt and the publisher sign what is in memory.
LEMMA SignKeeps ==
    ASSUME ChainOK, up, up' = up, UNCHANGED <<log, torn, incidents, leaves>>,
           SignCheckpoint \/ UNCHANGED <<cp, saved>>
    PROVE  ChainOK'
<1>1. CASE SignCheckpoint
  <2>1. leaves \in Seq(PayloadSet) /\ leaves = Payloads(log) /\ cp' = leaves /\ saved' = leaves
      BY <1>1 DEF ChainOK, SignCheckpoint
  <2>2. IsPrefix(leaves, leaves)
      BY <2>1, PrefixIs, LenProperties
  <2>3. CheckpointMatches(saved, Payloads(log))' /\ CheckpointMatches(cp, leaves)'
      BY <2>1, <2>2 DEF CheckpointMatches, Payloads
  <2> QED
      BY <2>1, <2>3 DEF ChainOK, Payloads
<1>2. CASE UNCHANGED <<cp, saved>>
    BY <1>2 DEF ChainOK, CheckpointMatches, Payloads
<1> QED
    BY <1>1, <1>2

\* verify_chain finds nothing to report.
LEMMA VerifyKeeps ==
    ASSUME ChainOK, up, up' = up, VerifyChain
    PROVE  ChainOK'
<1>1. ScanLog = log
    BY ScanLogIs DEF ChainOK
<1>2. incidents' = {} /\ UNCHANGED <<log, torn, saved, leaves, cp>>
    BY <1>1 DEF VerifyChain, ChainOK
<1> QED
    BY <1>2 DEF ChainOK, CheckpointMatches, Payloads

\* The process dies, in the middle of a line or not.
LEMMA CrashKeeps ==
    ASSUME ChainOK, Crash
    PROVE  ChainOK'
<1>1. <<>> \in Seq(PayloadSet)
    BY EmptySeq
<1>2. UNCHANGED <<log, saved, incidents>> /\ leaves' = <<>> /\ cp' = Nothing /\ up' = FALSE
    BY DEF Crash
<1> QED
    BY <1>1, <1>2 DEF ChainOK, CheckpointMatches, Payloads

-----------------------------------------------------------------------------
(* One row of the ledger.                                                  *)

\* A non-empty set of numbers has a least.
LEMMA LeastOf ==
    ASSUME NEW S, S \subseteq Nat, S # {}
    PROVE  \E m \in S : \A n \in S : m <= n
<1> DEFINE R == OpToRel(<, Nat)
<1>1. \A x, y \in Nat : y < x => <<y, x>> \in R
    BY DEF OpToRel
<1>2. IsWellFoundedOn(R, Nat)
    BY NatLessThanWellFounded
<1> HIDE DEF R
<1>3. PICK x \in S : \A y \in S : ~ (<<y, x>> \in R)
    BY <1>2, WFMin
<1>4. \A y \in S : ~ (y < x)
    BY <1>1, <1>3
<1> QED
    BY <1>4

\* The item a message or a tool call becomes.
LEMMA NewItemIs ==
    ASSUME NEW r \in FiledRows, IsABag(seen)
    PROVE  /\ NewItem(r) \in ItemSet /\ NewItem(r).payload \in PayloadSet
           /\ NewItem(r).payload.id.key = r.key
<1>1. Copies(r.key, seen) \in Nat
    BY BagAddIs
<1>2. RowIdFor(r) \in [key : AllKeys, n : Nat] /\ RowIdFor(r).key = r.key
    BY <1>1 DEF RowIdFor, FiledRows
<1>3. r.text \in BOOLEAN /\ r.of \in {q.of : q \in AllRows}
    BY DEF FiledRows
<1> HIDE DEF AllKeys, AllRows
<1>4. /\ SealPayload(RowIdFor(r), r) \in PayloadSet
      /\ SealPayload(RowIdFor(r), r).id = RowIdFor(r)
    BY <1>2, <1>3 DEF SealPayload, PayloadSet
<1>5. (r.kind = "call") \in BOOLEAN
    OBVIOUS
<1> QED
    BY <1>2, <1>3, <1>4, <1>5 DEF NewItem, ItemSet

\* _absorb: the row is met, at most one payload is stamped, and a message's
\* payload carries its key.
LEMMA AbsorbIs ==
    ASSUME NEW r \in FiledRows, IsABag(seen), items \in Seq(ItemSet), Absorb(r)
    PROVE  /\ IsABag(seen') /\ DOMAIN seen' = DOMAIN seen \cup {r.key}
           /\ items' \in Seq(ItemSet)
           /\ \/ \E p \in PayloadSet : Stamp(p)
              \/ UNCHANGED <<log, torn, leaves, dirty, saved, incidents, cp>>
           /\ r.kind = "send" => \E p \in PayloadSet : p.id.key = r.key /\ Stamp(p)
<1>1. seen' = seen (+) SetToBag({r.key})
    BY DEF Absorb
<1>2. IsABag(seen') /\ DOMAIN seen' = DOMAIN seen \cup {r.key}
    BY <1>1, BagAddIs
<1>3. Len(items) \in Nat /\ DOMAIN items = 1..Len(items) /\ \A i \in 1..Len(items) : items[i] \in ItemSet
    BY LenProperties
<1>4. CASE r.kind \in {"send", "call"}
  <2> DEFINE all == <<NewItem(r)>> \o items
             n == IF Len(items) < MaxItems THEN Len(items) + 1 ELSE MaxItems
  <2>1. /\ items' = SubSeq(all, 1, n)
        /\ IF r.kind = "send" THEN Stamp(NewItem(r).payload)
           ELSE UNCHANGED <<log, torn, leaves, dirty, saved, incidents, cp>>
      BY <1>4 DEF Absorb
  <2>2. /\ NewItem(r) \in ItemSet /\ NewItem(r).payload \in PayloadSet
        /\ NewItem(r).payload.id.key = r.key
      BY NewItemIs
  <2>3. <<NewItem(r)>> \in Seq(ItemSet) /\ Len(<<NewItem(r)>>) = 1
      BY <2>2
  <2>4. all \in Seq(ItemSet) /\ Len(all) = 1 + Len(items)
      BY <2>3, ConcatProperties
  <2>5. n \in 0..Len(all)
      BY <1>3, <2>4, FeedAssumption
  <2> HIDE DEF all, n
  <2>6. items' \in Seq(ItemSet)
      BY <2>1, <2>4, <2>5, FirstOf
  <2> QED
      BY <1>2, <1>4, <2>1, <2>2, <2>6
<1>5. CASE r.kind \in {"result", "reply"} /\ MatchIn(r) # {}
  <2> DEFINE i == Matched(r)
             p == [items[i].payload EXCEPT !.outcome = r.kind]
  <2>1. items' = [items EXCEPT ![i].running = FALSE] /\ Stamp(p)
      BY <1>5 DEF Absorb
  <2>2. MatchIn(r) \subseteq 1..Len(items)
      BY <1>3 DEF MatchIn
  <2>3. \E m \in MatchIn(r) : \A n \in MatchIn(r) : m <= n
    <3>1. MatchIn(r) \subseteq Nat
        BY <1>3, <2>2
    <3> QED
        BY <1>5, <3>1, LeastOf
  <2>4. i \in 1..Len(items)
      BY <2>2, <2>3 DEF Matched
  <2> HIDE DEF i
  <2>5. items[i] \in ItemSet
      BY <1>3, <2>4
  <2>6. p \in PayloadSet /\ [items[i] EXCEPT !.running = FALSE] \in ItemSet
      BY <1>5, <2>5 DEF ItemSet, PayloadSet
  <2>7. items' = [items EXCEPT ![i] = [items[i] EXCEPT !.running = FALSE]]
      BY <1>3, <2>1, <2>4
  <2>8. items' \in Seq(ItemSet)
      BY <2>4, <2>6, <2>7, ExceptSeq
  <2> QED
      BY <1>2, <1>5, <2>1, <2>6, <2>8
<1>6. CASE ~(r.kind \in {"send", "call"}) /\ ~(r.kind \in {"result", "reply"} /\ MatchIn(r) # {})
  <2>1. UNCHANGED <<items, log, torn, leaves, dirty, saved, incidents, cp>>
      BY <1>6 DEF Absorb
  <2> QED
      BY <1>2, <1>6, <2>1
<1> QED
    BY <1>4, <1>5, <1>6

-----------------------------------------------------------------------------
(* Types, the seals, and a Shield that is down.                            *)

ShieldInv == ChainOK /\ FeedType /\ BrowserType /\ DownOK

\* Feed.poll: what a thread takes.
LEMMA PollTakeIs ==
    ASSUME FeedType, NEW t \in Threads, NEW from, PollTake(t, from)
    PROVE  /\ pollLock = Nothing /\ pc[t] = from
           /\ UNCHANGED <<chain, ledger, up, lines, scanned, seen, items, crashes, scrubs>>
           /\ \E new \in Seq(FiledRows) :
                /\ work' = [work EXCEPT ![t] = new]
                /\ new = <<>> <=> ~(scanned /\ offset < Len(ledger))
                /\ Keys(new) = IF scanned /\ offset < Len(ledger)
                               THEN {ledger[i].key : i \in (offset + 1)..Len(ledger)} ELSE {}
                /\ offset' = IF scanned THEN Len(ledger) ELSE offset
                /\ pollLock' = IF new = <<>> THEN Nothing ELSE t
                /\ pc' = [pc EXCEPT ![t] = IF new # <<>> THEN "absorb"
                                            ELSE IF t \in Handlers THEN "reply" ELSE "idle"]
                /\ passed' = IF Scrubbing THEN passed \cup Skipped(offset', work') ELSE passed
<1> DEFINE n == Len(ledger)
           new == IF scanned /\ offset < n THEN SubSeq(ledger, offset + 1, n) ELSE <<>>
<1>1. /\ pollLock = Nothing /\ pc[t] = from
      /\ UNCHANGED <<chain, ledger, up, lines, scanned, seen, items, crashes, scrubs>>
    BY DEF PollTake, PollLockFree
<1>2. /\ offset' = IF scanned THEN n ELSE offset
      /\ work' = [work EXCEPT ![t] = new]
      /\ pollLock' = IF new = <<>> THEN pollLock ELSE t
      /\ pc' = [pc EXCEPT ![t] = IF new # <<>> THEN "absorb"
                                  ELSE IF t \in Handlers THEN "reply" ELSE "idle"]
      /\ passed' = IF Scrubbing THEN passed \cup Skipped(offset', work') ELSE passed
    BY DEF PollTake, Goto
<1>3. ledger \in Seq(FiledRows) /\ offset \in Nat /\ n \in Nat
    BY LenProperties DEF FeedType
<1>4. CASE scanned /\ offset < n
  <2> DEFINE part == SubSeq(ledger, offset + 1, n)
             lo == offset + 1
  <2>1. lo \in Nat /\ lo > 0 /\ lo <= n
      BY <1>3, <1>4
  <2> HIDE DEF lo, n
  <2>2. /\ SubSeq(ledger, lo, Len(ledger)) \in Seq(FiledRows)
        /\ Keys(SubSeq(ledger, lo, Len(ledger))) = {ledger[i].key : i \in lo..Len(ledger)}
      BY <1>3, <2>1, KeysSub
  <2>3. part \in Seq(FiledRows) /\ Keys(part) = {ledger[i].key : i \in lo..n}
      BY <2>2 DEF n, lo
  <2>4. n \in lo..n
      BY <1>3, <2>1
  <2>5. ledger[n].key \in Keys(part)
      BY <2>3, <2>4
  <2>6. part # <<>>
      BY <2>5, KeysEmpty
  <2>7. new = part
      BY <1>4
  <2>8. new \in Seq(FiledRows) /\ new # <<>> /\ Keys(new) = {ledger[i].key : i \in (offset + 1)..n}
      BY <2>3, <2>6, <2>7 DEF lo
  <2> QED
      BY <1>1, <1>2, <1>4, <2>8 DEF n
<1>5. CASE ~(scanned /\ offset < n)
  <2>1. new = <<>> /\ new \in Seq(FiledRows) /\ Keys(new) = {}
      BY <1>5, KeysEmpty, EmptySeq
  <2> QED
      BY <1>1, <1>2, <1>5, <2>1
<1> QED
    BY <1>4, <1>5

\* A step of the watcher or of the scan keeps the types of the browser's part.
LEMMA BrowserTypeSame ==
    ASSUME BrowserType, UNCHANGED <<queue, flight, req, dedupe, filed>>
    PROVE  BrowserType'
BY DEF BrowserType

\* Steps of Shield's own threads.
LEMMA ShieldStepTypes ==
    ASSUME ShieldInv, ShieldStep, UNCHANGED browser
    PROVE  ShieldInv'
<1>0. BrowserType'
    BY BrowserTypeSame DEF ShieldInv, browser
<1>a. Main \in Threads /\ Watcher \in Threads /\ Handlers \subseteq Threads
    BY DEF Threads
<1> USE DEF ShieldInv
<1>1. CASE Start
  <2>1. up' = TRUE /\ Load /\ ledger' = Retained(ledger)
        /\ pc' = [t \in Threads |-> IF t = Main THEN "scan" ELSE "idle"]
        /\ UNCHANGED <<work, lines, scanned, offset, pollLock, seen, items, passed, crashes, scrubs>>
      BY <1>1 DEF Start
  <2>2. ChainOK'
      BY <2>1, LoadKeeps
  <2>3. ledger' \in Seq(FiledRows)
      BY <2>1, RetainedIs DEF FeedType
  <2>4. pc' \in [Threads -> Places]
      BY <2>1 DEF Places
  <2>5. FeedType'
      BY <2>1, <2>3, <2>4 DEF FeedType, Places
  <2> QED
      BY <1>0, <2>1, <2>2, <2>5 DEF DownOK
<1>2. CASE ScanBegin \/ ScanOffset \/ \E t \in Handlers : Resync(t)
  <2>1. UNCHANGED <<chain, ledger, up, work, pollLock, seen, items, crashes>>
      BY <1>2 DEF ScanBegin, ScanOffset, Resync
  <2>2. ChainOK'
      BY <2>1 DEF ChainOK, chain, CheckpointMatches, Payloads
  <2>3. \E t \in Threads : pc[t] # "idle"
      BY <1>2, <1>a DEF ScanBegin, ScanOffset, Resync, At
  <2>4. up
      BY <2>3 DEF DownOK
  <2>5. pc' \in [Threads -> Places]
      BY <1>2, <1>a DEF ScanBegin, ScanOffset, Resync, At, FeedType, Places
  <2>7. lines' \in Nat /\ scanned' \in BOOLEAN /\ offset' \in Nat
    <3>1. Len(ledger) \in Nat
        BY LenProperties DEF FeedType
    <3>2. lines \in Nat /\ scanned \in BOOLEAN /\ offset \in Nat
        BY DEF FeedType
    <3>3. CASE ScanBegin
        BY <3>2, <3>3 DEF ScanBegin
    <3>4. CASE ScanOffset
        BY <3>2, <3>4 DEF ScanOffset
    <3>5. CASE \E t \in Handlers : Resync(t)
        BY <3>1, <3>2, <3>5 DEF Resync
    <3> QED
        BY <1>2, <3>3, <3>4, <3>5
  <2>6. FeedType'
      BY <2>1, <2>5, <2>7 DEF FeedType
  <2> QED
      BY <1>0, <2>1, <2>2, <2>4, <2>6 DEF DownOK
<1>3. CASE ScanRead
  <2>1. UNCHANGED <<chain, ledger, up, scanned, offset, pollLock, seen, items, crashes>>
      BY <1>3 DEF ScanRead
  <2>2. ChainOK'
      BY <2>1 DEF ChainOK, chain, CheckpointMatches, Payloads
  <2>3. up
      BY <1>3, <1>a DEF ScanRead, At, DownOK
  <2>4. pc' \in [Threads -> Places] /\ work' \in [Threads -> Seq(FiledRows)] /\ lines' \in Nat
      BY <1>3, <1>a, LenProperties DEF ScanRead, At, FeedType, Places
  <2>5. FeedType'
      BY <2>1, <2>4 DEF FeedType
  <2> QED
      BY <1>0, <2>1, <2>2, <2>3, <2>5 DEF DownOK
<1>4. CASE WatcherPoll
  <2>1. up /\ PollTake(Watcher, "idle")
      BY <1>4 DEF WatcherPoll
  <2>2. PICK new \in Seq(FiledRows) :
                /\ work' = [work EXCEPT ![Watcher] = new]
                /\ offset' = IF scanned THEN Len(ledger) ELSE offset
                /\ pollLock' = IF new = <<>> THEN Nothing ELSE Watcher
                /\ pc' = [pc EXCEPT ![Watcher] = IF new # <<>> THEN "absorb"
                                            ELSE IF Watcher \in Handlers THEN "reply" ELSE "idle"]
      BY <1>a, <2>1, PollTakeIs
  <2>3. UNCHANGED <<chain, ledger, up, lines, scanned, seen, items, crashes, scrubs>>
      BY <1>a, <2>1, PollTakeIs
  <2>4. ChainOK'
      BY <2>3 DEF ChainOK, chain, CheckpointMatches, Payloads
  <2>5. /\ work' \in [Threads -> Seq(FiledRows)] /\ pc' \in [Threads -> Places]
        /\ offset' \in Nat /\ pollLock' \in Threads \cup {Nothing}
      BY <1>a, <2>2, LenProperties DEF FeedType, Places
  <2>6. FeedType'
      BY <2>3, <2>5 DEF FeedType
  <2> QED
      BY <1>0, <2>1, <2>3, <2>4, <2>6 DEF DownOK
<1>5. CASE ScrubLedger
  <2>1. up /\ UNCHANGED <<chain, up, lines, work, scanned, offset, pollLock, seen, items, passed, crashes>>
      BY <1>5 DEF ScrubLedger
  <2>2. PICK t \in Handlers :
          /\ At(t, "idle", "resync")
          /\ LET kept == Retained(ledger) IN
             ledger' = [i \in DOMAIN kept |-> [kept[i] EXCEPT !.text = FALSE]]
      BY <1>5 DEF ScrubLedger
  <2>3. ledger' \in Seq(FiledRows)
      BY <2>2, ScrubbedIs DEF FeedType
  <2>4. pc' \in [Threads -> Places]
      BY <1>a, <2>2 DEF At, FeedType, Places
  <2>5. ChainOK'
      BY <2>1 DEF ChainOK, chain, CheckpointMatches, Payloads
  <2>6. FeedType'
      BY <2>1, <2>3, <2>4 DEF FeedType
  <2> QED
      BY <1>0, <2>1, <2>5, <2>6 DEF DownOK
<1>6. ASSUME NEW t \in Threads, AbsorbRow(t) PROVE ShieldInv'
  <2> DEFINE r == Head(work[t])
  <2>1. /\ pc[t] = "absorb" /\ work[t] # <<>> /\ Absorb(r)
        /\ work' = [work EXCEPT ![t] = Tail(work[t])]
        /\ pc' = [pc EXCEPT ![t] = IF Len(work[t]) = 1 THEN "endBatch" ELSE "absorb"]
        /\ UNCHANGED <<ledger, up, lines, scanned, offset, pollLock, passed, crashes, scrubs>>
      BY <1>6 DEF AbsorbRow, FeedType
  <2>2. up
      BY <2>1 DEF DownOK
  <2>3. work[t] \in Seq(FiledRows)
      BY DEF FeedType
  <2>4. r \in FiledRows /\ Tail(work[t]) \in Seq(FiledRows)
      BY <2>1, <2>3, KeysTail
  <2> HIDE DEF r
  <2>5. /\ IsABag(seen') /\ items' \in Seq(ItemSet)
        /\ \/ \E p \in PayloadSet : Stamp(p)
           \/ UNCHANGED <<log, torn, leaves, dirty, saved, incidents, cp>>
      BY <2>1, <2>4, AbsorbIs DEF FeedType
  <2>6. ChainOK'
    <3>1. CASE \E p \in PayloadSet : Stamp(p)
        BY <2>1, <2>2, <3>1, StampKeeps
    <3>2. CASE UNCHANGED <<log, torn, leaves, dirty, saved, incidents, cp>>
        BY <2>1, <3>2 DEF ChainOK, CheckpointMatches, Payloads
    <3> QED
        BY <2>5, <3>1, <3>2
  <2>7. work' \in [Threads -> Seq(FiledRows)] /\ pc' \in [Threads -> Places]
      BY <2>1, <2>4 DEF FeedType, Places
  <2>8. FeedType'
      BY <2>1, <2>5, <2>7 DEF FeedType
  <2> QED
      BY <1>0, <2>1, <2>2, <2>6, <2>8 DEF DownOK
<1>7. ASSUME NEW t \in Threads, FinishPoll(t) PROVE ShieldInv'
  <2>1. /\ pc[t] = "endBatch" /\ EndBatch
        /\ pc' = [pc EXCEPT ![t] = IF t \in Handlers THEN "reply" ELSE IF t = Main THEN "scanOffset" ELSE "idle"]
        /\ pollLock' = IF pollLock = t THEN Nothing ELSE pollLock
        /\ UNCHANGED <<ledger, up, lines, work, scanned, offset, seen, items, passed, crashes, scrubs>>
      BY <1>7 DEF FinishPoll, At
  <2>2. up
      BY <2>1 DEF DownOK
  <2>3. ChainOK'
      BY <2>1, <2>2, SignKeeps DEF EndBatch
  <2>4. pc' \in [Threads -> Places] /\ pollLock' \in Threads \cup {Nothing}
      BY <2>1 DEF FeedType, Places
  <2>5. FeedType'
      BY <2>1, <2>4 DEF FeedType
  <2> QED
      BY <1>0, <2>1, <2>2, <2>3, <2>5 DEF DownOK
<1>8. CASE up /\ (Sign \/ VerifyChain) /\ UNCHANGED <<feed, crashes, scrubs>>
  <2>1. UNCHANGED <<ledger, up, pc, work, lines, scanned, offset, pollLock, seen, items, crashes>>
      BY <1>8 DEF feed
  <2>2. ChainOK'
      BY <1>8, <2>1, SignKeeps, VerifyKeeps DEF Sign
  <2>3. FeedType'
      BY <2>1 DEF FeedType
  <2> QED
      BY <1>0, <1>8, <2>1, <2>2, <2>3 DEF DownOK
<1> QED
    BY <1>1, <1>2, <1>3, <1>4, <1>5, <1>6, <1>7, <1>8 DEF ShieldStep

\* A queue that gets a flush's rows back keeps its type.
LEMMA PutsBackTypes ==
    ASSUME BrowserType, NEW f \in Flights, PutsBack(f)
    PROVE  /\ queue' \in Seq(BrowserRows)
           /\ flight' = [flight EXCEPT ![f] = Idle] /\ flight' \in [Flights -> FlightSet]
           /\ Keys(queue') \subseteq Keys(flight[f].batch) \cup Keys(queue)
           /\ dropped' = dropped \cup ((Keys(flight[f].batch) \cup Keys(queue)) \ Keys(queue'))
           /\ DistinctKeys(queue) /\ DistinctKeys(flight[f].batch)
                 /\ Keys(flight[f].batch) \cap Keys(queue) = {} => DistinctKeys(queue')
<1> DEFINE b == flight[f].batch
           all == b \o queue
<1>1. b \in Seq(BrowserRows) /\ queue \in Seq(BrowserRows)
    BY DEF BrowserType, FlightSet
<1>2. /\ queue' = IF consent THEN Capped(all) ELSE <<>>
      /\ dropped' = dropped \cup (Keys(all) \ Keys(IF consent THEN Capped(all) ELSE <<>>))
      /\ flight' = [flight EXCEPT ![f] = Idle]
    BY DEF PutsBack, PutBack
<1> HIDE DEF b
<1>3. /\ all \in Seq(BrowserRows) /\ Keys(all) = Keys(b) \cup Keys(queue)
      /\ DistinctKeys(queue) /\ DistinctKeys(b) /\ Keys(b) \cap Keys(queue) = {} => DistinctKeys(all)
    BY <1>1, KeysConcat
<1> HIDE DEF all
<1>4. /\ Capped(all) \in Seq(BrowserRows) /\ Keys(Capped(all)) \subseteq Keys(all)
      /\ DistinctKeys(all) => DistinctKeys(Capped(all))
    BY <1>3, CappedIs
<1>5. <<>> \in Seq(BrowserRows)
    BY EmptySeq
<1>6. Idle \in FlightSet
    BY <1>5 DEF Idle, FlightSet
<1>7. flight' \in [Flights -> FlightSet]
    BY <1>2, <1>6 DEF BrowserType
<1>8. dropped' = dropped \cup ((Keys(b) \cup Keys(queue)) \ Keys(queue'))
    BY <1>2, <1>3
<1> QED
    BY <1>2, <1>3, <1>4, <1>5, <1>7, <1>8, KeysEmpty DEF b

\* Steps of the service worker: Shield's own state stays.
LEMMA WorkerTypes ==
    ASSUME ShieldInv, UNCHANGED fvars,
           \/ \E r \in BrowserRows : Capture(r)
           \/ \E f \in Flights : Flush(f) \/ Refused(f) \/ LoseAnswer(f) \/ NoteWitness(f)
           \/ Withdraw \/ AcceptRecord \/ KillWorker
    PROVE  ShieldInv'
<1> USE DEF ShieldInv
<1>1. ChainOK'
    BY DEF ChainOK, chain, fvars, feed, CheckpointMatches, Payloads
<1>2. FeedType' /\ DownOK'
    BY DEF FeedType, DownOK, fvars, feed
<1>a. <<>> \in Seq(BrowserRows) /\ Idle \in FlightSet
    BY EmptySeq DEF Idle, FlightSet
<1>3. BrowserType'
  <2>1. ASSUME NEW r \in BrowserRows, Capture(r) PROVE BrowserType'
    <3>1. queue' = Capped(Append(queue, r)) /\ UNCHANGED <<flight, req, dedupe, filed>>
        BY <2>1 DEF Capture
    <3>2. Append(queue, r) \in Seq(BrowserRows)
        BY KeysAppend DEF BrowserType
    <3>3. queue' \in Seq(BrowserRows)
        BY <3>1, <3>2, CappedIs
    <3> QED
        BY <3>1, <3>3 DEF BrowserType
  <2>2. ASSUME NEW f \in Flights, Flush(f) PROVE BrowserType'
    <3>1. /\ flight' = [flight EXCEPT ![f] = [stage |-> "check", batch |-> queue, total |-> 0]]
          /\ queue' = <<>> /\ UNCHANGED <<req, dedupe, filed>>
        BY <2>2 DEF Flush
    <3>2. [stage |-> "check", batch |-> queue, total |-> 0] \in FlightSet
        BY DEF BrowserType, FlightSet
    <3> QED
        BY <1>a, <3>1, <3>2 DEF BrowserType
  <2>3. ASSUME NEW f \in Flights, Refused(f) \/ LoseAnswer(f) PROVE BrowserType'
    <3>1. PutsBack(f) /\ UNCHANGED <<req, dedupe, filed>>
        BY <2>3 DEF Refused, LoseAnswer
    <3> QED
        BY <3>1, PutsBackTypes DEF BrowserType
  <2>4. ASSUME NEW f \in Flights, NoteWitness(f) PROVE BrowserType'
    <3>1. flight' = [flight EXCEPT ![f] = Idle] /\ UNCHANGED <<queue, req, dedupe, filed>>
        BY <2>4 DEF NoteWitness
    <3> QED
        BY <1>a, <3>1 DEF BrowserType
  <2>5. CASE Withdraw
    <3>1. queue' = <<>> /\ UNCHANGED <<flight, req, dedupe, filed>>
        BY <2>5 DEF Withdraw
    <3> QED
        BY <1>a, <3>1 DEF BrowserType
  <2>6. CASE AcceptRecord
      BY <2>6 DEF AcceptRecord, BrowserType
  <2>7. CASE KillWorker
    <3>1. /\ flight' = [f \in Flights |-> Idle]
          /\ req' = [t \in Handlers |-> [req[t] EXCEPT !.flight = Nothing]]
          /\ UNCHANGED <<queue, dedupe, filed>>
        BY <2>7 DEF KillWorker
    <3>2. flight' \in [Flights -> FlightSet]
        BY <1>a, <3>1
    <3>3. \A q \in RequestSet : [q EXCEPT !.flight = Nothing] \in RequestSet
        BY DEF RequestSet
    <3>4. req' \in [Handlers -> RequestSet]
        BY <3>1, <3>3 DEF BrowserType
    <3> QED
        BY <3>1, <3>2, <3>4 DEF BrowserType
  <2> QED
      BY <2>1, <2>2, <2>3, <2>4, <2>5, <2>6, <2>7
<1> QED
    BY <1>1, <1>2, <1>3

\* POST /api/browser, from the post to the answer, and the other writers.
LEMMA EndpointTypes ==
    ASSUME ShieldInv,
           \/ \E t \in Handlers : IngestRow(t) \/ IngestPoll(t) \/ Answer(t)
           \/ \E r \in OtherRows : OtherAppend(r)
           \/ \E f \in Flights, t \in Handlers : Post(f, t)
    PROVE  ShieldInv'
<1> USE DEF ShieldInv
<1>a. Main \in Threads /\ Watcher \in Threads /\ Handlers \subseteq Threads
    BY DEF Threads
<1>b. <<>> \in Seq(BrowserRows)
    BY EmptySeq
<1>c. NoRequest \in RequestSet
    BY <1>b DEF NoRequest, RequestSet
<1>d. UNCHANGED <<chain, up>>
    <2>1. ASSUME NEW t \in Handlers, IngestPoll(t) PROVE UNCHANGED <<chain, up>>
      <3>1. PollTake(t, "poll")
          BY <2>1 DEF IngestPoll
      <3> QED
          BY <1>a, <3>1, PollTakeIs
    <2> QED
        BY <2>1 DEF IngestRow, Answer, OtherAppend, ProxyAppend, Post
<1>e. ChainOK'
    BY <1>d DEF ChainOK, chain, CheckpointMatches, Payloads
<1>1. ASSUME NEW t \in Handlers, IngestRow(t) PROVE ShieldInv'
  <2> DEFINE r == Head(req[t].rows)
             file == Fresh(r) /\ r.key \notin AppsOff
             next == [rows |-> Tail(req[t].rows), flight |-> req[t].flight,
                      accepted |-> req[t].accepted \/ file]
  <2>1. /\ pc[t] = "ingest" /\ req[t].rows # <<>> /\ dedupe' = dedupe \cup {r.key}
        /\ IF file THEN ledger' = Append(ledger, r) /\ filed' = filed (+) SetToBag({r.key})
           ELSE UNCHANGED <<ledger, filed>>
        /\ req' = [req EXCEPT ![t] = next]
        /\ pc' = [pc EXCEPT ![t] = IF Len(req[t].rows) > 1 THEN "ingest"
                   ELSE IF req[t].accepted \/ file THEN "poll" ELSE "reply"]
        /\ UNCHANGED <<up, work, lines, scanned, offset, pollLock, seen, items, crashes, queue, flight>>
      BY <1>1 DEF IngestRow, AppendRow, Goto
  <2>2. req[t] \in RequestSet /\ req[t].rows \in Seq(BrowserRows) /\ req[t].accepted \in BOOLEAN
        /\ req[t].flight \in Flights \cup {Nothing}
      BY DEF BrowserType, RequestSet
  <2>3. r \in BrowserRows /\ Tail(req[t].rows) \in Seq(BrowserRows)
      BY <2>1, <2>2, KeysTail
  <2>4. r \in FiledRows /\ r.key \in BrowserKeys
      BY <2>3, RowsAreFiled
  <2>5. (req[t].accepted \/ file) \in BOOLEAN
      OBVIOUS
  <2> HIDE DEF r, file
  <2>6. next \in RequestSet
      BY <2>2, <2>3, <2>5 DEF RequestSet
  <2> HIDE DEF next
  <2>7. ledger' \in Seq(FiledRows) /\ IsABag(filed')
    <3>1. ledger \in Seq(FiledRows) /\ IsABag(filed)
        BY DEF FeedType, BrowserType
    <3>2. CASE file
      <4>1. ledger' = Append(ledger, r) /\ filed' = filed (+) SetToBag({r.key})
          BY <2>1, <3>2
      <4>2. Append(ledger, r) \in Seq(FiledRows)
          BY <2>4, <3>1, KeysAppend
      <4>3. IsABag(filed')
          BY <3>1, <4>1, BagAddIs
      <4> QED
          BY <4>1, <4>2, <4>3
    <3>3. CASE ~file
        BY <2>1, <3>1, <3>3
    <3> QED
        BY <3>2, <3>3
  <2>8. pc' \in [Threads -> Places]
      BY <1>a, <2>1 DEF FeedType, Places
  <2>9. FeedType'
      BY <2>1, <2>7, <2>8 DEF FeedType
  <2>10. BrowserType'
      BY <2>1, <2>4, <2>6, <2>7 DEF BrowserType
  <2>11. up /\ up'
      BY <1>a, <2>1 DEF DownOK
  <2> QED
      BY <1>e, <2>9, <2>10, <2>11 DEF DownOK
<1>2. ASSUME NEW t \in Handlers, IngestPoll(t) PROVE ShieldInv'
  <2>1. PollTake(t, "poll") /\ UNCHANGED browser
      BY <1>2 DEF IngestPoll
  <2>2. t \in Threads
      BY <1>a
  <2>3. PICK new \in Seq(FiledRows) :
                /\ work' = [work EXCEPT ![t] = new]
                /\ offset' = IF scanned THEN Len(ledger) ELSE offset
                /\ pollLock' = IF new = <<>> THEN Nothing ELSE t
                /\ pc' = [pc EXCEPT ![t] = IF new # <<>> THEN "absorb"
                                            ELSE IF t \in Handlers THEN "reply" ELSE "idle"]
      BY <2>1, <2>2, PollTakeIs
  <2>4. pc[t] = "poll" /\ UNCHANGED <<chain, ledger, up, lines, scanned, seen, items, crashes, scrubs>>
      BY <2>1, <2>2, PollTakeIs
  <2>5. /\ work' \in [Threads -> Seq(FiledRows)] /\ pc' \in [Threads -> Places]
        /\ offset' \in Nat /\ pollLock' \in Threads \cup {Nothing}
      BY <2>2, <2>3, LenProperties DEF FeedType, Places
  <2>6. FeedType'
      BY <2>4, <2>5 DEF FeedType
  <2>7. BrowserType'
      BY <2>1, BrowserTypeSame DEF browser
  <2>8. up /\ up'
      BY <2>2, <2>4 DEF DownOK
  <2> QED
      BY <1>e, <2>6, <2>7, <2>8 DEF DownOK
<1>3. ASSUME NEW t \in Handlers, Answer(t) PROVE ShieldInv'
  <2>1. /\ pc[t] = "reply" /\ pc' = [pc EXCEPT ![t] = "idle"]
        /\ flight' = IF req[t].flight = Nothing THEN flight
                     ELSE [flight EXCEPT ![req[t].flight] =
                          [stage |-> "answered", batch |-> flight[req[t].flight].batch,
                           total |-> Len(leaves)]]
        /\ req' = [req EXCEPT ![t] = NoRequest]
        /\ UNCHANGED <<ledger, up, work, lines, scanned, offset, pollLock, seen, items, crashes,
                       queue, dedupe, filed>>
      BY <1>3 DEF Answer, At
  <2>2. Len(leaves) \in Nat
      BY LenProperties DEF ChainOK
  <2>3. req[t].flight # Nothing => flight[req[t].flight] \in FlightSet
      BY DEF BrowserType, RequestSet
  <2>4. req[t].flight # Nothing => [stage |-> "answered", batch |-> flight[req[t].flight].batch,
                                     total |-> Len(leaves)] \in FlightSet
      BY <2>2, <2>3 DEF FlightSet
  <2>5. flight' \in [Flights -> FlightSet]
      BY <2>1, <2>4 DEF BrowserType
  <2>6. BrowserType'
      BY <1>c, <2>1, <2>5 DEF BrowserType
  <2>7. pc' \in [Threads -> Places]
      BY <2>1 DEF FeedType, Places
  <2>8. FeedType'
      BY <2>1, <2>7 DEF FeedType
  <2>9. up /\ up'
      BY <1>a, <2>1 DEF DownOK
  <2> QED
      BY <1>e, <2>6, <2>8, <2>9 DEF DownOK
<1>4. ASSUME NEW r \in OtherRows, OtherAppend(r) PROVE ShieldInv'
  <2>1. /\ ledger' = Append(ledger, r) /\ filed' = filed (+) SetToBag({r.key})
        /\ UNCHANGED <<up, lines, pc, work, scanned, offset, pollLock, seen, items, crashes,
                       queue, flight, req, dedupe>>
      BY <1>4 DEF OtherAppend, ProxyAppend, AppendRow
  <2>2. r \in FiledRows
      BY RowsAreFiled
  <2>3. ledger' \in Seq(FiledRows) /\ IsABag(filed')
      BY <2>1, <2>2, KeysAppend, BagAddIs DEF FeedType, BrowserType
  <2>4. FeedType'
      BY <2>1, <2>3 DEF FeedType
  <2>5. BrowserType'
      BY <2>1, <2>3 DEF BrowserType
  <2>6. DownOK'
      BY <2>1 DEF DownOK
  <2> QED
      BY <1>e, <2>4, <2>5, <2>6
<1>5. ASSUME NEW f \in Flights, NEW t \in Handlers, Post(f, t) PROVE ShieldInv'
  <2>1. /\ up /\ pc' = [pc EXCEPT ![t] = "ingest"]
        /\ req' = [req EXCEPT ![t] = [rows |-> flight[f].batch, flight |-> f, accepted |-> FALSE]]
        /\ flight' = [flight EXCEPT ![f] = [flight[f] EXCEPT !.stage = "posted"]]
        /\ UNCHANGED <<ledger, up, work, lines, scanned, offset, pollLock, seen, items, crashes,
                       queue, dedupe, filed>>
      BY <1>5 DEF Post, At
  <2>2. flight[f] \in FlightSet
      BY DEF BrowserType
  <2>3. /\ [flight[f] EXCEPT !.stage = "posted"] \in FlightSet
        /\ [rows |-> flight[f].batch, flight |-> f, accepted |-> FALSE] \in RequestSet
      BY <2>2 DEF FlightSet, RequestSet
  <2>4. BrowserType'
      BY <2>1, <2>3 DEF BrowserType
  <2>5. pc' \in [Threads -> Places]
      BY <2>1 DEF FeedType, Places
  <2>6. FeedType'
      BY <2>1, <2>5 DEF FeedType
  <2> QED
      BY <1>e, <2>1, <2>4, <2>6 DEF DownOK
<1> QED
    BY <1>1, <1>2, <1>3, <1>4, <1>5

\* Shield is killed.
LEMMA ShieldCrashTypes ==
    ASSUME ShieldInv, ShieldCrash
    PROVE  ShieldInv'
<1> USE DEF ShieldInv
<1>1. Crash /\ req' = [t \in Handlers |-> NoRequest] /\ dedupe' = {} /\ UNCHANGED <<queue, flight, filed>>
    BY DEF ShieldCrash
<1>2. ChainOK'
    BY <1>1, CrashKeeps
<1>3. <<>> \in Seq(FiledRows) /\ <<>> \in Seq(ItemSet) /\ <<>> \in Seq(BrowserRows)
    BY EmptySeq
<1>4. /\ up' = FALSE /\ crashes' = crashes + 1 /\ pc' = [t \in Threads |-> "idle"]
      /\ work' = [t \in Threads |-> <<>>] /\ lines' = 0 /\ scanned' = FALSE /\ offset' = 0
      /\ pollLock' = Nothing /\ seen' = EmptyBag /\ items' = <<>> /\ UNCHANGED ledger
    BY <1>1 DEF Crash
<1>5. pc' \in [Threads -> Places] /\ work' \in [Threads -> Seq(FiledRows)]
    BY <1>3, <1>4 DEF Places
<1>6. FeedType'
  <2>1. crashes' \in Nat
      BY <1>4 DEF FeedType
  <2> QED
      BY <1>3, <1>4, <1>5, <2>1, EmptyBagIs DEF FeedType
<1>7. DownOK'
    BY <1>4, EmptyBagIs DEF DownOK
<1>8. NoRequest \in RequestSet
    BY <1>3 DEF NoRequest, RequestSet
<1>9. BrowserType'
    BY <1>1, <1>8 DEF BrowserType
<1> QED
    BY <1>2, <1>6, <1>7, <1>9

\* The start.
LEMMA ShieldStart == Init => ShieldInv
<1> SUFFICES ASSUME Init PROVE ShieldInv
    OBVIOUS
<1>1. /\ \A S : <<>> \in Seq(S)
      /\ DOMAIN <<>> = {}
    BY EmptySeq
<1>2. ChainOK
    BY <1>1 DEF Init, FeedInit, ChainInit, ChainOK, CheckpointMatches
<1>3. FeedType /\ DownOK
    BY <1>1, EmptyBagIs DEF Init, FeedInit, FeedType, DownOK, Places
<1>4. Idle \in FlightSet /\ NoRequest \in RequestSet
    BY <1>1 DEF Idle, FlightSet, NoRequest, RequestSet
<1>5. BrowserType
    BY <1>1, <1>4, EmptyBagIs DEF Init, BrowserType
<1> QED
    BY <1>2, <1>3, <1>5 DEF ShieldInv

\* Every step.
LEMMA ShieldInvStep == ShieldInv /\ [Next]_vars => ShieldInv'
<1> SUFFICES ASSUME ShieldInv, [Next]_vars PROVE ShieldInv'
    OBVIOUS
<1>1. CASE ShieldStep /\ UNCHANGED browser
    BY <1>1, ShieldStepTypes
<1>2. CASE ShieldCrash
    BY <1>2, ShieldCrashTypes
<1>3. CASE \/ \E t \in Handlers : IngestRow(t) \/ IngestPoll(t) \/ Answer(t)
           \/ \E r \in OtherRows : OtherAppend(r)
           \/ \E f \in Flights, t \in Handlers : Post(f, t)
    BY <1>3, EndpointTypes
<1>4. CASE \/ \E r \in BrowserRows : Capture(r)
           \/ \E f \in Flights : Flush(f) \/ Refused(f) \/ LoseAnswer(f) \/ NoteWitness(f)
           \/ Withdraw \/ AcceptRecord \/ KillWorker
  <2>1. UNCHANGED fvars
      BY <1>4 DEF Capture, Flush, Refused, LoseAnswer, NoteWitness, Withdraw, AcceptRecord, KillWorker
  <2> QED
      BY <1>4, <2>1, WorkerTypes
<1>5. CASE UNCHANGED vars
  <2>0. UNCHANGED <<log, torn, saved, incidents, leaves, cp, up>>
      BY <1>5 DEF vars, fvars, chain, feed
  <2>1. ChainOK'
      BY <2>0 DEF ShieldInv, ChainOK, CheckpointMatches, Payloads
  <2>2. FeedType' /\ DownOK'
      BY <1>5 DEF ShieldInv, FeedType, DownOK, vars, fvars, feed
  <2>3. BrowserType'
      BY <1>5 DEF ShieldInv, BrowserType, vars, browser
  <2> QED
      BY <2>1, <2>2, <2>3 DEF ShieldInv
<1> QED
    BY <1>1, <1>2, <1>3, <1>4, <1>5 DEF Next

\* Types, the seals and a Shield that is down, in every state.
THEOREM ShieldInvariant == Spec => []ShieldInv
BY ShieldStart, ShieldInvStep, PTL DEF Spec

\* Killing Shield at any step, in the middle of a log line included, and
\* restarting it never makes an untouched record look edited (SealChain._load,
\* _trim_torn_tail, verify_chain), whatever rows arrive and however often it
\* is killed.
THEOREM KilledNeverLooksEdited == Spec => []NoFalseAlarm
<1>1. ShieldInv => NoFalseAlarm
    BY DEF ShieldInv, ChainOK, NoFalseAlarm, TamperEvident
<1> QED
    BY <1>1, ShieldInvariant, PTL

-----------------------------------------------------------------------------
(* Rows on their way from the browser to the ledger.                       *)

\* One row of a request (_browser_ingest).
LEMMA IngestIs ==
    ASSUME ShieldInv, NEW t \in Handlers, IngestRow(t)
    PROVE  /\ pc[t] = "ingest"
           /\ UNCHANGED <<chain, up, work, lines, scanned, offset, pollLock, seen, items, passed,
                          crashes, queue, flight, captured, dropped>>
           /\ \E r \in BrowserRows, rest \in Seq(BrowserRows), file \in BOOLEAN, here \in Places :
                /\ Keys(req[t].rows) = {r.key} \cup Keys(rest)
                /\ DistinctKeys(req[t].rows) => DistinctKeys(rest) /\ r.key \notin Keys(rest)
                /\ dedupe' = dedupe \cup {r.key}
                /\ file <=> r.key \notin dedupe /\ r.key \notin AppsOff
                /\ ledger' = IF file THEN Append(ledger, r) ELSE ledger
                /\ filed' = IF file THEN filed (+) SetToBag({r.key}) ELSE filed
                /\ req' = [req EXCEPT ![t] = [rows |-> rest, flight |-> req[t].flight,
                                              accepted |-> req[t].accepted \/ file]]
                /\ pc' = [pc EXCEPT ![t] = here]
                /\ \/ here = "ingest" /\ rest # <<>>
                   \/ here = "poll" /\ rest = <<>> /\ (req[t].accepted \/ file)
                   \/ here = "reply" /\ rest = <<>> /\ ~(req[t].accepted \/ file)
<1> DEFINE r == Head(req[t].rows)
           file == Fresh(r) /\ r.key \notin AppsOff
           rest == Tail(req[t].rows)
           here == IF Len(req[t].rows) > 1 THEN "ingest"
                   ELSE IF req[t].accepted \/ file THEN "poll" ELSE "reply"
<1>1. /\ pc[t] = "ingest" /\ req[t].rows # <<>> /\ dedupe' = dedupe \cup {r.key}
      /\ IF file THEN ledger' = Append(ledger, r) /\ filed' = filed (+) SetToBag({r.key})
         ELSE UNCHANGED <<ledger, filed>>
      /\ req' = [req EXCEPT ![t] = [rows |-> rest, flight |-> req[t].flight,
                                    accepted |-> req[t].accepted \/ file]]
      /\ pc' = [pc EXCEPT ![t] = here]
      /\ UNCHANGED <<chain, up, work, lines, scanned, offset, pollLock, seen, items, passed,
                     crashes, queue, flight, captured, dropped>>
    BY DEF IngestRow, AppendRow, Goto
<1>2. req[t].rows \in Seq(BrowserRows)
    BY DEF ShieldInv, BrowserType, RequestSet
<1>3. /\ r \in BrowserRows /\ rest \in Seq(BrowserRows)
      /\ Keys(req[t].rows) = {r.key} \cup Keys(rest)
      /\ DistinctKeys(req[t].rows) => DistinctKeys(rest) /\ r.key \notin Keys(rest)
      /\ Len(req[t].rows) = 1 => rest = <<>>
      /\ Len(req[t].rows) \in Nat /\ (Len(req[t].rows) # 1 => Len(req[t].rows) > 1 /\ rest # <<>>)
    BY <1>1, <1>2, KeysTail
<1>4. file \in BOOLEAN /\ (file <=> r.key \notin dedupe /\ r.key \notin AppsOff)
    BY DEF Fresh
<1> HIDE DEF r, rest, file
<1>5. /\ here \in Places
      /\ \/ here = "ingest" /\ rest # <<>>
         \/ here = "poll" /\ rest = <<>> /\ (req[t].accepted \/ file)
         \/ here = "reply" /\ rest = <<>> /\ ~(req[t].accepted \/ file)
  <2>1. CASE Len(req[t].rows) # 1
      BY <1>3, <2>1 DEF Places
  <2>2. CASE Len(req[t].rows) = 1 /\ (req[t].accepted \/ file)
    <3>1. here = "poll" /\ rest = <<>>
        BY <1>3, <2>2
    <3> QED
        BY <2>2, <3>1 DEF Places
  <2>3. CASE Len(req[t].rows) = 1 /\ ~(req[t].accepted \/ file)
    <3>1. here = "reply" /\ rest = <<>>
        BY <1>3, <2>3
    <3> QED
        BY <2>3, <3>1 DEF Places
  <2> QED
      BY <2>1, <2>2, <2>3
<1> HIDE DEF here
<1>6. /\ ledger' = IF file THEN Append(ledger, r) ELSE ledger
      /\ filed' = IF file THEN filed (+) SetToBag({r.key}) ELSE filed
    BY <1>1
<1>7. /\ pc[t] = "ingest"
      /\ UNCHANGED <<chain, up, work, lines, scanned, offset, pollLock, seen, items, passed,
                     crashes, queue, flight, captured, dropped>>
    BY <1>1
<1>8. /\ dedupe' = dedupe \cup {r.key}
      /\ req' = [req EXCEPT ![t] = [rows |-> rest, flight |-> req[t].flight,
                                    accepted |-> req[t].accepted \/ file]]
      /\ pc' = [pc EXCEPT ![t] = here]
    BY <1>1
<1> QED
    BY <1>3, <1>4, <1>5, <1>6, <1>7, <1>8

\* Shield's own threads do not start or end the ingest of a request.
LEMMA HandlersStay ==
    ASSUME ShieldInv, ShieldStep
    PROVE  /\ crashes' = crashes
           /\ \A t \in Handlers : /\ pc'[t] = "ingest" <=> pc[t] = "ingest"
                                  /\ pc'[t] = "poll" <=> pc[t] = "poll"
<1>a. /\ Main \in Threads /\ Watcher \in Threads /\ Handlers \subseteq Threads
      /\ Main \notin Handlers /\ Watcher \notin Handlers
    BY FeedAssumption DEF Threads
<1>b. pc \in [Threads -> Places] /\ FeedType /\ DownOK
    BY DEF ShieldInv, FeedType
<1> DEFINE Stay == \A t \in Handlers : /\ pc'[t] = "ingest" <=> pc[t] = "ingest"
                                       /\ pc'[t] = "poll" <=> pc[t] = "poll"
<1>1. CASE Start
    BY <1>1, <1>a, <1>b DEF Start, DownOK
<1>2. CASE ScanBegin \/ ScanRead \/ ScanOffset
    BY <1>2, <1>a, <1>b DEF ScanBegin, ScanRead, ScanOffset, At
<1>3. CASE WatcherPoll
  <2>1. PollTake(Watcher, "idle")
      BY <1>3 DEF WatcherPoll
  <2>2. crashes' = crashes /\ \E x : pc' = [pc EXCEPT ![Watcher] = x]
      BY <1>a, <1>b, <2>1, PollTakeIs
  <2> QED
      BY <1>a, <1>b, <2>2
<1>4. CASE ScrubLedger
    BY <1>4, <1>a, <1>b DEF ScrubLedger, At
<1>5. ASSUME NEW t \in Threads, AbsorbRow(t) PROVE crashes' = crashes /\ Stay
    BY <1>5, <1>a, <1>b DEF AbsorbRow
<1>6. ASSUME NEW t \in Threads, FinishPoll(t) PROVE crashes' = crashes /\ Stay
    BY <1>6, <1>a, <1>b DEF FinishPoll, At
<1>7. ASSUME NEW t \in Handlers, Resync(t) PROVE crashes' = crashes /\ Stay
    BY <1>7, <1>a, <1>b DEF Resync, At
<1>8. CASE up /\ (Sign \/ VerifyChain) /\ UNCHANGED <<feed, crashes, scrubs>>
    BY <1>8 DEF feed
<1> QED
    BY <1>1, <1>2, <1>3, <1>4, <1>5, <1>6, <1>7, <1>8 DEF ShieldStep

\* What a handler went through is in dedupe, and dedupe is filed or its app off.
LEMMA RowsEndpointStep ==
    ASSUME ShieldInv, RequestsOK, FiledOK,
           \/ \E t \in Handlers : IngestRow(t) \/ IngestPoll(t) \/ Answer(t)
           \/ \E r \in OtherRows : OtherAppend(r)
           \/ \E f \in Flights, t \in Handlers : Post(f, t)
    PROVE  RequestsOK' /\ FiledOK'
<1>a. Main \in Threads /\ Watcher \in Threads /\ Handlers \subseteq Threads
    BY DEF Threads
<1>b. /\ pc \in [Threads -> Places] /\ req \in [Handlers -> RequestSet]
      /\ flight \in [Flights -> FlightSet] /\ crashes \in Nat /\ IsABag(filed)
      /\ FeedType /\ BrowserType
    BY DEF ShieldInv, FeedType, BrowserType
<1>c. \A t \in Handlers : req[t].flight \in Flights \cup {Nothing}
    BY <1>b DEF RequestSet
<1>1. ASSUME NEW t \in Handlers, IngestRow(t) PROVE RequestsOK' /\ FiledOK'
  <2>1. /\ pc[t] = "ingest" /\ UNCHANGED <<crashes, queue, flight, captured, dropped>>
      BY <1>1, IngestIs
  <2>2. PICK r \in BrowserRows, rest \in Seq(BrowserRows), file \in BOOLEAN, here \in Places :
                /\ Keys(req[t].rows) = {r.key} \cup Keys(rest)
                /\ DistinctKeys(req[t].rows) => DistinctKeys(rest) /\ r.key \notin Keys(rest)
                /\ dedupe' = dedupe \cup {r.key}
                /\ file <=> r.key \notin dedupe /\ r.key \notin AppsOff
                /\ ledger' = IF file THEN Append(ledger, r) ELSE ledger
                /\ filed' = IF file THEN filed (+) SetToBag({r.key}) ELSE filed
                /\ req' = [req EXCEPT ![t] = [rows |-> rest, flight |-> req[t].flight,
                                              accepted |-> req[t].accepted \/ file]]
                /\ pc' = [pc EXCEPT ![t] = here]
                /\ \/ here = "ingest" /\ rest # <<>>
                   \/ here = "poll" /\ rest = <<>> /\ (req[t].accepted \/ file)
                   \/ here = "reply" /\ rest = <<>> /\ ~(req[t].accepted \/ file)
      BY <1>1, IngestIs
  <2>3. /\ pc'[t] = here /\ req'[t].rows = rest /\ req'[t].flight = req[t].flight
        /\ \A s \in Handlers : s # t => pc'[s] = pc[s] /\ req'[s] = req[s]
      BY <1>a, <1>b, <2>2
  <2>4. \A s \in Handlers : req'[s].flight = req[s].flight
      BY <2>3
  <2>5. RequestsOK'
    <3>1. \A s \in Handlers : pc'[s] # "ingest" => req'[s].rows = <<>>
        BY <2>2, <2>3 DEF RequestsOK
    <3>2. ASSUME NEW s \in Handlers, req'[s].flight # Nothing
          PROVE  /\ flight'[req'[s].flight].stage = "posted"
                 /\ Keys(req'[s].rows) \subseteq Keys(flight'[req'[s].flight].batch)
                 /\ Keys(flight'[req'[s].flight].batch) \subseteq Keys(req'[s].rows) \cup dedupe'
      <4>1. /\ flight[req[s].flight].stage = "posted"
            /\ Keys(req[s].rows) \subseteq Keys(flight[req[s].flight].batch)
            /\ Keys(flight[req[s].flight].batch) \subseteq Keys(req[s].rows) \cup dedupe
          BY <2>4, <3>2 DEF RequestsOK
      <4>2. Keys(req'[s].rows) \subseteq Keys(req[s].rows)
            /\ Keys(req[s].rows) \cup dedupe \subseteq Keys(req'[s].rows) \cup dedupe'
          BY <2>2, <2>3
      <4> QED
          BY <2>1, <2>4, <4>1, <4>2
    <3>3. \A s, u \in Handlers : req'[s].flight = req'[u].flight /\ s # u => req'[s].flight = Nothing
        BY <2>4 DEF RequestsOK
    <3> QED
        BY <3>1, <3>2, <3>3 DEF RequestsOK, Keys
  <2>6. /\ DOMAIN filed \subseteq DOMAIN filed' /\ (file => r.key \in DOMAIN filed')
        /\ \A k \in BrowserKeys : Copies(k, filed) \in Nat /\ Copies(k, filed') =
              Copies(k, filed) + (IF file /\ k = r.key THEN 1 ELSE 0)
    <3>0. \A k : Copies(k, filed) \in Nat
        BY <1>b, BagAddIs
    <3>1. CASE file
      <4>1. filed' = filed (+) SetToBag({r.key})
          BY <2>2, <3>1
      <4>0. IsABag(filed)
          BY <1>b
      <4>2. DOMAIN filed' = DOMAIN filed \cup {r.key}
          BY <4>0, <4>1, BagAddIs
      <4>3. Copies(r.key, filed') = Copies(r.key, filed) + 1
          BY <4>0, <4>1, BagAddIs
      <4>4. \A j : j = r.key \/ Copies(j, filed') = Copies(j, filed)
          BY <4>0, <4>1, BagOthersAre, Zenon
      <4> QED
          BY <3>0, <3>1, <4>2, <4>3, <4>4
    <3>2. CASE ~file
        BY <2>2, <3>0, <3>2
    <3> QED
        BY <3>1, <3>2
  <2>7. FiledOK'
    <3>1. dedupe' \subseteq DOMAIN filed' \cup AppsOff
        BY <2>2, <2>6 DEF FiledOK
    <3>2. \A f \in Flights : flight'[f].stage = "answered" => Keys(flight'[f].batch) \subseteq DOMAIN filed' \cup AppsOff
        BY <2>1, <2>6 DEF FiledOK
    <3>3. ASSUME NEW k \in BrowserKeys
          PROVE  Copies(k, filed') <= crashes' + (IF k \in dedupe' THEN 1 ELSE 0)
      <4>1. Copies(k, filed) <= crashes + (IF k \in dedupe THEN 1 ELSE 0)
          BY DEF FiledOK
      <4>a. crashes \in Nat /\ crashes' = crashes /\ Copies(k, filed) \in Nat
          BY <1>b, <2>1, <2>6
      <4>2. CASE file /\ k = r.key
        <5>1. k \notin dedupe /\ k \in dedupe'
            BY <2>2, <4>2
        <5>2. Copies(k, filed') = Copies(k, filed) + 1
            BY <2>6, <4>2
        <5> QED
            BY <4>1, <4>a, <5>1, <5>2
      <4>3. CASE ~(file /\ k = r.key)
        <5>1. k \in dedupe => k \in dedupe'
            BY <2>2
        <5>2. Copies(k, filed') = Copies(k, filed)
            BY <2>6, <4>3, <4>a
        <5> QED
            BY <4>1, <4>a, <5>1, <5>2
      <4> QED
          BY <4>2, <4>3
    <3>4. \A k \in captured' : Kept(k, queue', flight', filed', dropped')
        BY <2>1, <2>6 DEF FiledOK, Kept
    <3> QED
        BY <3>1, <3>2, <3>3, <3>4 DEF FiledOK, Keys, Copies, Kept
  <2> QED
      BY <2>5, <2>7
<1>2. ASSUME NEW t \in Handlers, IngestPoll(t) PROVE RequestsOK' /\ FiledOK'
  <2>1. PollTake(t, "poll") /\ UNCHANGED browser
      BY <1>2 DEF IngestPoll
  <2>2. pc[t] = "poll" /\ crashes' = crashes /\ \E x : pc' = [pc EXCEPT ![t] = x]
      BY <1>a, <1>b, <2>1, PollTakeIs
  <2>3. \A s \in Handlers : pc'[s] # "ingest" => pc[s] # "ingest"
      BY <1>a, <1>b, <2>2
  <2>4. UNCHANGED <<queue, flight, req, dedupe, captured, filed, dropped>>
      BY <2>1 DEF browser
  <2>5. RequestsOK'
      BY <2>3, <2>4 DEF RequestsOK, Keys
  <2>6. FiledOK'
      BY <2>2, <2>4 DEF FiledOK, Keys, Copies, Kept
  <2> QED
      BY <2>5, <2>6
<1>3. ASSUME NEW t \in Handlers, Answer(t) PROVE RequestsOK' /\ FiledOK'
  <2> DEFINE g == req[t].flight
  <2>1. /\ pc[t] = "reply" /\ pc' = [pc EXCEPT ![t] = "idle"]
        /\ flight' = IF g = Nothing THEN flight
                     ELSE [flight EXCEPT ![g] =
                          [stage |-> "answered", batch |-> flight[g].batch, total |-> Len(leaves)]]
        /\ req' = [req EXCEPT ![t] = NoRequest]
        /\ UNCHANGED <<crashes, queue, dedupe, captured, filed, dropped>>
      BY <1>3 DEF Answer, At
  <2>2. /\ pc'[t] = "idle" /\ req'[t].rows = <<>> /\ req'[t].flight = Nothing
        /\ \A s \in Handlers : s # t => pc'[s] = pc[s] /\ req'[s] = req[s]
      BY <1>a, <1>b, <2>1 DEF NoRequest
  <2>3. g \in Flights \cup {Nothing}
      BY <1>c
  <2>4. \A f \in Flights : flight'[f].batch = flight[f].batch /\ (f # g => flight'[f] = flight[f])
      BY <1>b, <2>1, <2>3
  <2>5. g # Nothing => Keys(flight[g].batch) \subseteq DOMAIN filed \cup AppsOff
    <3>1. req[t].rows = <<>>
        BY <2>1 DEF RequestsOK
    <3> QED
        BY <3>1, KeysEmpty DEF RequestsOK, FiledOK
  <2> HIDE DEF g
  <2>6. RequestsOK'
    <3>1. ASSUME NEW s \in Handlers, req'[s].flight # Nothing
          PROVE  /\ flight'[req'[s].flight].stage = "posted"
                 /\ Keys(req'[s].rows) \subseteq Keys(flight'[req'[s].flight].batch)
                 /\ Keys(flight'[req'[s].flight].batch) \subseteq Keys(req'[s].rows) \cup dedupe'
      <4>1. s # t /\ req'[s] = req[s] /\ req[s].flight \in Flights
          BY <1>c, <2>2, <3>1
      <4>2. req[s].flight # g
          BY <3>1, <4>1 DEF RequestsOK, g
      <4>3. flight'[req'[s].flight] = flight[req[s].flight] /\ dedupe' = dedupe
          BY <2>1, <2>4, <4>1, <4>2
      <4> QED
          BY <3>1, <4>1, <4>3 DEF RequestsOK
    <3>2. \A s, u \in Handlers : req'[s].flight = req'[u].flight /\ s # u => req'[s].flight = Nothing
        BY <2>2 DEF RequestsOK
    <3>3. \A s \in Handlers : pc'[s] # "ingest" => req'[s].rows = <<>>
        BY <2>2 DEF RequestsOK
    <3> QED
        BY <3>1, <3>2, <3>3 DEF RequestsOK, Keys
  <2>7. FiledOK'
    <3>1. \A f \in Flights : flight'[f].stage = "answered" => Keys(flight'[f].batch) \subseteq DOMAIN filed' \cup AppsOff
        BY <2>1, <2>4, <2>5 DEF FiledOK
    <3>2. \A k \in captured' : Kept(k, queue', flight', filed', dropped')
      <4>1. \A f \in Flights : Keys(flight'[f].batch) = Keys(flight[f].batch)
          BY <2>4
      <4> QED
          BY <2>1, <4>1 DEF FiledOK, Kept
    <3>3. /\ dedupe' \subseteq DOMAIN filed' \cup AppsOff
          /\ \A k \in BrowserKeys : Copies(k, filed') <= crashes' + (IF k \in dedupe' THEN 1 ELSE 0)
        BY <2>1 DEF FiledOK
    <3> QED
        BY <3>1, <3>2, <3>3 DEF FiledOK, Keys, Copies, Kept
  <2> QED
      BY <2>6, <2>7
<1>4. ASSUME NEW r \in OtherRows, OtherAppend(r) PROVE RequestsOK' /\ FiledOK'
  <2>1. /\ filed' = filed (+) SetToBag({r.key})
        /\ UNCHANGED <<pc, crashes, queue, flight, req, dedupe, captured, dropped>>
      BY <1>4 DEF OtherAppend, ProxyAppend
  <2>a. IsABag(filed) /\ filed' = filed (+) SetToBag({r.key})
      BY <1>b, <2>1
  <2>2. DOMAIN filed' = DOMAIN filed \cup {r.key}
      BY <2>a, BagAddIs
  <2>b. \A j : j = r.key \/ Copies(j, filed') = Copies(j, filed)
      BY <2>a, BagOthersAre, Zenon
  <2>3. \A k \in BrowserKeys : Copies(k, filed') = Copies(k, filed)
      BY <2>b, RowsAreFiled
  <2>4. RequestsOK'
      BY <2>1 DEF RequestsOK, Keys
  <2>5. /\ \A f \in Flights : flight'[f].stage = "answered" => Keys(flight'[f].batch) \subseteq DOMAIN filed' \cup AppsOff
        /\ \A k \in captured' : Kept(k, queue', flight', filed', dropped')
        /\ dedupe' \subseteq DOMAIN filed' \cup AppsOff
    <3>1. DOMAIN filed \subseteq DOMAIN filed'
        BY <2>2
    <3>2. /\ \A f \in Flights : flight[f].stage = "answered" => Keys(flight[f].batch) \subseteq DOMAIN filed \cup AppsOff
          /\ \A k \in captured : Kept(k, queue, flight, filed, dropped)
          /\ dedupe \subseteq DOMAIN filed \cup AppsOff
        BY DEF FiledOK
    <3> QED
        BY <2>1, <3>1, <3>2 DEF Kept
  <2>6. \A k \in BrowserKeys : Copies(k, filed') <= crashes' + (IF k \in dedupe' THEN 1 ELSE 0)
      BY <2>1, <2>3 DEF FiledOK
  <2> QED
      BY <2>4, <2>5, <2>6 DEF FiledOK, Keys, Copies, Kept
<1>5. ASSUME NEW f \in Flights, NEW t \in Handlers, Post(f, t) PROVE RequestsOK' /\ FiledOK'
  <2>1. /\ flight[f].stage = "check" /\ pc' = [pc EXCEPT ![t] = "ingest"]
        /\ req' = [req EXCEPT ![t] = [rows |-> flight[f].batch, flight |-> f, accepted |-> FALSE]]
        /\ flight' = [flight EXCEPT ![f] = [flight[f] EXCEPT !.stage = "posted"]]
        /\ UNCHANGED <<crashes, queue, dedupe, captured, filed, dropped>>
      BY <1>5 DEF Post, At
  <2>2. /\ pc'[t] = "ingest" /\ req'[t].rows = flight[f].batch /\ req'[t].flight = f
        /\ \A s \in Handlers : s # t => pc'[s] = pc[s] /\ req'[s] = req[s]
      BY <1>a, <1>b, <2>1
  <2>3. /\ \A g \in Flights : flight'[g].batch = flight[g].batch /\ (g # f => flight'[g] = flight[g])
        /\ flight'[f].stage = "posted"
      BY <1>b, <2>1 DEF FlightSet
  <2>4. \A s \in Handlers : req[s].flight # f
      BY <2>1, BrowserAssumption DEF RequestsOK
  <2>5. RequestsOK'
    <3>1. ASSUME NEW s \in Handlers, req'[s].flight # Nothing
          PROVE  /\ flight'[req'[s].flight].stage = "posted"
                 /\ Keys(req'[s].rows) \subseteq Keys(flight'[req'[s].flight].batch)
                 /\ Keys(flight'[req'[s].flight].batch) \subseteq Keys(req'[s].rows) \cup dedupe'
      <4>1. CASE s = t
          BY <2>2, <2>3, <4>1
      <4>2. CASE s # t
        <5>1. req'[s] = req[s] /\ req[s].flight \in Flights /\ req[s].flight # f
            BY <1>c, <2>2, <2>4, <3>1, <4>2
        <5> QED
            BY <2>1, <2>3, <3>1, <5>1 DEF RequestsOK
      <4> QED
          BY <4>1, <4>2
    <3>2. \A s, u \in Handlers : req'[s].flight = req'[u].flight /\ s # u => req'[s].flight = Nothing
        BY <2>2, <2>4 DEF RequestsOK
    <3>3. \A s \in Handlers : pc'[s] # "ingest" => req'[s].rows = <<>>
        BY <2>2 DEF RequestsOK
    <3> QED
        BY <3>1, <3>2, <3>3 DEF RequestsOK, Keys
  <2>6. FiledOK'
    <3>1. \A g \in Flights : flight'[g].stage = "answered" => Keys(flight'[g].batch) \subseteq DOMAIN filed' \cup AppsOff
        BY <2>1, <2>3 DEF FiledOK
    <3>2. \A k \in captured' : Kept(k, queue', flight', filed', dropped')
      <4>1. \A g \in Flights : Keys(flight'[g].batch) = Keys(flight[g].batch)
          BY <2>3
      <4> QED
          BY <2>1, <4>1 DEF FiledOK, Kept
    <3>3. /\ dedupe' \subseteq DOMAIN filed' \cup AppsOff
          /\ \A k \in BrowserKeys : Copies(k, filed') <= crashes' + (IF k \in dedupe' THEN 1 ELSE 0)
        BY <2>1 DEF FiledOK
    <3> QED
        BY <3>1, <3>2, <3>3 DEF FiledOK, Keys, Copies, Kept
  <2> QED
      BY <2>5, <2>6
<1> QED
    BY <1>1, <1>2, <1>3, <1>4, <1>5

\* The requests under way stay as they are, or nobody waits for them any more.
LEMMA RequestsKeep ==
    ASSUME RequestsOK, UNCHANGED <<pc, dedupe>>,
           \A t \in Handlers : /\ req'[t].rows = req[t].rows
                               /\ req'[t].flight = req[t].flight \/ req'[t].flight = Nothing
                               /\ req'[t].flight # Nothing => flight'[req[t].flight] = flight[req[t].flight]
    PROVE  RequestsOK'
<1>1. \A t \in Handlers : pc'[t] # "ingest" => req'[t].rows = <<>>
    BY DEF RequestsOK
<1>2. ASSUME NEW t \in Handlers, req'[t].flight # Nothing
      PROVE  /\ flight'[req'[t].flight].stage = "posted"
             /\ Keys(req'[t].rows) \subseteq Keys(flight'[req'[t].flight].batch)
             /\ Keys(flight'[req'[t].flight].batch) \subseteq Keys(req'[t].rows) \cup dedupe'
  <2>1. /\ req'[t].flight = req[t].flight /\ req'[t].rows = req[t].rows
        /\ flight'[req'[t].flight] = flight[req[t].flight] /\ dedupe' = dedupe
      BY <1>2
  <2> QED
      BY <1>2, <2>1 DEF RequestsOK
<1>3. \A s, t \in Handlers : req'[s].flight = req'[t].flight /\ s # t => req'[s].flight = Nothing
    BY DEF RequestsOK
<1> QED
    BY <1>1, <1>2, <1>3 DEF RequestsOK, Keys

\* Nothing is filed, no flush gets its answer, and no captured row gets lost.
LEMMA FiledKeep ==
    ASSUME FiledOK, UNCHANGED <<dedupe, filed, crashes>>,
           \A f \in Flights : flight'[f].stage = "answered" => flight'[f] = flight[f],
           \A k \in captured' : Kept(k, queue', flight', filed', dropped')
    PROVE  FiledOK'
<1>1. dedupe' \subseteq DOMAIN filed' \cup AppsOff
    BY DEF FiledOK
<1>2. \A f \in Flights : flight'[f].stage = "answered" => Keys(flight'[f].batch) \subseteq DOMAIN filed' \cup AppsOff
    BY DEF FiledOK
<1>3. \A k \in BrowserKeys : Copies(k, filed') <= crashes' + (IF k \in dedupe' THEN 1 ELSE 0)
    BY DEF FiledOK
<1> QED
    BY <1>1, <1>2, <1>3 DEF FiledOK, Keys, Copies, Kept

\* The worker's own steps.
LEMMA RowsWorkerStep ==
    ASSUME ShieldInv, RequestsOK, FiledOK, UNCHANGED fvars,
           \/ \E r \in BrowserRows : Capture(r)
           \/ \E f \in Flights : Flush(f) \/ Refused(f) \/ LoseAnswer(f) \/ NoteWitness(f)
           \/ Withdraw \/ AcceptRecord \/ KillWorker
    PROVE  RequestsOK' /\ FiledOK'
<1>a. UNCHANGED <<pc, crashes>>
    BY DEF fvars, feed
<1>b. /\ queue \in Seq(BrowserRows) /\ flight \in [Flights -> FlightSet] /\ BrowserType
      /\ req \in [Handlers -> RequestSet] /\ Nothing \notin Flights
    BY BrowserAssumption DEF ShieldInv, BrowserType
<1>c. \A t \in Handlers : req[t].flight \in Flights \cup {Nothing}
    BY <1>b DEF RequestSet
<1>d. \A t \in Handlers : req[t].flight # Nothing => flight[req[t].flight].stage = "posted"
    BY DEF RequestsOK
<1>e. \A k \in captured : Kept(k, queue, flight, filed, dropped)
    BY DEF FiledOK
<1>f. Idle.stage = "idle" /\ Idle.batch = <<>> /\ Keys(<<>>) = {}
    BY KeysEmpty DEF Idle
<1>1. ASSUME NEW r \in BrowserRows, Capture(r) PROVE RequestsOK' /\ FiledOK'
  <2>1. /\ captured' = captured \cup {r.key}
        /\ dropped' = dropped \cup (Keys(Append(queue, r)) \ Keys(queue'))
        /\ UNCHANGED <<flight, req, dedupe, filed>>
      BY <1>1 DEF Capture
  <2>2. Keys(Append(queue, r)) = Keys(queue) \cup {r.key}
      BY <1>b, KeysAppend
  <2>3. RequestsOK'
      BY <1>a, <2>1, RequestsKeep
  <2>4. \A k \in captured' : Kept(k, queue', flight', filed', dropped')
      BY <1>e, <2>1, <2>2 DEF Kept
  <2> QED
      BY <1>a, <2>1, <2>3, <2>4, FiledKeep
<1>2. ASSUME NEW f \in Flights, Flush(f) PROVE RequestsOK' /\ FiledOK'
  <2>1. /\ flight[f] = Idle
        /\ flight' = [flight EXCEPT ![f] = [stage |-> "check", batch |-> queue, total |-> 0]]
        /\ UNCHANGED <<req, dedupe, captured, filed, dropped>>
      BY <1>2 DEF Flush
  <2>2. /\ flight'[f].stage = "check" /\ flight'[f].batch = queue
        /\ \A g \in Flights : g # f => flight'[g] = flight[g]
      BY <1>b, <2>1
  <2>3. \A t \in Handlers : req[t].flight # f
      BY <1>d, <1>b, <1>f, <2>1
  <2>4. RequestsOK'
      BY <1>a, <1>c, <2>1, <2>2, <2>3, RequestsKeep
  <2>5. \A k \in captured' : Kept(k, queue', flight', filed', dropped')
    <3>1. \A g \in Flights : \A k \in Keys(flight[g].batch) : k \in Keys(flight'[g].batch)
        BY <1>f, <2>1, <2>2
    <3> QED
        BY <1>e, <2>1, <2>2, <3>1 DEF Kept
  <2> QED
      BY <1>a, <2>1, <2>2, <2>4, <2>5, FiledKeep
<1>3. ASSUME NEW f \in Flights, Refused(f) \/ LoseAnswer(f) PROVE RequestsOK' /\ FiledOK'
  <2>1. PutsBack(f) /\ UNCHANGED <<req, dedupe, captured, filed>>
      BY <1>3 DEF Refused, LoseAnswer
  <2>2. \A t \in Handlers : req[t].flight # f
    <3>1. flight[f].stage # "posted" \/ \A t \in Handlers : req[t].flight # f
        BY <1>3 DEF Refused, LoseAnswer
    <3> QED
        BY <1>b, <1>d, <3>1
  <2>3. /\ flight' = [flight EXCEPT ![f] = Idle]
        /\ dropped' = dropped \cup ((Keys(flight[f].batch) \cup Keys(queue)) \ Keys(queue'))
      BY <1>b, <2>1, PutsBackTypes
  <2>4. flight'[f] = Idle /\ \A g \in Flights : g # f => flight'[g] = flight[g]
      BY <1>b, <2>3
  <2>5. RequestsOK'
      BY <1>a, <1>c, <2>1, <2>2, <2>4, RequestsKeep
  <2>6. \A k \in captured' : Kept(k, queue', flight', filed', dropped')
    <3>1. \A g \in Flights : \A k \in Keys(flight[g].batch) :
             k \in Keys(flight'[g].batch) \/ k \in Keys(queue') \/ k \in dropped'
        BY <2>3, <2>4
    <3>2. \A k \in Keys(queue) \cup dropped : k \in Keys(queue') \/ k \in dropped'
        BY <2>3
    <3> QED
        BY <1>e, <2>1, <3>1, <3>2 DEF Kept
  <2>7. \A g \in Flights : flight'[g].stage = "answered" => flight'[g] = flight[g]
      BY <1>f, <2>4
  <2> QED
      BY <1>a, <2>1, <2>5, <2>6, <2>7, FiledKeep
<1>4. ASSUME NEW f \in Flights, NoteWitness(f) PROVE RequestsOK' /\ FiledOK'
  <2>1. /\ flight[f].stage = "answered" /\ flight' = [flight EXCEPT ![f] = Idle]
        /\ UNCHANGED <<queue, req, dedupe, captured, filed, dropped>>
      BY <1>4 DEF NoteWitness
  <2>2. \A t \in Handlers : req[t].flight # f
      BY <1>b, <1>d, <2>1
  <2>3. flight'[f] = Idle /\ \A g \in Flights : g # f => flight'[g] = flight[g]
      BY <1>b, <2>1
  <2>4. RequestsOK'
      BY <1>a, <1>c, <2>1, <2>2, <2>3, RequestsKeep
  <2>5. Keys(flight[f].batch) \subseteq DOMAIN filed \cup AppsOff
      BY <2>1 DEF FiledOK
  <2>6. \A k \in captured' : Kept(k, queue', flight', filed', dropped')
    <3>1. \A g \in Flights : \A k \in Keys(flight[g].batch) :
             k \in Keys(flight'[g].batch) \/ k \in DOMAIN filed \/ k \in AppsOff
        BY <2>3, <2>5
    <3> QED
        BY <1>e, <2>1, <3>1 DEF Kept
  <2>7. \A g \in Flights : flight'[g].stage = "answered" => flight'[g] = flight[g]
      BY <1>f, <2>3
  <2> QED
      BY <1>a, <2>1, <2>4, <2>6, <2>7, FiledKeep
<1>5. CASE Withdraw \/ AcceptRecord
  <2>1. /\ UNCHANGED <<flight, req, dedupe, captured, filed>>
        /\ Keys(queue) \cup dropped \subseteq Keys(queue') \cup dropped'
      BY <1>5 DEF Withdraw, AcceptRecord
  <2>2. RequestsOK'
      BY <1>a, <2>1, RequestsKeep
  <2>3. \A k \in captured' : Kept(k, queue', flight', filed', dropped')
    <3>1. \A k \in Keys(queue) \cup dropped : k \in Keys(queue') \/ k \in dropped'
        BY <2>1
    <3> QED
        BY <1>e, <2>1, <3>1 DEF Kept
  <2> QED
      BY <1>a, <2>1, <2>2, <2>3, FiledKeep
<1>6. CASE KillWorker
  <2>1. /\ dropped' = dropped \cup (UNION {Keys(flight[f].batch) : f \in Flights})
        /\ flight' = [f \in Flights |-> Idle]
        /\ req' = [t \in Handlers |-> [req[t] EXCEPT !.flight = Nothing]]
        /\ UNCHANGED <<queue, dedupe, captured, filed>>
      BY <1>6 DEF KillWorker
  <2>2. \A t \in Handlers : req'[t].rows = req[t].rows /\ req'[t].flight = Nothing
      BY <1>b, <2>1 DEF RequestSet
  <2>3. RequestsOK'
      BY <1>a, <2>1, <2>2, RequestsKeep
  <2>4. \A k \in captured' : Kept(k, queue', flight', filed', dropped')
    <3>1. \A f \in Flights : \A k \in Keys(flight[f].batch) : k \in dropped'
        BY <2>1
    <3> QED
        BY <1>e, <2>1, <3>1 DEF Kept
  <2>5. \A f \in Flights : flight'[f].stage = "answered" => flight'[f] = flight[f]
      BY <1>f, <2>1
  <2> QED
      BY <1>a, <2>1, <2>3, <2>4, <2>5, FiledKeep
<1> QED
    BY <1>1, <1>2, <1>3, <1>4, <1>5, <1>6

\* Shield dies: it forgets the row_ids it knows, and its requests.
LEMMA RowsCrashStep ==
    ASSUME ShieldInv, RequestsOK, FiledOK, ShieldCrash
    PROVE  RequestsOK' /\ FiledOK'
<1>1. /\ crashes' = crashes + 1 /\ dedupe' = {} /\ req' = [t \in Handlers |-> NoRequest]
      /\ UNCHANGED <<queue, flight, captured, filed, dropped>>
    BY DEF ShieldCrash, Crash
<1>2. \A t \in Handlers : req'[t].rows = <<>> /\ req'[t].flight = Nothing
    BY <1>1 DEF NoRequest
<1>3. RequestsOK'
    BY <1>2 DEF RequestsOK
<1>4. ASSUME NEW k \in BrowserKeys
      PROVE  Copies(k, filed') <= crashes' + (IF k \in dedupe' THEN 1 ELSE 0)
  <2>1. /\ Copies(k, filed) <= crashes + (IF k \in dedupe THEN 1 ELSE 0)
        /\ crashes \in Nat /\ IsABag(filed)
      BY DEF FiledOK, ShieldInv, FeedType, BrowserType
  <2>2. Copies(k, filed) \in Nat
      BY <2>1, BagAddIs
  <2>3. Copies(k, filed') = Copies(k, filed) /\ k \notin dedupe'
      BY <1>1
  <2> QED
      BY <1>1, <2>1, <2>2, <2>3
<1>5. /\ dedupe' \subseteq DOMAIN filed' \cup AppsOff
      /\ \A f \in Flights : flight'[f].stage = "answered" => Keys(flight'[f].batch) \subseteq DOMAIN filed' \cup AppsOff
      /\ \A k \in captured' : Kept(k, queue', flight', filed', dropped')
    BY <1>1 DEF FiledOK, Kept
<1> QED
    BY <1>3, <1>4, <1>5 DEF FiledOK, Keys, Copies, Kept

\* Shield's own threads.
LEMMA RowsShieldStep ==
    ASSUME ShieldInv, RequestsOK, FiledOK, ShieldStep, UNCHANGED browser
    PROVE  RequestsOK' /\ FiledOK'
<1>1. UNCHANGED <<queue, flight, req, dedupe, captured, filed, dropped>>
    BY DEF browser
<1>2. crashes' = crashes /\ \A t \in Handlers : pc'[t] = "ingest" <=> pc[t] = "ingest"
    BY HandlersStay
<1>3. RequestsOK'
    BY <1>1, <1>2 DEF RequestsOK, Keys
<1>4. \A k \in captured' : Kept(k, queue', flight', filed', dropped')
    BY <1>1 DEF FiledOK, Kept
<1> QED
    BY <1>1, <1>2, <1>3, <1>4, FiledKeep

\* The rows' invariant, in every step.
RowsInv == ShieldInv /\ RequestsOK /\ FiledOK

\* Every step keeps it.
LEMMA RowsInvStep == RowsInv /\ [Next]_vars => RowsInv'
<1> SUFFICES ASSUME ShieldInv, RequestsOK, FiledOK, [Next]_vars PROVE RequestsOK' /\ FiledOK'
    BY ShieldInvStep DEF RowsInv
<1>1. CASE ShieldStep /\ UNCHANGED browser
    BY <1>1, RowsShieldStep
<1>2. CASE ShieldCrash
    BY <1>2, RowsCrashStep
<1>3. CASE \/ \E t \in Handlers : IngestRow(t) \/ IngestPoll(t) \/ Answer(t)
           \/ \E r \in OtherRows : OtherAppend(r)
           \/ \E f \in Flights, t \in Handlers : Post(f, t)
    BY <1>3, RowsEndpointStep
<1>4. CASE \/ \E r \in BrowserRows : Capture(r)
           \/ \E f \in Flights : Flush(f) \/ Refused(f) \/ LoseAnswer(f) \/ NoteWitness(f)
           \/ Withdraw \/ AcceptRecord \/ KillWorker
  <2>1. UNCHANGED fvars
      BY <1>4 DEF Capture, Flush, Refused, LoseAnswer, NoteWitness, Withdraw, AcceptRecord, KillWorker
  <2> QED
      BY <1>4, <2>1, RowsWorkerStep
<1>5. CASE UNCHANGED vars
  <2>1. UNCHANGED <<pc, crashes, queue, flight, req, dedupe, captured, filed, dropped>>
      BY <1>5 DEF vars, fvars, feed, browser
  <2>2. RequestsOK'
      BY <2>1, RequestsKeep
  <2>3. FiledOK'
      BY <2>1 DEF FiledOK, Keys, Copies, Kept
  <2> QED
      BY <2>2, <2>3
<1> QED
    BY <1>1, <1>2, <1>3, <1>4, <1>5 DEF Next

\* And the initial states have it.
LEMMA RowsStart == Init => RequestsOK /\ FiledOK
<1> SUFFICES ASSUME Init PROVE RequestsOK /\ FiledOK
    OBVIOUS
<1>1. /\ flight = [f \in Flights |-> Idle] /\ req = [t \in Handlers |-> NoRequest]
      /\ dedupe = {} /\ captured = {} /\ filed = EmptyBag /\ crashes = 0
    BY DEF Init, FeedInit
<1>2. \A k : Copies(k, filed) = 0
    BY <1>1, EmptyBagIs DEF Copies
<1>3. RequestsOK
    BY <1>1 DEF RequestsOK, NoRequest
<1>4. \A f \in Flights : flight[f].stage # "answered"
    BY <1>1 DEF Idle
<1> QED
    BY <1>1, <1>2, <1>3, <1>4 DEF FiledOK

\* A captured row is waiting, on its way, filed or given up, and is filed once
\* for every time Shield forgot its row_ids: in every state, for any rows, any
\* number of flushes, handlers and kills (flush's catch, _browser_ingest).
THEOREM CapturedRowsArriveOnce == Spec => []RowsArriveOnce
<1>1. ASSUME RowsInv PROVE RowsArriveOnce
  <2>1. ASSUME NEW k \in BrowserKeys PROVE Copies(k, filed) <= 1 + crashes
    <3>1. /\ Copies(k, filed) <= crashes + (IF k \in dedupe THEN 1 ELSE 0)
          /\ crashes \in Nat /\ IsABag(filed)
        BY <1>1 DEF RowsInv, FiledOK, ShieldInv, FeedType, BrowserType
    <3>2. Copies(k, filed) \in Nat
        BY <3>1, BagAddIs
    <3> QED
        BY <3>1, <3>2
  <2>2. ASSUME NEW k \in captured
        PROVE  k \in Keys(queue) \cup (UNION {Keys(flight[f].batch) : f \in Flights})
                       \cup DOMAIN filed \cup dropped \cup AppsOff
    <3>1. Kept(k, queue, flight, filed, dropped)
        BY <1>1 DEF RowsInv, FiledOK
    <3>2. CASE \E f \in Flights : k \in Keys(flight[f].batch)
      <4>1. k \in (UNION {Keys(flight[f].batch) : f \in Flights})
          BY <3>2
      <4> QED
          BY <4>1, Zenon
    <3>3. CASE ~\E f \in Flights : k \in Keys(flight[f].batch)
      <4>1. k \in Keys(queue) \/ k \in DOMAIN filed \/ k \in dropped \/ k \in AppsOff
          BY <3>1, <3>3 DEF Kept
      <4> QED
          BY <4>1, Zenon
    <3> QED
        BY <3>2, <3>3
  <2>3. captured \subseteq
            Keys(queue) \cup (UNION {Keys(flight[f].batch) : f \in Flights})
            \cup DOMAIN filed \cup dropped \cup AppsOff
      BY <2>2, Zenon
  <2>4. \A k \in {r.key : r \in BrowserRows} : Copies(k, filed) <= 1 + crashes
      BY <2>1 DEF BrowserKeys
  <2> QED
      BY <2>3, <2>4, Zenon DEF RowsArriveOnce
<1> QED
    BY <1>1, ShieldStart, RowsStart, RowsInvStep, PTL DEF Spec, RowsInv

-----------------------------------------------------------------------------
(* The threads: who serves, who holds lines, who has the poll lock.        *)

\* One line of a batch.
LEMMA AbsorbRowIs ==
    ASSUME ShieldInv, NEW t \in Threads, AbsorbRow(t)
    PROVE  /\ pc[t] = "absorb" /\ work[t] # <<>>
           /\ UNCHANGED <<ledger, up, lines, scanned, offset, pollLock, passed, crashes>>
           /\ SealedKeys \subseteq SealedKeys'
           /\ \E r \in FiledRows, rest \in Seq(FiledRows) :
                /\ Keys(work[t]) = {r.key} \cup Keys(rest)
                /\ work' = [work EXCEPT ![t] = rest]
                /\ DOMAIN seen' = DOMAIN seen \cup {r.key}
                /\ pc' = [pc EXCEPT ![t] = IF rest = <<>> THEN "endBatch" ELSE "absorb"]
                /\ r.kind = "send" => r.key \in SealedKeys'
<1> DEFINE r == Head(work[t])
           rest == Tail(work[t])
<1>1. /\ pc[t] = "absorb" /\ work[t] # <<>> /\ Absorb(r)
      /\ work' = [work EXCEPT ![t] = rest]
      /\ pc' = [pc EXCEPT ![t] = IF Len(work[t]) = 1 THEN "endBatch" ELSE "absorb"]
      /\ UNCHANGED <<ledger, up, lines, scanned, offset, pollLock, passed, crashes>>
    BY DEF AbsorbRow, ShieldInv, FeedType
<1>2. up /\ ChainOK
    BY <1>1 DEF ShieldInv, DownOK
<1>3. work[t] \in Seq(FiledRows)
    BY DEF ShieldInv, FeedType
<1>4. /\ r \in FiledRows /\ rest \in Seq(FiledRows) /\ Keys(work[t]) = {r.key} \cup Keys(rest)
      /\ Len(work[t]) = 1 => rest = <<>>
      /\ Len(work[t]) # 1 => rest # <<>>
    BY <1>1, <1>3, KeysTail
<1> HIDE DEF r, rest
<1>5. /\ DOMAIN seen' = DOMAIN seen \cup {r.key}
      /\ \/ \E p \in PayloadSet : Stamp(p)
         \/ UNCHANGED <<log, torn, leaves, dirty, saved, incidents, cp>>
      /\ r.kind = "send" => \E p \in PayloadSet : p.id.key = r.key /\ Stamp(p)
    BY <1>1, <1>4, AbsorbIs DEF ShieldInv, FeedType
<1>6. SealedKeys \subseteq SealedKeys'
  <2>1. CASE \E p \in PayloadSet : Stamp(p)
    <3>1. \A i \in DOMAIN leaves : i \in DOMAIN leaves' /\ leaves'[i] = leaves[i]
        BY <1>1, <1>2, <2>1, StampKeeps
    <3> QED
        BY <3>1 DEF SealedKeys
  <2>2. CASE leaves' = leaves
      BY <2>2 DEF SealedKeys
  <2> QED
      BY <1>5, <2>1, <2>2
<1>7. r.kind = "send" => r.key \in SealedKeys'
  <2> SUFFICES ASSUME r.kind = "send" PROVE r.key \in SealedKeys'
      OBVIOUS
  <2>1. PICK p \in PayloadSet : p.id.key = r.key /\ Stamp(p)
      BY <1>5
  <2>2. \E i \in DOMAIN leaves' : leaves'[i] = p
      BY <1>1, <1>2, <2>1, StampKeeps
  <2> QED
      BY <2>1, <2>2 DEF SealedKeys
<1>8. pc' = [pc EXCEPT ![t] = IF rest = <<>> THEN "endBatch" ELSE "absorb"]
    BY <1>1, <1>4
<1>9. /\ work' = [work EXCEPT ![t] = rest] /\ DOMAIN seen' = DOMAIN seen \cup {r.key}
      /\ Keys(work[t]) = {r.key} \cup Keys(rest)
    BY <1>1, <1>4, <1>5
<1> QED
    BY <1>1, <1>4, <1>6, <1>7, <1>8, <1>9

\* A thread moves: what it must not do.
LEMMA ThreadMoves ==
    ASSUME FeedType, ThreadsOK, NEW t \in Threads, NEW x, NEW w,
           pc' = [pc EXCEPT ![t] = x], work' = [work EXCEPT ![t] = w],
           scanned => scanned', ~scanned' => offset' = 0,
           t \in Handlers /\ x # "idle" => pc[Main] = "serving",
           t = Main => /\ x \notin {"idle", "scan"} => scanned'
                       /\ x = "serving" \/ pc[Main] # "serving",
           x # "absorb" => w = <<>>,
           w # <<>> => pollLock' = t \/ t = Main,
           \A s \in Threads : s # t /\ work[s] # <<>> => pollLock' = pollLock \/ s = Main
    PROVE  ThreadsOK'
<1>a. /\ Main \in Threads /\ Watcher \in Threads /\ Handlers \subseteq Threads
      /\ Main \notin Handlers /\ Watcher \notin Handlers
    BY FeedAssumption DEF Threads
<1>1. /\ pc'[t] = x /\ work'[t] = w
      /\ \A s \in Threads : s # t => pc'[s] = pc[s] /\ work'[s] = work[s]
    BY DEF FeedType
<1>2. ASSUME NEW s \in Handlers, pc'[s] # "idle" PROVE pc'[Main] = "serving"
    BY <1>1, <1>2, <1>a DEF ThreadsOK
<1>3. pc'[Main] \notin {"idle", "scan"} => scanned'
    BY <1>1, <1>a DEF ThreadsOK
<1>4. \A s \in Threads : pc'[s] # "absorb" => work'[s] = <<>>
    BY <1>1 DEF ThreadsOK
<1>5. \A s \in Threads : work'[s] # <<>> => pollLock' = s \/ s = Main
    BY <1>1 DEF ThreadsOK
<1> QED
    BY <1>2, <1>3, <1>4, <1>5 DEF ThreadsOK

\* Shield's own threads.
LEMMA ThreadsShieldStep ==
    ASSUME ShieldInv, ThreadsOK, ShieldStep
    PROVE  ThreadsOK'
<1>a. /\ Main \in Threads /\ Watcher \in Threads /\ Handlers \subseteq Threads
      /\ Main \notin Handlers /\ Watcher \notin Handlers /\ Main # Watcher
    BY FeedAssumption DEF Threads
<1>b. /\ FeedType /\ DownOK /\ pc \in [Threads -> Places] /\ work \in [Threads -> Seq(FiledRows)]
      /\ pollLock \in Threads \cup {Nothing} /\ Nothing \notin Threads
    BY FeedAssumption DEF ShieldInv, FeedType
<1>1. CASE Start
  <2>1. /\ \A t \in Threads : pc[t] = "idle" /\ work[t] = <<>>
        /\ offset = 0 /\ ~scanned
      BY <1>1, <1>b DEF Start, DownOK, ThreadsOK
  <2>2. /\ pc' = [t \in Threads |-> IF t = Main THEN "scan" ELSE "idle"]
        /\ UNCHANGED <<work, scanned, offset, pollLock>>
      BY <1>1 DEF Start
  <2> QED
      BY <1>a, <2>1, <2>2 DEF ThreadsOK
<1>2. CASE ScanBegin
  <2>1. /\ pc[Main] = "scan" /\ pc' = [pc EXCEPT ![Main] = "scanRead"] /\ scanned' = TRUE
        /\ UNCHANGED <<work, offset, pollLock>>
      BY <1>2 DEF ScanBegin, At
  <2>2. work[Main] = <<>> /\ work' = [work EXCEPT ![Main] = <<>>]
      BY <1>a, <1>b, <2>1 DEF ThreadsOK
  <2> QED
      BY <1>a, <1>b, <2>1, <2>2, ThreadMoves
<1>3. CASE ScanRead
  <2>1. /\ pc[Main] = "scanRead" /\ work' = [work EXCEPT ![Main] = ledger]
        /\ pc' = [pc EXCEPT ![Main] = IF ledger = <<>> THEN "scanOffset" ELSE "absorb"]
        /\ UNCHANGED <<scanned, offset, pollLock>>
      BY <1>3 DEF ScanRead, At
  <2>2. scanned
      BY <2>1 DEF ThreadsOK
  <2> QED
      BY <1>a, <1>b, <2>1, <2>2, ThreadMoves
<1>4. CASE ScanOffset
  <2>1. /\ pc[Main] = "scanOffset" /\ pc' = [pc EXCEPT ![Main] = "serving"]
        /\ UNCHANGED <<work, scanned, pollLock>>
      BY <1>4 DEF ScanOffset, At
  <2>2. scanned /\ work[Main] = <<>> /\ work' = [work EXCEPT ![Main] = <<>>]
      BY <1>a, <1>b, <2>1 DEF ThreadsOK
  <2> QED
      BY <1>a, <1>b, <2>1, <2>2, ThreadMoves
<1>5. CASE WatcherPoll
  <2>1. PollTake(Watcher, "idle")
      BY <1>5 DEF WatcherPoll
  <2>2. pollLock = Nothing /\ scanned' = scanned
      BY <1>a, <1>b, <2>1, PollTakeIs
  <2>3. PICK new \in Seq(FiledRows) :
                /\ work' = [work EXCEPT ![Watcher] = new]
                /\ offset' = IF scanned THEN Len(ledger) ELSE offset
                /\ pollLock' = IF new = <<>> THEN Nothing ELSE Watcher
                /\ pc' = [pc EXCEPT ![Watcher] = IF new # <<>> THEN "absorb"
                                            ELSE IF Watcher \in Handlers THEN "reply" ELSE "idle"]
      BY <1>a, <1>b, <2>1, PollTakeIs
  <2>4. \A s \in Threads : work[s] # <<>> => s = Main
      BY <1>b, <2>2 DEF ThreadsOK
  <2>5. ~scanned' => offset' = 0
      BY <2>2, <2>3 DEF ThreadsOK
  <2> QED
      BY <1>a, <1>b, <2>2, <2>3, <2>4, <2>5, ThreadMoves
<1>6. CASE ScrubLedger
  <2>1. PICK t \in Handlers : pc[t] = "idle" /\ pc' = [pc EXCEPT ![t] = "resync"]
      BY <1>6 DEF ScrubLedger, At
  <2>2. pc[Main] = "serving" /\ UNCHANGED <<work, scanned, offset, pollLock>>
      BY <1>6 DEF ScrubLedger
  <2>3. work[t] = <<>> /\ work' = [work EXCEPT ![t] = <<>>]
      BY <1>a, <1>b, <2>1, <2>2 DEF ThreadsOK
  <2>4. ~scanned' => offset' = 0
      BY <2>2 DEF ThreadsOK
  <2> QED
      BY <1>a, <1>b, <2>1, <2>2, <2>3, <2>4, ThreadMoves
<1>7. ASSUME NEW t \in Threads, AbsorbRow(t) PROVE ThreadsOK'
  <2>1. pc[t] = "absorb" /\ work[t] # <<>> /\ UNCHANGED <<scanned, offset, pollLock>>
      BY <1>7, AbsorbRowIs
  <2>2. PICK rest \in Seq(FiledRows) :
          /\ work' = [work EXCEPT ![t] = rest]
          /\ pc' = [pc EXCEPT ![t] = IF rest = <<>> THEN "endBatch" ELSE "absorb"]
      BY <1>7, AbsorbRowIs
  <2>3. ~scanned' => offset' = 0
      BY <2>1 DEF ThreadsOK
  <2>4. /\ t \in Handlers => pc[Main] = "serving"
        /\ t = Main => scanned
        /\ pollLock = t \/ t = Main
      BY <2>1 DEF ThreadsOK
  <2> QED
      BY <1>b, <2>1, <2>2, <2>3, <2>4, ThreadMoves
<1>8. ASSUME NEW t \in Threads, FinishPoll(t) PROVE ThreadsOK'
  <2> DEFINE x == IF t \in Handlers THEN "reply" ELSE IF t = Main THEN "scanOffset" ELSE "idle"
  <2>1. /\ pc[t] = "endBatch" /\ pc' = [pc EXCEPT ![t] = x]
        /\ pollLock' = IF pollLock = t THEN Nothing ELSE pollLock
        /\ UNCHANGED <<work, scanned, offset>>
      BY <1>8 DEF FinishPoll, At
  <2>2. work[t] = <<>> /\ work' = [work EXCEPT ![t] = <<>>]
      BY <1>b, <2>1 DEF ThreadsOK
  <2>3. ~scanned' => offset' = 0
      BY <2>1 DEF ThreadsOK
  <2>4. /\ t \in Handlers => pc[Main] = "serving"
        /\ t = Main => scanned
      BY <2>1 DEF ThreadsOK
  <2>5. \A s \in Threads : s # t /\ work[s] # <<>> => pollLock' = pollLock \/ s = Main
      BY <2>1 DEF ThreadsOK
  <2>6. t = Main => x \notin {"idle", "scan"} /\ pc[Main] # "serving"
      BY <1>a, <2>1
  <2>7. x # "absorb"
      OBVIOUS
  <2> HIDE DEF x
  <2> QED
      BY <1>b, <2>1, <2>2, <2>3, <2>4, <2>5, <2>6, <2>7, ThreadMoves
<1>9. ASSUME NEW t \in Handlers, Resync(t) PROVE ThreadsOK'
  <2>1. pc[t] = "resync" /\ pc' = [pc EXCEPT ![t] = "idle"] /\ UNCHANGED <<work, scanned, pollLock>>
      BY <1>9 DEF Resync, At
  <2>2. scanned /\ work[t] = <<>>
      BY <1>a, <2>1 DEF ThreadsOK
  <2>3. work' = [work EXCEPT ![t] = <<>>]
      BY <1>a, <1>b, <2>1, <2>2
  <2> QED
      BY <1>a, <1>b, <2>1, <2>2, <2>3, ThreadMoves
<1>10. CASE UNCHANGED feed
    BY <1>10 DEF feed, ThreadsOK
<1> QED
    BY <1>1, <1>2, <1>3, <1>4, <1>5, <1>6, <1>7, <1>8, <1>9, <1>10 DEF ShieldStep

\* Every step.
LEMMA ThreadsStep == ShieldInv /\ ThreadsOK /\ [Next]_vars => ThreadsOK'
<1> SUFFICES ASSUME ShieldInv, ThreadsOK, [Next]_vars PROVE ThreadsOK'
    OBVIOUS
<1>a. /\ Main \in Threads /\ Watcher \in Threads /\ Handlers \subseteq Threads
      /\ Main \notin Handlers /\ Watcher \notin Handlers /\ Main # Watcher
    BY FeedAssumption DEF Threads
<1>b. /\ FeedType /\ pc \in [Threads -> Places] /\ work \in [Threads -> Seq(FiledRows)]
      /\ pollLock \in Threads \cup {Nothing} /\ Nothing \notin Threads
    BY FeedAssumption DEF ShieldInv, FeedType
<1>1. CASE ShieldStep
    BY <1>1, ThreadsShieldStep
<1>2. CASE ShieldCrash
  <2>1. /\ pc' = [t \in Threads |-> "idle"] /\ work' = [t \in Threads |-> <<>>] /\ offset' = 0
      BY <1>2 DEF ShieldCrash, Crash
  <2> QED
      BY <1>a, <2>1 DEF ThreadsOK
<1>3. ASSUME NEW t \in Handlers, NEW here, pc[t] # "absorb", pc' = [pc EXCEPT ![t] = here],
             here # "absorb", pc[t] # "idle" \/ pc[Main] = "serving",
             UNCHANGED <<work, scanned, offset, pollLock>>
      PROVE  ThreadsOK'
  <2>1. work[t] = <<>> /\ (~scanned' => offset' = 0) /\ pc[Main] = "serving"
      BY <1>3, <1>a DEF ThreadsOK
  <2>2. work' = [work EXCEPT ![t] = <<>>]
      BY <1>3, <1>a, <1>b, <2>1
  <2> QED
      BY <1>3, <1>a, <1>b, <2>1, <2>2, ThreadMoves
<1>4. ASSUME NEW t \in Handlers, IngestRow(t) PROVE ThreadsOK'
  <2>1. pc[t] = "ingest" /\ UNCHANGED <<work, scanned, offset, pollLock>>
      BY <1>4, IngestIs
  <2>2. \E here : here # "absorb" /\ pc' = [pc EXCEPT ![t] = here]
      BY <1>4, IngestIs
  <2> QED
      BY <1>3, <2>1, <2>2
<1>5. ASSUME NEW t \in Handlers, IngestPoll(t) PROVE ThreadsOK'
  <2>1. PollTake(t, "poll") /\ t \in Threads
      BY <1>5, <1>a DEF IngestPoll
  <2>2. pollLock = Nothing /\ scanned' = scanned /\ pc[t] = "poll"
      BY <1>b, <2>1, PollTakeIs
  <2>3. PICK new \in Seq(FiledRows) :
                /\ work' = [work EXCEPT ![t] = new]
                /\ offset' = IF scanned THEN Len(ledger) ELSE offset
                /\ pollLock' = IF new = <<>> THEN Nothing ELSE t
                /\ pc' = [pc EXCEPT ![t] = IF new # <<>> THEN "absorb"
                                            ELSE IF t \in Handlers THEN "reply" ELSE "idle"]
      BY <1>b, <2>1, PollTakeIs
  <2>4. (\A s \in Threads : work[s] # <<>> => s = Main) /\ pc[Main] = "serving"
      BY <1>b, <2>2 DEF ThreadsOK
  <2>5. ~scanned' => offset' = 0
      BY <2>2, <2>3 DEF ThreadsOK
  <2> QED
      BY <1>a, <1>b, <2>1, <2>2, <2>3, <2>4, <2>5, ThreadMoves
<1>6. ASSUME NEW t \in Handlers, Answer(t) PROVE ThreadsOK'
  <2>1. /\ pc[t] = "reply" /\ pc' = [pc EXCEPT ![t] = "idle"]
        /\ UNCHANGED <<work, scanned, offset, pollLock>>
      BY <1>6 DEF Answer, At
  <2> QED
      BY <1>3, <2>1
<1>7. ASSUME NEW f \in Flights, NEW t \in Handlers, Post(f, t) PROVE ThreadsOK'
  <2>1. /\ pc[t] = "idle" /\ pc' = [pc EXCEPT ![t] = "ingest"] /\ pc[Main] = "serving"
        /\ UNCHANGED <<work, scanned, offset, pollLock>>
      BY <1>7 DEF Post, At
  <2> QED
      BY <1>3, <2>1
<1>8. ASSUME NEW r \in OtherRows, OtherAppend(r) PROVE ThreadsOK'
    BY <1>8 DEF OtherAppend, ProxyAppend, ThreadsOK
<1>9. CASE \/ \E r \in BrowserRows : Capture(r)
           \/ \E f \in Flights : Flush(f) \/ Refused(f) \/ LoseAnswer(f) \/ NoteWitness(f)
           \/ Withdraw \/ AcceptRecord \/ KillWorker
  <2>1. UNCHANGED fvars
      BY <1>9 DEF Capture, Flush, Refused, LoseAnswer, NoteWitness, Withdraw, AcceptRecord, KillWorker
  <2> QED
      BY <2>1 DEF fvars, feed, ThreadsOK
<1>10. CASE UNCHANGED vars
    BY <1>10 DEF vars, fvars, feed, ThreadsOK
<1> QED
    BY <1>1, <1>2, <1>4, <1>5, <1>6, <1>7, <1>8, <1>9, <1>10 DEF Next

-----------------------------------------------------------------------------
(* A captured row is in one place of the worker.                           *)

\* The queue and the flushes keep their rows, requests only lose some.
LEMMA OnceKeep ==
    ASSUME OnceOK, UNCHANGED <<queue, captured>>,
           \A f \in Flights : flight'[f].batch = flight[f].batch,
           \A t \in Handlers :
              /\ DistinctKeys(req'[t].rows) /\ Keys(req'[t].rows) \subseteq captured
              /\ req'[t].flight = Nothing =>
                    \/ Keys(req'[t].rows) = {}
                    \/ req[t].flight = Nothing /\ Keys(req'[t].rows) \subseteq Keys(req[t].rows),
           Keys(ledger') \cap BrowserKeys \subseteq captured \ AppsOff
    PROVE  OnceOK'
<1>1. DistinctKeys(queue') /\ Keys(queue') \subseteq captured'
    BY DEF OnceOK
<1>2. \A f \in Flights :
          /\ DistinctKeys(flight'[f].batch) /\ Keys(flight'[f].batch) \subseteq captured'
          /\ Keys(flight'[f].batch) \cap Keys(queue') = {}
    BY DEF OnceOK
<1>3. \A f, g \in Flights : f # g => Keys(flight'[f].batch) \cap Keys(flight'[g].batch) = {}
    BY DEF OnceOK
<1>4. ASSUME NEW t \in Handlers
      PROVE  /\ DistinctKeys(req'[t].rows) /\ Keys(req'[t].rows) \subseteq captured'
             /\ req'[t].flight = Nothing =>
                   /\ Keys(req'[t].rows) \cap Keys(queue') = {}
                   /\ \A f \in Flights : Keys(req'[t].rows) \cap Keys(flight'[f].batch) = {}
  <2>1. DistinctKeys(req'[t].rows) /\ Keys(req'[t].rows) \subseteq captured'
      OBVIOUS
  <2>2. ASSUME req'[t].flight = Nothing
        PROVE  /\ Keys(req'[t].rows) \cap Keys(queue) = {}
               /\ \A f \in Flights : Keys(req'[t].rows) \cap Keys(flight[f].batch) = {}
    <3>1. CASE Keys(req'[t].rows) = {}
        BY <3>1
    <3>2. CASE req[t].flight = Nothing /\ Keys(req'[t].rows) \subseteq Keys(req[t].rows)
      <4>1. /\ Keys(req[t].rows) \cap Keys(queue) = {}
            /\ \A f \in Flights : Keys(req[t].rows) \cap Keys(flight[f].batch) = {}
          BY <3>2 DEF OnceOK
      <4> QED
          BY <3>2, <4>1
    <3> QED
        BY <2>2, <3>1, <3>2
  <2> QED
      BY <2>1, <2>2
<1>5. Keys(ledger') \cap BrowserKeys \subseteq captured' \ AppsOff
    OBVIOUS
<1> QED
    BY <1>1, <1>2, <1>3, <1>4, <1>5 DEF OnceOK, Keys, DistinctKeys

\* Shield's own threads and its end.
LEMMA OnceShieldStep ==
    ASSUME ShieldInv, OnceOK, (ShieldStep /\ UNCHANGED browser) \/ ShieldCrash
    PROVE  OnceOK'
<1>b. FeedType
    BY DEF ShieldInv
<1>1. Keys(ledger') \subseteq Keys(ledger)
  <2>1. CASE Start
    <3>1. ledger' = Retained(ledger)
        BY <2>1 DEF Start
    <3> QED
        BY <1>b, <3>1, RetainedIs DEF FeedType
  <2>2. CASE ScrubLedger
    <3>1. PICK kept : kept = Retained(ledger) /\ ledger' = [i \in DOMAIN kept |-> [kept[i] EXCEPT !.text = FALSE]]
        BY <2>2 DEF ScrubLedger
    <3> QED
        BY <1>b, <3>1, ScrubbedIs DEF FeedType
  <2>3. CASE ShieldCrash
      BY <2>3 DEF ShieldCrash, Crash
  <2>4. CASE WatcherPoll
      BY <2>4 DEF WatcherPoll, PollTake
  <2>5. ASSUME ScanBegin \/ ScanRead \/ ScanOffset \/ (\E t \in Threads : AbsorbRow(t) \/ FinishPoll(t))
               \/ (\E t \in Handlers : Resync(t)) \/ UNCHANGED feed
        PROVE  ledger' = ledger
      BY <2>5 DEF ScanBegin, ScanRead, ScanOffset, AbsorbRow, FinishPoll, Resync, feed
  <2> QED
      BY <2>1, <2>2, <2>3, <2>4, <2>5 DEF ShieldStep
<1>2. UNCHANGED <<queue, captured, flight>>
    BY DEF browser, ShieldCrash
<1>3. ASSUME NEW t \in Handlers
      PROVE  /\ DistinctKeys(req'[t].rows) /\ Keys(req'[t].rows) \subseteq captured
             /\ req'[t].flight = Nothing =>
                    \/ Keys(req'[t].rows) = {}
                    \/ req[t].flight = Nothing /\ Keys(req'[t].rows) \subseteq Keys(req[t].rows)
  <2>1. CASE ShieldCrash
    <3>1. req'[t].rows = <<>>
        BY <2>1 DEF ShieldCrash, NoRequest
    <3> QED
        BY <3>1, KeysEmpty
  <2>2. CASE UNCHANGED browser
      BY <2>2 DEF OnceOK, browser
  <2> QED
      BY <2>1, <2>2
<1>4. Keys(ledger') \cap BrowserKeys \subseteq captured \ AppsOff
    BY <1>1 DEF OnceOK
<1> QED
    BY <1>2, <1>3, <1>4, OnceKeep

\* POST /api/browser and the other writers.
LEMMA OnceEndpointStep ==
    ASSUME ShieldInv, OnceOK,
           \/ \E t \in Handlers : IngestRow(t) \/ IngestPoll(t) \/ Answer(t)
           \/ \E r \in OtherRows : OtherAppend(r)
           \/ \E f \in Flights, t \in Handlers : Post(f, t)
    PROVE  OnceOK'
<1>b. /\ req \in [Handlers -> RequestSet] /\ flight \in [Flights -> FlightSet] /\ Nothing \notin Flights
      /\ ledger \in Seq(FiledRows)
    BY BrowserAssumption DEF ShieldInv, BrowserType, FeedType
<1>c. \A t \in Handlers : req[t].flight \in Flights \cup {Nothing}
    BY <1>b DEF RequestSet
<1>d. \A t \in Handlers : DistinctKeys(req[t].rows) /\ Keys(req[t].rows) \subseteq captured
    BY DEF OnceOK
<1>e. Keys(ledger) \cap BrowserKeys \subseteq captured \ AppsOff
    BY DEF OnceOK
<1>1. ASSUME NEW t \in Handlers, IngestRow(t) PROVE OnceOK'
  <2>1. UNCHANGED <<queue, flight, captured>>
      BY <1>1, IngestIs
  <2>2. PICK r \in BrowserRows, rest \in Seq(BrowserRows), file \in BOOLEAN, here \in Places :
                /\ Keys(req[t].rows) = {r.key} \cup Keys(rest)
                /\ DistinctKeys(req[t].rows) => DistinctKeys(rest) /\ r.key \notin Keys(rest)
                /\ dedupe' = dedupe \cup {r.key}
                /\ file <=> r.key \notin dedupe /\ r.key \notin AppsOff
                /\ ledger' = IF file THEN Append(ledger, r) ELSE ledger
                /\ filed' = IF file THEN filed (+) SetToBag({r.key}) ELSE filed
                /\ req' = [req EXCEPT ![t] = [rows |-> rest, flight |-> req[t].flight,
                                              accepted |-> req[t].accepted \/ file]]
                /\ pc' = [pc EXCEPT ![t] = here]
                /\ \/ here = "ingest" /\ rest # <<>>
                   \/ here = "poll" /\ rest = <<>> /\ (req[t].accepted \/ file)
                   \/ here = "reply" /\ rest = <<>> /\ ~(req[t].accepted \/ file)
      BY <1>1, IngestIs
  <2>3. /\ req'[t].rows = rest /\ req'[t].flight = req[t].flight
        /\ \A s \in Handlers : s # t => req'[s] = req[s]
      BY <1>b, <2>2
  <2>4. \A s \in Handlers :
              /\ DistinctKeys(req'[s].rows) /\ Keys(req'[s].rows) \subseteq captured
              /\ req'[s].flight = req[s].flight /\ Keys(req'[s].rows) \subseteq Keys(req[s].rows)
      BY <1>d, <2>2, <2>3
  <2>5. Keys(ledger') \cap BrowserKeys \subseteq captured \ AppsOff
    <3>1. CASE file
      <4>1. r \in FiledRows /\ ledger' = Append(ledger, r)
          BY <2>2, <3>1, RowsAreFiled
      <4>2. Keys(ledger') = Keys(ledger) \cup {r.key}
          BY <1>b, <4>1, KeysAppend
      <4>3. r.key \in captured /\ r.key \notin AppsOff
          BY <1>d, <2>2, <3>1
      <4> QED
          BY <1>e, <4>2, <4>3
    <3>2. CASE ~file
        BY <1>e, <2>2, <3>2
    <3> QED
        BY <3>1, <3>2
  <2> QED
      BY <2>1, <2>4, <2>5, OnceKeep
<1>2. ASSUME NEW t \in Handlers, IngestPoll(t) PROVE OnceOK'
  <2>1. UNCHANGED <<queue, flight, captured, req, ledger>>
      BY <1>2 DEF IngestPoll, PollTake, browser
  <2> QED
      BY <1>d, <1>e, <2>1, OnceKeep
<1>3. ASSUME NEW t \in Handlers, Answer(t) PROVE OnceOK'
  <2> DEFINE g == req[t].flight
  <2>1. /\ flight' = IF g = Nothing THEN flight
                     ELSE [flight EXCEPT ![g] =
                          [stage |-> "answered", batch |-> flight[g].batch, total |-> Len(leaves)]]
        /\ req' = [req EXCEPT ![t] = NoRequest]
        /\ UNCHANGED <<queue, captured, ledger>>
      BY <1>3 DEF Answer
  <2>2. /\ req'[t].rows = <<>>
        /\ \A s \in Handlers : s # t => req'[s] = req[s]
      BY <1>b, <2>1 DEF NoRequest
  <2>3. g \in Flights \cup {Nothing}
      BY <1>c
  <2>4. \A f \in Flights : flight'[f].batch = flight[f].batch
      BY <1>b, <2>1, <2>3
  <2> HIDE DEF g
  <2>5. ASSUME NEW s \in Handlers
        PROVE /\ DistinctKeys(req'[s].rows) /\ Keys(req'[s].rows) \subseteq captured
              /\ req'[s].flight = Nothing =>
                    \/ Keys(req'[s].rows) = {}
                    \/ req[s].flight = Nothing /\ Keys(req'[s].rows) \subseteq Keys(req[s].rows)
    <3>1. CASE s = t
        BY <2>2, <3>1, KeysEmpty
    <3>2. CASE s # t
        BY <1>d, <2>2, <3>2
    <3> QED
        BY <3>1, <3>2
  <2> QED
      BY <1>e, <2>1, <2>4, <2>5, OnceKeep
<1>4. ASSUME NEW r \in OtherRows, OtherAppend(r) PROVE OnceOK'
  <2>1. UNCHANGED <<queue, flight, captured, req>> /\ ledger' = Append(ledger, r)
      BY <1>4 DEF OtherAppend, ProxyAppend, AppendRow
  <2>2. r \in FiledRows /\ r.key \notin BrowserKeys
      BY RowsAreFiled
  <2>3. Keys(ledger') = Keys(ledger) \cup {r.key}
      BY <1>b, <2>1, <2>2, KeysAppend
  <2>4. Keys(ledger') \cap BrowserKeys \subseteq captured \ AppsOff
      BY <1>e, <2>2, <2>3
  <2> QED
      BY <1>d, <2>1, <2>4, OnceKeep
<1>5. ASSUME NEW f \in Flights, NEW t \in Handlers, Post(f, t) PROVE OnceOK'
  <2>1. /\ req' = [req EXCEPT ![t] = [rows |-> flight[f].batch, flight |-> f, accepted |-> FALSE]]
        /\ flight' = [flight EXCEPT ![f] = [flight[f] EXCEPT !.stage = "posted"]]
        /\ UNCHANGED <<queue, captured, ledger>>
      BY <1>5 DEF Post
  <2>2. /\ req'[t].rows = flight[f].batch /\ req'[t].flight = f
        /\ \A s \in Handlers : s # t => req'[s] = req[s]
      BY <1>b, <2>1
  <2>3. \A g \in Flights : flight'[g].batch = flight[g].batch
      BY <1>b, <2>1 DEF FlightSet
  <2>4. DistinctKeys(flight[f].batch) /\ Keys(flight[f].batch) \subseteq captured
      BY DEF OnceOK
  <2>5. ASSUME NEW s \in Handlers
        PROVE /\ DistinctKeys(req'[s].rows) /\ Keys(req'[s].rows) \subseteq captured
              /\ req'[s].flight = Nothing =>
                    \/ Keys(req'[s].rows) = {}
                    \/ req[s].flight = Nothing /\ Keys(req'[s].rows) \subseteq Keys(req[s].rows)
    <3>1. CASE s = t
        BY <1>b, <2>2, <2>4, <3>1
    <3>2. CASE s # t
        BY <1>d, <2>2, <3>2
    <3> QED
        BY <3>1, <3>2
  <2> QED
      BY <1>e, <2>1, <2>3, <2>5, OnceKeep
<1> QED
    BY <1>1, <1>2, <1>3, <1>4, <1>5

\* The worker's own steps.
LEMMA OnceWorkerStep ==
    ASSUME ShieldInv, RequestsOK, OnceOK, UNCHANGED fvars,
           \/ \E r \in BrowserRows : Capture(r)
           \/ \E f \in Flights : Flush(f) \/ Refused(f) \/ LoseAnswer(f) \/ NoteWitness(f)
           \/ Withdraw \/ AcceptRecord \/ KillWorker
    PROVE  OnceOK'
<1>b. /\ queue \in Seq(BrowserRows) /\ flight \in [Flights -> FlightSet] /\ BrowserType
      /\ req \in [Handlers -> RequestSet] /\ ledger' = ledger
    BY DEF ShieldInv, BrowserType, fvars, feed
<1>c. /\ DistinctKeys(queue) /\ Keys(queue) \subseteq captured
      /\ Keys(ledger) \cap BrowserKeys \subseteq captured \ AppsOff
    BY DEF OnceOK
<1>d. \A f \in Flights :
          /\ DistinctKeys(flight[f].batch) /\ Keys(flight[f].batch) \subseteq captured
          /\ Keys(flight[f].batch) \cap Keys(queue) = {}
    BY DEF OnceOK
<1>e. \A f, g \in Flights : f # g => Keys(flight[f].batch) \cap Keys(flight[g].batch) = {}
    BY DEF OnceOK
<1>f. \A t \in Handlers :
          /\ DistinctKeys(req[t].rows) /\ Keys(req[t].rows) \subseteq captured
          /\ req[t].flight = Nothing =>
                /\ Keys(req[t].rows) \cap Keys(queue) = {}
                /\ \A f \in Flights : Keys(req[t].rows) \cap Keys(flight[f].batch) = {}
    BY DEF OnceOK
<1>g. Keys(<<>>) = {} /\ DistinctKeys(<<>>) /\ Idle.batch = <<>>
    BY KeysEmpty DEF Idle
<1>1. ASSUME NEW r \in BrowserRows, Capture(r) PROVE OnceOK'
  <2>1. /\ r.key \notin captured /\ captured' = captured \cup {r.key}
        /\ queue' = Capped(Append(queue, r)) /\ UNCHANGED <<flight, req>>
      BY <1>1 DEF Capture
  <2>2. /\ Append(queue, r) \in Seq(BrowserRows)
        /\ Keys(Append(queue, r)) = Keys(queue) \cup {r.key}
        /\ DistinctKeys(Append(queue, r))
    <3>1. r.key \notin Keys(queue)
        BY <1>c, <2>1
    <3> QED
        BY <1>b, <1>c, <3>1, KeysAppend
  <2>3. Keys(queue') \subseteq Keys(queue) \cup {r.key} /\ DistinctKeys(queue')
      BY <2>1, <2>2, CappedIs
  <2>4. DistinctKeys(queue') /\ Keys(queue') \subseteq captured'
      BY <1>c, <2>1, <2>3
  <2>5. \A f \in Flights :
          /\ DistinctKeys(flight'[f].batch) /\ Keys(flight'[f].batch) \subseteq captured'
          /\ Keys(flight'[f].batch) \cap Keys(queue') = {}
      BY <1>d, <2>1, <2>3
  <2>6. \A f, g \in Flights : f # g => Keys(flight'[f].batch) \cap Keys(flight'[g].batch) = {}
      BY <1>e, <2>1
  <2>7. \A t \in Handlers :
          /\ DistinctKeys(req'[t].rows) /\ Keys(req'[t].rows) \subseteq captured'
          /\ req'[t].flight = Nothing =>
                /\ Keys(req'[t].rows) \cap Keys(queue') = {}
                /\ \A f \in Flights : Keys(req'[t].rows) \cap Keys(flight'[f].batch) = {}
      BY <1>f, <2>1, <2>3
  <2>8. Keys(ledger') \cap BrowserKeys \subseteq captured' \ AppsOff
      BY <1>b, <1>c, <2>1
  <2> QED
      BY <2>4, <2>5, <2>6, <2>7, <2>8 DEF OnceOK, Keys, DistinctKeys
<1>2. ASSUME NEW f \in Flights, Flush(f) PROVE OnceOK'
  <2>1. /\ flight' = [flight EXCEPT ![f] = [stage |-> "check", batch |-> queue, total |-> 0]]
        /\ queue' = <<>> /\ UNCHANGED <<req, captured>>
      BY <1>2 DEF Flush
  <2>2. flight'[f].batch = queue /\ \A g \in Flights : g # f => flight'[g] = flight[g]
      BY <1>b, <2>1
  <2>4. DistinctKeys(queue') /\ Keys(queue') \subseteq captured'
      BY <1>g, <2>1
  <2>5. \A g \in Flights :
          /\ DistinctKeys(flight'[g].batch) /\ Keys(flight'[g].batch) \subseteq captured'
          /\ Keys(flight'[g].batch) \cap Keys(queue') = {}
      BY <1>c, <1>d, <1>g, <2>1, <2>2
  <2>6. \A g, h \in Flights : g # h => Keys(flight'[g].batch) \cap Keys(flight'[h].batch) = {}
      BY <1>d, <1>e, <2>2
  <2>7. \A t \in Handlers :
          /\ DistinctKeys(req'[t].rows) /\ Keys(req'[t].rows) \subseteq captured'
          /\ req'[t].flight = Nothing =>
                /\ Keys(req'[t].rows) \cap Keys(queue') = {}
                /\ \A g \in Flights : Keys(req'[t].rows) \cap Keys(flight'[g].batch) = {}
    <3>1. \A t \in Handlers : req[t].flight = Nothing =>
              \A g \in Flights : Keys(req[t].rows) \cap Keys(flight'[g].batch) = {}
        BY <1>f, <2>2
    <3> QED
        BY <1>f, <1>g, <2>1, <3>1
  <2>8. Keys(ledger') \cap BrowserKeys \subseteq captured' \ AppsOff
      BY <1>b, <1>c, <2>1
  <2> QED
      BY <2>4, <2>5, <2>6, <2>7, <2>8 DEF OnceOK, Keys, DistinctKeys
<1>3. ASSUME NEW f \in Flights, flight' = [flight EXCEPT ![f] = Idle], UNCHANGED <<req, captured>>,
             DistinctKeys(queue'), Keys(queue') \subseteq Keys(flight[f].batch) \cup Keys(queue)
      PROVE OnceOK'
  <2>2. flight'[f].batch = <<>> /\ \A g \in Flights : g # f => flight'[g] = flight[g]
      BY <1>b, <1>g, <1>3
  <2>4. DistinctKeys(queue') /\ Keys(queue') \subseteq captured'
      BY <1>c, <1>d, <1>3
  <2>5. \A g \in Flights :
          /\ DistinctKeys(flight'[g].batch) /\ Keys(flight'[g].batch) \subseteq captured'
          /\ Keys(flight'[g].batch) \cap Keys(queue') = {}
    <3>1. ASSUME NEW g \in Flights, g # f PROVE Keys(flight[g].batch) \cap Keys(queue') = {}
        BY <1>3, <1>d, <1>e, <3>1
    <3> QED
        BY <1>3, <1>d, <1>g, <2>2, <3>1
  <2>6. \A g, h \in Flights : g # h => Keys(flight'[g].batch) \cap Keys(flight'[h].batch) = {}
      BY <1>e, <1>g, <2>2
  <2>7. \A t \in Handlers :
          /\ DistinctKeys(req'[t].rows) /\ Keys(req'[t].rows) \subseteq captured'
          /\ req'[t].flight = Nothing =>
                /\ Keys(req'[t].rows) \cap Keys(queue') = {}
                /\ \A g \in Flights : Keys(req'[t].rows) \cap Keys(flight'[g].batch) = {}
    <3>1. \A t \in Handlers : req[t].flight = Nothing =>
              \A g \in Flights : Keys(req[t].rows) \cap Keys(flight'[g].batch) = {}
        BY <1>f, <1>g, <2>2
    <3>2. \A t \in Handlers : req[t].flight = Nothing => Keys(req[t].rows) \cap Keys(queue') = {}
        BY <1>f, <1>3
    <3> QED
        BY <1>f, <1>3, <3>1, <3>2
  <2>8. Keys(ledger') \cap BrowserKeys \subseteq captured' \ AppsOff
      BY <1>b, <1>c, <1>3
  <2> QED
      BY <2>4, <2>5, <2>6, <2>7, <2>8 DEF OnceOK, Keys, DistinctKeys
<1>4. ASSUME NEW f \in Flights, Refused(f) \/ LoseAnswer(f) PROVE OnceOK'
  <2>1. PutsBack(f) /\ UNCHANGED <<req, captured>>
      BY <1>4 DEF Refused, LoseAnswer
  <2>2. /\ flight' = [flight EXCEPT ![f] = Idle]
        /\ Keys(queue') \subseteq Keys(flight[f].batch) \cup Keys(queue) /\ DistinctKeys(queue')
      BY <1>b, <1>c, <1>d, <2>1, PutsBackTypes
  <2> QED
      BY <1>3, <2>1, <2>2
<1>5. ASSUME NEW f \in Flights, NoteWitness(f) PROVE OnceOK'
  <2>1. flight' = [flight EXCEPT ![f] = Idle] /\ UNCHANGED <<queue, req, captured>>
      BY <1>5 DEF NoteWitness
  <2>2. DistinctKeys(queue') /\ Keys(queue') \subseteq Keys(flight[f].batch) \cup Keys(queue)
      BY <1>c, <2>1
  <2> QED
      BY <1>3, <2>1, <2>2
<1>6. CASE Withdraw
  <2>1. queue' = <<>> /\ UNCHANGED <<flight, req, captured, ledger>>
      BY <1>b, <1>6 DEF Withdraw
  <2>2. DistinctKeys(queue') /\ Keys(queue') = {}
      BY <1>g, <2>1
  <2>5. \A f \in Flights :
          /\ DistinctKeys(flight'[f].batch) /\ Keys(flight'[f].batch) \subseteq captured'
          /\ Keys(flight'[f].batch) \cap Keys(queue') = {}
      BY <1>d, <2>1, <2>2
  <2>6. \A f, g \in Flights : f # g => Keys(flight'[f].batch) \cap Keys(flight'[g].batch) = {}
      BY <1>e, <2>1
  <2>7. \A t \in Handlers :
          /\ DistinctKeys(req'[t].rows) /\ Keys(req'[t].rows) \subseteq captured'
          /\ req'[t].flight = Nothing =>
                /\ Keys(req'[t].rows) \cap Keys(queue') = {}
                /\ \A f \in Flights : Keys(req'[t].rows) \cap Keys(flight'[f].batch) = {}
      BY <1>f, <2>1, <2>2
  <2>8. Keys(queue') \subseteq captured' /\ Keys(ledger') \cap BrowserKeys \subseteq captured' \ AppsOff
      BY <1>c, <2>1, <2>2
  <2> QED
      BY <2>2, <2>5, <2>6, <2>7, <2>8 DEF OnceOK, Keys, DistinctKeys
<1>7. CASE AcceptRecord
  <2>1. UNCHANGED <<queue, flight, req, captured>>
      BY <1>7 DEF AcceptRecord
  <2> QED
      BY <1>b, <1>c, <1>f, <2>1, OnceKeep
<1>8. CASE KillWorker
  <2>1. /\ flight' = [f \in Flights |-> Idle]
        /\ req' = [t \in Handlers |-> [req[t] EXCEPT !.flight = Nothing]]
        /\ UNCHANGED <<queue, captured>>
      BY <1>8 DEF KillWorker
  <2>2. /\ \A f \in Flights : Keys(flight'[f].batch) = {} /\ DistinctKeys(flight'[f].batch)
        /\ \A t \in Handlers : req'[t].rows = req[t].rows
      BY <1>b, <1>g, <2>1 DEF RequestSet
  <2>3. ASSUME NEW t \in Handlers PROVE Keys(req[t].rows) \cap Keys(queue) = {}
    <3>1. CASE req[t].flight = Nothing
        BY <1>f, <3>1
    <3>2. CASE req[t].flight # Nothing
      <4>1. req[t].flight \in Flights /\ Keys(req[t].rows) \subseteq Keys(flight[req[t].flight].batch)
          BY <1>b, <3>2 DEF RequestsOK, RequestSet
      <4>2. Keys(flight[req[t].flight].batch) \cap Keys(queue) = {}
          BY <1>d, <4>1
      <4> QED
          BY <4>1, <4>2
    <3> QED
        BY <3>1, <3>2
  <2>4. DistinctKeys(queue') /\ Keys(queue') \subseteq captured'
      BY <1>c, <2>1
  <2>5. \A f \in Flights :
          /\ DistinctKeys(flight'[f].batch) /\ Keys(flight'[f].batch) \subseteq captured'
          /\ Keys(flight'[f].batch) \cap Keys(queue') = {}
      BY <2>2
  <2>6. \A f, g \in Flights : f # g => Keys(flight'[f].batch) \cap Keys(flight'[g].batch) = {}
      BY <2>2
  <2>7. \A t \in Handlers :
          /\ DistinctKeys(req'[t].rows) /\ Keys(req'[t].rows) \subseteq captured'
          /\ Keys(req'[t].rows) \cap Keys(queue') = {}
          /\ \A f \in Flights : Keys(req'[t].rows) \cap Keys(flight'[f].batch) = {}
      BY <1>f, <2>1, <2>2, <2>3
  <2>8. Keys(ledger') \cap BrowserKeys \subseteq captured' \ AppsOff
      BY <1>b, <1>c, <2>1
  <2> QED
      BY <2>4, <2>5, <2>6, <2>7, <2>8 DEF OnceOK, Keys, DistinctKeys
<1> QED
    BY <1>1, <1>2, <1>4, <1>5, <1>6, <1>7, <1>8

\* Every step.
LEMMA OnceStep == ShieldInv /\ RequestsOK /\ OnceOK /\ [Next]_vars => OnceOK'
<1> SUFFICES ASSUME ShieldInv, RequestsOK, OnceOK, [Next]_vars PROVE OnceOK'
    OBVIOUS
<1>1. CASE (ShieldStep /\ UNCHANGED browser) \/ ShieldCrash
    BY <1>1, OnceShieldStep
<1>2. CASE \/ \E t \in Handlers : IngestRow(t) \/ IngestPoll(t) \/ Answer(t)
           \/ \E r \in OtherRows : OtherAppend(r)
           \/ \E f \in Flights, t \in Handlers : Post(f, t)
    BY <1>2, OnceEndpointStep
<1>3. CASE \/ \E r \in BrowserRows : Capture(r)
           \/ \E f \in Flights : Flush(f) \/ Refused(f) \/ LoseAnswer(f) \/ NoteWitness(f)
           \/ Withdraw \/ AcceptRecord \/ KillWorker
  <2>1. UNCHANGED fvars
      BY <1>3 DEF Capture, Flush, Refused, LoseAnswer, NoteWitness, Withdraw, AcceptRecord, KillWorker
  <2> QED
      BY <1>3, <2>1, OnceWorkerStep
<1>4. CASE UNCHANGED vars
  <2>1. UNCHANGED <<queue, flight, req, captured, ledger>>
      BY <1>4 DEF vars, fvars, feed, browser
  <2> QED
      BY <2>1 DEF OnceOK, Keys, DistinctKeys
<1> QED
    BY <1>1, <1>2, <1>3, <1>4 DEF Next

-----------------------------------------------------------------------------
(* Absorbed is sealed, and behind the offset nothing is forgotten.         *)

\* A message row is sealed in the step that absorbs it.
LEMMA SeenStep == ShieldInv /\ SeenOK /\ [Next]_vars => SeenOK'
<1> SUFFICES ASSUME ShieldInv, SeenOK, [Next]_vars PROVE SeenOK'
    OBVIOUS
<1>0. ASSUME UNCHANGED <<seen, leaves>> PROVE SeenOK'
    BY <1>0 DEF SeenOK, SealedKeys
<1>1. CASE Start
  <2>1. DOMAIN seen = {} /\ seen' = seen
      BY <1>1 DEF Start, ShieldInv, DownOK
  <2> QED
      BY <2>1 DEF SeenOK
<1>2. CASE ShieldCrash
  <2>1. seen' = EmptyBag
      BY <1>2 DEF ShieldCrash, Crash
  <2> QED
      BY <2>1, EmptyBagIs DEF SeenOK
<1>3. ASSUME NEW t \in Threads, AbsorbRow(t) PROVE SeenOK'
  <2>1. SealedKeys \subseteq SealedKeys'
      BY <1>3, AbsorbRowIs
  <2>2. PICK r \in FiledRows : /\ DOMAIN seen' = DOMAIN seen \cup {r.key}
                               /\ r.kind = "send" => r.key \in SealedKeys'
      BY <1>3, AbsorbRowIs
  <2>3. ASSUME NEW q \in BrowserRows, q.kind = "send", q.key \in DOMAIN seen' PROVE q.key \in SealedKeys'
    <3>1. CASE q.key \in DOMAIN seen
        BY <2>1, <2>3, <3>1 DEF SeenOK
    <3>2. CASE q.key = r.key
      <4>1. r.kind = "send"
          BY <2>3, <3>2 DEF FiledRows
      <4> QED
          BY <2>2, <3>2, <4>1
    <3> QED
        BY <2>2, <2>3, <3>1, <3>2
  <2>4. \A q \in BrowserRows : q.kind = "send" /\ q.key \in DOMAIN seen' => q.key \in SealedKeys'
      BY <2>3
  <2> QED
      BY <2>4 DEF SeenOK
<1>4. CASE ScanBegin \/ ScanRead \/ ScanOffset \/ WatcherPoll \/ ScrubLedger
  <2>1. UNCHANGED <<seen, leaves>>
      BY <1>4 DEF ScanBegin, ScanRead, ScanOffset, WatcherPoll, PollTake, ScrubLedger, chain
  <2> QED
      BY <1>0, <2>1
<1>5. CASE (\E t \in Threads : FinishPoll(t)) \/ (\E t \in Handlers : Resync(t))
           \/ ((Sign \/ VerifyChain) /\ UNCHANGED <<feed, crashes, scrubs>>)
  <2>1. UNCHANGED <<seen, leaves>>
      BY <1>5 DEF FinishPoll, EndBatch, Resync, Sign, VerifyChain, feed, chain
  <2> QED
      BY <1>0, <2>1
<1>6. CASE \/ \E t \in Handlers : IngestRow(t) \/ IngestPoll(t) \/ Answer(t)
           \/ \E r \in OtherRows : OtherAppend(r)
           \/ \E f \in Flights, t \in Handlers : Post(f, t)
  <2>1. UNCHANGED <<seen, leaves>>
      BY <1>6 DEF IngestRow, IngestPoll, PollTake, Answer, OtherAppend, ProxyAppend, Post, chain
  <2> QED
      BY <1>0, <2>1
<1>7. CASE \/ \E r \in BrowserRows : Capture(r)
           \/ \E f \in Flights : Flush(f) \/ Refused(f) \/ LoseAnswer(f) \/ NoteWitness(f)
           \/ Withdraw \/ AcceptRecord \/ KillWorker \/ UNCHANGED vars
  <2>1. UNCHANGED fvars
      BY <1>7 DEF Capture, Flush, Refused, LoseAnswer, NoteWitness, Withdraw, AcceptRecord,
                  KillWorker, vars
  <2> QED
      BY <1>0, <2>1 DEF fvars, feed, chain
<1> QED
    BY <1>1, <1>2, <1>3, <1>4, <1>5, <1>6, <1>7 DEF Next, ShieldStep

\* The lines threads hold, and the rows a poll skips.
LEMMA HeldIs ==
    ASSUME NEW w, NEW k
    PROVE  k \in Held(w) <=> \E s \in Threads : k \in Keys(w[s])
BY DEF Held

LEMMA SkippedIs ==
    ASSUME ledger \in Seq(FiledRows), NEW w
    PROVE  \A k : k \in Skipped(Len(ledger), w)
                    <=> /\ k \in KeysUpTo(ledger, Len(ledger))
                        /\ k \notin DOMAIN seen /\ k \notin Held(w)
<1> DEFINE part == SubSeq(ledger, 1, Len(ledger))
           inHand == {r.key : r \in UNION {Range(w[t]) : t \in Threads}}
<1>1. Skipped(Len(ledger), w) = Keys(part) \ (DOMAIN seen \cup inHand)
    BY DEF Skipped, Keys
<1>2. Keys(part) = KeysUpTo(ledger, Len(ledger))
    BY KeysSub DEF KeysUpTo
<1>3. ASSUME NEW k PROVE k \in inHand <=> k \in Held(w)
  <2>1. k \in inHand <=> \E t \in Threads : k \in Keys(w[t])
      BY DEF Keys
  <2> HIDE DEF inHand
  <2> QED
      BY <2>1, HeldIs
<1> HIDE DEF part, inHand
<1> QED
    BY <1>1, <1>2, <1>3

\* The offset stays, and no row that is known is forgotten.
LEMMA OffsetKeep ==
    ASSUME FeedType, OffsetOK, UNCHANGED <<offset, lines>>, ledger' \in Seq(FiledRows),
           Len(ledger) <= Len(ledger'), \A i \in 1..Len(ledger) : ledger'[i] = ledger[i],
           \A k \in DOMAIN seen \cup passed \cup Held(work) : k \in DOMAIN seen' \cup passed' \cup Held(work'),
           Scrubbing => Scrubbing',
           pc'[Main] \in {"absorb", "endBatch", "scanOffset"} =>
               pc[Main] \in {"absorb", "endBatch", "scanOffset"}
    PROVE  OffsetOK'
<1>a. Len(ledger) \in Nat /\ Len(ledger') \in Nat /\ offset \in Nat /\ lines \in Nat
    BY LenProperties DEF FeedType
<1>1. ASSUME NEW n \in Nat, n <= Len(ledger), KeysUpTo(ledger, n) \subseteq DOMAIN seen \cup passed \cup Held(work)
      PROVE  n <= Len(ledger') /\ KeysUpTo(ledger', n) \subseteq DOMAIN seen' \cup passed' \cup Held(work')
  <2>1. n <= Len(ledger')
      BY <1>a, <1>1
  <2>2. ASSUME NEW i \in 1..n PROVE ledger'[i].key \in DOMAIN seen' \cup passed' \cup Held(work')
    <3>1. i \in 1..Len(ledger) /\ ledger'[i] = ledger[i]
        BY <1>a, <1>1
    <3>2. ledger[i].key \in DOMAIN seen \cup passed \cup Held(work)
        BY <1>1 DEF KeysUpTo
    <3> QED
        BY <3>1, <3>2
  <2> QED
      BY <2>1, <2>2 DEF KeysUpTo
<1>2. ASSUME ~Scrubbing'
      PROVE  /\ offset' <= Len(ledger')
             /\ KeysUpTo(ledger', offset') \subseteq DOMAIN seen' \cup passed' \cup Held(work')
  <2>1. offset <= Len(ledger) /\ KeysUpTo(ledger, offset) \subseteq DOMAIN seen \cup passed \cup Held(work)
      BY <1>2 DEF OffsetOK
  <2> QED
      BY <1>a, <1>1, <2>1
<1>3. ASSUME pc'[Main] \in {"absorb", "endBatch", "scanOffset"}
      PROVE  /\ lines' <= Len(ledger')
             /\ KeysUpTo(ledger', lines') \subseteq DOMAIN seen' \cup passed' \cup Held(work')
  <2>1. lines <= Len(ledger) /\ KeysUpTo(ledger, lines) \subseteq DOMAIN seen \cup passed \cup Held(work)
      BY <1>3 DEF OffsetOK
  <2> QED
      BY <1>a, <1>1, <2>1
<1> QED
    BY <1>2, <1>3 DEF OffsetOK, KeysUpTo, Held, Keys

\* A poll takes what is behind the offset.
LEMMA OffsetPollStep ==
    ASSUME ShieldInv, ThreadsOK, OffsetOK, NEW t \in {Watcher} \cup Handlers,
           NEW from \in {"idle", "poll"}, PollTake(t, from)
    PROVE  OffsetOK'
<1>a. /\ Main \in Threads /\ Watcher \in Threads /\ Handlers \subseteq Threads
      /\ Main \notin Handlers /\ Main # Watcher /\ t \in Threads /\ t # Main
    BY FeedAssumption DEF Threads
<1>b. /\ FeedType /\ ledger \in Seq(FiledRows) /\ Len(ledger) \in Nat /\ offset \in Nat /\ lines \in Nat
      /\ pc \in [Threads -> Places] /\ work \in [Threads -> Seq(FiledRows)]
    BY LenProperties DEF ShieldInv, FeedType
<1>1. pc[t] = from /\ UNCHANGED <<ledger, lines, seen, scanned>>
    BY <1>a, <1>b, PollTakeIs
<1>2. PICK new \in Seq(FiledRows) :
                /\ work' = [work EXCEPT ![t] = new]
                /\ new = <<>> <=> ~(scanned /\ offset < Len(ledger))
                /\ Keys(new) = IF scanned /\ offset < Len(ledger)
                               THEN {ledger[i].key : i \in (offset + 1)..Len(ledger)} ELSE {}
                /\ offset' = IF scanned THEN Len(ledger) ELSE offset
                /\ pollLock' = IF new = <<>> THEN Nothing ELSE t
                /\ pc' = [pc EXCEPT ![t] = IF new # <<>> THEN "absorb"
                                            ELSE IF t \in Handlers THEN "reply" ELSE "idle"]
                /\ passed' = IF Scrubbing THEN passed \cup Skipped(offset', work') ELSE passed
    BY <1>a, <1>b, PollTakeIs
<1>3. /\ work[t] = <<>> /\ Keys(work[t]) = {}
      /\ work'[t] = new /\ \A s \in Threads : s # t => work'[s] = work[s]
    BY <1>a, <1>b, <1>1, <1>2, KeysEmpty DEF ThreadsOK
<1>4. ASSUME NEW k \in DOMAIN seen \cup passed \cup Held(work)
      PROVE  k \in DOMAIN seen' \cup passed' \cup Held(work')
  <2>1. passed \subseteq passed' /\ seen' = seen
      BY <1>1, <1>2
  <2>2. CASE k \in Held(work)
    <3>1. PICK s \in Threads : k \in Keys(work[s])
        BY <2>2, HeldIs
    <3>2. s # t /\ work'[s] = work[s]
        BY <1>3, <3>1
    <3>3. k \in Held(work')
        BY <3>1, <3>2, HeldIs
    <3> QED
        BY <3>3
  <2> QED
      BY <1>4, <2>1, <2>2
<1>5. /\ Scrubbing' <=> Scrubbing
      /\ pc'[Main] = pc[Main]
    BY <1>a, <1>b, <1>1, <1>2 DEF Scrubbing
<1>6. CASE ~scanned
  <2>1. offset' = offset
      BY <1>2, <1>6
  <2> QED
      BY <1>b, <1>1, <1>4, <1>5, <2>1, OffsetKeep
<1>7. CASE scanned
  <2>1. offset' = Len(ledger)
      BY <1>2, <1>7
  <2>2. ASSUME ~Scrubbing, NEW i \in 1..Len(ledger)
        PROVE  ledger[i].key \in DOMAIN seen' \cup passed' \cup Held(work')
    <3>1. /\ offset <= Len(ledger)
          /\ KeysUpTo(ledger, offset) \subseteq DOMAIN seen \cup passed \cup Held(work)
        BY <2>2 DEF OffsetOK
    <3>2. CASE i <= offset
      <4>1. ledger[i].key \in DOMAIN seen \cup passed \cup Held(work)
          BY <1>b, <3>1, <3>2 DEF KeysUpTo
      <4> QED
          BY <1>4, <4>1
    <3>3. CASE i > offset
      <4>1. offset < Len(ledger) /\ i \in (offset + 1)..Len(ledger)
          BY <1>b, <3>3
      <4>2. ledger[i].key \in Keys(new)
          BY <1>2, <1>7, <4>1
      <4>3. ledger[i].key \in Held(work')
          BY <1>a, <1>3, <4>2, HeldIs
      <4> QED
          BY <4>3
    <3> QED
        BY <1>b, <3>2, <3>3
  <2>3. ~Scrubbing' => /\ offset' <= Len(ledger')
                       /\ KeysUpTo(ledger', offset') \subseteq DOMAIN seen' \cup passed' \cup Held(work')
    <3> SUFFICES ASSUME ~Scrubbing
                 PROVE  /\ offset' <= Len(ledger')
                        /\ KeysUpTo(ledger', offset') \subseteq DOMAIN seen' \cup passed' \cup Held(work')
        BY <1>5
    <3>1. offset' <= Len(ledger') /\ ledger' = ledger
        BY <1>1, <1>b, <2>1
    <3> QED
        BY <2>1, <2>2, <3>1 DEF KeysUpTo
  <2>4. ASSUME pc'[Main] \in {"absorb", "endBatch", "scanOffset"}
        PROVE  /\ lines' <= Len(ledger')
               /\ KeysUpTo(ledger', lines') \subseteq DOMAIN seen' \cup passed' \cup Held(work')
    <3>1. lines <= Len(ledger) /\ KeysUpTo(ledger, lines) \subseteq DOMAIN seen \cup passed \cup Held(work)
        BY <1>5, <2>4 DEF OffsetOK
    <3>2. lines' = lines /\ ledger' = ledger
        BY <1>1
    <3> QED
        BY <1>4, <3>1, <3>2
  <2> QED
      BY <2>3, <2>4 DEF OffsetOK, KeysUpTo, Held, Keys
<1> QED
    BY <1>6, <1>7

\* Shield's own threads.
LEMMA OffsetShieldStep ==
    ASSUME ShieldInv, ThreadsOK, OffsetOK, ShieldStep
    PROVE  OffsetOK'
<1>a. /\ Main \in Threads /\ Watcher \in Threads /\ Handlers \subseteq Threads
      /\ Main \notin Handlers /\ Watcher \notin Handlers /\ Main # Watcher
    BY FeedAssumption DEF Threads
<1>b. /\ FeedType /\ pc \in [Threads -> Places] /\ work \in [Threads -> Seq(FiledRows)]
      /\ ledger \in Seq(FiledRows) /\ Len(ledger) \in Nat /\ offset \in Nat /\ lines \in Nat
    BY LenProperties DEF ShieldInv, FeedType
<1>1. CASE Start
  <2>1. /\ pc' = [t \in Threads |-> IF t = Main THEN "scan" ELSE "idle"] /\ offset' = 0
        /\ ledger' \in Seq(FiledRows)
    <3>1. /\ pc' = [t \in Threads |-> IF t = Main THEN "scan" ELSE "idle"]
          /\ offset' = offset /\ ledger' = Retained(ledger) /\ ~up
        BY <1>1 DEF Start
    <3> QED
        BY <1>b, <3>1, RetainedIs DEF ShieldInv, DownOK
  <2>2. KeysUpTo(ledger', 0) = {} /\ Len(ledger') \in Nat
      BY <2>1, LenProperties DEF KeysUpTo
  <2>3. pc'[Main] = "scan"
      BY <1>a, <2>1
  <2> QED
      BY <2>1, <2>2, <2>3 DEF OffsetOK, KeysUpTo
<1>2. CASE ScanBegin
  <2>1. /\ pc[Main] = "scan" /\ pc' = [pc EXCEPT ![Main] = "scanRead"]
        /\ UNCHANGED <<ledger, lines, work, offset, seen, passed>>
      BY <1>2 DEF ScanBegin, At
  <2>2. Scrubbing => Scrubbing'
      BY <1>a, <1>b, <2>1 DEF Scrubbing
  <2>3. pc'[Main] = "scanRead"
      BY <1>a, <1>b, <2>1
  <2> QED
      BY <1>b, <2>1, <2>2, <2>3, OffsetKeep
<1>3. CASE ScanRead
  <2>1. /\ pc[Main] = "scanRead" /\ work' = [work EXCEPT ![Main] = ledger] /\ lines' = Len(ledger)
        /\ pc' = [pc EXCEPT ![Main] = IF ledger = <<>> THEN "scanOffset" ELSE "absorb"]
        /\ UNCHANGED <<ledger, offset, seen, passed>>
      BY <1>3 DEF ScanRead, At
  <2>2. /\ Keys(work[Main]) = {} /\ work'[Main] = ledger
        /\ \A s \in Threads : s # Main => work'[s] = work[s]
      BY <1>a, <1>b, <2>1, KeysEmpty DEF ThreadsOK
  <2>3. ASSUME NEW k \in Held(work) PROVE k \in Held(work')
    <3>1. PICK s \in Threads : k \in Keys(work[s])
        BY HeldIs
    <3> QED
        BY <2>2, <3>1, HeldIs
  <2>4. ASSUME NEW i \in 1..Len(ledger) PROVE ledger[i].key \in Held(work')
    <3>1. ledger[i].key \in Keys(ledger)
        BY <1>b, LenProperties, KeysAt
    <3> QED
        BY <1>a, <2>2, <3>1, HeldIs
  <2>5. Scrubbing' <=> Scrubbing
      BY <1>a, <1>b, <2>1 DEF Scrubbing
  <2>6. ~Scrubbing' => /\ offset' <= Len(ledger')
                       /\ KeysUpTo(ledger', offset') \subseteq DOMAIN seen' \cup passed' \cup Held(work')
    <3> SUFFICES ASSUME ~Scrubbing
                 PROVE  /\ offset <= Len(ledger)
                        /\ KeysUpTo(ledger, offset) \subseteq DOMAIN seen \cup passed \cup Held(work')
        BY <2>1, <2>5
    <3>1. /\ offset <= Len(ledger)
          /\ KeysUpTo(ledger, offset) \subseteq DOMAIN seen \cup passed \cup Held(work)
        BY DEF OffsetOK
    <3> QED
        BY <2>3, <3>1
  <2>7. /\ lines' <= Len(ledger')
        /\ KeysUpTo(ledger', lines') \subseteq DOMAIN seen' \cup passed' \cup Held(work')
    <3>1. KeysUpTo(ledger, Len(ledger)) \subseteq Held(work')
        BY <2>4 DEF KeysUpTo
    <3>2. lines' = Len(ledger) /\ ledger' = ledger
        BY <2>1
    <3>3. lines' <= Len(ledger')
        BY <1>b, <3>2
    <3>4. KeysUpTo(ledger', lines') = KeysUpTo(ledger, Len(ledger))
        BY <3>2
    <3> QED
        BY <3>1, <3>3, <3>4
  <2> QED
      BY <2>6, <2>7 DEF OffsetOK, KeysUpTo, Held, Keys
<1>4. CASE ScanOffset
  <2>1. /\ pc[Main] = "scanOffset" /\ pc' = [pc EXCEPT ![Main] = "serving"] /\ offset' = lines
        /\ UNCHANGED <<ledger, work, seen, passed>>
      BY <1>4 DEF ScanOffset, At
  <2>2. lines <= Len(ledger) /\ KeysUpTo(ledger, lines) \subseteq DOMAIN seen \cup passed \cup Held(work)
      BY <2>1 DEF OffsetOK
  <2>3. pc'[Main] = "serving"
      BY <1>a, <1>b, <2>1
  <2>4. /\ offset' <= Len(ledger')
        /\ KeysUpTo(ledger', offset') \subseteq DOMAIN seen' \cup passed' \cup Held(work')
      BY <2>1, <2>2
  <2> QED
      BY <2>3, <2>4 DEF OffsetOK, KeysUpTo, Held, Keys
<1>5. CASE WatcherPoll
    BY <1>5, OffsetPollStep DEF WatcherPoll
<1>6. CASE ScrubLedger
  <2>1. PICK t \in Handlers : pc' = [pc EXCEPT ![t] = "resync"]
      BY <1>6 DEF ScrubLedger, At
  <2>2. pc[Main] = "serving"
      BY <1>6 DEF ScrubLedger
  <2>3. Scrubbing' /\ pc'[Main] = "serving"
      BY <1>a, <1>b, <2>1, <2>2 DEF Scrubbing
  <2> QED
      BY <2>3 DEF OffsetOK
<1>7. ASSUME NEW t \in Threads, AbsorbRow(t) PROVE OffsetOK'
  <2>1. pc[t] = "absorb" /\ UNCHANGED <<ledger, lines, offset, passed>>
      BY <1>7, AbsorbRowIs
  <2>2. PICK r \in FiledRows, rest \in Seq(FiledRows) :
                /\ Keys(work[t]) = {r.key} \cup Keys(rest)
                /\ work' = [work EXCEPT ![t] = rest]
                /\ DOMAIN seen' = DOMAIN seen \cup {r.key}
                /\ pc' = [pc EXCEPT ![t] = IF rest = <<>> THEN "endBatch" ELSE "absorb"]
      BY <1>7, AbsorbRowIs
  <2>3. /\ work'[t] = rest /\ \A s \in Threads : s # t => work'[s] = work[s]
      BY <1>b, <2>2
  <2>4. ASSUME NEW k \in DOMAIN seen \cup passed \cup Held(work)
        PROVE  k \in DOMAIN seen' \cup passed' \cup Held(work')
    <3>1. CASE k \in Held(work)
      <4>1. PICK s \in Threads : k \in Keys(work[s])
          BY <3>1, HeldIs
      <4>2. CASE k = r.key
          BY <2>2, <4>2
      <4>3. CASE k # r.key
        <5>1. k \in Keys(work'[s])
            BY <2>2, <2>3, <4>1, <4>3
        <5>2. k \in Held(work')
            BY <5>1, HeldIs
        <5> QED
            BY <5>2
      <4> QED
          BY <4>2, <4>3
    <3> QED
        BY <2>1, <2>2, <2>4, <3>1
  <2>5. Scrubbing => Scrubbing'
      BY <1>a, <1>b, <2>1, <2>2 DEF Scrubbing
  <2>6. pc'[Main] \in {"absorb", "endBatch", "scanOffset"} => pc[Main] \in {"absorb", "endBatch", "scanOffset"}
      BY <1>a, <1>b, <2>1, <2>2
  <2> QED
      BY <1>b, <2>1, <2>4, <2>5, <2>6, OffsetKeep
<1>8. ASSUME NEW t \in Threads, FinishPoll(t) PROVE OffsetOK'
  <2>1. /\ pc[t] = "endBatch"
        /\ pc' = [pc EXCEPT ![t] = IF t \in Handlers THEN "reply" ELSE IF t = Main THEN "scanOffset" ELSE "idle"]
        /\ UNCHANGED <<ledger, lines, work, offset, seen, passed>>
      BY <1>8 DEF FinishPoll, At
  <2>2. Scrubbing => Scrubbing'
      BY <1>a, <1>b, <2>1 DEF Scrubbing
  <2>3. pc'[Main] \in {"absorb", "endBatch", "scanOffset"} => pc[Main] \in {"absorb", "endBatch", "scanOffset"}
      BY <1>a, <1>b, <2>1
  <2> QED
      BY <1>b, <2>1, <2>2, <2>3, OffsetKeep
<1>9. ASSUME NEW t \in Handlers, Resync(t) PROVE OffsetOK'
  <2>1. /\ pc[t] = "resync" /\ pc' = [pc EXCEPT ![t] = "idle"] /\ offset' = Len(ledger)
        /\ passed' = passed \cup Skipped(Len(ledger), work)
        /\ UNCHANGED <<ledger, work, seen>>
      BY <1>9 DEF Resync, At
  <2>2. pc'[Main] = "serving"
    <3>1. pc[Main] = "serving"
        BY <2>1 DEF ThreadsOK
    <3> QED
        BY <1>a, <1>b, <2>1, <3>1
  <2>3. KeysUpTo(ledger, Len(ledger)) \subseteq DOMAIN seen \cup passed' \cup Held(work)
      BY <1>b, <2>1, SkippedIs
  <2>4. /\ offset' <= Len(ledger')
        /\ KeysUpTo(ledger', offset') \subseteq DOMAIN seen' \cup passed' \cup Held(work')
      BY <1>b, <2>1, <2>3
  <2> QED
      BY <2>2, <2>4 DEF OffsetOK, KeysUpTo, Held, Keys
<1>10. CASE UNCHANGED feed
  <2>1. UNCHANGED <<ledger, lines, pc, work, offset, seen, passed>>
      BY <1>10 DEF feed
  <2> QED
      BY <2>1 DEF OffsetOK, KeysUpTo, Held, Keys, Scrubbing
<1> QED
    BY <1>1, <1>2, <1>3, <1>4, <1>5, <1>6, <1>7, <1>8, <1>9, <1>10 DEF ShieldStep

\* Every step.
LEMMA OffsetStep == ShieldInv /\ ThreadsOK /\ OffsetOK /\ [Next]_vars => OffsetOK'
<1> SUFFICES ASSUME ShieldInv, ThreadsOK, OffsetOK, [Next]_vars PROVE OffsetOK'
    OBVIOUS
<1>a. /\ Main \in Threads /\ Watcher \in Threads /\ Handlers \subseteq Threads
      /\ Main \notin Handlers
    BY FeedAssumption DEF Threads
<1>b. /\ FeedType /\ pc \in [Threads -> Places] /\ ledger \in Seq(FiledRows) /\ Len(ledger) \in Nat
    BY LenProperties DEF ShieldInv, FeedType
<1>1. CASE ShieldStep
    BY <1>1, OffsetShieldStep
<1>2. CASE ShieldCrash
  <2>1. pc' = [t \in Threads |-> "idle"] /\ offset' = 0 /\ ledger' = ledger
      BY <1>2 DEF ShieldCrash, Crash
  <2>2. pc'[Main] = "idle" /\ KeysUpTo(ledger', 0) = {}
      BY <1>a, <2>1 DEF KeysUpTo
  <2> QED
      BY <1>b, <2>1, <2>2 DEF OffsetOK, KeysUpTo
<1>3. ASSUME NEW r \in FiledRows, ledger' = Append(ledger, r) \/ ledger' = ledger,
             UNCHANGED <<lines, work, offset, seen, passed>>, Scrubbing => Scrubbing', pc'[Main] = pc[Main]
      PROVE  OffsetOK'
  <2>1. ledger' \in Seq(FiledRows)
      BY <1>b, <1>3, KeysAppend
  <2>2. Len(ledger) <= Len(ledger') /\ \A i \in 1..Len(ledger) : ledger'[i] = ledger[i]
      BY <1>b, <1>3, AppendProperties
  <2> QED
      BY <1>b, <1>3, <2>1, <2>2, OffsetKeep
<1>4. ASSUME NEW t \in Handlers, IngestRow(t) PROVE OffsetOK'
  <2>1. pc[t] = "ingest" /\ UNCHANGED <<lines, work, offset, seen, passed>>
      BY <1>4, IngestIs
  <2>2. \E r \in BrowserRows : ledger' = Append(ledger, r) \/ ledger' = ledger
      BY <1>4, IngestIs
  <2>3. \E here : pc' = [pc EXCEPT ![t] = here]
      BY <1>4, IngestIs
  <2>4. (Scrubbing => Scrubbing') /\ pc'[Main] = pc[Main]
      BY <1>a, <1>b, <2>1, <2>3 DEF Scrubbing
  <2>5. \E r \in FiledRows : ledger' = Append(ledger, r) \/ ledger' = ledger
      BY <2>2, RowsAreFiled
  <2> QED
      BY <1>3, <2>1, <2>4, <2>5
<1>5. ASSUME NEW t \in Handlers, IngestPoll(t) PROVE OffsetOK'
    BY <1>5, OffsetPollStep DEF IngestPoll
<1>6. ASSUME NEW r \in OtherRows, OtherAppend(r) PROVE OffsetOK'
  <2>1. ledger' = Append(ledger, r) /\ UNCHANGED <<pc, lines, work, offset, seen, passed>>
      BY <1>6 DEF OtherAppend, ProxyAppend, AppendRow
  <2>2. r \in FiledRows /\ (Scrubbing => Scrubbing')
      BY <2>1, RowsAreFiled DEF Scrubbing
  <2> QED
      BY <1>3, <2>1, <2>2
<1>7. ASSUME NEW t \in Handlers,
             \/ Answer(t)
             \/ \E f \in Flights : Post(f, t)
      PROVE  OffsetOK'
  <2>1. pc[t] \in {"reply", "idle"} /\ UNCHANGED <<ledger, lines, work, offset, seen, passed>>
      BY <1>7 DEF Answer, Post, At
  <2>2. \E here : pc' = [pc EXCEPT ![t] = here]
      BY <1>7 DEF Answer, Post, At
  <2>3. (Scrubbing => Scrubbing') /\ pc'[Main] = pc[Main]
      BY <1>a, <1>b, <2>1, <2>2 DEF Scrubbing
  <2> QED
      BY <1>b, <2>1, <2>3, OffsetKeep
<1>8. CASE \/ \E r \in BrowserRows : Capture(r)
           \/ \E f \in Flights : Flush(f) \/ Refused(f) \/ LoseAnswer(f) \/ NoteWitness(f)
           \/ Withdraw \/ AcceptRecord \/ KillWorker \/ UNCHANGED vars
  <2>1. UNCHANGED fvars
      BY <1>8 DEF Capture, Flush, Refused, LoseAnswer, NoteWitness, Withdraw, AcceptRecord,
                  KillWorker, vars
  <2>2. UNCHANGED <<ledger, lines, pc, work, offset, seen, passed>>
      BY <2>1 DEF fvars, feed
  <2> QED
      BY <2>2 DEF OffsetOK, KeysUpTo, Held, Keys, Scrubbing
<1> QED
    BY <1>1, <1>2, <1>4, <1>5, <1>6, <1>7, <1>8 DEF Next

-----------------------------------------------------------------------------
(* What was filed and not absorbed is with the handler that filed it.      *)

\* The two definitions in the next state.
LEMMA WillNext ==
    ASSUME NEW s, NEW k
    PROVE  WillAbsorb(s, k)' <=> /\ k \notin Keys(req'[s].rows)
                                 /\ \/ pc'[s] = "ingest" /\ req'[s].accepted
                                    \/ pc'[s] = "poll"
                                    \/ pc'[s] = "absorb" /\ k \in Keys(work'[s])
BY DEF WillAbsorb, Keys

\* The same for the rows that are pending.
LEMMA PendingNext ==
    ASSUME NEW k
    PROVE  k \in Pending' <=> /\ k \in dedupe' /\ k \in Keys(ledger')
                              /\ k \notin DOMAIN seen' /\ k \notin passed'
BY DEF Pending, Keys

\* A handler that stays where it is still absorbs what it was going to.
LEMMA WillSame ==
    ASSUME NEW s, NEW k, req'[s] = req[s], pc'[s] = pc[s], work'[s] = work[s]
    PROVE  WillAbsorb(s, k)' <=> WillAbsorb(s, k)
BY WillNext DEF WillAbsorb

\* No row becomes pending, none comes back to the worker, and the handlers that
\* a flush still waits for go on.
LEMMA PendingKeep ==
    ASSUME PendingOK,
           \A k \in Pending' :
              /\ k \in Pending
              /\ k \in Keys(queue') => k \in Keys(queue)
              /\ \A f \in Flights : k \in Keys(flight'[f].batch) =>
                    /\ k \in Keys(flight[f].batch)
                    /\ \A t \in Handlers : req[t].flight = f /\ WillAbsorb(t, k)
                                            => req'[t].flight = f /\ WillAbsorb(t, k)'
    PROVE  PendingOK'
<1>1. ASSUME NEW k \in Pending'
      PROVE  /\ k \notin Keys(queue')
             /\ \A f \in Flights : k \in Keys(flight'[f].batch) =>
                   \E t \in Handlers : req'[t].flight = f /\ WillAbsorb(t, k)'
  <2>1. k \in Pending /\ k \notin Keys(queue')
      BY <1>1 DEF PendingOK
  <2>2. ASSUME NEW f \in Flights, k \in Keys(flight'[f].batch)
        PROVE  \E t \in Handlers : req'[t].flight = f /\ WillAbsorb(t, k)'
    <3>1. k \in Keys(flight[f].batch)
        BY <1>1, <2>2
    <3>2. PICK t \in Handlers : req[t].flight = f /\ WillAbsorb(t, k)
        BY <2>1, <3>1 DEF PendingOK
    <3>3. req'[t].flight = f /\ WillAbsorb(t, k)'
        BY <1>1, <2>2, <3>2
    <3> QED
        BY <3>3
  <2> QED
      BY <2>1, <2>2
<1> QED
    BY <1>1 DEF PendingOK, Keys

\* The worker's own steps.
LEMMA PendingWorkerStep ==
    ASSUME RowsInv, OnceOK, PendingOK, UNCHANGED fvars,
           \/ \E r \in BrowserRows : Capture(r)
           \/ \E f \in Flights : Flush(f) \/ Refused(f) \/ LoseAnswer(f) \/ NoteWitness(f)
           \/ Withdraw \/ AcceptRecord \/ KillWorker
    PROVE  PendingOK'
<1>b. /\ queue \in Seq(BrowserRows) /\ flight \in [Flights -> FlightSet] /\ BrowserType
      /\ req \in [Handlers -> RequestSet] /\ dedupe \subseteq BrowserKeys /\ Nothing \notin Flights
    BY BrowserAssumption DEF RowsInv, ShieldInv, BrowserType
<1>c. UNCHANGED <<dedupe, ledger, seen, passed, pc, work>>
  <2>1. UNCHANGED dedupe
      BY DEF Capture, Flush, Refused, LoseAnswer, NoteWitness, Withdraw, AcceptRecord, KillWorker
  <2> QED
      BY <2>1 DEF fvars, feed
<1>d. Keys(<<>>) = {} /\ Idle.batch = <<>>
    BY KeysEmpty DEF Idle
<1>e. \A k \in Pending' : k \in Pending /\ k \in captured /\ k \notin Keys(queue)
  <2>1. \A k \in Pending' : k \in Pending /\ k \in dedupe /\ k \in Keys(ledger)
      BY <1>c, PendingNext DEF Pending
  <2>2. Keys(ledger) \cap BrowserKeys \subseteq captured
      BY DEF OnceOK
  <2> QED
      BY <1>b, <2>1, <2>2 DEF PendingOK
<1>f. ASSUME req' = req,
             \A k \in Pending' : k \notin Keys(queue')
                /\ \A f \in Flights : k \in Keys(flight'[f].batch) => k \in Keys(flight[f].batch)
      PROVE  PendingOK'
  <2>1. \A t, k : WillAbsorb(t, k)' <=> WillAbsorb(t, k)
      BY <1>c, <1>f, WillSame
  <2> QED
      BY <1>e, <1>f, <2>1, PendingKeep
<1>1. ASSUME NEW r \in BrowserRows, Capture(r) PROVE PendingOK'
  <2>1. /\ r.key \notin captured /\ queue' = Capped(Append(queue, r)) /\ UNCHANGED <<flight, req>>
      BY <1>1 DEF Capture
  <2>2. /\ Append(queue, r) \in Seq(BrowserRows)
        /\ Keys(Append(queue, r)) = Keys(queue) \cup {r.key}
      BY <1>b, KeysAppend
  <2>3. Keys(queue') \subseteq Keys(queue) \cup {r.key}
      BY <2>1, <2>2, CappedIs
  <2> QED
      BY <1>e, <1>f, <2>1, <2>3
<1>2. ASSUME NEW f \in Flights, Flush(f) PROVE PendingOK'
  <2>1. /\ flight' = [flight EXCEPT ![f] = [stage |-> "check", batch |-> queue, total |-> 0]]
        /\ queue' = <<>> /\ UNCHANGED req
      BY <1>2 DEF Flush
  <2>2. flight'[f].batch = queue /\ \A g \in Flights : g # f => flight'[g] = flight[g]
      BY <1>b, <2>1
  <2>3. \A k \in Pending' : k \notin Keys(queue')
                /\ \A g \in Flights : k \in Keys(flight'[g].batch) => k \in Keys(flight[g].batch)
      BY <1>d, <1>e, <2>1, <2>2
  <2> QED
      BY <1>f, <2>1, <2>3
<1>3. ASSUME NEW f \in Flights, Refused(f) \/ LoseAnswer(f) PROVE PendingOK'
  <2>1. PutsBack(f) /\ UNCHANGED req
      BY <1>3 DEF Refused, LoseAnswer
  <2>2. /\ flight' = [flight EXCEPT ![f] = Idle]
        /\ Keys(queue') \subseteq Keys(flight[f].batch) \cup Keys(queue)
      BY <1>b, <2>1, PutsBackTypes
  <2>3. ASSUME NEW t \in Handlers, req[t].flight = f PROVE FALSE
    <3>1. flight[f].stage = "posted"
        BY <1>b, <2>3 DEF RowsInv, RequestsOK
    <3> QED
        BY <1>3, <2>3, <3>1 DEF Refused, LoseAnswer
  <2>4. \A k \in Pending' : k \notin Keys(flight[f].batch)
      BY <1>e, <2>3 DEF PendingOK
  <2>5. flight'[f].batch = <<>> /\ \A g \in Flights : g # f => flight'[g] = flight[g]
      BY <1>b, <1>d, <2>2
  <2>6. \A k \in Pending' : k \notin Keys(queue')
                /\ \A g \in Flights : k \in Keys(flight'[g].batch) => k \in Keys(flight[g].batch)
      BY <1>d, <1>e, <2>2, <2>4, <2>5
  <2> QED
      BY <1>f, <2>1, <2>6
<1>4. ASSUME NEW f \in Flights, NoteWitness(f) PROVE PendingOK'
  <2>1. flight' = [flight EXCEPT ![f] = Idle] /\ UNCHANGED <<queue, req>>
      BY <1>4 DEF NoteWitness
  <2>2. flight'[f].batch = <<>> /\ \A g \in Flights : g # f => flight'[g] = flight[g]
      BY <1>b, <1>d, <2>1
  <2>3. \A k \in Pending' : k \notin Keys(queue')
                /\ \A g \in Flights : k \in Keys(flight'[g].batch) => k \in Keys(flight[g].batch)
      BY <1>d, <1>e, <2>1, <2>2
  <2> QED
      BY <1>f, <2>1, <2>3
<1>5. CASE Withdraw
  <2>1. queue' = <<>> /\ UNCHANGED <<flight, req>>
      BY <1>5 DEF Withdraw
  <2> QED
      BY <1>d, <1>f, <2>1
<1>6. CASE AcceptRecord
  <2>1. UNCHANGED <<queue, flight, req>>
      BY <1>6 DEF AcceptRecord
  <2> QED
      BY <1>e, <1>f, <2>1
<1>7. CASE KillWorker
  <2>1. flight' = [f \in Flights |-> Idle] /\ UNCHANGED queue
      BY <1>7 DEF KillWorker
  <2>2. \A f \in Flights : Keys(flight'[f].batch) = {}
      BY <1>d, <2>1
  <2> QED
      BY <1>e, <2>1, <2>2, PendingKeep
<1> QED
    BY <1>1, <1>2, <1>3, <1>4, <1>5, <1>6, <1>7

\* Shield's own threads.
LEMMA PendingShieldStep ==
    ASSUME ShieldInv, PendingOK, ShieldStep, UNCHANGED browser
    PROVE  PendingOK'
<1>a. /\ Main \in Threads /\ Watcher \in Threads /\ Handlers \subseteq Threads
      /\ Main \notin Handlers /\ Watcher \notin Handlers
    BY FeedAssumption DEF Threads
<1>b. /\ FeedType /\ pc \in [Threads -> Places] /\ work \in [Threads -> Seq(FiledRows)]
      /\ ledger \in Seq(FiledRows)
    BY DEF ShieldInv, FeedType
<1>c. UNCHANGED <<queue, flight, req, dedupe>>
    BY DEF browser
<1>d. ASSUME Keys(ledger') \subseteq Keys(ledger), DOMAIN seen \subseteq DOMAIN seen', passed \subseteq passed',
             \A t \in Handlers, k \in Pending' : WillAbsorb(t, k) => WillAbsorb(t, k)'
      PROVE  PendingOK'
  <2>1. \A k \in Pending' : k \in Pending
      BY <1>c, <1>d, PendingNext DEF Pending
  <2> QED
      BY <1>c, <1>d, <2>1, PendingKeep
<1>e. ASSUME NEW s \in Threads, s \in Handlers => pc[s] \notin {"ingest", "poll", "absorb"},
             \A t \in Threads : t # s => pc'[t] = pc[t] /\ work'[t] = work[t]
      PROVE  \A t \in Handlers, k \in Pending' : WillAbsorb(t, k) => WillAbsorb(t, k)'
  <2>1. ASSUME NEW t \in Handlers, NEW k, WillAbsorb(t, k) PROVE WillAbsorb(t, k)'
    <3>1. pc[t] \in {"ingest", "poll", "absorb"}
        BY <2>1 DEF WillAbsorb
    <3>2. pc'[t] = pc[t] /\ work'[t] = work[t] /\ req'[t] = req[t]
        BY <1>a, <1>c, <1>e, <3>1
    <3> QED
        BY <2>1, <3>2, WillSame
  <2> QED
      BY <2>1
<1>1. CASE Start
  <2>1. ledger' = Retained(ledger) /\ ~up /\ UNCHANGED <<seen, passed>>
      BY <1>1 DEF Start
  <2>2. Keys(ledger') \subseteq Keys(ledger)
      BY <1>b, <2>1, RetainedIs
  <2>3. \A t \in Handlers, k \in Pending' : ~WillAbsorb(t, k)
      BY <1>a, <2>1 DEF ShieldInv, DownOK, WillAbsorb
  <2> QED
      BY <1>d, <2>1, <2>2, <2>3
<1>2. CASE ScanBegin \/ ScanRead \/ ScanOffset
  <2>1. /\ UNCHANGED <<ledger, seen, passed>>
        /\ \E x \in Places : pc' = [pc EXCEPT ![Main] = x]
        /\ work' = work \/ \E w : work' = [work EXCEPT ![Main] = w]
      BY <1>2 DEF ScanBegin, ScanRead, ScanOffset, At, Places
  <2>2. \A t \in Threads : t # Main => pc'[t] = pc[t] /\ work'[t] = work[t]
      BY <1>b, <2>1
  <2> QED
      BY <1>a, <1>d, <1>e, <2>1, <2>2
<1>3. CASE WatcherPoll
  <2>1. UNCHANGED <<ledger, seen>> /\ passed \subseteq passed'
      BY <1>3 DEF WatcherPoll, PollTake
  <2>2. \A t \in Threads : t # Watcher => pc'[t] = pc[t] /\ work'[t] = work[t]
    <3>1. PollTake(Watcher, "idle")
        BY <1>3 DEF WatcherPoll
    <3>2. \E x, w : pc' = [pc EXCEPT ![Watcher] = x] /\ work' = [work EXCEPT ![Watcher] = w]
        BY <3>1 DEF PollTake, Goto
    <3> QED
        BY <1>b, <3>2
  <2> QED
      BY <1>a, <1>d, <1>e, <2>1, <2>2
<1>4. CASE ScrubLedger
  <2>1. UNCHANGED <<seen, passed, work>>
      BY <1>4 DEF ScrubLedger
  <2>2. PICK kept : kept = Retained(ledger) /\ ledger' = [i \in DOMAIN kept |-> [kept[i] EXCEPT !.text = FALSE]]
      BY <1>4 DEF ScrubLedger
  <2>3. Keys(ledger') \subseteq Keys(ledger)
      BY <1>b, <2>2, ScrubbedIs
  <2>4. PICK s \in Handlers : pc[s] = "idle" /\ pc' = [pc EXCEPT ![s] = "resync"]
      BY <1>4 DEF ScrubLedger, At
  <2>5. \A t \in Threads : t # s => pc'[t] = pc[t] /\ work'[t] = work[t]
      BY <1>b, <2>1, <2>4
  <2> QED
      BY <1>a, <1>d, <1>e, <2>1, <2>3, <2>4, <2>5
<1>5. ASSUME NEW s \in Threads, AbsorbRow(s) PROVE PendingOK'
  <2>1. UNCHANGED <<ledger, passed>> /\ pc[s] = "absorb"
      BY <1>5, <1>b, AbsorbRowIs
  <2>2. PICK r \in FiledRows, rest \in Seq(FiledRows) :
                /\ Keys(work[s]) = {r.key} \cup Keys(rest)
                /\ work' = [work EXCEPT ![s] = rest]
                /\ DOMAIN seen' = DOMAIN seen \cup {r.key}
                /\ pc' = [pc EXCEPT ![s] = IF rest = <<>> THEN "endBatch" ELSE "absorb"]
                /\ r.kind = "send" => r.key \in SealedKeys'
      BY <1>5, AbsorbRowIs
  <2>3. ASSUME NEW t \in Handlers, NEW k \in Pending', WillAbsorb(t, k) PROVE WillAbsorb(t, k)'
    <3>1. CASE t # s
      <4>1. pc'[t] = pc[t] /\ work'[t] = work[t] /\ req'[t] = req[t]
          BY <1>a, <1>b, <1>c, <2>2, <3>1
      <4> QED
          BY <2>3, <4>1, WillSame
    <3>2. CASE t = s
      <4>1. k \in Keys(work[t]) /\ k \notin Keys(req[t].rows)
          BY <2>1, <2>3, <3>2 DEF WillAbsorb
      <4>2. k \notin DOMAIN seen'
          BY <2>3, PendingNext
      <4>3. k \in Keys(rest)
          BY <2>2, <3>2, <4>1, <4>2
      <4>4. rest # <<>>
          BY <4>3, KeysEmpty
      <4>5. pc'[t] = "absorb" /\ work'[t] = rest /\ req'[t] = req[t]
          BY <1>a, <1>b, <1>c, <2>2, <3>2, <4>4
      <4> QED
          BY <4>1, <4>3, <4>5, WillNext
    <3> QED
        BY <3>1, <3>2
  <2>4. \A t \in Handlers, k \in Pending' : WillAbsorb(t, k) => WillAbsorb(t, k)'
      BY <2>3
  <2>5. DOMAIN seen \subseteq DOMAIN seen' /\ ledger' = ledger /\ passed' = passed
      BY <2>1, <2>2
  <2> QED
      BY <1>d, <2>4, <2>5
<1>6. ASSUME NEW s \in Threads, FinishPoll(s) PROVE PendingOK'
  <2>1. UNCHANGED <<ledger, seen, passed, work>> /\ pc[s] = "endBatch"
      BY <1>6 DEF FinishPoll, At
  <2>2. \E x : pc' = [pc EXCEPT ![s] = x]
      BY <1>6 DEF FinishPoll, At
  <2>3. \A t \in Threads : t # s => pc'[t] = pc[t] /\ work'[t] = work[t]
      BY <1>b, <2>1, <2>2
  <2> QED
      BY <1>d, <1>e, <2>1, <2>3
<1>7. ASSUME NEW s \in Handlers, Resync(s) PROVE PendingOK'
  <2>1. /\ UNCHANGED <<ledger, seen, work>> /\ pc[s] = "resync" /\ passed \subseteq passed'
        /\ pc' = [pc EXCEPT ![s] = "idle"]
      BY <1>7 DEF Resync, At
  <2>2. \A t \in Threads : t # s => pc'[t] = pc[t] /\ work'[t] = work[t]
      BY <1>b, <2>1
  <2> QED
      BY <1>a, <1>d, <1>e, <2>1, <2>2
<1>8. CASE UNCHANGED feed
  <2>1. UNCHANGED <<ledger, seen, passed, pc, work>>
      BY <1>8 DEF feed
  <2> QED
      BY <1>a, <1>c, <1>d, <2>1, WillSame
<1> QED
    BY <1>1, <1>2, <1>3, <1>4, <1>5, <1>6, <1>7, <1>8 DEF ShieldStep

\* One row of a request.
LEMMA PendingIngestStep ==
    ASSUME RowsInv, OnceOK, PendingOK, NEW t \in Handlers, IngestRow(t)
    PROVE  PendingOK'
<1>b. /\ req \in [Handlers -> RequestSet] /\ pc \in [Threads -> Places] /\ Handlers \subseteq Threads
      /\ ledger \in Seq(FiledRows) /\ Nothing \notin Flights /\ ShieldInv
    BY BrowserAssumption DEF RowsInv, ShieldInv, BrowserType, FeedType, Threads
<1>1. pc[t] = "ingest" /\ UNCHANGED <<work, seen, passed, queue, flight>>
    BY <1>b, IngestIs
<1>2. PICK r \in BrowserRows, rest \in Seq(BrowserRows), file \in BOOLEAN, here \in Places :
                /\ Keys(req[t].rows) = {r.key} \cup Keys(rest)
                /\ DistinctKeys(req[t].rows) => DistinctKeys(rest) /\ r.key \notin Keys(rest)
                /\ dedupe' = dedupe \cup {r.key}
                /\ file <=> r.key \notin dedupe /\ r.key \notin AppsOff
                /\ ledger' = IF file THEN Append(ledger, r) ELSE ledger
                /\ filed' = IF file THEN filed (+) SetToBag({r.key}) ELSE filed
                /\ req' = [req EXCEPT ![t] = [rows |-> rest, flight |-> req[t].flight,
                                              accepted |-> req[t].accepted \/ file]]
                /\ pc' = [pc EXCEPT ![t] = here]
                /\ \/ here = "ingest" /\ rest # <<>>
                   \/ here = "poll" /\ rest = <<>> /\ (req[t].accepted \/ file)
                   \/ here = "reply" /\ rest = <<>> /\ ~(req[t].accepted \/ file)
    BY <1>b, <1>1, IngestIs
<1>3. /\ req'[t].rows = rest /\ req'[t].flight = req[t].flight
      /\ req'[t].accepted = (req[t].accepted \/ file) /\ pc'[t] = here
      /\ \A s \in Handlers : s # t => req'[s] = req[s] /\ pc'[s] = pc[s]
    BY <1>b, <1>2
\* Having accepted a row, it goes on to absorb what it has gone through.
<1>4. ASSUME NEW k, k \notin Keys(rest), req[t].accepted \/ file PROVE WillAbsorb(t, k)'
  <2>1. req'[t].accepted /\ here \in {"ingest", "poll"}
      BY <1>2, <1>3, <1>4
  <2>2. k \notin Keys(req'[t].rows) /\ (pc'[t] = "ingest" \/ pc'[t] = "poll")
      BY <1>3, <1>4, <2>1
  <2> QED
      BY <2>1, <2>2, WillNext
<1>5. ASSUME NEW k \in Pending, k \in Pending'
      PROVE  /\ k \notin Keys(queue')
             /\ \A f \in Flights : k \in Keys(flight'[f].batch) =>
                   \E s \in Handlers : req'[s].flight = f /\ WillAbsorb(s, k)'
  <2>1. k \notin Keys(queue')
      BY <1>1 DEF PendingOK
  <2>2. ASSUME NEW f \in Flights, k \in Keys(flight'[f].batch)
        PROVE  \E s \in Handlers : req'[s].flight = f /\ WillAbsorb(s, k)'
    <3>1. PICK s \in Handlers : req[s].flight = f /\ WillAbsorb(s, k)
        BY <1>1, <2>2 DEF PendingOK
    <3>2. CASE s = t
      <4>1. req[t].accepted /\ k \notin Keys(rest)
          BY <1>1, <1>2, <3>1, <3>2 DEF WillAbsorb
      <4>2. WillAbsorb(s, k)'
          BY <1>4, <3>2, <4>1
      <4> QED
          BY <1>3, <3>1, <3>2, <4>2
    <3>3. CASE s # t
      <4>1. req'[s] = req[s] /\ pc'[s] = pc[s] /\ work'[s] = work[s]
          BY <1>1, <1>3, <3>3
      <4>2. WillAbsorb(s, k)'
          BY <3>1, <4>1, WillSame
      <4> QED
          BY <3>1, <4>1, <4>2
    <3> QED
        BY <3>2, <3>3
  <2> QED
      BY <2>1, <2>2
\* The only row that may become pending is the one filed now.
<1>6. ASSUME NEW k \in Pending', k \notin Pending PROVE k = r.key /\ file
  <2>1. k \in dedupe' /\ k \in Keys(ledger') /\ k \notin DOMAIN seen /\ k \notin passed
      BY <1>1, <1>6, PendingNext
  <2>2. k \notin dedupe \/ k \notin Keys(ledger)
      BY <1>6, <2>1 DEF Pending
  <2>3. CASE file
    <3>1. r \in FiledRows /\ ledger' = Append(ledger, r)
        BY <1>2, <2>3, RowsAreFiled
    <3>2. Keys(ledger') = Keys(ledger) \cup {r.key}
        BY <1>b, <3>1, KeysAppend
    <3> QED
        BY <1>2, <2>1, <2>2, <2>3, <3>2
  <2>4. CASE ~file
    <3>1. k \in Keys(ledger) /\ k \notin dedupe /\ k = r.key
        BY <1>2, <2>1, <2>2, <2>4
    <3>2. r.key \in AppsOff /\ r.key \in BrowserKeys
        BY <1>2, <2>4, <3>1, RowsAreFiled
    <3>3. Keys(ledger) \cap BrowserKeys \subseteq captured \ AppsOff
        BY DEF OnceOK
    <3> QED
        BY <3>1, <3>2, <3>3
  <2> QED
      BY <2>3, <2>4
<1>7. ASSUME file
      PROVE  /\ r.key \notin Keys(queue')
             /\ \A f \in Flights : r.key \in Keys(flight'[f].batch) =>
                   \E s \in Handlers : req'[s].flight = f /\ WillAbsorb(s, r.key)'
  <2>1. r.key \in Keys(req[t].rows) /\ r.key \notin Keys(rest)
      BY <1>2 DEF OnceOK
  <2>2. WillAbsorb(t, r.key)'
      BY <1>4, <1>7, <2>1
  <2>3. CASE req[t].flight = Nothing
    <3>1. /\ Keys(req[t].rows) \cap Keys(queue) = {}
          /\ \A f \in Flights : Keys(req[t].rows) \cap Keys(flight[f].batch) = {}
        BY <2>3 DEF OnceOK
    <3> QED
        BY <1>1, <2>1, <3>1
  <2>4. CASE req[t].flight # Nothing
    <3>1. req[t].flight \in Flights
        BY <1>b, <2>4 DEF RequestSet
    <3>2. r.key \in Keys(flight[req[t].flight].batch)
        BY <2>1, <2>4 DEF RowsInv, RequestsOK
    <3>3. r.key \notin Keys(queue)
        BY <3>1, <3>2 DEF OnceOK
    <3>4. \A f \in Flights : r.key \in Keys(flight[f].batch) => f = req[t].flight
        BY <3>1, <3>2 DEF OnceOK
    <3> QED
        BY <1>1, <1>3, <2>2, <3>3, <3>4
  <2> QED
      BY <2>3, <2>4
<1>8. ASSUME NEW k \in Pending'
      PROVE  /\ k \notin Keys(queue')
             /\ \A f \in Flights : k \in Keys(flight'[f].batch) =>
                   \E s \in Handlers : req'[s].flight = f /\ WillAbsorb(s, k)'
  <2>1. CASE k \in Pending
      BY <1>5, <1>8, <2>1
  <2>2. CASE k \notin Pending
      BY <1>6, <1>7, <1>8, <2>2
  <2> QED
      BY <2>1, <2>2
<1> QED
    BY <1>8 DEF PendingOK, Keys

\* A handler's poll takes every pending row that is behind nobody's offset.
LEMMA PendingPollStep ==
    ASSUME RowsInv, ThreadsOK, OffsetOK, PendingOK, NEW t \in Handlers, IngestPoll(t)
    PROVE  PendingOK'
<1>a. /\ Main \in Threads /\ Handlers \subseteq Threads /\ t \in Threads /\ Nothing \notin Threads
    BY FeedAssumption DEF Threads
<1>b. /\ ShieldInv /\ FeedType /\ pc \in [Threads -> Places] /\ work \in [Threads -> Seq(FiledRows)]
      /\ ledger \in Seq(FiledRows) /\ Len(ledger) \in Nat /\ offset \in Nat
    BY LenProperties DEF RowsInv, ShieldInv, FeedType
<1>c. PollTake(t, "poll") /\ UNCHANGED <<queue, flight, req, dedupe>>
    BY DEF IngestPoll, browser
<1>1. pollLock = Nothing /\ pc[t] = "poll" /\ UNCHANGED <<ledger, scanned, seen>>
    BY <1>a, <1>b, <1>c, PollTakeIs
<1>2. PICK new \in Seq(FiledRows) :
                /\ work' = [work EXCEPT ![t] = new]
                /\ new = <<>> <=> ~(scanned /\ offset < Len(ledger))
                /\ Keys(new) = IF scanned /\ offset < Len(ledger)
                               THEN {ledger[i].key : i \in (offset + 1)..Len(ledger)} ELSE {}
                /\ offset' = IF scanned THEN Len(ledger) ELSE offset
                /\ pollLock' = IF new = <<>> THEN Nothing ELSE t
                /\ pc' = [pc EXCEPT ![t] = IF new # <<>> THEN "absorb"
                                            ELSE IF t \in Handlers THEN "reply" ELSE "idle"]
                /\ passed' = IF Scrubbing THEN passed \cup Skipped(offset', work') ELSE passed
    BY <1>a, <1>b, <1>c, PollTakeIs
<1>3. scanned /\ offset' = Len(ledger)
  <2>1. pc[Main] = "serving"
      BY <1>1 DEF ThreadsOK
  <2> QED
      BY <1>2, <2>1 DEF ThreadsOK
<1>4. \A s \in Threads : work[s] = <<>>
    BY <1>a, <1>1 DEF ThreadsOK
<1>5. \A k : k \notin Held(work)
  <2>1. \A s \in Threads : Keys(work[s]) = {}
      BY <1>4, KeysEmpty
  <2> QED
      BY <2>1, HeldIs
<1>6. \A k : k \in Held(work') => k \in Keys(new)
  <2>1. /\ work'[t] = new /\ \A s \in Threads : s # t => Keys(work'[s]) = {}
      BY <1>a, <1>b, <1>2, <1>4, KeysEmpty
  <2> QED
      BY <2>1, HeldIs
<1>7. ASSUME NEW k \in Pending' PROVE k \in Keys(new)
  <2>1. k \in Keys(ledger) /\ k \notin DOMAIN seen /\ k \notin passed'
      BY <1>1, <1>7, PendingNext
  <2>2. PICK i \in 1..Len(ledger) : ledger[i].key = k
      BY <1>b, <2>1, KeysAt, LenProperties
  <2>3. CASE i > offset
    <3>1. offset < Len(ledger) /\ i \in (offset + 1)..Len(ledger)
        BY <1>b, <2>3
    <3> QED
        BY <1>2, <1>3, <2>2, <3>1
  <2>4. CASE i <= offset /\ ~Scrubbing
    <3>1. i \in 1..offset
        BY <1>b, <2>4
    <3>2. k \in KeysUpTo(ledger, offset)
        BY <2>2, <3>1 DEF KeysUpTo
    <3>3. k \in DOMAIN seen \cup passed \cup Held(work)
        BY <2>4, <3>2 DEF OffsetOK
    <3>4. passed' = passed
        BY <1>2, <2>4
    <3> QED
        BY <1>5, <2>1, <3>3, <3>4
  <2>5. CASE Scrubbing
    <3>1. passed' = passed \cup Skipped(Len(ledger), work')
        BY <1>2, <1>3, <2>5
    <3>2. k \in KeysUpTo(ledger, Len(ledger))
        BY <2>2 DEF KeysUpTo
    <3>3. k \in Held(work')
        BY <1>b, <2>1, <3>1, <3>2, SkippedIs
    <3> QED
        BY <1>6, <3>3
  <2> QED
      BY <1>b, <2>2, <2>3, <2>4, <2>5
<1>8. ASSUME NEW s \in Handlers, NEW k \in Pending', WillAbsorb(s, k) PROVE WillAbsorb(s, k)'
  <2>1. CASE s = t
    <3>1. k \in Keys(new) /\ k \notin Keys(req[t].rows)
        BY <1>7, <1>8, <2>1 DEF WillAbsorb
    <3>2. new # <<>>
        BY <3>1, KeysEmpty
    <3>3. pc'[t] = "absorb" /\ work'[t] = new /\ req'[t] = req[t]
        BY <1>a, <1>b, <1>c, <1>2, <3>2
    <3> QED
        BY <2>1, <3>1, <3>3, WillNext
  <2>2. CASE s # t
    <3>1. pc'[s] = pc[s] /\ work'[s] = work[s] /\ req'[s] = req[s]
        BY <1>a, <1>b, <1>c, <1>2, <2>2
    <3> QED
        BY <1>8, <3>1, WillSame
  <2> QED
      BY <2>1, <2>2
<1>9. \A k \in Pending' : k \in Pending
  <2>1. passed \subseteq passed'
      BY <1>2
  <2> QED
      BY <1>c, <1>1, <2>1, PendingNext DEF Pending
<1> QED
    BY <1>c, <1>8, <1>9, PendingKeep

\* The rest of the endpoint, and the other writers.
LEMMA PendingEndpointStep ==
    ASSUME RowsInv, PendingOK,
           \/ \E t \in Handlers : Answer(t)
           \/ \E r \in OtherRows : OtherAppend(r)
           \/ \E f \in Flights, t \in Handlers : Post(f, t)
    PROVE  PendingOK'
<1>b. /\ req \in [Handlers -> RequestSet] /\ flight \in [Flights -> FlightSet] /\ Nothing \notin Flights
      /\ ledger \in Seq(FiledRows) /\ dedupe \subseteq BrowserKeys
      /\ pc \in [Threads -> Places] /\ Handlers \subseteq Threads
    BY BrowserAssumption DEF RowsInv, ShieldInv, BrowserType, FeedType, Threads
<1>1. ASSUME NEW t \in Handlers, pc[t] \in {"reply", "idle"},
             UNCHANGED <<dedupe, ledger, seen, passed, work, queue>>,
             \A f \in Flights : flight'[f].batch = flight[f].batch,
             \A s \in Handlers : s # t => req'[s] = req[s] /\ pc'[s] = pc[s]
      PROVE  PendingOK'
  <2>1. \A k \in Pending' : k \in Pending
      BY <1>1, PendingNext DEF Pending
  <2>2. ASSUME NEW s \in Handlers, NEW k, WillAbsorb(s, k)
        PROVE  req'[s].flight = req[s].flight /\ WillAbsorb(s, k)'
    <3>1. s # t
        BY <1>1, <2>2 DEF WillAbsorb
    <3>2. req'[s] = req[s] /\ pc'[s] = pc[s] /\ work'[s] = work[s]
        BY <1>1, <3>1
    <3> QED
        BY <2>2, <3>2, WillSame
  <2> QED
      BY <1>1, <2>1, <2>2, PendingKeep
<1>2. ASSUME NEW t \in Handlers, Answer(t) PROVE PendingOK'
  <2> DEFINE g == req[t].flight
  <2>1. /\ flight' = IF g = Nothing THEN flight
                     ELSE [flight EXCEPT ![g] =
                          [stage |-> "answered", batch |-> flight[g].batch, total |-> Len(leaves)]]
        /\ req' = [req EXCEPT ![t] = NoRequest] /\ pc[t] = "reply" /\ pc' = [pc EXCEPT ![t] = "idle"]
        /\ UNCHANGED <<dedupe, ledger, seen, passed, work, queue>>
      BY <1>2 DEF Answer, At
  <2>2. \A f \in Flights : flight'[f].batch = flight[f].batch
    <3>1. g \in Flights \cup {Nothing}
        BY <1>b DEF RequestSet
    <3> QED
        BY <1>b, <2>1, <3>1
  <2>3. \A s \in Handlers : s # t => req'[s] = req[s] /\ pc'[s] = pc[s]
      BY <1>b, <2>1
  <2> QED
      BY <1>1, <2>1, <2>2, <2>3
<1>3. ASSUME NEW f \in Flights, NEW t \in Handlers, Post(f, t) PROVE PendingOK'
  <2>1. /\ req' = [req EXCEPT ![t] = [rows |-> flight[f].batch, flight |-> f, accepted |-> FALSE]]
        /\ flight' = [flight EXCEPT ![f] = [flight[f] EXCEPT !.stage = "posted"]]
        /\ pc[t] = "idle" /\ pc' = [pc EXCEPT ![t] = "ingest"]
        /\ UNCHANGED <<dedupe, ledger, seen, passed, work, queue>>
      BY <1>3 DEF Post, At
  <2>2. \A g \in Flights : flight'[g].batch = flight[g].batch
      BY <1>b, <2>1 DEF FlightSet
  <2>3. \A s \in Handlers : s # t => req'[s] = req[s] /\ pc'[s] = pc[s]
      BY <1>b, <2>1
  <2> QED
      BY <1>1, <2>1, <2>2, <2>3
<1>4. ASSUME NEW r \in OtherRows, OtherAppend(r) PROVE PendingOK'
  <2>1. ledger' = Append(ledger, r) /\ UNCHANGED <<dedupe, seen, passed, pc, work, queue, flight, req>>
      BY <1>4 DEF OtherAppend, ProxyAppend, AppendRow
  <2>2. r \in FiledRows /\ r.key \notin BrowserKeys
      BY RowsAreFiled
  <2>3. Keys(ledger') = Keys(ledger) \cup {r.key}
      BY <1>b, <2>1, <2>2, KeysAppend
  <2>4. \A k \in Pending' : k \in Pending
      BY <1>b, <2>1, <2>2, <2>3, PendingNext DEF Pending
  <2>5. \A s, k : WillAbsorb(s, k)' <=> WillAbsorb(s, k)
      BY <2>1, WillSame
  <2> QED
      BY <2>1, <2>4, <2>5, PendingKeep
<1> QED
    BY <1>2, <1>3, <1>4

\* Everything the answer relies on.
SealInv == RowsInv /\ ThreadsOK /\ OffsetOK /\ OnceOK /\ PendingOK /\ SeenOK

\* Every step keeps it.
LEMMA SealInvStep == SealInv /\ [Next]_vars => SealInv'
<1> SUFFICES ASSUME SealInv, [Next]_vars PROVE SealInv'
    OBVIOUS
<1>b. /\ RowsInv /\ ThreadsOK /\ OffsetOK /\ OnceOK /\ PendingOK /\ SeenOK
      /\ ShieldInv /\ RequestsOK
    BY DEF SealInv, RowsInv
<1>1. RowsInv' /\ ThreadsOK' /\ OffsetOK' /\ OnceOK' /\ SeenOK'
    BY <1>b, RowsInvStep, ThreadsStep, OffsetStep, OnceStep, SeenStep
<1>2. PendingOK'
  <2>1. CASE ShieldStep /\ UNCHANGED browser
      BY <1>b, <2>1, PendingShieldStep
  <2>2. CASE ShieldCrash
    <3>1. dedupe' = {}
        BY <2>2 DEF ShieldCrash
    <3>2. \A k \in Pending' : FALSE
        BY <3>1, PendingNext
    <3> QED
        BY <3>2 DEF PendingOK
  <2>3. CASE \E t \in Handlers : IngestRow(t) \/ IngestPoll(t)
      BY <1>b, <2>3, PendingIngestStep, PendingPollStep
  <2>4. CASE \/ \E t \in Handlers : Answer(t)
             \/ \E r \in OtherRows : OtherAppend(r)
             \/ \E f \in Flights, t \in Handlers : Post(f, t)
      BY <1>b, <2>4, PendingEndpointStep
  <2>5. CASE \/ \E r \in BrowserRows : Capture(r)
             \/ \E f \in Flights : Flush(f) \/ Refused(f) \/ LoseAnswer(f) \/ NoteWitness(f)
             \/ Withdraw \/ AcceptRecord \/ KillWorker
    <3>1. UNCHANGED fvars
        BY <2>5 DEF Capture, Flush, Refused, LoseAnswer, NoteWitness, Withdraw, AcceptRecord, KillWorker
    <3> QED
        BY <1>b, <2>5, <3>1, PendingWorkerStep
  <2>6. CASE UNCHANGED vars
    <3>1. UNCHANGED <<ledger, seen, passed, pc, work, queue, flight, req, dedupe>>
        BY <2>6 DEF vars, fvars, feed, browser
    <3>2. \A k \in Pending' : k \in Pending
        BY <3>1, PendingNext DEF Pending
    <3>3. \A s, k : WillAbsorb(s, k)' <=> WillAbsorb(s, k)
        BY <3>1, WillSame
    <3> QED
        BY <1>b, <3>1, <3>2, <3>3, PendingKeep
  <2> QED
      BY <2>1, <2>2, <2>3, <2>4, <2>5, <2>6 DEF Next
<1> QED
    BY <1>1, <1>2 DEF SealInv

\* When /api/browser answers a flush, every message row of the flush that is in
\* the ledger is sealed, whichever thread absorbed it, unless a scrub moved the
\* feed past it: for any rows, flushes, handlers, kills and scrubs
\* (_browser_ingest, Feed.poll).
THEOREM AnsweredIsSealed == Spec => []SealedWhenAnswered
<1>1. Init => SealInv
  <2> SUFFICES ASSUME Init PROVE SealInv
      OBVIOUS
  <2>1. RowsInv
      BY ShieldStart, RowsStart DEF RowsInv
  <2>2. /\ ledger = <<>> /\ pc = [t \in Threads |-> "idle"] /\ work = [t \in Threads |-> <<>>]
        /\ offset = 0 /\ scanned = FALSE /\ seen = EmptyBag
        /\ queue = <<>> /\ flight = [f \in Flights |-> Idle]
        /\ req = [t \in Handlers |-> NoRequest] /\ dedupe = {}
      BY DEF Init, FeedInit
  <2>3. Main \in Threads /\ Handlers \subseteq Threads
      BY DEF Threads
  <2>4. /\ pc[Main] = "idle" /\ \A t \in Threads : pc[t] = "idle" /\ work[t] = <<>>
        /\ \A f \in Flights : flight[f].batch = <<>>
        /\ \A t \in Handlers : req[t].rows = <<>> /\ pc[t] = "idle"
      BY <2>2, <2>3 DEF Idle, NoRequest
  <2>5. ThreadsOK
      BY <2>2, <2>3, <2>4 DEF ThreadsOK
  <2>6. OffsetOK
    <3>1. Len(ledger) = 0 /\ KeysUpTo(ledger, 0) = {}
        BY <2>2 DEF KeysUpTo
    <3> QED
        BY <2>2, <2>4, <3>1 DEF OffsetOK
  <2>7. OnceOK
      BY <2>2, <2>4, KeysEmpty DEF OnceOK
  <2>8. PendingOK
      BY <2>2 DEF PendingOK, Pending
  <2>9. SeenOK
      BY <2>2, EmptyBagIs DEF SeenOK
  <2> QED
      BY <2>1, <2>5, <2>6, <2>7, <2>8, <2>9 DEF SealInv
<1>2. ASSUME SealInv PROVE SealedWhenAnswered
  <2> SUFFICES ASSUME NEW t \in Handlers, pc[t] = "reply", req[t].flight # Nothing,
                      NEW r \in Range(flight[req[t].flight].batch), r.kind = "send",
                      r.key \in Keys(ledger), r.key \notin passed
               PROVE  r.key \in SealedKeys
      BY DEF SealedWhenAnswered
  <2> DEFINE f == req[t].flight
  <2>b. /\ req \in [Handlers -> RequestSet] /\ flight \in [Flights -> FlightSet]
        /\ RequestsOK /\ PendingOK /\ SeenOK
      BY <1>2 DEF SealInv, RowsInv, ShieldInv, BrowserType
  <2>1. f \in Flights
      BY <2>b DEF RequestSet
  <2>2. r \in BrowserRows /\ r.key \in Keys(flight[f].batch)
    <3>1. flight[f].batch \in Seq(BrowserRows)
        BY <2>b, <2>1 DEF FlightSet
    <3> QED
        BY <3>1 DEF Keys, Range
  <2>3. r.key \in dedupe
    <3>1. req[t].rows = <<>>
        BY <2>b DEF RequestsOK
    <3>2. Keys(flight[f].batch) \subseteq Keys(req[t].rows) \cup dedupe
        BY <2>b DEF RequestsOK
    <3> QED
        BY <2>2, <3>1, <3>2, KeysEmpty
  <2>4. r.key \in DOMAIN seen
    <3> SUFFICES ASSUME r.key \notin DOMAIN seen PROVE FALSE
        OBVIOUS
    <3>1. r.key \in Pending
        BY <2>3 DEF Pending
    <3>2. PICK s \in Handlers : req[s].flight = f /\ WillAbsorb(s, r.key)
        BY <2>b, <2>1, <2>2, <3>1 DEF PendingOK
    <3>3. s = t
        BY <2>b, <3>2 DEF RequestsOK
    <3> QED
        BY <3>2, <3>3 DEF WillAbsorb
  <2> QED
      BY <2>b, <2>2, <2>4 DEF SeenOK
<1> QED
    BY <1>1, <1>2, SealInvStep, PTL DEF Spec
=============================================================================

------------------------------ MODULE Delivery ------------------------------
(***************************************************************************)
(* How a device's ledger entries reach the ingest store: the shipper       *)
(* (recorder/shipper.py), the sync watermark it keeps in the ledger file   *)
(* (recorder/ledger.py), a network that loses and delays, and the store    *)
(* (ingest/store.py accept_batch) with its per-device summary.             *)
(*                                                                         *)
(* The device runs one recorder process, which holds a key and a Ledger    *)
(* object; the rotation CLI appends to the same file from outside.  An     *)
(* entry's hash is abstracted to its seq and the number of OS crashes      *)
(* before it was written: the same seq written again has another hash.     *)
(***************************************************************************)
EXTENDS Naturals, Sequences, FiniteSets

CONSTANTS
    MAX_BATCH_EVENTS, \* Shipper.max_batch_events
    MaxSeq,           \* bound: entries in the ledger
    MaxRotations,     \* bound: key rotations
    MaxRestarts,      \* bound: restarts of the recorder process
    MaxOSCrashes,     \* bound: OS crashes of the device
    MaxFaults,        \* bound: requests or answers lost, store crashes
    MaxRevocations    \* bound: devices revoked

ASSUME DeliveryAssumption ==
    /\ MAX_BATCH_EVENTS \in Nat \ {0}
    /\ MaxSeq \in Nat
    /\ MaxRotations \in Nat
    /\ MaxRestarts \in Nat
    /\ MaxOSCrashes \in Nat
    /\ MaxFaults \in Nat
    /\ MaxRevocations \in Nat

VARIABLES
    ledger,   \* table agent_events, in seq order
    marks,    \* every value of sync_state.synced_up_to_seq, with the number
              \* of entries committed before it
    diskKey,  \* the live key on disk
    key,      \* Shipper._key, loaded when the process started
    mem,      \* Ledger._next_seq - 1 of that process
    ship,     \* the shipper: idle, waiting for an answer, or answered
    net,      \* requests on their way to the store
    srv,      \* the store: idle, or between COMMIT and _touch_state
    stored,   \* table entries: device -> seq -> hash
    state,    \* table device_state: device -> last seq, count, gaps
    enrolled, \* table enrolments
    revoked,  \* enrolments with revoked_at set
    untouched,\* devices for which a crash came before _touch_state
    osCrashes, restarts, faults

device == <<ledger, marks, diskKey, key, mem>>
store == <<srv, stored, state, enrolled, revoked, untouched>>
counters == <<osCrashes, restarts, faults>>
vars == <<ledger, marks, diskKey, key, mem, ship, net, srv, stored, state,
          enrolled, revoked, untouched, osCrashes, restarts, faults>>

-----------------------------------------------------------------------------
(* Data *)

Devices == 1..MaxRotations + 1
Entries == [dev : Devices, gen : 0..MaxOSCrashes, rot : BOOLEAN]
Requests == [dev : Devices, from : Nat, batch : Seq(Entries), live : BOOLEAN]
States == [last : Nat, count : Nat, gaps : SUBSET (Nat \X Nat)]

Idle == [pc |-> "idle"]
NewState == [last |-> 0, count |-> 0, gaps |-> {}]

\* get_synced_up_to
Synced == IF marks = << >> THEN 0 ELSE marks[Len(marks)].wm

\* The seqs of a request and the entry at each.
SeqsOf(r) == r.from .. r.from + Len(r.batch) - 1
EntryAt(r, s) == r.batch[s - r.from + 1]

\* _compute_seq_gaps: maximal holes between received seqs.
SeqGaps(seqs) ==
    {g \in seqs \X seqs : /\ g[1] + 1 < g[2]
                          /\ \A s \in seqs : ~(g[1] < s /\ s < g[2])}

-----------------------------------------------------------------------------
Init ==
    /\ ledger = << >>
    /\ marks = << >>
    /\ diskKey = 1
    /\ key = 1
    /\ mem = 0
    /\ ship = Idle
    /\ net = {}
    /\ srv = Idle
    /\ stored = [d \in Devices |-> << >>]
    /\ state = [d \in Devices |-> NewState]
    /\ enrolled = {1}
    /\ revoked = {}
    /\ untouched = {}
    /\ osCrashes = 0
    /\ restarts = 0
    /\ faults = 0

-----------------------------------------------------------------------------
(* The device *)

\* The process appends an event under its own key.  A stale _next_seq
\* collides and is re-read first (module Ledger).
Record ==
    /\ Len(ledger) < MaxSeq
    /\ ledger' = Append(ledger, [dev |-> key, gen |-> osCrashes, rot |-> FALSE])
    /\ mem' = Len(ledger) + 1
    /\ UNCHANGED <<marks, diskKey, key, ship, net, store, counters>>

\* rotate_cli in a process of its own: KEY_ROTATED under the old key, then
\* the new key is live on disk (module KeyRotation).
Rotate ==
    /\ Len(ledger) < MaxSeq
    /\ diskKey <= MaxRotations
    /\ ledger' = Append(ledger, [dev |-> diskKey, gen |-> osCrashes, rot |-> TRUE])
    /\ diskKey' = diskKey + 1
    /\ UNCHANGED <<marks, key, mem, ship, net, store, counters>>

\* Whoever was waiting for an answer no longer is.
Abandoned(requests) == {[r EXCEPT !.live = FALSE] : r \in requests}
Abandon ==
    /\ ship' = Idle
    /\ net' = Abandoned(net)
    /\ srv' = IF srv.pc = "touch" THEN [srv EXCEPT !.live = FALSE] ELSE srv

\* The process crashes or is stopped, and starts again.
Restart ==
    /\ restarts < MaxRestarts
    /\ restarts' = restarts + 1
    /\ key' = diskKey
    /\ mem' = Len(ledger)
    /\ Abandon
    /\ UNCHANGED <<ledger, marks, diskKey, stored, state, enrolled, revoked,
                   untouched, osCrashes, faults>>

\* The machine stops: the ledger's WAL keeps a prefix of its transactions,
\* n entries and the first k watermarks.
OSCrash(n, k) ==
    /\ osCrashes < MaxOSCrashes
    /\ osCrashes' = osCrashes + 1
    /\ \A i \in 1..Len(marks) : (marks[i].at < n => i <= k)
                             /\ (marks[i].at > n => i > k)
    /\ ledger' = SubSeq(ledger, 1, n)
    /\ marks' = SubSeq(marks, 1, k)
    /\ key' = diskKey
    /\ mem' = n
    /\ Abandon
    /\ UNCHANGED <<diskKey, stored, state, enrolled, revoked, untouched,
                   restarts, faults>>

-----------------------------------------------------------------------------
(* Shipper *)

\* ship_once up to the POST: unsynced entries from the watermark on, at most
\* max_batch_events, fewer if max_batch_bytes cuts the batch.
Ship(n) ==
    /\ ship = Idle
    /\ n \in 1..MAX_BATCH_EVENTS
    /\ Synced + n <= Len(ledger)
    /\ ship' = [pc |-> "waiting", upTo |-> Synced + n]
    /\ net' = net \cup {[dev |-> key, from |-> Synced + 1, live |-> TRUE,
                         batch |-> SubSeq(ledger, Synced + 1, Synced + n)]}
    /\ UNCHANGED <<device, store, counters>>

\* _advance_watermark: the highest shipped seq below the first gap that
\* starts after the watermark.
Target(upTo, gaps) ==
    LET blocking == {g[1] + 1 : g \in {h \in gaps : h[1] + 1 > Synced}}
        safe == {s \in Synced + 1..upTo : \A b \in blocking : s < b}
    IN  IF safe = {} THEN Synced
        ELSE CHOOSE s \in safe : \A t \in safe : t <= s

\* Mutant: the watermark moves to the chain head, not to what was shipped.
ReceiveMutant ==
    /\ ship.pc = "answered"
    /\ marks' = IF ship.accepted THEN Append(marks, [wm |-> mem, at |-> Len(ledger)])
                ELSE marks
    /\ ship' = Idle
    /\ UNCHANGED <<ledger, diskKey, key, mem, net, store, counters>>

\* The 2xx arrives: set_synced_up_to, which raises if the target is past the
\* head this Ledger object knows of.  A refusal only makes the loop back off.
Receive ==
    LET target == Target(ship.upTo, ship.gaps)
    IN  /\ ship.pc = "answered"
        /\ marks' = IF ship.accepted /\ target > Synced /\ target <= mem
                    THEN Append(marks, [wm |-> target, at |-> Len(ledger)])
                    ELSE marks
        /\ ship' = Idle
        /\ UNCHANGED <<ledger, diskKey, key, mem, net, store, counters>>

\* post_signed_batch raises ShipError.  Either nobody is left to answer,
GiveUp ==
    /\ ship.pc = "waiting"
    /\ \A r \in net : ~r.live
    /\ srv.pc = "touch" => ~srv.live
    /\ ship' = Idle
    /\ UNCHANGED <<device, net, store, counters>>

\* or the request or the answer is lost, or the request is still on its way
\* when the client gives up on it.
Timeout ==
    /\ ship.pc \in {"waiting", "answered"}
    /\ faults < MaxFaults
    /\ faults' = faults + 1
    /\ \/ net' = {r \in net : ~r.live}
       \/ net' = Abandoned(net)
    /\ srv' = IF srv.pc = "touch" THEN [srv EXCEPT !.live = FALSE] ELSE srv
    /\ ship' = Idle
    /\ UNCHANGED <<device, stored, state, enrolled, revoked, untouched,
                   osCrashes, restarts>>

-----------------------------------------------------------------------------
(* IngestStore *)

\* record_enrolment of the device's new identity (recorder/enroll.py).
Enrol(d) ==
    /\ d <= diskKey
    /\ d \notin enrolled
    /\ enrolled' = enrolled \cup {d}
    /\ UNCHANGED <<device, ship, net, srv, stored, state, revoked, untouched,
                   counters>>

\* revoke_device
Revoke(d) ==
    /\ d \in enrolled \ revoked
    /\ Cardinality(revoked) < MaxRevocations
    /\ revoked' = revoked \cup {d}
    /\ UNCHANGED <<device, ship, net, srv, stored, state, enrolled, untouched,
                   counters>>

\* SeqConflict: this seq is stored with another entry_hash.
Conflicts(d, s, entry) ==
    s \in DOMAIN stored[d] /\ stored[d][s] # entry.gen

\* _require_writable, and accept_batch's checks of every entry.
Acceptable(r) ==
    /\ r.dev \in enrolled \ revoked
    /\ \A s \in SeqsOf(r) : /\ EntryAt(r, s).dev = r.dev
                            /\ ~Conflicts(r.dev, s, EntryAt(r, s))

Answer(accepted, gaps) ==
    ship' = [pc |-> "answered", upTo |-> ship.upTo, accepted |-> accepted,
             gaps |-> gaps]

\* A typed refusal: ROLLBACK, nothing of the batch is stored.
Refuse(r) ==
    /\ srv = Idle
    /\ r \in net
    /\ ~Acceptable(r)
    /\ net' = net \ {r}
    /\ IF r.live THEN Answer(FALSE, {}) ELSE UNCHANGED ship
    /\ UNCHANGED <<device, store, counters>>

\* Mutant: INSERT OR REPLACE in place of the conflict check.
CommitMutant(r) ==
    /\ srv = Idle
    /\ r \in net
    /\ net' = net \ {r}
    /\ stored' = [stored EXCEPT ![r.dev] =
                    [s \in DOMAIN @ \cup SeqsOf(r) |->
                       IF s \in SeqsOf(r) THEN EntryAt(r, s).gen ELSE @[s]]]
    /\ srv' = [pc |-> "touch", dev |-> r.dev, live |-> r.live,
               new |-> SeqsOf(r) \ DOMAIN stored[r.dev],
               head |-> state[r.dev].last]
    /\ UNCHANGED <<device, ship, state, enrolled, revoked, untouched,
                   counters>>

\* The transaction commits: new seqs are inserted, known ones ignored.
Commit(r) ==
    LET new == SeqsOf(r) \ DOMAIN stored[r.dev]
    IN  /\ srv = Idle
        /\ r \in net
        /\ Acceptable(r)
        /\ net' = net \ {r}
        /\ stored' = [stored EXCEPT ![r.dev] =
                        [s \in DOMAIN @ \cup new |->
                           IF s \in new THEN EntryAt(r, s).gen ELSE @[s]]]
        /\ srv' = [pc |-> "touch", dev |-> r.dev, new |-> new, live |-> r.live,
                   head |-> state[r.dev].last]
        /\ UNCHANGED <<device, ship, state, enrolled, revoked, untouched,
                       counters>>

\* Every accepted seq extends the tail it was compared with.  A device with
\* no last_seq_received yet (0 here) is expected to start at seq 0.
ContiguousTail ==
    LET expected == IF srv.head = 0 THEN 0 ELSE srv.head + 1
    IN  srv.new = expected .. expected + Cardinality(srv.new) - 1

\* Mutant: a contiguous batch never moves last_seq_received.
TouchedMutant(old) ==
    IF srv.new = {} THEN old
    ELSE [last |-> IF ContiguousTail THEN old.last ELSE
                     CHOOSE m \in srv.new \cup {old.last} :
                        \A s \in srv.new \cup {old.last} : s <= m,
          count |-> old.count + Cardinality(srv.new),
          gaps |-> IF ContiguousTail THEN old.gaps
                   ELSE SeqGaps(DOMAIN stored[srv.dev])]

\* _touch_state, after the commit and outside it: no new evidence leaves the
\* summary alone, a contiguous tail leaves the gaps alone.
Touched(old) ==
    IF srv.new = {} THEN old
    ELSE [last |-> CHOOSE m \in srv.new \cup {old.last} :
                     \A s \in srv.new \cup {old.last} : s <= m,
          count |-> old.count + Cardinality(srv.new),
          gaps |-> IF ContiguousTail THEN old.gaps
                   ELSE SeqGaps(DOMAIN stored[srv.dev])]

\* Mutant: a batch that brings nothing new is refused.
TouchStateMutant ==
    /\ srv.pc = "touch"
    /\ state' = [state EXCEPT ![srv.dev] = Touched(@)]
    /\ IF srv.live THEN Answer(srv.new # {}, state'[srv.dev].gaps)
       ELSE UNCHANGED ship
    /\ srv' = Idle
    /\ UNCHANGED <<device, net, stored, enrolled, revoked, untouched, counters>>

TouchState ==
    /\ srv.pc = "touch"
    /\ state' = [state EXCEPT ![srv.dev] = Touched(@)]
    /\ IF srv.live THEN Answer(TRUE, state'[srv.dev].gaps) ELSE UNCHANGED ship
    /\ srv' = Idle
    /\ UNCHANGED <<device, net, stored, enrolled, revoked, untouched, counters>>

\* The store's process dies between COMMIT and _touch_state.
StoreCrash ==
    /\ srv.pc = "touch"
    /\ faults < MaxFaults
    /\ faults' = faults + 1
    /\ untouched' = untouched \cup {srv.dev}
    /\ srv' = Idle
    /\ UNCHANGED <<device, ship, net, stored, state, enrolled, revoked,
                   osCrashes, restarts>>

-----------------------------------------------------------------------------
Handle(r) == Refuse(r) \/ Commit(r)
StoreStep == (\E r \in net : Handle(r)) \/ TouchState
ShipperStep == \/ \E n \in 1..MAX_BATCH_EVENTS : Ship(n)
               \/ Receive
               \/ GiveUp

Next ==
    \/ Record
    \/ Rotate
    \/ Restart
    \/ \E n \in 0..Len(ledger), k \in 0..Len(marks) : OSCrash(n, k)
    \/ ShipperStep
    \/ Timeout
    \/ \E d \in Devices : Enrol(d) \/ Revoke(d)
    \/ StoreStep
    \/ StoreCrash

\* run_forever keeps trying, the store keeps serving and gets to late
\* requests too, and every identity the device takes is enrolled in the end.
Fairness ==
    /\ WF_vars(ShipperStep)
    /\ WF_vars(StoreStep)
    /\ WF_vars(\E r \in net : ~r.live /\ Handle(r))
    /\ WF_vars(\E d \in Devices : Enrol(d))

Spec == Init /\ [][Next]_vars

FairSpec == Spec /\ Fairness

-----------------------------------------------------------------------------
(* Properties *)

\* Every variable keeps its type; only an enrolled device can be revoked,
\* and the store holds no seq a ledger cannot have written.
TypeOK ==
    /\ ledger \in Seq(Entries)
    /\ Len(ledger) <= MaxSeq
    /\ marks \in Seq([wm : Nat, at : Nat])
    /\ diskKey \in Devices
    /\ key \in Devices
    /\ mem \in Nat
    /\ ship = Idle \/ ship \in [pc : {"waiting"}, upTo : Nat]
                   \/ ship \in [pc : {"answered"}, upTo : Nat, accepted : BOOLEAN,
                                gaps : SUBSET (Nat \X Nat)]
    /\ net \subseteq Requests
    /\ srv = Idle \/ srv \in [pc : {"touch"}, dev : Devices, new : SUBSET Nat,
                              live : BOOLEAN, head : Nat]
    /\ \A d \in Devices : /\ DOMAIN stored[d] \subseteq 1..MaxSeq
                          /\ stored[d] \in [DOMAIN stored[d] -> 0..MaxOSCrashes]
    /\ state \in [Devices -> States]
    /\ revoked \subseteq enrolled
    /\ enrolled \subseteq Devices
    /\ untouched \subseteq Devices
    /\ osCrashes \in 0..MaxOSCrashes
    /\ restarts \in 0..MaxRestarts
    /\ faults \in 0..MaxFaults

\* Entry s of the ledger is on the store, under its own device, unchanged.
Delivered(s) ==
    /\ s \in DOMAIN stored[ledger[s].dev]
    /\ stored[ledger[s].dev][s] = ledger[s].gen

\* shipper.py ship_once/_advance_watermark, ledger.py set_synced_up_to: an
\* entry the watermark has passed, and which will never be sent again, is on
\* the store with the hash the ledger has; whatever is lost, late or
\* restarted, and also after an OS crash has cut the ledger.
WatermarkIsDelivered ==
    /\ Synced <= Len(ledger)
    /\ \A s \in 1..Synced : Delivered(s)

\* As long as the machine has not lost ledger rows, all the store holds of a
\* device is what the ledger holds, signed by that device.
StoreAgrees ==
    osCrashes = 0 =>
        \A d \in Devices : \A s \in DOMAIN stored[d] :
            /\ s <= Len(ledger)
            /\ ledger[s].dev = d
            /\ Delivered(s)

\* store.py accept_batch, _touch_state: an honest device is never accused: the
\* store agrees with its ledger, and the summary the coverage report is built
\* on never claims more than the store holds, and is exact unless a crash came
\* between COMMIT and _touch_state.
HonestDeviceNotAccused ==
    /\ StoreAgrees
    /\ \A d \in Devices :
        LET touched == srv.pc = "touch" /\ srv.dev = d
            seqs == DOMAIN stored[d] \ (IF touched THEN srv.new ELSE {})
        IN  /\ state[d].count <= Cardinality(seqs)
            /\ state[d].last \in seqs \cup {0}
            /\ d \notin untouched =>
                 /\ state[d].count = Cardinality(seqs)
                 /\ \A s \in seqs : s <= state[d].last
                 /\ state[d].gaps = SeqGaps(seqs)

\* store.py entries: evidence once accepted is never altered or withdrawn,
\* not by redelivery, not by a late request, not by a rewritten ledger.
EvidenceImmutable ==
    [][ \A d \in Devices : \A s \in DOMAIN stored[d] :
          s \in DOMAIN stored'[d] /\ stored'[d][s] = stored[d][s] ]_vars

\* Why the next batch cannot go through: an entry of another identity, an
\* identity not (or no longer) enrolled, a seq the store has with another
\* hash, or a head the shipper's Ledger object has not seen.
Blocked ==
    \/ key \notin enrolled \ revoked
    \/ \E s \in Synced + 1..Len(ledger) :
         /\ s <= Synced + MAX_BATCH_EVENTS
         /\ \/ ledger[s].dev # key
            \/ Conflicts(key, s, ledger[s])
            \/ s > mem

\* shipper.py run_forever: every entry is shipped in the end, or the shipper
\* is blocked for one of the reasons above; no loss, delay, crash or restart
\* is another reason.
EventuallyShipped ==
    \A s \in 1..MaxSeq :
        (Len(ledger) >= s) ~> (Len(ledger) < s \/ Synced >= s \/ Blocked)
=============================================================================

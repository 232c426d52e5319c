--------------------------- MODULE DeliveryProofs ---------------------------
(***************************************************************************)
(* Proofs about Delivery, for a ledger of any length, any batch size, and  *)
(* any number of rotations, restarts, crashes, losses and revocations; and *)
(* about Streams, for any number of recorders on one file, agents, rows,   *)
(* deaths and refusals.                                                    *)
(***************************************************************************)
EXTENDS Delivery, Streams, FiniteSetTheorems, WellFoundedInduction, SequenceTheorems, TLAPS

-----------------------------------------------------------------------------
(* The inductive invariant *)

StoredIsTable == stored = [d \in Devices |-> stored[d]]

\* Everything between the watermark and upTo is on the store.
Arrived(upTo) == \A s \in Synced + 1..upTo : s <= Len(ledger) /\ Delivered(s)

\* A request holds what the ledger holds.
CarriesLedger(r) == \A s \in SeqsOf(r) : s <= Len(ledger) /\ EntryAt(r, s) = ledger[s]

\* Every watermark that was ever written, and may be again after an OS crash,
\* is one the entries written before it bear out.
MarksOK ==
    \A i \in 1..Len(marks) :
        /\ marks[i].wm <= marks[i].at
        /\ marks[i].at <= Len(ledger)
        /\ \A s \in 1..marks[i].wm : Delivered(s)

\* A request somebody waits for is the one the shipper sent, and the ledger
\* has not changed under it.
RequestOK(r) ==
    /\ SeqsOf(r) \subseteq 1..MaxSeq
    /\ osCrashes = 0 => CarriesLedger(r)
    /\ r.live => /\ ship.pc = "waiting"
                 /\ SeqsOf(r) = Synced + 1..ship.upTo
                 /\ CarriesLedger(r)

OneLive ==
    /\ \A q, r \in net : q.live /\ r.live => q = r
    /\ srv.pc = "touch" /\ srv.live => \A r \in net : ~r.live

\* Between COMMIT and _touch_state.
TouchOK ==
    srv.pc = "touch" =>
        /\ srv.new \subseteq DOMAIN stored[srv.dev]
        /\ srv.head = state[srv.dev].last
        /\ srv.live => ship.pc = "waiting" /\ Arrived(ship.upTo)

AnswerOK == ship.pc = "answered" /\ ship.accepted => Arrived(ship.upTo)

\* The seqs the summary of device d should know of.
Known(d) == DOMAIN stored[d] \ (IF srv.pc = "touch" /\ srv.dev = d THEN srv.new ELSE {})

SummaryOK(d) ==
    /\ state[d].count <= Cardinality(Known(d))
    /\ state[d].last \in Known(d) \cup {0}
    /\ d \notin untouched =>
         /\ state[d].count = Cardinality(Known(d))
         /\ \A s \in Known(d) : s <= state[d].last
         /\ state[d].gaps = SeqGaps(Known(d))

DeliveryInv ==
    /\ TypeOK
    /\ StoredIsTable
    /\ mem <= Len(ledger)
    /\ MarksOK
    /\ \A r \in net : RequestOK(r)
    /\ OneLive
    /\ TouchOK
    /\ AnswerOK
    /\ StoreAgrees
    /\ \A d \in Devices : SummaryOK(d)

-----------------------------------------------------------------------------
(* Lemmas *)

\* The watermarks are what they should be.
LEMMA MarkIs ==
    ASSUME TypeOK
    PROVE  /\ Len(marks) \in Nat
           /\ \A i \in 1..Len(marks) : marks[i].wm \in Nat /\ marks[i].at \in Nat
<1>1. marks \in Seq([wm : Nat, at : Nat])
  BY DEF TypeOK
<1>2. \A i \in 1..Len(marks) : marks[i] \in [wm : Nat, at : Nat]
  BY <1>1, ElementOfSeq
<1> QED BY <1>1, <1>2

\* The watermark is a number, and the last one written.
LEMMA SyncedIs ==
    ASSUME TypeOK
    PROVE  /\ Synced \in Nat
           /\ Synced = 0 \/ \E i \in 1..Len(marks) : Synced = marks[i].wm
<1>1. marks \in Seq([wm : Nat, at : Nat]) /\ Len(marks) \in Nat
  BY MarkIs DEF TypeOK
<1>2. CASE marks = << >>
  BY <1>2 DEF Synced
<1>3. CASE marks # << >>
  <2>1. Len(marks) \in 1..Len(marks)
    BY <1>1, <1>3
  <2>2. Synced = marks[Len(marks)].wm
    BY <1>3 DEF Synced
  <2> QED BY <2>1, <2>2, MarkIs
<1> QED BY <1>2, <1>3

\* The invariant is what the properties need.
LEMMA InvImpliesDelivered == DeliveryInv => WatermarkIsDelivered
<1> SUFFICES ASSUME DeliveryInv PROVE WatermarkIsDelivered
  OBVIOUS
<1>1. Len(ledger) \in Nat /\ marks \in Seq([wm : Nat, at : Nat])
  BY DEF DeliveryInv, TypeOK
<1>2. CASE Synced = 0
  BY <1>1, <1>2 DEF WatermarkIsDelivered
<1>3. CASE \E i \in 1..Len(marks) : Synced = marks[i].wm
  <2>1. PICK i \in 1..Len(marks) : Synced = marks[i].wm
    BY <1>3
  <2>2. marks[i].wm \in Nat /\ marks[i].at \in Nat
    BY MarkIs DEF DeliveryInv
  <2> QED BY <1>1, <2>1, <2>2 DEF DeliveryInv, MarksOK, WatermarkIsDelivered
<1> QED BY <1>2, <1>3, SyncedIs DEF DeliveryInv

\* The invariant gives the second property of the run.
LEMMA InvImpliesHonest == DeliveryInv => HonestDeviceNotAccused
BY DEF DeliveryInv, SummaryOK, Known, HonestDeviceNotAccused

\* Nothing recorded, nothing sent, nothing stored.
LEMMA DeliveryInit == Init => DeliveryInv
<1> SUFFICES ASSUME Init PROVE DeliveryInv
  OBVIOUS
<1>1. \A d \in Devices : stored[d] = << >> /\ DOMAIN stored[d] = {} /\ state[d] = NewState
  BY DEF Init
<1>2. TypeOK
  <2>1. 1 \in Devices
    BY DeliveryAssumption DEF Devices
  <2>2. state \in [Devices -> States]
    BY DEF Init, NewState, States
  <2>3. \A d \in Devices : stored[d] \in [DOMAIN stored[d] -> 0..MaxOSCrashes]
    <3>1. << >> \in [DOMAIN << >> -> 0..MaxOSCrashes]
      BY EmptySeq, LenProperties
    <3> QED BY <1>1, <3>1
  <2> QED BY <1>1, <2>1, <2>2, <2>3, DeliveryAssumption DEF Init, TypeOK, Idle
<1>3. StoredIsTable /\ mem <= Len(ledger) /\ MarksOK
  BY DEF Init, StoredIsTable, MarksOK
<1>4. (\A r \in net : RequestOK(r)) /\ OneLive /\ TouchOK /\ AnswerOK
  BY DEF Init, Idle, OneLive, TouchOK, AnswerOK
<1>5. StoreAgrees
  BY <1>1 DEF StoreAgrees
<1>6. ASSUME NEW d \in Devices PROVE SummaryOK(d)
  <2>1. Known(d) = {}
    BY <1>1 DEF Known
  <2>2. state[d].count = 0 /\ state[d].last = 0 /\ state[d].gaps = {}
    BY <1>1 DEF NewState
  <2>3. SeqGaps({}) = {}
    BY DEF SeqGaps
  <2> QED BY <2>1, <2>2, <2>3, FS_EmptySet DEF SummaryOK
<1> QED BY <1>2, <1>3, <1>4, <1>5, <1>6 DEF DeliveryInv

\* A non-empty set of numbers up to N has a greatest.
LEMMA GreatestExists ==
    ASSUME NEW T \in SUBSET Nat, NEW N \in Nat, \A s \in T : s <= N, T # {}
    PROVE  \E m \in T : \A s \in T : s <= m
<1> DEFINE S == {n \in Nat : \A s \in T : s <= n}
           R == OpToRel(<, Nat)
<1>1. S \in SUBSET Nat /\ S # {}
  OBVIOUS
<1>2. \A x, y \in Nat : y < x => <<y, x>> \in R
  BY DEF OpToRel
<1>3. IsWellFoundedOn(R, Nat)
  BY NatLessThanWellFounded
<1> HIDE DEF R
<1>4. PICK m \in S : \A y \in S : ~ (<<y, m>> \in R)
  <2> HIDE DEF S
  <2> QED BY <1>1, <1>3, WFMin
<1>5. \A y \in S : ~ (y < m)
  BY <1>1, <1>2, <1>4
<1>6. m \in T
  <2> SUFFICES ASSUME m \notin T PROVE FALSE
    OBVIOUS
  <2>0. m \in Nat /\ \A s \in T : s \in Nat /\ s <= m /\ s # m
    OBVIOUS
  <2>1. m \in Nat /\ \A s \in T : s \in Nat /\ s < m
    BY <2>0
  <2>2. PICK u \in T : TRUE
    OBVIOUS
  <2>3. m # 0
    BY <2>1, <2>2
  <2>4. m - 1 \in Nat /\ m - 1 < m
    BY <2>1, <2>3
  <2>5. \A s \in T : s <= m - 1
    BY <2>1, <2>3
  <2>6. m - 1 \in S /\ m - 1 < m
    BY <2>4, <2>5
  <2> QED BY <1>5, <2>6
<1> QED BY <1>6

\* What is on the store stays there.
Grown == \A d \in Devices : \A s \in DOMAIN stored[d] :
            s \in DOMAIN stored'[d] /\ stored'[d][s] = stored[d][s]

\* A delivered entry stays delivered when the store only grows.
LEMMA DeliveredStays ==
    ASSUME TypeOK, Grown, NEW s \in 1..Len(ledger), ledger'[s] = ledger[s], Delivered(s)
    PROVE  Delivered(s)'
<1>1. ledger[s] \in Entries
  BY DEF TypeOK
<1> QED BY <1>1 DEF Delivered, Grown, Entries

\* The seqs of a request are numbers, and it has an entry at each.
LEMMA EntryIs ==
    ASSUME NEW r \in Requests
    PROVE  \A s \in SeqsOf(r) : s \in Nat /\ EntryAt(r, s) \in Entries
<1>1. r.from \in Nat /\ r.batch \in Seq(Entries) /\ Len(r.batch) \in Nat
  BY DEF Requests
<1> SUFFICES ASSUME NEW s \in SeqsOf(r) PROVE s \in Nat /\ EntryAt(r, s) \in Entries
  OBVIOUS
<1>2. s \in Nat /\ s - r.from + 1 \in 1..Len(r.batch)
  BY <1>1 DEF SeqsOf
<1> QED BY <1>1, <1>2 DEF EntryAt

\* The store's tables, of any device, are finite.
LEMMA TableIs ==
    ASSUME TypeOK, NEW d \in Devices
    PROVE  /\ DOMAIN stored[d] \subseteq 1..MaxSeq
           /\ IsFiniteSet(DOMAIN stored[d])
           /\ stored[d] \in [DOMAIN stored[d] -> 0..MaxOSCrashes]
<1>1. IsFiniteSet(1..MaxSeq)
  BY DeliveryAssumption, FS_Interval
<1>2. DOMAIN stored[d] \subseteq 1..MaxSeq /\ stored[d] \in [DOMAIN stored[d] -> 0..MaxOSCrashes]
  BY DEF TypeOK
<1> QED BY <1>1, <1>2, FS_Subset

\* The summaries, of a step that leaves the store's tables alone.
LEMMA SummaryStays ==
    ASSUME DeliveryInv, UNCHANGED <<stored, state, untouched>>, srv'.pc = srv.pc,
           srv.pc = "touch" => srv'.dev = srv.dev /\ srv'.new = srv.new
    PROVE  \A d \in Devices : SummaryOK(d)'
<1>1. \A d \in Devices : Known(d)' = Known(d)
  BY DEF Known
<1> QED BY <1>1 DEF DeliveryInv, SummaryOK

\* A step that leaves ledger, watermark and store alone.
LEMMA EvidenceStays ==
    ASSUME DeliveryInv, UNCHANGED <<ledger, marks, mem, stored, osCrashes>>
    PROVE  /\ StoredIsTable' /\ (mem <= Len(ledger))' /\ MarksOK' /\ StoreAgrees'
           /\ Synced' = Synced /\ Len(ledger') = Len(ledger)
           /\ \A r : CarriesLedger(r)' <=> CarriesLedger(r)
           /\ \A upTo : Arrived(upTo)' <=> Arrived(upTo)
<1>1. Synced' = Synced /\ \A s : Delivered(s)' <=> Delivered(s)
  BY DEF Synced, Delivered
<1>2. StoredIsTable' /\ (mem <= Len(ledger))' /\ MarksOK' /\ StoreAgrees'
  BY <1>1 DEF DeliveryInv, StoredIsTable, MarksOK, StoreAgrees
<1>3. \A r : CarriesLedger(r)' <=> CarriesLedger(r)
  BY DEF CarriesLedger
<1>4. \A upTo : Arrived(upTo)' <=> Arrived(upTo)
  BY <1>1 DEF Arrived
<1> QED BY <1>1, <1>2, <1>3, <1>4

\* What the shipper waits for, or was told, ends at a seq.
LEMMA ShipIs ==
    ASSUME TypeOK
    PROVE  ship.pc \in {"waiting", "answered"} => ship.upTo \in Nat
BY DEF TypeOK, Idle

-----------------------------------------------------------------------------
(* The device *)

\* One more entry: all that was written stays.
LEMMA AppendStep ==
    ASSUME DeliveryInv, NEW e \in Entries, Len(ledger) < MaxSeq, ledger' = Append(ledger, e),
           UNCHANGED <<marks, ship, net, srv, stored, state, enrolled, revoked, untouched,
                       osCrashes, restarts, faults>>,
           key' \in Devices, diskKey' \in Devices, mem' \in Nat, mem' <= Len(ledger) + 1
    PROVE  DeliveryInv'
<1>1. TypeOK /\ ledger \in Seq(Entries) /\ Len(ledger) \in Nat /\ Synced \in Nat
  <2>1. TypeOK
    BY DEF DeliveryInv
  <2>2. ledger \in Seq(Entries)
    BY <2>1 DEF TypeOK
  <2> QED BY <2>1, <2>2, SyncedIs, LenProperties
<1>2. /\ ledger' \in Seq(Entries) /\ Len(ledger') = Len(ledger) + 1
      /\ \A s \in 1..Len(ledger) : ledger'[s] = ledger[s]
  BY <1>1, AppendProperties
<1>3. TypeOK'
  BY <1>1, <1>2, DeliveryAssumption DEF TypeOK
<1>4. Synced' = Synced /\ Grown
  BY DEF Synced, Grown
<1>5. \A s \in 1..Len(ledger) : Delivered(s) => Delivered(s)'
  BY <1>1, <1>2, <1>4, DeliveredStays
<1>6. \A upTo \in Nat : Arrived(upTo) => Arrived(upTo)'
  <2> SUFFICES ASSUME NEW upTo \in Nat, Arrived(upTo), NEW s \in Synced + 1..upTo
               PROVE  s <= Len(ledger') /\ Delivered(s)'
    BY <1>4 DEF Arrived
  <2>1. s <= Len(ledger) /\ Delivered(s)
    BY DEF Arrived
  <2>2. s \in 1..Len(ledger)
    BY <1>1, <2>1
  <2> QED BY <1>1, <1>2, <1>5, <2>1, <2>2
<1>7. \A r \in net : CarriesLedger(r) => CarriesLedger(r)'
  <2> SUFFICES ASSUME NEW r \in net, CarriesLedger(r), NEW s \in SeqsOf(r)
               PROVE  s <= Len(ledger') /\ EntryAt(r, s) = ledger'[s]
    BY DEF CarriesLedger
  <2>1. s <= Len(ledger) /\ EntryAt(r, s) = ledger[s] /\ s \in 1..MaxSeq
    BY DEF CarriesLedger, DeliveryInv, RequestOK
  <2>2. s \in 1..Len(ledger)
    BY <1>1, <2>1, DeliveryAssumption
  <2> QED BY <1>1, <1>2, <2>1, <2>2
<1>8. StoredIsTable' /\ (mem <= Len(ledger))' /\ OneLive'
  BY <1>1, <1>2 DEF DeliveryInv, StoredIsTable, OneLive
<1>9. MarksOK'
  <2> SUFFICES ASSUME NEW i \in 1..Len(marks)
               PROVE  /\ marks[i].wm <= marks[i].at
                      /\ marks[i].at <= Len(ledger')
                      /\ \A s \in 1..marks[i].wm : Delivered(s)'
    BY DEF MarksOK
  <2>1. /\ marks[i].wm <= marks[i].at /\ marks[i].at <= Len(ledger)
        /\ \A s \in 1..marks[i].wm : Delivered(s)
    BY DEF DeliveryInv, MarksOK
  <2>2. marks[i].wm \in Nat /\ marks[i].at \in Nat
    BY <1>1, MarkIs
  <2> QED BY <1>1, <1>2, <1>5, <2>1, <2>2
<1>10. \A r \in net' : RequestOK(r)'
  BY <1>4, <1>7 DEF DeliveryInv, RequestOK
<1>11. TouchOK' /\ AnswerOK'
  BY <1>1, <1>6, ShipIs DEF DeliveryInv, TouchOK, AnswerOK
<1>12. StoreAgrees'
  <2> SUFFICES ASSUME osCrashes = 0, NEW d \in Devices, NEW s \in DOMAIN stored[d]
               PROVE  s <= Len(ledger') /\ ledger'[s].dev = d /\ Delivered(s)'
    BY DEF StoreAgrees
  <2>1. s <= Len(ledger) /\ ledger[s].dev = d /\ Delivered(s)
    BY DEF DeliveryInv, StoreAgrees
  <2>2. s \in 1..Len(ledger)
    BY <1>1, <2>1, TableIs, DeliveryAssumption
  <2> QED BY <1>1, <1>2, <1>5, <2>1, <2>2
<1>13. \A d \in Devices : SummaryOK(d)'
  BY SummaryStays
<1> QED BY <1>3, <1>8, <1>9, <1>10, <1>11, <1>12, <1>13 DEF DeliveryInv

\* One lemma per action, in the order of the module.
LEMMA RecordInv == DeliveryInv /\ Record => DeliveryInv'
<1> SUFFICES ASSUME DeliveryInv, Record PROVE DeliveryInv'
  OBVIOUS
<1> DEFINE e == [dev |-> key, gen |-> osCrashes, rot |-> FALSE]
<1>1. e \in Entries /\ Len(ledger) \in Nat /\ key \in Devices /\ diskKey \in Devices
  BY DEF DeliveryInv, TypeOK, Entries
<1>2. /\ Len(ledger) < MaxSeq /\ ledger' = Append(ledger, e) /\ mem' = Len(ledger) + 1
      /\ UNCHANGED <<marks, diskKey, key, ship, net, srv, stored, state, enrolled, revoked, untouched,
                     osCrashes, restarts, faults>>
  BY DEF Record, store, counters
<1> HIDE DEF e
<1> QED BY <1>1, <1>2, AppendStep

\* A rotation leaves what was shipped alone.
LEMMA RotateInv == DeliveryInv /\ Rotate => DeliveryInv'
<1> SUFFICES ASSUME DeliveryInv, Rotate PROVE DeliveryInv'
  OBVIOUS
<1> DEFINE e == [dev |-> diskKey, gen |-> osCrashes, rot |-> TRUE]
<1>1. /\ e \in Entries /\ Len(ledger) \in Nat /\ key \in Devices /\ diskKey \in Devices
      /\ mem \in Nat /\ mem <= Len(ledger)
  BY DEF DeliveryInv, TypeOK, Entries
<1>2. /\ Len(ledger) < MaxSeq /\ ledger' = Append(ledger, e) /\ diskKey' = diskKey + 1
      /\ diskKey <= MaxRotations
      /\ UNCHANGED <<marks, key, mem, ship, net, srv, stored, state, enrolled, revoked, untouched,
                     osCrashes, restarts, faults>>
  BY DEF Rotate, store, counters
<1>3. diskKey' \in Devices /\ mem' <= Len(ledger) + 1
  BY <1>1, <1>2, DeliveryAssumption DEF Devices
<1> HIDE DEF e
<1> QED BY <1>1, <1>2, <1>3, AppendStep

\* Whoever waited no longer does: what is under way goes on, and matters to
\* no one.
LetGo ==
    /\ ship' = Idle
    /\ net' \subseteq Requests
    /\ \A r \in net' : ~r.live /\ \E q \in net : r.from = q.from /\ r.batch = q.batch
    /\ srv'.pc = srv.pc
    /\ srv.pc = "touch" => /\ srv' \in [pc : {"touch"}, dev : Devices, new : SUBSET Nat,
                                         live : BOOLEAN, head : Nat]
                            /\ srv'.dev = srv.dev /\ srv'.new = srv.new
                            /\ srv'.head = srv.head /\ ~srv'.live
    /\ srv.pc # "touch" => srv' = srv

\* The ways in which a shipper lets go of its request.
LEMMA LetGoIs ==
    ASSUME TypeOK, ship' = Idle, net' \in {Abandoned(net), {r \in net : ~r.live}},
           srv' = IF srv.pc = "touch" THEN [srv EXCEPT !.live = FALSE] ELSE srv
    PROVE  LetGo
<1>1. net \subseteq Requests
  BY DEF TypeOK
<1>2. \A r \in net' : r \in Requests /\ ~r.live /\ \E q \in net : r.from = q.from /\ r.batch = q.batch
  <2>1. CASE net' = {r \in net : ~r.live}
    BY <1>1, <2>1
  <2>2. CASE net' = Abandoned(net)
    <3> SUFFICES ASSUME NEW q \in net
                 PROVE  LET r == [q EXCEPT !.live = FALSE]
                        IN  r \in Requests /\ ~r.live /\ r.from = q.from /\ r.batch = q.batch
      BY <2>2 DEF Abandoned
    <3> QED BY <1>1 DEF Requests
  <2> QED BY <2>1, <2>2
<1>3. CASE srv.pc = "touch"
  <2>1. srv \in [pc : {"touch"}, dev : Devices, new : SUBSET Nat, live : BOOLEAN, head : Nat]
    BY <1>3 DEF TypeOK, Idle
  <2>2. srv' = [srv EXCEPT !.live = FALSE]
    BY <1>3
  <2>3. /\ srv' \in [pc : {"touch"}, dev : Devices, new : SUBSET Nat, live : BOOLEAN, head : Nat]
        /\ srv'.dev = srv.dev /\ srv'.new = srv.new /\ srv'.head = srv.head /\ srv'.live = FALSE
        /\ srv'.pc = srv.pc
    BY <2>1, <2>2
  <2> QED BY <1>2, <1>3, <2>3 DEF LetGo
<1>4. CASE srv.pc # "touch"
  BY <1>2, <1>4 DEF LetGo
<1> QED BY <1>3, <1>4

\* What is left of the invariant's part on requests and answers.
LEMMA LetGoInv ==
    ASSUME DeliveryInv, LetGo, UNCHANGED <<stored, state>>,
           osCrashes' = 0 => osCrashes = 0 /\ ledger' = ledger
    PROVE  (\A r \in net' : RequestOK(r)') /\ OneLive' /\ TouchOK' /\ AnswerOK'
<1>1. ASSUME NEW r \in net' PROVE RequestOK(r)'
  <2>1. PICK q \in net : r.from = q.from /\ r.batch = q.batch
    BY DEF LetGo
  <2>2. SeqsOf(r) = SeqsOf(q) /\ \A s : EntryAt(r, s) = EntryAt(q, s)
    BY <2>1 DEF SeqsOf, EntryAt
  <2>3. ~r.live /\ RequestOK(q)
    BY DEF LetGo, DeliveryInv
  <2> QED BY <2>2, <2>3 DEF RequestOK, CarriesLedger
<1>2. OneLive' /\ AnswerOK'
  BY DEF LetGo, OneLive, AnswerOK, Idle
<1>3. TouchOK'
  BY DEF LetGo, TouchOK, DeliveryInv
<1> QED BY <1>1, <1>2, <1>3

\* The types of the shipper, the network and the store's step then.
LEMMA LetGoType ==
    ASSUME TypeOK, LetGo
    PROVE  /\ ship' = Idle
           /\ net' \subseteq Requests
           /\ srv' = Idle \/ srv' \in [pc : {"touch"}, dev : Devices, new : SUBSET Nat,
                                       live : BOOLEAN, head : Nat]
BY DEF LetGo, TypeOK

\* The device restarts: its requests may still arrive.
LEMMA RestartInv == DeliveryInv /\ Restart => DeliveryInv'
<1> SUFFICES ASSUME DeliveryInv, Restart PROVE DeliveryInv'
  OBVIOUS
<1>1. /\ UNCHANGED <<ledger, marks, diskKey, stored, state, enrolled, revoked, untouched, osCrashes, faults>>
      /\ restarts < MaxRestarts /\ restarts' = restarts + 1 /\ key' = diskKey /\ mem' = Len(ledger)
      /\ TypeOK /\ Len(ledger) \in Nat
  BY DEF Restart, DeliveryInv, TypeOK
<1>2. LetGo
  BY <1>1, LetGoIs DEF Restart, Abandon
<1>3. TypeOK'
  BY <1>1, <1>2, LetGoType, DeliveryAssumption DEF TypeOK
<1>4. StoredIsTable' /\ (mem <= Len(ledger))' /\ MarksOK' /\ StoreAgrees'
  BY <1>1 DEF DeliveryInv, StoredIsTable, MarksOK, StoreAgrees, Delivered
<1>5. \A d \in Devices : SummaryOK(d)'
  BY <1>1, <1>2, SummaryStays DEF LetGo
<1> QED BY <1>1, <1>2, <1>3, <1>4, <1>5, LetGoInv DEF DeliveryInv

\* The entries an OS crash takes are not below a watermark it leaves.
LEMMA OSCrashInv ==
    ASSUME DeliveryInv, NEW n \in 0..Len(ledger), NEW k \in 0..Len(marks), OSCrash(n, k)
    PROVE  DeliveryInv'
<1>1. /\ UNCHANGED <<diskKey, stored, state, enrolled, revoked, untouched, restarts, faults>>
      /\ osCrashes < MaxOSCrashes /\ osCrashes' = osCrashes + 1 /\ osCrashes \in Nat
      /\ ledger' = SubSeq(ledger, 1, n) /\ marks' = SubSeq(marks, 1, k)
      /\ key' = diskKey /\ mem' = n
      /\ TypeOK /\ ledger \in Seq(Entries) /\ Len(ledger) \in Nat /\ Len(ledger) <= MaxSeq
      /\ marks \in Seq([wm : Nat, at : Nat]) /\ Len(marks) \in Nat
  BY DEF OSCrash, DeliveryInv, TypeOK
<1>2. LetGo
  BY <1>1, LetGoIs DEF OSCrash, Abandon
<1>3. /\ ledger' \in Seq(Entries) /\ Len(ledger') = n
      /\ \A s \in 1..n : s \in 1..Len(ledger) /\ ledger'[s] = ledger[s]
  <2>1. \A i \in 1..n : ledger[i] \in Entries /\ i \in 1..Len(ledger) /\ 1 + i - 1 = i
    BY <1>1
  <2>2. n \in Nat /\ n - 1 + 1 = n
    BY <1>1
  <2> QED BY <1>1, <2>1, <2>2, SubSeqProperties
<1>4. /\ marks' \in Seq([wm : Nat, at : Nat]) /\ Len(marks') = k
      /\ \A i \in 1..k : i \in 1..Len(marks) /\ marks'[i] = marks[i]
  <2>1. \A i \in 1..k : marks[i] \in [wm : Nat, at : Nat] /\ i \in 1..Len(marks) /\ 1 + i - 1 = i
    <3>1. \A i \in 1..k : i \in 1..Len(marks) /\ 1 + i - 1 = i
      BY <1>1
    <3> QED BY <1>1, <3>1, ElementOfSeq
  <2>2. k \in Nat /\ k - 1 + 1 = k
    BY <1>1
  <2> QED BY <1>1, <2>1, <2>2, SubSeqProperties
<1>5. TypeOK'
  <2>1. osCrashes' \in 0..MaxOSCrashes /\ mem' \in Nat /\ Len(ledger') <= MaxSeq
    BY <1>1, <1>3, DeliveryAssumption
  <2> QED BY <1>1, <1>2, <1>3, <1>4, <2>1, LetGoType DEF TypeOK
<1>6. \A i \in 1..k : marks[i].at <= n
  <2>1. \A i \in 1..Len(marks) : marks[i].at > n => i > k
    BY DEF OSCrash
  <2>2. \A i \in 1..k : i \in 1..Len(marks) /\ ~(marks[i].at > n) /\ marks[i].at \in Nat /\ n \in Nat
    BY <1>1, <1>4, <2>1, MarkIs
  <2> QED BY <2>2
<1>7. MarksOK'
  <2> SUFFICES ASSUME NEW i \in 1..k
               PROVE  /\ marks[i].wm <= marks[i].at
                      /\ marks[i].at <= Len(ledger')
                      /\ \A s \in 1..marks[i].wm : Delivered(s)'
    BY <1>4 DEF MarksOK
  <2>1. /\ marks[i].wm <= marks[i].at
        /\ \A s \in 1..marks[i].wm : Delivered(s)
    BY <1>4 DEF DeliveryInv, MarksOK
  <2>2. marks[i].wm \in Nat /\ marks[i].at \in Nat
    BY <1>1, <1>4, MarkIs
  <2>3. \A s \in 1..marks[i].wm : s \in 1..n
    BY <1>6, <2>1, <2>2
  <2>4. Grown
    BY <1>1 DEF Grown
  <2> QED BY <1>1, <1>3, <1>6, <2>1, <2>3, <2>4, DeliveredStays
<1>8. StoredIsTable' /\ (mem <= Len(ledger))' /\ StoreAgrees'
  BY <1>1, <1>3 DEF DeliveryInv, StoredIsTable, StoreAgrees
<1>9. \A d \in Devices : SummaryOK(d)'
  BY <1>1, <1>2, SummaryStays DEF LetGo
<1>10. osCrashes' # 0
  BY <1>1
<1> QED BY <1>1, <1>2, <1>5, <1>7, <1>8, <1>9, <1>10, LetGoInv DEF DeliveryInv

-----------------------------------------------------------------------------
(* The shipper *)

\* The shipper stops waiting; the request may still arrive.
LEMMA TimeoutInv == DeliveryInv /\ Timeout => DeliveryInv'
<1> SUFFICES ASSUME DeliveryInv, Timeout PROVE DeliveryInv'
  OBVIOUS
<1>1. /\ UNCHANGED <<ledger, marks, diskKey, key, mem, stored, state, enrolled, revoked, untouched,
                     osCrashes, restarts>>
      /\ faults < MaxFaults /\ faults' = faults + 1 /\ TypeOK
  BY DEF Timeout, device, DeliveryInv
<1>2. LetGo
  BY <1>1, LetGoIs DEF Timeout
<1>3. TypeOK'
  BY <1>1, <1>2, LetGoType, DeliveryAssumption DEF TypeOK
<1>4. \A d \in Devices : SummaryOK(d)'
  BY <1>1, <1>2, SummaryStays DEF LetGo
<1> QED BY <1>1, <1>2, <1>3, <1>4, LetGoInv, EvidenceStays DEF DeliveryInv

\* The shipper rests, and nobody is under way to answer it.
LEMMA RestStep ==
    ASSUME DeliveryInv, ship' = Idle, \A r \in net : ~r.live, srv.pc = "touch" => ~srv.live,
           UNCHANGED <<ledger, marks, diskKey, key, mem, net, srv, stored, state, enrolled, revoked,
                       untouched, osCrashes, restarts, faults>>
    PROVE  DeliveryInv'
<1>1. TypeOK'
  BY DEF DeliveryInv, TypeOK
<1>2. /\ StoredIsTable' /\ (mem <= Len(ledger))' /\ MarksOK' /\ StoreAgrees'
      /\ \A r : CarriesLedger(r)' <=> CarriesLedger(r)
  BY EvidenceStays
<1>3. (\A r \in net' : RequestOK(r)') /\ OneLive'
  BY <1>2 DEF DeliveryInv, RequestOK, OneLive
<1>4. TouchOK' /\ AnswerOK'
  BY DEF DeliveryInv, TouchOK, AnswerOK, Idle
<1>5. \A d \in Devices : SummaryOK(d)'
  BY SummaryStays
<1> QED BY <1>1, <1>2, <1>3, <1>4, <1>5 DEF DeliveryInv

\* A refused batch is given up until the next pass.
LEMMA GiveUpInv == DeliveryInv /\ GiveUp => DeliveryInv'
BY RestStep DEF GiveUp, device, store, counters

\* The request is the ledger's next entries, and nobody else waits.
LEMMA ShipInv ==
    ASSUME DeliveryInv, NEW n \in 1..MAX_BATCH_EVENTS, Ship(n)
    PROVE  DeliveryInv'
<1> DEFINE b == SubSeq(ledger, Synced + 1, Synced + n)
           new == [dev |-> key, from |-> Synced + 1, live |-> TRUE, batch |-> b]
<1>1. /\ UNCHANGED <<ledger, marks, diskKey, key, mem, srv, stored, state, enrolled, revoked,
                     untouched, osCrashes, restarts, faults>>
      /\ ship = Idle /\ Synced + n <= Len(ledger)
      /\ ship' = [pc |-> "waiting", upTo |-> Synced + n]
      /\ net' = net \cup {new}
  BY DEF Ship, device, store, counters
<1>2. /\ TypeOK /\ Synced \in Nat /\ n \in Nat \ {0} /\ Len(ledger) \in Nat /\ Len(ledger) <= MaxSeq
      /\ ledger \in Seq(Entries) /\ key \in Devices
  <2>1. TypeOK /\ ledger \in Seq(Entries) /\ key \in Devices /\ Len(ledger) <= MaxSeq
    BY DEF DeliveryInv, TypeOK
  <2>2. n \in Nat \ {0}
    BY DeliveryAssumption
  <2> QED BY <2>1, <2>2, SyncedIs, LenProperties
<1>3. /\ b \in Seq(Entries) /\ Len(b) = n
      /\ \A i \in 1..n : b[i] = ledger[Synced + i]
  <2>1. \A i \in Synced + 1..Synced + n : ledger[i] \in Entries
    <3>1. \A i \in Synced + 1..Synced + n : i \in 1..Len(ledger)
      BY <1>1, <1>2
    <3> QED BY <1>2, <3>1
  <2>2. Synced + n - (Synced + 1) + 1 = n /\ Synced + 1 <= Synced + n
    BY <1>2
  <2>3. \A i \in 1..n : Synced + 1 + i - 1 = Synced + i
    BY <1>2
  <2> QED BY <1>2, <2>1, <2>2, <2>3, SubSeqProperties
<1> HIDE DEF b
<1>4. /\ new \in Requests /\ SeqsOf(new) = Synced + 1..Synced + n
      /\ \A s \in SeqsOf(new) : EntryAt(new, s) = ledger[s] /\ s \in 1..Len(ledger)
  <2>1. new \in Requests /\ new.from = Synced + 1 /\ new.batch = b
    BY <1>2, <1>3 DEF Requests
  <2>2. SeqsOf(new) = Synced + 1..Synced + n
    <3>1. SeqsOf(new) = Synced + 1 .. Synced + 1 + n - 1
      BY <1>3, <2>1 DEF SeqsOf
    <3>2. Synced + 1 + n - 1 = Synced + n
      BY <1>2
    <3> QED BY <3>1, <3>2
  <2> SUFFICES ASSUME NEW s \in Synced + 1..Synced + n
               PROVE  EntryAt(new, s) = ledger[s] /\ s \in 1..Len(ledger)
    BY <2>1, <2>2
  <2>3. s - (Synced + 1) + 1 \in 1..n /\ Synced + (s - (Synced + 1) + 1) = s
    BY <1>2
  <2>4. EntryAt(new, s) = b[s - (Synced + 1) + 1]
    BY <2>1 DEF EntryAt
  <2> QED BY <1>1, <1>2, <1>3, <2>3, <2>4
<1>5. new.live
  OBVIOUS
<1> HIDE DEF new
<1>6. TypeOK'
  <2>1. ship' \in [pc : {"waiting"}, upTo : Nat]
    BY <1>1, <1>2
  <2> QED BY <1>1, <1>2, <1>4, <2>1 DEF TypeOK
<1>7. /\ StoredIsTable' /\ (mem <= Len(ledger))' /\ MarksOK' /\ StoreAgrees'
      /\ Synced' = Synced /\ \A r : CarriesLedger(r)' <=> CarriesLedger(r)
  BY <1>1, EvidenceStays
<1>8. (\A r \in net : ~r.live) /\ (srv.pc = "touch" => ~srv.live)
  BY <1>1 DEF DeliveryInv, RequestOK, TouchOK, Idle
<1>9. ASSUME NEW r \in net' PROVE RequestOK(r)'
  <2>1. CASE r \in net
    BY <1>1, <1>7, <1>8, <2>1 DEF DeliveryInv, RequestOK
  <2>2. CASE r = new
    <3>1. CarriesLedger(new)
      BY <1>2, <1>4 DEF CarriesLedger
    <3>2. SeqsOf(new) \subseteq 1..MaxSeq
      <4>1. Len(ledger) \in Nat /\ Len(ledger) <= MaxSeq /\ MaxSeq \in Nat
        BY <1>2, DeliveryAssumption
      <4>2. 1..Len(ledger) \subseteq 1..MaxSeq
        BY <4>1
      <4>3. \A s \in SeqsOf(new) : s \in 1..Len(ledger)
        BY <1>4
      <4> QED BY <4>2, <4>3
    <3>3. ship'.pc = "waiting" /\ ship'.upTo = Synced + n
      BY <1>1
    <3> QED BY <1>4, <1>7, <2>2, <3>1, <3>2, <3>3 DEF RequestOK
  <2> QED BY <1>1, <2>1, <2>2
<1>10. OneLive'
  BY <1>1, <1>8 DEF OneLive
<1>11. TouchOK' /\ AnswerOK'
  BY <1>1, <1>8 DEF DeliveryInv, TouchOK, AnswerOK
<1>12. \A d \in Devices : SummaryOK(d)'
  BY <1>1, SummaryStays
<1> QED BY <1>6, <1>7, <1>9, <1>10, <1>11, <1>12 DEF DeliveryInv

\* _advance_watermark goes nowhere, or to a seq that was shipped.
LEMMA TargetIs ==
    ASSUME TypeOK, NEW upTo \in Nat, NEW gaps
    PROVE  Target(upTo, gaps) \in {Synced} \cup (Synced + 1..upTo)
<1> DEFINE blocking == {g[1] + 1 : g \in {h \in gaps : h[1] + 1 > Synced}}
           safe == {s \in Synced + 1..upTo : \A b \in blocking : s < b}
<1>1. Synced \in Nat
  BY SyncedIs
<1>2. CASE safe = {}
  BY <1>2 DEF Target
<1>3. CASE safe # {}
  <2>1. safe \subseteq Synced + 1..upTo
    OBVIOUS
  <2>2. Target(upTo, gaps) = CHOOSE s \in safe : \A u \in safe : u <= s
    BY <1>3 DEF Target
  <2> HIDE DEF safe
  <2>3. \A s \in safe : s \in Nat /\ s <= upTo
    BY <1>1, <2>1
  <2>4. \E m \in safe : \A s \in safe : s <= m
    BY <1>3, <2>3, GreatestExists
  <2> QED BY <2>1, <2>2, <2>4
<1> QED BY <1>2, <1>3

\* The watermark moves over what the store has said it holds.
LEMMA ReceiveInv == DeliveryInv /\ Receive => DeliveryInv'
<1> SUFFICES ASSUME DeliveryInv, Receive PROVE DeliveryInv'
  OBVIOUS
<1> DEFINE target == Target(ship.upTo, ship.gaps)
           m == [wm |-> target, at |-> Len(ledger)]
<1>1. /\ UNCHANGED <<ledger, diskKey, key, mem, net, srv, stored, state, enrolled, revoked,
                     untouched, osCrashes, restarts, faults>>
      /\ ship.pc = "answered" /\ ship' = Idle
      /\ marks' = IF ship.accepted /\ target > Synced /\ target <= mem THEN Append(marks, m) ELSE marks
  BY DEF Receive, store, counters
<1>2. TypeOK /\ Synced \in Nat /\ ship.upTo \in Nat /\ Len(ledger) \in Nat /\ mem \in Nat /\ mem <= Len(ledger)
  <2>1. TypeOK /\ ledger \in Seq(Entries) /\ mem \in Nat /\ mem <= Len(ledger)
    BY DEF DeliveryInv, TypeOK
  <2> QED BY <1>1, <2>1, SyncedIs, ShipIs, LenProperties
<1>3. (\A r \in net : ~r.live) /\ (srv.pc = "touch" => ~srv.live)
  BY <1>1 DEF DeliveryInv, RequestOK, TouchOK
<1>4. target \in {Synced} \cup (Synced + 1..ship.upTo)
  BY <1>2, TargetIs
<1> HIDE DEF target
<1>5. CASE ~(ship.accepted /\ target > Synced /\ target <= mem)
  BY <1>1, <1>3, <1>5, RestStep
<1>6. CASE ship.accepted /\ target > Synced /\ target <= mem
  <2>1. target \in Nat /\ target <= Len(ledger) /\ target \in Synced + 1..ship.upTo
    BY <1>2, <1>4, <1>6
  <2>2. m \in [wm : Nat, at : Nat] /\ m.wm = target /\ m.at = Len(ledger)
    BY <1>2, <2>1
  <2> HIDE DEF m
  <2>3. /\ marks' = Append(marks, m) /\ marks \in Seq([wm : Nat, at : Nat])
    BY <1>1, <1>2, <1>6 DEF TypeOK
  <2>4. /\ marks' \in Seq([wm : Nat, at : Nat]) /\ Len(marks') = Len(marks) + 1
        /\ marks'[Len(marks) + 1] = m /\ \A i \in 1..Len(marks) : marks'[i] = marks[i]
        /\ Len(marks) \in Nat
    BY <2>2, <2>3, AppendProperties, LenProperties
  <2>5. TypeOK'
    BY <1>1, <1>2, <2>4 DEF TypeOK
  <2>6. \A s : Delivered(s)' <=> Delivered(s)
    BY <1>1 DEF Delivered
  <2>7. \A s \in 1..target : Delivered(s)
    <3> SUFFICES ASSUME NEW s \in 1..target PROVE Delivered(s)
      OBVIOUS
    <3>1. CASE s <= Synced
      <4>1. s \in 1..Synced
        BY <1>2, <2>1, <3>1
      <4> QED BY <4>1, InvImpliesDelivered DEF WatermarkIsDelivered
    <3>2. CASE s > Synced
      <4>1. s \in Synced + 1..ship.upTo
        BY <1>2, <2>1, <3>2
      <4> QED BY <1>1, <1>6, <4>1 DEF DeliveryInv, AnswerOK, Arrived
    <3> QED BY <1>2, <2>1, <3>1, <3>2
  <2>8. MarksOK'
    <3> SUFFICES ASSUME NEW i \in 1..Len(marks')
                 PROVE  /\ marks'[i].wm <= marks'[i].at
                        /\ marks'[i].at <= Len(ledger)
                        /\ \A s \in 1..marks'[i].wm : Delivered(s)
      BY <1>1, <2>6 DEF MarksOK
    <3>1. CASE i \in 1..Len(marks)
      BY <2>4, <3>1 DEF DeliveryInv, MarksOK
    <3>2. CASE i = Len(marks) + 1
      <4>1. marks'[i].wm = target /\ marks'[i].at = Len(ledger)
        BY <2>2, <2>4, <3>2
      <4> QED BY <1>2, <2>1, <2>7, <4>1
    <3> QED BY <2>4, <3>1, <3>2
  <2>9. StoredIsTable' /\ (mem <= Len(ledger))' /\ StoreAgrees'
    BY <1>1, <1>2, <2>6 DEF DeliveryInv, StoredIsTable, StoreAgrees
  <2>10. (\A r \in net' : RequestOK(r)') /\ OneLive'
    BY <1>1, <1>3 DEF DeliveryInv, RequestOK, CarriesLedger, OneLive
  <2>11. TouchOK' /\ AnswerOK'
    BY <1>1, <1>3 DEF DeliveryInv, TouchOK, AnswerOK, Idle
  <2>12. \A d \in Devices : SummaryOK(d)'
    BY <1>1, SummaryStays
  <2> QED BY <2>5, <2>8, <2>9, <2>10, <2>11, <2>12 DEF DeliveryInv
<1> QED BY <1>5, <1>6

-----------------------------------------------------------------------------
(* The store *)

\* A device becomes known to the store.
LEMMA EnrolInv ==
    ASSUME DeliveryInv, NEW d \in Devices, Enrol(d) \/ Revoke(d)
    PROVE  DeliveryInv'
<1>1. /\ UNCHANGED <<ledger, marks, diskKey, key, mem, ship, net, srv, stored, state, untouched,
                     osCrashes, restarts, faults>>
      /\ enrolled' \subseteq Devices /\ revoked' \subseteq enrolled'
  BY DEF Enrol, Revoke, device, counters, DeliveryInv, TypeOK
<1>2. TypeOK'
  BY <1>1 DEF DeliveryInv, TypeOK
<1>3. /\ StoredIsTable' /\ (mem <= Len(ledger))' /\ MarksOK' /\ StoreAgrees' /\ Synced' = Synced
      /\ \A r : CarriesLedger(r)' <=> CarriesLedger(r)
      /\ \A upTo : Arrived(upTo)' <=> Arrived(upTo)
  BY <1>1, EvidenceStays
<1>4. (\A r \in net' : RequestOK(r)') /\ OneLive'
  BY <1>1, <1>3 DEF DeliveryInv, RequestOK, OneLive
<1>5. TouchOK' /\ AnswerOK'
  BY <1>1, <1>3 DEF DeliveryInv, TouchOK, AnswerOK
<1>6. \A e \in Devices : SummaryOK(e)'
  BY <1>1, SummaryStays
<1> QED BY <1>2, <1>3, <1>4, <1>5, <1>6 DEF DeliveryInv

\* The store refuses a batch whole.
LEMMA RefuseInv ==
    ASSUME DeliveryInv, NEW r \in net, Refuse(r)
    PROVE  DeliveryInv'
<1>1. /\ UNCHANGED <<ledger, marks, diskKey, key, mem, srv, stored, state, enrolled, revoked, untouched,
                     osCrashes, restarts, faults>>
      /\ srv = Idle /\ net' = net \ {r} /\ TypeOK
      /\ IF r.live THEN ship' = [pc |-> "answered", upTo |-> ship.upTo, accepted |-> FALSE, gaps |-> {}]
                   ELSE ship' = ship
  BY DEF Refuse, Answer, device, store, counters, DeliveryInv
<1>2. r.live => ship.pc = "waiting" /\ \A q \in net' : ~q.live
  BY <1>1 DEF DeliveryInv, RequestOK, OneLive
<1>3. r.live => ship' \in [pc : {"answered"}, upTo : Nat, accepted : BOOLEAN, gaps : SUBSET (Nat \X Nat)]
               /\ ship'.accepted = FALSE
  <2> SUFFICES ASSUME r.live
               PROVE  /\ ship' \in [pc : {"answered"}, upTo : Nat, accepted : BOOLEAN, gaps : SUBSET (Nat \X Nat)]
                      /\ ship'.accepted = FALSE
    OBVIOUS
  <2>1. ship' = [pc |-> "answered", upTo |-> ship.upTo, accepted |-> FALSE, gaps |-> {}]
    BY <1>1
  <2>2. ship.upTo \in Nat
    BY <1>1, <1>2, ShipIs
  <2> QED BY <2>1, <2>2
<1>4. TypeOK'
  BY <1>1, <1>3 DEF TypeOK
<1>5. /\ StoredIsTable' /\ (mem <= Len(ledger))' /\ MarksOK' /\ StoreAgrees' /\ Synced' = Synced
      /\ \A q : CarriesLedger(q)' <=> CarriesLedger(q)
      /\ \A upTo : Arrived(upTo)' <=> Arrived(upTo)
  BY <1>1, EvidenceStays
<1>6. \A q \in net' : RequestOK(q)'
  BY <1>1, <1>2, <1>5 DEF DeliveryInv, RequestOK
<1>7. OneLive' /\ TouchOK'
  BY <1>1 DEF DeliveryInv, OneLive, TouchOK, Idle
<1>8. AnswerOK'
  <2>1. CASE r.live
    BY <1>3, <2>1 DEF AnswerOK
  <2>2. CASE ~r.live
    BY <1>1, <1>5, <2>2 DEF DeliveryInv, AnswerOK
  <2> QED BY <2>1, <2>2
<1>9. \A d \in Devices : SummaryOK(d)'
  BY <1>1, SummaryStays
<1> QED BY <1>4, <1>5, <1>6, <1>7, <1>8, <1>9 DEF DeliveryInv

\* What COMMIT leaves in the tables.
LEMMA CommitIs ==
    ASSUME DeliveryInv, NEW r \in net, Commit(r)
    PROVE  LET new == SeqsOf(r) \ DOMAIN stored[r.dev]
           IN  /\ r \in Requests /\ r.dev \in Devices /\ new \subseteq 1..MaxSeq
               /\ StoredIsTable' /\ Grown
               /\ DOMAIN stored'[r.dev] = DOMAIN stored[r.dev] \cup new
               /\ stored'[r.dev] \in [DOMAIN stored'[r.dev] -> 0..MaxOSCrashes]
               /\ \A d \in Devices : d # r.dev => stored'[d] = stored[d]
               /\ \A s \in SeqsOf(r) : /\ s \in DOMAIN stored'[r.dev]
                                        /\ stored'[r.dev][s] = EntryAt(r, s).gen
                                        /\ EntryAt(r, s).dev = r.dev
<1> DEFINE new == SeqsOf(r) \ DOMAIN stored[r.dev]
           old == stored[r.dev]
           row == [s \in DOMAIN old \cup new |-> IF s \in new THEN EntryAt(r, s).gen ELSE old[s]]
<1>1. /\ TypeOK /\ StoredIsTable /\ r \in Requests /\ r.dev \in Devices /\ SeqsOf(r) \subseteq 1..MaxSeq
  BY DEF DeliveryInv, TypeOK, Requests, RequestOK
<1>2. Acceptable(r) /\ stored' = [stored EXCEPT ![r.dev] = row]
  BY DEF Commit
<1>3. \A s \in SeqsOf(r) : EntryAt(r, s).gen \in 0..MaxOSCrashes
  BY <1>1, EntryIs DEF Entries
<1>4. old \in [DOMAIN old -> 0..MaxOSCrashes]
  BY <1>1, TableIs
<1>5. /\ row \in [DOMAIN old \cup new -> 0..MaxOSCrashes] /\ DOMAIN row = DOMAIN old \cup new
      /\ \A s \in DOMAIN old : row[s] = old[s]
      /\ \A s \in new : row[s] = EntryAt(r, s).gen
  BY <1>3, <1>4
<1> HIDE DEF row
<1>6. stored'[r.dev] = row /\ (\A d \in Devices : d # r.dev => stored'[d] = stored[d]) /\ StoredIsTable'
  BY <1>1, <1>2 DEF StoredIsTable
<1>7. Grown
  BY <1>5, <1>6 DEF Grown
<1>8. \A s \in SeqsOf(r) : /\ s \in DOMAIN row /\ row[s] = EntryAt(r, s).gen
                           /\ EntryAt(r, s).dev = r.dev
  BY <1>2, <1>5 DEF Acceptable, Conflicts
<1> QED BY <1>1, <1>5, <1>6, <1>7, <1>8

\* What somebody waits for is on the store; who is told so comes later.
LEMMA CommitInv ==
    ASSUME DeliveryInv, NEW r \in net, Commit(r)
    PROVE  DeliveryInv'
<1> DEFINE new == SeqsOf(r) \ DOMAIN stored[r.dev]
<1>1. /\ UNCHANGED <<ledger, marks, diskKey, key, mem, ship, state, enrolled, revoked, untouched,
                     osCrashes, restarts, faults>>
      /\ srv = Idle /\ net' = net \ {r}
      /\ srv' = [pc |-> "touch", dev |-> r.dev, new |-> new, live |-> r.live,
                 head |-> state[r.dev].last]
  BY DEF Commit, device, counters
<1>2. /\ r \in Requests /\ r.dev \in Devices /\ new \subseteq 1..MaxSeq
      /\ StoredIsTable' /\ Grown
      /\ DOMAIN stored'[r.dev] = DOMAIN stored[r.dev] \cup new
      /\ stored'[r.dev] \in [DOMAIN stored'[r.dev] -> 0..MaxOSCrashes]
      /\ \A d \in Devices : d # r.dev => stored'[d] = stored[d]
      /\ \A s \in SeqsOf(r) : /\ s \in DOMAIN stored'[r.dev]
                               /\ stored'[r.dev][s] = EntryAt(r, s).gen
                               /\ EntryAt(r, s).dev = r.dev
  BY CommitIs
<1>3. new \cap DOMAIN stored[r.dev] = {} /\ new \subseteq SeqsOf(r)
  OBVIOUS
<1> HIDE DEF new
<1>4. /\ TypeOK /\ Len(ledger) \in Nat /\ ledger \in Seq(Entries) /\ Synced \in Nat
      /\ state[r.dev].last \in Nat /\ r.live \in BOOLEAN
  <2>1. TypeOK /\ ledger \in Seq(Entries) /\ state[r.dev] \in States
    BY <1>2 DEF DeliveryInv, TypeOK
  <2>2. state[r.dev].last \in Nat /\ r.live \in BOOLEAN
    BY <1>2, <2>1 DEF States, Requests
  <2> QED BY <2>1, <2>2, SyncedIs, LenProperties
<1>5. /\ srv' \in [pc : {"touch"}, dev : Devices, new : SUBSET Nat, live : BOOLEAN, head : Nat]
      /\ srv'.pc = "touch" /\ srv'.dev = r.dev /\ srv'.new = new /\ srv'.live = r.live
      /\ srv'.head = state[r.dev].last
  BY <1>1, <1>2, <1>4, DeliveryAssumption
<1>6. TypeOK'
  <2>1. \A d \in Devices : /\ DOMAIN stored'[d] \subseteq 1..MaxSeq
                           /\ stored'[d] \in [DOMAIN stored'[d] -> 0..MaxOSCrashes]
    BY <1>2, <1>4, TableIs
  <2> QED BY <1>1, <1>4, <1>5, <2>1 DEF TypeOK
<1>7. \A s \in 1..Len(ledger) : Delivered(s) => Delivered(s)'
  BY <1>1, <1>2, <1>4, DeliveredStays
<1>8. (mem <= Len(ledger))' /\ MarksOK'
  <2>1. (mem <= Len(ledger))'
    BY <1>1 DEF DeliveryInv
  <2>2. ASSUME NEW i \in 1..Len(marks), NEW s \in 1..marks[i].wm PROVE Delivered(s)'
    <3>1. Delivered(s) /\ marks[i].wm <= marks[i].at /\ marks[i].at <= Len(ledger)
      BY DEF DeliveryInv, MarksOK
    <3>2. s \in 1..Len(ledger)
      BY <1>4, <3>1, MarkIs
    <3> QED BY <1>7, <3>1, <3>2
  <2> QED BY <1>1, <2>1, <2>2 DEF DeliveryInv, MarksOK
<1>9. Synced' = Synced
  BY <1>1 DEF Synced
<1>10. \A upTo \in Nat : Arrived(upTo) => Arrived(upTo)'
  <2> SUFFICES ASSUME NEW upTo \in Nat, Arrived(upTo), NEW s \in Synced + 1..upTo
               PROVE  s <= Len(ledger) /\ Delivered(s)'
    BY <1>1, <1>9 DEF Arrived
  <2>1. s <= Len(ledger) /\ Delivered(s)
    BY DEF Arrived
  <2>2. s \in 1..Len(ledger)
    BY <1>4, <2>1
  <2> QED BY <1>7, <2>1, <2>2
<1>11. ASSUME NEW s \in SeqsOf(r), EntryAt(r, s) = ledger[s] PROVE ledger[s].dev = r.dev /\ Delivered(s)'
  BY <1>1, <1>2, <1>11 DEF Delivered
<1>12. (\A q \in net' : RequestOK(q)') /\ OneLive'
  <2>1. \A q \in net' : q \in net /\ (CarriesLedger(q)' <=> CarriesLedger(q))
    BY <1>1 DEF CarriesLedger
  <2>2. r.live => \A q \in net' : ~q.live
    BY <1>1 DEF DeliveryInv, OneLive
  <2> QED BY <1>1, <1>5, <1>9, <2>1, <2>2 DEF DeliveryInv, RequestOK, OneLive
<1>13. TouchOK'
  <2>1. new \subseteq DOMAIN stored'[r.dev]
    BY <1>2
  <2>2. ASSUME r.live PROVE ship.pc = "waiting" /\ Arrived(ship.upTo)'
    <3>1. ship.pc = "waiting" /\ SeqsOf(r) = Synced + 1..ship.upTo /\ CarriesLedger(r)
      BY <2>2 DEF DeliveryInv, RequestOK
    <3> QED BY <1>1, <1>9, <1>11, <3>1 DEF Arrived, CarriesLedger
  <2> QED BY <1>1, <1>5, <2>1, <2>2 DEF TouchOK
<1>14. AnswerOK'
  BY <1>1, <1>4, <1>10, ShipIs DEF DeliveryInv, AnswerOK
<1>15. StoreAgrees'
  <2> SUFFICES ASSUME osCrashes = 0, NEW d \in Devices, NEW s \in DOMAIN stored'[d]
               PROVE  s <= Len(ledger) /\ ledger[s].dev = d /\ Delivered(s)'
    BY <1>1 DEF StoreAgrees
  <2>1. CASE s \in DOMAIN stored[d]
    <3>1. s <= Len(ledger) /\ ledger[s].dev = d /\ Delivered(s)
      BY <2>1 DEF DeliveryInv, StoreAgrees
    <3>2. s \in 1..Len(ledger)
      BY <1>4, <2>1, <3>1, TableIs, DeliveryAssumption
    <3> QED BY <1>7, <3>1, <3>2
  <2>2. CASE s \notin DOMAIN stored[d]
    <3>1. d = r.dev /\ s \in SeqsOf(r)
      BY <1>2, <1>3, <2>2
    <3>2. s <= Len(ledger) /\ EntryAt(r, s) = ledger[s]
      BY <3>1 DEF DeliveryInv, RequestOK, CarriesLedger
    <3> QED BY <1>11, <3>1, <3>2
  <2> QED BY <2>1, <2>2
<1>16. \A d \in Devices : SummaryOK(d)'
  <2>1. \A d \in Devices : Known(d)' = Known(d)
    BY <1>1, <1>2, <1>3, <1>5 DEF Known, Idle
  <2> QED BY <1>1, <2>1 DEF DeliveryInv, SummaryOK
<1> QED BY <1>2, <1>6, <1>8, <1>12, <1>13, <1>14, <1>15, <1>16 DEF DeliveryInv

\* The store dies: the summary falls behind, and never ahead.
LEMMA StoreCrashInv == DeliveryInv /\ StoreCrash => DeliveryInv'
<1> SUFFICES ASSUME DeliveryInv, StoreCrash PROVE DeliveryInv'
  OBVIOUS
<1>1. /\ UNCHANGED <<ledger, marks, diskKey, key, mem, ship, net, stored, state, enrolled, revoked,
                     osCrashes, restarts>>
      /\ srv.pc = "touch" /\ srv' = Idle /\ untouched' = untouched \cup {srv.dev}
      /\ faults < MaxFaults /\ faults' = faults + 1 /\ TypeOK
  BY DEF StoreCrash, device, DeliveryInv
<1>2. srv.dev \in Devices
  BY <1>1 DEF TypeOK, Idle
<1>3. TypeOK'
  BY <1>1, <1>2, DeliveryAssumption DEF TypeOK
<1>4. /\ StoredIsTable' /\ (mem <= Len(ledger))' /\ MarksOK' /\ StoreAgrees' /\ Synced' = Synced
      /\ \A q : CarriesLedger(q)' <=> CarriesLedger(q)
      /\ \A upTo : Arrived(upTo)' <=> Arrived(upTo)
  BY <1>1, EvidenceStays
<1>5. (\A r \in net' : RequestOK(r)') /\ OneLive' /\ TouchOK' /\ AnswerOK'
  BY <1>1, <1>4 DEF DeliveryInv, RequestOK, OneLive, TouchOK, AnswerOK, Idle
<1>6. ASSUME NEW d \in Devices PROVE SummaryOK(d)'
  <2>1. SummaryOK(d) /\ state' = state
    BY <1>1 DEF DeliveryInv
  <2>2. CASE d # srv.dev
    <3>1. Known(d)' = Known(d)
      BY <1>1, <2>2 DEF Known, Idle
    <3> QED BY <1>1, <2>1, <2>2, <3>1 DEF SummaryOK
  <2>3. CASE d = srv.dev
    <3>1. Known(d)' = DOMAIN stored[d] /\ Known(d) \subseteq DOMAIN stored[d]
      BY <1>1 DEF Known, Idle
    <3>2. IsFiniteSet(DOMAIN stored[d])
      BY <1>1, TableIs
    <3>3. /\ Cardinality(Known(d)) \in Nat /\ Cardinality(DOMAIN stored[d]) \in Nat
          /\ Cardinality(Known(d)) <= Cardinality(DOMAIN stored[d])
      BY <3>1, <3>2, FS_Subset, FS_CardinalityType
    <3>4. state[d].count \in Nat
      BY <1>1 DEF TypeOK, States
    <3>5. state[d].count <= Cardinality(DOMAIN stored[d])
      BY <2>1, <3>3, <3>4 DEF SummaryOK
    <3> QED BY <1>1, <2>1, <2>3, <3>1, <3>5 DEF SummaryOK
  <2> QED BY <2>2, <2>3
<1> QED BY <1>3, <1>4, <1>5, <1>6 DEF DeliveryInv

\* A contiguous tail opens no gap, and closes none.
LEMMA TailKeepsGaps ==
    ASSUME NEW K \in SUBSET Nat, NEW last \in K, \A s \in K : s <= last, NEW c \in Nat
    PROVE  SeqGaps(K \cup (last + 1..last + c)) = SeqGaps(K)
<1> DEFINE new == last + 1..last + c
           U == K \cup new
<1>1. \A s \in new : s \in Nat /\ s > last /\ s - 1 \in U
  OBVIOUS
<1>2. U \subseteq Nat
  BY <1>1
<1>3. ASSUME NEW a \in U, NEW b \in U, a + 1 < b, \A s \in U : ~(a < s /\ s < b)
      PROVE  a \in K /\ b \in K
  <2>1. b \notin new
    <3> SUFFICES ASSUME b \in new PROVE FALSE
      OBVIOUS
    <3>1. b - 1 \in U /\ a \in Nat /\ b \in Nat
      BY <1>1, <1>2
    <3>2. a < b - 1 /\ b - 1 < b
      BY <1>3, <3>1
    <3> QED BY <1>3, <3>1, <3>2
  <2>2. b \in K /\ b <= last /\ a \in Nat /\ b \in Nat /\ last \in Nat
    BY <1>2, <2>1
  <2>3. a \notin new
    BY <1>1, <1>3, <2>2
  <2> QED BY <2>2, <2>3
<1>4. ASSUME NEW a \in K, NEW b \in K, NEW s \in new PROVE ~(a < s /\ s < b)
  BY <1>1
<1>5. \A g : g \in SeqGaps(U) => g \in SeqGaps(K)
  <2> SUFFICES ASSUME NEW g, g \in SeqGaps(U) PROVE g \in SeqGaps(K)
    OBVIOUS
  <2>1. /\ g \in U \X U /\ g[1] + 1 < g[2] /\ \A s \in U : ~(g[1] < s /\ s < g[2])
    BY DEF SeqGaps
  <2>2. g[1] \in K /\ g[2] \in K
    BY <1>3, <2>1
  <2> QED BY <2>1, <2>2 DEF SeqGaps
<1>6. \A g : g \in SeqGaps(K) => g \in SeqGaps(U)
  <2> SUFFICES ASSUME NEW g, g \in SeqGaps(K) PROVE g \in SeqGaps(U)
    OBVIOUS
  <2>1. /\ g \in K \X K /\ g[1] + 1 < g[2] /\ \A s \in K : ~(g[1] < s /\ s < g[2])
    BY DEF SeqGaps
  <2>2. g \in U \X U /\ \A s \in U : ~(g[1] < s /\ s < g[2])
    BY <1>4, <2>1
  <2> QED BY <2>1, <2>2 DEF SeqGaps
<1> QED BY <1>5, <1>6

\* _touch_state brings the summary up to the tables, by recomputing it or,
\* for a contiguous tail, without.
LEMMA TouchedIs ==
    ASSUME DeliveryInv, srv.pc = "touch"
    PROVE  LET d == srv.dev
               D == DOMAIN stored[d]
               t == Touched(state[d])
           IN  /\ t \in States
               /\ t.count <= Cardinality(D)
               /\ t.last \in D \cup {0}
               /\ d \notin untouched =>
                    /\ t.count = Cardinality(D)
                    /\ \A s \in D : s <= t.last
                    /\ t.gaps = SeqGaps(D)
<1> DEFINE d == srv.dev
           D == DOMAIN stored[d]
           t == Touched(state[d])
           K == Known(d)
           new == srv.new
           old == state[d]
<1>1. /\ TypeOK /\ d \in Devices /\ new \subseteq D /\ srv.head = old.last
      /\ SummaryOK(d) /\ K = D \ new
  BY DEF DeliveryInv, TypeOK, Idle, TouchOK, Known
<1>2. D \subseteq 1..MaxSeq /\ IsFiniteSet(D)
  BY <1>1, TableIs
<1>3. old \in States /\ old.last \in Nat /\ old.count \in Nat
  BY <1>1 DEF TypeOK, States
<1>4. /\ D = K \cup new /\ K \cap new = {} /\ IsFiniteSet(K) /\ IsFiniteSet(new)
      /\ \A s \in D : s \in Nat /\ s # 0 /\ s <= MaxSeq
  BY <1>1, <1>2, FS_Subset, DeliveryAssumption
<1>5. /\ old.count <= Cardinality(K)
      /\ old.last \in K \cup {0}
      /\ d \notin untouched => /\ old.count = Cardinality(K)
                               /\ \A s \in K : s <= old.last
                               /\ old.gaps = SeqGaps(K)
  BY <1>1 DEF SummaryOK
<1>6. /\ Cardinality(K) \in Nat /\ Cardinality(new) \in Nat
      /\ Cardinality(D) = Cardinality(K) + Cardinality(new)
  <2>1. Cardinality(K) \in Nat /\ Cardinality(new) \in Nat
    BY <1>4, FS_CardinalityType
  <2>2. Cardinality(K \cup new) = Cardinality(K) + Cardinality(new) - Cardinality(K \cap new)
    BY <1>4, FS_Union
  <2>3. Cardinality(K \cap new) = 0 /\ Cardinality(D) = Cardinality(K \cup new)
    <3> HIDE DEF D, K, new
    <3> QED BY <1>4, FS_EmptySet
  <2> HIDE DEF D, K, new
  <2> QED BY <2>1, <2>2, <2>3
<1>7. CASE new = {}
  <2>1. t = old /\ K = D
    BY <1>4, <1>7 DEF Touched
  <2> QED BY <1>3, <1>5, <2>1
<1>8. CASE new # {}
  <2> DEFINE T == new \cup {old.last}
             last == CHOOSE m \in T : \A s \in T : s <= m
             gaps == IF ContiguousTail THEN old.gaps ELSE SeqGaps(D)
             count == old.count + Cardinality(new)
  <2>1. t = [last |-> last, count |-> count, gaps |-> gaps]
    BY <1>8 DEF Touched
  <2>2. last \in T /\ \A s \in T : s <= last
    <3>1. T \in SUBSET Nat /\ T # {}
      BY <1>3, <1>4
    <3>2. PICK N \in Nat : \A s \in T : s <= N
      <4> DEFINE N == MaxSeq + old.last
      <4>1. N \in Nat /\ \A s \in T : s <= N
        BY <1>3, <1>4, DeliveryAssumption
      <4> QED BY <4>1
    <3> HIDE DEF T
    <3>3. \E m \in T : \A s \in T : s <= m
      BY <3>1, <3>2, GreatestExists
    <3> QED BY <3>3
  <2> HIDE DEF last
  <2>3. last \in D \cup {0} /\ last \in Nat
    BY <1>1, <1>3, <1>4, <1>5, <2>2
  <2>4. count \in Nat /\ count <= Cardinality(D)
        /\ (d \notin untouched => count = Cardinality(D))
    BY <1>3, <1>5, <1>6
  <2>5. gaps \in SUBSET (Nat \X Nat)
    <3>1. SeqGaps(D) \in SUBSET (Nat \X Nat)
      <4>1. SeqGaps(D) \subseteq D \X D /\ D \subseteq Nat
        BY <1>4 DEF SeqGaps
      <4> HIDE DEF D
      <4> QED BY <4>1
    <3>2. old.gaps \in SUBSET (Nat \X Nat)
      BY <1>3 DEF States
    <3> QED BY <3>1, <3>2
  <2>6. ASSUME d \notin untouched PROVE \A s \in D : s <= last
    <3>1. \A s \in K : s <= old.last
      BY <1>5, <2>6
    <3>2. \A s \in D : s \in Nat /\ (s \in K \/ s \in T)
      BY <1>4
    <3> QED BY <1>3, <2>2, <2>3, <3>1, <3>2
  <2>7. ASSUME d \notin untouched PROVE gaps = SeqGaps(D)
    <3>1. CASE ~ContiguousTail
      BY <3>1
    <3>2. CASE ContiguousTail
      <4>1. new = (IF old.last = 0 THEN 0 ELSE old.last + 1)
                  .. (IF old.last = 0 THEN 0 ELSE old.last + 1) + Cardinality(new) - 1
        BY <1>1, <3>2 DEF ContiguousTail
      <4>2. Cardinality(new) # 0
        BY <1>4, <1>8, FS_EmptySet
      <4>3. old.last # 0
        <5> SUFFICES ASSUME old.last = 0 PROVE FALSE
          OBVIOUS
        <5>1. new = 0 .. 0 + Cardinality(new) - 1
          BY <4>1
        <5>2. 0 \in new
          BY <1>6, <4>2, <5>1
        <5> QED BY <1>4, <5>2
      <4>4. new = old.last + 1 .. old.last + Cardinality(new)
        <5>1. new = old.last + 1 .. old.last + 1 + Cardinality(new) - 1
          BY <4>1, <4>3
        <5>2. old.last + 1 + Cardinality(new) - 1 = old.last + Cardinality(new)
          BY <1>3, <1>6
        <5> QED BY <5>1, <5>2
      <4>5. old.last \in K /\ K \in SUBSET Nat /\ \A s \in K : s <= old.last
        BY <1>4, <1>5, <2>7, <4>3
      <4>6. SeqGaps(K \cup new) = SeqGaps(K)
        <5> DEFINE c == Cardinality(new)
                   l == old.last
        <5>1. c \in Nat /\ l \in K /\ new = l + 1 .. l + c /\ K \in SUBSET Nat /\ \A s \in K : s <= l
          BY <1>6, <4>4, <4>5
        <5> HIDE DEF K, new, old, c, l
        <5>2. SeqGaps(K \cup (l + 1..l + c)) = SeqGaps(K)
          BY <5>1, TailKeepsGaps
        <5> QED BY <5>1, <5>2
      <4> QED BY <1>4, <1>5, <2>7, <3>2, <4>6
    <3> QED BY <3>1, <3>2
  <2> HIDE DEF t, gaps, count
  <2>8. t \in States /\ t.last = last /\ t.count = count /\ t.gaps = gaps
    BY <2>1, <2>3, <2>4, <2>5 DEF States
  <2> QED BY <2>3, <2>4, <2>6, <2>7, <2>8 DEF t
<1> QED BY <1>7, <1>8

\* The summary follows, and the shipper is told.
LEMMA TouchStateInv == DeliveryInv /\ TouchState => DeliveryInv'
<1> SUFFICES ASSUME DeliveryInv, TouchState PROVE DeliveryInv'
  OBVIOUS
<1> DEFINE d == srv.dev
           t == Touched(state[d])
<1>1. /\ UNCHANGED <<ledger, marks, diskKey, key, mem, net, stored, enrolled, revoked, untouched,
                     osCrashes, restarts, faults>>
      /\ srv.pc = "touch" /\ srv' = Idle /\ state' = [state EXCEPT ![d] = t]
      /\ srv.live => ship' = [pc |-> "answered", upTo |-> ship.upTo, accepted |-> TRUE,
                              gaps |-> state'[d].gaps]
      /\ ~srv.live => ship' = ship
  BY DEF TouchState, Answer, device, counters
<1>2. TypeOK /\ d \in Devices /\ state \in [Devices -> States]
  BY <1>1 DEF DeliveryInv, TypeOK, Idle
<1>3. /\ t \in States
      /\ t.count <= Cardinality(DOMAIN stored[d])
      /\ t.last \in DOMAIN stored[d] \cup {0}
      /\ d \notin untouched => /\ t.count = Cardinality(DOMAIN stored[d])
                               /\ \A s \in DOMAIN stored[d] : s <= t.last
                               /\ t.gaps = SeqGaps(DOMAIN stored[d])
  BY <1>1, TouchedIs
<1> HIDE DEF t, d
<1>4. state' \in [Devices -> States] /\ state'[d] = t /\ \A e \in Devices : e # d => state'[e] = state[e]
  BY <1>1, <1>2, <1>3
<1>5. srv.live => ship.pc = "waiting" /\ Arrived(ship.upTo) /\ \A r \in net : ~r.live
  BY <1>1 DEF DeliveryInv, TouchOK, OneLive
<1>6. srv.live => /\ ship' \in [pc : {"answered"}, upTo : Nat, accepted : BOOLEAN,
                                gaps : SUBSET (Nat \X Nat)]
                  /\ ship'.upTo = ship.upTo /\ ship'.pc = "answered"
  <2> SUFFICES ASSUME srv.live
               PROVE  /\ ship' \in [pc : {"answered"}, upTo : Nat, accepted : BOOLEAN,
                                    gaps : SUBSET (Nat \X Nat)]
                      /\ ship'.upTo = ship.upTo /\ ship'.pc = "answered"
    OBVIOUS
  <2>1. ship.upTo \in Nat
    BY <1>2, <1>5, ShipIs
  <2>2. state'[d].gaps \in SUBSET (Nat \X Nat)
    BY <1>3, <1>4 DEF States
  <2> DEFINE g == state'[d].gaps
  <2>3. ship' = [pc |-> "answered", upTo |-> ship.upTo, accepted |-> TRUE, gaps |-> g]
    BY <1>1
  <2> HIDE DEF g
  <2> QED BY <2>1, <2>2, <2>3 DEF g
<1>7. TypeOK'
  BY <1>1, <1>2, <1>4, <1>6 DEF TypeOK
<1>8. /\ StoredIsTable' /\ (mem <= Len(ledger))' /\ MarksOK' /\ StoreAgrees' /\ Synced' = Synced
      /\ \A q : CarriesLedger(q)' <=> CarriesLedger(q)
      /\ \A upTo : Arrived(upTo)' <=> Arrived(upTo)
  BY <1>1, EvidenceStays
<1>9. \A r \in net' : RequestOK(r)'
  BY <1>1, <1>5, <1>8 DEF DeliveryInv, RequestOK
<1>10. OneLive' /\ TouchOK'
  BY <1>1 DEF DeliveryInv, OneLive, TouchOK, Idle
<1>11. AnswerOK'
  <2>1. CASE srv.live
    BY <1>5, <1>6, <1>8, <2>1 DEF AnswerOK
  <2>2. CASE ~srv.live
    BY <1>1, <1>8, <2>2 DEF DeliveryInv, AnswerOK
  <2> QED BY <2>1, <2>2
<1>12. ASSUME NEW e \in Devices PROVE SummaryOK(e)'
  <2>1. Known(e)' = DOMAIN stored[e]
    BY <1>1 DEF Known, Idle
  <2>2. CASE e = d
    BY <1>1, <1>3, <1>4, <2>1, <2>2 DEF SummaryOK
  <2>3. CASE e # d
    <3>1. Known(e) = DOMAIN stored[e] /\ SummaryOK(e)
      BY <2>3 DEF Known, DeliveryInv, d
    <3> QED BY <1>1, <1>4, <2>1, <2>3, <3>1 DEF SummaryOK
  <2> QED BY <2>2, <2>3
<1> QED BY <1>7, <1>8, <1>9, <1>10, <1>11, <1>12 DEF DeliveryInv

-----------------------------------------------------------------------------
(* Theorems *)

\* Stuttering.
LEMMA DeliveryStutter == DeliveryInv /\ UNCHANGED vars => DeliveryInv'
<1> SUFFICES ASSUME DeliveryInv, UNCHANGED vars PROVE DeliveryInv'
  OBVIOUS
<1> USE DEF vars
<1>1. TypeOK'
  BY DEF DeliveryInv, TypeOK
<1>2. /\ StoredIsTable' /\ (mem <= Len(ledger))' /\ MarksOK' /\ StoreAgrees' /\ Synced' = Synced
      /\ \A q : CarriesLedger(q)' <=> CarriesLedger(q)
      /\ \A upTo : Arrived(upTo)' <=> Arrived(upTo)
  BY EvidenceStays
<1>3. (\A r \in net' : RequestOK(r)') /\ OneLive' /\ TouchOK' /\ AnswerOK'
  BY <1>2 DEF DeliveryInv, RequestOK, OneLive, TouchOK, AnswerOK
<1>4. \A d \in Devices : SummaryOK(d)'
  BY SummaryStays
<1> QED BY <1>1, <1>2, <1>3, <1>4 DEF DeliveryInv

\* Every step preserves the invariant.
LEMMA DeliveryNext == DeliveryInv /\ [Next]_vars => DeliveryInv'
<1> SUFFICES ASSUME DeliveryInv, [Next]_vars PROVE DeliveryInv'
  OBVIOUS
<1>1. ASSUME \E n \in 0..Len(ledger), k \in 0..Len(marks) : OSCrash(n, k) PROVE DeliveryInv'
  BY <1>1, OSCrashInv
<1>2. ASSUME ShipperStep PROVE DeliveryInv'
  BY <1>2, ShipInv, ReceiveInv, GiveUpInv DEF ShipperStep
<1>3. ASSUME StoreStep PROVE DeliveryInv'
  BY <1>3, RefuseInv, CommitInv, TouchStateInv DEF StoreStep, Handle
<1>4. ASSUME \E d \in Devices : Enrol(d) \/ Revoke(d) PROVE DeliveryInv'
  BY <1>4, EnrolInv
<1> QED BY <1>1, <1>2, <1>3, <1>4, RecordInv, RotateInv, RestartInv, TimeoutInv, StoreCrashInv,
           DeliveryStutter DEF Next

\* The invariant holds in every behaviour of shipper, network and store.
THEOREM DeliveryInvariant == Spec => []DeliveryInv
<1> QED BY DeliveryInit, DeliveryNext, PTL DEF Spec

\* shipper.py, ledger.py set_synced_up_to: an entry the watermark has passed
\* is on the store, unchanged, whatever was lost, late, cut or restarted.
THEOREM WatermarkSafe == Spec => []WatermarkIsDelivered
<1> QED BY DeliveryInvariant, InvImpliesDelivered, PTL

\* store.py accept_batch, _touch_state: the store agrees with an honest
\* device's ledger, and the summary never claims more than the store holds.
THEOREM DeviceNotAccused == Spec => []HonestDeviceNotAccused
<1> QED BY DeliveryInvariant, InvImpliesHonest, PTL

\* No step of anyone alters or withdraws an entry the store has taken.
LEMMA StoreOnlyGrows == DeliveryInv /\ [Next]_vars => Grown \/ UNCHANGED vars
<1> SUFFICES ASSUME DeliveryInv, Next PROVE Grown
  OBVIOUS
<1>1. CASE stored' = stored
  BY <1>1 DEF Grown
<1>2. CASE \E r \in net : Commit(r)
  BY <1>2, CommitIs
<1>3. stored' = stored \/ \E r \in net : Commit(r)
  BY DEF Next, ShipperStep, StoreStep, Handle, Record, Rotate, Restart, OSCrash, Ship, Receive,
         GiveUp, Timeout, Enrol, Revoke, Refuse, TouchState, StoreCrash, store
<1> QED BY <1>1, <1>2, <1>3

\* store.py entries: evidence once accepted is never altered or withdrawn.
THEOREM EvidenceKept == Spec => EvidenceImmutable
<1> DEFINE A == \A d \in Devices : \A s \in DOMAIN stored[d] :
                  s \in DOMAIN stored'[d] /\ stored'[d][s] = stored[d][s]
<1>1. DeliveryInv /\ [Next]_vars => [A]_vars
  BY StoreOnlyGrows DEF Grown
<1>2. []DeliveryInv /\ [][Next]_vars => [][A]_vars
  BY <1>1, PTL
<1> QED BY <1>2, DeliveryInvariant DEF Spec, EvidenceImmutable

-----------------------------------------------------------------------------
(* Streams                                                                 *)

\* A non-empty set of numbers has a least.
LEMMA LeastNat ==
    ASSUME NEW S, S \subseteq Nat, S # {}
    PROVE  \E m \in S : \A n \in S : m <= n
<1> DEFINE R == OpToRel(<, Nat)
<1>1. \A x, y \in Nat : y < x => <<y, x>> \in R
    BY DEF OpToRel
<1>2. IsWellFoundedOn(R, Nat)
    BY NatLessThanWellFounded
<1> HIDE DEF R
<1>3. PICK x \in S : \A y \in S : ~ (<<y, x>> \in R)
    BY <1>2, WFMin
<1>4. \A y \in S : ~ (y < x)
    BY <1>1, <1>3
<1> QED
    BY <1>4

(* The inductive invariant of Streams.  Below, cs are the checkpoints, hs  *)
(* those the store holds, es the envelopes sealed and rs the rows.         *)

Windows == [from : Nat \ {0}, to : Nat \ {0}]
RowKinds == Subjects \cup {NoSubject, "captured"}

EmittedIn(cs) == {cs[i] : i \in DOMAIN cs}
OrderedIn(i, cs) == \A j \in 1..(i - 1) : cs[j].to < cs[i].to
AgentsIn(c, rs) == {rs[seq] : seq \in c.from..c.to} \cap Subjects
EventsIn(c, a, rs) == [subject |-> a, events |-> {seq \in c.from..c.to : rs[seq] = a}]
AttestedIn(c, es, rs) == \A a \in AgentsIn(c, rs) : EventsIn(c, a, rs) \in es

\* A batch leaves out no checkpoint inserted in order, up to any of its own,
\* that the store does not have.
BatchCovers(batch, cs, hs) ==
    /\ batch \subseteq EmittedIn(cs)
    /\ \A c \in batch, i \in 1..Len(cs) :
         OrderedIn(i, cs) /\ cs[i].to <= c.to => cs[i] \in hs \/ cs[i] \in batch

\* So it is with the checkpoints that a pass has to attest.
TodoCovers(todo, cs, es, rs) ==
    /\ todo \subseteq EmittedIn(cs) /\ todo # {}
    /\ \A c \in todo, i \in 1..Len(cs) :
         OrderedIn(i, cs) /\ cs[i].to <= c.to => AttestedIn(cs[i], es, rs) \/ cs[i] \in todo

\* The agents that the pass is done with have their envelope for the first.
LeftOK(p, es, rs) ==
    /\ p.left \subseteq AgentsIn(First(p.todo), rs)
    /\ \A a \in AgentsIn(First(p.todo), rs) \ p.left : EventsIn(First(p.todo), a, rs) \in es

PassOK(p, cs, hs, es, rs) ==
    /\ p.pc \in {"post", "answer"} => BatchCovers(p.batch, cs, hs)
    /\ p.pc = "answer" => p.batch \ p.rejected \subseteq hs /\ p.rejected \subseteq p.batch
    /\ p.pc = "attest" =>
         /\ p = [pc |-> "attest", todo |-> p.todo, left |-> p.left]
         /\ TodoCovers(p.todo, cs, es, rs)
         /\ LeftOK(p, es, rs)

\* A watermark is the end of some checkpoint, and what was inserted in order
\* up to it is where it should be.
Reached(n, cs) == n \in Nat /\ (n # 0 => \E i \in 1..Len(cs) : cs[i].to = n)
SyncOK(y, cs, hs, es, rs) ==
    /\ y = [checkpoint |-> y.checkpoint, attestation |-> y.attestation]
    /\ Reached(y.checkpoint, cs) /\ Reached(y.attestation, cs)
    /\ \A i \in 1..Len(cs) : OrderedIn(i, cs) =>
         /\ cs[i].to <= y.checkpoint => cs[i] \in hs
         /\ cs[i].to <= y.attestation => AttestedIn(cs[i], es, rs)

SealsOK(cs, es, rs) ==
    \A e \in es : \E c \in EmittedIn(cs) :
        e.subject \in AgentsIn(c, rs) /\ e = EventsIn(c, e.subject, rs)

\* Checkpoints are windows of the rows there are, no two with one end.
RecordedOK(cs, rs) ==
    /\ rs \in Seq(RowKinds) /\ cs \in Seq(Windows)
    /\ \A i \in 1..Len(cs) : cs[i].to <= Len(rs)
    /\ \A i, j \in 1..Len(cs) : cs[i].to = cs[j].to => i = j

WindowOK(w, rs) == w = NoWindow \/ (w \in Windows /\ w.to <= Len(rs))

StreamsInv ==
    /\ RecordedOK(checkpoints, rows)
    /\ open = [r \in Recorders |-> open[r]]
    /\ \A r \in Recorders : WindowOK(open[r], rows)
    /\ SyncOK(synced, checkpoints, held, sealed, rows)
    /\ pass = [r \in Recorders |-> pass[r]]
    /\ \A r \in Recorders : PassOK(pass[r], checkpoints, held, sealed, rows)
    /\ SealsOK(checkpoints, sealed, rows)

-----------------------------------------------------------------------------
(* What grows *)

\* Checkpoints, the store and Coriqo only grow, and no window changes.
Grows(cs, hs, es, rs, cs2, hs2, es2, rs2) ==
    /\ cs \in Seq(Windows) /\ cs2 \in Seq(Windows) /\ Len(cs) <= Len(cs2)
    /\ \A i \in 1..Len(cs) : cs2[i] = cs[i]
    /\ hs \subseteq hs2 /\ es \subseteq es2
    /\ \A c \in EmittedIn(cs) :
         AgentsIn(c, rs2) = AgentsIn(c, rs) /\ \A a : EventsIn(c, a, rs2) = EventsIn(c, a, rs)

\* The checkpoints of the table, seen as a set.
LEMMA EmittedIs ==
    ASSUME NEW cs \in Seq(Windows)
    PROVE  /\ Len(cs) \in Nat /\ DOMAIN cs = 1..Len(cs)
           /\ \A i \in 1..Len(cs) : cs[i] \in EmittedIn(cs)
           /\ \A c \in EmittedIn(cs) :
                c \in Windows /\ c.to \in Nat \ {0} /\ c.from \in Nat \ {0}
                /\ \E i \in 1..Len(cs) : c = cs[i]
<1>1. Len(cs) \in Nat /\ DOMAIN cs = 1..Len(cs) /\ \A i \in 1..Len(cs) : cs[i] \in Windows
    BY LenProperties, ElementOfSeq
<1>2. ASSUME NEW c \in EmittedIn(cs)
      PROVE  c \in Windows /\ \E i \in 1..Len(cs) : c = cs[i]
    BY <1>1 DEF EmittedIn
<1>3. \A c \in Windows : c.to \in Nat \ {0} /\ c.from \in Nat \ {0}
    BY DEF Windows
<1>4. \A i \in 1..Len(cs) : cs[i] \in EmittedIn(cs)
    BY <1>1 DEF EmittedIn
<1> HIDE DEF Windows
<1> QED
    BY <1>1, <1>2, <1>3, <1>4

\* An old checkpoint stays emitted and in order; one that is new, and in
\* order, ends after every old one.
LEMMA GrowsOrder ==
    ASSUME NEW cs, NEW hs, NEW es, NEW rs, NEW cs2, NEW hs2, NEW es2, NEW rs2,
           Grows(cs, hs, es, rs, cs2, hs2, es2, rs2)
    PROVE  /\ EmittedIn(cs) \subseteq EmittedIn(cs2)
           /\ \A i \in 1..Len(cs) : i \in 1..Len(cs2) /\ cs2[i] = cs[i]
           /\ \A i \in 1..Len(cs2) : OrderedIn(i, cs2) =>
                 \/ i \in 1..Len(cs) /\ cs2[i] = cs[i] /\ OrderedIn(i, cs)
                 \/ \A c \in EmittedIn(cs) : ~(cs2[i].to <= c.to)
<1>0. /\ cs \in Seq(Windows) /\ cs2 \in Seq(Windows) /\ Len(cs) <= Len(cs2)
      /\ \A i \in 1..Len(cs) : cs2[i] = cs[i]
    BY DEF Grows
<1>1. /\ Len(cs) \in Nat /\ Len(cs2) \in Nat
      /\ \A i \in 1..Len(cs2) : cs2[i] \in EmittedIn(cs2) /\ cs2[i].to \in Nat
      /\ \A c \in EmittedIn(cs) : c.to \in Nat /\ \E i \in 1..Len(cs) : c = cs[i]
    BY <1>0, EmittedIs
<1>2. \A i \in 1..Len(cs) : i \in 1..Len(cs2)
    BY <1>0, <1>1
<1>3. ASSUME NEW i \in 1..Len(cs2), OrderedIn(i, cs2), i \in 1..Len(cs)
      PROVE  OrderedIn(i, cs)
  <2>1. \A j \in 1..(i - 1) : j \in 1..Len(cs)
      BY <1>1, <1>3
  <2> QED
      BY <1>0, <1>3, <2>1 DEF OrderedIn
<1>4. ASSUME NEW i \in 1..Len(cs2), OrderedIn(i, cs2), i \notin 1..Len(cs),
             NEW c \in EmittedIn(cs)
      PROVE  ~(cs2[i].to <= c.to)
  <2>1. PICK j \in 1..Len(cs) : c = cs[j]
      BY <1>1
  <2>2. j \in 1..(i - 1)
      BY <1>1, <1>4, <2>1
  <2>3. cs2[j].to < cs2[i].to /\ cs2[j] = c
      BY <1>0, <1>4, <2>1, <2>2 DEF OrderedIn
  <2> QED
      BY <1>1, <2>3
<1> QED
    BY <1>0, <1>1, <1>2, <1>3, <1>4

\* What was attested stays attested.
LEMMA GrowsAttested ==
    ASSUME NEW cs, NEW hs, NEW es, NEW rs, NEW cs2, NEW hs2, NEW es2, NEW rs2,
           Grows(cs, hs, es, rs, cs2, hs2, es2, rs2), NEW c \in EmittedIn(cs),
           AttestedIn(c, es, rs)
    PROVE  AttestedIn(c, es2, rs2)
BY DEF Grows, AttestedIn

\* What has to be attested has a first.
LEMMA FirstIs ==
    ASSUME NEW cs \in Seq(Windows), NEW todo, todo \subseteq EmittedIn(cs), todo # {}
    PROVE  First(todo) \in todo /\ \A e \in todo : First(todo).to <= e.to
<1> DEFINE E == {c.to : c \in todo}
<1>1. \A c \in todo : c.to \in Nat
    BY EmittedIs
<1>2. E \subseteq Nat /\ E # {}
    BY <1>1
<1>3. PICK m \in E : \A n \in E : m <= n
    BY <1>2, LeastNat
<1>4. PICK c \in todo : c.to = m
    BY <1>3
<1>5. \A e \in todo : c.to <= e.to
    BY <1>3, <1>4
<1> QED
    BY <1>4, <1>5 DEF First

\* A pass stays sound while others append, store and seal.
LEMMA GrowsPass ==
    ASSUME NEW cs, NEW hs, NEW es, NEW rs, NEW cs2, NEW hs2, NEW es2, NEW rs2,
           Grows(cs, hs, es, rs, cs2, hs2, es2, rs2), NEW p, PassOK(p, cs, hs, es, rs)
    PROVE  PassOK(p, cs2, hs2, es2, rs2)
<1>0. /\ cs \in Seq(Windows) /\ hs \subseteq hs2 /\ es \subseteq es2
      /\ \A c \in EmittedIn(cs) :
           AgentsIn(c, rs2) = AgentsIn(c, rs) /\ \A a : EventsIn(c, a, rs2) = EventsIn(c, a, rs)
    BY DEF Grows
<1>1. ASSUME NEW batch, BatchCovers(batch, cs, hs) PROVE BatchCovers(batch, cs2, hs2)
  <2>1. batch \subseteq EmittedIn(cs2)
      BY <1>1, GrowsOrder DEF BatchCovers
  <2>2. ASSUME NEW c \in batch, NEW i \in 1..Len(cs2), OrderedIn(i, cs2), cs2[i].to <= c.to
        PROVE  cs2[i] \in hs2 \/ cs2[i] \in batch
    <3>1. c \in EmittedIn(cs)
        BY <1>1 DEF BatchCovers
    <3>2. i \in 1..Len(cs) /\ cs2[i] = cs[i] /\ OrderedIn(i, cs)
        BY <2>2, <3>1, GrowsOrder
    <3> QED
        BY <1>0, <1>1, <2>2, <3>2 DEF BatchCovers
  <2> QED
      BY <2>1, <2>2 DEF BatchCovers
<1>2. ASSUME NEW todo, TodoCovers(todo, cs, es, rs) PROVE TodoCovers(todo, cs2, es2, rs2)
  <2>1. todo \subseteq EmittedIn(cs2) /\ todo # {}
      BY <1>2, GrowsOrder DEF TodoCovers
  <2>2. ASSUME NEW c \in todo, NEW i \in 1..Len(cs2), OrderedIn(i, cs2), cs2[i].to <= c.to
        PROVE  AttestedIn(cs2[i], es2, rs2) \/ cs2[i] \in todo
    <3>1. c \in EmittedIn(cs)
        BY <1>2 DEF TodoCovers
    <3>2. i \in 1..Len(cs) /\ cs2[i] = cs[i] /\ OrderedIn(i, cs)
        BY <2>2, <3>1, GrowsOrder
    <3>3. AttestedIn(cs[i], es, rs) \/ cs[i] \in todo
        BY <1>2, <2>2, <3>2 DEF TodoCovers
    <3>4. cs[i] \in EmittedIn(cs)
        BY <1>0, <3>2, EmittedIs
    <3>5. AttestedIn(cs[i], es, rs) => AttestedIn(cs[i], es2, rs2)
        BY <3>4, GrowsAttested
    <3> QED
        BY <3>2, <3>3, <3>5
  <2> QED
      BY <2>1, <2>2 DEF TodoCovers
<1>3. ASSUME p.pc = "attest" PROVE LeftOK(p, es2, rs2)
  <2>1. TodoCovers(p.todo, cs, es, rs) /\ LeftOK(p, es, rs)
      BY <1>3 DEF PassOK
  <2>2. First(p.todo) \in EmittedIn(cs)
      BY <1>0, <2>1, FirstIs DEF TodoCovers
  <2> QED
      BY <1>0, <2>1, <2>2 DEF LeftOK
<1> QED
    BY <1>0, <1>1, <1>2, <1>3 DEF PassOK

\* So do the watermarks: what is new and in order ends after them.
LEMMA GrowsSync ==
    ASSUME NEW cs, NEW hs, NEW es, NEW rs, NEW cs2, NEW hs2, NEW es2, NEW rs2,
           Grows(cs, hs, es, rs, cs2, hs2, es2, rs2), NEW y, SyncOK(y, cs, hs, es, rs)
    PROVE  SyncOK(y, cs2, hs2, es2, rs2)
<1>0. cs \in Seq(Windows) /\ cs2 \in Seq(Windows) /\ hs \subseteq hs2
    BY DEF Grows
<1>1. ASSUME NEW n, Reached(n, cs) PROVE Reached(n, cs2)
    BY <1>1, GrowsOrder DEF Reached
<1>2. ASSUME NEW n, Reached(n, cs), NEW i \in 1..Len(cs2), OrderedIn(i, cs2), cs2[i].to <= n
      PROVE  i \in 1..Len(cs) /\ cs2[i] = cs[i] /\ OrderedIn(i, cs)
  <2>1. cs2[i].to \in Nat \ {0}
      BY <1>0, EmittedIs
  <2>2. n # 0
      BY <1>2, <2>1 DEF Reached
  <2>3. PICK j \in 1..Len(cs) : cs[j].to = n
      BY <1>2, <2>2 DEF Reached
  <2>4. cs[j] \in EmittedIn(cs)
      BY <1>0, EmittedIs
  <2> QED
      BY <1>2, <2>3, <2>4, GrowsOrder
<1>3. ASSUME NEW i \in 1..Len(cs2), OrderedIn(i, cs2), cs2[i].to <= y.checkpoint
      PROVE  cs2[i] \in hs2
  <2>1. i \in 1..Len(cs) /\ cs2[i] = cs[i] /\ OrderedIn(i, cs)
      BY <1>2, <1>3 DEF SyncOK
  <2> QED
      BY <1>0, <1>3, <2>1 DEF SyncOK
<1>4. ASSUME NEW i \in 1..Len(cs2), OrderedIn(i, cs2), cs2[i].to <= y.attestation
      PROVE  AttestedIn(cs2[i], es2, rs2)
  <2>1. i \in 1..Len(cs) /\ cs2[i] = cs[i] /\ OrderedIn(i, cs)
      BY <1>2, <1>4 DEF SyncOK
  <2>2. AttestedIn(cs[i], es, rs) /\ cs[i] \in EmittedIn(cs)
      BY <1>0, <1>4, <2>1, EmittedIs DEF SyncOK
  <2> QED
      BY <2>1, <2>2, GrowsAttested
<1> QED
    BY <1>1, <1>3, <1>4 DEF SyncOK

\* So do the envelopes.
LEMMA GrowsSeals ==
    ASSUME NEW cs, NEW hs, NEW es, NEW rs, NEW cs2, NEW hs2, NEW es2, NEW rs2,
           Grows(cs, hs, es, rs, cs2, hs2, es2, rs2), SealsOK(cs, es, rs), es2 = es
    PROVE  SealsOK(cs2, es2, rs2)
<1> SUFFICES ASSUME NEW e \in es
             PROVE  \E c \in EmittedIn(cs2) :
                       e.subject \in AgentsIn(c, rs2) /\ e = EventsIn(c, e.subject, rs2)
    BY DEF SealsOK
<1>1. PICK c \in EmittedIn(cs) : e.subject \in AgentsIn(c, rs) /\ e = EventsIn(c, e.subject, rs)
    BY DEF SealsOK
<1>2. c \in EmittedIn(cs2)
    BY <1>1, GrowsOrder
<1> QED
    BY <1>1, <1>2 DEF Grows

-----------------------------------------------------------------------------
(* What a pass reads, and where it moves the watermark *)

\* There are finitely many checkpoints.
LEMMA EmittedFinite ==
    ASSUME NEW cs \in Seq(Windows)
    PROVE  IsFiniteSet(EmittedIn(cs))
<1>1. Len(cs) \in Nat /\ DOMAIN cs = 1..Len(cs)
    BY EmittedIs
<1>2. cs \in Surjection(1..Len(cs), EmittedIn(cs))
  <2>1. cs = [i \in 1..Len(cs) |-> cs[i]]
      BY <1>1, LenProperties
  <2>2. \A i \in 1..Len(cs) : cs[i] \in EmittedIn(cs)
      BY EmittedIs
  <2>3. \A c \in EmittedIn(cs) : \E i \in 1..Len(cs) : cs[i] = c
      BY EmittedIs
  <2> HIDE DEF EmittedIn
  <2>4. cs \in [1..Len(cs) -> EmittedIn(cs)]
      BY <2>1, <2>2
  <2> QED
      BY <2>3, <2>4 DEF Surjection
<1>3. IsFiniteSet(1..Len(cs))
    BY <1>1, FS_Interval
<1> QED
    BY <1>2, <1>3, FS_Surjection

\* ORDER BY seq_end LIMIT: what is read leaves no earlier one out.
LEMMA UnsyncedIs ==
    ASSUME checkpoints \in Seq(Windows), NEW w \in Nat, NEW U, U = Unsynced(w)
    PROVE  /\ U \subseteq Emitted
           /\ \A c \in U, e \in Emitted : e.to > w /\ e.to <= c.to => e \in U
<1>0. Emitted = EmittedIn(checkpoints)
    BY DEF Emitted, EmittedIn
<1> DEFINE B(c) == {e \in Emitted : w < e.to /\ e.to < c.to}
<1>1. U = {c \in Emitted : c.to > w /\ Cardinality(B(c)) < ShipLimit}
    BY DEF Unsynced
<1>2. IsFiniteSet(Emitted) /\ \A c \in Emitted : c.to \in Nat
    BY <1>0, EmittedFinite, EmittedIs
<1>3. ASSUME NEW c \in U, NEW e \in Emitted, e.to > w, e.to <= c.to PROVE e \in U
  <2>1. c \in Emitted /\ Cardinality(B(c)) < ShipLimit
      BY <1>1
  <2>2. B(e) \subseteq B(c)
      BY <1>2, <1>3, <2>1
  <2>3. IsFiniteSet(B(c))
    <3>1. B(c) \in SUBSET Emitted
        OBVIOUS
    <3> HIDE DEF B
    <3> QED
        BY <1>2, <3>1, FS_Subset
  <2>4. Cardinality(B(e)) \in Nat /\ Cardinality(B(c)) \in Nat /\ Cardinality(B(e)) <= Cardinality(B(c))
    <3> HIDE DEF B
    <3> QED
        BY <2>2, <2>3, FS_Subset, FS_CardinalityType
  <2>5. Cardinality(B(e)) < ShipLimit
    <3> HIDE DEF B
    <3> QED
        BY <2>1, <2>4, StreamsAssumption
  <2> HIDE DEF B
  <2> QED
      BY <1>1, <1>3, <2>5
<1> HIDE DEF B
<1> QED
    BY <1>1, <1>3

\* _advance_watermark: it does not go back, and goes on only to the end of
\* a checkpoint of the batch before which none was rejected.
LEMMA AdvancedIs ==
    ASSUME NEW cs \in Seq(Windows), NEW batch, batch \subseteq EmittedIn(cs), NEW rejected,
           rejected \subseteq batch, NEW current \in Nat,
           NEW N \in Nat, \A c \in EmittedIn(cs) : c.to <= N, NEW w, w = Advanced(current, batch, rejected)
    PROVE  /\ w \in Nat /\ current <= w
           /\ \/ w = current
              \/ \E c \in batch : /\ w = c.to
                                  /\ \A g \in rejected : g.to > current => w < g.to
<1> DEFINE gaps == {c \in rejected : c.to > current}
           safe == {c \in batch : \A g \in gaps : c.to < g.to}
           T == {c.to : c \in safe} \cup {current}
<1>1. w = Max(T)
    BY DEF Advanced
<1>2. \A c \in batch : c \in EmittedIn(cs) /\ c.to \in Nat
    BY EmittedIs
<1>3. T \in SUBSET Nat /\ T # {} /\ current \in T
    BY <1>2
<1>4. \E m \in T : \A s \in T : s <= m
  <2> DEFINE M == N + current
  <2>3. M \in Nat /\ \A s \in T : s <= M
      BY <1>2
  <2> HIDE DEF M, T
  <2> QED
      BY <1>3, <2>3, GreatestExists
<1>5. w \in T /\ \A s \in T : s <= w
  <2> HIDE DEF T
  <2>1. \E m \in T : \A s \in T : m >= s
      BY <1>3, <1>4
  <2>2. w \in T /\ \A s \in T : w >= s
      BY <1>1, <2>1 DEF Max
  <2> QED
      BY <1>3, <2>2
<1>6. w \in Nat /\ current <= w
    BY <1>3, <1>5
<1>7. ASSUME w # current
      PROVE  \E c \in batch : /\ w = c.to
                              /\ \A g \in rejected : g.to > current => w < g.to
  <2>1. PICK c \in safe : w = c.to
      BY <1>5, <1>7
  <2> QED
      BY <2>1
<1> QED
    BY <1>6, <1>7

-----------------------------------------------------------------------------
(* The invariant of Streams, action by action *)

\* An empty ledger, and nothing on the way.
LEMMA StreamsInitInv == StreamsInit => StreamsInv
<1> SUFFICES ASSUME StreamsInit PROVE StreamsInv
    OBVIOUS
<1>1. /\ rows = <<>> /\ checkpoints = <<>> /\ Len(<<>>) = 0
      /\ <<>> \in Seq(RowKinds) /\ <<>> \in Seq(Windows)
    BY EmptySeq DEF StreamsInit
<1>2. RecordedOK(checkpoints, rows)
    BY <1>1 DEF RecordedOK
<1>3. SyncOK(synced, checkpoints, held, sealed, rows)
    BY <1>1 DEF StreamsInit, SyncOK, Reached
<1>4. \A r \in Recorders : PassOK(pass[r], checkpoints, held, sealed, rows)
    BY DEF StreamsInit, PassOK, Resting
<1>5. SealsOK(checkpoints, sealed, rows)
    BY DEF StreamsInit, SealsOK
<1>6. \A r \in Recorders : WindowOK(open[r], rows)
    BY DEF StreamsInit, WindowOK
<1> QED
    BY <1>2, <1>3, <1>4, <1>5, <1>6 DEF StreamsInit, StreamsInv

SameWindows(rs, rs2) ==
    \A c \in Windows : c.to <= Len(rs) =>
       AgentsIn(c, rs2) = AgentsIn(c, rs) /\ \A a : EventsIn(c, a, rs2) = EventsIn(c, a, rs)

\* A row more changes no window there is.
LEMMA RowAppended ==
    ASSUME NEW rs \in Seq(RowKinds), NEW x \in RowKinds, NEW rs2, rs2 = Append(rs, x)
    PROVE  /\ rs2 \in Seq(RowKinds) /\ Len(rs) \in Nat /\ Len(rs2) = Len(rs) + 1
           /\ SameWindows(rs, rs2)
<1>1. /\ rs2 \in Seq(RowKinds) /\ Len(rs) \in Nat /\ Len(rs2) = Len(rs) + 1
      /\ \A i \in 1..Len(rs) : rs2[i] = rs[i]
    BY LenProperties, AppendProperties
<1>2. ASSUME NEW c \in Windows, c.to <= Len(rs)
      PROVE  /\ AgentsIn(c, rs2) = AgentsIn(c, rs)
             /\ \A a : EventsIn(c, a, rs2) = EventsIn(c, a, rs)
  <2>1. c.from \in Nat \ {0} /\ c.to \in Nat \ {0}
      BY DEF Windows
  <2>2. \A seq \in c.from..c.to : seq \in 1..Len(rs)
      BY <1>1, <1>2, <2>1
  <2>3. \A seq \in c.from..c.to : rs2[seq] = rs[seq]
      BY <1>1, <2>2
  <2> QED
      BY <2>3 DEF AgentsIn, EventsIn
<1> QED
    BY <1>1, <1>2 DEF SameWindows

\* The passes, the watermarks and the store do not mind a row more.
LEMMA RowInv ==
    ASSUME StreamsInv, NEW x \in RowKinds, rows' = Append(rows, x),
           UNCHANGED <<checkpoints, synced, pass, held, sealed>>,
           open' = [r \in Recorders |-> open'[r]],
           \A r \in Recorders : WindowOK(open'[r], rows')
    PROVE  StreamsInv'
<1>1. /\ rows \in Seq(RowKinds) /\ checkpoints \in Seq(Windows)
      /\ \A i \in 1..Len(checkpoints) : checkpoints[i].to <= Len(rows)
      /\ \A i, j \in 1..Len(checkpoints) : checkpoints[i].to = checkpoints[j].to => i = j
    BY DEF StreamsInv, RecordedOK
<1>2. /\ rows' \in Seq(RowKinds) /\ Len(rows) \in Nat /\ Len(rows') = Len(rows) + 1
      /\ SameWindows(rows, rows')
    BY <1>1, RowAppended
<1>3. \A c \in EmittedIn(checkpoints) : c \in Windows /\ c.to <= Len(rows)
    BY <1>1, EmittedIs
<1>4. Grows(checkpoints, held, sealed, rows, checkpoints, held, sealed, rows')
  <2>1. Len(checkpoints) <= Len(checkpoints)
      BY <1>1, LenProperties
  <2> QED
      BY <1>1, <1>2, <1>3, <2>1 DEF Grows, SameWindows
<1>5. RecordedOK(checkpoints, rows')
  <2>1. \A i \in 1..Len(checkpoints) : checkpoints[i].to \in Nat
      BY <1>1, EmittedIs
  <2>2. \A i \in 1..Len(checkpoints) : checkpoints[i].to <= Len(rows')
      BY <1>1, <1>2, <2>1
  <2> QED
      BY <1>1, <1>2, <2>2 DEF RecordedOK
<1>6. SyncOK(synced, checkpoints, held, sealed, rows')
    BY <1>4, GrowsSync DEF StreamsInv
<1>7. \A r \in Recorders : PassOK(pass[r], checkpoints, held, sealed, rows')
    BY <1>4, GrowsPass DEF StreamsInv
<1>8. SealsOK(checkpoints, sealed, rows')
    BY <1>4, GrowsSeals DEF StreamsInv
<1> QED
    BY <1>5, <1>6, <1>7, <1>8 DEF StreamsInv

\* Recorder.record: a row, and the window noted grows to it.
LEMMA CaptureInv ==
    ASSUME StreamsInv, NEW r \in Recorders, Capture(r) PROVE StreamsInv'
<1> DEFINE n == Len(rows) + 1
           w == [from |-> IF open[r] = NoWindow THEN n ELSE open[r].from, to |-> n]
<1>1. /\ rows' = Append(rows, "captured") /\ open' = [open EXCEPT ![r] = w]
      /\ UNCHANGED <<checkpoints, synced, pass, held, sealed>>
    BY DEF Capture, remote
<1>2. /\ rows \in Seq(RowKinds) /\ "captured" \in RowKinds
      /\ open = [q \in Recorders |-> open[q]] /\ \A q \in Recorders : WindowOK(open[q], rows)
    BY DEF StreamsInv, RecordedOK, RowKinds
<1>3. Len(rows) \in Nat /\ Len(rows') = n
    BY <1>1, <1>2, RowAppended
<1>4. WindowOK(w, rows')
  <2>1. open[r] # NoWindow => open[r].from \in Nat \ {0}
      BY <1>2 DEF WindowOK, Windows
  <2>2. w \in Windows /\ w.to = n
      BY <1>3, <2>1 DEF Windows
  <2> HIDE DEF w
  <2> QED
      BY <1>3, <2>2 DEF WindowOK
<1> HIDE DEF w
<1>5. ASSUME NEW q \in Recorders PROVE WindowOK(open'[q], rows')
  <2>1. CASE q = r
      BY <1>1, <1>2, <1>4, <2>1
  <2>2. CASE q # r
    <3>1. open'[q] = open[q] /\ WindowOK(open[q], rows)
        BY <1>1, <1>2, <2>2
    <3>2. WindowOK(open[q], rows')
        BY <1>3, <3>1 DEF WindowOK, Windows
    <3> QED
        BY <3>1, <3>2
  <2> QED
      BY <2>1, <2>2
<1>6. open' = [q \in Recorders |-> open'[q]]
    BY <1>1, <1>2
<1> QED
    BY <1>1, <1>2, <1>5, <1>6, RowInv

\* VerdictRecorder._append: a row, and no window.
LEMMA AppendVerdictInv ==
    ASSUME StreamsInv, NEW x \in Subjects \cup {NoSubject}, AppendVerdict(x) PROVE StreamsInv'
<1>1. /\ rows' = Append(rows, x) /\ open' = open
      /\ UNCHANGED <<checkpoints, synced, pass, held, sealed>>
    BY DEF AppendVerdict, remote
<1>2. /\ rows \in Seq(RowKinds) /\ x \in RowKinds
      /\ open = [q \in Recorders |-> open[q]] /\ \A q \in Recorders : WindowOK(open[q], rows)
    BY DEF StreamsInv, RecordedOK, RowKinds
<1>3. Len(rows) \in Nat /\ Len(rows') = Len(rows) + 1
    BY <1>1, <1>2, RowAppended
<1>4. \A q \in Recorders : WindowOK(open'[q], rows')
    BY <1>1, <1>2, <1>3 DEF WindowOK, Windows
<1> QED
    BY <1>1, <1>2, <1>4, RowInv

\* append_checkpoint: at most one more, with an end of its own.
LEMMA EmitCheckpointInv ==
    ASSUME StreamsInv, NEW r \in Recorders, EmitCheckpoint(r) PROVE StreamsInv'
<1> DEFINE w == open[r]
<1>0. /\ w # NoWindow /\ open' = [open EXCEPT ![r] = NoWindow]
      /\ checkpoints' = IF \E c \in Emitted : c.to = w.to THEN checkpoints
                        ELSE Append(checkpoints, w)
      /\ UNCHANGED <<rows, synced, pass, held, sealed>>
    BY DEF EmitCheckpoint, remote
<1>1. /\ rows \in Seq(RowKinds) /\ checkpoints \in Seq(Windows)
      /\ \A i \in 1..Len(checkpoints) : checkpoints[i].to <= Len(rows)
      /\ \A i, j \in 1..Len(checkpoints) : checkpoints[i].to = checkpoints[j].to => i = j
      /\ open = [q \in Recorders |-> open[q]] /\ \A q \in Recorders : WindowOK(open[q], rows)
    BY DEF StreamsInv, RecordedOK
<1>2. w \in Windows /\ w.to <= Len(rows)
    BY <1>0, <1>1 DEF WindowOK
<1>3. Len(checkpoints) \in Nat
    BY <1>1, LenProperties
<1>4. open' = [q \in Recorders |-> open'[q]] /\ \A q \in Recorders : WindowOK(open'[q], rows)
    BY <1>0, <1>1 DEF WindowOK
<1>5. /\ checkpoints' \in Seq(Windows) /\ Len(checkpoints) <= Len(checkpoints')
      /\ \A i \in 1..Len(checkpoints) : checkpoints'[i] = checkpoints[i]
      /\ RecordedOK(checkpoints', rows)
  <2>1. CASE \E c \in Emitted : c.to = w.to
    <3>1. checkpoints' = checkpoints
        BY <1>0, <2>1
    <3> QED
        BY <1>1, <1>3, <3>1 DEF RecordedOK
  <2>2. CASE ~\E c \in Emitted : c.to = w.to
    <3>1. checkpoints' = Append(checkpoints, w)
        BY <1>0, <2>2
    <3> HIDE DEF w
    <3>2. /\ checkpoints' \in Seq(Windows) /\ Len(checkpoints') = Len(checkpoints) + 1
          /\ \A i \in 1..Len(checkpoints) : checkpoints'[i] = checkpoints[i]
          /\ checkpoints'[Len(checkpoints) + 1] = w
        BY <1>1, <1>2, <3>1, AppendProperties
    <3>3. \A i \in 1..Len(checkpoints) : checkpoints[i].to # w.to
      <4>1. \A i \in 1..Len(checkpoints) : checkpoints[i] \in Emitted
          BY <1>1, EmittedIs DEF EmittedIn, Emitted
      <4> QED
          BY <2>2, <4>1
    <3>4. \A i \in 1..Len(checkpoints') : i \in 1..Len(checkpoints) \/ i = Len(checkpoints) + 1
        BY <1>3, <3>2
    <3>5. \A i \in 1..Len(checkpoints') : checkpoints'[i].to <= Len(rows)
        BY <1>1, <1>2, <3>2, <3>4
    <3>6. ASSUME NEW i \in 1..Len(checkpoints'), NEW j \in 1..Len(checkpoints'),
                 checkpoints'[i].to = checkpoints'[j].to
          PROVE  i = j
        BY <1>1, <3>2, <3>3, <3>4, <3>6
    <3>7. RecordedOK(checkpoints', rows)
        BY <1>1, <3>2, <3>5, <3>6 DEF RecordedOK
    <3> QED
        BY <1>3, <3>2, <3>7
  <2> QED
      BY <2>1, <2>2
<1>6. Grows(checkpoints, held, sealed, rows, checkpoints', held, sealed, rows)
    BY <1>1, <1>5 DEF Grows
<1>7. SyncOK(synced, checkpoints', held, sealed, rows)
    BY <1>6, GrowsSync DEF StreamsInv
<1>8. \A q \in Recorders : PassOK(pass[q], checkpoints', held, sealed, rows)
    BY <1>6, GrowsPass DEF StreamsInv
<1>9. SealsOK(checkpoints', sealed, rows)
    BY <1>6, GrowsSeals DEF StreamsInv
<1> QED
    BY <1>0, <1>4, <1>5, <1>7, <1>8, <1>9 DEF StreamsInv

\* A step of one shipper thread that touches nothing else.
LEMMA PassInv ==
    ASSUME StreamsInv, NEW r \in Recorders, NEW p, pass' = [pass EXCEPT ![r] = p],
           PassOK(p, checkpoints, held, sealed, rows),
           UNCHANGED <<rows, open, checkpoints, synced, held, sealed>>
    PROVE  StreamsInv'
<1>1. /\ pass' = [q \in Recorders |-> pass'[q]]
      /\ \A q \in Recorders : PassOK(pass'[q], checkpoints, held, sealed, rows)
    BY DEF StreamsInv
<1> QED
    BY <1>1 DEF StreamsInv

\* A pass that holds nothing is sound.
LEMMA RestingOK ==
    ASSUME NEW cs, NEW hs, NEW es, NEW rs
    PROVE  PassOK(Resting, cs, hs, es, rs) /\ PassOK([pc |-> "sent"], cs, hs, es, rs)
BY DEF PassOK, Resting

\* read_unsynced_checkpoints: what is left out is on the store, or later.
LEMMA ReadCheckpointsInv ==
    ASSUME StreamsInv, NEW r \in Recorders, ReadCheckpoints(r) PROVE StreamsInv'
<1> DEFINE U == Unsynced(synced.checkpoint)
           p == IF U = {} THEN [pc |-> "sent"] ELSE [pc |-> "post", batch |-> U]
<1>1. /\ pass' = [pass EXCEPT ![r] = p]
      /\ UNCHANGED <<rows, open, checkpoints, synced, held, sealed>>
    BY DEF ReadCheckpoints, recorded, remote
<1>2. checkpoints \in Seq(Windows) /\ SyncOK(synced, checkpoints, held, sealed, rows)
    BY DEF StreamsInv, RecordedOK
<1>3. synced.checkpoint \in Nat
    BY <1>2 DEF SyncOK, Reached
<1>4. /\ U \subseteq EmittedIn(checkpoints)
      /\ \A c \in U, e \in EmittedIn(checkpoints) :
            e.to > synced.checkpoint /\ e.to <= c.to => e \in U
  <2>1. Emitted = EmittedIn(checkpoints)
      BY DEF Emitted, EmittedIn
  <2> QED
      BY <1>2, <1>3, <2>1, UnsyncedIs
<1> HIDE DEF U
<1>5. BatchCovers(U, checkpoints, held)
  <2> SUFFICES ASSUME NEW c \in U, NEW i \in 1..Len(checkpoints), OrderedIn(i, checkpoints),
                      checkpoints[i].to <= c.to
               PROVE  checkpoints[i] \in held \/ checkpoints[i] \in U
      BY <1>4 DEF BatchCovers
  <2>1. checkpoints[i] \in EmittedIn(checkpoints) /\ checkpoints[i].to \in Nat
      BY <1>2, EmittedIs
  <2>2. CASE checkpoints[i].to > synced.checkpoint
      BY <1>4, <2>1, <2>2
  <2>3. CASE checkpoints[i].to <= synced.checkpoint
      BY <1>2, <2>3 DEF SyncOK
  <2> QED
      BY <1>3, <2>1, <2>2, <2>3
<1>6. PassOK(p, checkpoints, held, sealed, rows)
    BY <1>5 DEF PassOK
<1> HIDE DEF p
<1> QED
    BY <1>1, <1>6, PassInv

\* The store may take some of the batch in; the thread has the answer, or not.
LEMMA StoreCheckpointsInv ==
    ASSUME StreamsInv, NEW r \in Recorders, NEW rejected, NEW lost,
           StoreCheckpoints(r, rejected, lost)
    PROVE  StreamsInv'
<1> DEFINE batch == pass[r].batch
           refused == \E c \in batch : Contradicts(c) \/ c.to < c.from
           p == IF refused \/ lost THEN Resting
                ELSE [pc |-> "answer", batch |-> batch, rejected |-> rejected]
<1>1. /\ pass[r].pc = "post" /\ rejected \subseteq batch
      /\ held' = IF refused THEN held ELSE held \cup (batch \ rejected)
      /\ pass' = [pass EXCEPT ![r] = p]
      /\ UNCHANGED <<rows, open, checkpoints, synced, sealed>>
    BY DEF StoreCheckpoints, recorded
<1> HIDE DEF refused
<1>2. /\ checkpoints \in Seq(Windows) /\ SyncOK(synced, checkpoints, held, sealed, rows)
      /\ \A q \in Recorders : PassOK(pass[q], checkpoints, held, sealed, rows)
      /\ pass = [q \in Recorders |-> pass[q]]
    BY DEF StreamsInv, RecordedOK
<1>3. Grows(checkpoints, held, sealed, rows, checkpoints, held', sealed, rows)
  <2>1. Len(checkpoints) \in Nat
      BY <1>2, LenProperties
  <2> QED
      BY <1>1, <1>2, <2>1 DEF Grows
<1>4. SyncOK(synced, checkpoints, held', sealed, rows)
    BY <1>2, <1>3, GrowsSync
<1>5. \A q \in Recorders : PassOK(pass[q], checkpoints, held', sealed, rows)
    BY <1>2, <1>3, GrowsPass
<1>6. PassOK(p, checkpoints, held', sealed, rows)
  <2>1. CASE refused \/ lost
      BY <2>1, RestingOK
  <2>2. CASE ~(refused \/ lost)
    <3>1. BatchCovers(batch, checkpoints, held')
        BY <1>1, <1>5 DEF PassOK
    <3>2. batch \ rejected \subseteq held'
        BY <1>1, <2>2
    <3> HIDE DEF batch
    <3>3. p = [pc |-> "answer", batch |-> batch, rejected |-> rejected]
        BY <2>2
    <3> HIDE DEF p
    <3> QED
        BY <1>1, <3>1, <3>2, <3>3 DEF PassOK
  <2> QED
      BY <2>1, <2>2
<1> HIDE DEF p
<1>7. /\ pass' = [q \in Recorders |-> pass'[q]]
      /\ \A q \in Recorders : PassOK(pass'[q], checkpoints, held', sealed, rows)
    BY <1>1, <1>2, <1>5, <1>6
<1> QED
    BY <1>1, <1>4, <1>7 DEF StreamsInv

\* The watermark passes only what the store has.
LEMMA ReceiveCheckpointAnswerInv ==
    ASSUME StreamsInv, NEW r \in Recorders, ReceiveCheckpointAnswer(r) PROVE StreamsInv'
<1> DEFINE batch == pass[r].batch
           rejected == pass[r].rejected
           current == synced.checkpoint
           w == Advanced(current, batch, rejected)
<1>1. /\ pass[r].pc = "answer" /\ synced' = [synced EXCEPT !.checkpoint = w]
      /\ pass' = [pass EXCEPT ![r] = [pc |-> "sent"]]
      /\ UNCHANGED <<rows, open, checkpoints, held, sealed>>
    BY DEF ReceiveCheckpointAnswer, recorded, remote
<1>2. /\ RecordedOK(checkpoints, rows) /\ SyncOK(synced, checkpoints, held, sealed, rows)
      /\ PassOK(pass[r], checkpoints, held, sealed, rows)
    BY DEF StreamsInv
<1>3. checkpoints \in Seq(Windows) /\ rows \in Seq(RowKinds) /\ Len(rows) \in Nat
    BY <1>2, LenProperties DEF RecordedOK
<1>4. /\ BatchCovers(batch, checkpoints, held) /\ batch \ rejected \subseteq held
      /\ rejected \subseteq batch
    BY <1>1, <1>2 DEF PassOK
<1>5. /\ synced = [checkpoint |-> current, attestation |-> synced.attestation]
      /\ current \in Nat /\ Reached(current, checkpoints)
      /\ Reached(synced.attestation, checkpoints)
    BY <1>2 DEF SyncOK, Reached
<1>6. batch \subseteq EmittedIn(checkpoints)
      /\ \A c \in EmittedIn(checkpoints) : c.to <= Len(rows)
  <2>1. \A c \in EmittedIn(checkpoints) : \E i \in 1..Len(checkpoints) : c = checkpoints[i]
      BY <1>3, EmittedIs
  <2> QED
      BY <1>2, <1>4, <2>1 DEF BatchCovers, RecordedOK
<1> HIDE DEF batch, rejected, current
<1>7. /\ w \in Nat /\ current <= w
      /\ \/ w = current
         \/ \E c \in batch : /\ w = c.to
                             /\ \A g \in rejected : g.to > current => w < g.to
    BY <1>3, <1>4, <1>5, <1>6, AdvancedIs
<1> HIDE DEF w
<1>8. Reached(w, checkpoints)
  <2>1. CASE w = current
      BY <1>5, <2>1
  <2>2. CASE w # current
    <3>1. PICK c \in batch : w = c.to
        BY <1>7, <2>2
    <3>2. \E i \in 1..Len(checkpoints) : c = checkpoints[i]
        BY <1>3, <1>6, EmittedIs
    <3> QED
        BY <1>7, <3>1, <3>2 DEF Reached
  <2> QED
      BY <2>1, <2>2
<1>9. ASSUME NEW i \in 1..Len(checkpoints), OrderedIn(i, checkpoints), checkpoints[i].to <= w
      PROVE  checkpoints[i] \in held
  <2>0. checkpoints[i].to \in Nat
      BY <1>3, EmittedIs
  <2>1. CASE checkpoints[i].to <= current
      BY <1>2, <1>9, <2>1 DEF SyncOK, current
  <2>2. CASE checkpoints[i].to > current
    <3>1. w # current
        BY <1>5, <1>7, <1>9, <2>0, <2>2
    <3>2. PICK c \in batch : w = c.to /\ \A g \in rejected : g.to > current => w < g.to
        BY <1>7, <3>1
    <3>3. checkpoints[i] \in held \/ checkpoints[i] \in batch
        BY <1>4, <1>9, <3>2 DEF BatchCovers
    <3>4. checkpoints[i] \notin rejected
        BY <1>7, <1>9, <2>0, <2>2, <3>2
    <3> QED
        BY <1>4, <3>3, <3>4
  <2> QED
      BY <1>5, <2>0, <2>1, <2>2
<1>10. SyncOK(synced', checkpoints, held, sealed, rows)
  <2>1. synced' = [checkpoint |-> w, attestation |-> synced.attestation]
      BY <1>1, <1>5
  <2>2. synced'.checkpoint = w /\ synced'.attestation = synced.attestation
      BY <2>1
  <2> QED
      BY <1>2, <1>5, <1>8, <1>9, <2>1, <2>2 DEF SyncOK
<1>11. /\ pass' = [q \in Recorders |-> pass'[q]]
       /\ \A q \in Recorders : PassOK(pass'[q], checkpoints, held, sealed, rows)
  <2>1. PassOK([pc |-> "sent"], checkpoints, held, sealed, rows)
      BY RestingOK
  <2>2. ASSUME NEW q \in Recorders PROVE PassOK(pass'[q], checkpoints, held, sealed, rows)
    <3>1. CASE q = r
        BY <1>1, <2>1, <3>1 DEF StreamsInv
    <3>2. CASE q # r
        BY <1>1, <3>2 DEF StreamsInv
    <3> QED
        BY <3>1, <3>2
  <2> QED
      BY <1>1, <2>2 DEF StreamsInv
<1> QED
    BY <1>1, <1>10, <1>11 DEF StreamsInv

\* A pass turns to the first of what it has left, if there is any.
LEMMA TurnOK ==
    ASSUME StreamsInv, NEW todo, todo \subseteq EmittedIn(checkpoints),
           NEW es, \A c \in todo, i \in 1..Len(checkpoints) :
              OrderedIn(i, checkpoints) /\ checkpoints[i].to <= c.to
                 => AttestedIn(checkpoints[i], es, rows) \/ checkpoints[i] \in todo
    PROVE  PassOK(Turn(todo), checkpoints, held, es, rows)
<1>1. CASE todo = {}
  <2>1. Turn(todo) = Resting
      BY <1>1 DEF Turn
  <2> QED
      BY <2>1, RestingOK
<1>2. CASE todo # {}
  <2> DEFINE p == [pc |-> "attest", todo |-> todo, left |-> AgentsIn(First(todo), rows)]
  <2>1. Turn(todo) = p
      BY <1>2 DEF Turn, SubjectsOf, AgentsIn
  <2>2. TodoCovers(todo, checkpoints, es, rows)
      BY <1>2 DEF TodoCovers
  <2>3. p.pc = "attest" /\ p.todo = todo /\ p.left = AgentsIn(First(todo), rows)
        /\ p = [pc |-> "attest", todo |-> p.todo, left |-> p.left]
      OBVIOUS
  <2> HIDE DEF p
  <2>4. LeftOK(p, es, rows)
      BY <2>3 DEF LeftOK
  <2> QED
      BY <2>1, <2>2, <2>3, <2>4 DEF PassOK
<1> QED
    BY <1>1, <1>2

\* read_checkpoints_pending_attestation: likewise for the envelopes.
LEMMA ReadPendingInv ==
    ASSUME StreamsInv, NEW r \in Recorders, ReadPending(r) PROVE StreamsInv'
<1> DEFINE n == synced.attestation
           U == Unsynced(n)
<1>1. /\ pass' = [pass EXCEPT ![r] = Turn(U)]
      /\ UNCHANGED <<rows, open, checkpoints, synced, held, sealed>>
    BY DEF ReadPending, recorded, remote
<1>2. checkpoints \in Seq(Windows) /\ SyncOK(synced, checkpoints, held, sealed, rows)
    BY DEF StreamsInv, RecordedOK
<1>3. n \in Nat
    BY <1>2 DEF SyncOK, Reached
<1>4. /\ U \subseteq EmittedIn(checkpoints)
      /\ \A c \in U, e \in EmittedIn(checkpoints) : e.to > n /\ e.to <= c.to => e \in U
  <2>1. Emitted = EmittedIn(checkpoints)
      BY DEF Emitted, EmittedIn
  <2> QED
      BY <1>2, <1>3, <2>1, UnsyncedIs
<1> HIDE DEF U
<1>5. ASSUME NEW c \in U, NEW i \in 1..Len(checkpoints), OrderedIn(i, checkpoints),
             checkpoints[i].to <= c.to
      PROVE  AttestedIn(checkpoints[i], sealed, rows) \/ checkpoints[i] \in U
  <2>1. checkpoints[i] \in EmittedIn(checkpoints) /\ checkpoints[i].to \in Nat
      BY <1>2, EmittedIs
  <2>2. CASE checkpoints[i].to > n
      BY <1>4, <1>5, <2>1, <2>2
  <2>3. CASE checkpoints[i].to <= n
      BY <1>2, <1>5, <2>3 DEF SyncOK
  <2> QED
      BY <1>3, <2>1, <2>2, <2>3
<1>6. PassOK(Turn(U), checkpoints, held, sealed, rows)
    BY <1>4, <1>5, TurnOK
<1> QED
    BY <1>1, <1>6, PassInv

\* What a pass in the middle of a checkpoint is at.
LEMMA AttestingFirst ==
    ASSUME StreamsInv, NEW r \in Recorders, pass[r].pc = "attest", NEW f, f = First(pass[r].todo)
    PROVE  /\ checkpoints \in Seq(Windows)
           /\ pass[r] = [pc |-> "attest", todo |-> pass[r].todo, left |-> pass[r].left]
           /\ TodoCovers(pass[r].todo, checkpoints, sealed, rows)
           /\ LeftOK(pass[r], sealed, rows)
           /\ f \in pass[r].todo /\ f \in EmittedIn(checkpoints)
           /\ \A e \in pass[r].todo : f.to <= e.to
<1>1. /\ checkpoints \in Seq(Windows) /\ PassOK(pass[r], checkpoints, held, sealed, rows)
    BY DEF StreamsInv, RecordedOK
<1>2. /\ pass[r] = [pc |-> "attest", todo |-> pass[r].todo, left |-> pass[r].left]
      /\ TodoCovers(pass[r].todo, checkpoints, sealed, rows)
      /\ LeftOK(pass[r], sealed, rows)
    BY <1>1 DEF PassOK
<1>3. pass[r].todo \subseteq EmittedIn(checkpoints) /\ pass[r].todo # {}
    BY <1>2 DEF TodoCovers
<1>4. f \in pass[r].todo /\ \A e \in pass[r].todo : f.to <= e.to
    BY <1>1, <1>3, FirstIs
<1> QED
    BY <1>1, <1>2, <1>3, <1>4

\* An envelope more: all of an agent's verdicts in the window of the first.
LEMMA SealedMore ==
    ASSUME StreamsInv, NEW r \in Recorders, pass[r].pc = "attest", NEW a \in pass[r].left,
           NEW es, es = sealed \cup {Envelope(First(pass[r].todo), a)}
    PROVE  /\ EventsIn(First(pass[r].todo), a, rows) \in es
           /\ Grows(checkpoints, held, sealed, rows, checkpoints, held, es, rows)
           /\ SyncOK(synced, checkpoints, held, es, rows)
           /\ \A q \in Recorders : PassOK(pass[q], checkpoints, held, es, rows)
           /\ SealsOK(checkpoints, es, rows)
<1> DEFINE f == First(pass[r].todo)
           e == EventsIn(f, a, rows)
<1>1. es = sealed \cup {e}
    BY DEF Envelope, EventsIn
<1>2. /\ checkpoints \in Seq(Windows) /\ f \in EmittedIn(checkpoints)
      /\ LeftOK(pass[r], sealed, rows)
    BY AttestingFirst
<1>3. a \in AgentsIn(f, rows)
    BY <1>2 DEF LeftOK
<1>4. Grows(checkpoints, held, sealed, rows, checkpoints, held, es, rows)
  <2>1. Len(checkpoints) \in Nat
      BY <1>2, LenProperties
  <2> HIDE DEF e
  <2> QED
      BY <1>1, <1>2, <2>1 DEF Grows
<1>5. SyncOK(synced, checkpoints, held, es, rows)
    BY <1>4, GrowsSync DEF StreamsInv
<1>6. \A q \in Recorders : PassOK(pass[q], checkpoints, held, es, rows)
    BY <1>4, GrowsPass DEF StreamsInv
<1>7. SealsOK(checkpoints, es, rows)
  <2>1. e.subject = a
      BY DEF EventsIn
  <2> HIDE DEF e
  <2>2. e = EventsIn(f, a, rows)
      BY DEF e
  <2> HIDE DEF f
  <2> QED
      BY <1>1, <1>2, <1>3, <2>1, <2>2 DEF StreamsInv, SealsOK
<1> QED
    BY <1>1, <1>4, <1>5, <1>6, <1>7

\* _attest: one agent fewer left, and its envelope sealed.
LEMMA AttestInv ==
    ASSUME StreamsInv, NEW r \in Recorders, NEW a, Attest(r, a) PROVE StreamsInv'
<1> DEFINE t == pass[r].todo
           l == pass[r].left
           p == [pc |-> "attest", todo |-> t, left |-> l \ {a}]
<1>1. /\ pass[r].pc = "attest" /\ a \in l
      /\ sealed' = sealed \cup {Envelope(First(t), a)}
      /\ pass' = [pass EXCEPT ![r].left = l \ {a}]
      /\ UNCHANGED <<rows, open, checkpoints, synced, held>>
    BY DEF Attest, recorded
<1>2. /\ EventsIn(First(t), a, rows) \in sealed'
      /\ SyncOK(synced, checkpoints, held, sealed', rows)
      /\ \A q \in Recorders : PassOK(pass[q], checkpoints, held, sealed', rows)
      /\ SealsOK(checkpoints, sealed', rows)
    BY <1>1, SealedMore
<1>3. pass[r] = [pc |-> "attest", todo |-> t, left |-> l]
    BY <1>1, AttestingFirst
<1>4. pass' = [pass EXCEPT ![r] = p]
  <2>1. [pass[r] EXCEPT !.left = l \ {a}] = p
    <3> HIDE DEF t, l
    <3> QED
        BY <1>3
  <2>2. pass' = [pass EXCEPT ![r] = [pass[r] EXCEPT !.left = l \ {a}]]
      BY <1>1
  <2> QED
      BY <2>1, <2>2
<1>5. PassOK(p, checkpoints, held, sealed', rows)
  <2>1. TodoCovers(t, checkpoints, sealed', rows) /\ LeftOK(pass[r], sealed', rows)
      BY <1>1, <1>2 DEF PassOK
  <2>2. /\ l \subseteq AgentsIn(First(t), rows)
        /\ \A b \in AgentsIn(First(t), rows) \ l : EventsIn(First(t), b, rows) \in sealed'
      BY <2>1 DEF LeftOK
  <2>3. p.pc = "attest" /\ p.todo = t /\ p.left = l \ {a}
        /\ p = [pc |-> "attest", todo |-> p.todo, left |-> p.left]
      OBVIOUS
  <2> HIDE DEF p, t, l
  <2>4. LeftOK(p, sealed', rows)
      BY <1>2, <2>2, <2>3 DEF LeftOK
  <2> QED
      BY <2>1, <2>3, <2>4 DEF PassOK
<1> HIDE DEF p
<1>6. /\ pass' = [q \in Recorders |-> pass'[q]]
      /\ \A q \in Recorders : PassOK(pass'[q], checkpoints, held, sealed', rows)
    BY <1>2, <1>4, <1>5 DEF StreamsInv
<1> QED
    BY <1>1, <1>2, <1>6 DEF StreamsInv

\* The pass ends, and the envelope may be sealed.
LEMMA AttestFailsInv ==
    ASSUME StreamsInv, NEW r \in Recorders, NEW a, NEW landed, AttestFails(r, a, landed)
    PROVE  StreamsInv'
<1>1. /\ pass[r].pc = "attest" /\ a \in pass[r].left
      /\ sealed' = IF landed THEN sealed \cup {Envelope(First(pass[r].todo), a)} ELSE sealed
      /\ pass' = [pass EXCEPT ![r] = Resting]
      /\ UNCHANGED <<rows, open, checkpoints, synced, held>>
    BY DEF AttestFails, AfterRefusal, recorded
<1>2. /\ SyncOK(synced, checkpoints, held, sealed', rows)
      /\ \A q \in Recorders : PassOK(pass[q], checkpoints, held, sealed', rows)
      /\ SealsOK(checkpoints, sealed', rows)
  <2>1. CASE landed
    <3>1. sealed' = sealed \cup {Envelope(First(pass[r].todo), a)}
        BY <1>1, <2>1
    <3> QED
        BY <1>1, <3>1, SealedMore
  <2>2. CASE ~landed
      BY <1>1, <2>2 DEF StreamsInv
  <2> QED
      BY <2>1, <2>2
<1>3. PassOK(Resting, checkpoints, held, sealed', rows)
    BY RestingOK
<1>4. /\ pass' = [q \in Recorders |-> pass'[q]]
      /\ \A q \in Recorders : PassOK(pass'[q], checkpoints, held, sealed', rows)
    BY <1>1, <1>2, <1>3 DEF StreamsInv
<1> QED
    BY <1>1, <1>2, <1>4 DEF StreamsInv

\* With no agent left the first is attested; no other of the pass ends where
\* it does, so the watermark may stand there.
LEMMA AttestationDoneInv ==
    ASSUME StreamsInv, NEW r \in Recorders, AttestationDone(r) PROVE StreamsInv'
<1> DEFINE t == pass[r].todo
           f == First(t)
<1>1. /\ pass[r].pc = "attest" /\ pass[r].left = {}
      /\ UNCHANGED <<rows, open, checkpoints, held, sealed>>
    BY DEF AttestationDone, recorded, remote
<1>2. /\ checkpoints \in Seq(Windows) /\ TodoCovers(t, checkpoints, sealed, rows)
      /\ LeftOK(pass[r], sealed, rows)
      /\ f \in t /\ f \in EmittedIn(checkpoints) /\ \A e \in t : f.to <= e.to
    BY <1>1, AttestingFirst
<1>3. AttestedIn(f, sealed, rows)
    BY <1>1, <1>2 DEF LeftOK, AttestedIn
<1>4. CASE f.to < synced.attestation
  <2>1. pass' = [pass EXCEPT ![r] = Resting] /\ UNCHANGED synced
      BY <1>4 DEF AttestationDone
  <2>2. PassOK(Resting, checkpoints, held, sealed, rows)
      BY RestingOK
  <2> QED
      BY <1>1, <2>1, <2>2, PassInv
<1>5. CASE ~(f.to < synced.attestation)
  <2>1. /\ synced' = [synced EXCEPT !.attestation = f.to]
        /\ pass' = [pass EXCEPT ![r] = Turn(t \ {f})]
      BY <1>5 DEF AttestationDone
  <2> HIDE DEF f, t
  <2>2. ASSUME NEW c \in t \ {f}, NEW i \in 1..Len(checkpoints), OrderedIn(i, checkpoints),
               checkpoints[i].to <= c.to
        PROVE  AttestedIn(checkpoints[i], sealed, rows) \/ checkpoints[i] \in t \ {f}
      BY <1>2, <1>3, <2>2 DEF TodoCovers
  <2>3. PassOK(Turn(t \ {f}), checkpoints, held, sealed, rows)
    <3>1. t \ {f} \subseteq EmittedIn(checkpoints)
        BY <1>2 DEF TodoCovers
    <3> QED
        BY <2>2, <3>1, TurnOK
  <2>4. /\ pass' = [q \in Recorders |-> pass'[q]]
        /\ \A q \in Recorders : PassOK(pass'[q], checkpoints, held, sealed, rows)
      BY <2>1, <2>3 DEF StreamsInv
  <2>5. PICK k \in 1..Len(checkpoints) : f = checkpoints[k]
      BY <1>2, EmittedIs
  <2>6. ASSUME NEW i \in 1..Len(checkpoints), OrderedIn(i, checkpoints), checkpoints[i].to <= f.to
        PROVE  AttestedIn(checkpoints[i], sealed, rows)
    <3>1. AttestedIn(checkpoints[i], sealed, rows) \/ checkpoints[i] \in t
        BY <1>2, <2>6 DEF TodoCovers
    <3>2. ASSUME checkpoints[i] \in t PROVE checkpoints[i] = f
      <4>1. checkpoints[i].to \in Nat /\ f.to \in Nat
          BY <1>2, EmittedIs
      <4>2. checkpoints[i].to = checkpoints[k].to
          BY <1>2, <2>5, <2>6, <3>2, <4>1
      <4> QED
          BY <2>5, <4>2 DEF StreamsInv, RecordedOK
    <3> QED
        BY <1>3, <3>1, <3>2
  <2>7. SyncOK(synced', checkpoints, held, sealed, rows)
    <3>1. SyncOK(synced, checkpoints, held, sealed, rows)
        BY DEF StreamsInv
    <3>2. synced' = [checkpoint |-> synced.checkpoint, attestation |-> f.to]
        BY <2>1, <3>1 DEF SyncOK
    <3>3. synced'.checkpoint = synced.checkpoint /\ synced'.attestation = f.to
        BY <3>2
    <3>4. Reached(f.to, checkpoints)
      <4>1. f.to \in Nat
          BY <1>2, EmittedIs
      <4> QED
          BY <2>5, <4>1 DEF Reached
    <3> QED
        BY <2>6, <3>1, <3>2, <3>3, <3>4 DEF SyncOK
  <2> QED
      BY <1>1, <2>4, <2>7 DEF StreamsInv
<1> QED
    BY <1>4, <1>5

\* The window noted and the pass are lost; the file is not.
LEMMA RecorderDiesInv ==
    ASSUME StreamsInv, NEW r \in Recorders, RecorderDies(r) PROVE StreamsInv'
<1>1. /\ open' = [open EXCEPT ![r] = NoWindow] /\ pass' = [pass EXCEPT ![r] = Resting]
      /\ UNCHANGED <<rows, checkpoints, synced, held, sealed>>
    BY DEF RecorderDies, remote
<1>2. open' = [q \in Recorders |-> open'[q]] /\ \A q \in Recorders : WindowOK(open'[q], rows)
    BY <1>1 DEF StreamsInv, WindowOK
<1>3. PassOK(Resting, checkpoints, held, sealed, rows)
    BY RestingOK
<1>4. /\ pass' = [q \in Recorders |-> pass'[q]]
      /\ \A q \in Recorders : PassOK(pass'[q], checkpoints, held, sealed, rows)
    BY <1>1, <1>3 DEF StreamsInv
<1> QED
    BY <1>1, <1>2, <1>4 DEF StreamsInv

\* The pass ends with nothing sent.
LEMMA PostFailsInv ==
    ASSUME StreamsInv, NEW r \in Recorders, PostFails(r) PROVE StreamsInv'
<1>1. /\ pass' = [pass EXCEPT ![r] = Resting]
      /\ UNCHANGED <<rows, open, checkpoints, synced, held, sealed>>
    BY DEF PostFails, recorded, remote
<1> QED
    BY <1>1, RestingOK, PassInv

\* Every step keeps the invariant.
LEMMA StreamsStep == StreamsInv /\ [StreamsNext]_streamVars => StreamsInv'
<1> SUFFICES ASSUME StreamsInv, [StreamsNext]_streamVars PROVE StreamsInv'
    OBVIOUS
<1>1. CASE UNCHANGED streamVars
    BY <1>1 DEF streamVars, StreamsInv
<1>2. CASE \E subject \in Subjects \cup {NoSubject} : AppendVerdict(subject)
    BY <1>2, AppendVerdictInv
<1>3. ASSUME NEW r \in Recorders,
             \/ Capture(r) \/ EmitCheckpoint(r) \/ ReadCheckpoints(r) \/ PostFails(r)
             \/ ReceiveCheckpointAnswer(r) \/ ReadPending(r) \/ AttestationDone(r)
             \/ RecorderDies(r)
      PROVE  StreamsInv'
    BY <1>3, CaptureInv, EmitCheckpointInv, ReadCheckpointsInv, PostFailsInv,
       ReceiveCheckpointAnswerInv, ReadPendingInv, AttestationDoneInv, RecorderDiesInv
<1>4. ASSUME NEW r \in Recorders, NEW rejected, NEW lost, StoreCheckpoints(r, rejected, lost)
      PROVE  StreamsInv'
    BY <1>4, StoreCheckpointsInv
<1>5. ASSUME NEW r \in Recorders, NEW a \in Subjects, Attest(r, a) PROVE StreamsInv'
    BY <1>5, AttestInv
<1>6. ASSUME NEW r \in Recorders, NEW a \in Subjects, NEW landed, AttestFails(r, a, landed)
      PROVE  StreamsInv'
    BY <1>6, AttestFailsInv
<1> QED
    BY <1>1, <1>2, <1>3, <1>4, <1>5, <1>6 DEF StreamsNext

\* The invariant holds of every behaviour of Streams.
THEOREM StreamsInvariant == StreamsSpec => []StreamsInv
<1>1. StreamsInit => StreamsInv
    BY StreamsInitInv
<1>2. StreamsInv /\ [StreamsNext]_streamVars => StreamsInv'
    BY StreamsStep
<1> QED
    BY <1>1, <1>2, PTL DEF StreamsSpec

\* shipper.py ship_checkpoints_once and ship_attestations_once, for any
\* number of recorders, agents, rows, deaths and lost or refused requests: of
\* the checkpoints inserted in the order of their ends, the store has all up
\* to the one watermark, and Coriqo has sealed every agent's verdicts in all
\* up to the other; and it never sealed part of what an agent did in a window.
THEOREM StreamsAreComplete == StreamsSpec => []StreamsComplete
<1>1. StreamsInv => StreamsComplete
  <2> SUFFICES ASSUME StreamsInv PROVE StreamsComplete
      OBVIOUS
  <2>0. DOMAIN checkpoints = 1..Len(checkpoints) /\ Emitted = EmittedIn(checkpoints)
    <3>1. checkpoints \in Seq(Windows)
        BY DEF StreamsInv, RecordedOK
    <3> QED
        BY <3>1, LenProperties DEF Emitted, EmittedIn
  <2>1. \A i : InOrder(i) <=> OrderedIn(i, checkpoints)
      BY DEF InOrder, OrderedIn
  <2>2. \A c : SubjectsOf(c) = AgentsIn(c, rows)
      BY DEF SubjectsOf, AgentsIn
  <2>3. \A c, a : Envelope(c, a) = EventsIn(c, a, rows)
      BY DEF Envelope, EventsIn
  <2>4. ASSUME NEW i \in DOMAIN checkpoints, InOrder(i)
        PROVE  /\ checkpoints[i].to <= synced.checkpoint => checkpoints[i] \in held
               /\ checkpoints[i].to <= synced.attestation =>
                    \A subject \in SubjectsOf(checkpoints[i]) :
                       Envelope(checkpoints[i], subject) \in sealed
      BY <2>0, <2>1, <2>2, <2>3, <2>4 DEF StreamsInv, SyncOK, AttestedIn
  <2>5. ASSUME NEW e \in sealed
        PROVE  \E c \in Emitted : e.subject \in SubjectsOf(c) /\ e = Envelope(c, e.subject)
      BY <2>0, <2>2, <2>3 DEF StreamsInv, SealsOK
  <2> QED
      BY <2>4, <2>5 DEF StreamsComplete
<1> QED
    BY <1>1, StreamsInvariant, PTL
=============================================================================

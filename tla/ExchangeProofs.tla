--------------------------- MODULE ExchangeProofs ---------------------------
(***************************************************************************)
(* Proofs about what the device exchanges: about Verdicts, for any number  *)
(* of processes, agents, verdicts and faults and any limits of a batch,    *)
(* about Sessions, for any number of sessions and steps, and about         *)
(* AgentProxy, for any tools, threshold, requests and environments and     *)
(* responses of any length.                                                *)
(***************************************************************************)
EXTENDS Verdicts, Sessions, AgentProxy, FiniteSetTheorems, WellFoundedInduction, SequenceTheorems, TLAPS

-----------------------------------------------------------------------------
(* The inductive invariant *)

Rows == [agent : Agents, key : Nat, state : {"pending", "shipped", "rejected"}]
Answers == [status : {"ok", "duplicate", "422"}, count : Nat \cup {Nothing}]
ShipStates ==
    [pc : {"idle", "fresh"}] \cup
    [pc : {"resume"}, key : Nat] \cup
    [pc : {"send"}, key : Nat, ids : SUBSET Nat, try : Nat] \cup
    [pc : {"done"}, key : Nat, ids : SUBSET Nat, answer : Answers]

\* The rows claimed under a key.
RowsOf(k) == {i \in Ids : outbox[i].key = k}

\* Every variable keeps its type.
VerdictsTypeOK ==
    /\ outbox \in Seq(Rows)
    /\ bad \subseteq Ids
    /\ keys \in Nat
    /\ ship \in [Procs -> ShipStates]
    /\ held \in [DOMAIN held -> SUBSET Nat]

\* No row has a key that was not made, and none without one is settled.
KeysMade ==
    \A i \in Ids : /\ outbox[i].key \in 0..keys
                   /\ outbox[i].key = 0 => outbox[i].state = "pending"

\* The rows of one batch are settled together.
BatchesAgree ==
    \A i, j \in Ids : outbox[i].key = outbox[j].key /\ outbox[i].key # 0 =>
                        outbox[i].state = outbox[j].state

\* Coriqo holds a batch whole, and none that it has a reason to refuse.
BatchesWhole ==
    \A k \in DOMAIN held : /\ k \in 1..keys
                           /\ held[k] = RowsOf(k)
                           /\ held[k] \cap bad = {}

\* A settled row says what became of its batch.
StatesTrue ==
    \A i \in Ids :
        /\ outbox[i].state = "shipped" => outbox[i].key \in DOMAIN held
        /\ outbox[i].state = "rejected" => RowsOf(outbox[i].key) \cap bad # {}

\* What an answer on its way to the outbox promises of its batch.
AnswerTrue(s) ==
    /\ s.ids = RowsOf(s.key)
    /\ s.answer.status = "422" => s.ids \cap bad # {}
    /\ s.answer.status # "422" => s.key \in DOMAIN held
    /\ s.answer.count # Nothing => s.answer.count = Cardinality(s.ids)

\* A shipper carries all of a batch, or nothing.
ShippersCarryBatches ==
    \A p \in Procs :
        /\ ship[p].pc \in {"resume", "send", "done"} => ship[p].key \in 1..keys
        /\ ship[p].pc = "send" => ship[p].ids \in {RowsOf(ship[p].key), {}}
        /\ ship[p].pc = "done" => AnswerTrue(ship[p])

VerdictsInv ==
    /\ VerdictsTypeOK
    /\ KeysMade
    /\ BatchesAgree
    /\ BatchesWhole
    /\ StatesTrue
    /\ ShippersCarryBatches

-----------------------------------------------------------------------------
(* Lemmas *)

\* A function on 1..n is a sequence.
LEMMA FunctionIsSequence ==
    ASSUME NEW S, NEW n \in Nat, NEW f \in [1..n -> S]
    PROVE  f \in Seq(S) /\ Len(f) = n
OBVIOUS

\* A set of naturals that is not empty has a least element (FiniteSetsExt Min).
LEMMA MinExists ==
    ASSUME NEW S \in SUBSET Nat, S # {}
    PROVE  Min(S) \in S
<1>1. PICK n \in S : \A m \in S : n <= m
  <2> DEFINE R == OpToRel(<, Nat)
  <2>1. \A x, y \in Nat : y < x => <<y, x>> \in R
    BY DEF OpToRel
  <2>2. IsWellFoundedOn(R, Nat)
    BY NatLessThanWellFounded
  <2> HIDE DEF R
  <2>3. PICK x \in S : \A y \in S : ~ (<<y, x>> \in R)
    BY <2>2, WFMin
  <2>4. \A y \in S : ~ (y < x)
    BY <2>1, <2>3
  <2> QED BY <2>4
<1> QED BY <1>1 DEF Min

\* In a state of the invariant the outbox tells the truth.
LEMMA InvImpliesTruth == VerdictsInv => OutboxTellsTheTruth
<1> SUFFICES ASSUME VerdictsInv, NEW i \in Ids
             PROVE  /\ Cardinality(SealedUnder(i)) <= 1
                    /\ outbox[i].state = "shipped" => SealedUnder(i) # {}
                    /\ outbox[i].state = "rejected" => SealedUnder(i) = {}
  BY DEF OutboxTellsTheTruth
<1> USE DEF VerdictsInv
<1>1. SealedUnder(i) \subseteq {outbox[i].key}
  BY DEF BatchesWhole, SealedUnder, RowsOf
<1>2. Cardinality(SealedUnder(i)) <= 1
  <2>1. IsFiniteSet({outbox[i].key}) /\ Cardinality({outbox[i].key}) = 1
    BY FS_Singleton
  <2> QED BY <1>1, <2>1, FS_Subset, FS_CardinalityType
<1>3. outbox[i].state = "shipped" => SealedUnder(i) # {}
  BY DEF StatesTrue, BatchesWhole, SealedUnder, RowsOf
<1>4. outbox[i].state = "rejected" => SealedUnder(i) = {}
  BY <1>1 DEF StatesTrue, BatchesWhole, SealedUnder
<1> QED BY <1>2, <1>3, <1>4

\* The empty outbox.
LEMMA VerdictsInitInv == VerdictsInit => VerdictsInv
BY DEF VerdictsInit, VerdictsInv, VerdictsTypeOK, KeysMade, BatchesAgree, BatchesWhole,
       StatesTrue, ShippersCarryBatches, Ids, Idle, ShipStates

-----------------------------------------------------------------------------
(* One lemma per action *)

\* A verdict is put in the outbox: it has no key, so no batch changes.
LEMMA AddInv ==
    ASSUME VerdictsInv, NEW a \in Agents, NEW refused \in BOOLEAN, Add(a, refused)
    PROVE  VerdictsInv'
<1> USE DEF VerdictsInv, Add, Ids
<1>1. VerdictsTypeOK'
  BY DEF VerdictsTypeOK, Rows
<1>2. Len(outbox') = Len(outbox) + 1 /\ \A i \in 1..Len(outbox) : outbox'[i] = outbox[i]
  BY DEF VerdictsTypeOK
<1>3. outbox'[Len(outbox) + 1] = [agent |-> a, key |-> 0, state |-> "pending"]
  BY DEF VerdictsTypeOK
<1>4. \A k \in Nat \ {0} : RowsOf(k)' = RowsOf(k) /\ RowsOf(k) \cap bad' = RowsOf(k) \cap bad
  BY <1>2, <1>3 DEF RowsOf, VerdictsTypeOK
<1>5. KeysMade'
  <2> SUFFICES ASSUME NEW i \in 1..Len(outbox')
               PROVE  /\ outbox'[i].key \in 0..keys'
                      /\ outbox'[i].key = 0 => outbox'[i].state = "pending"
    BY DEF KeysMade
  <2>1. CASE i = Len(outbox) + 1
    BY <2>1, <1>3 DEF VerdictsTypeOK
  <2>2. CASE i # Len(outbox) + 1
    <3>1. i \in 1..Len(outbox)
      BY <2>2, <1>2 DEF VerdictsTypeOK
    <3> QED BY <3>1, <1>2 DEF KeysMade
  <2> QED BY <2>1, <2>2
<1>9. BatchesAgree'
  <2> SUFFICES ASSUME NEW i \in 1..Len(outbox'), NEW j \in 1..Len(outbox'),
                      outbox'[i].key = outbox'[j].key, outbox'[i].key # 0
               PROVE  outbox'[i].state = outbox'[j].state
    BY DEF BatchesAgree
  <2>1. i # Len(outbox) + 1 /\ j # Len(outbox) + 1
    BY <1>3
  <2>2. i \in 1..Len(outbox) /\ j \in 1..Len(outbox)
    BY <2>1, <1>2 DEF VerdictsTypeOK
  <2> QED BY <2>2, <1>2 DEF BatchesAgree
<1>6. BatchesWhole'
  BY <1>4 DEF BatchesWhole, VerdictsTypeOK
<1>7. StatesTrue'
  BY <1>2, <1>3, <1>4 DEF StatesTrue, KeysMade, VerdictsTypeOK
<1>8. ShippersCarryBatches'
  BY <1>4 DEF ShippersCarryBatches, AnswerTrue, VerdictsTypeOK
<1> QED BY <1>1, <1>5, <1>6, <1>7, <1>8, <1>9

\* A step that moves one shipper, and at most adds batches to what Coriqo
\* holds.
LEMMA MoveInv ==
    ASSUME VerdictsInv, NEW p \in Procs, NEW s \in ShipStates,
           ship' = [ship EXCEPT ![p] = s], UNCHANGED <<outbox, bad, keys>>,
           held' \in [DOMAIN held' -> SUBSET Nat], BatchesWhole',
           DOMAIN held \subseteq DOMAIN held',
           s.pc \in {"resume", "send", "done"} => s.key \in 1..keys,
           s.pc = "send" => s.ids \in {RowsOf(s.key), {}},
           s.pc = "done" => /\ s.ids = RowsOf(s.key)
                            /\ s.answer.status = "422" => s.ids \cap bad # {}
                            /\ s.answer.status # "422" => s.key \in DOMAIN held'
                            /\ s.answer.count # Nothing => s.answer.count = Cardinality(s.ids)
    PROVE  VerdictsInv'
<1> USE DEF VerdictsInv
<1>1. VerdictsTypeOK'
  BY DEF VerdictsTypeOK, Ids
<1>2. (KeysMade /\ BatchesAgree /\ BatchesWhole /\ StatesTrue)'
  BY DEF KeysMade, BatchesAgree, StatesTrue, RowsOf, Ids
<1>3. \A q \in Procs : ship'[q] = IF q = p THEN s ELSE ship[q]
  BY DEF VerdictsTypeOK
<1>4. \A k : RowsOf(k)' = RowsOf(k)
  BY DEF RowsOf, Ids
<1>5. \A q \in Procs : q # p /\ ship[q].pc = "done" => AnswerTrue(ship[q])'
  BY <1>3, <1>4 DEF ShippersCarryBatches, AnswerTrue
<1>6. s.pc = "done" => AnswerTrue(ship[p])'
  BY <1>3, <1>4 DEF AnswerTrue
<1>7. ShippersCarryBatches'
  BY <1>3, <1>4, <1>5, <1>6 DEF ShippersCarryBatches
<1> QED BY <1>1, <1>2, <1>7

\* Nothing but a shipper moves.
LEMMA KeepHeld ==
    ASSUME VerdictsInv, UNCHANGED <<outbox, bad, keys, held>>
    PROVE  /\ held' \in [DOMAIN held' -> SUBSET Nat] /\ BatchesWhole'
           /\ DOMAIN held \subseteq DOMAIN held'
BY DEF VerdictsInv, VerdictsTypeOK, BatchesWhole, RowsOf, Ids

\* A shipper that goes idle.
LEMMA IdleInv ==
    ASSUME VerdictsInv, NEW p \in Procs, ship' = [ship EXCEPT ![p] = Idle],
           UNCHANGED <<outbox, bad, keys, held>>
    PROVE  VerdictsInv'
<1>1. Idle \in ShipStates /\ Idle.pc = "idle"
  BY DEF Idle, ShipStates
<1> QED BY <1>1, MoveInv, KeepHeld

\* _resume_claimed's first query finds a key that was made.
LEMMA ResumeHeadInv ==
    ASSUME VerdictsInv, NEW p \in Procs, ResumeHead(p)
    PROVE  VerdictsInv'
<1>1. CASE Claimed = {}
  <2> DEFINE s == [pc |-> "fresh"]
  <2>1. s \in ShipStates /\ s.pc = "fresh"
    BY DEF ShipStates
  <2>2. ship' = [ship EXCEPT ![p] = s] /\ UNCHANGED <<outbox, bad, keys, held>>
    BY <1>1 DEF ResumeHead
  <2> HIDE DEF s
  <2> QED BY <2>1, <2>2, MoveInv, KeepHeld
<1>2. CASE Claimed # {}
  <2> DEFINE s == [pc |-> "resume", key |-> outbox[Min(Claimed)].key]
  <2>1. Claimed \in SUBSET Nat
    BY DEF Claimed, Ids, VerdictsInv, VerdictsTypeOK
  <2>2. Min(Claimed) \in Claimed
    BY <1>2, <2>1, MinExists
  <2>3. s.key \in 1..keys
    BY <2>2 DEF Claimed, VerdictsInv, KeysMade, VerdictsTypeOK
  <2>4. s \in ShipStates /\ s.pc = "resume"
    BY <2>3 DEF ShipStates, VerdictsInv, VerdictsTypeOK
  <2>5. ship' = [ship EXCEPT ![p] = s] /\ UNCHANGED <<outbox, bad, keys, held>>
    BY <1>2 DEF ResumeHead
  <2> HIDE DEF s
  <2> QED BY <2>3, <2>4, <2>5, MoveInv, KeepHeld
<1> QED BY <1>1, <1>2

\* _resume_claimed's second query: the rows of a batch are all claimed still,
\* or none is.
LEMMA ResumeRowsInv ==
    ASSUME VerdictsInv, NEW p \in Procs, NEW n \in Limits, ResumeRows(p, n)
    PROVE  VerdictsInv'
<1> DEFINE k == ship[p].key
           s == Batch(k, Resumed(k, n))
<1>1. k \in 1..keys /\ keys \in Nat
  BY DEF VerdictsInv, VerdictsTypeOK, ShippersCarryBatches, ResumeRows
<1>2. Resumed(k, n) \in {RowsOf(k), {}}
  <2> SUFFICES ASSUME Resumed(k, n) # {}
               PROVE  RowsOf(k) \subseteq Resumed(k, n)
    BY DEF Resumed, RowsOf, Claimed
  <2>1. PICK i \in Resumed(k, n) : TRUE
    OBVIOUS
  <2> QED BY <1>1, <2>1 DEF Resumed, RowsOf, Claimed, VerdictsInv, BatchesAgree
<1>3. s \in ShipStates /\ s.pc = "send" /\ s.key = k /\ s.ids = Resumed(k, n)
  BY <1>1 DEF ShipStates, Batch, Resumed, Claimed, Ids, VerdictsInv, VerdictsTypeOK
<1>4. ship' = [ship EXCEPT ![p] = s] /\ UNCHANGED <<outbox, bad, keys, held>>
  BY DEF ResumeRows
<1> HIDE DEF s
<1> QED BY <1>1, <1>2, <1>3, <1>4, MoveInv, KeepHeld

\* The claim: a new key, on rows that had none.
LEMMA ClaimNewInv ==
    ASSUME VerdictsInv, NEW p \in Procs, NEW n \in Limits, ClaimNew(p, n)
    PROVE  VerdictsInv'
<1>1. CASE Unclaimed = {}
  BY <1>1, IdleInv DEF ClaimNew
<1>2. CASE Unclaimed # {}
  <2> DEFINE T == Taken(n)
  <2>1. /\ keys' = keys + 1
        /\ outbox' = [i \in Ids |-> IF i \in T THEN [outbox[i] EXCEPT !.key = keys + 1]
                                    ELSE outbox[i]]
        /\ ship' = [ship EXCEPT ![p] = Batch(keys + 1, T)]
        /\ UNCHANGED <<bad, held>>
    BY <1>2 DEF ClaimNew
  <2>2. T \subseteq Ids /\ \A i \in T : outbox[i].key = 0 /\ outbox[i].state = "pending"
    BY DEF Taken, Lowest, Unclaimed
  <2> HIDE DEF T
  <2> USE DEF VerdictsInv
  <2>0. keys \in Nat /\ Len(outbox) \in Nat /\ ship \in [Procs -> ShipStates]
    BY DEF VerdictsTypeOK
  <2>a. \A i \in Ids : outbox[i].key \in 0..keys
    BY DEF KeysMade
  <2>b. \A i \in Ids : outbox[i] \in Rows
    BY DEF VerdictsTypeOK, Ids
  <2>c. \A i \in Ids : [outbox[i] EXCEPT !.key = keys + 1] \in Rows
    BY <2>0, <2>b DEF Rows
  <2>3. outbox' \in [1..Len(outbox) -> Rows] /\ Len(outbox) \in Nat
    BY <2>0, <2>1, <2>b, <2>c DEF Ids
  <2>4. outbox' \in Seq(Rows) /\ Len(outbox') = Len(outbox) /\ Ids' = Ids
    BY <2>3, FunctionIsSequence DEF Ids
  <2>5. \A i \in Ids : /\ outbox'[i].state = outbox[i].state
                       /\ outbox'[i].key = IF i \in T THEN keys + 1 ELSE outbox[i].key
    BY <2>0, <2>1, <2>b DEF Rows
  <2>6. \A k \in 1..keys : RowsOf(k)' = RowsOf(k)
    BY <2>0, <2>a, <2>2, <2>4, <2>5 DEF RowsOf
  <2>7. \A k : k = keys + 1 => RowsOf(k)' = T
    BY <2>0, <2>a, <2>2, <2>4, <2>5 DEF RowsOf
  <2>8. Batch(keys + 1, T) \in ShipStates
    BY <2>0, <2>2 DEF Batch, ShipStates, Ids
  <2>9. VerdictsTypeOK'
    <3>1. ship' \in [Procs -> ShipStates] /\ keys' \in Nat
      BY <2>0, <2>1, <2>8
    <3> QED BY <3>1, <2>1, <2>4 DEF VerdictsTypeOK
  <2>10. KeysMade'
    <3> SUFFICES ASSUME NEW i \in Ids
                 PROVE  /\ outbox'[i].key \in 0..keys'
                        /\ outbox'[i].key = 0 => outbox'[i].state = "pending"
      BY <2>4 DEF KeysMade
    <3>1. CASE i \in T
      <4>1. outbox'[i].key = keys'
        BY <3>1, <2>1, <2>5
      <4>2. keys' \in Nat \ {0}
        BY <2>0, <2>1
      <4> QED BY <4>1, <4>2
    <3>2. CASE i \notin T
      BY <3>2, <2>0, <2>a, <2>1, <2>5 DEF KeysMade
    <3> QED BY <3>1, <3>2
  <2>11. BatchesAgree'
    <3> SUFFICES ASSUME NEW i \in Ids, NEW j \in Ids,
                        outbox'[i].key = outbox'[j].key, outbox'[i].key # 0
                 PROVE  outbox'[i].state = outbox'[j].state
      BY <2>4 DEF BatchesAgree
    <3>1. i \in T <=> j \in T
      BY <2>0, <2>a, <2>5
    <3> QED BY <3>1, <2>2, <2>5 DEF BatchesAgree
  <2>12. BatchesWhole'
    BY <2>1, <2>6 DEF BatchesWhole, VerdictsTypeOK
  <2>13. StatesTrue'
    <3> SUFFICES ASSUME NEW i \in Ids
                 PROVE  /\ outbox'[i].state = "shipped" => outbox'[i].key \in DOMAIN held'
                        /\ outbox'[i].state = "rejected" => RowsOf(outbox[i].key)' \cap bad' # {}
      BY <2>4 DEF StatesTrue
    <3>1. CASE i \in T
      BY <3>1, <2>2, <2>5
    <3>2. CASE i \notin T /\ outbox[i].key = 0
      BY <3>2, <2>5 DEF KeysMade
    <3>3. CASE i \notin T /\ outbox[i].key # 0
      <4>1. outbox[i].key \in 1..keys /\ outbox'[i].key = outbox[i].key
        BY <3>3, <2>0, <2>a, <2>5
      <4> QED BY <4>1, <2>1, <2>5, <2>6 DEF StatesTrue
    <3> QED BY <3>1, <3>2, <3>3
  <2>14. ShippersCarryBatches'
    <3> SUFFICES ASSUME NEW q \in Procs
                 PROVE  /\ ship'[q].pc \in {"resume", "send", "done"} => ship'[q].key \in 1..keys'
                        /\ ship'[q].pc = "send" => ship'[q].ids \in {RowsOf(ship[q].key)', {}}
                        /\ ship'[q].pc = "done" => AnswerTrue(ship[q])'
      BY DEF ShippersCarryBatches
    <3>1. CASE q = p
      <4>1. ship'[q] = [pc |-> "send", key |-> keys + 1, ids |-> T, try |-> 1]
        BY <3>1, <2>0, <2>1 DEF Batch
      <4>2. RowsOf(ship[q].key)' = T
        BY <4>1, <2>7
      <4> QED BY <4>1, <4>2, <2>0, <2>1
    <3>2. CASE q # p
      <4>1. ship'[q] = ship[q]
        BY <3>2, <2>0, <2>1
      <4>2. ship[q].pc = "done" => AnswerTrue(ship[q])'
        BY <4>1, <2>1, <2>6 DEF ShippersCarryBatches, AnswerTrue
      <4> QED BY <4>1, <4>2, <2>0, <2>1, <2>6 DEF ShippersCarryBatches
    <3> QED BY <3>1, <3>2
  <2> QED BY <2>9, <2>10, <2>11, <2>12, <2>13, <2>14
<1> QED BY <1>1, <1>2

\* Coriqo gets a batch: what it then holds is still whole and acceptable.
LEMMA SealInv ==
    ASSUME VerdictsInv, NEW p \in Procs, ship[p].pc = "send", ship[p].ids # {},
           held' \in {held, Sealed(ship[p].key, ship[p].ids)},
           UNCHANGED <<outbox, bad, keys>>
    PROVE  /\ held' \in [DOMAIN held' -> SUBSET Nat] /\ BatchesWhole'
           /\ DOMAIN held \subseteq DOMAIN held'
<1> DEFINE k == ship[p].key
           ids == ship[p].ids
<1>1. k \in 1..keys /\ ids = RowsOf(k) /\ ids \in SUBSET Nat
  BY DEF VerdictsInv, VerdictsTypeOK, ShippersCarryBatches, RowsOf, Ids
<1>2. \A j : RowsOf(j)' = RowsOf(j)
  BY DEF RowsOf, Ids
<1> HIDE DEF k, ids
<1>3. CASE held' = held
  BY <1>3, KeepHeld
<1>4. CASE held' # held
  <2>1. /\ k \notin DOMAIN held /\ ids \cap bad = {}
        /\ held' = [j \in DOMAIN held \cup {k} |-> IF j = k THEN ids ELSE held[j]]
    BY <1>4 DEF Sealed, k, ids
  <2>2. held \in [DOMAIN held -> SUBSET Nat]
    BY DEF VerdictsInv, VerdictsTypeOK
  <2>3. held' \in [DOMAIN held \cup {k} -> SUBSET Nat]
    BY <2>1, <2>2, <1>1
  <2> QED BY <2>1, <2>3, <1>1, <1>2 DEF VerdictsInv, BatchesWhole
<1> QED BY <1>3, <1>4

\* The answer a batch gets tells what became of all of its rows.
LEMMA AnsweredInv ==
    ASSUME VerdictsInv, NEW p \in Procs, NEW counted \in BOOLEAN, Answered(p, counted)
    PROVE  VerdictsInv'
<1> DEFINE k == ship[p].key
           ids == ship[p].ids
           a == Verdict(k, ids, counted)
           s == [pc |-> "done", key |-> k, ids |-> ids, answer |-> a]
<1>1. /\ ship[p].pc = "send" /\ ids # {} /\ held' = Sealed(k, ids)
      /\ UNCHANGED <<outbox, bad, keys>> /\ ship' = [ship EXCEPT ![p] = s]
  BY DEF Answered, VerdictsInv, VerdictsTypeOK
<1>2. k \in 1..keys /\ keys \in Nat /\ ids = RowsOf(k) /\ ids \in SUBSET Nat
  BY <1>1 DEF VerdictsInv, VerdictsTypeOK, ShippersCarryBatches, RowsOf, Ids
<1>3. IsFiniteSet(ids) /\ Cardinality(ids) \in Nat
  <2>1. ids \subseteq 1..Len(outbox)
    BY <1>2 DEF RowsOf, Ids
  <2>2. Len(outbox) \in Int
    BY DEF VerdictsInv, VerdictsTypeOK
  <2>3. IsFiniteSet(1..Len(outbox))
    BY <2>2, FS_Interval
  <2> QED BY <2>1, <2>3, FS_Subset, FS_CardinalityType
<1>4. /\ held' \in [DOMAIN held' -> SUBSET Nat] /\ BatchesWhole'
      /\ DOMAIN held \subseteq DOMAIN held'
  BY <1>1, SealInv
<1>5. k \in DOMAIN held => held[k] = ids
  BY <1>2 DEF VerdictsInv, BatchesWhole
<1>6. /\ a.status \in {"ok", "duplicate", "422"}
      /\ a.count = Nothing \/ a.count = Cardinality(ids)
      /\ a = [status |-> a.status, count |-> a.count]
      /\ a.status = "422" => ids \cap bad # {}
      /\ a.status # "422" => k \in DOMAIN held \/ ids \cap bad = {}
  <2> HIDE DEF k, ids
  <2> QED BY <1>5 DEF Verdict
<1>7. a.status # "422" => k \in DOMAIN held'
  <2> HIDE DEF a, k, ids
  <2> QED BY <1>1, <1>6 DEF Sealed
<1>8. s \in ShipStates
  <2> HIDE DEF a, k, ids
  <2>1. a \in Answers
    BY <1>3, <1>6 DEF Answers
  <2> QED BY <1>2, <2>1 DEF ShipStates
<1>9. s.pc = "done" /\ s.key = k /\ s.ids = ids /\ s.answer = a
  OBVIOUS
<1> HIDE DEF s, a, k, ids
<1> QED BY <1>1, <1>2, <1>4, <1>6, <1>7, <1>8, <1>9, MoveInv

\* No answer: tried again as it is, or given up.
LEMMA UnansweredInv ==
    ASSUME VerdictsInv, NEW p \in Procs, NEW landed \in BOOLEAN, Unanswered(p, landed)
    PROVE  VerdictsInv'
<1> DEFINE s == Retry(ship[p])
<1>1. /\ ship[p].pc = "send" /\ ship[p].ids # {} /\ ship' = [ship EXCEPT ![p] = s]
      /\ held' \in {held, Sealed(ship[p].key, ship[p].ids)}
      /\ UNCHANGED <<outbox, bad, keys>>
  BY DEF Unanswered
<1>2. /\ held' \in [DOMAIN held' -> SUBSET Nat] /\ BatchesWhole'
      /\ DOMAIN held \subseteq DOMAIN held'
  BY <1>1, SealInv
<1>3. ship[p] \in [pc : {"send"}, key : Nat, ids : SUBSET Nat, try : Nat]
  BY <1>1 DEF VerdictsInv, VerdictsTypeOK, ShipStates
<1>4. \/ s = Idle
      \/ s \in [pc : {"send"}, key : Nat, ids : SUBSET Nat, try : Nat]
         /\ s.key = ship[p].key /\ s.ids = ship[p].ids
  BY <1>3 DEF Retry
<1>5. s \in ShipStates /\ (s.pc = "idle" \/ (s.pc = "send" /\ s.key = ship[p].key /\ s.ids = ship[p].ids))
  <2> HIDE DEF s
  <2> QED BY <1>4 DEF Idle, ShipStates
<1>6. ship[p].key \in 1..keys /\ ship[p].ids = RowsOf(ship[p].key)
  BY <1>1 DEF VerdictsInv, ShippersCarryBatches
<1> HIDE DEF s
<1> QED BY <1>1, <1>2, <1>5, <1>6, MoveInv

\* The outbox takes over an answer: the rows of one batch, settled as they were
\* already or settled now.
LEMMA ConcludeInv ==
    ASSUME VerdictsInv, NEW p \in Procs, Conclude(p)
    PROVE  VerdictsInv'
<1> DEFINE k == ship[p].key
           B == ship[p].ids
           v == Outcome(B, ship[p].answer)
<1>1. /\ ship[p].pc = "done" /\ ship' = [ship EXCEPT ![p] = Idle]
      /\ outbox' = [i \in Ids |-> IF i \in B THEN [outbox[i] EXCEPT !.state = v] ELSE outbox[i]]
      /\ UNCHANGED <<bad, keys, held>>
  BY DEF Conclude, SetState
<1>2. k \in 1..keys /\ AnswerTrue(ship[p])
  BY <1>1 DEF VerdictsInv, ShippersCarryBatches
<1>3. B = RowsOf(k) /\ B \subseteq Ids
  BY <1>2 DEF AnswerTrue, RowsOf
<1>4. /\ v \in {"shipped", "rejected"}
      /\ v = "shipped" => k \in DOMAIN held
      /\ v = "rejected" => B \cap bad # {}
  BY <1>2 DEF AnswerTrue, Outcome
<1>5. keys \in Nat /\ Len(outbox) \in Nat /\ ship \in [Procs -> ShipStates]
  BY DEF VerdictsInv, VerdictsTypeOK
<1>6. \A i \in Ids : outbox[i] \in Rows
  BY DEF VerdictsInv, VerdictsTypeOK, Ids
<1> HIDE DEF k, B, v
<1>7. outbox' \in [1..Len(outbox) -> Rows]
  <2>1. \A i \in Ids : [outbox[i] EXCEPT !.state = v] \in Rows
    BY <1>4, <1>6 DEF Rows
  <2> QED BY <1>1, <1>6, <2>1 DEF Ids
<1>8. outbox' \in Seq(Rows) /\ Len(outbox') = Len(outbox) /\ Ids' = Ids
  BY <1>5, <1>7, FunctionIsSequence DEF Ids
<1>9. \A i \in Ids : /\ outbox'[i].key = outbox[i].key
                     /\ outbox'[i].state = IF i \in B THEN v ELSE outbox[i].state
  BY <1>1, <1>6 DEF Rows
<1>10. \A j : RowsOf(j)' = RowsOf(j)
  BY <1>8, <1>9 DEF RowsOf
<1>11. VerdictsTypeOK'
  <2>1. ship' \in [Procs -> ShipStates]
    BY <1>1, <1>5 DEF Idle, ShipStates
  <2> QED BY <1>1, <1>8, <2>1 DEF VerdictsInv, VerdictsTypeOK
<1>12. \A i \in Ids : i \in B <=> outbox[i].key = k
  BY <1>3 DEF RowsOf
<1>13. KeysMade' /\ BatchesAgree'
  <2>1. KeysMade'
    <3> SUFFICES ASSUME NEW i \in Ids
                 PROVE  /\ outbox'[i].key \in 0..keys
                        /\ outbox'[i].key = 0 => outbox'[i].state = "pending"
      BY <1>1, <1>8 DEF KeysMade
    <3>1. i \in B => outbox[i].key # 0
      BY <1>2, <1>5, <1>12
    <3> QED BY <3>1, <1>9 DEF VerdictsInv, KeysMade
  <2>2. BatchesAgree'
    BY <1>8, <1>9, <1>12 DEF VerdictsInv, BatchesAgree
  <2> QED BY <2>1, <2>2
<1>14. BatchesWhole'
  BY <1>1, <1>10 DEF VerdictsInv, BatchesWhole
<1>15. StatesTrue'
  <2> SUFFICES ASSUME NEW i \in Ids
               PROVE  /\ outbox'[i].state = "shipped" => outbox'[i].key \in DOMAIN held'
                      /\ outbox'[i].state = "rejected" => RowsOf(outbox[i].key)' \cap bad' # {}
    BY <1>8 DEF StatesTrue
  <2>1. RowsOf(outbox[i].key)' = RowsOf(outbox[i].key)
    BY <1>9, <1>10
  <2>2. CASE i \in B
    BY <2>1, <2>2, <1>1, <1>3, <1>4, <1>9, <1>12
  <2>3. CASE i \notin B
    BY <2>1, <2>3, <1>1, <1>9 DEF VerdictsInv, StatesTrue
  <2> QED BY <2>2, <2>3
<1>16. ShippersCarryBatches'
  <2> SUFFICES ASSUME NEW q \in Procs
               PROVE  /\ ship'[q].pc \in {"resume", "send", "done"} => ship'[q].key \in 1..keys'
                      /\ ship'[q].pc = "send" => ship'[q].ids \in {RowsOf(ship[q].key)', {}}
                      /\ ship'[q].pc = "done" => AnswerTrue(ship[q])'
    BY DEF ShippersCarryBatches
  <2>1. CASE q = p
    BY <2>1, <1>1, <1>5 DEF Idle
  <2>2. CASE q # p
    <3>1. ship'[q] = ship[q]
      BY <2>2, <1>1, <1>5
    <3>2. ship[q].pc = "done" => AnswerTrue(ship[q])'
      BY <3>1, <1>1, <1>10 DEF VerdictsInv, ShippersCarryBatches, AnswerTrue
    <3> QED BY <3>1, <3>2, <1>1, <1>10 DEF VerdictsInv, ShippersCarryBatches
  <2> QED BY <2>1, <2>2
<1> QED BY <1>11, <1>13, <1>14, <1>15, <1>16 DEF VerdictsInv

-----------------------------------------------------------------------------
(* The theorem *)

\* Every step of the specification keeps the invariant.
LEMMA VerdictsNextInv == VerdictsInv /\ [VerdictsNext]_verdictVars => VerdictsInv'
<1> SUFFICES ASSUME VerdictsInv, [VerdictsNext]_verdictVars
             PROVE  VerdictsInv'
  OBVIOUS
<1>1. ASSUME NEW a \in Agents, NEW refused \in BOOLEAN, Add(a, refused)
      PROVE  VerdictsInv'
  BY <1>1, AddInv
<1>2. ASSUME NEW p \in Procs, ShipStep(p)
      PROVE  VerdictsInv'
  <2>1. CASE ResumeHead(p)
    BY <2>1, ResumeHeadInv
  <2>2. CASE \E n \in Limits : ResumeRows(p, n)
    BY <2>2, ResumeRowsInv
  <2>3. CASE \E n \in Limits : ClaimNew(p, n)
    BY <2>3, ClaimNewInv
  <2>4. CASE NothingToSend(p)
    BY <2>4, IdleInv DEF NothingToSend
  <2>5. CASE \E counted \in BOOLEAN : Answered(p, counted)
    BY <2>5, AnsweredInv
  <2>6. CASE Conclude(p)
    BY <2>6, ConcludeInv
  <2> QED BY <1>2, <2>1, <2>2, <2>3, <2>4, <2>5, <2>6 DEF ShipStep
<1>3. ASSUME NEW p \in Procs, NEW landed \in BOOLEAN, Unanswered(p, landed)
      PROVE  VerdictsInv'
  BY <1>3, UnansweredInv
<1>4. ASSUME NEW p \in Procs, Dies(p)
      PROVE  VerdictsInv'
  BY <1>4, IdleInv DEF Dies
<1>5. CASE UNCHANGED verdictVars
  <2>1. outbox' = outbox /\ bad' = bad /\ keys' = keys /\ ship' = ship /\ held' = held
    BY <1>5 DEF verdictVars
  <2>2. (VerdictsTypeOK /\ KeysMade /\ BatchesAgree)'
    BY <2>1 DEF VerdictsInv, VerdictsTypeOK, KeysMade, BatchesAgree, Ids
  <2>3. (BatchesWhole /\ StatesTrue)'
    BY <2>1 DEF VerdictsInv, BatchesWhole, StatesTrue, RowsOf, Ids
  <2>4. ShippersCarryBatches'
    BY <2>1 DEF VerdictsInv, ShippersCarryBatches, AnswerTrue, RowsOf, Ids
  <2> QED BY <2>2, <2>3, <2>4 DEF VerdictsInv
<1> QED BY <1>1, <1>2, <1>3, <1>4, <1>5 DEF VerdictsNext

\* verdicts.py claim, ship_once: whatever two or more processes claim, resend,
\* lose or leave behind when they die, a verdict is sealed at most once, a row
\* marked shipped is sealed and a row marked rejected is not.
THEOREM VerdictsSound == VerdictsSpec => []OutboxTellsTheTruth
<1>1. VerdictsInit => VerdictsInv
  BY VerdictsInitInv
<1>2. VerdictsInv /\ [VerdictsNext]_verdictVars => VerdictsInv'
  BY VerdictsNextInv
<1>3. VerdictsInv => OutboxTellsTheTruth
  BY InvImpliesTruth
<1> QED BY <1>1, <1>2, <1>3, PTL DEF VerdictsSpec

-----------------------------------------------------------------------------
(* Sessions: the inductive invariant *)

\* Trajectories, rows and publishes are records of these fields.
RunFields == {"n", "status", "recorded", "altered", "flagged"}
RunIs(x) == x = [f \in RunFields |-> x[f]]
RowFields == {"hash", "mismatch", "rejected", "bundle", "errors"}
RowIs(x) == x = [f \in RowFields |-> x[f]]
PubIs(x) == x = [pc |-> x.pc, run |-> x.run, n |-> x.n, next |-> x.next, flagged |-> x.flagged]

\* The steps of S have a row in the store, or it is known why not.
Tracked(r, S, ks) == \A s \in S : <<r, s>> \in ks

\* A trajectory on Coriqo; ks are the keys that have a row or are excused.
RunOK(r, x, ks) ==
    /\ RunIs(x) /\ x.n \in Nat \ {0}
    /\ x.recorded \subseteq 1..x.n /\ x.altered \subseteq x.recorded
    /\ Tracked(r, x.recorded, ks)
    /\ x.status = "completed" => x.flagged = {} /\ Tracked(r, 1..x.n, ks)

\* A row of step s: its event hash is that of a trace recorded, and an alteration
\* has been noticed by whoever was told the hash.
RowOK(row, s, x) ==
    /\ RowIs(row) /\ s \in 1..x.n
    /\ row.hash => s \in x.recorded
    /\ row.hash /\ s \in x.altered => row.mismatch

\* publish_session, with x the trajectory it fills.
PubOK(p, x, ks) ==
    /\ PubIs(p) /\ x.status = "open" /\ p.n = x.n /\ p.flagged \in BOOLEAN
    /\ p.pc \in {"rows", "batch", "controls", "complete", "quiet"}
    /\ p.pc \in {"rows", "batch"} => p.next \in 1..p.n
    /\ p.pc = "rows" => x.recorded = {} /\ Tracked(p.run, 1..(p.next - 1), ks)
    /\ p.pc # "rows" => Tracked(p.run, 1..p.n, ks)
    /\ p.pc = "batch" => \A s \in x.recorded : s < p.next
    /\ p.pc # "quiet" /\ ~p.flagged => x.flagged = {}

\* The keys with a row, and those that lost it for a known reason.
Excused == DOMAIN store \cup unstored

\* Of all trajectories.
RunsInv ==
    /\ \E N \in Nat : Runs = 1..N
    /\ runs = [r \in Runs |-> runs[r]]
    /\ \A r \in Runs : RunOK(r, runs[r], Excused)

\* Of all rows of the receipt store: each is of a step of a trajectory.
StoreInv ==
    /\ store = [k \in DOMAIN store |-> store[k]]
    /\ \A k \in DOMAIN store : \E r \in Runs, s \in Nat :
           k = <<r, s>> /\ RowOK(store[k], s, runs[r])

\* Of a publish under way.
PubInv == pub.pc # "idle" => pub.run \in Runs /\ PubOK(pub, runs[pub.run], Excused)

SessionsInv == RunsInv /\ StoreInv /\ PubInv

-----------------------------------------------------------------------------
(* Sessions: what a step leaves alone *)

\* More rows, or more excuses, do no harm to a trajectory.
LEMMA RunKept ==
    ASSUME NEW r, NEW x, NEW ks, NEW more, ks \subseteq more, RunOK(r, x, ks)
    PROVE  RunOK(r, x, more)
BY DEF RunOK, Tracked

\* Nor to a publish.
LEMMA PubKept ==
    ASSUME NEW p, NEW x, NEW ks, NEW more, ks \subseteq more, PubOK(p, x, ks)
    PROVE  PubOK(p, x, more)
BY DEF PubOK, Tracked

\* A step that changes what Coriqo holds of one trajectory at most.
LEMMA RunsStep ==
    ASSUME RunsInv, Excused \subseteq Excused', NEW q \in Runs, NEW x,
           runs' = [runs EXCEPT ![q] = x], RunOK(q, x, Excused')
    PROVE  RunsInv' /\ Runs' = Runs /\ runs'[q] = x /\ \A r \in Runs : r # q => runs'[r] = runs[r]
<1>1. /\ Runs' = Runs /\ runs' = [r \in Runs |-> runs'[r]]
      /\ runs'[q] = x /\ \A r \in Runs : r # q => runs'[r] = runs[r]
    BY DEF RunsInv, Runs
<1>2. \A r \in Runs : RunOK(r, runs[r], Excused')
    BY RunKept DEF RunsInv
<1>3. \A r \in Runs : RunOK(r, runs'[r], Excused')
    BY <1>1, <1>2
<1> QED
    BY <1>1, <1>3 DEF RunsInv

\* A step that leaves Coriqo alone.
LEMMA RunsSame ==
    ASSUME RunsInv, Excused \subseteq Excused', UNCHANGED runs
    PROVE  RunsInv' /\ Runs' = Runs
<1>1. Runs' = Runs
    BY DEF Runs
<1>2. \A r \in Runs : RunOK(r, runs[r], Excused')
    BY RunKept DEF RunsInv
<1> QED
    BY <1>1, <1>2 DEF RunsInv

\* The trajectory a publish is at.
LEMMA Publishing ==
    ASSUME SessionsInv, pub.pc # "idle"
    PROVE  /\ pub.run \in Runs /\ PubOK(pub, runs[pub.run], Excused) /\ PubIs(pub)
           /\ RunOK(pub.run, runs[pub.run], Excused) /\ RunIs(runs[pub.run])
           /\ pub.n = runs[pub.run].n /\ pub.n \in Nat \ {0}
BY DEF SessionsInv, PubInv, RunsInv, PubOK, RunOK

\* The store only changes in what it says of rows, not in what their hash says.
LEMMA StoreSame ==
    ASSUME StoreInv, UNCHANGED <<runs, store>>
    PROVE  StoreInv'
BY DEF StoreInv, Runs

\* A publisher that is done, or dead.
LEMMA PubIdle ==
    ASSUME pub' = NotPublishing PROVE PubInv'
BY DEF PubInv, NotPublishing

-----------------------------------------------------------------------------
(* Sessions: the steps *)

\* open_trajectory: the number of a trajectory is not taken.
LEMMA OpenInv ==
    ASSUME SessionsInv, NEW n \in ToolSteps, Open(n) PROVE SessionsInv'
<1> DEFINE q == Cardinality(Runs) + 1
           x == [n |-> n, status |-> "open", recorded |-> {}, altered |-> {}, flagged |-> {}]
<1>1. /\ runs' = Opened(n) /\ UNCHANGED <<store, unstored>>
      /\ \/ pub' = [pc |-> "rows", run |-> q, n |-> n, next |-> 1, flagged |-> FALSE]
         \/ UNCHANGED pub
      /\ pub.pc = "idle"
    BY DEF Open
<1>2. PICK N \in Nat : Runs = 1..N
    BY DEF SessionsInv, RunsInv
<1>3. Cardinality(Runs) = N
  <2>1. \A m \in Nat : Cardinality(1..m) = m
    <3>1. \A m \in Nat : m \in Int /\ 1 \in Int
        OBVIOUS
    <3>2. \A m \in Nat : Cardinality(1..m) = IF 1 > m THEN 0 ELSE m - 1 + 1
        BY <3>1, FS_Interval
    <3> QED
        BY <3>2
  <2> QED
      BY <1>2, <2>1
<1>4. q = N + 1 /\ Runs \cup {q} = 1..(N + 1) /\ q \notin Runs
    BY <1>2, <1>3
<1> HIDE DEF q
<1>5. /\ runs' = [r \in Runs \cup {q} |-> IF r \in Runs THEN runs[r] ELSE x]
    BY <1>1 DEF Opened, q
<1> HIDE DEF x
<1>6. Runs' = Runs \cup {q} /\ runs'[q] = x /\ \A r \in Runs : runs'[r] = runs[r]
    BY <1>4, <1>5 DEF Runs
<1>7. Excused' = Excused
    BY <1>1 DEF Excused
<1>8. n \in Nat \ {0}
    BY SessionsAssumption DEF ToolSteps
<1>9. RunOK(q, x, Excused)
    BY <1>8 DEF RunOK, RunIs, RunFields, Tracked, x
<1>10. RunsInv'
  <2>1. \A r \in Runs' : RunOK(r, runs'[r], Excused')
      BY <1>6, <1>7, <1>9 DEF SessionsInv, RunsInv
  <2>2. runs' = [r \in Runs' |-> runs'[r]]
      BY <1>5, <1>6
  <2>3. \E M \in Nat : Runs' = 1..M
    <3>1. N + 1 \in Nat
        BY <1>2
    <3> QED
        BY <1>4, <1>6, <3>1
  <2> QED
      BY <2>1, <2>2, <2>3 DEF RunsInv
<1>11. StoreInv'
    BY <1>1, <1>6 DEF SessionsInv, StoreInv
<1>12. PubInv'
  <2>1. CASE pub' = [pc |-> "rows", run |-> q, n |-> n, next |-> 1, flagged |-> FALSE]
    <3>1. PubOK(pub', x, Excused)
      <4>1. 1 \in 1..n /\ 1..(1 - 1) = {}
          BY <1>8
      <4> QED
          BY <2>1, <1>8, <4>1 DEF PubOK, PubIs, Tracked, x
    <3>2. pub'.run = q
        BY <2>1
    <3> QED
        BY <1>6, <1>7, <3>1, <3>2 DEF PubInv
  <2>2. CASE UNCHANGED pub
      BY <1>1, <2>2 DEF PubInv
  <2> QED
      BY <1>1, <2>1, <2>2
<1> QED
    BY <1>10, <1>11, <1>12 DEF SessionsInv

\* record_sent: the step has its row, or its write failed.
LEMMA RecordSentInv ==
    ASSUME SessionsInv, RecordSent PROVE SessionsInv'
<1> DEFINE k == <<pub.run, pub.next>>
           x == runs[pub.run]
<1>1. PICK ok \in SUBSET {k} :
         /\ store' = [y \in DOMAIN store \cup ok |-> IF y \in ok THEN NewRow ELSE store[y]]
         /\ unstored' = unstored \cup ({k} \ ok)
    BY DEF RecordSent, Run
<1>2. /\ pub.pc = "rows" /\ UNCHANGED runs
      /\ pub' = IF pub.next < pub.n THEN [pub EXCEPT !.next = @ + 1]
                ELSE [pub EXCEPT !.pc = "batch", !.next = 1]
    BY DEF RecordSent
<1>3. /\ pub.run \in Runs /\ PubOK(pub, x, Excused) /\ PubIs(pub) /\ pub.n = x.n
      /\ pub.n \in Nat \ {0}
    BY <1>2, Publishing
<1>4. Excused' = Excused \cup {k}
    BY <1>1 DEF Excused
<1>5. RunsInv' /\ Runs' = Runs
    BY <1>2, <1>4, RunsSame DEF SessionsInv
<1>6. StoreInv'
  <2>1. NewRow.hash = FALSE /\ RowIs(NewRow)
      BY DEF NewRow, RowIs, RowFields
  <2>2. pub.next \in 1..x.n /\ pub.next \in Nat
      BY <1>2, <1>3 DEF PubOK
  <2>3. RowOK(NewRow, pub.next, x)
      BY <2>1, <2>2 DEF RowOK
  <2>4. ASSUME NEW y \in DOMAIN store'
        PROVE  \E r \in Runs, s \in Nat : y = <<r, s>> /\ RowOK(store'[y], s, runs[r])
    <3>1. CASE y \in ok
      <4>1. y = k /\ store'[y] = NewRow
          BY <1>1, <3>1
      <4> QED
          BY <1>3, <2>2, <2>3, <4>1
    <3>2. CASE y \notin ok
      <4>1. y \in DOMAIN store /\ store'[y] = store[y]
          BY <1>1, <2>4, <3>2
      <4> QED
          BY <4>1 DEF SessionsInv, StoreInv
    <3> QED
        BY <3>1, <3>2
  <2>5. store' = [y \in DOMAIN store' |-> store'[y]]
      BY <1>1
  <2> QED
      BY <1>2, <1>5, <2>4, <2>5 DEF StoreInv
<1>7. PubInv'
  <2>1. pub.next \in 1..pub.n /\ x.recorded = {} /\ Tracked(pub.run, 1..(pub.next - 1), Excused)
      BY <1>2, <1>3 DEF PubOK
  <2>2. Tracked(pub.run, 1..pub.next, Excused')
    <3>1. \A s \in 1..pub.next : s = pub.next \/ s \in 1..(pub.next - 1)
        BY <2>1
    <3> QED
        BY <1>4, <2>1, <3>1 DEF Tracked
  <2>3. PubOK(pub', x, Excused') /\ pub'.run = pub.run
    <3>1. CASE pub.next < pub.n
      <4>1. /\ PubIs(pub') /\ pub'.pc = "rows" /\ pub'.run = pub.run /\ pub'.n = pub.n
            /\ pub'.next = pub.next + 1 /\ pub'.flagged = pub.flagged
          BY <1>2, <1>3, <3>1 DEF PubIs
      <4>2. pub.next + 1 \in 1..pub.n /\ (pub.next + 1) - 1 = pub.next
          BY <1>3, <2>1, <3>1
      <4> QED
          BY <1>2, <1>3, <2>1, <2>2, <4>1, <4>2 DEF PubOK
    <3>2. CASE ~(pub.next < pub.n)
      <4>1. /\ PubIs(pub') /\ pub'.pc = "batch" /\ pub'.run = pub.run /\ pub'.n = pub.n
            /\ pub'.next = 1 /\ pub'.flagged = pub.flagged
          BY <1>2, <1>3, <3>2 DEF PubIs
      <4>2. 1 \in 1..pub.n /\ pub.next = pub.n
          BY <1>3, <2>1, <3>2
      <4> QED
          BY <1>2, <1>3, <2>1, <2>2, <4>1, <4>2 DEF PubOK
    <3> QED
        BY <3>1, <3>2
  <2> QED
      BY <1>2, <1>3, <1>5, <2>3 DEF PubInv
<1> QED
    BY <1>5, <1>6, <1>7 DEF SessionsInv

\* forget: a waived row is excused.
LEMMA ForgetInv ==
    ASSUME SessionsInv, NEW k \in DOMAIN store, Forget(k) PROVE SessionsInv'
<1>1. /\ store' = [y \in DOMAIN store \ {k} |-> store[y]] /\ unstored' = unstored \cup {k}
      /\ UNCHANGED <<pub, runs>>
    BY DEF Forget
<1>2. Excused' = Excused
    BY <1>1 DEF Excused
<1>3. RunsInv' /\ Runs' = Runs
    BY <1>1, <1>2, RunsSame DEF SessionsInv
<1>4. StoreInv'
    BY <1>1, <1>3 DEF SessionsInv, StoreInv
<1>5. PubInv'
    BY <1>1, <1>2, <1>3 DEF SessionsInv, PubInv
<1> QED
    BY <1>3, <1>4, <1>5 DEF SessionsInv

\* The trajectory after a batch.
Grown(x, rec, flg, alt) ==
    [n |-> x.n, status |-> x.status, recorded |-> x.recorded \cup rec,
     altered |-> x.altered \cup alt, flagged |-> x.flagged \cup flg]

\* Its fields.
LEMMA GrownIs ==
    ASSUME NEW x, NEW rec, NEW flg, NEW alt, NEW y, y = Grown(x, rec, flg, alt)
    PROVE  /\ RunIs(y) /\ y.n = x.n /\ y.status = x.status /\ y.recorded = x.recorded \cup rec
           /\ y.altered = x.altered \cup alt /\ y.flagged = x.flagged \cup flg
BY DEF Grown, RunIs, RunFields

\* The fields a row has.
LEMMA RowFieldsIn ==
    /\ "hash" \in RowFields /\ "mismatch" \in RowFields /\ "rejected" \in RowFields
    /\ "bundle" \in RowFields /\ "errors" \in RowFields
BY DEF RowFields

\* record_ack: the row has the event hash, and whether it differs.
LEMMA RowAcked ==
    ASSUME NEW row, RowIs(row), NEW v, NEW new,
           new = [row EXCEPT !.hash = TRUE, !.mismatch = v]
    PROVE  RowIs(new) /\ new.mismatch = v
BY RowFieldsIn DEF RowIs

\* mark_rejected, and below a bundle fetched and a failed fetch, leave the hash alone.
LEMMA RowRejected ==
    ASSUME NEW row, RowIs(row), NEW new, new = [row EXCEPT !.rejected = TRUE]
    PROVE  RowIs(new) /\ new.hash = row.hash /\ new.mismatch = row.mismatch
BY RowFieldsIn DEF RowIs

\* The bundle of a row is stored.
LEMMA RowBundled ==
    ASSUME NEW row, RowIs(row), NEW new, new = [row EXCEPT !.bundle = TRUE, !.errors = 0]
    PROVE  RowIs(new) /\ new.hash = row.hash /\ new.mismatch = row.mismatch
BY RowFieldsIn DEF RowIs

\* One more failed fetch.
LEMMA RowErred ==
    ASSUME NEW row, RowIs(row), NEW e, NEW new, new = [row EXCEPT !.errors = e]
    PROVE  RowIs(new) /\ new.hash = row.hash /\ new.mismatch = row.mismatch
BY RowFieldsIn DEF RowIs

\* What Coriqo holds after a batch.
LEMMA RecordIs ==
    ASSUME SessionsInv, pub.pc # "idle", NEW rec, NEW flg, NEW alt
    PROVE  Record(rec, flg, alt) = [runs EXCEPT ![pub.run] = Grown(runs[pub.run], rec, flg, alt)]
<1> DEFINE x == runs[pub.run]
<1>1. RunIs(x)
    BY Publishing
<1> DEFINE z == [x EXCEPT !.recorded = @ \cup rec, !.flagged = @ \cup flg, !.altered = @ \cup alt]
           g == Grown(x, rec, flg, alt)
<1>2. Record(rec, flg, alt) = [runs EXCEPT ![pub.run] = z]
    BY DEF Record, Run
<1> HIDE DEF x
<1>3. /\ "n" \in RunFields /\ "status" \in RunFields /\ "recorded" \in RunFields
      /\ "altered" \in RunFields /\ "flagged" \in RunFields
      /\ \A f \in RunFields : f \in {"n", "status", "recorded", "altered", "flagged"}
    BY DEF RunFields
<1>4. /\ RunIs(z) /\ z.n = x.n /\ z.status = x.status /\ z.recorded = x.recorded \cup rec
      /\ z.altered = x.altered \cup alt /\ z.flagged = x.flagged \cup flg
    BY <1>1, <1>3 DEF RunIs
<1>5. /\ RunIs(g) /\ g.n = x.n /\ g.status = x.status /\ g.recorded = x.recorded \cup rec
      /\ g.altered = x.altered \cup alt /\ g.flagged = x.flagged \cup flg
    BY GrownIs
<1> HIDE DEF z, g
<1>6. \A f \in RunFields : z[f] = g[f]
    BY <1>3, <1>4, <1>5
<1>7. z = g
    BY <1>4, <1>5, <1>6 DEF RunIs
<1> QED
    BY <1>2, <1>7 DEF x, g

\* A batch is of steps that the trajectory has and that were not sent before.
LEMMA BatchIs ==
    ASSUME SessionsInv, pub.pc = "batch"
    PROVE  /\ BatchEnd \in pub.next..pub.n /\ TraceBatch \subseteq 1..pub.n
           /\ \A s \in TraceBatch : s < BatchEnd + 1
           /\ \A s \in runs[pub.run].recorded : s < pub.next /\ s \notin TraceBatch
           /\ BatchEnd # pub.n => BatchEnd + 1 \in 1..pub.n
<1>1. /\ pub.next \in 1..pub.n /\ pub.n \in Nat \ {0}
      /\ \A s \in runs[pub.run].recorded : s \in 1..pub.n /\ s < pub.next
    BY Publishing DEF PubOK, RunOK
<1>2. MaxTraceBatch \in Nat \ {0}
    BY SessionsAssumption
<1>3. BatchEnd \in pub.next..pub.n
    BY <1>1, <1>2 DEF BatchEnd
<1> QED
    BY <1>1, <1>3 DEF TraceBatch

\* What a batch makes of the trajectory.
LEMMA GrownOK ==
    ASSUME SessionsInv, pub.pc = "batch", NEW rec, rec \subseteq TraceBatch, NEW flg,
           NEW alt, alt \subseteq rec
    PROVE  RunOK(pub.run, Grown(runs[pub.run], rec, flg, alt), Excused)
<1> DEFINE x == runs[pub.run]
           y == Grown(x, rec, flg, alt)
<1>1. /\ RunOK(pub.run, x, Excused) /\ x.status = "open" /\ x.n = pub.n
      /\ Tracked(pub.run, 1..pub.n, Excused)
    BY Publishing DEF PubOK
<1>2. /\ RunIs(y) /\ y.n = x.n /\ y.status = x.status /\ y.recorded = x.recorded \cup rec
      /\ y.altered = x.altered \cup alt /\ y.flagged = x.flagged \cup flg
    BY GrownIs
<1>3. rec \subseteq 1..pub.n
    BY BatchIs
<1> HIDE DEF y
<1>4. RunOK(pub.run, y, Excused)
    BY <1>1, <1>2, <1>3 DEF RunOK, Tracked
<1> QED
    BY <1>1, <1>2, <1>4 DEF y

\* A row that is left alone still fits the trajectory after a batch: what was
\* acknowledged before is in none of its steps.
LEMMA OldRowsFit ==
    ASSUME SessionsInv, pub.pc = "batch", NEW rec, rec \subseteq TraceBatch, NEW flg,
           NEW alt, alt \subseteq rec, NEW row, NEW s, RowOK(row, s, runs[pub.run])
    PROVE  RowOK(row, s, Grown(runs[pub.run], rec, flg, alt))
<1> DEFINE x == runs[pub.run]
           y == Grown(x, rec, flg, alt)
<1>1. /\ y.n = pub.n /\ y.recorded = x.recorded \cup rec /\ y.altered = x.altered \cup alt
      /\ x.n = pub.n
    BY GrownIs, Publishing
<1>2. s \in x.recorded => s \notin alt
    BY BatchIs
<1> HIDE DEF y
<1>3. RowOK(row, s, y)
    BY <1>1, <1>2 DEF RowOK
<1> QED
    BY <1>3 DEF y

\* The publish goes on after a batch.
LEMMA PubAfterBatch ==
    ASSUME SessionsInv, pub.pc = "batch", NEW rec, rec \subseteq TraceBatch, NEW flg,
           NEW alt, alt \subseteq rec,
           pub' = [pub EXCEPT !.flagged = Flagged(@, flg), !.next = BatchEnd + 1,
                              !.pc = IF BatchEnd = pub.n THEN "controls" ELSE "batch"]
    PROVE  pub'.run = pub.run /\ PubOK(pub', Grown(runs[pub.run], rec, flg, alt), Excused)
<1> DEFINE x == runs[pub.run]
           y == Grown(x, rec, flg, alt)
<1>1. /\ PubIs(pub) /\ PubOK(pub, x, Excused) /\ pub.n \in Nat \ {0}
    BY Publishing
<1>2. /\ PubIs(pub') /\ pub'.run = pub.run /\ pub'.n = pub.n /\ pub'.next = BatchEnd + 1
      /\ pub'.flagged = Flagged(pub.flagged, flg)
      /\ pub'.pc = IF BatchEnd = pub.n THEN "controls" ELSE "batch"
    BY <1>1 DEF PubIs
<1>3. /\ y.n = pub.n /\ y.status = "open" /\ y.recorded = x.recorded \cup rec
      /\ y.flagged = x.flagged \cup flg
    BY <1>1, GrownIs DEF PubOK
<1>4. pub'.flagged \in BOOLEAN /\ (~pub'.flagged => y.flagged = {})
    BY <1>1, <1>2, <1>3 DEF PubOK, Flagged
<1>5. \A s \in y.recorded : s < BatchEnd + 1
  <2>1. \A s \in x.recorded : s \in Int /\ s < pub.next /\ pub.next \in Int /\ BatchEnd \in Int
                              /\ pub.next <= BatchEnd
      BY <1>1, Publishing, BatchIs DEF RunOK, PubOK
  <2>2. \A s \in x.recorded : s < BatchEnd + 1
      BY <2>1
  <2> QED
      BY <1>3, <2>2, BatchIs
<1>6. Tracked(pub.run, 1..pub.n, Excused)
    BY <1>1 DEF PubOK
<1>7. pub'.pc = "batch" => pub'.next \in 1..pub'.n
    BY <1>2, BatchIs
<1> HIDE DEF y
<1>8. PubOK(pub', y, Excused)
    BY <1>2, <1>3, <1>4, <1>5, <1>6, <1>7 DEF PubOK
<1> QED
    BY <1>2, <1>8 DEF y

\* record_ack: the row acknowledged is of a trace just recorded, and knows of
\* its alteration.
LEMMA AckedOK ==
    ASSUME SessionsInv, pub.pc = "batch", NEW rec, rec \subseteq TraceBatch, NEW flg,
           NEW alt, alt \subseteq rec, NEW ok, ok \subseteq Keys(pub.run, rec),
           NEW k \in DOMAIN store, NEW r \in Runs, NEW s \in Nat, k = <<r, s>>,
           RowOK(store[k], s, runs[r]), r = pub.run
    PROVE  RowOK(Acked(ok, alt)[k], s, Grown(runs[pub.run], rec, flg, alt))
<1> DEFINE row == store[k]
           x == runs[pub.run]
           y == Grown(x, rec, flg, alt)
<1>1. CASE k \notin ok
  <2>1. Acked(ok, alt)[k] = row
      BY <1>1 DEF Acked
  <2> QED
      BY <2>1, OldRowsFit
<1>2. CASE k \in ok
  <2> DEFINE new == [row EXCEPT !.hash = TRUE, !.mismatch = Mismatched(k, alt)]
  <2>1. Acked(ok, alt)[k] = new
      BY <1>2 DEF Acked
  <2>2. RowIs(row) /\ s \in 1..x.n
      BY DEF RowOK
  <2>3. RowIs(new) /\ new.mismatch = Mismatched(k, alt)
    <3> DEFINE m == Mismatched(k, alt)
    <3>1. new = [row EXCEPT !.hash = TRUE, !.mismatch = m]
        OBVIOUS
    <3> HIDE DEF row, new, m
    <3>2. RowIs(new) /\ new.mismatch = m
        BY <2>2, <3>1, RowAcked
    <3> QED
        BY <3>2 DEF m
  <2>4. s \in rec
      BY <1>2 DEF Keys
  <2>5. Mismatched(k, alt) = (s \in alt)
      BY DEF Mismatched
  <2>6. s \notin x.altered
      BY <2>4, BatchIs, Publishing DEF RunOK
  <2>7. /\ y.n = x.n /\ y.recorded = x.recorded \cup rec /\ y.altered = x.altered \cup alt
      BY GrownIs
  <2> HIDE DEF new, y
  <2>8. RowOK(new, s, y)
      BY <2>2, <2>3, <2>4, <2>5, <2>6, <2>7 DEF RowOK
  <2> QED
      BY <2>1, <2>8 DEF y
<1> QED
    BY <1>1, <1>2

\* A 2xx for a batch.
LEMMA BatchAcceptedInv ==
    ASSUME SessionsInv, NEW rec, NEW flg, NEW alt, NEW full, BatchAccepted(rec, flg, alt, full)
    PROVE  SessionsInv'
<1> DEFINE q == pub.run
           y == Grown(runs[q], rec, flg, alt)
           told == Keys(q, Listed(rec, full))
<1>1. /\ pub.pc = "batch" /\ rec \subseteq TraceBatch /\ alt \subseteq rec
      /\ runs' = Record(rec, flg, alt)
      /\ pub' = [pub EXCEPT !.flagged = Flagged(@, flg), !.next = BatchEnd + 1,
                            !.pc = IF BatchEnd = pub.n THEN "controls" ELSE "batch"]
    BY DEF BatchAccepted
<1>2. PICK ok \in SUBSET told : store' = Acked(ok, alt) /\ unstored' = unstored \cup (told \ ok)
    BY DEF BatchAccepted, Run
<1>3. q \in Runs
    BY <1>1, Publishing
<1>4. ok \subseteq Keys(q, rec)
    BY <1>2 DEF Keys, Listed
<1>5. runs' = [runs EXCEPT ![q] = y]
    BY <1>1, RecordIs
<1>6. DOMAIN store' = DOMAIN store /\ store' = [k \in DOMAIN store' |-> store'[k]]
    BY <1>2 DEF Acked
<1>7. Excused \subseteq Excused'
    BY <1>2, <1>6 DEF Excused
<1>8. RunOK(q, y, Excused')
  <2>1. RunOK(q, y, Excused)
      BY <1>1, GrownOK
  <2> QED
      BY <1>7, <2>1, RunKept
<1> HIDE DEF y
<1>9. RunsInv' /\ Runs' = Runs /\ runs'[q] = y /\ \A r \in Runs : r # q => runs'[r] = runs[r]
    BY <1>3, <1>5, <1>7, <1>8, RunsStep DEF SessionsInv
<1>10. StoreInv'
  <2>1. ASSUME NEW k \in DOMAIN store
        PROVE  \E r \in Runs, s \in Nat : k = <<r, s>> /\ RowOK(store'[k], s, runs'[r])
    <3>1. PICK r \in Runs, s \in Nat : k = <<r, s>> /\ RowOK(store[k], s, runs[r])
        BY DEF SessionsInv, StoreInv
    <3>2. CASE r = q
      <4>1. RowOK(Acked(ok, alt)[k], s, y)
          BY <1>1, <1>4, <3>1, <3>2, AckedOK DEF y
      <4> QED
          BY <1>2, <1>9, <3>1, <3>2, <4>1
    <3>3. CASE r # q
      <4>1. k \notin ok
          BY <1>4, <3>1, <3>3 DEF Keys
      <4>2. store'[k] = store[k]
          BY <1>2, <4>1 DEF Acked
      <4> QED
          BY <1>9, <3>1, <3>3, <4>2
    <3> QED
        BY <3>2, <3>3
  <2> QED
      BY <1>6, <1>9, <2>1 DEF StoreInv
<1>11. PubInv'
  <2>1. pub'.run = q /\ PubOK(pub', y, Excused)
      BY <1>1, PubAfterBatch DEF y
  <2>2. PubOK(pub', y, Excused')
      BY <1>7, <2>1, PubKept
  <2> QED
      BY <1>3, <1>9, <2>1, <2>2 DEF PubInv
<1> QED
    BY <1>9, <1>10, <1>11 DEF SessionsInv

\* Rejecting a row touches none that was acknowledged.
LEMMA RejectedOK ==
    ASSUME NEW ks, NEW k \in DOMAIN store, NEW s, NEW x, RowOK(store[k], s, x)
    PROVE  RowOK(MarkedRejected(ks)[k], s, x)
<1> DEFINE row == store[k]
           new == [row EXCEPT !.rejected = TRUE]
<1>1. MarkedRejected(ks)[k] = row \/ MarkedRejected(ks)[k] = new
    BY DEF MarkedRejected
<1>2. RowIs(row)
    BY DEF RowOK
<1>3. RowIs(new) /\ new.hash = row.hash /\ new.mismatch = row.mismatch
    BY <1>2, RowRejected
<1> HIDE DEF new
<1>4. RowOK(new, s, x)
    BY <1>3 DEF RowOK
<1> QED
    BY <1>1, <1>4

\* An error, or no answer, for a batch.
LEMMA BatchFailsInv ==
    ASSUME SessionsInv, NEW landed, NEW flg, BatchFails(landed, flg) PROVE SessionsInv'
<1> DEFINE q == pub.run
           x == runs[q]
           g == Grown(x, TraceBatch, flg, {})
           ks == Keys(q, pub.next..pub.n)
<1>1. /\ pub.pc = "batch" /\ store' = MarkedRejected(ks) /\ UNCHANGED unstored
      /\ pub' = [pub EXCEPT !.pc = "quiet"]
      /\ runs' = Record(TraceBatch, flg, {}) \/ runs' = runs
    BY DEF BatchFails, Run
<1>2. /\ q \in Runs /\ PubIs(pub) /\ PubOK(pub, x, Excused) /\ RunOK(q, x, Excused)
      /\ runs = [r \in Runs |-> runs[r]]
    BY <1>1, Publishing DEF SessionsInv, RunsInv
<1>3. PICK y : /\ runs' = [runs EXCEPT ![q] = y] /\ RunOK(q, y, Excused)
               /\ y.n = pub.n /\ y.status = "open"
               /\ \A row, s : RowOK(row, s, x) => RowOK(row, s, y)
  <2>1. CASE runs' = runs
    <3>1. runs' = [runs EXCEPT ![q] = x]
        BY <1>2, <2>1
    <3> QED
        BY <1>2, <3>1 DEF PubOK
  <2>2. CASE runs' = Record(TraceBatch, flg, {})
    <3>1. runs' = [runs EXCEPT ![q] = g]
        BY <1>1, <2>2, RecordIs
    <3>2. RunOK(q, g, Excused) /\ g.n = pub.n /\ g.status = "open"
      <4>1. g.n = x.n /\ g.status = x.status
          BY GrownIs
      <4>2. x.n = pub.n /\ x.status = "open"
          BY <1>2 DEF PubOK
      <4>3. RunOK(q, g, Excused)
          BY <1>1, GrownOK
      <4> HIDE DEF g
      <4> QED
          BY <4>1, <4>2, <4>3
    <3>3. ASSUME NEW row, NEW s, RowOK(row, s, x) PROVE RowOK(row, s, g)
        BY <1>1, <3>3, OldRowsFit
    <3> HIDE DEF g
    <3> QED
        BY <3>1, <3>2, <3>3
  <2> QED
      BY <1>1, <2>1, <2>2
<1>4. DOMAIN store' = DOMAIN store /\ store' = [k \in DOMAIN store' |-> store'[k]]
    BY <1>1 DEF MarkedRejected
<1>5. Excused' = Excused
    BY <1>1, <1>4 DEF Excused
<1>6. RunsInv' /\ Runs' = Runs /\ runs'[q] = y /\ \A r \in Runs : r # q => runs'[r] = runs[r]
    BY <1>2, <1>3, <1>5, RunsStep DEF SessionsInv
<1>7. StoreInv'
  <2>1. ASSUME NEW k \in DOMAIN store
        PROVE  \E r \in Runs, s \in Nat : k = <<r, s>> /\ RowOK(store'[k], s, runs'[r])
    <3>1. PICK r \in Runs, s \in Nat : k = <<r, s>> /\ RowOK(store[k], s, runs[r])
        BY DEF SessionsInv, StoreInv
    <3>2. RowOK(store'[k], s, runs[r])
        BY <1>1, <3>1, RejectedOK
    <3>3. RowOK(store'[k], s, runs'[r])
        BY <1>3, <1>6, <3>2
    <3> QED
        BY <3>1, <3>3
  <2> QED
      BY <1>4, <1>6, <2>1 DEF StoreInv
<1>8. PubInv'
  <2>1. /\ PubIs(pub') /\ pub'.pc = "quiet" /\ pub'.run = q /\ pub'.n = pub.n
        /\ pub'.flagged = pub.flagged
      BY <1>1, <1>2 DEF PubIs
  <2>2. PubOK(pub', y, Excused')
      BY <1>1, <1>2, <1>3, <1>5, <2>1 DEF PubOK
  <2> QED
      BY <1>2, <1>6, <2>1, <2>2 DEF PubInv
<1> QED
    BY <1>6, <1>7, <1>8 DEF SessionsInv

\* Closing changes the status of the trajectory alone: completed, when every
\* step was told of and none was flagged.
LEMMA CloseInv ==
    ASSUME SessionsInv, pub.pc # "idle", NEW status, runs' = Closed(status) \/ UNCHANGED runs,
           status = "completed" => pub.pc = "complete" /\ ~pub.flagged,
           pub' = NotPublishing, UNCHANGED <<store, unstored>>
    PROVE  SessionsInv'
<1> DEFINE q == pub.run
           x == runs[q]
           y == [x EXCEPT !.status = status]
<1>1. Excused' = Excused
    BY DEF Excused
<1>2. q \in Runs /\ PubOK(pub, x, Excused) /\ RunOK(q, x, Excused)
    BY Publishing
<1>3. PubInv'
    BY PubIdle
<1>4. CASE UNCHANGED runs
  <2>1. RunsInv' /\ StoreInv'
      BY <1>1, <1>4, RunsSame, StoreSame DEF SessionsInv
  <2> QED
      BY <1>3, <2>1 DEF SessionsInv
<1>5. CASE runs' = Closed(status)
  <2>1. runs' = [runs EXCEPT ![q] = y]
      BY <1>5 DEF Closed, Run
  <2>2. RunIs(x)
      BY <1>2 DEF RunOK
  <2>3. /\ RunIs(y) /\ y.n = x.n /\ y.status = status /\ y.recorded = x.recorded
        /\ y.altered = x.altered /\ y.flagged = x.flagged
    <3>1. /\ "n" \in RunFields /\ "status" \in RunFields /\ "recorded" \in RunFields
          /\ "altered" \in RunFields /\ "flagged" \in RunFields
        BY DEF RunFields
    <3> QED
        BY <2>2, <3>1 DEF RunIs
  <2>4. status = "completed" => x.flagged = {} /\ Tracked(q, 1..x.n, Excused)
      BY <1>2 DEF PubOK
  <2> HIDE DEF y
  <2>5. RunOK(q, y, Excused)
      BY <1>2, <2>3, <2>4 DEF RunOK
  <2>6. RunsInv' /\ Runs' = Runs /\ runs'[q] = y /\ \A r \in Runs : r # q => runs'[r] = runs[r]
      BY <1>1, <1>2, <2>1, <2>5, RunsStep DEF SessionsInv
  <2>7. ASSUME NEW row, NEW s, NEW r \in Runs, RowOK(row, s, runs[r])
        PROVE  RowOK(row, s, runs'[r])
    <3>1. CASE r = q
        BY <2>3, <2>6, <2>7, <3>1 DEF RowOK
    <3> QED
        BY <2>6, <2>7, <3>1
  <2>8. StoreInv'
      BY <2>6, <2>7 DEF SessionsInv, StoreInv
  <2> QED
      BY <1>3, <2>6, <2>8 DEF SessionsInv
<1> QED
    BY <1>4, <1>5

\* _publish_external_controls, or the publisher dies.
LEMMA PublisherInv ==
    ASSUME SessionsInv, PublishControls \/ PublisherDies PROVE SessionsInv'
<1>1. UNCHANGED <<runs, store, unstored>>
    BY DEF PublishControls, PublisherDies
<1>2. Excused' = Excused
    BY <1>1 DEF Excused
<1>3. RunsInv' /\ StoreInv' /\ Runs' = Runs
    BY <1>1, <1>2, RunsSame, StoreSame DEF SessionsInv
<1>4. CASE PublisherDies
    BY <1>3, <1>4, PubIdle DEF PublisherDies, SessionsInv
<1>5. CASE PublishControls
  <2>1. pub.pc = "controls" /\ pub' = [pub EXCEPT !.pc = "complete"]
      BY <1>5 DEF PublishControls
  <2>2. pub.run \in Runs /\ PubIs(pub) /\ PubOK(pub, runs[pub.run], Excused)
      BY <2>1, Publishing
  <2>3. /\ PubIs(pub') /\ pub'.pc = "complete" /\ pub'.run = pub.run /\ pub'.n = pub.n
        /\ pub'.flagged = pub.flagged
      BY <2>1, <2>2 DEF PubIs
  <2>4. PubOK(pub', runs[pub.run], Excused)
      BY <2>1, <2>2, <2>3 DEF PubOK
  <2> QED
      BY <1>1, <1>2, <1>3, <2>2, <2>3, <2>4 DEF SessionsInv, PubInv
<1> QED
    BY <1>4, <1>5

\* fetch_receipts changes neither the hash of a row nor what is said of it.
LEMMA FetchInv ==
    ASSUME SessionsInv, FetchStep PROVE SessionsInv'
<1> DEFINE key == fetch.key
           row == store[key]
<1>1. UNCHANGED <<pub, runs, unstored>>
    BY DEF FetchStep, Await, Receipt, NotYet, Unavailable
<1>2. \/ store' = store
      \/ /\ key \in DOMAIN store
         /\ \/ store' = [store EXCEPT ![key] = [row EXCEPT !.bundle = TRUE, !.errors = 0]]
            \/ \E e : store' = [store EXCEPT ![key] = [row EXCEPT !.errors = e]]
  <2>1. CASE \E k \in DOMAIN store : Await(k)
      BY <2>1 DEF Await
  <2>2. CASE Receipt
      BY <2>2 DEF Receipt
  <2>3. CASE NotYet
      BY <2>3 DEF NotYet
  <2>4. CASE Unavailable
      BY <2>4 DEF Unavailable
  <2> QED
      BY <2>1, <2>2, <2>3, <2>4 DEF FetchStep
<1>3. /\ DOMAIN store' = DOMAIN store /\ store' = [k \in DOMAIN store' |-> store'[k]]
      /\ \A k \in DOMAIN store : \A s, x : RowOK(store[k], s, x) => RowOK(store'[k], s, x)
  <2>1. CASE store' = store
      BY <2>1 DEF SessionsInv, StoreInv
  <2>2. ASSUME NEW new, key \in DOMAIN store, store' = [store EXCEPT ![key] = new],
               RowIs(row) => RowIs(new) /\ new.hash = row.hash /\ new.mismatch = row.mismatch
        PROVE  /\ DOMAIN store' = DOMAIN store /\ store' = [k \in DOMAIN store' |-> store'[k]]
               /\ \A k \in DOMAIN store : \A s, x : RowOK(store[k], s, x) => RowOK(store'[k], s, x)
    <3>1. DOMAIN store' = DOMAIN store /\ store' = [k \in DOMAIN store' |-> store'[k]]
        BY <2>2 DEF SessionsInv, StoreInv
    <3>2. store'[key] = new /\ \A k \in DOMAIN store : k # key => store'[k] = store[k]
        BY <2>2
    <3>3. ASSUME NEW s, NEW x, RowOK(row, s, x) PROVE RowOK(new, s, x)
        BY <2>2, <3>3 DEF RowOK
    <3> QED
        BY <3>1, <3>2, <3>3
  <2>3. CASE /\ key \in DOMAIN store
             /\ store' = [store EXCEPT ![key] = [row EXCEPT !.bundle = TRUE, !.errors = 0]]
    <3> DEFINE new == [row EXCEPT !.bundle = TRUE, !.errors = 0]
    <3>1. RowIs(row) => RowIs(new) /\ new.hash = row.hash /\ new.mismatch = row.mismatch
        BY RowBundled
    <3> HIDE DEF new
    <3>2. store' = [store EXCEPT ![key] = new]
        BY <2>3 DEF new
    <3> QED
        BY <2>2, <2>3, <3>1, <3>2
  <2>4. ASSUME NEW e, key \in DOMAIN store,
               store' = [store EXCEPT ![key] = [row EXCEPT !.errors = e]]
        PROVE  /\ DOMAIN store' = DOMAIN store /\ store' = [k \in DOMAIN store' |-> store'[k]]
               /\ \A k \in DOMAIN store : \A s, x : RowOK(store[k], s, x) => RowOK(store'[k], s, x)
    <3> DEFINE new == [row EXCEPT !.errors = e]
    <3>1. RowIs(row) => RowIs(new) /\ new.hash = row.hash /\ new.mismatch = row.mismatch
        BY RowErred
    <3> HIDE DEF new
    <3>2. store' = [store EXCEPT ![key] = new]
        BY <2>4 DEF new
    <3> QED
        BY <2>2, <2>4, <3>1, <3>2
  <2> QED
      BY <1>2, <2>1, <2>3, <2>4
<1>4. Excused' = Excused
    BY <1>1, <1>3 DEF Excused
<1>5. RunsInv' /\ Runs' = Runs
    BY <1>1, <1>4, RunsSame DEF SessionsInv
<1>6. StoreInv'
    BY <1>1, <1>3, <1>5 DEF SessionsInv, StoreInv
<1>7. PubInv'
    BY <1>1, <1>4, <1>5 DEF SessionsInv, PubInv
<1> QED
    BY <1>5, <1>6, <1>7 DEF SessionsInv

-----------------------------------------------------------------------------
(* Sessions: the theorems *)

\* Nothing is published yet.
LEMMA SessionsStart == SessionsInit => SessionsInv
<1> SUFFICES ASSUME SessionsInit PROVE SessionsInv
    OBVIOUS
<1>1. Runs = {} /\ DOMAIN store = {} /\ pub.pc = "idle"
    BY DEF SessionsInit, Runs, NotPublishing
<1>2. \E N \in Nat : Runs = 1..N
  <2>1. 0 \in Nat /\ 1..0 = {}
      OBVIOUS
  <2> QED
      BY <1>1, <2>1
<1>3. runs = [r \in Runs |-> runs[r]] /\ store = [k \in DOMAIN store |-> store[k]]
    BY <1>1 DEF SessionsInit
<1> QED
    BY <1>1, <1>2, <1>3 DEF SessionsInv, RunsInv, StoreInv, PubInv

\* Every step keeps the invariant.
LEMMA SessionsStep == SessionsInv /\ [SessionsNext]_sessionVars => SessionsInv'
<1> SUFFICES ASSUME SessionsInv, [SessionsNext]_sessionVars PROVE SessionsInv'
    OBVIOUS
<1>1. CASE \E n \in ToolSteps : Open(n)
    BY <1>1, OpenInv
<1>2. CASE RecordSent
    BY <1>2, RecordSentInv
<1>3. CASE \E k \in DOMAIN store : Forget(k)
    BY <1>3, ForgetInv
<1>4. ASSUME NEW rec \in SUBSET ToolSteps, NEW flg \in SUBSET rec, NEW alt \in SUBSET rec,
             NEW full \in BOOLEAN, BatchAccepted(rec, flg, alt, full)
      PROVE  SessionsInv'
    BY <1>4, BatchAcceptedInv
<1>5. ASSUME NEW landed \in BOOLEAN, NEW flg \in SUBSET ToolSteps, BatchFails(landed, flg)
      PROVE  SessionsInv'
    BY <1>5, BatchFailsInv
<1>6. CASE CloseQuietly
  <2>1. /\ pub.pc = "quiet" /\ (runs' = Closed("flagged") \/ UNCHANGED runs)
        /\ pub' = NotPublishing /\ UNCHANGED <<store, unstored>>
      BY <1>6 DEF CloseQuietly
  <2>2. "flagged" # "completed"
      OBVIOUS
  <2> QED
      BY <2>1, <2>2, CloseInv
<1>7. CASE Complete
  <2>1. /\ pub.pc = "complete" /\ pub' = NotPublishing /\ UNCHANGED <<store, unstored>>
        /\ \/ runs' = Closed(IF pub.flagged THEN "flagged" ELSE "completed")
           \/ UNCHANGED runs
      BY <1>7 DEF Complete
  <2> DEFINE status == IF pub.flagged THEN "flagged" ELSE "completed"
  <2>2. runs' = Closed(status) \/ UNCHANGED runs
      BY <2>1
  <2>3. status = "completed" => ~pub.flagged
      OBVIOUS
  <2> HIDE DEF status
  <2> QED
      BY <2>1, <2>2, <2>3, CloseInv
<1>8. CASE PublishControls \/ PublisherDies
    BY <1>8, PublisherInv
<1>9. CASE FetchStep
    BY <1>9, FetchInv
<1>10. CASE UNCHANGED sessionVars
  <2>1. UNCHANGED <<pub, runs, store, unstored>>
      BY <1>10 DEF sessionVars
  <2> QED
      BY <2>1 DEF SessionsInv, RunsInv, StoreInv, PubInv, Excused, Runs
<1> QED
    BY <1>1, <1>2, <1>3, <1>4, <1>5, <1>6, <1>7, <1>8, <1>9, <1>10 DEF SessionsNext

\* The inductive invariant of published sessions and their receipts.
THEOREM SessionsInvariant == SessionsSpec => []SessionsInv
<1> QED
    BY SessionsStart, SessionsStep, PTL DEF SessionsSpec

\* A row that verify_receipts finds nothing wrong with, late enough, was
\* acknowledged and is of a trace recorded as it was sent.
LEMMA GoodRow ==
    ASSUME NEW row, NEW s, NEW x, RowOK(row, s, x), NEW allow_pending,
           RowFindings(row, TRUE) \subseteq Waived(allow_pending)
    PROVE  s \in x.recorded \ x.altered
<1>1. "batch_rejected" \notin Waived(allow_pending) /\ "unacknowledged" \notin Waived(allow_pending)
      /\ "content_mismatch" \notin Waived(allow_pending)
    BY DEF Waived
<1>2. row.hash
    BY <1>1 DEF RowFindings
<1>3. ~row.mismatch
    BY <1>1, <1>2 DEF RowFindings
<1> QED
    BY <1>2, <1>3 DEF RowOK

\* When the receipt store verifies, every step of a completed run is recorded on
\* Coriqo as it was sent (publish_session, ReceiptStore, verify_receipts),
\* whatever was lost, swallowed or altered on the way, for sessions of any
\* length in batches of any size.
THEOREM ReceiptsAreHonest == SessionsSpec => []VerifiedMeansRecorded
<1>1. SessionsInv => VerifiedMeansRecorded
  <2> SUFFICES ASSUME SessionsInv PROVE VerifiedMeansRecorded
      OBVIOUS
  <2>1. \A r \in Runs : RunOK(r, runs[r], Excused)
      BY DEF SessionsInv, RunsInv
  <2>2. \A r \in Runs : runs[r].status = "completed" => runs[r].flagged = {}
      BY <2>1 DEF RunOK
  <2>3. \A r \in Runs : \A s \in runs[r].recorded : <<r, s>> \in DOMAIN store \cup unstored
      BY <2>1 DEF RunOK, Tracked, Excused
  <2>4. \A k \in DOMAIN store : store[k].hash => k[2] \in runs[k[1]].recorded
      BY DEF SessionsInv, StoreInv, RowOK
  <2>5. ASSUME NEW allow_pending \in BOOLEAN, VerifyReceipts(TRUE, allow_pending),
               NEW r \in Runs, NEW s \in 1..runs[r].n
        PROVE  \/ <<r, s>> \in unstored
               \/ s \in runs[r].recorded \ runs[r].altered
               \/ <<r, s>> \notin DOMAIN store /\ runs[r].status # "completed"
    <3>1. CASE <<r, s>> \in DOMAIN store
      <4>1. RowFindings(store[<<r, s>>], TRUE) \subseteq Waived(allow_pending)
          BY <2>5, <3>1 DEF VerifyReceipts
      <4>2. RowOK(store[<<r, s>>], s, runs[r])
          BY <3>1 DEF SessionsInv, StoreInv
      <4> QED
          BY <4>1, <4>2, GoodRow
    <3>2. CASE <<r, s>> \notin DOMAIN store
        BY <2>1, <3>2 DEF RunOK, Tracked, Excused
    <3> QED
        BY <3>1, <3>2
  <2> QED
      BY <2>2, <2>3, <2>4, <2>5 DEF VerifiedMeansRecorded
<1> QED
    BY <1>1, SessionsInvariant, PTL

-----------------------------------------------------------------------------
(* The agent proxy: what every state satisfies.                            *)

Streaming == pc \in {"stream", "yielded", "feed"}
Places == {"idle", "arrived", "checked", "optimised", "upstream", "stream", "yielded",
           "feed", "closing", "answered"}
Shown == Kinds \cup {"denial"}
Marks == {"allow", "deny", "none"}

\* Functions from some of the indices.
PartialMaps(S) == UNION {[D -> S] : D \in SUBSET Nat}

FrameSet ==
    {Start(i, k) : i \in Nat, k \in Kinds} \cup {Stop(i) : i \in Nat}
    \cup {MessageDelta(s) : s \in {"tool_use", "end_turn"}}
    \cup {MessageStart, MessageStop, ErrorFrame}
SourceSet == [next : Nat, open : SUBSET Nat, phase : {"start", "blocks", "delta", "stop"},
              tools : BOOLEAN, kinds : Seq(Kinds), cut : FrameSet \cup {None}]
GateSet == [held : SUBSET Nat, denied : Nat, survivors : Nat, decided : PartialMaps(Marks)]
SeenSet == [started : BOOLEAN, stopped : BOOLEAN, open : SUBSET Nat, unfed : SUBSET FrameSet]
Statuses == {None, 200, 400, 401, 403, 429, 500, 502, 503}
Ends == {None, "tool_use", "end_turn"}
ClientSet == [status : Statuses, open : SUBSET Nat, blocks : PartialMaps(Shown), stop : Ends,
              tail : FrameSet \cup {None}]

ProxyTypeOK ==
    /\ conf \in Confs /\ mandate \subseteq Tools /\ attempts \in [Tools -> Nat]
    /\ pc \in Places /\ (pc # "idle" => ask \in Asks)
    /\ wire \in Seq(FrameSet) /\ source \in SourceSet /\ gate \in GateSet
    /\ seen \in SeenSet /\ client \in ClientSet

\* What the agent has of whole frames, for NothingUngatedReachesAgent.
FramesGated ==
    conf.enforce =>
        \A i \in DOMAIN client.blocks :
            IsTool(client.blocks[i]) => i \in DOMAIN gate.decided /\ gate.decided[i] = "allow"

\* Before the upstream answers nothing has come back.
FreshOK ==
    pc \in {"idle", "arrived", "checked", "optimised", "upstream"} =>
        client = NoClient /\ source = NoSource /\ gate = NoGate /\ seen = NoSeen /\ wire = <<>>

\* The frames the agent's side has not gone through.
Coming == IF pc \in {"yielded", "feed"} THEN Tail(wire) ELSE wire
Started(w) == {i \in Nat : \E n \in DOMAIN w : w[n].type = "start" /\ w[n].i = i}
Stopped(w) == {i \in Nat : \E n \in DOMAIN w : w[n].type = "stop" /\ w[n].i = i}
Has(w, type) == \E n \in DOMAIN w : w[n].type = type

\* A frame that others follow ends a block, each its own, or the message.
WireShape(w) ==
    \A m, n \in DOMAIN w : m < n =>
        /\ w[m].type = "stop" \/ (w[m].type = "message_delta" /\ w[n].type = "message_stop")
        /\ w[m].type = "stop" /\ w[n].type = "stop" => w[m].i # w[n].i

Gated(i) == conf.enforce /\ IsTool(source.kinds[i + 1])

\* The frames under way and what the source has open.
WireOK ==
    /\ pc # "stream" => wire # <<>>
    /\ WireShape(wire)
    /\ \A n \in DOMAIN wire :
          /\ wire[n].type = "start" => /\ wire[n].i \in source.open
                                       /\ wire[n].k = source.kinds[wire[n].i + 1]
          /\ wire[n].type = "stop" => wire[n].i < source.next /\ wire[n].i \notin source.open
SourceOK ==
    /\ source.next <= MaxBlocks /\ Len(source.kinds) = source.next
    /\ source.open \subseteq 0..(source.next - 1)
    /\ source.tools <=> \E i \in 0..(source.next - 1) : IsTool(source.kinds[i + 1])

\* A block is on its way, open or held, or was shown as it is or as decided.
BlocksOK ==
    /\ client.open \cup gate.held = (source.open \ Started(Coming)) \cup Stopped(Coming)
    /\ DOMAIN client.blocks = 0..(source.next - 1) \ (Started(Coming) \cup gate.held)
    /\ \A i \in gate.held : Gated(i)
    /\ \A i \in client.open : ~Gated(i)
    /\ \A i \in DOMAIN client.blocks :
          IF Gated(i)
          THEN /\ i \in DOMAIN gate.decided
               /\ \/ gate.decided[i] = "allow" /\ client.blocks[i] = source.kinds[i + 1]
                  \/ gate.decided[i] = "deny" /\ client.blocks[i] = "denial"
          ELSE client.blocks[i] = source.kinds[i + 1]
    /\ DOMAIN gate.decided \subseteq DOMAIN client.blocks /\ \A i \in DOMAIN gate.decided : Gated(i)
    /\ gate.survivors = 0 <=> \A i \in DOMAIN gate.decided : gate.decided[i] # "allow"
    /\ gate.denied = 0 <=> \A i \in DOMAIN gate.decided : gate.decided[i] # "deny"

\* The message ends once, after its blocks.
EndOK ==
    /\ source.phase \in {"start", "blocks"} =>
          client.stop = None /\ ~Has(wire, "message_delta") /\ ~Has(wire, "message_stop")
    /\ source.phase = "delta" =>
          /\ source.open = {} /\ ~Has(wire, "message_stop")
          /\ client.stop # None \/ Has(Coming, "message_delta")
    /\ \A n \in DOMAIN Coming : Coming[n].type = "message_delta" =>
          /\ source.open = {} /\ client.stop = None
          /\ Coming[n].stop = "tool_use" => source.tools
          /\ ~ask.compat /\ Coming[n].stop # "tool_use" => ~source.tools
    /\ client.stop # None =>
          source.phase \in {"delta", "stop"} /\ \A n \in DOMAIN Coming : Coming[n].type = "message_stop"
    /\ Has(wire, "message_stop") /\ ~ask.compat => client.stop # None

\* The recorder is behind the agent by the frame just yielded.
SeenOK ==
    conf.recorder /\ ~ask.compat =>
        /\ seen.unfed = {}
        /\ seen.stopped => client.stop # None
        /\ (IF pc = "stream" THEN seen ELSE Extracts(seen, wire[1])).open = client.open \cup gate.held
        /\ pc # "stream" /\ wire[1].type = "stop" => wire[1].i \in seen.open
        /\ \A i \in (DOMAIN client.blocks \ client.open) \cup DOMAIN gate.decided :
              Told(<<"block", i>>) \/ (pc # "stream" /\ wire[1] = Stop(i))

\* A stream that was left: what there is to tell.
ClosingOK ==
    pc = "closing" /\ conf.recorder /\ ~ask.compat =>
        /\ seen.stopped => client.stop # None
        /\ seen.open \subseteq 0..(MaxBlocks - 1)
        /\ \A i \in (DOMAIN client.blocks \ client.open) \cup DOMAIN gate.decided :
              Told(<<"block", i>>) \/ Stop(i) \in seen.unfed
        /\ \A i \in client.open : i \in seen.open \/ \E f \in seen.unfed : f.type = "start" /\ f.i = i
        /\ source.cut # None =>
              /\ source.cut.type = "start" => source.cut.i \in 0..(MaxBlocks - 1)
              /\ source.cut.type = "stop" => source.cut = Stop(source.cut.i)
              /\ source.cut.type = "message_stop" => client.stop # None

StreamOK == Streaming => WireOK /\ SourceOK /\ BlocksOK /\ EndOK /\ SeenOK

\* What was told before the upstream was asked.
EvidenceTold ==
    conf.recorder /\ (sent # {} \/ pc \notin {"idle", "arrived", "answered"}) =>
        /\ conf.guard # "off" /\ ask.body # "none" => \A x \in EvidenceRows : Told(x)
        /\ conf.strict => <<"evidence", 0>> \notin lost
ResultsTold ==
    conf.recorder /\ (Streaming \/ pc = "upstream") /\ ~ask.compat =>
        /\ \A x \in RequestRows : Told(x)
        /\ conf.strict => <<"result", 0>> \notin lost
BlocksTold ==
    conf.recorder /\ pc = "answered" /\ client.status = 200 /\ ~ask.compat =>
             /\ \A i \in (DOMAIN client.blocks \ client.open) \cup DOMAIN gate.decided :
                    Told(<<"block", i>>) \/ Stop(i) \in seen.unfed
             /\ \A i \in client.open :
                    \/ Told(<<"aborted", i>>) \/ (source.cut = Stop(i) /\ Told(<<"block", i>>))
                    \/ \E f \in seen.unfed : f.type = "start" /\ f.i = i
             /\ ask.stream /\ client.stop = None /\ source.phase # "start" /\ seen.started =>
                    \E i \in -1..(MaxBlocks - 1) : Told(<<"aborted", i>>)

\* Before the guard nothing went out and nothing was written.
NothingYet ==
    /\ pc \in {"idle", "arrived"} => sent = {} /\ ledger = {} /\ lost = {}
    /\ pc \in {"checked", "optimised"} => <<"result", 0>> \notin lost

\* The inductive invariant.
ProxyInv ==
    /\ ProxyTypeOK /\ FreshOK /\ NothingYet /\ StreamOK /\ ClosingOK
    /\ EvidenceTold /\ ResultsTold /\ BlocksTold
    /\ FramesGated /\ MessageIsWhole

-----------------------------------------------------------------------------
(* Lemmas about frames, blocks and the enforced body.                      *)

\* A set of naturals that is not empty has a least element.
LEMMA LeastOf ==
    ASSUME NEW S \in SUBSET Nat, S # {}
    PROVE  \E n \in S : \A m \in S : n <= m
<1> DEFINE R == OpToRel(<, Nat)
<1>1. \A x, y \in Nat : y < x => <<y, x>> \in R
    BY DEF OpToRel
<1>2. IsWellFoundedOn(R, Nat)
    BY NatLessThanWellFounded
<1> HIDE DEF R
<1>3. PICK x \in S : \A y \in S : ~ (<<y, x>> \in R)
    BY <1>2, WFMin
<1>4. \A y \in S : ~ (y < x)
    BY <1>1, <1>3
<1> QED
    BY <1>4

\* What With makes of a function.
LEMMA WithIn ==
    ASSUME NEW S, NEW f \in PartialMaps(S), NEW i \in Nat, NEW v \in S
    PROVE  With(f, i, v) \in PartialMaps(S)
<1>1. PICK D \in SUBSET Nat : f \in [D -> S]
    BY DEF PartialMaps
<1>2. With(f, i, v) \in [D \cup {i} -> S]
    BY <1>1 DEF With
<1>3. D \cup {i} \in SUBSET Nat
    BY <1>1
<1> QED
    BY <1>2, <1>3 DEF PartialMaps

\* The frames, by their type.
LEMMA FrameIs ==
    ASSUME NEW f \in FrameSet
    PROVE  /\ f.type \in {"start", "stop", "message_delta", "message_start", "message_stop", "error"}
           /\ f.type = "start" => f.i \in Nat /\ f.k \in Kinds
           /\ f.type = "stop" => f.i \in Nat /\ f = Stop(f.i)
           /\ f.type = "message_delta" => f.stop \in {"tool_use", "end_turn"}
BY DEF FrameSet, Start, Stop, MessageDelta, MessageStart, MessageStop, ErrorFrame

\* The frames the code makes.
LEMMA StartIs ==
    ASSUME NEW i \in Nat, NEW k \in Kinds
    PROVE  Start(i, k) \in FrameSet /\ Start(i, k).type = "start" /\ Start(i, k).i = i /\ Start(i, k).k = k
<1>1. Start(i, k) \in FrameSet
    BY DEF FrameSet
<1> QED
    BY <1>1 DEF Start
LEMMA StopIs ==
    ASSUME NEW i \in Nat
    PROVE  Stop(i) \in FrameSet /\ Stop(i).type = "stop" /\ Stop(i).i = i
<1>1. Stop(i) \in FrameSet
    BY DEF FrameSet
<1> QED
    BY <1>1 DEF Stop
LEMMA DeltaIs ==
    ASSUME NEW s \in {"tool_use", "end_turn"}
    PROVE  MessageDelta(s) \in FrameSet /\ MessageDelta(s).type = "message_delta" /\ MessageDelta(s).stop = s
<1>1. MessageDelta(s) \in FrameSet
    BY DEF FrameSet
<1> QED
    BY <1>1 DEF MessageDelta
LEMMA PlainFrames ==
    /\ MessageStart \in FrameSet /\ MessageStart.type = "message_start"
    /\ MessageStop \in FrameSet /\ MessageStop.type = "message_stop"
    /\ ErrorFrame \in FrameSet /\ ErrorFrame.type = "error"
<1>1. MessageStart \in FrameSet /\ MessageStop \in FrameSet /\ ErrorFrame \in FrameSet
    BY DEF FrameSet
<1>2. MessageStart.type = "message_start" /\ MessageStop.type = "message_stop" /\ ErrorFrame.type = "error"
    BY DEF MessageStart, MessageStop, ErrorFrame
<1> QED
    BY <1>1, <1>2

\* A list without its first frame.
LEMMA TailIs ==
    ASSUME NEW w \in Seq(FrameSet), w # <<>>
    PROVE  /\ Tail(w) \in Seq(FrameSet) /\ Len(w) \in Nat \ {0} /\ Len(Tail(w)) = Len(w) - 1
           /\ DOMAIN w = 1..Len(w) /\ DOMAIN Tail(w) = 1..(Len(w) - 1)
           /\ Head(w) = w[1] /\ w[1] \in FrameSet /\ 1 \in DOMAIN w
           /\ \A n \in DOMAIN Tail(w) : n + 1 \in DOMAIN w /\ Tail(w)[n] = w[n + 1]
           /\ \A n \in DOMAIN w : n = 1 \/ (n - 1 \in DOMAIN Tail(w) /\ w[n] = Tail(w)[n - 1])
<1> DEFINE v == Tail(w)
           k == Len(w)
<1>1. /\ v \in Seq(FrameSet) /\ k \in Nat \ {0} /\ Len(v) = k - 1
      /\ DOMAIN w = 1..k /\ DOMAIN v = 1..(k - 1) /\ Head(w) = w[1] /\ w[1] \in FrameSet
    BY LenProperties, HeadTailProperties, EmptySeq
<1>2. \A n \in 1..(k - 1) : v[n] = w[n + 1]
    BY <1>1, HeadTailProperties
<1> HIDE DEF v, k
<1>3. 1 \in DOMAIN w /\ \A n \in DOMAIN v : n + 1 \in DOMAIN w /\ v[n] = w[n + 1]
    BY <1>1, <1>2
<1>4. ASSUME NEW n \in DOMAIN w PROVE n = 1 \/ (n - 1 \in DOMAIN v /\ w[n] = v[n - 1])
  <2>1. n = 1 \/ (n - 1 \in 1..(k - 1) /\ n = (n - 1) + 1)
      BY <1>1
  <2> QED
      BY <1>1, <1>2, <2>1
<1> QED
    BY <1>1, <1>3, <1>4 DEF v, k

\* What has come of a list whose first frame is gone.
LEMMA TailShape ==
    ASSUME NEW w \in Seq(FrameSet), w # <<>>, WireShape(w)
    PROVE  /\ WireShape(Tail(w))
           /\ Started(w) = Started(Tail(w)) \cup (IF w[1].type = "start" THEN {w[1].i} ELSE {})
           /\ Stopped(w) = Stopped(Tail(w)) \cup (IF w[1].type = "stop" THEN {w[1].i} ELSE {})
           /\ w[1].type = "stop" => w[1].i \notin Stopped(Tail(w))
           /\ w[1].type # "stop" => Stopped(Tail(w)) = {} /\ Started(Tail(w)) = {}
           /\ w[1].type \notin {"stop", "message_delta"} => Tail(w) = <<>>
           /\ w[1].type = "message_delta" => \A n \in DOMAIN Tail(w) : Tail(w)[n].type = "message_stop"
<1> DEFINE v == Tail(w)
<1>1. /\ v \in Seq(FrameSet) /\ DOMAIN w \subseteq Nat \ {0} /\ DOMAIN v \subseteq Nat \ {0}
      /\ w[1] \in FrameSet /\ 1 \in DOMAIN w
      /\ \A n \in DOMAIN v : n + 1 \in DOMAIN w /\ v[n] = w[n + 1]
      /\ \A n \in DOMAIN w : n = 1 \/ (n - 1 \in DOMAIN v /\ w[n] = v[n - 1])
    BY TailIs
<1>2. v = <<>> \/ 1 \in DOMAIN v
    BY <1>1, TailIs, EmptySeq, LenProperties
<1> HIDE DEF v
<1>3. WireShape(v)
  <2> SUFFICES ASSUME NEW m \in DOMAIN v, NEW n \in DOMAIN v, m < n
               PROVE  /\ v[m].type = "stop" \/ (v[m].type = "message_delta" /\ v[n].type = "message_stop")
                      /\ v[m].type = "stop" /\ v[n].type = "stop" => v[m].i # v[n].i
      BY DEF WireShape
  <2>1. m + 1 \in DOMAIN w /\ n + 1 \in DOMAIN w /\ m + 1 < n + 1
      BY <1>1
  <2> QED
      BY <1>1, <2>1 DEF WireShape
<1>4. \A n \in DOMAIN v :
          /\ w[1].type = "stop" \/ (w[1].type = "message_delta" /\ v[n].type = "message_stop")
          /\ w[1].type = "stop" /\ v[n].type = "stop" => w[1].i # v[n].i
  <2> TAKE n \in DOMAIN v
  <2>1. n + 1 \in DOMAIN w /\ 1 < n + 1 /\ v[n] = w[n + 1]
      BY <1>1
  <2> QED
      BY <1>1, <2>1 DEF WireShape
<1>5. w[1].type \in {"start", "stop"} => w[1].i \in Nat
    BY <1>1, FrameIs
<1>6. Started(w) = Started(v) \cup (IF w[1].type = "start" THEN {w[1].i} ELSE {})
    BY <1>1, <1>5 DEF Started
<1>7. Stopped(w) = Stopped(v) \cup (IF w[1].type = "stop" THEN {w[1].i} ELSE {})
  <2>1. ASSUME NEW i \in Stopped(w) PROVE i \in Stopped(v) \/ (w[1].type = "stop" /\ i = w[1].i)
      BY <1>1 DEF Stopped
  <2>2. ASSUME NEW i \in Stopped(v) PROVE i \in Stopped(w)
      BY <1>1 DEF Stopped
  <2>3. w[1].type = "stop" => w[1].i \in Stopped(w)
      BY <1>1, <1>5 DEF Stopped
  <2> QED
      BY <2>1, <2>2, <2>3
<1>8. w[1].type = "stop" => w[1].i \notin Stopped(v)
    BY <1>4 DEF Stopped
<1>9. w[1].type # "stop" => Stopped(v) = {} /\ Started(v) = {}
    BY <1>4 DEF Stopped, Started
<1>10. w[1].type \notin {"stop", "message_delta"} => v = <<>>
    BY <1>2, <1>4
<1> QED
    BY <1>3, <1>4, <1>6, <1>7, <1>8, <1>9, <1>10 DEF v

\* One frame, or none.
LEMMA OneFrame ==
    ASSUME NEW f \in FrameSet
    PROVE  /\ <<f>> \in Seq(FrameSet) /\ <<f>> # <<>> /\ DOMAIN <<f>> = {1} /\ <<f>>[1] = f
           /\ WireShape(<<f>>)
           /\ Started(<<f>>) = IF f.type = "start" THEN {f.i} ELSE {}
           /\ Stopped(<<f>>) = IF f.type = "stop" THEN {f.i} ELSE {}
           /\ \A type : Has(<<f>>, type) <=> f.type = type
           /\ Tail(<<f>>) = <<>>
<1>1. <<f>> \in Seq(FrameSet) /\ <<f>> # <<>> /\ DOMAIN <<f>> = {1} /\ <<f>>[1] = f /\ Tail(<<f>>) = <<>>
    OBVIOUS
<1>2. f.type \in {"start", "stop"} => f.i \in Nat
    BY FrameIs
<1> DEFINE w == <<f>>
<1> HIDE DEF w
<1>3. DOMAIN w = {1} /\ w[1] = f
    BY <1>1 DEF w
<1>4. /\ WireShape(w)
      /\ Started(w) = IF f.type = "start" THEN {f.i} ELSE {}
      /\ Stopped(w) = IF f.type = "stop" THEN {f.i} ELSE {}
      /\ \A type : Has(w, type) <=> f.type = type
  <2>1. WireShape(w)
      BY <1>3 DEF WireShape
  <2>2. Started(w) = IF f.type = "start" THEN {f.i} ELSE {}
      BY <1>2, <1>3 DEF Started
  <2>3. Stopped(w) = IF f.type = "stop" THEN {f.i} ELSE {}
      BY <1>2, <1>3 DEF Stopped
  <2>4. \A type : Has(w, type) <=> f.type = type
      BY <1>3 DEF Has
  <2> QED
      BY <2>1, <2>2, <2>3, <2>4
<1> QED
    BY <1>1, <1>4 DEF w

\* The same of none.
LEMMA NoFrame ==
    /\ <<>> \in Seq(FrameSet) /\ DOMAIN <<>> = {} /\ WireShape(<<>>)
    /\ Started(<<>>) = {} /\ Stopped(<<>>) = {} /\ \A type : ~Has(<<>>, type)
BY EmptySeq DEF WireShape, Started, Stopped, Has

\* What replaces a block in a body, and what was said of it.
BlockSaid(k, x, y) ==
    IF IsTool(k) THEN (x = k /\ y = "allow") \/ (x = "denial" /\ y = "deny")
    ELSE x = k /\ y = "none"

\* The constants a run of the proxy rests on.
LEMMA ConfIs ==
    ASSUME conf \in Confs
    PROVE  /\ conf \in ConfTypes /\ conf.closed \in BOOLEAN
           /\ "text" \notin Tools /\ "denial" \notin Tools
           /\ None # "tool_use" /\ None # "end_turn" /\ MaxBlocks \in Nat
BY ProxyAssumption DEF ConfTypes

\* A decision is an allowance or a refusal, and keeps the latch a count.
LEMMA DecideIs ==
    ASSUME conf \in Confs, NEW att \in [Tools -> Nat], NEW t \in Tools
    PROVE  Decide(att, t).allow \in BOOLEAN /\ Decide(att, t).att \in [Tools -> Nat]
<1>1. conf.closed \in BOOLEAN
    BY ConfIs
<1>2. /\ [att EXCEPT ![t] = @ + 1] \in [Tools -> Nat]
      /\ [att EXCEPT ![t] = 1] \in [Tools -> Nat]
    OBVIOUS
<1>3. CASE ~Resolved
  <2>1. Decide(att, t) = [allow |-> ~conf.closed, att |-> att]
      BY <1>3 DEF Decide
  <2> QED
      BY <1>1, <2>1
<1>4. CASE Resolved /\ Halted(att)
  <2>1. Decide(att, t) = [allow |-> FALSE, att |-> att]
      BY <1>4 DEF Decide
  <2> QED
      BY <2>1
<1>5. CASE Resolved /\ ~Halted(att)
  <2>1. \/ Decide(att, t) = [allow |-> FALSE, att |-> [att EXCEPT ![t] = @ + 1]]
        \/ Decide(att, t) = [allow |-> TRUE, att |-> att]
        \/ Decide(att, t) = [allow |-> FALSE, att |-> [att EXCEPT ![t] = 1]]
      BY <1>5 DEF Decide
  <2>2. CASE Decide(att, t) = [allow |-> FALSE, att |-> [att EXCEPT ![t] = @ + 1]]
      BY <1>2, <2>2
  <2>3. CASE Decide(att, t) = [allow |-> TRUE, att |-> att]
      BY <2>3
  <2>4. CASE Decide(att, t) = [allow |-> FALSE, att |-> [att EXCEPT ![t] = 1]]
      BY <1>2, <2>4
  <2> QED
      BY <2>1, <2>2, <2>3, <2>4
<1> QED
    BY <1>3, <1>4, <1>5

\* The body so far: the latch, the blocks that went out and the decisions.
BodySoFar == [att : [Tools -> Nat], out : Seq(Shown), said : Seq(Marks)]

\* One block of an enforced body.
LEMMA EnforceBlockIs ==
    ASSUME conf \in Confs, NEW acc \in BodySoFar, NEW k \in Kinds
    PROVE  /\ EnforceBlock(acc, k) \in BodySoFar
           /\ \E x \in Shown, y \in Marks :
                 /\ EnforceBlock(acc, k).out = Append(acc.out, x)
                 /\ EnforceBlock(acc, k).said = Append(acc.said, y)
                 /\ BlockSaid(k, x, y)
<1>1. acc.att \in [Tools -> Nat] /\ acc.out \in Seq(Shown) /\ acc.said \in Seq(Marks)
    BY DEF BodySoFar
<1>2. k \in Shown /\ "denial" \in Shown /\ {"allow", "deny", "none"} \subseteq Marks
    BY DEF Shown, Marks
<1>3. CASE ~IsTool(k)
  <2>1. /\ EnforceBlock(acc, k).att = acc.att
        /\ EnforceBlock(acc, k).out = Append(acc.out, k)
        /\ EnforceBlock(acc, k).said = Append(acc.said, "none")
        /\ EnforceBlock(acc, k) = [acc EXCEPT !.out = Append(acc.out, k), !.said = Append(acc.said, "none")]
      BY <1>3 DEF EnforceBlock, BodySoFar
  <2>2. Append(acc.out, k) \in Seq(Shown) /\ Append(acc.said, "none") \in Seq(Marks)
      BY <1>1, <1>2
  <2>3. EnforceBlock(acc, k) \in BodySoFar
      BY <2>1, <2>2 DEF BodySoFar
  <2>4. BlockSaid(k, k, "none")
      BY <1>3 DEF BlockSaid
  <2> QED
      BY <1>2, <2>1, <2>3, <2>4
<1>4. CASE IsTool(k)
  <2> DEFINE d == Decide(acc.att, k)
             x == IF d.allow THEN k ELSE "denial"
             y == IF d.allow THEN "allow" ELSE "deny"
  <2>1. d.allow \in BOOLEAN /\ d.att \in [Tools -> Nat]
      BY <1>1, <1>4, DecideIs DEF IsTool
  <2>2. EnforceBlock(acc, k) = [att |-> d.att, out |-> Append(acc.out, x), said |-> Append(acc.said, y)]
      BY <1>4 DEF EnforceBlock
  <2>3. x \in Shown /\ y \in Marks
      BY <1>2
  <2>4. BlockSaid(k, x, y)
      BY <1>4 DEF BlockSaid
  <2> HIDE DEF d, x, y
  <2>5. Append(acc.out, x) \in Seq(Shown) /\ Append(acc.said, y) \in Seq(Marks)
      BY <1>1, <2>3
  <2>6. EnforceBlock(acc, k) \in BodySoFar
      BY <2>1, <2>2, <2>5 DEF BodySoFar
  <2>7. EnforceBlock(acc, k).out = Append(acc.out, x) /\ EnforceBlock(acc, k).said = Append(acc.said, y)
      BY <2>2
  <2> QED
      BY <2>3, <2>4, <2>6, <2>7
<1> QED
    BY <1>3, <1>4

\* Is f the blocks done one after the other, up to the n-th?
BlockByBlock(f, blocks, n) ==
    f = [m \in 0..n |-> IF m = 0 THEN [att |-> attempts, out |-> <<>>, said |-> <<>>]
                        ELSE EnforceBlock(f[m - 1], blocks[m])]

\* Blocks can be done one after the other.
LEMMA BlockByBlockExists ==
    ASSUME NEW blocks, NEW n \in Nat
    PROVE  \E f : BlockByBlock(f, blocks, n)
<1> DEFINE S == {m \in Nat : ~\E f : BlockByBlock(f, blocks, m)}
           a0 == [att |-> attempts, out |-> <<>>, said |-> <<>>]
<1>1. SUFFICES ASSUME S # {} PROVE FALSE
    OBVIOUS
<1>2. PICK m \in S : \A l \in S : m <= l
    BY <1>1, LeastOf
<1>3. m \in Nat
    OBVIOUS
<1>4. ASSUME m = 0 PROVE FALSE
  <2> DEFINE g == [l \in 0..0 |-> a0]
  <2> HIDE DEF a0
  <2>1. g = [l \in 0..0 |-> IF l = 0 THEN a0 ELSE EnforceBlock(g[l - 1], blocks[l])]
      OBVIOUS
  <2>2. BlockByBlock(g, blocks, 0)
      BY <2>1 DEF BlockByBlock, a0
  <2> QED
      BY <1>4, <2>2
<1>5. ASSUME m # 0 PROVE FALSE
  <2>1. m - 1 \in Nat /\ ~(m <= m - 1)
      BY <1>3, <1>5
  <2>2. PICK f : BlockByBlock(f, blocks, m - 1)
      BY <1>2, <2>1
  <2> DEFINE g == [l \in 0..m |-> IF l = 0 THEN a0 ELSE EnforceBlock(f[l - 1], blocks[l])]
  <2>3. f = [l \in 0..(m - 1) |-> IF l = 0 THEN a0 ELSE EnforceBlock(f[l - 1], blocks[l])]
      BY <2>2 DEF BlockByBlock
  <2> HIDE DEF a0
  <2>4. ASSUME NEW l \in 0..(m - 1) PROVE g[l] = f[l]
    <3>1. l \in 0..m
        BY <1>3
    <3>2. g[l] = IF l = 0 THEN a0 ELSE EnforceBlock(f[l - 1], blocks[l])
        BY <3>1
    <3> QED
        BY <2>3, <3>2
  <2>5. ASSUME NEW l \in 0..m
        PROVE  (IF l = 0 THEN a0 ELSE EnforceBlock(f[l - 1], blocks[l]))
               = (IF l = 0 THEN a0 ELSE EnforceBlock(g[l - 1], blocks[l]))
    <3>1. l = 0 \/ l - 1 \in 0..(m - 1)
        BY <1>3
    <3>2. l = 0 \/ g[l - 1] = f[l - 1]
        BY <2>4, <3>1
    <3> HIDE DEF g
    <3> QED
        BY <3>2
  <2>6. g = [l \in 0..m |-> IF l = 0 THEN a0 ELSE EnforceBlock(g[l - 1], blocks[l])]
    <3>1. g = [l \in 0..m |-> IF l = 0 THEN a0 ELSE EnforceBlock(f[l - 1], blocks[l])]
        OBVIOUS
    <3> HIDE DEF g
    <3> QED
        BY <2>5, <3>1
  <2> HIDE DEF g
  <2>7. BlockByBlock(g, blocks, m)
      BY <2>6 DEF BlockByBlock, a0
  <2> QED
      BY <2>7
<1> QED
    BY <1>4, <1>5

\* The enforced body has a block for each of the response's, and a decision
\* that says which.
LEMMA EnforceBodyIs ==
    ASSUME conf \in Confs, attempts \in [Tools -> Nat], NEW blocks \in Seq(Kinds)
    PROVE  /\ EnforceBody(blocks).att \in [Tools -> Nat]
           /\ EnforceBody(blocks).out \in Seq(Shown) /\ EnforceBody(blocks).said \in Seq(Marks)
           /\ Len(EnforceBody(blocks).out) = Len(blocks) /\ Len(EnforceBody(blocks).said) = Len(blocks)
           /\ \A j \in 1..Len(blocks) :
                 BlockSaid(blocks[j], EnforceBody(blocks).out[j], EnforceBody(blocks).said[j])
<1> DEFINE N == Len(blocks)
           a0 == [att |-> attempts, out |-> <<>>, said |-> <<>>]
           after == CHOOSE f : BlockByBlock(f, blocks, N)
<1>1. N \in Nat /\ \A j \in 1..N : blocks[j] \in Kinds
    BY LenProperties
<1>2. EnforceBody(blocks) = after[N]
    BY DEF EnforceBody, BlockByBlock
<1> HIDE DEF N
<1>3. BlockByBlock(after, blocks, N)
  <2>1. \E f : BlockByBlock(f, blocks, N)
      BY <1>1, BlockByBlockExists
  <2> QED
      BY <2>1
<1> HIDE DEF after
<1>4. after = [m \in 0..N |-> IF m = 0 THEN a0 ELSE EnforceBlock(after[m - 1], blocks[m])]
    BY <1>3 DEF BlockByBlock
<1> DEFINE Good(e, n) ==
              /\ e \in BodySoFar /\ Len(e.out) = n /\ Len(e.said) = n
              /\ \A j \in 1..n : BlockSaid(blocks[j], e.out[j], e.said[j])
           S == {n \in 0..N : ~Good(after[n], n)}
<1>5. Good(after[0], 0)
  <2>1. after[0] = a0
      BY <1>1, <1>4
  <2>2. a0 \in BodySoFar /\ a0.out = <<>> /\ a0.said = <<>>
      BY DEF BodySoFar
  <2> HIDE DEF a0
  <2> QED
      BY <2>1, <2>2
<1>6. ASSUME NEW n \in 1..N, Good(after[n - 1], n - 1) PROVE Good(after[n], n)
  <2> DEFINE acc == after[n - 1]
             k == blocks[n]
             e == after[n]
  <2>1. n - 1 \in Nat /\ n \in Nat /\ n # 0 /\ n \in 0..N /\ n = (n - 1) + 1 /\ k \in Kinds
      BY <1>1
  <2>2. e = EnforceBlock(acc, k)
      BY <1>4, <2>1
  <2>3. acc \in BodySoFar /\ Len(acc.out) = n - 1 /\ Len(acc.said) = n - 1
        /\ \A j \in 1..(n - 1) : BlockSaid(blocks[j], acc.out[j], acc.said[j])
      BY <1>6
  <2> HIDE DEF acc, e
  <2>4. e \in BodySoFar /\ \E x \in Shown, y \in Marks :
             e.out = Append(acc.out, x) /\ e.said = Append(acc.said, y) /\ BlockSaid(k, x, y)
      BY <2>1, <2>2, <2>3, EnforceBlockIs
  <2>5. PICK x \in Shown, y \in Marks :
             e.out = Append(acc.out, x) /\ e.said = Append(acc.said, y) /\ BlockSaid(k, x, y)
      BY <2>4
  <2>6. acc.out \in Seq(Shown) /\ acc.said \in Seq(Marks)
      BY <2>3 DEF BodySoFar
  <2>7. Len(e.out) = n /\ e.out[n] = x /\ \A j \in 1..(n - 1) : e.out[j] = acc.out[j]
      BY <2>1, <2>3, <2>5, <2>6, AppendProperties
  <2>8. Len(e.said) = n /\ e.said[n] = y /\ \A j \in 1..(n - 1) : e.said[j] = acc.said[j]
      BY <2>1, <2>3, <2>5, <2>6, AppendProperties
  <2>9. ASSUME NEW j \in 1..n PROVE BlockSaid(blocks[j], e.out[j], e.said[j])
    <3>1. j = n \/ j \in 1..(n - 1)
        BY <2>1
    <3>2. CASE j = n
        BY <2>5, <2>7, <2>8, <3>2
    <3>3. CASE j \in 1..(n - 1)
        BY <2>3, <2>7, <2>8, <3>3
    <3> QED
        BY <3>1, <3>2, <3>3
  <2> QED
      BY <2>4, <2>7, <2>8, <2>9 DEF e
<1> HIDE DEF Good
<1>7. \A n \in 0..N : Good(after[n], n)
  <2>1. SUFFICES ASSUME S # {} PROVE FALSE
      OBVIOUS
  <2>2. S \in SUBSET Nat
      BY <1>1
  <2>3. PICK n \in S : \A l \in S : n <= l
      BY <2>1, <2>2, LeastOf
  <2>4. n \in 0..N /\ ~Good(after[n], n)
      OBVIOUS
  <2>5. n # 0
      BY <1>5, <2>4
  <2>6. n \in 1..N /\ n - 1 \in 0..N /\ ~(n <= n - 1)
      BY <1>1, <2>4, <2>5
  <2>7. Good(after[n - 1], n - 1)
      BY <2>3, <2>6
  <2> QED
      BY <1>6, <2>4, <2>6, <2>7
<1>8. Good(after[N], N)
  <2>1. N \in 0..N
      BY <1>1
  <2> QED
      BY <1>7, <2>1
<1> QED
    BY <1>2, <1>8 DEF Good, N, BodySoFar

\* How many elements of a set of numbers are up to i.
UpTo(S, i) == Cardinality({j \in S : j <= i})

\* The order of a finite set of numbers goes through each of them once.
LEMMA InOrderIs ==
    ASSUME NEW S \in SUBSET Nat, IsFiniteSet(S)
    PROVE  /\ Cardinality(S) \in Nat /\ DOMAIN InOrder(S) = 1..Cardinality(S) /\ InOrder(S) \in Seq(S)
           /\ \A m, n \in 1..Cardinality(S) : InOrder(S)[m] = InOrder(S)[n] => m = n
           /\ \A i \in S : \E n \in 1..Cardinality(S) : InOrder(S)[n] = i
<1> DEFINE c == Cardinality(S)
<1>1. c \in Nat
    BY FS_CardinalityType
<1>2. ASSUME NEW i \in S
      PROVE  /\ IsFiniteSet({j \in S : j <= i}) /\ UpTo(S, i) \in 1..c
  <2> DEFINE T == {j \in S : j <= i}
  <2>1. T \in SUBSET S /\ i \in T
      OBVIOUS
  <2>2. IsFiniteSet(T) /\ Cardinality(T) <= Cardinality(S) /\ Cardinality(T) \in Nat
      BY <1>1, <2>1, FS_Subset, FS_CardinalityType
  <2>3. Cardinality(T) # 0
      BY <2>1, <2>2, FS_EmptySet
  <2> QED
      BY <1>1, <2>2, <2>3 DEF UpTo
<1>3. ASSUME NEW i \in S, NEW j \in S, UpTo(S, i) = UpTo(S, j), i < j
      PROVE  FALSE
  <2> DEFINE T == {k \in S : k <= i}
             U == {k \in S : k <= j}
  <2>1. T \in SUBSET U /\ j \in U /\ j \notin T
    <3>1. i \in Nat /\ j \in Nat /\ S \subseteq Nat
        OBVIOUS
    <3>2. \A k \in Nat : k <= i => k <= j
        BY <1>3, <3>1
    <3>3. j <= j /\ ~(j <= i)
        BY <1>3, <3>1
    <3> QED
        BY <3>1, <3>2, <3>3
  <2>2. IsFiniteSet(U) /\ Cardinality(T) = Cardinality(U)
      BY <1>2, <1>3 DEF UpTo
  <2> HIDE DEF T, U
  <2> QED
      BY <2>1, <2>2, FS_Subset
<1>4. \A i, j \in S : UpTo(S, i) = UpTo(S, j) => i = j
  <2> SUFFICES ASSUME NEW i \in S, NEW j \in S, UpTo(S, i) = UpTo(S, j)
               PROVE  i = j
      OBVIOUS
  <2>1. ~(i < j) /\ ~(j < i)
      BY <1>3
  <2>2. i \in Nat /\ j \in Nat
      OBVIOUS
  <2> QED
      BY <2>1, <2>2
<1>5. ASSUME NEW k \in 1..c PROVE \E i \in S : UpTo(S, i) = k
  <2> DEFINE f == [i \in S |-> UpTo(S, i)]
  <2>1. f \in Injection(S, 1..c)
    <3>1. f \in [S -> 1..c]
        BY <1>2
    <3>2. \A a, b \in DOMAIN f : f[a] = f[b] => a = b
        BY <1>4
    <3> QED
        BY <3>1, <3>2 DEF Injection, IsInjective
  <2>2. IsFiniteSet(1..c) /\ Cardinality(1..c) = c
    <3>1. c \in Nat /\ 1 \in Int /\ c \in Int
        BY <1>1
    <3> HIDE DEF c
    <3>2. /\ IsFiniteSet(1..c)
          /\ Cardinality(1..c) = IF 1 > c THEN 0 ELSE c - 1 + 1
        BY <3>1, FS_Interval
    <3> QED
        BY <3>1, <3>2
  <2>3. f \in Surjection(S, 1..c)
      BY <2>1, <2>2, FS_Injection
  <2>4. \E i \in S : f[i] = k
      BY <2>3 DEF Surjection
  <2> QED
      BY <2>4
<1> DEFINE at(n) == CHOOSE i \in S : UpTo(S, i) = n
<1>6. InOrder(S) = [n \in 1..c |-> at(n)]
    BY DEF InOrder, UpTo
<1> HIDE DEF c
<1>7. ASSUME NEW n \in 1..c PROVE at(n) \in S /\ UpTo(S, at(n)) = n
    BY <1>5
<1> HIDE DEF at
<1>8. \A n \in 1..c : InOrder(S)[n] = at(n)
    BY <1>6
<1>9. ASSUME NEW m \in 1..c, NEW n \in 1..c, InOrder(S)[m] = InOrder(S)[n] PROVE m = n
    BY <1>7, <1>8, <1>9
<1>10. ASSUME NEW i \in S PROVE \E n \in 1..c : InOrder(S)[n] = i
    BY <1>2, <1>4, <1>7, <1>8
<1>11. DOMAIN InOrder(S) = 1..c /\ InOrder(S) \in Seq(S)
  <2>1. InOrder(S) \in [1..c -> S]
      BY <1>6, <1>7
  <2>2. \A f \in [1..c -> S] : f \in Seq(S)
      BY <1>1, IsASeq
  <2> QED
      BY <2>1, <2>2
<1> QED
    BY <1>1, <1>9, <1>10, <1>11 DEF c

\* The translator closes each open block once.
LEMMA ClosingOrderIs ==
    ASSUME source \in SourceSet, source.open \subseteq 0..(source.next - 1)
    PROVE  /\ ClosingOrder \in Seq(source.open)
           /\ \A m, n \in 1..Len(ClosingOrder) : ClosingOrder[m] = ClosingOrder[n] => m = n
           /\ \A i \in source.open : \E n \in 1..Len(ClosingOrder) : ClosingOrder[n] = i
<1> DEFINE O == source.open
           T == {i \in O : source.kinds[i + 1] = "text"}
           R == O \ T
           a == InOrder(T)
           b == InOrder(R)
<1>1. O \in SUBSET Nat /\ source.next \in Nat
    BY DEF SourceSet
<1>2. IsFiniteSet(O)
  <2>1. IsFiniteSet(0..(source.next - 1))
      BY <1>1, FS_Interval
  <2> QED
      BY <2>1, FS_Subset
<1>3. ClosingOrder = a \o b
    BY DEF ClosingOrder
<1>4. T \subseteq O /\ R \subseteq O /\ T \cap R = {} /\ O = T \cup R
    OBVIOUS
<1> HIDE DEF O, T, R
<1>5. T \in SUBSET Nat /\ R \in SUBSET Nat /\ IsFiniteSet(T) /\ IsFiniteSet(R)
    BY <1>1, <1>2, <1>4, FS_Subset
<1>6. /\ a \in Seq(T)
      /\ \A m, n \in 1..Len(a) : a[m] = a[n] => m = n
      /\ \A i \in T : \E n \in 1..Len(a) : a[n] = i
  <2>1. /\ Cardinality(T) \in Nat /\ DOMAIN a = 1..Cardinality(T) /\ a \in Seq(T)
        /\ \A m, n \in 1..Cardinality(T) : a[m] = a[n] => m = n
        /\ \A i \in T : \E n \in 1..Cardinality(T) : a[n] = i
      BY <1>5, InOrderIs
  <2>2. Len(a) = Cardinality(T)
      BY <2>1, LenProperties
  <2> QED
      BY <2>1, <2>2
<1>7. /\ b \in Seq(R)
      /\ \A m, n \in 1..Len(b) : b[m] = b[n] => m = n
      /\ \A i \in R : \E n \in 1..Len(b) : b[n] = i
  <2>1. /\ Cardinality(R) \in Nat /\ DOMAIN b = 1..Cardinality(R) /\ b \in Seq(R)
        /\ \A m, n \in 1..Cardinality(R) : b[m] = b[n] => m = n
        /\ \A i \in R : \E n \in 1..Cardinality(R) : b[n] = i
      BY <1>5, InOrderIs
  <2>2. Len(b) = Cardinality(R)
      BY <2>1, LenProperties
  <2> QED
      BY <2>1, <2>2
<1> HIDE DEF a, b
<1> DEFINE ab == a \o b
           p == Len(a)
           q == Len(b)
<1>8. a \in Seq(O) /\ b \in Seq(O) /\ p \in Nat /\ q \in Nat
      /\ (\A n \in 1..p : a[n] \in T) /\ (\A n \in 1..q : b[n] \in R)
    BY <1>4, <1>6, <1>7, LenProperties
<1>9. ab \in Seq(O) /\ Len(ab) = p + q
      /\ \A n \in 1..(p + q) : ab[n] = IF n <= p THEN a[n] ELSE b[n - p]
    BY <1>8, ConcatProperties
<1> HIDE DEF ab, p, q
<1>10. ASSUME NEW m \in 1..(p + q), NEW n \in 1..(p + q), ab[m] = ab[n] PROVE m = n
  <2>1. CASE m <= p /\ n <= p
    <3>1. m \in 1..p /\ n \in 1..p /\ ab[m] = a[m] /\ ab[n] = a[n]
        BY <1>8, <1>9, <2>1
    <3> QED
        BY <1>6, <1>10, <3>1 DEF p
  <2>2. CASE ~(m <= p) /\ ~(n <= p)
    <3>1. m - p \in 1..q /\ n - p \in 1..q /\ ab[m] = b[m - p] /\ ab[n] = b[n - p]
        BY <1>8, <1>9, <2>2
    <3>2. m - p = n - p
        BY <1>7, <1>10, <3>1 DEF q
    <3> QED
        BY <1>8, <3>2
  <2>3. CASE m <= p /\ ~(n <= p)
    <3>1. m \in 1..p /\ n - p \in 1..q /\ ab[m] = a[m] /\ ab[n] = b[n - p]
        BY <1>8, <1>9, <2>3
    <3> QED
        BY <1>4, <1>8, <1>10, <3>1
  <2>4. CASE ~(m <= p) /\ n <= p
    <3>1. n \in 1..p /\ m - p \in 1..q /\ ab[n] = a[n] /\ ab[m] = b[m - p]
        BY <1>8, <1>9, <2>4
    <3> QED
        BY <1>4, <1>8, <1>10, <3>1
  <2> QED
      BY <2>1, <2>2, <2>3, <2>4
<1>11. ASSUME NEW i \in O PROVE \E n \in 1..(p + q) : ab[n] = i
  <2>1. CASE i \in T
    <3>1. PICK n \in 1..p : a[n] = i
        BY <1>6, <2>1 DEF p
    <3>2. n \in 1..(p + q) /\ ab[n] = a[n]
        BY <1>8, <1>9
    <3> QED
        BY <3>1, <3>2
  <2>2. CASE i \in R
    <3>1. PICK n \in 1..q : b[n] = i
        BY <1>7, <2>2 DEF q
    <3>2. n + p \in 1..(p + q) /\ ~(n + p <= p) /\ (n + p) - p = n
        BY <1>8
    <3>3. ab[n + p] = b[n]
        BY <1>9, <3>2
    <3> QED
        BY <3>1, <3>2, <3>3
  <2> QED
      BY <1>4, <2>1, <2>2
<1> QED
    BY <1>3, <1>9, <1>10, <1>11 DEF ab, O

\* What the translator sends when it ends.
ClosingList(order, stop) ==
    [n \in 1..Len(order) |-> Stop(order[n])] \o <<MessageDelta(stop), MessageStop>>
LEMMA ClosingFrames ==
    ASSUME NEW O \in SUBSET Nat, NEW order \in Seq(O), NEW stop \in {"tool_use", "end_turn"},
           NEW w, w = ClosingList(order, stop),
           \A m, n \in 1..Len(order) : order[m] = order[n] => m = n,
           \A i \in O : \E n \in 1..Len(order) : order[n] = i
    PROVE  /\ w \in Seq(FrameSet) /\ w # <<>> /\ WireShape(w) /\ Started(w) = {} /\ Stopped(w) = O
           /\ Has(w, "message_delta")
           /\ \A n \in DOMAIN w : \/ w[n].type = "stop" /\ w[n].i \in O
                                  \/ w[n].type = "message_delta" /\ w[n].stop = stop
                                  \/ w[n].type = "message_stop"
<1> DEFINE p == Len(order)
           a == [n \in 1..p |-> Stop(order[n])]
           b == <<MessageDelta(stop), MessageStop>>
<1>1. p \in Nat /\ \A n \in 1..p : order[n] \in O
    BY LenProperties
<1>2. a \in Seq(FrameSet) /\ Len(a) = p /\ \A n \in 1..p : a[n] = Stop(order[n])
  <2> HIDE DEF p
  <2>1. \A n \in 1..p : Stop(order[n]) \in FrameSet
      BY <1>1, StopIs
  <2>2. a \in [1..p -> FrameSet]
      BY <2>1
  <2>3. \A f \in [1..p -> FrameSet] : f \in Seq(FrameSet)
      BY <1>1, IsASeq
  <2>4. a \in Seq(FrameSet)
      BY <2>2, <2>3
  <2>5. Len(a) \in Nat /\ DOMAIN a = 1..Len(a) /\ DOMAIN a = 1..p
      BY <2>4, LenProperties
  <2>6. Len(a) = p
      BY <1>1, <2>5
  <2> QED
      BY <2>4, <2>6
<1>3. b \in Seq(FrameSet) /\ Len(b) = 2 /\ b[1] = MessageDelta(stop) /\ b[2] = MessageStop
    BY DeltaIs, PlainFrames
<1>4. w = a \o b
    BY DEF ClosingList
<1> HIDE DEF p, a, b
<1>5. /\ w \in Seq(FrameSet) /\ Len(w) = p + 2
      /\ \A n \in 1..(p + 2) : w[n] = IF n <= p THEN a[n] ELSE b[n - p]
  <2>1. Len(a) + Len(b) = p + 2
      BY <1>1, <1>2, <1>3
  <2>2. /\ a \o b \in Seq(FrameSet) /\ Len(a \o b) = Len(a) + Len(b)
        /\ \A n \in 1..(Len(a) + Len(b)) : (a \o b)[n] = IF n <= Len(a) THEN a[n] ELSE b[n - Len(a)]
    <3>1. a \in Seq(FrameSet) /\ b \in Seq(FrameSet)
        BY <1>2, <1>3
    <3> QED
        BY <3>1, ConcatProperties
  <2> QED
      BY <1>2, <1>4, <2>1, <2>2
<1>6. DOMAIN w = 1..(p + 2)
    BY <1>5, LenProperties
<1>7. ASSUME NEW n \in 1..p PROVE n \in DOMAIN w /\ w[n].type = "stop" /\ w[n].i = order[n] /\ order[n] \in O
  <2>1. n \in DOMAIN w /\ w[n] = Stop(order[n]) /\ order[n] \in O
    <3>1. n \in 1..(p + 2) /\ n <= p
        BY <1>1
    <3> QED
        BY <1>1, <1>2, <1>5, <1>6, <3>1
  <2>2. Stop(order[n]).type = "stop" /\ Stop(order[n]).i = order[n]
      BY <2>1, StopIs
  <2> QED
      BY <2>1, <2>2
<1>8. p + 1 \in DOMAIN w /\ w[p + 1].type = "message_delta" /\ w[p + 1].stop = stop
  <2>1. p + 1 \in 1..(p + 2) /\ ~(p + 1 <= p) /\ (p + 1) - p = 1
      BY <1>1
  <2>2. w[p + 1] = MessageDelta(stop)
      BY <1>3, <1>5, <2>1
  <2> QED
      BY <1>6, <2>1, <2>2, DeltaIs
<1>9. p + 2 \in DOMAIN w /\ w[p + 2].type = "message_stop"
  <2>1. p + 2 \in 1..(p + 2) /\ ~(p + 2 <= p) /\ (p + 2) - p = 2
      BY <1>1
  <2>2. w[p + 2] = MessageStop
      BY <1>3, <1>5, <2>1
  <2> QED
      BY <1>6, <2>1, <2>2, PlainFrames
<1>10. \A n \in DOMAIN w : n \in 1..p \/ n = p + 1 \/ n = p + 2
    BY <1>1, <1>6
<1>11. WireShape(w)
  <2> SUFFICES ASSUME NEW m \in DOMAIN w, NEW n \in DOMAIN w, m < n
               PROVE  /\ w[m].type = "stop" \/ (w[m].type = "message_delta" /\ w[n].type = "message_stop")
                      /\ w[m].type = "stop" /\ w[n].type = "stop" => w[m].i # w[n].i
      BY DEF WireShape
  <2>1. CASE m \in 1..p
    <3>1. CASE n \in 1..p
      <4>1. m # n
          BY <1>1
      <4>2. order[m] # order[n]
          BY <2>1, <3>1, <4>1 DEF p
      <4> QED
          BY <1>7, <2>1, <3>1, <4>2
    <3>2. CASE n = p + 1 \/ n = p + 2
        BY <1>7, <1>8, <1>9, <2>1, <3>2
    <3> QED
        BY <1>10, <3>1, <3>2
  <2>2. CASE m = p + 1
    <3>1. n = p + 2
        BY <1>1, <1>10, <2>2
    <3> QED
        BY <1>8, <1>9, <2>2, <3>1
  <2>3. m # p + 2
      BY <1>1, <1>10
  <2> QED
      BY <1>10, <2>1, <2>2, <2>3
<1>12. Started(w) = {}
    BY <1>7, <1>8, <1>9, <1>10 DEF Started
<1>13. Stopped(w) = O
  <2>1. ASSUME NEW i \in Stopped(w) PROVE i \in O
    <3>1. PICK n \in DOMAIN w : w[n].type = "stop" /\ w[n].i = i
        BY DEF Stopped
    <3>2. n \in 1..p
        BY <1>8, <1>9, <1>10, <3>1
    <3> QED
        BY <1>7, <3>1, <3>2
  <2>2. ASSUME NEW i \in O PROVE i \in Stopped(w)
    <3>1. PICK n \in 1..p : order[n] = i
        BY DEF p
    <3>2. n \in DOMAIN w /\ w[n].type = "stop" /\ w[n].i = i /\ i \in Nat
        BY <1>7, <3>1
    <3> QED
        BY <3>2 DEF Stopped
  <2> QED
      BY <2>1, <2>2
<1>14. Has(w, "message_delta")
    BY <1>8 DEF Has
<1>15. w # <<>>
    BY <1>8, EmptySeq
<1> QED
    BY <1>5, <1>7, <1>8, <1>9, <1>10, <1>11, <1>12, <1>13, <1>14, <1>15

-----------------------------------------------------------------------------
(* Before the upstream answers.                                            *)

\* What a handler starts with.
LEMMA StartTypes ==
    /\ NoSource \in SourceSet /\ NoGate \in GateSet /\ NoSeen \in SeenSet /\ NoClient \in ClientSet
    /\ DOMAIN NoClient.blocks = {} /\ NoClient.open = {} /\ NoClient.stop = None
    /\ DOMAIN NoGate.decided = {} /\ NoSource.phase = "start"
<1>1. \A S, x : [i \in {} |-> x] \in PartialMaps(S)
  <2> TAKE S, x
  <2>1. [i \in {} |-> x] \in [{} -> S] /\ {} \in SUBSET Nat
      OBVIOUS
  <2> QED
      BY <2>1 DEF PartialMaps
<1>2. NoSource \in SourceSet /\ NoSource.phase = "start"
    BY EmptySeq DEF NoSource, SourceSet
<1>3. NoGate \in GateSet /\ DOMAIN NoGate.decided = {}
    BY <1>1 DEF NoGate, GateSet
<1>4. NoSeen \in SeenSet
    BY DEF NoSeen, SeenSet
<1>5. NoClient \in ClientSet /\ DOMAIN NoClient.blocks = {} /\ NoClient.open = {} /\ NoClient.stop = None
    BY <1>1 DEF NoClient, ClientSet, Statuses, Ends
<1> QED
    BY <1>2, <1>3, <1>4, <1>5

LEMMA ProxyStart == Init => ProxyInv
<1> SUFFICES ASSUME Init PROVE ProxyInv
    OBVIOUS
<1>1. conf \in Confs /\ mandate \subseteq Tools
    BY DEF Init
<1>2. /\ ask = None /\ pc = "idle" /\ sent = {} /\ wire = <<>> /\ source = NoSource /\ gate = NoGate
      /\ seen = NoSeen /\ ledger = {} /\ lost = {} /\ client = NoClient
    BY DEF Init
<1>3. attempts \in [Tools -> Nat]
    BY DEF Init
<1>4. ProxyTypeOK
    BY <1>1, <1>2, <1>3, StartTypes, EmptySeq DEF ProxyTypeOK, Places
<1>5. FreshOK /\ NothingYet /\ StreamOK /\ ClosingOK
    BY <1>2 DEF FreshOK, NothingYet, StreamOK, Streaming, ClosingOK
<1>6. EvidenceTold /\ ResultsTold /\ BlocksTold
    BY <1>2 DEF EvidenceTold, ResultsTold, BlocksTold, Streaming
<1>7. FramesGated /\ MessageIsWhole
    BY <1>2, StartTypes DEF FramesGated, MessageIsWhole
<1> QED
    BY <1>4, <1>5, <1>6, <1>7 DEF ProxyInv

\* The invariant reads neither the latch nor the mandate beyond their types.
LEMMA ElsewhereKeeps ==
    ASSUME ProxyInv, mandate' \subseteq Tools, attempts' \in [Tools -> Nat],
           UNCHANGED <<conf, ask, pc, sent, ledger, lost, client>>, UNCHANGED streamVars
    PROVE  ProxyInv'
<1>1. /\ conf' = conf /\ ask' = ask /\ pc' = pc /\ sent' = sent /\ ledger' = ledger /\ lost' = lost
      /\ client' = client /\ wire' = wire /\ source' = source /\ gate' = gate /\ seen' = seen
    BY DEF streamVars
<1>2. ProxyTypeOK'
    BY <1>1 DEF ProxyInv, ProxyTypeOK
<1>3. FreshOK' /\ NothingYet'
    BY <1>1 DEF ProxyInv, FreshOK, NothingYet
<1>4. Streaming' = Streaming /\ Coming' = Coming /\ WireOK' = WireOK /\ SourceOK' = SourceOK
    BY <1>1 DEF Streaming, Coming, WireOK, SourceOK
<1>5. \A i : Gated(i)' = Gated(i)
    BY <1>1 DEF Gated
<1>6. BlocksOK' = BlocksOK
    BY <1>1, <1>4, <1>5 DEF BlocksOK
<1>7. EndOK' = EndOK
    BY <1>1, <1>4 DEF EndOK
<1>8. SeenOK' = SeenOK
    BY <1>1 DEF SeenOK, Told
<1>9. StreamOK'
    BY <1>4, <1>6, <1>7, <1>8 DEF ProxyInv, StreamOK
<1>10. ClosingOK' /\ EvidenceTold'
    BY <1>1 DEF ProxyInv, ClosingOK, EvidenceTold, Told, EvidenceRows
<1>11. ResultsTold'
    BY <1>1, <1>4 DEF ProxyInv, ResultsTold, Told, RequestRows
<1>12. BlocksTold'
  <2>1. \A x : Told(x)' <=> Told(x)
      BY <1>1 DEF Told
  <2>2. BlocksTold
      BY DEF ProxyInv
  <2> QED
      BY <1>1, <2>1, <2>2, SMTT(30) DEF BlocksTold
<1>13. FramesGated' /\ MessageIsWhole'
    BY <1>1 DEF ProxyInv, FramesGated, MessageIsWhole
<1> QED
    BY <1>2, <1>3, <1>9, <1>10, <1>11, <1>12, <1>13 DEF ProxyInv

LEMMA ElsewhereInv ==
    ASSUME ProxyInv, NEW t \in Tools, Elsewhere(t)
    PROVE  ProxyInv'
<1>1. attempts \in [Tools -> Nat] /\ mandate \subseteq Tools
    BY DEF ProxyInv, ProxyTypeOK
<1>2. attempts' = [attempts EXCEPT ![t] = @ + 1] /\ mandate' = mandate
    BY DEF Elsewhere
<1>3. attempts' \in [Tools -> Nat]
    BY <1>1, <1>2
<1>4. UNCHANGED <<conf, ask, pc, sent, ledger, lost, client>> /\ UNCHANGED streamVars
    BY DEF Elsewhere
<1> QED
    BY <1>1, <1>2, <1>3, <1>4, ElsewhereKeeps

LEMMA RefreshInv ==
    ASSUME ProxyInv, NEW m \in SUBSET Tools, Refresh(m)
    PROVE  ProxyInv'
<1>1. attempts' \in [Tools -> Nat] /\ mandate' \subseteq Tools
    BY DEF Refresh
<1>2. UNCHANGED <<conf, ask, pc, sent, ledger, lost, client>> /\ UNCHANGED streamVars
    BY DEF Refresh
<1> QED
    BY <1>1, <1>2, ElsewhereKeeps

\* A step before the upstream, for all but what it tells.
FreshPlaces == {"idle", "arrived", "checked", "optimised", "upstream"}
LEMMA FreshMoves ==
    ASSUME ProxyInv, pc \in FreshPlaces, pc' \in FreshPlaces \cup {"answered"},
           UNCHANGED proxyVars, UNCHANGED streamVars, ask' \in Asks,
           \/ client' = client
           \/ pc' = "answered" /\ \E s \in {200, 400, 401, 403, 429, 500, 502, 503} :
                                     client' = [client EXCEPT !.status = s],
           NothingYet', EvidenceTold', ResultsTold'
    PROVE  ProxyInv'
<1>1. /\ conf' = conf /\ mandate' = mandate /\ attempts' = attempts
      /\ wire' = wire /\ source' = source /\ gate' = gate /\ seen' = seen
    BY DEF streamVars, proxyVars
<1>2. /\ client = NoClient /\ source = NoSource /\ gate = NoGate /\ seen = NoSeen /\ wire = <<>>
    BY DEF ProxyInv, FreshOK, FreshPlaces
<1>3. conf \in Confs /\ mandate \subseteq Tools /\ attempts \in [Tools -> Nat]
    BY DEF ProxyInv, ProxyTypeOK
<1>4. /\ client' \in ClientSet /\ DOMAIN client'.blocks = {} /\ client'.open = {} /\ client'.stop = None
      /\ pc' = "answered" \/ client' = NoClient
  <2>1. CASE client' = client
      BY <1>2, <2>1, StartTypes
  <2>2. CASE pc' = "answered" /\ \E s \in {200, 400, 401, 403, 429, 500, 502, 503} :
                                     client' = [client EXCEPT !.status = s]
    <3>1. PICK s \in {200, 400, 401, 403, 429, 500, 502, 503} : client' = [client EXCEPT !.status = s]
        BY <2>2
    <3>2. NoClient \in ClientSet
        BY StartTypes
    <3>3. /\ [NoClient EXCEPT !.status = s] \in ClientSet
          /\ [NoClient EXCEPT !.status = s].blocks = NoClient.blocks
          /\ [NoClient EXCEPT !.status = s].open = NoClient.open
          /\ [NoClient EXCEPT !.status = s].stop = NoClient.stop
        BY <3>2 DEF ClientSet, Statuses
    <3> QED
        BY <1>2, <2>2, <3>1, <3>3, StartTypes
  <2> QED
      BY <2>1, <2>2
<1>5. pc' \in Places /\ ~(pc' \in {"stream", "yielded", "feed"}) /\ pc' # "closing"
    BY DEF Places, FreshPlaces
<1>6. ProxyTypeOK'
    BY <1>1, <1>2, <1>3, <1>4, <1>5, StartTypes, EmptySeq DEF ProxyTypeOK
<1>7. FreshOK'
    BY <1>1, <1>2, <1>4 DEF FreshOK
<1>8. StreamOK' /\ ClosingOK'
    BY <1>5 DEF StreamOK, Streaming, ClosingOK
<1>9. BlocksTold'
    BY <1>1, <1>2, <1>4, StartTypes DEF BlocksTold
<1>10. FramesGated' /\ MessageIsWhole'
    BY <1>1, <1>2, <1>4, StartTypes DEF FramesGated, MessageIsWhole
<1> QED
    BY <1>6, <1>7, <1>8, <1>9, <1>10 DEF ProxyInv

\* Nothing is written, and what was to be told was.
LEMMA StillTold ==
    ASSUME ProxyInv, UNCHANGED <<conf, ask, ledger, lost>>,
           pc \notin {"idle", "arrived", "answered"}, pc' \notin {"idle", "arrived"},
           pc' \in {"checked", "optimised"} => pc \in {"checked", "optimised"}
    PROVE  NothingYet' /\ EvidenceTold'
<1>1. conf' = conf /\ ask' = ask /\ ledger' = ledger /\ lost' = lost
    OBVIOUS
<1>2. NothingYet'
    BY <1>1 DEF ProxyInv, NothingYet
<1>3. EvidenceTold'
    BY <1>1 DEF ProxyInv, EvidenceTold, EvidenceRows, Told
<1> QED
    BY <1>2, <1>3

\* What a write leaves.
LEMMA WriteIs ==
    ASSUME NEW rows, NEW ok \in SUBSET rows, Write(rows, ok)
    PROVE  /\ ledger \subseteq ledger' /\ lost \subseteq lost' /\ lost' \subseteq lost \cup rows
           /\ conf.recorder => rows \subseteq ledger' \cup lost'
           /\ conf.recorder /\ conf.strict /\ ~Raised(rows, ok) => lost' = lost
BY DEF Write, Raised

LEMMA ArriveInv == ASSUME ProxyInv, NEW a \in Asks, Arrive(a) PROVE ProxyInv'
<1>1. /\ pc = "idle" /\ pc' = "arrived" /\ ask' = a
      /\ UNCHANGED <<sent, ledger, lost, client>> /\ UNCHANGED proxyVars /\ UNCHANGED streamVars
    BY DEF Arrive
<1>2. sent' = {} /\ ledger' = {} /\ lost' = {}
    BY <1>1 DEF ProxyInv, NothingYet
<1>3. NothingYet' /\ EvidenceTold' /\ ResultsTold'
    BY <1>1, <1>2 DEF NothingYet, EvidenceTold, ResultsTold, Streaming
<1>4. pc \in FreshPlaces /\ pc' \in FreshPlaces \cup {"answered"}
    BY <1>1 DEF FreshPlaces
<1> QED
    BY <1>1, <1>3, <1>4, FreshMoves

LEMMA UnauthorisedInv == ASSUME ProxyInv, Unauthorised PROVE ProxyInv'
<1>1. /\ pc = "arrived" /\ pc' = "answered" /\ client' = [client EXCEPT !.status = 401]
      /\ UNCHANGED <<ask, sent, ledger, lost>> /\ UNCHANGED proxyVars /\ UNCHANGED streamVars
    BY DEF Unauthorised, Answer
<1>2. sent' = {} /\ ask' \in Asks
    BY <1>1 DEF ProxyInv, NothingYet, ProxyTypeOK
<1>3. NothingYet' /\ EvidenceTold' /\ ResultsTold'
    BY <1>1, <1>2 DEF NothingYet, EvidenceTold, ResultsTold, Streaming
<1>4. pc \in FreshPlaces /\ pc' \in FreshPlaces \cup {"answered"}
    BY <1>1 DEF FreshPlaces
<1> QED
    BY <1>1, <1>2, <1>3, <1>4, FreshMoves

LEMMA GuardSkippedInv == ASSUME ProxyInv, GuardSkipped PROVE ProxyInv'
<1>1. /\ pc = "arrived" /\ pc' = "checked" /\ (conf.guard = "off" \/ ask.body = "none")
      /\ UNCHANGED <<ask, sent, ledger, lost, client>> /\ UNCHANGED proxyVars /\ UNCHANGED streamVars
    BY DEF GuardSkipped
<1>2. lost' = {} /\ ask' \in Asks
    BY <1>1 DEF ProxyInv, NothingYet, ProxyTypeOK
<1>3. conf' = conf
    BY <1>1 DEF proxyVars
<1>4. NothingYet' /\ EvidenceTold' /\ ResultsTold'
    BY <1>1, <1>2, <1>3 DEF NothingYet, EvidenceTold, ResultsTold, Streaming
<1>5. pc \in FreshPlaces /\ pc' \in FreshPlaces \cup {"answered"}
    BY <1>1 DEF FreshPlaces
<1> QED
    BY <1>1, <1>2, <1>4, <1>5, FreshMoves

LEMMA GuardInv == ASSUME ProxyInv, Guard PROVE ProxyInv'
<1> DEFINE rows == EvidenceRows
<1>1. PICK ok \in SUBSET rows :
         /\ Write(rows, ok)
         /\ IF Raised(rows, ok) THEN Answer(503) /\ UNCHANGED form
            ELSE IF Blocked THEN Answer(403) /\ UNCHANGED form
            ELSE pc' = "checked" /\ form' = Guarded /\ UNCHANGED client
    BY DEF Guard
<1>2. pc = "arrived" /\ UNCHANGED <<ask, sent>> /\ UNCHANGED proxyVars /\ UNCHANGED streamVars
    BY DEF Guard
<1>3. sent = {} /\ sent' = {} /\ lost = {} /\ ask' \in Asks /\ conf' = conf /\ ask' = ask
    BY <1>2 DEF ProxyInv, NothingYet, ProxyTypeOK, proxyVars
<1>4. rows' = rows /\ rows \subseteq {<<"evidence", 0>>}
    BY <1>3 DEF EvidenceRows
<1> HIDE DEF rows
<1>5. /\ lost' \subseteq rows /\ (conf.recorder => rows \subseteq ledger' \cup lost')
      /\ conf.recorder /\ conf.strict /\ ~Raised(rows, ok) => lost' = {}
    BY <1>1, <1>3, WriteIs
<1>6. pc \in FreshPlaces
    BY <1>2 DEF FreshPlaces
<1>7. CASE pc' = "answered" /\ \E s \in {403, 503} : client' = [client EXCEPT !.status = s]
  <2>1. NothingYet' /\ EvidenceTold' /\ ResultsTold'
      BY <1>3, <1>7 DEF NothingYet, EvidenceTold, ResultsTold, Streaming
  <2> QED
      BY <1>2, <1>3, <1>6, <1>7, <2>1, FreshMoves
<1>8. CASE pc' = "checked" /\ client' = client /\ ~Raised(rows, ok)
  <2>1. <<"result", 0>> \notin lost'
      BY <1>4, <1>5
  <2>2. NothingYet' /\ ResultsTold'
      BY <1>8, <2>1 DEF NothingYet, ResultsTold, Streaming
  <2>3. EvidenceTold'
    <3>1. conf.recorder => \A x \in rows : x \in ledger' \cup lost'
        BY <1>5
    <3>2. conf.recorder /\ conf.strict => <<"evidence", 0>> \notin lost'
        BY <1>5, <1>8
    <3>3. EvidenceRows' = rows
        BY <1>4 DEF rows
    <3> QED
        BY <1>3, <3>1, <3>2, <3>3 DEF EvidenceTold, Told
  <2>4. pc' \in FreshPlaces
      BY <1>8 DEF FreshPlaces
  <2> QED
      BY <1>2, <1>3, <1>6, <1>8, <2>2, <2>3, <2>4, FreshMoves
<1> QED
    BY <1>1, <1>7, <1>8 DEF Answer

\* The steps that answer a request, or pass it on, and write nothing.
LEMMA AnswersInv ==
    ASSUME ProxyInv, pc \in {"checked", "upstream"}, UNCHANGED <<ask, ledger, lost>>,
           UNCHANGED proxyVars, UNCHANGED streamVars,
           NEW s \in {200, 400, 429, 500, 502}, Answer(s)
    PROVE  ProxyInv'
<1>1. pc' = "answered" /\ client' = [client EXCEPT !.status = s] /\ conf' = conf
    BY DEF Answer, proxyVars
<1>2. NothingYet' /\ EvidenceTold'
    BY <1>1, StillTold
<1>3. ResultsTold' /\ ask' \in Asks
    BY <1>1 DEF ResultsTold, Streaming, ProxyInv, ProxyTypeOK
<1>4. pc \in FreshPlaces /\ pc' \in FreshPlaces \cup {"answered"}
    BY <1>1 DEF FreshPlaces
<1> QED
    BY <1>1, <1>2, <1>3, <1>4, FreshMoves

LEMMA RelayedInv ==
    ASSUME ProxyInv, NotAMessage \/ Estimate \/ PassThrough \/ UpstreamRefuses
    PROVE  ProxyInv'
<1>1. /\ pc \in {"checked", "upstream"} /\ UNCHANGED <<ask, ledger, lost>>
      /\ UNCHANGED proxyVars /\ UNCHANGED streamVars
    BY DEF NotAMessage, Estimate, PassThrough, UpstreamRefuses
<1>2. \E s \in {200, 400, 429, 500, 502} : Answer(s)
    BY DEF NotAMessage, Estimate, PassThrough, UpstreamRefuses
<1> QED
    BY <1>1, <1>2, AnswersInv

LEMMA BridgeInv == ASSUME ProxyInv, Bridge PROVE ProxyInv'
<1>1. /\ pc = "checked" /\ ask.compat /\ UNCHANGED <<ask, ledger, lost>>
      /\ UNCHANGED proxyVars /\ UNCHANGED streamVars
      /\ Answer(500) \/ (pc' = "upstream" /\ client' = client)
    BY DEF Bridge, IsMessage
<1>2. CASE Answer(500)
    BY <1>1, <1>2, AnswersInv
<1>3. CASE pc' = "upstream" /\ client' = client
  <2>1. conf' = conf /\ ask' \in Asks
      BY <1>1 DEF proxyVars, ProxyInv, ProxyTypeOK
  <2>2. NothingYet' /\ EvidenceTold'
      BY <1>1, <1>3, <2>1, StillTold
  <2>3. ResultsTold'
      BY <1>1 DEF ResultsTold
  <2>4. pc \in FreshPlaces /\ pc' \in FreshPlaces
      BY <1>1, <1>3 DEF FreshPlaces
  <2> QED
      BY <1>1, <1>3, <2>1, <2>2, <2>3, <2>4, FreshMoves
<1> QED
    BY <1>1, <1>2, <1>3

LEMMA OptimiseInv == ASSUME ProxyInv, NEW s \in BOOLEAN, Optimise(s) PROVE ProxyInv'
<1>1. /\ pc = "checked" /\ pc' = "optimised" /\ UNCHANGED <<ask, ledger, lost, client>>
      /\ UNCHANGED proxyVars /\ UNCHANGED streamVars
    BY DEF Optimise, IsMessage
<1>2. conf' = conf /\ ask' \in Asks
    BY <1>1 DEF proxyVars, ProxyInv, ProxyTypeOK
<1>3. NothingYet' /\ EvidenceTold'
    BY <1>1, <1>2, StillTold
<1>4. ResultsTold'
    BY <1>1 DEF ResultsTold, Streaming
<1>5. pc \in FreshPlaces /\ pc' \in FreshPlaces
    BY <1>1 DEF FreshPlaces
<1> QED
    BY <1>1, <1>2, <1>3, <1>4, <1>5, FreshMoves

LEMMA SendUpstreamInv == ASSUME ProxyInv, SendUpstream PROVE ProxyInv'
<1> DEFINE rows == RequestRows
<1>1. PICK ok \in SUBSET rows :
         /\ Write(rows, ok)
         /\ IF Raised(rows, ok) THEN Answer(503) /\ UNCHANGED sent
            ELSE pc' = "upstream" /\ sent' = sent \cup {form} /\ UNCHANGED client
    BY DEF SendUpstream
<1>2. pc = "optimised" /\ UNCHANGED <<ask>> /\ UNCHANGED proxyVars /\ UNCHANGED streamVars
    BY DEF SendUpstream
<1>3. ask' = ask /\ ask \in Asks /\ conf' = conf /\ <<"result", 0>> \notin lost
    BY <1>2 DEF ProxyInv, NothingYet, ProxyTypeOK, proxyVars
<1>4. rows' = rows /\ rows \subseteq {<<"result", 0>>}
    BY <1>3 DEF RequestRows
<1> HIDE DEF rows
<1>5. /\ ledger \subseteq ledger' /\ lost \subseteq lost' /\ lost' \subseteq lost \cup rows
      /\ conf.recorder => rows \subseteq ledger' \cup lost'
      /\ conf.recorder /\ conf.strict /\ ~Raised(rows, ok) => lost' = lost
    BY <1>1, WriteIs
<1>6. pc' \in {"answered", "upstream"}
    BY <1>1 DEF Answer
<1>7. EvidenceTold'
  <2>1. conf.recorder => /\ conf.guard # "off" /\ ask.body # "none" => \A x \in EvidenceRows : Told(x)
                         /\ conf.strict => <<"evidence", 0>> \notin lost
      BY <1>2 DEF ProxyInv, EvidenceTold
  <2>2. \A x : Told(x) => x \in ledger' \cup lost'
      BY <1>5 DEF Told
  <2>3. <<"evidence", 0>> \notin rows
      BY <1>4
  <2>4. EvidenceRows' = EvidenceRows
      BY <1>3 DEF EvidenceRows
  <2>5. <<"evidence", 0>> \in lost' => <<"evidence", 0>> \in lost
      BY <1>5, <2>3
  <2> QED
      BY <1>3, <2>1, <2>2, <2>4, <2>5 DEF EvidenceTold, Told
<1>8. pc \in FreshPlaces /\ pc' \in FreshPlaces \cup {"answered"}
    BY <1>2, <1>6 DEF FreshPlaces
<1>9. NothingYet'
    BY <1>6 DEF NothingYet
<1>10. CASE Raised(rows, ok)
  <2>1. pc' = "answered" /\ client' = [client EXCEPT !.status = 503]
      BY <1>1, <1>10 DEF Answer
  <2>2. ResultsTold'
      BY <2>1 DEF ResultsTold, Streaming
  <2> QED
      BY <1>2, <1>3, <1>7, <1>8, <1>9, <2>1, <2>2, FreshMoves
<1>11. CASE ~Raised(rows, ok)
  <2>1. pc' = "upstream" /\ client' = client
      BY <1>1, <1>11
  <2>2. RequestRows' = rows
      BY <1>4 DEF rows
  <2>3. ResultsTold'
      BY <1>3, <1>5, <1>11, <2>2 DEF ResultsTold, Told
  <2> QED
      BY <1>2, <1>3, <1>7, <1>8, <1>9, <2>1, <2>3, FreshMoves
<1> QED
    BY <1>10, <1>11

-----------------------------------------------------------------------------
(* An answer in one body, and a stream that opens.                         *)

\* Rows about blocks take nothing from what was told before.
LEMMA RowsKeep ==
    ASSUME ProxyInv, NEW rows, NEW ok \in SUBSET rows, Write(rows, ok),
           <<"evidence", 0>> \notin rows, <<"result", 0>> \notin rows,
           UNCHANGED <<conf, ask, sent>>, pc \notin {"idle", "arrived", "answered"},
           Streaming' \/ pc' = "upstream" => Streaming \/ pc = "upstream"
    PROVE  EvidenceTold' /\ ResultsTold'
<1>1. /\ ledger \subseteq ledger' /\ lost \subseteq lost' /\ lost' \subseteq lost \cup rows
    BY WriteIs
<1>2. \A x : Told(x) => x \in ledger' \cup lost'
    BY <1>1 DEF Told
<1>3. /\ <<"evidence", 0>> \in lost' => <<"evidence", 0>> \in lost
      /\ <<"result", 0>> \in lost' => <<"result", 0>> \in lost
    BY <1>1
<1>4. EvidenceRows' = EvidenceRows /\ RequestRows' = RequestRows /\ conf' = conf /\ ask' = ask
    BY DEF EvidenceRows, RequestRows
<1>5. EvidenceTold'
  <2>1. conf.recorder => /\ conf.guard # "off" /\ ask.body # "none" => \A x \in EvidenceRows : Told(x)
                         /\ conf.strict => <<"evidence", 0>> \notin lost
      BY DEF ProxyInv, EvidenceTold
  <2> QED
      BY <1>2, <1>3, <1>4, <2>1 DEF EvidenceTold, Told
<1>6. ResultsTold'
  <2>1. CASE ~(Streaming' \/ pc' = "upstream")
      BY <2>1 DEF ResultsTold
  <2>2. CASE Streaming \/ pc = "upstream"
    <3>1. conf.recorder /\ ~ask.compat => /\ \A x \in RequestRows : Told(x)
                                          /\ conf.strict => <<"result", 0>> \notin lost
        BY <2>2 DEF ProxyInv, ResultsTold
    <3> QED
        BY <1>2, <1>3, <1>4, <3>1 DEF ResultsTold, Told
  <2> QED
      BY <2>1, <2>2
<1> QED
    BY <1>5, <1>6

\* Nothing is written.
LEMMA NoRowsKeep ==
    ASSUME ProxyInv, UNCHANGED <<conf, ask, sent, ledger, lost>>, pc \notin {"idle", "arrived", "answered"},
           Streaming' \/ pc' = "upstream" => Streaming \/ pc = "upstream"
    PROVE  EvidenceTold' /\ ResultsTold'
<1>1. Write({}, {})
    BY DEF Write, Writable
<1> QED
    BY <1>1, RowsKeep

\* A content delivered whole.
LEMMA DeliveredIs ==
    ASSUME NEW out \in Seq(Shown), NEW stop \in {"tool_use", "end_turn"}
    PROVE  /\ Delivered(out, stop) \in ClientSet
           /\ DOMAIN Delivered(out, stop).blocks = 0..(Len(out) - 1)
           /\ \A i \in 0..(Len(out) - 1) : Delivered(out, stop).blocks[i] = out[i + 1]
           /\ Delivered(out, stop).open = {} /\ Delivered(out, stop).stop = stop
           /\ Delivered(out, stop).status = 200
<1> DEFINE L == Len(out)
           b == [i \in 0..(L - 1) |-> out[i + 1]]
<1>1. L \in Nat /\ \A j \in 1..L : out[j] \in Shown
    BY LenProperties
<1>2. Delivered(out, stop) = [status |-> 200, open |-> {}, blocks |-> b, stop |-> stop,
                               tail |-> None]
    BY DEF Delivered
<1> HIDE DEF L
<1>3. b \in [0..(L - 1) -> Shown]
  <2>1. \A i \in 0..(L - 1) : i + 1 \in 1..L
      BY <1>1
  <2> QED
      BY <1>1, <2>1
<1>4. 0..(L - 1) \in SUBSET Nat
    BY <1>1
<1>5. b \in PartialMaps(Shown)
    BY <1>3, <1>4 DEF PartialMaps
<1>6. DOMAIN b = 0..(L - 1) /\ \A i \in 0..(L - 1) : b[i] = out[i + 1]
    OBVIOUS
<1> HIDE DEF b
<1>7. Delivered(out, stop) \in ClientSet
    BY <1>2, <1>5 DEF ClientSet, Statuses, Ends
<1> QED
    BY <1>2, <1>6, <1>7 DEF L

LEMMA BodyInv == ASSUME ProxyInv, NEW blocks \in Bodies, Body(blocks) PROVE ProxyInv'
<1> DEFINE rows == IF ask.compat THEN {} ELSE ResponseRows(blocks)
           e == EnforceBody(blocks)
           survivors == \E i \in 1..Len(e.out) : IsTool(e.out[i])
           stop == StopReason(blocks)
           last == IF ~survivors /\ e.out # blocks THEN "end_turn" ELSE stop
           L == Len(blocks)
           said == [i \in 0..(L - 1) |-> e.said[i + 1]]
<1>1. PICK ok \in SUBSET rows :
          /\ Write(rows, ok)
          /\ source' = [source EXCEPT !.next = L, !.kinds = blocks]
          /\ IF Raised(rows, ok)
             THEN Answer(503) /\ UNCHANGED <<attempts, gate>>
             ELSE /\ pc' = "answered"
                  /\ IF ~Enforced
                     THEN client' = Delivered(blocks, stop) /\ UNCHANGED <<attempts, gate>>
                     ELSE /\ attempts' = e.att
                          /\ gate' = [gate EXCEPT !.decided = said]
                          /\ client' = Delivered(e.out, last)
    BY DEF Body
<1>2. /\ pc = "upstream" /\ ~ask.stream
      /\ conf' = conf /\ mandate' = mandate /\ ask' = ask /\ sent' = sent /\ wire' = wire /\ seen' = seen
    BY DEF Body
<1>3. /\ client = NoClient /\ source = NoSource /\ gate = NoGate /\ seen = NoSeen /\ wire = <<>>
      /\ conf \in Confs /\ mandate \subseteq Tools /\ attempts \in [Tools -> Nat] /\ ask \in Asks
    BY <1>2 DEF ProxyInv, FreshOK, ProxyTypeOK
<1>4. pc' = "answered"
    BY <1>1 DEF Answer
<1>5. blocks \in Seq(Kinds)
  <2>1. PICK n \in 0..MaxBlocks : blocks \in [1..n -> Kinds]
      BY DEF Bodies
  <2>2. n \in Nat
      BY <1>3, ConfIs
  <2> QED
      BY <2>1, <2>2, IsASeq
<1>6. L \in Nat /\ (\A j \in 1..L : blocks[j] \in Kinds) /\ blocks \in Seq(Shown)
  <2>1. Kinds \subseteq Shown
      BY DEF Shown
  <2> QED
      BY <1>5, <2>1, LenProperties
<1>7. /\ e.att \in [Tools -> Nat] /\ e.out \in Seq(Shown) /\ e.said \in Seq(Marks)
      /\ Len(e.out) = L /\ Len(e.said) = L
      /\ \A j \in 1..L : BlockSaid(blocks[j], e.out[j], e.said[j])
    BY <1>3, <1>5, EnforceBodyIs
<1>8. /\ stop \in {"tool_use", "end_turn"}
      /\ stop = "tool_use" <=> \E i \in 1..L : IsTool(blocks[i])
    BY DEF StopReason
<1>9. /\ "text" \notin Tools /\ "denial" \notin Tools
      /\ None # "tool_use" /\ None # "end_turn" /\ MaxBlocks \in Nat
    BY <1>3, ConfIs
<1>10. last \in {"tool_use", "end_turn"}
    BY <1>8
<1>11. last = "tool_use" <=> \E i \in 1..L : IsTool(e.out[i])
  <2>1. ASSUME NEW i \in 1..L, IsTool(e.out[i]) PROVE IsTool(blocks[i])
    <3>1. BlockSaid(blocks[i], e.out[i], e.said[i])
        BY <1>7
    <3> QED
        BY <1>9, <2>1, <3>1 DEF BlockSaid, IsTool
  <2>2. survivors => stop = "tool_use"
      BY <1>7, <1>8, <2>1
  <2>3. ~survivors /\ e.out = blocks => stop # "tool_use"
      BY <1>7, <1>8
  <2> HIDE DEF e, stop
  <2> QED
      BY <1>7, <1>8, <2>2, <2>3
<1>12. rows \subseteq {<<"block", i>> : i \in Int}
      /\ (~ask.compat => \A i \in 0..(L - 1) : <<"block", i>> \in rows)
  <2>1. ASSUME NEW i \in 0..(L - 1) PROVE <<"block", i>> \in ResponseRows(blocks)
    <3>1. i + 1 \in 1..L /\ i = (i + 1) - 1
        BY <1>6
    <3> QED
        BY <3>1 DEF ResponseRows
  <2>2. ResponseRows(blocks) \subseteq {<<"block", i>> : i \in Int}
    <3>1. \A i \in 1..L : i - 1 \in Int
        BY <1>6
    <3> QED
        BY <3>1 DEF ResponseRows
  <2> QED
      BY <2>1, <2>2
<1> HIDE DEF rows, stop, last, L, said
<1>13. /\ said \in PartialMaps(Marks) /\ DOMAIN said = 0..(L - 1)
       /\ \A i \in 0..(L - 1) : said[i] = e.said[i + 1]
  <2>1. \A i \in 0..(L - 1) : i + 1 \in 1..L
      BY <1>6
  <2>2. \A j \in 1..L : e.said[j] \in Marks
      BY <1>7, LenProperties
  <2>3. said \in [0..(L - 1) -> Marks]
      BY <2>1, <2>2 DEF said
  <2>4. 0..(L - 1) \in SUBSET Nat
      BY <1>6
  <2> QED
      BY <2>3, <2>4 DEF PartialMaps, said
<1> HIDE DEF e
<1>14. /\ source' \in SourceSet /\ source'.next = L /\ source'.phase = "start"
  <2>1. NoSource \in SourceSet /\ NoSource.phase = "start"
      BY StartTypes
  <2> QED
      BY <1>1, <1>3, <1>5, <1>6, <2>1 DEF SourceSet
<1>15. EvidenceTold' /\ ResultsTold'
  <2>1. <<"evidence", 0>> \notin rows /\ <<"result", 0>> \notin rows
      BY <1>12
  <2> QED
      BY <1>1, <1>2, <1>4, <2>1, RowsKeep DEF Streaming
<1>16. conf.recorder => rows \subseteq ledger' \cup lost'
    BY <1>1, WriteIs
<1>17. FreshOK' /\ NothingYet' /\ StreamOK' /\ ClosingOK'
    BY <1>4 DEF FreshOK, NothingYet, StreamOK, Streaming, ClosingOK
\* Nothing comes of it when the record fails.
<1>18. CASE Raised(rows, ok)
  <2>1. client' = [client EXCEPT !.status = 503] /\ attempts' = attempts /\ gate' = gate
      BY <1>1, <1>18 DEF Answer
  <2>2. NoClient \in ClientSet /\ NoGate \in GateSet /\ NoSeen \in SeenSet /\ DOMAIN NoClient.blocks = {}
        /\ NoClient.stop = None
      BY StartTypes
  <2>3. /\ client' \in ClientSet /\ client'.status = 503 /\ DOMAIN client'.blocks = {} /\ client'.stop = None
      BY <1>3, <2>1, <2>2 DEF ClientSet, Statuses
  <2>4. ProxyTypeOK'
      BY <1>2, <1>3, <1>4, <1>14, <2>1, <2>2, <2>3, EmptySeq DEF ProxyTypeOK, Places
  <2>5. BlocksTold' /\ FramesGated' /\ MessageIsWhole'
      BY <2>3 DEF BlocksTold, FramesGated, MessageIsWhole
  <2> QED
      BY <1>15, <1>17, <2>4, <2>5 DEF ProxyInv
\* What is delivered, decided and told.
<1>19. ASSUME NEW out \in Seq(Shown), NEW end \in {"tool_use", "end_turn"}, Len(out) = L,
              client' = Delivered(out, end), gate' \in GateSet, attempts' \in [Tools -> Nat],
              DOMAIN gate'.decided \subseteq 0..(L - 1),
              end = "tool_use" <=> \E i \in 1..L : IsTool(out[i]),
              FramesGated'
       PROVE  ProxyInv'
  <2>1. /\ client' \in ClientSet /\ DOMAIN client'.blocks = 0..(L - 1)
        /\ \A i \in 0..(L - 1) : client'.blocks[i] = out[i + 1]
        /\ client'.open = {} /\ client'.stop = end
      BY <1>19, DeliveredIs
  <2>2. ProxyTypeOK'
    <3>1. NoSeen \in SeenSet
        BY StartTypes
    <3> QED
        BY <1>2, <1>3, <1>4, <1>14, <1>19, <2>1, <3>1, EmptySeq DEF ProxyTypeOK, Places
  <2>3. BlocksTold'
    <3>1. \A i \in (DOMAIN client'.blocks \ client'.open) \cup DOMAIN gate'.decided : i \in 0..(L - 1)
        BY <1>19, <2>1
    <3>2. conf.recorder /\ ~ask.compat =>
             \A i \in (DOMAIN client'.blocks \ client'.open) \cup DOMAIN gate'.decided :
                  <<"block", i>> \in ledger' \cup lost'
        BY <1>12, <1>16, <3>1
    <3> QED
        BY <1>2, <2>1, <3>2 DEF BlocksTold, Told
  <2>4. MessageIsWhole'
    <3>1. \A i \in 0..(L - 1) : i + 1 \in 1..L
        BY <1>6
    <3>2. \A i \in 1..L : i - 1 \in 0..(L - 1) /\ (i - 1) + 1 = i
        BY <1>6
    <3>3. end = "tool_use" => \E i \in 0..(L - 1) : IsTool(client'.blocks[i])
        BY <1>19, <2>1, <3>2
    <3>4. end # "tool_use" => \A i \in 0..(L - 1) : ~IsTool(client'.blocks[i])
        BY <1>19, <2>1, <3>1
    <3> QED
        BY <1>14, <2>1, <3>3, <3>4 DEF MessageIsWhole
  <2> QED
      BY <1>15, <1>17, <1>19, <2>2, <2>3, <2>4 DEF ProxyInv
<1>20. CASE ~Raised(rows, ok) /\ ~Enforced
  <2>1. client' = Delivered(blocks, stop) /\ attempts' = attempts /\ gate' = gate
      BY <1>1, <1>20
  <2>2. gate' \in GateSet /\ DOMAIN gate'.decided = {}
      BY <1>3, <2>1, StartTypes
  <2>3. FramesGated'
      BY <1>2, <1>20 DEF FramesGated, Enforced
  <2>4. Len(blocks) = L
      BY DEF L
  <2> QED
      BY <1>3, <1>6, <1>8, <1>19, <2>1, <2>2, <2>3, <2>4
<1>21. CASE ~Raised(rows, ok) /\ Enforced
  <2>1. client' = Delivered(e.out, last) /\ attempts' = e.att /\ gate' = [gate EXCEPT !.decided = said]
      BY <1>1, <1>21
  <2>2. gate' \in GateSet /\ gate'.decided = said
    <3>1. NoGate \in GateSet
        BY StartTypes
    <3> QED
        BY <1>3, <1>13, <2>1, <3>1 DEF GateSet
  <2>3. FramesGated'
    <3>1. /\ DOMAIN client'.blocks = 0..(L - 1)
          /\ \A i \in 0..(L - 1) : client'.blocks[i] = e.out[i + 1]
        BY <1>7, <1>10, <2>1, DeliveredIs
    <3>2. ASSUME NEW i \in 0..(L - 1), IsTool(client'.blocks[i])
          PROVE  i \in DOMAIN gate'.decided /\ gate'.decided[i] = "allow"
      <4>1. i + 1 \in 1..L
          BY <1>6
      <4>2. BlockSaid(blocks[i + 1], e.out[i + 1], e.said[i + 1])
          BY <1>7, <4>1
      <4>3. IsTool(e.out[i + 1]) /\ gate'.decided[i] = e.said[i + 1] /\ i \in DOMAIN gate'.decided
          BY <1>13, <2>2, <3>1, <3>2
      <4> QED
          BY <1>9, <4>2, <4>3 DEF BlockSaid, IsTool
    <3> QED
        BY <3>1, <3>2 DEF FramesGated
  <2> QED
      BY <1>7, <1>10, <1>11, <1>13, <1>19, <2>1, <2>2, <2>3
<1> QED
    BY <1>18, <1>20, <1>21

LEMMA OpensInv == ASSUME ProxyInv, Opens PROVE ProxyInv'
<1>1. /\ pc = "upstream" /\ pc' = "stream" /\ client' = [client EXCEPT !.status = 200]
      /\ wire' = IF ask.compat THEN <<MessageStart>> ELSE <<>>
      /\ source' = [NoSource EXCEPT !.phase = IF ask.compat THEN "blocks" ELSE "start"]
      /\ UNCHANGED <<ask, sent, gate, seen, ledger, lost>> /\ UNCHANGED proxyVars
    BY DEF Opens
<1>2. /\ client = NoClient /\ source = NoSource /\ gate = NoGate /\ seen = NoSeen
      /\ conf \in Confs /\ mandate \subseteq Tools /\ attempts \in [Tools -> Nat] /\ ask \in Asks
      /\ conf' = conf /\ mandate' = mandate /\ attempts' = attempts
    BY <1>1 DEF ProxyInv, FreshOK, ProxyTypeOK, proxyVars
<1>3. /\ client' \in ClientSet /\ DOMAIN client'.blocks = {} /\ client'.open = {} /\ client'.stop = None
  <2>1. NoClient \in ClientSet
      BY StartTypes
  <2>2. /\ [NoClient EXCEPT !.status = 200] \in ClientSet
        /\ [NoClient EXCEPT !.status = 200].blocks = NoClient.blocks
        /\ [NoClient EXCEPT !.status = 200].open = NoClient.open
        /\ [NoClient EXCEPT !.status = 200].stop = NoClient.stop
      BY <2>1 DEF ClientSet, Statuses
  <2> QED
      BY <1>1, <1>2, <2>2, StartTypes
<1>4. /\ source' \in SourceSet /\ source'.next = 0 /\ source'.open = {} /\ source'.kinds = <<>>
      /\ source'.tools = FALSE /\ source'.phase \in {"start", "blocks"}
    BY <1>1, EmptySeq DEF NoSource, SourceSet
<1>5. /\ wire' \in Seq(FrameSet) /\ WireShape(wire') /\ Started(wire') = {} /\ Stopped(wire') = {}
      /\ \A n \in DOMAIN wire' : wire'[n].type = "message_start"
  <2>1. CASE ask.compat
    <3>1. MessageStart \in FrameSet /\ MessageStart.type = "message_start"
        BY PlainFrames
    <3>2. wire' = <<MessageStart>>
        BY <1>1, <2>1
    <3> DEFINE f == MessageStart
    <3> HIDE DEF f
    <3>3. f \in FrameSet /\ f.type = "message_start"
        BY <3>1 DEF f
    <3>4. /\ <<f>> \in Seq(FrameSet) /\ DOMAIN <<f>> = {1} /\ <<f>>[1] = f /\ WireShape(<<f>>)
          /\ Started(<<f>>) = {} /\ Stopped(<<f>>) = {}
        BY <3>3, OneFrame
    <3> DEFINE v == <<f>>
    <3> HIDE DEF v
    <3>5. v \in Seq(FrameSet) /\ DOMAIN v = {1} /\ v[1] = f /\ WireShape(v)
          /\ Started(v) = {} /\ Stopped(v) = {}
        BY <3>4 DEF v
    <3>6. wire' = v
        BY <3>2 DEF v, f
    <3> QED
        BY <3>3, <3>5, <3>6
  <2>2. CASE ~ask.compat
      BY <1>1, <2>2, NoFrame
  <2> QED
      BY <2>1, <2>2
<1>6. gate' \in GateSet /\ DOMAIN gate'.decided = {} /\ gate'.held = {} /\ gate'.survivors = 0 /\ gate'.denied = 0
      /\ seen' \in SeenSet /\ seen'.open = {} /\ seen'.unfed = {} /\ seen'.stopped = FALSE
    BY <1>1, <1>2, StartTypes DEF NoGate, NoSeen
<1>7. ProxyTypeOK'
    BY <1>1, <1>2, <1>3, <1>4, <1>5, <1>6 DEF ProxyTypeOK, Places
<1>8. Coming' = wire'
    BY <1>1 DEF Coming
<1>9. WireOK'
    BY <1>1, <1>5 DEF WireOK
<1>10. SourceOK'
    BY <1>2, <1>4, ConfIs, EmptySeq DEF SourceOK
<1>11. BlocksOK'
  <2>1. 0..(source'.next - 1) = {}
      BY <1>4
  <2> QED
      BY <1>3, <1>4, <1>5, <1>6, <1>8, <2>1 DEF BlocksOK
<1>12. EndOK'
    BY <1>3, <1>4, <1>5, <1>8 DEF EndOK, Has
<1>13. SeenOK'
    BY <1>1, <1>3, <1>6 DEF SeenOK
<1>14. StreamOK'
    BY <1>9, <1>10, <1>11, <1>12, <1>13 DEF StreamOK
<1>15. EvidenceTold' /\ ResultsTold'
    BY <1>1, <1>2, NoRowsKeep
<1>16. FreshOK' /\ NothingYet' /\ ClosingOK' /\ BlocksTold'
    BY <1>1 DEF FreshOK, NothingYet, ClosingOK, BlocksTold
<1>17. FramesGated' /\ MessageIsWhole'
    BY <1>3 DEF FramesGated, MessageIsWhole
<1> QED
    BY <1>7, <1>14, <1>15, <1>16, <1>17 DEF ProxyInv

-----------------------------------------------------------------------------
(* The frames of a stream.                                                 *)

\* What is so between two frames of a stream.
LEMMA Between ==
    ASSUME ProxyInv, pc = "stream", wire = <<>>
    PROVE  /\ conf \in Confs /\ ask \in Asks /\ mandate \subseteq Tools /\ attempts \in [Tools -> Nat]
           /\ source \in SourceSet /\ gate \in GateSet /\ seen \in SeenSet /\ client \in ClientSet
           /\ SourceOK /\ BlocksOK /\ EndOK /\ SeenOK /\ Coming = <<>>
           /\ client.open \cup gate.held = source.open
           /\ DOMAIN client.blocks = 0..(source.next - 1) \ gate.held
           /\ source.phase \in {"start", "blocks"} => client.stop = None
           /\ source.phase = "delta" => source.open = {} /\ client.stop # None
<1>1. SourceOK /\ BlocksOK /\ EndOK /\ SeenOK
    BY DEF ProxyInv, StreamOK, Streaming
<1>2. Coming = <<>>
    BY DEF Coming
<1>3. Started(Coming) = {} /\ Stopped(Coming) = {} /\ \A type : ~Has(Coming, type)
    BY <1>2, NoFrame
<1>4. client.open \cup gate.held = source.open /\ DOMAIN client.blocks = 0..(source.next - 1) \ gate.held
    BY <1>1, <1>3 DEF BlocksOK
<1>5. /\ source.phase \in {"start", "blocks"} => client.stop = None
      /\ source.phase = "delta" => source.open = {} /\ client.stop # None
    BY <1>1, <1>3 DEF EndOK
<1> QED
    BY <1>1, <1>2, <1>4, <1>5 DEF ProxyInv, ProxyTypeOK

\* Frames are on their way.
LEMMA FramesInv ==
    ASSUME ProxyInv, pc = "stream", wire = <<>>, pc' = "stream",
           UNCHANGED <<ask, sent, gate, seen, ledger, lost, client>>, UNCHANGED proxyVars,
           wire' \in Seq(FrameSet), WireOK', source' \in SourceSet, SourceOK', EndOK', MessageIsWhole',
           (source'.open \ Started(wire')) \cup Stopped(wire') = source.open,
           0..(source'.next - 1) \ Started(wire') = 0..(source.next - 1),
           \A i \in 0..(source.next - 1) : source'.kinds[i + 1] = source.kinds[i + 1]
    PROVE  ProxyInv'
<1>1. /\ conf' = conf /\ mandate' = mandate /\ attempts' = attempts /\ ask' = ask /\ sent' = sent
      /\ gate' = gate /\ seen' = seen /\ ledger' = ledger /\ lost' = lost /\ client' = client
    BY DEF proxyVars
<1>2. /\ conf \in Confs /\ ask \in Asks /\ mandate \subseteq Tools /\ attempts \in [Tools -> Nat]
      /\ source \in SourceSet /\ gate \in GateSet /\ seen \in SeenSet /\ client \in ClientSet
      /\ SourceOK /\ BlocksOK /\ EndOK /\ SeenOK /\ Coming = <<>>
      /\ client.open \cup gate.held = source.open
      /\ DOMAIN client.blocks = 0..(source.next - 1) \ gate.held
    BY Between
<1>3. ProxyTypeOK'
    BY <1>1, <1>2 DEF ProxyTypeOK, Places
<1>4. Coming' = wire'
    BY DEF Coming
<1>5. source.open \subseteq 0..(source.next - 1)
    BY <1>2 DEF SourceOK
<1>6. \A i \in 0..(source.next - 1) : Gated(i)' = Gated(i)
    BY <1>1 DEF Gated
<1>7. BlocksOK'
  <2>1. client.open \cup gate.held = (source'.open \ Started(wire')) \cup Stopped(wire')
      BY <1>2
  <2>2. DOMAIN client.blocks = 0..(source'.next - 1) \ (Started(wire') \cup gate.held)
      BY <1>2
  <2>3. \A i \in gate.held \cup client.open \cup DOMAIN client.blocks : i \in 0..(source.next - 1)
      BY <1>2, <1>5
  <2>4. (\A i \in gate.held : Gated(i)') /\ (\A i \in client.open : ~Gated(i)')
      BY <1>2, <1>6, <2>3 DEF BlocksOK
  <2>5. ASSUME NEW i \in DOMAIN client.blocks
        PROVE  IF Gated(i)'
               THEN /\ i \in DOMAIN gate.decided
                    /\ \/ gate.decided[i] = "allow" /\ client.blocks[i] = source'.kinds[i + 1]
                       \/ gate.decided[i] = "deny" /\ client.blocks[i] = "denial"
               ELSE client.blocks[i] = source'.kinds[i + 1]
    <3>1. Gated(i)' = Gated(i) /\ source'.kinds[i + 1] = source.kinds[i + 1]
        BY <1>6, <2>3
    <3> QED
        BY <1>2, <3>1 DEF BlocksOK
  <2>6. /\ DOMAIN gate.decided \subseteq DOMAIN client.blocks
        /\ gate.survivors = 0 <=> \A i \in DOMAIN gate.decided : gate.decided[i] # "allow"
        /\ gate.denied = 0 <=> \A i \in DOMAIN gate.decided : gate.decided[i] # "deny"
      BY <1>2 DEF BlocksOK
  <2>7. \A i \in DOMAIN gate.decided : Gated(i)'
    <3>1. \A i \in DOMAIN gate.decided : Gated(i) /\ i \in 0..(source.next - 1)
        BY <1>2, <2>3, <2>6 DEF BlocksOK
    <3> QED
        BY <1>6, <3>1
  <2> QED
      BY <1>1, <1>4, <2>1, <2>2, <2>4, <2>5, <2>6, <2>7 DEF BlocksOK
<1>8. SeenOK'
    BY <1>1, <1>2 DEF SeenOK, Told
<1>9. StreamOK'
    BY <1>7, <1>8 DEF StreamOK
<1>10. EvidenceTold' /\ ResultsTold'
    BY <1>1, NoRowsKeep DEF Streaming
<1>11. FreshOK' /\ NothingYet' /\ ClosingOK' /\ BlocksTold'
    BY DEF FreshOK, NothingYet, ClosingOK, BlocksTold
<1>12. FramesGated'
    BY <1>1 DEF ProxyInv, FramesGated
<1> QED
    BY <1>3, <1>9, <1>10, <1>11, <1>12 DEF ProxyInv

\* One frame is on its way.
LEMMA EmitsInv ==
    ASSUME ProxyInv, NEW f \in FrameSet, NEW next \in SourceSet, Emits(f, next),
           f.type = "start" => f.i \in next.open /\ f.k = next.kinds[f.i + 1],
           f.type = "stop" => f.i < next.next /\ f.i \notin next.open,
           SourceOK', MessageIsWhole',
           next.phase \in {"start", "blocks"} =>
               client.stop = None /\ f.type \notin {"message_delta", "message_stop"},
           next.phase = "delta" => f.type = "message_delta",
           f.type = "message_delta" =>
               /\ client.stop = None /\ next.open = {} /\ next.phase = "delta"
               /\ f.stop = "tool_use" <=> next.tools,
           client.stop # None => next.phase = "stop" /\ f.type = "message_stop",
           f.type = "message_stop" => client.stop # None,
           (next.open \ (IF f.type = "start" THEN {f.i} ELSE {})) \cup (IF f.type = "stop" THEN {f.i} ELSE {})
               = source.open,
           0..(next.next - 1) \ (IF f.type = "start" THEN {f.i} ELSE {}) = 0..(source.next - 1),
           \A i \in 0..(source.next - 1) : next.kinds[i + 1] = source.kinds[i + 1]
    PROVE  ProxyInv'
<1>1. /\ pc = "stream" /\ wire = <<>> /\ pc' = "stream" /\ wire' = <<f>> /\ source' = next
      /\ UNCHANGED <<ask, sent, gate, seen, ledger, lost, client>> /\ UNCHANGED proxyVars
    BY DEF Emits
<1>2. /\ wire' \in Seq(FrameSet) /\ wire' # <<>> /\ DOMAIN wire' = {1} /\ wire'[1] = f
      /\ WireShape(wire')
      /\ Started(wire') = IF f.type = "start" THEN {f.i} ELSE {}
      /\ Stopped(wire') = IF f.type = "stop" THEN {f.i} ELSE {}
      /\ \A type : Has(wire', type) <=> f.type = type
  <2> DEFINE v == <<f>>
  <2>1. /\ v \in Seq(FrameSet) /\ v # <<>> /\ DOMAIN v = {1} /\ v[1] = f
        /\ WireShape(v)
        /\ Started(v) = IF f.type = "start" THEN {f.i} ELSE {}
        /\ Stopped(v) = IF f.type = "stop" THEN {f.i} ELSE {}
        /\ \A type : Has(v, type) <=> f.type = type
      BY OneFrame
  <2>2. wire' = v
      BY <1>1
  <2> HIDE DEF v
  <2> QED
      BY <2>1, <2>2
<1>3. Coming' = wire' /\ client' = client
    BY <1>1 DEF Coming
<1>4. WireOK'
    BY <1>1, <1>2 DEF WireOK
<1>5. EndOK'
  <2>1. ask' = ask
      BY <1>1
  <2>2. Has(wire', "message_delta") <=> f.type = "message_delta"
      BY <1>2
  <2>3. Has(wire', "message_stop") <=> f.type = "message_stop"
      BY <1>2
  <2> QED
      BY <1>1, <1>2, <1>3, <2>1, <2>2, <2>3 DEF EndOK
<1> QED
    BY <1>1, <1>2, <1>4, <1>5, FramesInv

LEMMA OpenBlockInv ==
    ASSUME ProxyInv, NEW k \in Kinds, pc = "stream", wire = <<>>,
           source.phase = "blocks", source.next < MaxBlocks,
           Emits(Start(source.next, k), OpenBlock(k))
    PROVE  ProxyInv'
<1> DEFINE f == Start(source.next, k)
           next == OpenBlock(k)
           N == source.next
<1>1. source \in SourceSet /\ SourceOK /\ client.stop = None
    BY Between
<1>2. N \in Nat /\ Len(source.kinds) = N /\ source.kinds \in Seq(Kinds) /\ MaxBlocks \in Nat
      /\ source.open \in SUBSET Nat /\ source.open \subseteq 0..(N - 1) /\ source.tools \in BOOLEAN
    BY <1>1, ConfIs DEF SourceOK, SourceSet, ProxyInv, ProxyTypeOK
<1>3. /\ next.next = N + 1 /\ next.open = source.open \cup {N} /\ next.kinds = Append(source.kinds, k)
      /\ next.tools = (source.tools \/ IsTool(k)) /\ next.phase = "blocks"
    BY <1>1 DEF OpenBlock, SourceSet
<1>4. /\ Append(source.kinds, k) \in Seq(Kinds) /\ Len(Append(source.kinds, k)) = N + 1
      /\ Append(source.kinds, k)[N + 1] = k
      /\ \A j \in 1..N : Append(source.kinds, k)[j] = source.kinds[j]
    BY <1>2, AppendProperties
<1>5. next \in SourceSet
  <2>1. N + 1 \in Nat /\ source.open \cup {N} \in SUBSET Nat
      BY <1>2
  <2>2. (source.tools \/ IsTool(k)) \in BOOLEAN
      BY DEF IsTool
  <2>3. next = [source EXCEPT !.next = N + 1, !.open = source.open \cup {N},
                              !.kinds = Append(source.kinds, k), !.tools = (source.tools \/ IsTool(k))]
      BY DEF OpenBlock
  <2>4. \A a \in Nat, b \in SUBSET Nat, c \in Seq(Kinds), d \in BOOLEAN :
            [source EXCEPT !.next = a, !.open = b, !.kinds = c, !.tools = d] \in SourceSet
      BY <1>1 DEF SourceSet
  <2> HIDE DEF next, N
  <2> QED
      BY <1>4, <2>1, <2>2, <2>3, <2>4
<1>6. f \in FrameSet /\ f.type = "start" /\ f.i = N /\ f.k = k
    BY <1>2, StartIs
<1>7. pc' = "stream" /\ wire' = <<f>> /\ source' = next /\ client' = client
    BY DEF Emits
<1>8. (N + 1) - 1 = N /\ 0..N = (0..(N - 1)) \cup {N} /\ N \notin 0..(N - 1)
    BY <1>2
<1> HIDE DEF f, next, N
<1>9. \A i \in 0..(N - 1) : next.kinds[i + 1] = source.kinds[i + 1]
  <2>1. \A i \in 0..(N - 1) : i + 1 \in 1..N
      BY <1>2
  <2> QED
      BY <1>3, <1>4, <2>1
<1>10. SourceOK'
  <2>1. next.next <= MaxBlocks /\ Len(next.kinds) = next.next /\ next.open \subseteq 0..(next.next - 1)
    <3>1. N < MaxBlocks
        BY DEF N
    <3> QED
        BY <1>2, <1>3, <1>4, <1>8, <3>1
  <2>2. source.tools <=> \E i \in 0..(N - 1) : IsTool(source.kinds[i + 1])
      BY <1>1 DEF SourceOK, N
  <2>3. next.tools <=> \E i \in 0..(next.next - 1) : IsTool(next.kinds[i + 1])
    <3>1. next.kinds[N + 1] = k
        BY <1>3, <1>4
    <3>2. next.next - 1 = N
        BY <1>3, <1>8
    <3> QED
        BY <1>3, <1>8, <1>9, <2>2, <3>1, <3>2
  <2> QED
      BY <1>7, <2>1, <2>3 DEF SourceOK
<1>11. MessageIsWhole'
    BY <1>1, <1>7 DEF MessageIsWhole
<1>12. N \in next.open /\ next.kinds[N + 1] = k
    BY <1>3, <1>4
<1>13. (next.open \ {N}) \cup {} = source.open
    BY <1>2, <1>3, <1>8
<1>14. 0..(next.next - 1) \ {N} = 0..(N - 1)
    BY <1>3, <1>8
<1>15. Emits(f, next)
    BY DEF f, next
<1> QED
    BY <1>1, <1>3, <1>5, <1>6, <1>9, <1>10, <1>11, <1>12, <1>13, <1>14, <1>15, EmitsInv DEF N

\* A frame that opens no block.
LEMMA OtherFrameInv ==
    ASSUME ProxyInv, pc = "stream", wire = <<>>, NEW f \in FrameSet, f.type # "start",
           NEW phase \in {"blocks", "delta", "stop"}, NEW open \in SUBSET source.open,
           Emits(f, [source EXCEPT !.phase = phase, !.open = open]),
           f.type = "stop" => f.i \in source.open,
           open = source.open \ (IF f.type = "stop" THEN {f.i} ELSE {}),
           phase = "blocks" => client.stop = None /\ f.type \notin {"message_delta", "message_stop"},
           phase = "delta" => f.type = "message_delta",
           f.type = "message_delta" =>
               /\ client.stop = None /\ source.open = {} /\ phase = "delta"
               /\ f.stop = "tool_use" <=> source.tools,
           client.stop # None => phase = "stop" /\ f.type = "message_stop",
           f.type = "message_stop" => client.stop # None
    PROVE  ProxyInv'
<1> DEFINE next == [source EXCEPT !.phase = phase, !.open = open]
<1>1. source \in SourceSet /\ SourceOK
    BY Between
<1>2. /\ next \in SourceSet /\ next.phase = phase /\ next.open = open /\ next.next = source.next
      /\ next.kinds = source.kinds /\ next.tools = source.tools
    BY <1>1 DEF SourceSet
<1>3. Emits(f, next)
    OBVIOUS
<1>4. pc' = "stream" /\ source' = next /\ client' = client /\ ask' = ask
    BY DEF Emits
<1>5. source.open \subseteq 0..(source.next - 1) /\ source.next \in Nat
    BY <1>1 DEF SourceOK, SourceSet
<1> HIDE DEF next
<1>6. SourceOK'
    BY <1>1, <1>2, <1>4 DEF SourceOK
<1>7. MessageIsWhole'
    BY <1>2, <1>4 DEF ProxyInv, MessageIsWhole
<1>8. f.type = "stop" => f.i < next.next /\ f.i \notin next.open
    BY <1>2, <1>5
<1>9. (next.open \ {}) \cup (IF f.type = "stop" THEN {f.i} ELSE {}) = source.open
    BY <1>2
<1>10. 0..(next.next - 1) \ {} = 0..(source.next - 1)
    BY <1>2
<1> QED
    BY <1>2, <1>3, <1>6, <1>7, <1>8, <1>9, <1>10, EmitsInv

LEMMA AnthropicStartsInv == ASSUME ProxyInv, AnthropicStarts PROVE ProxyInv'
<1>1. /\ source.phase = "start" /\ Emits(MessageStart, [source EXCEPT !.phase = "blocks"])
      /\ pc = "stream" /\ wire = <<>>
    BY DEF AnthropicStarts, Emits
<1>2. source \in SourceSet /\ client.stop = None
    BY <1>1, Between
<1>3. [source EXCEPT !.phase = "blocks"] = [source EXCEPT !.phase = "blocks", !.open = source.open]
    BY <1>2 DEF SourceSet
<1>4. Emits(MessageStart, [source EXCEPT !.phase = "blocks", !.open = source.open])
    BY <1>1, <1>3
<1> QED
    BY <1>1, <1>2, <1>4, PlainFrames, OtherFrameInv

LEMMA AnthropicBlockInv == ASSUME ProxyInv, NEW k \in Kinds, AnthropicBlock(k) PROVE ProxyInv'
<1>1. pc = "stream" /\ wire = <<>> /\ source.phase = "blocks" /\ source.next < MaxBlocks
      /\ Emits(Start(source.next, k), OpenBlock(k))
    BY DEF AnthropicBlock, Emits
<1> QED
    BY <1>1, OpenBlockInv

LEMMA AnthropicBlockEndsInv == ASSUME ProxyInv, NEW i, AnthropicBlockEnds(i) PROVE ProxyInv'
<1> DEFINE f == Stop(i)
           open == source.open \ {i}
<1>1. /\ source.phase = "blocks" /\ i \in source.open /\ Emits(f, [source EXCEPT !.open = open])
      /\ pc = "stream" /\ wire = <<>>
    BY DEF AnthropicBlockEnds, Emits
<1>2. source \in SourceSet /\ client.stop = None
    BY <1>1, Between
<1>3. i \in Nat
    BY <1>1, <1>2 DEF SourceSet
<1>4. f \in FrameSet /\ f.type = "stop" /\ f.i = i
    BY <1>3, StopIs
<1>5. [source EXCEPT !.open = open] = [source EXCEPT !.phase = "blocks", !.open = open]
    BY <1>1, <1>2 DEF SourceSet
<1>6. Emits(f, [source EXCEPT !.phase = "blocks", !.open = open])
    BY <1>1, <1>5
<1>7. open \in SUBSET source.open /\ open = source.open \ (IF f.type = "stop" THEN {f.i} ELSE {})
    BY <1>4
<1> HIDE DEF f, open
<1> QED
    BY <1>1, <1>2, <1>4, <1>6, <1>7, OtherFrameInv

LEMMA AnthropicEndsInv == ASSUME ProxyInv, AnthropicEnds PROVE ProxyInv'
<1> DEFINE stop == IF source.tools THEN "tool_use" ELSE "end_turn"
           f == MessageDelta(stop)
<1>1. /\ source.phase = "blocks" /\ source.open = {} /\ Emits(f, [source EXCEPT !.phase = "delta"])
      /\ pc = "stream" /\ wire = <<>>
    BY DEF AnthropicEnds, StopNow, Emits
<1>2. source \in SourceSet /\ client.stop = None
    BY <1>1, Between
<1>3. stop \in {"tool_use", "end_turn"} /\ (stop = "tool_use" <=> source.tools)
    OBVIOUS
<1> HIDE DEF stop
<1>4. f \in FrameSet /\ f.type = "message_delta" /\ f.stop = stop
    BY <1>3, DeltaIs
<1>5. [source EXCEPT !.phase = "delta"] = [source EXCEPT !.phase = "delta", !.open = source.open]
    BY <1>2 DEF SourceSet
<1>6. Emits(f, [source EXCEPT !.phase = "delta", !.open = source.open])
    BY <1>1, <1>5
<1> HIDE DEF f
<1> QED
    BY <1>1, <1>2, <1>3, <1>4, <1>6, OtherFrameInv

LEMMA AnthropicStopsInv == ASSUME ProxyInv, AnthropicStops PROVE ProxyInv'
<1>1. /\ source.phase = "delta" /\ Emits(MessageStop, [source EXCEPT !.phase = "stop"])
      /\ pc = "stream" /\ wire = <<>>
    BY DEF AnthropicStops, Emits
<1>2. source \in SourceSet /\ client.stop # None /\ source.open = {}
    BY <1>1, Between
<1>3. [source EXCEPT !.phase = "stop"] = [source EXCEPT !.phase = "stop", !.open = source.open]
    BY <1>2 DEF SourceSet
<1>4. Emits(MessageStop, [source EXCEPT !.phase = "stop", !.open = source.open])
    BY <1>1, <1>3
<1> QED
    BY <1>1, <1>2, <1>4, PlainFrames, OtherFrameInv

LEMMA AnthropicErrsInv == ASSUME ProxyInv, AnthropicErrs PROVE ProxyInv'
<1>1. /\ source.phase = "blocks" /\ Emits(ErrorFrame, [source EXCEPT !.phase = "stop"])
      /\ pc = "stream" /\ wire = <<>>
    BY DEF AnthropicErrs, Emits
<1>2. source \in SourceSet /\ client.stop = None
    BY <1>1, Between
<1>3. [source EXCEPT !.phase = "stop"] = [source EXCEPT !.phase = "stop", !.open = source.open]
    BY <1>2 DEF SourceSet
<1>4. Emits(ErrorFrame, [source EXCEPT !.phase = "stop", !.open = source.open])
    BY <1>1, <1>3
<1> QED
    BY <1>1, <1>2, <1>4, PlainFrames, OtherFrameInv

LEMMA TextDeltaInv == ASSUME ProxyInv, TextDelta PROVE ProxyInv'
<1>1. pc = "stream" /\ wire = <<>> /\ source.phase = "blocks" /\ source.next < MaxBlocks
      /\ Emits(Start(source.next, "text"), OpenBlock("text"))
    BY DEF TextDelta, Emits
<1>2. "text" \in Kinds
    BY DEF Kinds
<1> QED
    BY <1>1, <1>2, OpenBlockInv

LEMMA ToolCallDeltaInv == ASSUME ProxyInv, NEW t \in Tools, ToolCallDelta(t) PROVE ProxyInv'
<1>1. pc = "stream" /\ wire = <<>> /\ source.phase = "blocks" /\ source.next < MaxBlocks
      /\ Emits(Start(source.next, t), OpenBlock(t))
    BY DEF ToolCallDelta, Emits
<1>2. t \in Kinds
    BY DEF Kinds
<1> QED
    BY <1>1, <1>2, OpenBlockInv

LEMMA TranslatorEndsInv == ASSUME ProxyInv, NEW finished \in BOOLEAN, TranslatorEnds(finished) PROVE ProxyInv'
<1> DEFINE order == ClosingOrder
           O == source.open
           stop == IF finished /\ source.tools THEN "tool_use" ELSE "end_turn"
           w == ClosingList(order, stop)
<1>1. /\ pc = "stream" /\ ask.compat /\ source.phase = "blocks" /\ wire = <<>>
      /\ wire' = w /\ source' = [source EXCEPT !.open = {}, !.phase = "stop"]
      /\ UNCHANGED <<ask, pc, sent, gate, seen, ledger, lost, client>> /\ UNCHANGED proxyVars
    BY DEF TranslatorEnds, Translates, ClosingList
<1>2. source \in SourceSet /\ SourceOK /\ client.stop = None
    BY <1>1, Between
<1>3. O \subseteq 0..(source.next - 1) /\ source.next \in Nat /\ O \in SUBSET Nat
    BY <1>2 DEF SourceOK, SourceSet
<1>4. stop \in {"tool_use", "end_turn"} /\ (stop = "tool_use" => source.tools)
    OBVIOUS
<1>5. /\ order \in Seq(O)
      /\ \A m, n \in 1..Len(order) : order[m] = order[n] => m = n
      /\ \A i \in O : \E n \in 1..Len(order) : order[n] = i
    BY <1>2, <1>3, ClosingOrderIs
<1> HIDE DEF order, stop, O
<1>6. /\ w \in Seq(FrameSet) /\ w # <<>> /\ WireShape(w) /\ Started(w) = {} /\ Stopped(w) = O
      /\ \A n \in DOMAIN w : \/ w[n].type = "stop" /\ w[n].i \in O
                             \/ w[n].type = "message_delta" /\ w[n].stop = stop
                             \/ w[n].type = "message_stop"
    BY <1>3, <1>4, <1>5, ClosingFrames
<1>7. /\ source' \in SourceSet /\ source'.next = source.next /\ source'.open = {}
      /\ source'.kinds = source.kinds /\ source'.tools = source.tools /\ source'.phase = "stop"
    BY <1>1, <1>2 DEF SourceSet
<1> HIDE DEF w
<1>8. pc' = "stream" /\ client' = client /\ ask' = ask /\ Coming' = w
    BY <1>1 DEF Coming
<1>9. SourceOK'
    BY <1>2, <1>7 DEF SourceOK
<1>10. WireOK'
  <2>1. \A i \in O : i < source.next
      BY <1>3
  <2> QED
      BY <1>1, <1>6, <1>7, <1>8, <2>1 DEF WireOK
<1>11. EndOK'
    BY <1>1, <1>2, <1>4, <1>6, <1>7, <1>8 DEF EndOK
<1>12. MessageIsWhole'
    BY <1>2, <1>8 DEF MessageIsWhole
<1>13. /\ (source'.open \ Started(w)) \cup Stopped(w) = source.open
       /\ 0..(source'.next - 1) \ Started(w) = 0..(source.next - 1)
    BY <1>6, <1>7 DEF O
<1> QED
    BY <1>1, <1>6, <1>7, <1>8, <1>9, <1>10, <1>11, <1>12, <1>13, FramesInv

-----------------------------------------------------------------------------
(* What the gate makes of a frame.                                         *)

\* What is so when a frame is about to be forwarded.
LEMMA Ahead ==
    ASSUME ProxyInv, pc = "stream", wire # <<>>
    PROVE  /\ conf \in Confs /\ ask \in Asks /\ mandate \subseteq Tools /\ attempts \in [Tools -> Nat]
           /\ source \in SourceSet /\ gate \in GateSet /\ seen \in SeenSet /\ client \in ClientSet
           /\ WireOK /\ SourceOK /\ BlocksOK /\ EndOK /\ SeenOK /\ Coming = wire
           /\ wire \in Seq(FrameSet) /\ WireShape(wire) /\ wire[1] \in FrameSet /\ Head(wire) = wire[1]
           /\ 1 \in DOMAIN wire
BY TailIs DEF ProxyInv, ProxyTypeOK, StreamOK, Streaming, Coming, WireOK

\* The head of the wire, and what follows it.
LEMMA HeadIs ==
    ASSUME ProxyInv, pc = "stream", wire # <<>>
    PROVE  LET f == wire[1] v == Tail(wire) IN
           /\ source.open \subseteq 0..(source.next - 1) /\ source.next \in Nat
           /\ f.type = "start" =>
                 /\ f.i \in Nat /\ f.k \in Kinds /\ f.i \in source.open /\ f.k = source.kinds[f.i + 1]
                 /\ Started(wire) = {f.i} /\ Stopped(wire) = {} /\ Started(v) = {} /\ Stopped(v) = {}
           /\ f.type = "stop" =>
                 /\ f.i \in 0..(source.next - 1) /\ f = Stop(f.i) /\ f.i \notin source.open
                 /\ Started(v) = Started(wire) /\ Stopped(wire) = Stopped(v) \cup {f.i}
                 /\ f.i \notin Stopped(v) /\ f.i \notin Started(wire)
           /\ f.type \notin {"start", "stop"} =>
                 Started(v) = {} /\ Stopped(v) = {} /\ Started(wire) = {} /\ Stopped(wire) = {}
<1> DEFINE f == wire[1]
           v == Tail(wire)
<1>1. /\ WireOK /\ SourceOK /\ wire \in Seq(FrameSet) /\ WireShape(wire) /\ f \in FrameSet
      /\ 1 \in DOMAIN wire /\ source \in SourceSet
    BY Ahead
<1>2. source.open \subseteq 0..(source.next - 1) /\ source.next \in Nat
    BY <1>1 DEF SourceOK, SourceSet
<1>3. /\ Started(wire) = Started(v) \cup (IF f.type = "start" THEN {f.i} ELSE {})
      /\ Stopped(wire) = Stopped(v) \cup (IF f.type = "stop" THEN {f.i} ELSE {})
      /\ f.type = "stop" => f.i \notin Stopped(v)
      /\ f.type # "stop" => Stopped(v) = {} /\ Started(v) = {}
    BY <1>1, TailShape
<1>4. /\ f.type = "start" => f.i \in source.open /\ f.k = source.kinds[f.i + 1]
      /\ f.type = "stop" => f.i < source.next /\ f.i \notin source.open
      /\ \A n \in DOMAIN wire : wire[n].type = "start" => wire[n].i \in source.open
    BY <1>1 DEF WireOK
<1>5. /\ f.type = "start" => f.i \in Nat /\ f.k \in Kinds
      /\ f.type = "stop" => f.i \in Nat /\ f = Stop(f.i)
    BY <1>1, FrameIs
<1>6. Started(wire) \subseteq source.open
    BY <1>4 DEF Started
<1> HIDE DEF f, v
<1>7. f.type = "stop" => f.i \in 0..(source.next - 1)
    BY <1>2, <1>4, <1>5
<1>8. CASE f.type = "start"
    BY <1>2, <1>3, <1>4, <1>5, <1>8 DEF f, v
<1>9. CASE f.type = "stop"
    BY <1>2, <1>3, <1>4, <1>5, <1>6, <1>7, <1>9 DEF f, v
<1>10. CASE f.type \notin {"start", "stop"}
    BY <1>2, <1>3, <1>10 DEF f, v
<1> QED
    BY <1>8, <1>9, <1>10

\* A frame is forwarded, whatever the gate makes of it.
LEMMA ForwardsInv ==
    ASSUME ProxyInv, pc = "stream", wire # <<>>, pc' \in {"yielded", "feed"},
           UNCHANGED <<conf, mandate, ask, sent, wire, source, seen, ledger, lost>>,
           attempts' \in [Tools -> Nat], gate' \in GateSet, client' \in ClientSet,
           NEW f, f = wire[1],
           f.type = "message_delta" => client'.stop # None /\ MessageIsWhole',
           f.type # "message_delta" => client'.stop = client.stop,
           f.type \notin {"start", "stop", "message_delta"} => client' = client,
           client'.open \cup gate'.held =
               IF f.type = "start" THEN client.open \cup gate.held \cup {f.i}
               ELSE IF f.type = "stop" THEN (client.open \cup gate.held) \ {f.i}
               ELSE client.open \cup gate.held,
           (DOMAIN client'.blocks \ client'.open) \cup DOMAIN gate'.decided \subseteq
               ((DOMAIN client.blocks \ client.open) \cup DOMAIN gate.decided)
               \cup (IF f.type = "stop" THEN {f.i} ELSE {}),
           BlocksOK'
    PROVE  ProxyInv'
<1> DEFINE v == Tail(wire)
<1>1. /\ conf' = conf /\ mandate' = mandate /\ ask' = ask /\ sent' = sent /\ wire' = wire
      /\ source' = source /\ seen' = seen /\ ledger' = ledger /\ lost' = lost
    OBVIOUS
<1>2. /\ conf \in Confs /\ ask \in Asks /\ mandate \subseteq Tools /\ source \in SourceSet
      /\ seen \in SeenSet /\ WireOK /\ SourceOK /\ EndOK /\ SeenOK /\ Coming = wire
      /\ wire \in Seq(FrameSet) /\ WireShape(wire) /\ f \in FrameSet /\ 1 \in DOMAIN wire
    BY Ahead
<1>3. Coming' = v
    BY <1>1 DEF Coming
<1>4. /\ \A n \in DOMAIN v : n + 1 \in DOMAIN wire /\ v[n] = wire[n + 1]
      /\ \A n \in DOMAIN wire : n = 1 \/ (n - 1 \in DOMAIN v /\ wire[n] = v[n - 1])
    BY <1>2, TailIs
<1>5. f.type = "message_delta" => \A n \in DOMAIN v : v[n].type = "message_stop"
    BY <1>2, TailShape
<1> HIDE DEF v
<1>6. ProxyTypeOK'
    BY <1>1, <1>2 DEF ProxyTypeOK, Places
<1>7. WireOK' /\ SourceOK'
    BY <1>1, <1>2 DEF WireOK, SourceOK
<1>8. client.stop # None => f.type = "message_stop"
    BY <1>2 DEF EndOK
<1>9. client'.stop # None => client.stop # None \/ f.type = "message_delta"
    OBVIOUS
<1>10. f.type = "message_delta" => client.stop = None
    BY <1>8
<1>11. client.stop # None => client'.stop = client.stop
    BY <1>8
<1>12. EndOK'
  <2>1. source.phase \in {"start", "blocks"} =>
          client'.stop = None /\ ~Has(wire, "message_delta") /\ ~Has(wire, "message_stop")
    <3>1. source.phase \in {"start", "blocks"} => f.type # "message_delta"
        BY <1>2 DEF EndOK, Has
    <3> QED
        BY <1>2, <3>1 DEF EndOK
  <2>2. source.phase = "delta" =>
          /\ source.open = {} /\ ~Has(wire, "message_stop")
          /\ client'.stop # None \/ Has(v, "message_delta")
    <3>1. Has(wire, "message_delta") => f.type = "message_delta" \/ Has(v, "message_delta")
        BY <1>4 DEF Has
    <3> QED
        BY <1>2, <1>11, <3>1 DEF EndOK
  <2>3. ASSUME NEW n \in DOMAIN v, v[n].type = "message_delta"
        PROVE  /\ source.open = {} /\ client'.stop = None
               /\ v[n].stop = "tool_use" => source.tools
               /\ ~ask.compat /\ v[n].stop # "tool_use" => ~source.tools
    <3>1. n + 1 \in DOMAIN wire /\ v[n] = wire[n + 1]
        BY <1>4
    <3>2. /\ source.open = {} /\ client.stop = None
          /\ v[n].stop = "tool_use" => source.tools
          /\ ~ask.compat /\ v[n].stop # "tool_use" => ~source.tools
        BY <1>2, <2>3, <3>1 DEF EndOK
    <3>3. f.type # "message_delta"
        BY <1>5, <2>3
    <3> QED
        BY <3>2, <3>3
  <2>4. client'.stop # None =>
          source.phase \in {"delta", "stop"} /\ \A n \in DOMAIN v : v[n].type = "message_stop"
    <3>1. CASE client.stop # None
        BY <1>2, <1>4, <3>1 DEF EndOK
    <3>2. CASE f.type = "message_delta"
      <4>1. source.phase \notin {"start", "blocks"}
          BY <1>2, <3>2 DEF EndOK, Has
      <4> QED
          BY <1>2, <1>5, <3>2, <4>1 DEF SourceSet
    <3> QED
        BY <1>9, <3>1, <3>2
  <2>5. Has(wire, "message_stop") /\ ~ask.compat => client'.stop # None
      BY <1>2, <1>11 DEF EndOK
  <2> QED
      BY <1>1, <1>3, <2>1, <2>2, <2>3, <2>4, <2>5 DEF EndOK
<1>13. SeenOK'
  <2> SUFFICES ASSUME conf.recorder, ~ask.compat
               PROVE  /\ seen.unfed = {}
                      /\ seen.stopped => client'.stop # None
                      /\ Extracts(seen, f).open = client'.open \cup gate'.held
                      /\ f.type = "stop" => f.i \in seen.open
                      /\ \A i \in (DOMAIN client'.blocks \ client'.open) \cup DOMAIN gate'.decided :
                            (<<"block", i>> \in ledger \cup lost) \/ f = Stop(i)
    <3>1. pc' # "stream"
        OBVIOUS
    <3> QED
        BY <1>1, <3>1 DEF SeenOK, Told
  <2>1. /\ seen.unfed = {} /\ (seen.stopped => client.stop # None)
        /\ seen.open = client.open \cup gate.held
        /\ \A i \in (DOMAIN client.blocks \ client.open) \cup DOMAIN gate.decided :
              <<"block", i>> \in ledger \cup lost
      BY <1>2 DEF SeenOK, Told
  <2>2. Extracts(seen, f).open = IF f.type = "start" THEN seen.open \cup {f.i}
                                 ELSE IF f.type = "stop" THEN seen.open \ {f.i} ELSE seen.open
      BY <1>2 DEF Extracts, SeenSet
  <2>3. f.type = "stop" => f = Stop(f.i)
      BY <1>2, FrameIs
  <2>4. f.type = "stop" => f.i \in Stopped(wire)
      BY HeadIs
  <2>5. f.type = "stop" => f.i \in seen.open
    <3>1. BlocksOK /\ Coming = wire
        BY Ahead
    <3>2. client.open \cup gate.held = (source.open \ Started(wire)) \cup Stopped(wire)
        BY <3>1 DEF BlocksOK
    <3> QED
        BY <2>1, <2>4, <3>2
  <2> QED
      BY <1>11, <2>1, <2>2, <2>3, <2>5
<1>14. StreamOK'
    BY <1>7, <1>12, <1>13 DEF StreamOK
<1>15. EvidenceTold' /\ ResultsTold'
    BY <1>1, NoRowsKeep DEF Streaming
<1>16. FreshOK' /\ NothingYet' /\ ClosingOK' /\ BlocksTold'
    BY DEF FreshOK, NothingYet, ClosingOK, BlocksTold
<1>17. FramesGated'
  <2> SUFFICES ASSUME conf.enforce, NEW i \in DOMAIN client'.blocks, IsTool(client'.blocks[i])
               PROVE  i \in DOMAIN gate'.decided /\ gate'.decided[i] = "allow"
      BY <1>1 DEF FramesGated
  <2>1. "denial" \notin Tools
      BY <1>2, ConfIs
  <2>2. Gated(i)' <=> IsTool(source.kinds[i + 1])
      BY <1>1 DEF Gated
  <2>3. IF Gated(i)'
        THEN /\ i \in DOMAIN gate'.decided
             /\ \/ gate'.decided[i] = "allow" /\ client'.blocks[i] = source.kinds[i + 1]
                \/ gate'.decided[i] = "deny" /\ client'.blocks[i] = "denial"
        ELSE client'.blocks[i] = source.kinds[i + 1]
      BY <1>1 DEF BlocksOK
  <2> QED
      BY <2>1, <2>2, <2>3 DEF IsTool
<1>18. MessageIsWhole'
  <2>1. CASE f.type = "message_delta"
      BY <2>1
  <2>2. CASE f.type # "message_delta" /\ client.stop = None
      BY <2>2 DEF MessageIsWhole
  <2>3. CASE client.stop # None
    <3>1. client' = client
        BY <1>8, <2>3
    <3> QED
        BY <1>1, <3>1 DEF ProxyInv, MessageIsWhole
  <2> QED
      BY <2>1, <2>2, <2>3
<1> QED
    BY <1>6, <1>14, <1>15, <1>16, <1>17, <1>18 DEF ProxyInv

\* What holds of the blocks before a frame is forwarded.
LEMMA BlocksBefore ==
    ASSUME ProxyInv, pc = "stream", wire # <<>>
    PROVE  /\ gate.held \subseteq source.open \cup Stopped(wire)
           /\ client.open \cup gate.held = (source.open \ Started(wire)) \cup Stopped(wire)
           /\ DOMAIN client.blocks = 0..(source.next - 1) \ (Started(wire) \cup gate.held)
           /\ (\A i \in gate.held : Gated(i)) /\ (\A i \in client.open : ~Gated(i))
           /\ DOMAIN gate.decided \subseteq DOMAIN client.blocks
           /\ \A i \in DOMAIN gate.decided : Gated(i)
           /\ ~conf.enforce => gate.held = {}
<1>1. BlocksOK /\ Coming = wire
    BY Ahead
<1> QED
    BY <1>1 DEF BlocksOK, Gated

\* The agent is shown a block.
LEMMA BlocksWith ==
    ASSUME NEW c \in ClientSet, NEW i \in Nat, NEW k \in Shown
    PROVE  With(c.blocks, i, k) \in PartialMaps(Shown)
BY WithIn DEF ClientSet

\* The agent reads the start of a block.
LEMMA ReadsStart ==
    ASSUME ProxyInv, pc = "stream", wire # <<>>, pc' = "yielded",
           UNCHANGED <<conf, mandate, ask, sent, wire, source, seen, ledger, lost, attempts, gate>>,
           NEW f, f = wire[1], f.type = "start", NEW i, i = f.i, NEW k, k = f.k, ~Gated(i),
           NEW o, o = client.open \cup {i}, NEW b, b = With(client.blocks, i, k),
           client' = [client EXCEPT !.open = o, !.blocks = b]
    PROVE  ProxyInv'
<1> DEFINE v == Tail(wire)
<1>1. /\ i \in Nat /\ k \in Kinds /\ i \in source.open /\ k = source.kinds[i + 1]
      /\ Started(wire) = {i} /\ Stopped(wire) = {} /\ Started(v) = {} /\ Stopped(v) = {}
      /\ source.open \subseteq 0..(source.next - 1)
    BY HeadIs
<1>2. gate \in GateSet /\ client \in ClientSet /\ attempts \in [Tools -> Nat] /\ BlocksOK
    BY Ahead
<1>3. /\ client.open \cup gate.held = source.open \ {i}
      /\ DOMAIN client.blocks = 0..(source.next - 1) \ ({i} \cup gate.held)
    BY <1>1, BlocksBefore
<1>4. client.blocks \in PartialMaps(Shown) /\ client.open \in SUBSET Nat /\ k \in Shown
    BY <1>1, <1>2 DEF ClientSet, Shown
<1> HIDE DEF v
<1>5. i \in Nat /\ k \in Shown /\ o \in SUBSET Nat
    BY <1>1, <1>4
<1>6. b \in PartialMaps(Shown)
    BY <1>2, <1>5, BlocksWith
<1>7. DOMAIN b = DOMAIN client.blocks \cup {i} /\ b[i] = k
    BY DEF With
<1>8. \A j \in DOMAIN client.blocks : j # i => b[j] = client.blocks[j]
    BY DEF With
<1>9. client' \in ClientSet /\ client'.open = o /\ client'.blocks = b /\ client'.stop = client.stop
  <2>1. client' = [status |-> client.status, open |-> o, blocks |-> b, stop |-> client.stop,
                  tail |-> client.tail]
      BY <1>2 DEF ClientSet
  <2>2. client.status \in Statuses /\ client.stop \in Ends /\ client.tail \in FrameSet \cup {None}
      BY <1>2 DEF ClientSet
  <2>3. client' \in ClientSet
      BY <1>5, <1>6, <2>1, <2>2 DEF ClientSet
  <2> QED
      BY <2>1, <2>3
<1>10. Coming' = v
    BY DEF Coming, v
<1>11. \A j : Gated(j)' = Gated(j)
    BY DEF Gated
<1>12. BlocksOK'
  <2>1. client'.open \cup gate.held = (source.open \ Started(v)) \cup Stopped(v)
      BY <1>1, <1>3, <1>9
  <2>2. i \notin gate.held /\ i \notin client.open
      BY <1>3
  <2>3. DOMAIN client'.blocks = 0..(source.next - 1) \ (Started(v) \cup gate.held)
    <3>1. DOMAIN client'.blocks = (0..(source.next - 1) \ ({i} \cup gate.held)) \cup {i}
        BY <1>3, <1>7, <1>9
    <3>2. i \in 0..(source.next - 1)
        BY <1>1
    <3> QED
        BY <1>1, <2>2, <3>1, <3>2
  <2>4. (\A j \in gate.held : Gated(j)) /\ (\A j \in client'.open : ~Gated(j))
      BY <1>2, <1>9 DEF BlocksOK
  <2>5. ASSUME NEW j \in DOMAIN client'.blocks
        PROVE  IF Gated(j)
               THEN /\ j \in DOMAIN gate.decided
                    /\ \/ gate.decided[j] = "allow" /\ client'.blocks[j] = source.kinds[j + 1]
                       \/ gate.decided[j] = "deny" /\ client'.blocks[j] = "denial"
               ELSE client'.blocks[j] = source.kinds[j + 1]
    <3>1. CASE j = i
      <4>1. client'.blocks[j] = source.kinds[j + 1] /\ ~Gated(j)
          BY <1>1, <1>7, <1>9, <3>1
      <4> QED
          BY <4>1
    <3>2. CASE j # i
      <4>1. j \in DOMAIN client.blocks /\ client'.blocks[j] = client.blocks[j]
          BY <1>7, <1>8, <1>9, <3>2
      <4> QED
          BY <1>2, <4>1 DEF BlocksOK
    <3> QED
        BY <3>1, <3>2
  <2>6. /\ DOMAIN gate.decided \subseteq DOMAIN client'.blocks
        /\ \A j \in DOMAIN gate.decided : Gated(j)
        /\ gate.survivors = 0 <=> \A j \in DOMAIN gate.decided : gate.decided[j] # "allow"
        /\ gate.denied = 0 <=> \A j \in DOMAIN gate.decided : gate.decided[j] # "deny"
      BY <1>2, <1>7, <1>9 DEF BlocksOK
  <2> QED
      BY <1>10, <1>11, <2>1, <2>3, <2>4, <2>5, <2>6 DEF BlocksOK
<1>13. client'.open \cup gate'.held = client.open \cup gate.held \cup {f.i}
    BY <1>9
<1>14. (DOMAIN client'.blocks \ client'.open) \cup DOMAIN gate'.decided
          \subseteq (DOMAIN client.blocks \ client.open) \cup DOMAIN gate.decided
    BY <1>7, <1>9
<1> QED
    BY <1>2, <1>9, <1>12, <1>13, <1>14, ForwardsInv

\* The agent reads the end of a block that was not held.
LEMMA ReadsStop ==
    ASSUME ProxyInv, pc = "stream", wire # <<>>, pc' = "yielded", wire[1].type = "stop",
           UNCHANGED <<conf, mandate, ask, sent, wire, source, seen, ledger, lost, attempts, gate>>,
           wire[1].i \notin gate.held,
           client' = [client EXCEPT !.open = @ \ {wire[1].i}]
    PROVE  ProxyInv'
<1> DEFINE f == wire[1]
           v == Tail(wire)
           i == f.i
<1>1. /\ i \in 0..(source.next - 1) /\ i \notin source.open
      /\ Started(v) = Started(wire) /\ Stopped(wire) = Stopped(v) \cup {i}
      /\ i \notin Stopped(v) /\ i \notin Started(wire)
    BY HeadIs
<1>2. gate \in GateSet /\ client \in ClientSet /\ attempts \in [Tools -> Nat] /\ BlocksOK
    BY Ahead
<1>3. /\ client.open \cup gate.held = (source.open \ Started(wire)) \cup Stopped(wire)
      /\ DOMAIN client.blocks = 0..(source.next - 1) \ (Started(wire) \cup gate.held)
    BY BlocksBefore
<1>4. f.type = "stop" /\ i \notin gate.held
    OBVIOUS
<1>5. client' = [client EXCEPT !.open = client.open \ {i}]
    OBVIOUS
<1> HIDE DEF f, v, i
<1>6. /\ client'.open = client.open \ {i} /\ client'.blocks = client.blocks /\ client'.stop = client.stop
      /\ client' \in ClientSet
    BY <1>2, <1>5 DEF ClientSet
<1>7. Coming' = v
    BY DEF Coming, v
<1>8. \A j : Gated(j)' = Gated(j)
    BY DEF Gated
<1>9. client'.open \cup gate.held = (client.open \cup gate.held) \ {i}
    BY <1>4, <1>6
<1>10. BlocksOK'
  <2>1. client'.open \cup gate.held = (source.open \ Started(v)) \cup Stopped(v)
      BY <1>1, <1>3, <1>9
  <2> QED
      BY <1>1, <1>2, <1>3, <1>6, <1>7, <1>8, <2>1 DEF BlocksOK
<1>11. (DOMAIN client'.blocks \ client'.open) \cup DOMAIN gate'.decided
          \subseteq ((DOMAIN client.blocks \ client.open) \cup DOMAIN gate.decided) \cup {i}
    BY <1>6
<1>12. f = wire[1] /\ f.i = i
    BY DEF f, i
<1> QED
    BY <1>2, <1>4, <1>6, <1>9, <1>10, <1>11, <1>12, ForwardsInv

\* The blocks of a message that is about to end.
LEMMA EndingIs ==
    ASSUME ProxyInv, pc = "stream", wire # <<>>, wire[1].type = "message_delta"
    PROVE  /\ client.open = {} /\ gate.held = {} /\ client.stop = None
           /\ DOMAIN client.blocks = 0..(source.next - 1)
           /\ Started(Tail(wire)) = {} /\ Stopped(Tail(wire)) = {}
           /\ wire[1].stop \in {"tool_use", "end_turn"}
           /\ wire[1].stop = "tool_use" => source.tools
           /\ ~ask.compat /\ wire[1].stop # "tool_use" => ~source.tools
<1>1. EndOK /\ Coming = wire /\ 1 \in DOMAIN wire /\ wire[1] \in FrameSet
    BY Ahead
<1>2. /\ Started(wire) = {} /\ Stopped(wire) = {} /\ Started(Tail(wire)) = {} /\ Stopped(Tail(wire)) = {}
    BY HeadIs
<1>3. /\ source.open = {} /\ client.stop = None
      /\ wire[1].stop = "tool_use" => source.tools
      /\ ~ask.compat /\ wire[1].stop # "tool_use" => ~source.tools
    BY <1>1 DEF EndOK
<1>4. /\ client.open \cup gate.held = (source.open \ Started(wire)) \cup Stopped(wire)
      /\ DOMAIN client.blocks = 0..(source.next - 1) \ (Started(wire) \cup gate.held)
    BY BlocksBefore
<1>5. client.open = {} /\ gate.held = {}
    BY <1>2, <1>3, <1>4
<1>6. DOMAIN client.blocks = 0..(source.next - 1)
    BY <1>2, <1>4, <1>5
<1> QED
    BY <1>1, <1>2, <1>3, <1>5, <1>6, FrameIs

\* The agent reads how the message ended.
LEMMA ReadsDelta ==
    ASSUME ProxyInv, pc = "stream", wire # <<>>, pc' = "yielded", wire[1].type = "message_delta",
           UNCHANGED <<conf, mandate, ask, sent, wire, source, seen, ledger, lost, attempts, gate>>,
           client' = [client EXCEPT !.stop =
                        IF conf.enforce /\ gate.denied > 0 /\ gate.survivors = 0 /\ wire[1].stop = "tool_use"
                        THEN "end_turn" ELSE wire[1].stop]
    PROVE  ProxyInv'
<1> DEFINE f == wire[1]
           v == Tail(wire)
           lostAll == conf.enforce /\ gate.denied > 0 /\ gate.survivors = 0 /\ f.stop = "tool_use"
           stop == IF lostAll THEN "end_turn" ELSE f.stop
           N == source.next - 1
           b == client.blocks
<1>1. /\ client.open = {} /\ gate.held = {} /\ client.stop = None /\ DOMAIN b = 0..N
      /\ Started(v) = {} /\ Stopped(v) = {} /\ f.stop \in {"tool_use", "end_turn"}
      /\ f.stop = "tool_use" => source.tools
      /\ ~ask.compat /\ f.stop # "tool_use" => ~source.tools
    BY EndingIs
<1>2. /\ conf \in Confs /\ gate \in GateSet /\ client \in ClientSet /\ attempts \in [Tools -> Nat]
      /\ BlocksOK /\ SourceOK
    BY Ahead
<1>3. /\ Started(wire) = {} /\ Stopped(wire) = {}
    BY HeadIs
<1>4. "denial" \notin Tools /\ None # "tool_use" /\ None # "end_turn"
    BY <1>2, ConfIs
<1>5. client' = [client EXCEPT !.stop = stop] /\ f.type = "message_delta"
    OBVIOUS
<1>6. source.tools <=> \E i \in 0..N : IsTool(source.kinds[i + 1])
    BY <1>2 DEF SourceOK
<1>7. /\ \A i \in 0..N :
            IF Gated(i)
            THEN /\ i \in DOMAIN gate.decided
                 /\ \/ gate.decided[i] = "allow" /\ b[i] = source.kinds[i + 1]
                    \/ gate.decided[i] = "deny" /\ b[i] = "denial"
            ELSE b[i] = source.kinds[i + 1]
      /\ DOMAIN gate.decided \subseteq 0..N /\ \A i \in DOMAIN gate.decided : Gated(i)
      /\ gate.survivors = 0 <=> \A i \in DOMAIN gate.decided : gate.decided[i] # "allow"
      /\ gate.denied = 0 <=> \A i \in DOMAIN gate.decided : gate.decided[i] # "deny"
    BY <1>1, <1>2 DEF BlocksOK
<1>8. gate.denied \in Nat /\ gate.survivors \in Nat
    BY <1>2 DEF GateSet
<1>9. \A i : Gated(i) => conf.enforce /\ IsTool(source.kinds[i + 1])
    BY DEF Gated
<1>10. \A i : conf.enforce /\ IsTool(source.kinds[i + 1]) => Gated(i)
    BY DEF Gated
<1>11. lostAll <=> conf.enforce /\ gate.denied # 0 /\ gate.survivors = 0 /\ f.stop = "tool_use"
    BY <1>8
<1> HIDE DEF N, b, f, v, lostAll
<1>12. stop = "tool_use" => \E i \in 0..N : IsTool(b[i])
  <2> SUFFICES ASSUME stop = "tool_use" PROVE \E i \in 0..N : IsTool(b[i])
      OBVIOUS
  <2>1. ~lostAll /\ f.stop = "tool_use"
      OBVIOUS
  <2>2. PICK i \in 0..N : IsTool(source.kinds[i + 1])
      BY <1>1, <1>6, <2>1
  <2>3. CASE b[i] = source.kinds[i + 1]
      BY <2>2, <2>3
  <2>4. CASE b[i] # source.kinds[i + 1]
    <3>1. conf.enforce /\ i \in DOMAIN gate.decided /\ gate.decided[i] = "deny"
        BY <1>7, <1>9, <2>4
    <3>2. gate.denied # 0
        BY <1>7, <3>1
    <3>3. gate.survivors # 0
        BY <1>11, <2>1, <3>1, <3>2
    <3>4. PICK j \in DOMAIN gate.decided : gate.decided[j] = "allow"
        BY <1>7, <3>3
    <3>5. j \in 0..N /\ Gated(j) /\ IsTool(source.kinds[j + 1])
        BY <1>7, <1>9, <3>4
    <3>6. b[j] = source.kinds[j + 1]
        BY <1>7, <3>4, <3>5
    <3> QED
        BY <3>5, <3>6
  <2> QED
      BY <2>3, <2>4
<1>13. ~ask.compat /\ stop # "tool_use" => \A i \in 0..N : ~IsTool(b[i])
  <2> SUFFICES ASSUME ~ask.compat, stop # "tool_use", NEW i \in 0..N PROVE ~IsTool(b[i])
      OBVIOUS
  <2>1. CASE lostAll
    <3>1. Gated(i) => b[i] = "denial"
        BY <1>7, <1>11, <2>1
    <3>2. ~Gated(i) => b[i] = source.kinds[i + 1] /\ ~IsTool(source.kinds[i + 1])
        BY <1>7, <1>10, <1>11, <2>1
    <3> QED
        BY <1>4, <3>1, <3>2 DEF IsTool
  <2>2. CASE ~lostAll
    <3>1. ~source.tools
        BY <1>1, <2>2
    <3>2. ~IsTool(source.kinds[i + 1])
        BY <1>6, <3>1
    <3>3. b[i] = source.kinds[i + 1]
        BY <1>7, <1>9, <3>2
    <3> QED
        BY <3>2, <3>3
  <2> QED
      BY <2>1, <2>2
<1>14. stop \in {"tool_use", "end_turn"}
    BY <1>1
<1> HIDE DEF stop
<1>15. /\ client'.open = {} /\ client'.blocks = b /\ client'.stop = stop /\ client' \in ClientSet
       /\ client.open = {}
    BY <1>1, <1>2, <1>5, <1>14 DEF ClientSet, b, Ends
<1>16. client.blocks = client'.blocks /\ client.open = client'.open
    BY <1>15 DEF b
<1>17. MessageIsWhole'
    BY <1>1, <1>12, <1>13, <1>15 DEF MessageIsWhole, N
<1>18. Coming' = v
    BY DEF Coming, v
<1>19. \A j : Gated(j)' = Gated(j)
    BY DEF Gated
<1>20. BlocksOK'
  <2>1. Coming = wire
      BY Ahead
  <2> QED
      BY <1>1, <1>2, <1>3, <1>16, <1>18, <1>19, <2>1 DEF BlocksOK
<1>21. client'.stop # None
    BY <1>4, <1>14, <1>15
<1>22. f = wire[1]
    BY DEF f
<1> QED
    BY <1>2, <1>5, <1>15, <1>16, <1>17, <1>20, <1>21, <1>22, ForwardsInv

\* The gate holds the start of a block.
LEMMA HoldsStart ==
    ASSUME ProxyInv, pc = "stream", wire # <<>>, pc' = "feed",
           UNCHANGED <<conf, mandate, ask, sent, wire, source, seen, ledger, lost, attempts, client>>,
           NEW f, f = wire[1], f.type = "start", NEW i, i = f.i, Gated(i),
           NEW h, h = gate.held \cup {i}, gate' = [gate EXCEPT !.held = h]
    PROVE  ProxyInv'
<1> DEFINE v == Tail(wire)
<1>1. /\ i \in Nat /\ i \in source.open
      /\ Started(wire) = {i} /\ Stopped(wire) = {} /\ Started(v) = {} /\ Stopped(v) = {}
    BY HeadIs
<1>2. gate \in GateSet /\ client \in ClientSet /\ attempts \in [Tools -> Nat] /\ BlocksOK
    BY Ahead
<1>3. /\ client.open \cup gate.held = (source.open \ Started(wire)) \cup Stopped(wire)
      /\ DOMAIN client.blocks = 0..(source.next - 1) \ (Started(wire) \cup gate.held)
    BY BlocksBefore
<1> HIDE DEF v
<1>4. /\ gate' \in GateSet /\ gate'.held = h /\ gate'.denied = gate.denied
      /\ gate'.survivors = gate.survivors /\ gate'.decided = gate.decided
  <2>1. h \in SUBSET Nat
      BY <1>1, <1>2 DEF GateSet
  <2> QED
      BY <1>2, <2>1 DEF GateSet
<1>5. client' = client /\ Coming' = v
    BY DEF Coming, v
<1>6. \A j : Gated(j)' = Gated(j)
    BY DEF Gated
<1>7. BlocksOK'
  <2>1. client.open \cup h = (source.open \ Started(v)) \cup Stopped(v)
      BY <1>1, <1>3
  <2>2. DOMAIN client.blocks = 0..(source.next - 1) \ (Started(v) \cup h)
      BY <1>1, <1>3
  <2>3. \A j \in h : Gated(j)
      BY <1>2 DEF BlocksOK
  <2> QED
      BY <1>2, <1>4, <1>5, <1>6, <2>1, <2>2, <2>3 DEF BlocksOK
<1>8. client'.open \cup gate'.held = client.open \cup gate.held \cup {f.i}
    BY <1>4, <1>5
<1>9. (DOMAIN client'.blocks \ client'.open) \cup DOMAIN gate'.decided
          \subseteq (DOMAIN client.blocks \ client.open) \cup DOMAIN gate.decided
    BY <1>4, <1>5
<1> QED
    BY <1>2, <1>4, <1>5, <1>7, <1>8, <1>9, ForwardsInv

\* The gate decides on a block it held.
LEMMA ResolvesStop ==
    ASSUME ProxyInv, pc = "stream", wire # <<>>, pc' = "yielded",
           UNCHANGED <<conf, mandate, ask, sent, wire, source, seen, ledger, lost>>,
           attempts' \in [Tools -> Nat],
           NEW f, f = wire[1], f.type = "stop", NEW i, i = f.i, i \in gate.held,
           NEW allow \in BOOLEAN, NEW k, k = source.kinds[i + 1],
           NEW x, x = (IF allow THEN k ELSE "denial"), NEW y, y = (IF allow THEN "allow" ELSE "deny"),
           NEW b, b = With(client.blocks, i, x), NEW said, said = With(gate.decided, i, y),
           gate' = [gate EXCEPT !.held = @ \ {i},
                                !.survivors = @ + (IF allow THEN 1 ELSE 0),
                                !.denied = @ + (IF allow THEN 0 ELSE 1),
                                !.decided = said],
           client' = [client EXCEPT !.blocks = b]
    PROVE  ProxyInv'
<1> DEFINE v == Tail(wire)
<1>1. /\ i \in 0..(source.next - 1) /\ i \notin source.open
      /\ Started(v) = Started(wire) /\ Stopped(wire) = Stopped(v) \cup {i}
      /\ i \notin Stopped(v) /\ i \notin Started(wire) /\ source.next \in Nat
    BY HeadIs
<1>2. gate \in GateSet /\ client \in ClientSet /\ BlocksOK /\ SourceOK /\ source \in SourceSet
    BY Ahead
<1>3. /\ client.open \cup gate.held = (source.open \ Started(wire)) \cup Stopped(wire)
      /\ DOMAIN client.blocks = 0..(source.next - 1) \ (Started(wire) \cup gate.held)
      /\ \A j \in gate.held : Gated(j)
      /\ \A j \in client.open : ~Gated(j)
      /\ DOMAIN gate.decided \subseteq DOMAIN client.blocks
    BY BlocksBefore
<1> HIDE DEF v
<1>4. Gated(i) /\ i \notin client.open /\ i \notin DOMAIN client.blocks /\ i \notin DOMAIN gate.decided
    BY <1>3
<1>5. i \in Nat /\ k \in Kinds /\ x \in Shown /\ y \in Marks
  <2>1. source.next \in Nat /\ Len(source.kinds) = source.next /\ source.kinds \in Seq(Kinds)
      BY <1>2 DEF SourceOK, SourceSet
  <2>2. i \in Nat /\ i + 1 \in 1..Len(source.kinds)
      BY <1>1, <2>1
  <2>3. k \in Kinds
      BY <2>1, <2>2
  <2> QED
      BY <2>2, <2>3 DEF Shown, Marks
<1>6. b \in PartialMaps(Shown) /\ said \in PartialMaps(Marks)
  <2>1. b \in PartialMaps(Shown)
      BY <1>2, <1>5, BlocksWith
  <2>2. gate.decided \in PartialMaps(Marks)
      BY <1>2 DEF GateSet
  <2>3. said \in PartialMaps(Marks)
      BY <1>5, <2>2, WithIn
  <2> QED
      BY <2>1, <2>3
<1>7. DOMAIN b = DOMAIN client.blocks \cup {i} /\ b[i] = x
    BY DEF With
<1>8. \A j \in DOMAIN client.blocks : j # i => b[j] = client.blocks[j]
    BY DEF With
<1>9. DOMAIN said = DOMAIN gate.decided \cup {i} /\ said[i] = y
    BY DEF With
<1>10. \A j \in DOMAIN gate.decided : j # i => said[j] = gate.decided[j]
    BY DEF With
<1>11. client' \in ClientSet /\ client'.open = client.open /\ client'.blocks = b /\ client'.stop = client.stop
  <2>1. client' = [status |-> client.status, open |-> client.open, blocks |-> b, stop |-> client.stop,
                  tail |-> client.tail]
      BY <1>2 DEF ClientSet
  <2>2. /\ client.status \in Statuses /\ client.stop \in Ends /\ client.open \in SUBSET Nat
        /\ client.tail \in FrameSet \cup {None}
      BY <1>2 DEF ClientSet
  <2>3. client' \in ClientSet
      BY <1>6, <2>1, <2>2 DEF ClientSet
  <2> QED
      BY <2>1, <2>3
<1>12. /\ gate' \in GateSet /\ gate'.held = gate.held \ {i} /\ gate'.decided = said
       /\ gate'.survivors = gate.survivors + (IF allow THEN 1 ELSE 0)
       /\ gate'.denied = gate.denied + (IF allow THEN 0 ELSE 1)
       /\ gate.survivors \in Nat /\ gate.denied \in Nat
  <2>1. gate' = [held |-> gate.held \ {i}, denied |-> gate.denied + (IF allow THEN 0 ELSE 1),
                 survivors |-> gate.survivors + (IF allow THEN 1 ELSE 0), decided |-> said]
      BY <1>2 DEF GateSet
  <2>2. gate.held \in SUBSET Nat /\ gate.survivors \in Nat /\ gate.denied \in Nat
      BY <1>2 DEF GateSet
  <2>3. gate' \in GateSet
      BY <1>6, <2>1, <2>2 DEF GateSet
  <2> QED
      BY <2>1, <2>2, <2>3
<1>13. Coming' = v
    BY DEF Coming, v
<1>14. \A j : Gated(j)' = Gated(j)
    BY DEF Gated
<1>15. client'.open \cup gate'.held = (client.open \cup gate.held) \ {i}
    BY <1>4, <1>11, <1>12
<1>16. BlocksOK'
  <2>1. client'.open \cup gate'.held = (source.open \ Started(v)) \cup Stopped(v)
      BY <1>1, <1>3, <1>15
  <2>2. DOMAIN client'.blocks = 0..(source.next - 1) \ (Started(v) \cup gate'.held)
    <3>1. DOMAIN client'.blocks = (0..(source.next - 1) \ (Started(v) \cup gate.held)) \cup {i}
        BY <1>1, <1>3, <1>7, <1>11
    <3> QED
        BY <1>1, <1>12, <3>1
  <2>3. (\A j \in gate'.held : Gated(j)) /\ (\A j \in client'.open : ~Gated(j))
      BY <1>3, <1>11, <1>12
  <2>4. ASSUME NEW j \in DOMAIN client'.blocks
        PROVE  IF Gated(j)
               THEN /\ j \in DOMAIN gate'.decided
                    /\ \/ gate'.decided[j] = "allow" /\ client'.blocks[j] = source.kinds[j + 1]
                       \/ gate'.decided[j] = "deny" /\ client'.blocks[j] = "denial"
               ELSE client'.blocks[j] = source.kinds[j + 1]
    <3>1. CASE j = i
      <4>1. /\ Gated(j) /\ j \in DOMAIN gate'.decided /\ gate'.decided[j] = y
            /\ client'.blocks[j] = x /\ k = source.kinds[j + 1]
          BY <1>4, <1>7, <1>9, <1>11, <1>12, <3>1
      <4> QED
          BY <4>1
    <3>2. CASE j # i
      <4>1. j \in DOMAIN client.blocks /\ client'.blocks[j] = client.blocks[j]
          BY <1>7, <1>8, <1>11, <3>2
      <4>2. j \in DOMAIN gate.decided => j \in DOMAIN gate'.decided /\ gate'.decided[j] = gate.decided[j]
          BY <1>9, <1>10, <1>12, <3>2
      <4>3. IF Gated(j)
            THEN /\ j \in DOMAIN gate.decided
                 /\ \/ gate.decided[j] = "allow" /\ client.blocks[j] = source.kinds[j + 1]
                    \/ gate.decided[j] = "deny" /\ client.blocks[j] = "denial"
            ELSE client.blocks[j] = source.kinds[j + 1]
          BY <1>2, <4>1 DEF BlocksOK
      <4> QED
          BY <4>1, <4>2, <4>3
    <3> QED
        BY <3>1, <3>2
  <2>5. DOMAIN gate'.decided \subseteq DOMAIN client'.blocks
      BY <1>3, <1>7, <1>9, <1>11, <1>12
  <2>6. \A j \in DOMAIN gate'.decided : Gated(j)
      BY <1>2, <1>4, <1>9, <1>12 DEF BlocksOK
  <2>7. /\ gate.survivors = 0 <=> \A j \in DOMAIN gate.decided : gate.decided[j] # "allow"
        /\ gate.denied = 0 <=> \A j \in DOMAIN gate.decided : gate.decided[j] # "deny"
      BY <1>2 DEF BlocksOK
  <2>8. \A j \in DOMAIN gate.decided : j \in DOMAIN said /\ said[j] = gate.decided[j]
      BY <1>4, <1>9, <1>10
  <2>9. gate'.survivors = 0 <=> ~allow /\ gate.survivors = 0
      BY <1>12
  <2>10. gate'.denied = 0 <=> allow /\ gate.denied = 0
      BY <1>12
  <2>11. gate'.survivors = 0 <=> \A j \in DOMAIN gate'.decided : gate'.decided[j] # "allow"
    <3>1. (\A j \in DOMAIN said : said[j] # "allow") <=>
             ~allow /\ \A j \in DOMAIN gate.decided : gate.decided[j] # "allow"
        BY <1>9, <2>8
    <3> QED
        BY <1>12, <2>7, <2>9, <3>1
  <2>12. gate'.denied = 0 <=> \A j \in DOMAIN gate'.decided : gate'.decided[j] # "deny"
    <3>1. (\A j \in DOMAIN said : said[j] # "deny") <=>
             allow /\ \A j \in DOMAIN gate.decided : gate.decided[j] # "deny"
        BY <1>9, <2>8
    <3> QED
        BY <1>12, <2>7, <2>10, <3>1
  <2> QED
      BY <1>13, <1>14, <2>1, <2>2, <2>3, <2>4, <2>5, <2>6, <2>11, <2>12 DEF BlocksOK
<1>17. (DOMAIN client'.blocks \ client'.open) \cup DOMAIN gate'.decided
          \subseteq ((DOMAIN client.blocks \ client.open) \cup DOMAIN gate.decided) \cup {i}
    BY <1>7, <1>9, <1>11, <1>12
<1> QED
    BY <1>11, <1>12, <1>15, <1>16, <1>17, ForwardsInv

LEMMA ForwardInv == ASSUME ProxyInv, Forward PROVE ProxyInv'
<1> DEFINE f == wire[1]
           i == f.i
           k == source.kinds[i + 1]
           d == Decide(attempts, k)
<1>1. pc = "stream" /\ wire # <<>>
    BY DEF Forward
<1>2. /\ conf \in Confs /\ attempts \in [Tools -> Nat] /\ source \in SourceSet /\ SourceOK
      /\ f \in FrameSet /\ Head(wire) = f /\ client \in ClientSet /\ gate \in GateSet
    BY <1>1, Ahead
<1>3. UNCHANGED <<conf, mandate, ask, sent, wire, source, seen, ledger, lost>>
    BY DEF Forward
<1>4. \/ /\ ~Enforced \/ (~Holds(f) /\ ~Resolves(f))
         /\ client' = Reads(client, IF Enforced THEN RewriteStop(f) ELSE f)
         /\ pc' = "yielded" /\ UNCHANGED <<attempts, gate>>
      \/ /\ Enforced /\ Holds(f)
         /\ gate' = [gate EXCEPT !.held = @ \cup {i}]
         /\ pc' = "feed" /\ UNCHANGED <<attempts, client>>
      \/ /\ Enforced /\ Resolves(f) /\ attempts' = d.att /\ pc' = "yielded"
         /\ gate' = [gate EXCEPT !.held = @ \ {i},
                                 !.survivors = @ + (IF d.allow THEN 1 ELSE 0),
                                 !.denied = @ + (IF d.allow THEN 0 ELSE 1),
                                 !.decided = With(@, i, IF d.allow THEN "allow" ELSE "deny")]
         /\ client' = [client EXCEPT !.blocks = IF d.allow THEN With(@, i, k) ELSE Denial(i)]
    BY <1>2 DEF Forward
<1>5. /\ f.type \in {"start", "stop", "message_delta", "message_start", "message_stop", "error"}
      /\ f.type = "start" => f.k = k
    BY <1>1, <1>2, FrameIs, HeadIs
<1>6. Gated(i) <=> Enforced /\ IsTool(k)
    BY DEF Gated, Enforced
<1>7. \A j \in gate.held : Gated(j)
    BY <1>1, BlocksBefore
<1>8. CASE /\ ~Enforced \/ (~Holds(f) /\ ~Resolves(f))
           /\ client' = Reads(client, IF Enforced THEN RewriteStop(f) ELSE f)
           /\ pc' = "yielded" /\ UNCHANGED <<attempts, gate>>
  <2> DEFINE g == IF Enforced THEN RewriteStop(f) ELSE f
  <2>1. f.type # "message_delta" => g = f
      BY DEF RewriteStop
  <2>2. CASE f.type = "start"
    <3> DEFINE o == client.open \cup {i}
               q == f.k
               b == With(client.blocks, i, q)
    <3>1. client' = Reads(client, f) /\ pc' = "yielded" /\ attempts' = attempts /\ gate' = gate
        BY <1>8, <2>1, <2>2
    <3>2. Reads(client, f) = [client EXCEPT !.open = o, !.blocks = b]
        BY <2>2 DEF Reads
    <3>3. ~Gated(i)
        BY <1>5, <1>6, <1>8, <2>2 DEF Holds
    <3>4. client' = [client EXCEPT !.open = o, !.blocks = b]
        BY <3>1, <3>2
    <3>5. UNCHANGED <<conf, mandate, ask, sent, wire, source, seen, ledger, lost, attempts, gate>>
        BY <1>3, <3>1
    <3> HIDE DEF g, o, b
    <3>6. f = wire[1] /\ i = f.i /\ q = f.k /\ o = client.open \cup {i} /\ b = With(client.blocks, i, q)
        BY DEF o, b
    <3>7. pc' = "yielded" /\ f.type = "start"
        BY <2>2, <3>1
    <3> HIDE DEF f, i, q, k, d
    <3> QED
        BY <1>1, <3>3, <3>4, <3>5, <3>6, <3>7, ReadsStart
  <2>3. CASE f.type = "stop"
    <3>1. client' = [client EXCEPT !.open = @ \ {i}]
        BY <1>8, <2>1, <2>3 DEF Reads
    <3>2. i \notin gate.held
        BY <1>6, <1>7, <1>8, <2>3 DEF Resolves
    <3> QED
        BY <1>1, <1>3, <1>8, <2>3, <3>1, <3>2, ReadsStop
  <2>4. CASE f.type = "message_delta"
    <3> DEFINE lostAll == conf.enforce /\ gate.denied > 0 /\ gate.survivors = 0 /\ f.stop = "tool_use"
    <3>1. g.type = "message_delta" /\ g.stop = IF lostAll THEN "end_turn" ELSE f.stop
        BY <2>4 DEF RewriteStop, MessageDelta, Enforced
    <3>2. client' = [client EXCEPT !.stop = g.stop]
        BY <1>8, <3>1 DEF Reads
    <3> HIDE DEF g
    <3>3. client' = [client EXCEPT !.stop = IF lostAll THEN "end_turn" ELSE f.stop]
        BY <3>1, <3>2
    <3> QED
        BY <1>1, <1>3, <1>8, <2>4, <3>3, ReadsDelta
  <2>5. CASE f.type \in {"message_start", "message_stop", "error"}
    <3>1. client' = client /\ gate' = gate /\ attempts' = attempts
        BY <1>8, <2>1, <2>5 DEF Reads
    <3>2. Started(Tail(wire)) = {} /\ Stopped(Tail(wire)) = {} /\ Started(wire) = {} /\ Stopped(wire) = {}
        BY <1>1, <2>5, HeadIs
    <3>3. Coming = wire /\ Coming' = Tail(wire) /\ BlocksOK
        BY <1>1, <1>3, <1>8, Ahead DEF Coming
    <3>4. \A j : Gated(j)' = Gated(j)
        BY <1>3 DEF Gated
    <3>5. BlocksOK'
        BY <1>3, <3>1, <3>2, <3>3, <3>4 DEF BlocksOK
    <3>6. /\ client'.open \cup gate'.held = client.open \cup gate.held
          /\ (DOMAIN client'.blocks \ client'.open) \cup DOMAIN gate'.decided
                \subseteq (DOMAIN client.blocks \ client.open) \cup DOMAIN gate.decided
        BY <3>1
    <3>7. pc' \in {"yielded", "feed"} /\ gate' \in GateSet /\ client' \in ClientSet /\ attempts' \in [Tools -> Nat]
        BY <1>2, <1>8, <3>1
    <3>8. f.type \notin {"start", "stop", "message_delta"}
        BY <2>5
    <3> HIDE DEF f, i, k, d, g
    <3>9. f = wire[1]
        BY DEF f
    <3> QED
        BY <1>1, <1>3, <3>1, <3>5, <3>6, <3>7, <3>8, <3>9, ForwardsInv
  <2> QED
      BY <1>5, <2>2, <2>3, <2>4, <2>5
<1>9. CASE /\ Enforced /\ Holds(f)
           /\ gate' = [gate EXCEPT !.held = @ \cup {i}]
           /\ pc' = "feed" /\ UNCHANGED <<attempts, client>>
  <2>1. f.type = "start" /\ Gated(i)
      BY <1>5, <1>6, <1>9 DEF Holds
  <2>2. gate' = [gate EXCEPT !.held = gate.held \cup {i}]
      BY <1>9
  <2> QED
      BY <1>1, <1>3, <1>9, <2>1, <2>2, HoldsStart
<1>10. CASE /\ Enforced /\ Resolves(f) /\ attempts' = d.att /\ pc' = "yielded"
            /\ gate' = [gate EXCEPT !.held = @ \ {i},
                                    !.survivors = @ + (IF d.allow THEN 1 ELSE 0),
                                    !.denied = @ + (IF d.allow THEN 0 ELSE 1),
                                    !.decided = With(@, i, IF d.allow THEN "allow" ELSE "deny")]
            /\ client' = [client EXCEPT !.blocks = IF d.allow THEN With(@, i, k) ELSE Denial(i)]
  <2>1. f.type = "stop" /\ i \in gate.held
      BY <1>10 DEF Resolves
  <2>2. k \in Tools
      BY <1>6, <1>7, <2>1 DEF IsTool
  <2>3. d.allow \in BOOLEAN /\ attempts' \in [Tools -> Nat]
      BY <1>2, <1>10, <2>2, DecideIs
  <2> DEFINE allow == d.allow
             x == IF allow THEN k ELSE "denial"
             y == IF allow THEN "allow" ELSE "deny"
             b == With(client.blocks, i, x)
             said == With(gate.decided, i, y)
  <2>4. client' = [client EXCEPT !.blocks = b]
      BY <1>10 DEF Denial
  <2>5. gate' = [gate EXCEPT !.held = @ \ {i},
                             !.survivors = @ + (IF allow THEN 1 ELSE 0),
                             !.denied = @ + (IF allow THEN 0 ELSE 1),
                             !.decided = said]
      BY <1>10
  <2>6. pc' = "yielded"
      BY <1>10
  <2> HIDE DEF d
  <2>7. allow \in BOOLEAN
      BY <2>3
  <2> HIDE DEF allow
  <2> QED
      BY <1>1, <1>3, <2>1, <2>3, <2>4, <2>5, <2>6, <2>7, ResolvesStop
<1> QED
    BY <1>4, <1>8, <1>9, <1>10

-----------------------------------------------------------------------------
(* The recorder, and the end of the stream.                                *)

\* What is so while a stream is being served.
LEMMA During ==
    ASSUME ProxyInv, Streaming
    PROVE  /\ conf \in Confs /\ ask \in Asks /\ mandate \subseteq Tools /\ attempts \in [Tools -> Nat]
           /\ source \in SourceSet /\ gate \in GateSet /\ seen \in SeenSet /\ client \in ClientSet
           /\ wire \in Seq(FrameSet) /\ WireOK /\ SourceOK /\ BlocksOK /\ EndOK /\ SeenOK
           /\ pc \notin {"idle", "arrived", "answered", "closing"}
BY DEF ProxyInv, ProxyTypeOK, StreamOK, Streaming

\* An open or a held block is one of the message's.
LEMMA OpenBounded ==
    ASSUME ProxyInv, Streaming
    PROVE  client.open \cup gate.held \subseteq 0..(MaxBlocks - 1)
<1>1. /\ conf \in Confs /\ source \in SourceSet /\ wire \in Seq(FrameSet)
      /\ WireOK /\ SourceOK /\ BlocksOK
    BY During
<1>2. source.next \in Nat /\ source.next <= MaxBlocks /\ MaxBlocks \in Nat
      /\ source.open \subseteq 0..(source.next - 1)
    BY <1>1, ConfIs DEF SourceOK, SourceSet
<1>3. Stopped(Coming) \subseteq Stopped(wire)
  <2>1. CASE pc \in {"yielded", "feed"}
    <3>1. wire # <<>> /\ WireShape(wire)
        BY <1>1, <2>1 DEF WireOK
    <3>2. Stopped(Tail(wire)) \subseteq Stopped(wire)
        BY <1>1, <3>1, TailShape
    <3> QED
        BY <2>1, <3>2 DEF Coming
  <2>2. CASE pc \notin {"yielded", "feed"}
      BY <2>2 DEF Coming
  <2> QED
      BY <2>1, <2>2
<1>4. \A i \in Stopped(wire) : i \in Nat /\ i < source.next
    BY <1>1 DEF Stopped, WireOK
<1>5. client.open \cup gate.held = (source.open \ Started(Coming)) \cup Stopped(Coming)
    BY <1>1 DEF BlocksOK
<1>6. \A i \in client.open \cup gate.held : i \in source.open \/ i \in Stopped(wire)
    BY <1>3, <1>5
<1>7. \A i \in source.open : i \in 0..(MaxBlocks - 1)
    BY <1>2
<1>8. \A i \in Stopped(wire) : i \in 0..(MaxBlocks - 1)
    BY <1>2, <1>4
<1> QED
    BY <1>6, <1>7, <1>8

\* The recorder takes the frame the agent had.
LEMMA FeedInv == ASSUME ProxyInv, Feed PROVE ProxyInv'
<1> DEFINE f == wire[1]
           v == Tail(wire)
           rows == IF ask.compat THEN {} ELSE FrameRows(seen, f)
<1>1. pc \in {"yielded", "feed"} /\ Streaming /\ pc # "stream"
    BY DEF Feed, Streaming
<1>2. /\ conf \in Confs /\ ask \in Asks /\ mandate \subseteq Tools /\ attempts \in [Tools -> Nat]
      /\ source \in SourceSet /\ gate \in GateSet /\ seen \in SeenSet /\ client \in ClientSet
      /\ wire \in Seq(FrameSet) /\ WireOK /\ SourceOK /\ BlocksOK /\ EndOK /\ SeenOK
    BY <1>1, During
<1>3. wire # <<>> /\ WireShape(wire)
    BY <1>1, <1>2 DEF WireOK
<1>4. /\ v \in Seq(FrameSet) /\ Head(wire) = f /\ f \in FrameSet /\ 1 \in DOMAIN wire
      /\ \A n \in DOMAIN v : n + 1 \in DOMAIN wire /\ v[n] = wire[n + 1]
    BY <1>2, <1>3, TailIs
<1>5. WireShape(v)
    BY <1>2, <1>3, TailShape
<1>6. PICK ok \in SUBSET rows : Write(rows, ok)
    BY <1>4 DEF Feed
<1>7. /\ seen' = (IF ask.compat \/ ~conf.recorder THEN seen ELSE Extracts(seen, f))
      /\ wire' = v /\ pc' = "stream"
      /\ conf' = conf /\ mandate' = mandate /\ attempts' = attempts /\ ask' = ask /\ sent' = sent
      /\ source' = source /\ gate' = gate /\ client' = client
    BY <1>4 DEF Feed, proxyVars
<1>8. rows \subseteq {<<"block", f.i>>, <<"api_error", 0>>}
    BY DEF FrameRows
<1>9. conf.recorder => rows \subseteq ledger' \cup lost'
    BY <1>6, WriteIs
<1>10. ledger \subseteq ledger' /\ lost \subseteq lost'
    BY <1>6, WriteIs
<1>11. EvidenceTold' /\ ResultsTold'
  <2>1. <<"evidence", 0>> \notin rows /\ <<"result", 0>> \notin rows
      BY <1>8
  <2>2. UNCHANGED <<conf, ask, sent>> /\ pc \notin {"idle", "arrived", "answered"}
      BY <1>1, <1>7
  <2> HIDE DEF rows
  <2> QED
      BY <1>1, <1>6, <2>1, <2>2, RowsKeep
<1>12. Coming' = v /\ Coming = v
    BY <1>1, <1>7 DEF Coming
<1>13. Extracts(seen, f) \in SeenSet
  <2>1. f.type \in {"start", "stop"} => f.i \in Nat
      BY <1>4, FrameIs
  <2>2. seen \in SeenSet
      BY <1>2
  <2> HIDE DEF f
  <2>3. CASE f.type = "start"
      BY <2>1, <2>2, <2>3 DEF Extracts, SeenSet
  <2>4. CASE f.type = "stop"
      BY <2>1, <2>2, <2>4 DEF Extracts, SeenSet
  <2>5. CASE f.type \notin {"start", "stop"}
      BY <2>2, <2>5 DEF Extracts, SeenSet
  <2> QED
      BY <2>3, <2>4, <2>5
<1>14. /\ Extracts(seen, f).unfed = seen.unfed
       /\ Extracts(seen, f).stopped => seen.stopped \/ f.type = "message_stop"
    BY <1>2 DEF Extracts, SeenSet
<1> HIDE DEF v
<1>15. ProxyTypeOK'
    BY <1>2, <1>4, <1>7, <1>13 DEF ProxyTypeOK, Places
<1>16. WireOK' /\ SourceOK'
  <2>1. SourceOK'
      BY <1>2, <1>7 DEF SourceOK
  <2>2. \A n \in DOMAIN v :
          /\ v[n].type = "start" => v[n].i \in source.open /\ v[n].k = source.kinds[v[n].i + 1]
          /\ v[n].type = "stop" => v[n].i < source.next /\ v[n].i \notin source.open
      BY <1>2, <1>4 DEF WireOK
  <2> QED
      BY <1>5, <1>7, <2>1, <2>2 DEF WireOK
<1>17. BlocksOK'
  <2>1. \A i : Gated(i)' = Gated(i)
      BY <1>7 DEF Gated
  <2> QED
      BY <1>2, <1>7, <1>12, <2>1 DEF BlocksOK
<1>18. EndOK'
  <2>1. \A type : Has(v, type) => Has(wire, type)
      BY <1>4 DEF Has
  <2> QED
      BY <1>2, <1>7, <1>12, <2>1 DEF EndOK
<1>19. SeenOK'
  <2> SUFFICES ASSUME conf.recorder, ~ask.compat
               PROVE  /\ seen'.unfed = {}
                      /\ seen'.stopped => client.stop # None
                      /\ seen'.open = client.open \cup gate.held
                      /\ \A i \in (DOMAIN client.blocks \ client.open) \cup DOMAIN gate.decided :
                            <<"block", i>> \in ledger' \cup lost'
      BY <1>7 DEF SeenOK, Told
  <2>1. /\ seen.unfed = {} /\ (seen.stopped => client.stop # None)
        /\ Extracts(seen, f).open = client.open \cup gate.held
        /\ f.type = "stop" => f.i \in seen.open
        /\ \A i \in (DOMAIN client.blocks \ client.open) \cup DOMAIN gate.decided :
              <<"block", i>> \in ledger \cup lost \/ f = Stop(i)
      BY <1>1, <1>2 DEF SeenOK, Told
  <2>2. f.type = "message_stop" => client.stop # None
      BY <1>2, <1>4 DEF EndOK, Has
  <2>3. ASSUME NEW i, f = Stop(i) PROVE <<"block", i>> \in ledger' \cup lost'
    <3>1. f.type = "stop" /\ f.i = i
        BY <2>3 DEF Stop
    <3>2. <<"block", i>> \in rows
        BY <2>1, <3>1 DEF FrameRows
    <3> QED
        BY <1>9, <3>2
  <2>4. seen' = Extracts(seen, f)
      BY <1>7
  <2> QED
      BY <1>10, <1>14, <2>1, <2>2, <2>3, <2>4
<1>20. StreamOK'
    BY <1>16, <1>17, <1>18, <1>19 DEF StreamOK
<1>21. FreshOK' /\ NothingYet' /\ ClosingOK' /\ BlocksTold'
    BY <1>7 DEF FreshOK, NothingYet, ClosingOK, BlocksTold
<1>22. FramesGated' /\ MessageIsWhole'
    BY <1>7 DEF ProxyInv, FramesGated, MessageIsWhole
<1> QED
    BY <1>11, <1>15, <1>20, <1>21, <1>22 DEF ProxyInv

\* A stream is left, for all but what there is to tell of it.
LEMMA LeavesInv ==
    ASSUME ProxyInv, Streaming, pc' = "closing",
           UNCHANGED <<ask, sent, wire, ledger, lost>>, UNCHANGED proxyVars,
           gate' \in GateSet, gate'.decided = gate.decided, seen' \in SeenSet, ClosingOK',
           NEW f \in FrameSet \cup {None}, source' = [source EXCEPT !.cut = f],
           client' = client \/ client' = [client EXCEPT !.tail = f]
    PROVE  ProxyInv'
<1>1. /\ conf' = conf /\ mandate' = mandate /\ attempts' = attempts /\ ask' = ask /\ sent' = sent
      /\ wire' = wire /\ ledger' = ledger /\ lost' = lost
    BY DEF proxyVars
<1>2. /\ conf \in Confs /\ ask \in Asks /\ mandate \subseteq Tools /\ attempts \in [Tools -> Nat]
      /\ source \in SourceSet /\ client \in ClientSet /\ wire \in Seq(FrameSet)
      /\ pc \notin {"idle", "arrived", "answered", "closing"}
    BY During
<1>8. source' \in SourceSet /\ source'.next = source.next
    BY <1>2 DEF SourceSet
<1>9. /\ client' \in ClientSet /\ client'.blocks = client.blocks /\ client'.open = client.open
      /\ client'.stop = client.stop
    BY <1>2 DEF ClientSet
<1>3. ProxyTypeOK'
    BY <1>1, <1>2, <1>8, <1>9 DEF ProxyTypeOK, Places
<1>4. FreshOK' /\ NothingYet' /\ StreamOK' /\ BlocksTold'
    BY DEF FreshOK, NothingYet, StreamOK, Streaming, BlocksTold
<1>5. ~(Streaming' \/ pc' = "upstream")
    BY DEF Streaming
<1>6. EvidenceTold' /\ ResultsTold'
    BY <1>1, <1>2, <1>5, NoRowsKeep
<1>7. FramesGated' /\ MessageIsWhole'
    BY <1>1, <1>8, <1>9 DEF ProxyInv, FramesGated, MessageIsWhole
<1> QED
    BY <1>3, <1>4, <1>6, <1>7 DEF ProxyInv

\* A cut is a frame the source could have sent next.
LEMMA CutIs ==
    ASSUME ProxyInv, pc = "stream", NEW f \in Cuts, f # None
    PROVE  /\ f \in FrameSet /\ ~ask.compat
           /\ f.type = "start" => f.i \in 0..(MaxBlocks - 1)
           /\ f.type = "stop" => f = Stop(f.i)
           /\ f.type = "message_stop" => client.stop # None
<1>1. Streaming
    BY DEF Streaming
<1>2. conf \in Confs /\ source \in SourceSet /\ SourceOK /\ EndOK
    BY <1>1, During DEF ProxyInv, StreamOK
<1>3. source.next \in Nat /\ source.open \subseteq Nat /\ MaxBlocks \in Nat
    BY <1>2, ConfIs DEF SourceSet
<1>4. ~ask.compat /\ wire = <<>>
    BY DEF Cuts
<1>5. /\ MessageStart \in FrameSet /\ MessageStop \in FrameSet /\ ErrorFrame \in FrameSet
      /\ StopNow \in {"tool_use", "end_turn"} /\ MessageDelta(StopNow) \in FrameSet
    BY DEF FrameSet, StopNow
<1>6. CASE source.phase = "start"
    BY <1>4, <1>5, <1>6 DEF Cuts, MessageStart
<1>7. CASE source.phase = "delta"
  <2>1. f = MessageStop
      BY <1>4, <1>7 DEF Cuts
  <2>2. Coming = <<>>
      BY <1>4 DEF Coming
  <2>3. client.stop # None
      BY <1>2, <1>7, <2>2 DEF EndOK, Has
  <2> QED
      BY <1>4, <1>5, <2>1, <2>3 DEF MessageStop
<1>8. CASE source.phase = "blocks"
  <2>1. \/ \E k \in Kinds : f = Start(source.next, k) /\ source.next < MaxBlocks
        \/ \E i \in source.open : f = Stop(i)
        \/ f = MessageDelta(StopNow)
        \/ f = ErrorFrame
      BY <1>4, <1>8 DEF Cuts
  <2>2. ASSUME NEW k \in Kinds, f = Start(source.next, k), source.next < MaxBlocks
        PROVE  f \in FrameSet /\ f.type = "start" /\ f.i \in 0..(MaxBlocks - 1)
      BY <1>3, <2>2 DEF FrameSet, Start
  <2>3. ASSUME NEW i \in source.open, f = Stop(i)
        PROVE  f \in FrameSet /\ f.type = "stop" /\ f = Stop(f.i)
      BY <1>3, <2>3 DEF FrameSet, Stop
  <2>4. ASSUME f = MessageDelta(StopNow) \/ f = ErrorFrame
        PROVE  f \in FrameSet /\ f.type \in {"message_delta", "error"}
      BY <1>5, <2>4 DEF MessageDelta, ErrorFrame
  <2> QED
      BY <1>4, <2>1, <2>2, <2>3, <2>4
<1>9. CASE source.phase = "stop"
    BY <1>4, <1>9 DEF Cuts
<1> QED
    BY <1>2, <1>6, <1>7, <1>8, <1>9 DEF SourceSet

\* What is left of a stream with no frame at the agent.
LEMMA LeftBetween ==
    ASSUME ProxyInv, pc = "stream", pc' = "closing",
           UNCHANGED <<conf, ask, ledger, lost, seen>>, gate'.decided = gate.decided,
           NEW f \in Cuts, source' = [source EXCEPT !.cut = f],
           client' = client \/ client' = [client EXCEPT !.tail = f]
    PROVE  ClosingOK' /\ f \in FrameSet \cup {None}
<1> SUFFICES ASSUME conf.recorder, ~ask.compat
             PROVE  /\ seen.stopped => client.stop # None
                    /\ seen.open \subseteq 0..(MaxBlocks - 1)
                    /\ \A i \in (DOMAIN client.blocks \ client.open) \cup DOMAIN gate.decided :
                          <<"block", i>> \in ledger \cup lost
                    /\ \A i \in client.open : i \in seen.open
  <2>1. Streaming
      BY DEF Streaming
  <2>2. source \in SourceSet /\ client \in ClientSet
      BY <2>1, During
  <2>3. source'.cut = f
      BY <2>2 DEF SourceSet
  <2>4. client'.blocks = client.blocks /\ client'.open = client.open /\ client'.stop = client.stop
      BY <2>2 DEF ClientSet
  <2>5. f \in FrameSet \cup {None}
      BY CutIs
  <2> HIDE DEF Cuts
  <2> QED
      BY <2>3, <2>4, <2>5, CutIs DEF ClosingOK, Told
<1>1. Streaming
    BY DEF Streaming
<1>2. conf \in Confs /\ source \in SourceSet /\ SourceOK /\ BlocksOK /\ SeenOK /\ WireOK
    BY <1>1, During
<1>3. /\ (seen.stopped => client.stop # None) /\ seen.open = client.open \cup gate.held
      /\ \A i \in (DOMAIN client.blocks \ client.open) \cup DOMAIN gate.decided :
            <<"block", i>> \in ledger \cup lost
    BY <1>2 DEF SeenOK, Told
<1>4. client.open \cup gate.held \subseteq 0..(MaxBlocks - 1)
    BY OpenBounded, <1>1
<1> QED
    BY <1>3, <1>4

LEMMA DisconnectsInv == ASSUME ProxyInv, Disconnects PROVE ProxyInv'
<1> DEFINE f == wire[1]
<1>1. /\ pc \in {"stream", "yielded"} /\ pc' = "closing" /\ Streaming
      /\ UNCHANGED <<ask, sent, wire, gate, ledger, lost, client>> /\ UNCHANGED proxyVars
      /\ conf' = conf
    BY DEF Disconnects, Leaves, Streaming, proxyVars
<1>2. /\ conf \in Confs /\ source \in SourceSet /\ SourceOK /\ SeenOK /\ WireOK
      /\ seen \in SeenSet /\ gate \in GateSet /\ wire \in Seq(FrameSet)
    BY <1>1, During
<1>3. CASE pc = "stream"
  <2>1. seen' = seen
      BY <1>3 DEF Disconnects
  <2>3. PICK c \in Cuts : source' = [source EXCEPT !.cut = c]
      BY <1>3 DEF Disconnects, Leaves
  <2>2. ClosingOK' /\ c \in FrameSet \cup {None}
      BY <1>1, <1>3, <2>1, <2>3, LeftBetween
  <2> QED
      BY <1>1, <1>2, <2>1, <2>2, <2>3, LeavesInv
<1>4. CASE pc = "yielded"
  <2>1. wire # <<>>
      BY <1>2, <1>4 DEF WireOK
  <2>2. Head(wire) = f /\ f \in FrameSet /\ 1 \in DOMAIN wire
      BY <1>2, <2>1, TailIs
  <2>3. seen' = [seen EXCEPT !.unfed = {f}]
      BY <1>4, <2>2 DEF Disconnects
  <2>4. /\ seen' \in SeenSet /\ seen'.unfed = {f} /\ seen'.open = seen.open /\ seen'.stopped = seen.stopped
      BY <1>2, <2>2, <2>3 DEF SeenSet
  <2>6. source' = [source EXCEPT !.cut = None] /\ source'.cut = None
      BY <1>2, <1>4 DEF Disconnects, Leaves, SourceSet
  <2>5. ClosingOK'
    <3> SUFFICES ASSUME conf.recorder, ~ask.compat
                 PROVE  /\ seen.stopped => client.stop # None
                        /\ seen.open \subseteq 0..(MaxBlocks - 1)
                        /\ \A i \in (DOMAIN client.blocks \ client.open) \cup DOMAIN gate.decided :
                              <<"block", i>> \in ledger \cup lost \/ f = Stop(i)
                        /\ \A i \in client.open : i \in seen.open \/ (f.type = "start" /\ f.i = i)
        BY <1>1, <2>4, <2>6 DEF ClosingOK, Told
    <3>1. /\ (seen.stopped => client.stop # None) /\ Extracts(seen, f).open = client.open \cup gate.held
          /\ \A i \in (DOMAIN client.blocks \ client.open) \cup DOMAIN gate.decided :
                <<"block", i>> \in ledger \cup lost \/ f = Stop(i)
        BY <1>2, <1>4 DEF SeenOK, Told
    <3>2. client.open \cup gate.held \subseteq 0..(MaxBlocks - 1)
        BY <1>1, OpenBounded
    <3>3. Extracts(seen, f).open = IF f.type = "start" THEN seen.open \cup {f.i}
                                   ELSE IF f.type = "stop" THEN seen.open \ {f.i} ELSE seen.open
        BY <1>2 DEF Extracts, SeenSet
    <3>4. f.type = "stop" => f.i \in 0..(MaxBlocks - 1)
      <4>1. f.type = "stop" => f.i \in Nat
          BY <2>2, FrameIs
      <4>2. f.type = "stop" => f.i < source.next
          BY <1>2, <2>2 DEF WireOK
      <4>3. source.next \in Nat /\ source.next <= MaxBlocks /\ MaxBlocks \in Nat
          BY <1>2, ConfIs DEF SourceOK, SourceSet
      <4> QED
          BY <4>1, <4>2, <4>3
    <3> HIDE DEF f
    <3>5. seen.open \subseteq 0..(MaxBlocks - 1)
        BY <3>1, <3>2, <3>3, <3>4
    <3>6. \A i \in client.open : i \in seen.open \/ (f.type = "start" /\ f.i = i)
        BY <3>1, <3>3
    <3> QED
        BY <3>1, <3>5, <3>6
  <2> QED
      BY <1>1, <1>2, <2>4, <2>5, <2>6, LeavesInv
<1> QED
    BY <1>1, <1>3, <1>4

LEMMA UpstreamFailsInv == ASSUME ProxyInv, UpstreamFails PROVE ProxyInv'
<1>1. /\ pc = "stream" /\ pc' = "closing" /\ Streaming /\ seen' = seen /\ gate' = gate
      /\ UNCHANGED <<ask, sent, wire, ledger, lost>> /\ UNCHANGED proxyVars
      /\ conf' = conf
    BY DEF UpstreamFails, Leaves, Streaming, proxyVars
<1>5. PICK f \in Cuts : /\ source' = [source EXCEPT !.cut = f]
                        /\ client' = client \/ client' = [client EXCEPT !.tail = f]
    BY DEF UpstreamFails, Leaves
<1>2. seen \in SeenSet /\ gate \in GateSet
    BY <1>1, During
<1>3. ClosingOK' /\ f \in FrameSet \cup {None}
    BY <1>1, <1>5, LeftBetween
<1> QED
    BY <1>1, <1>2, <1>3, <1>5, LeavesInv

LEMMA StreamEndsInv == ASSUME ProxyInv, StreamEnds PROVE ProxyInv'
<1>1. /\ pc = "stream" /\ pc' = "closing" /\ Streaming /\ seen' = seen
      /\ gate' = [gate EXCEPT !.held = {}]
      /\ UNCHANGED <<ask, sent, wire, ledger, lost>> /\ UNCHANGED proxyVars
      /\ conf' = conf
    BY DEF StreamEnds, Leaves, Streaming, proxyVars
<1>5. PICK f \in Cuts : /\ source' = [source EXCEPT !.cut = f]
                        /\ client' = client \/ client' = [client EXCEPT !.tail = f]
    BY DEF StreamEnds, Leaves
<1>2. seen \in SeenSet /\ gate \in GateSet
    BY <1>1, During
<1>3. gate' \in GateSet /\ gate'.decided = gate.decided
    BY <1>1, <1>2 DEF GateSet
<1>4. ClosingOK' /\ f \in FrameSet \cup {None}
    BY <1>1, <1>3, <1>5, LeftBetween
<1> QED
    BY <1>1, <1>2, <1>3, <1>4, <1>5, LeavesInv

\* What the recorder writes when it closes is what was cut short.
LEMMA CloseStreamInv == ASSUME ProxyInv, CloseStream PROVE ProxyInv'
<1> DEFINE last == IF source.cut = None THEN seen ELSE Extracts(seen, source.cut)
           cut == source.cut
<1>1. PICK ok \in SUBSET CloseRows : Write(CloseRows, ok)
    BY DEF CloseStream
<1>2. /\ pc = "closing" /\ pc' = "answered"
      /\ conf' = conf /\ mandate' = mandate /\ attempts' = attempts /\ ask' = ask /\ sent' = sent
      /\ wire' = wire /\ source' = source /\ gate' = gate /\ seen' = seen /\ client' = client
    BY DEF CloseStream, proxyVars
<1>3. ledger \subseteq ledger' /\ lost \subseteq lost'
    BY <1>1, WriteIs
<1>4. conf.recorder => CloseRows \subseteq ledger' \cup lost'
    BY <1>1, WriteIs
<1>5. ProxyTypeOK'
    BY <1>2 DEF ProxyInv, ProxyTypeOK, Places
<1>6. FreshOK' /\ NothingYet' /\ StreamOK' /\ ClosingOK'
    BY <1>2 DEF FreshOK, NothingYet, StreamOK, Streaming, ClosingOK
<1>7. EvidenceTold' /\ ResultsTold'
  <2>1. <<"evidence", 0>> \notin CloseRows /\ <<"result", 0>> \notin CloseRows
      BY DEF CloseRows, AbortedRows, FrameRows
  <2>2. UNCHANGED <<conf, ask, sent>> /\ pc \notin {"idle", "arrived", "answered"}
      BY <1>2
  <2>3. ~(Streaming' \/ pc' = "upstream")
      BY <1>2 DEF Streaming
  <2> QED
      BY <1>1, <2>1, <2>2, <2>3, RowsKeep
<1>8. BlocksTold'
  <2> SUFFICES ASSUME conf.recorder, ~ask.compat
               PROVE  /\ \A i \in (DOMAIN client.blocks \ client.open) \cup DOMAIN gate.decided :
                            <<"block", i>> \in ledger' \cup lost' \/ Stop(i) \in seen.unfed
                      /\ \A i \in client.open :
                            \/ <<"aborted", i>> \in ledger' \cup lost'
                            \/ cut = Stop(i) /\ <<"block", i>> \in ledger' \cup lost'
                            \/ \E f \in seen.unfed : f.type = "start" /\ f.i = i
                      /\ client.stop = None /\ seen.started =>
                            \E i \in -1..(MaxBlocks - 1) : <<"aborted", i>> \in ledger' \cup lost'
      BY <1>2 DEF BlocksTold, Told
  <2>1. /\ seen.stopped => client.stop # None
        /\ seen.open \subseteq 0..(MaxBlocks - 1)
        /\ \A i \in (DOMAIN client.blocks \ client.open) \cup DOMAIN gate.decided :
              <<"block", i>> \in ledger \cup lost \/ Stop(i) \in seen.unfed
        /\ \A i \in client.open : i \in seen.open \/ \E f \in seen.unfed : f.type = "start" /\ f.i = i
        /\ cut # None => /\ cut.type = "start" => cut.i \in 0..(MaxBlocks - 1)
                         /\ cut.type = "stop" => cut = Stop(cut.i)
                         /\ cut.type = "message_stop" => client.stop # None
      BY <1>2 DEF ProxyInv, ClosingOK, Told
  <2>3. conf \in Confs /\ seen \in SeenSet
      BY DEF ProxyInv, ProxyTypeOK
  <2>4. MaxBlocks \in Nat
      BY <2>3, ConfIs
  \* What the extractor knows once the last frame is dispatched.
  <2>6. /\ AbortedRows(last) \subseteq ledger' \cup lost'
        /\ cut # None => FrameRows(seen, cut) \subseteq ledger' \cup lost'
      BY <1>4 DEF CloseRows
  <2>7. /\ last.open \subseteq 0..(MaxBlocks - 1)
        /\ seen.started => last.started
        /\ last.stopped => client.stop # None
        /\ \A i \in seen.open : i \in last.open \/ (cut # None /\ cut.type = "stop" /\ cut.i = i)
    <3>1. CASE cut = None
        BY <2>1, <3>1
    <3>2. CASE cut # None /\ cut.type = "start"
      <4>1. /\ last.open = seen.open \cup {cut.i} /\ last.started = seen.started
            /\ last.stopped = seen.stopped
          BY <2>3, <3>2 DEF Extracts, SeenSet
      <4> QED
          BY <2>1, <3>2, <4>1
    <3>3. CASE cut # None /\ cut.type = "stop"
      <4>1. /\ last.open = seen.open \ {cut.i} /\ last.started = seen.started
            /\ last.stopped = seen.stopped
          BY <2>3, <3>3 DEF Extracts, SeenSet
      <4> QED
          BY <2>1, <3>3, <4>1
    <3>4. CASE cut # None /\ cut.type = "message_start"
      <4>1. last.open = seen.open /\ last.started = TRUE /\ last.stopped = seen.stopped
          BY <2>3, <3>4 DEF Extracts, SeenSet
      <4> QED
          BY <2>1, <4>1
    <3>5. CASE cut # None /\ cut.type = "message_stop"
      <4>1. last.open = seen.open /\ last.started = seen.started
          BY <2>3, <3>5 DEF Extracts, SeenSet
      <4> QED
          BY <2>1, <3>5, <4>1
    <3>6. CASE cut # None /\ cut.type \notin {"start", "stop", "message_start", "message_stop"}
      <4>1. last = seen
          BY <3>6 DEF Extracts
      <4> QED
          BY <2>1, <4>1
    <3> QED
        BY <3>1, <3>2, <3>3, <3>4, <3>5, <3>6
  <2> HIDE DEF last
  <2>2. \A i \in last.open : <<"aborted", i>> \in ledger' \cup lost'
      BY <2>6 DEF AbortedRows
  <2>8. ASSUME NEW i \in client.open, i \in seen.open
        PROVE  \/ <<"aborted", i>> \in ledger' \cup lost'
               \/ cut = Stop(i) /\ <<"block", i>> \in ledger' \cup lost'
    <3>1. CASE i \in last.open
        BY <2>2, <3>1
    <3>2. CASE cut # None /\ cut.type = "stop" /\ cut.i = i
      <4>1. <<"block", i>> \in FrameRows(seen, cut)
          BY <2>8, <3>2 DEF FrameRows
      <4> QED
          BY <2>1, <2>6, <3>2, <4>1
    <3> QED
        BY <2>7, <2>8, <3>1, <3>2
  <2>5. ASSUME client.stop = None, seen.started
        PROVE  \E i \in -1..(MaxBlocks - 1) : <<"aborted", i>> \in ledger' \cup lost'
    <3>1. CASE last.open # {}
      <4>1. PICK i : i \in last.open
          BY <3>1
      <4>2. i \in -1..(MaxBlocks - 1)
          BY <2>4, <2>7, <4>1
      <4> QED
          BY <2>2, <4>1, <4>2
    <3>2. CASE last.open = {}
      <4>1. <<"aborted", -1>> \in AbortedRows(last)
          BY <2>5, <2>7, <3>2 DEF AbortedRows
      <4>2. -1 \in -1..(MaxBlocks - 1)
          BY <2>4
      <4> QED
          BY <2>6, <4>1, <4>2
    <3> QED
        BY <3>1, <3>2
  <2> QED
      BY <1>3, <2>1, <2>5, <2>8
<1>9. FramesGated' /\ MessageIsWhole'
    BY <1>2 DEF ProxyInv, FramesGated, MessageIsWhole
<1> QED
    BY <1>5, <1>6, <1>7, <1>8, <1>9 DEF ProxyInv

-----------------------------------------------------------------------------
(* The agent proxy: the invariant, and what follows from it.               *)

LEMMA ProxyStep == ProxyInv /\ [Next]_vars => ProxyInv'
<1> SUFFICES ASSUME ProxyInv, [Next]_vars PROVE ProxyInv'
    OBVIOUS
<1>1. ASSUME NEW t \in Tools, Elsewhere(t) PROVE ProxyInv'
    BY <1>1, ElsewhereInv
<1>2. ASSUME NEW m \in SUBSET Tools, Refresh(m) PROVE ProxyInv'
    BY <1>2, RefreshInv
<1>3. ASSUME NEW a \in Asks, Arrive(a) PROVE ProxyInv'
    BY <1>3, ArriveInv
<1>4. CASE Unauthorised
    BY <1>4, UnauthorisedInv
<1>5. CASE GuardSkipped
    BY <1>5, GuardSkippedInv
<1>6. CASE Guard
    BY <1>6, GuardInv
<1>7. CASE NotAMessage \/ Estimate \/ PassThrough \/ UpstreamRefuses
    BY <1>7, RelayedInv
<1>8. CASE Bridge
    BY <1>8, BridgeInv
<1>9. ASSUME NEW s \in BOOLEAN, Optimise(s) PROVE ProxyInv'
    BY <1>9, OptimiseInv
<1>10. CASE SendUpstream
    BY <1>10, SendUpstreamInv
<1>11. ASSUME NEW b \in Bodies, Body(b) PROVE ProxyInv'
    BY <1>11, BodyInv
<1>12. CASE Opens
    BY <1>12, OpensInv
<1>13. CASE AnthropicStarts
    BY <1>13, AnthropicStartsInv
<1>14. ASSUME NEW k \in Kinds, AnthropicBlock(k) PROVE ProxyInv'
    BY <1>14, AnthropicBlockInv
<1>15. ASSUME NEW i \in 0..(MaxBlocks - 1), AnthropicBlockEnds(i) PROVE ProxyInv'
    BY <1>15, AnthropicBlockEndsInv
<1>16. CASE AnthropicEnds
    BY <1>16, AnthropicEndsInv
<1>17. CASE AnthropicStops
    BY <1>17, AnthropicStopsInv
<1>18. CASE AnthropicErrs
    BY <1>18, AnthropicErrsInv
<1>19. CASE TextDelta
    BY <1>19, TextDeltaInv
<1>20. ASSUME NEW t \in Tools, ToolCallDelta(t) PROVE ProxyInv'
    BY <1>20, ToolCallDeltaInv
<1>21. ASSUME NEW finished \in BOOLEAN, TranslatorEnds(finished) PROVE ProxyInv'
    BY <1>21, TranslatorEndsInv
<1>22. CASE Forward
    BY <1>22, ForwardInv
<1>23. CASE Feed
    BY <1>23, FeedInv
<1>24. CASE Disconnects
    BY <1>24, DisconnectsInv
<1>25. CASE UpstreamFails
    BY <1>25, UpstreamFailsInv
<1>26. CASE StreamEnds
    BY <1>26, StreamEndsInv
<1>27. CASE CloseStream
    BY <1>27, CloseStreamInv
<1>28. CASE UNCHANGED vars
  <2>1. /\ mandate' = mandate /\ attempts' = attempts
        /\ UNCHANGED <<conf, ask, pc, sent, ledger, lost, client>> /\ UNCHANGED streamVars
      BY <1>28 DEF vars, streamVars
  <2>2. mandate \subseteq Tools /\ attempts \in [Tools -> Nat]
      BY DEF ProxyInv, ProxyTypeOK
  <2> QED
      BY <2>1, <2>2, ElsewhereKeeps
<1> QED
    BY <1>1, <1>2, <1>3, <1>4, <1>5, <1>6, <1>7, <1>8, <1>9, <1>10, <1>11, <1>12, <1>13, <1>14, <1>15,
       <1>16, <1>17, <1>18, <1>19, <1>20, <1>21, <1>22, <1>23, <1>24, <1>25, <1>26, <1>27, <1>28 DEF Next

\* The inductive invariant of a request served by the proxy.
THEOREM ProxyInvariant == Spec => []ProxyInv
<1> QED
    BY ProxyStart, ProxyStep, PTL DEF Spec

\* A frame the stream was cut in adds no finished call to what the agent has.
LEMMA TailAddsNoCall ==
    ASSUME client \in ClientSet, FramesGated
    PROVE  NothingUngatedReachesAgent
<1> SUFFICES ASSUME conf.enforce
             PROVE  /\ \A i \in DOMAIN client.blocks : IsTool(client.blocks[i]) => Allowed(i)
                    /\ \A i \in DOMAIN ReadsTail.blocks \ ReadsTail.open :
                          IsTool(ReadsTail.blocks[i]) => Allowed(i)
    BY DEF NothingUngatedReachesAgent
<1>1. \A i \in DOMAIN client.blocks : IsTool(client.blocks[i]) => Allowed(i)
    BY DEF FramesGated, Allowed
<1>2. \A i \in DOMAIN ReadsTail.blocks \ ReadsTail.open :
          i \in DOMAIN client.blocks /\ ReadsTail.blocks[i] = client.blocks[i]
  <2> DEFINE f == client.tail
  <2>1. client.tail = None => ReadsTail = client
      BY DEF ReadsTail
  <2>2. CASE client.tail # None /\ f.type = "start"
    <3>1. ReadsTail = [client EXCEPT !.open = @ \cup {f.i}, !.blocks = With(@, f.i, f.k)]
        BY <2>2 DEF ReadsTail, Reads
    <3>2. ReadsTail.open = client.open \cup {f.i} /\ ReadsTail.blocks = With(client.blocks, f.i, f.k)
        BY <3>1 DEF ClientSet
    <3> QED
        BY <3>2 DEF With
  <2>3. CASE client.tail # None /\ f.type # "start"
    <3>1. ReadsTail.blocks = client.blocks
        BY <2>3 DEF ReadsTail, Reads, ClientSet
    <3> QED
        BY <3>1
  <2> QED
      BY <2>1, <2>2, <2>3
<1> QED
    BY <1>1, <1>2

\* An agent has no tool_use block its gate did not decide and allow, though it
\* read the unframed rest of a stream that was cut (SseEnforcer.feed and close,
\* enforce_response_body): for any tools, any threshold of the latch, responses
\* of any length, blocks that overlap in any way, and a cut anywhere.
THEOREM GateHoldsEveryCall == Spec => []NothingUngatedReachesAgent
<1>1. ProxyInv => NothingUngatedReachesAgent
    BY TailAddsNoCall DEF ProxyInv, ProxyTypeOK
<1> QED
    BY <1>1, ProxyInvariant, PTL

\* A message that ended is whole, and its stop_reason speaks of the blocks the
\* gate left in it (_denial_frames, _rewrite_stop_reason, the translator).
THEOREM EndedIsWhole == Spec => []MessageIsWhole
<1>1. ProxyInv => MessageIsWhole
    BY DEF ProxyInv
<1> QED
    BY <1>1, ProxyInvariant, PTL

\* Nothing goes upstream untold, and every block the agent got, was refused or
\* lost half of is on the record or counted as lost (record_evidence,
\* record_request_body, feed_stream_chunk, StreamExtractor.close).
THEOREM RecordIsComplete == Spec => []EverythingTold
<1>1. ProxyInv => EverythingTold
  <2> SUFFICES ASSUME ProxyInv, conf.recorder PROVE EverythingTold
      BY DEF EverythingTold
  <2>1. sent # {} =>
          /\ conf.guard # "off" /\ ask.body # "none" => \A x \in EvidenceRows : Told(x)
          /\ conf.strict => <<"evidence", 0>> \notin lost
      BY DEF ProxyInv, EvidenceTold
  <2>2. pc \in {"upstream", "stream", "yielded", "feed"} /\ ~ask.compat =>
          /\ \A x \in RequestRows : Told(x)
          /\ conf.strict => <<"result", 0>> \notin lost
      BY DEF ProxyInv, ResultsTold, Streaming
  <2>3. BlocksTold
      BY DEF ProxyInv
  <2> QED
      BY <2>1, <2>2, <2>3 DEF EverythingTold, BlocksTold
<1> QED
    BY <1>1, ProxyInvariant, PTL
=============================================================================

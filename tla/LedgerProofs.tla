---------------------------- MODULE LedgerProofs ----------------------------
(***************************************************************************)
(* Proofs about Ledger, for every set of writers and events, any           *)
(* EVERY_EVENTS and any number of faults and crashes.                      *)
(***************************************************************************)
EXTENDS Ledger, FiniteSetTheorems, SequenceTheorems, TLAPS

-----------------------------------------------------------------------------
(* The tables *)

\* An INSERT keeps the table's type, binds its key and no other.
LEMMA InsertType ==
    ASSUME NEW S, NEW D, NEW f \in [D -> S], NEW k, NEW v \in S
    PROVE  /\ Insert(f, k, v) \in [D \cup {k} -> S]
           /\ DOMAIN Insert(f, k, v) = D \cup {k}
           /\ Insert(f, k, v)[k] = v
           /\ \A x \in D : x # k => Insert(f, k, v)[x] = f[x]
BY DEF Insert

\* The rows an OS crash leaves are rows that were there.
LEMMA UpToTxnType ==
    ASSUME NEW S, NEW D, NEW f \in [D -> S], NEW n
    PROVE  /\ DOMAIN UpToTxn(f, n) = {x \in D : f[x].txn <= n}
           /\ UpToTxn(f, n) \in [DOMAIN UpToTxn(f, n) -> S]
           /\ \A x \in DOMAIN UpToTxn(f, n) : UpToTxn(f, n)[x] = f[x]
BY DEF UpToTxn

\* Hashing a digest onto a hash gives a hash.
LEMMA HashType ==
    ASSUME NEW h \in Hashes, NEW s \in Nat, NEW d \in Digests
    PROVE  compute_entry_hash(h, s, d) \in Hashes
BY DEF Hashes, compute_entry_hash

\* _resume's ORDER BY seq DESC finds n when the seqs are 1..n.
LEMMA MaxSeqOfInterval ==
    ASSUME NEW n \in Nat
    PROVE  MaxSeqOf(1..n) = n
<1>1. CASE n = 0
  BY <1>1 DEF MaxSeqOf
<1>2. CASE n # 0
  <2>1. n \in 1..n /\ \A t \in 1..n : t <= n
    BY <1>2
  <2>2. \A s \in 1..n : (\A t \in 1..n : t <= s) => s = n
    BY <2>1
  <2> QED BY <2>1, <2>2 DEF MaxSeqOf
<1> QED BY <1>1, <1>2

\* A set of seqs closed downwards is an initial segment (its cardinality
\* is its last seq).
LEMMA InitialSegment ==
    ASSUME NEW N \in Nat, NEW K \in SUBSET (1..N),
           \A s \in 1..N, t \in K : s < t => s \in K
    PROVE  \E m \in 0..N : K = 1..m
<1> DEFINE m == Cardinality(K)
<1>1. IsFiniteSet(K) /\ m \in Nat /\ m <= N
  <2>1. IsFiniteSet(1..N) /\ Cardinality(1..N) = N
    BY FS_Interval
  <2> QED BY <2>1, FS_Subset, FS_CardinalityType
<1>2. \A x \in K : x <= m
  <2> SUFFICES ASSUME NEW x \in K PROVE x <= m
    OBVIOUS
  <2>1. (1..x) \subseteq K
    OBVIOUS
  <2>2. Cardinality(1..x) = x
    BY FS_Interval
  <2> QED BY <1>1, <2>1, <2>2, FS_Subset
<1>3. \A x \in 1..m : x \in K
  <2> SUFFICES ASSUME NEW x \in 1..m, x \notin K PROVE FALSE
    OBVIOUS
  <2>1. K \subseteq 1..(x - 1)
    BY <1>1
  <2>2. IsFiniteSet(1..(x - 1)) /\ Cardinality(1..(x - 1)) = x - 1
    <3> DEFINE y == x - 1
    <3>1. y \in Int /\ (1 > y => y = 0)
      BY <1>1
    <3> HIDE DEF y
    <3>2. IsFiniteSet(1..y) /\ Cardinality(1..y) = IF 1 > y THEN 0 ELSE y - 1 + 1
      BY <3>1, FS_Interval
    <3>3. IsFiniteSet(1..y) /\ Cardinality(1..y) = y
      BY <3>1, <3>2
    <3> QED BY <3>3 DEF y
  <2>3. m <= x - 1
    BY <2>1, <2>2, FS_Subset
  <2> QED BY <1>1, <2>3
<1> HIDE DEF m
<1>4. \A x : x \in K => x \in 1..m
  BY <1>1, <1>2
<1>5. K = 1..m
  BY <1>3, <1>4
<1> QED BY <1>1, <1>5

-----------------------------------------------------------------------------
(* The chain *)

\* What every step keeps of the chain: the file is one linked run of rows
\* committed in order, and open writers remember a position on it.
ChainInv ==
    /\ TypeOK
    /\ Contiguous
    /\ Linked
    /\ TxnOrder
    /\ HeadsOnChain
    /\ CallsOpen

\* The initial state: no row, no writer.
LEMMA ChainInit == Init => ChainInv
<1> SUFFICES ASSUME Init PROVE ChainInv
  OBVIOUS
<1> USE LedgerAssumption DEF Init
<1>1. DOMAIN rows = {} /\ DOMAIN cps = {}
  OBVIOUS
<1>2. GENESIS_PREV_HASH \in Hashes
  BY DEF GENESIS_PREV_HASH, Hashes
<1>3. TypeOK
  BY <1>1, <1>2 DEF TypeOK, Calls, Windows, EmptyWindow, Fates
<1>4. LastSeq = 0 /\ Contiguous
  BY <1>1 DEF LastSeq, MaxSeqOf, Contiguous
<1>5. Linked /\ TxnOrder /\ HeadsOnChain /\ CallsOpen
  BY <1>1 DEF Linked, TxnOrder, HeadsOnChain, CallsOpen, Idle
<1> QED BY <1>3, <1>4, <1>5 DEF ChainInv

\* What a writer resumes from is a hash on the chain, right before the next
\* free seq.
LEMMA ResumeOnChain ==
    ASSUME ChainInv
    PROVE  /\ ResumeHead \in Hashes
           /\ ResumeNextSeq \in Nat \ {0}
           /\ \/ ResumeNextSeq = 1 /\ ResumeHead = GENESIS_PREV_HASH
              \/ /\ ResumeNextSeq - 1 \in DOMAIN rows
                 /\ ResumeHead = rows[ResumeNextSeq - 1].hash
<1> USE DEF ChainInv, Contiguous
<1>1. CASE DOMAIN rows = {}
  <2>1. LastSeq = 0
    BY <1>1 DEF LastSeq, MaxSeqOf
  <2> QED
    BY <1>1, <2>1 DEF ResumeHead, ResumeNextSeq, GENESIS_PREV_HASH, Hashes
<1>2. CASE DOMAIN rows # {}
  <2>1. LastSeq \in DOMAIN rows
    BY <1>2
  <2>2. rows[LastSeq].hash \in Hashes
    BY <2>1 DEF TypeOK, Rows
  <2> QED
    BY <1>2, <2>1, <2>2 DEF ResumeHead, ResumeNextSeq
<1> QED BY <1>1, <1>2

\* An append in progress is not idle, and what it writes is a digest.
LEMMA StampedType ==
    ASSUME TypeOK, NEW w \in Writers, call[w].step # "idle"
    PROVE  /\ call[w] \in [step : {"insert", "resync"}, drain : BOOLEAN,
                           attempt : {0, 1}, ev : Events, note : BOOLEAN]
           /\ Stamped(w) \in Digests
<1>1. call[w] \in [step : {"insert", "resync"}, drain : BOOLEAN,
                   attempt : {0, 1}, ev : Events, note : BOOLEAN]
  BY DEF TypeOK, Calls, Idle
<1>2. failures[w] \in SUBSET Events
  BY DEF TypeOK
<1> QED BY <1>1, <1>2 DEF Stamped, Digests

\* Steps that touch neither the file nor any writer's memory of the chain.
LEMMA QuietStep ==
    ASSUME ChainInv, TypeOK', CallsOpen',
           UNCHANGED <<rows, txns, head, nextSeq>>,
           \A w \in Writers : up'[w] = "open" => up[w] = "open"
    PROVE  ChainInv'
BY DEF ChainInv, Contiguous, Linked, TxnOrder, HeadsOnChain, LastSeq

\* A failed write keeps the types of what it changes.
LEMMA OnWriteFailureType ==
    ASSUME TypeOK, NEW w \in Writers, call[w].step # "idle", OnWriteFailure(w)
    PROVE  /\ call' \in [Writers -> Calls]
           /\ failures' \in [Writers -> SUBSET Events]
           /\ fate' \in [Events -> Fates]
<1>1. call[w] \in [step : {"insert", "resync"}, drain : BOOLEAN,
                   attempt : {0, 1}, ev : Events, note : BOOLEAN]
  BY StampedType
<1>2. CASE call[w].drain
  BY <1>1, <1>2 DEF TypeOK, OnWriteFailure, AfterDrain, Calls
<1>3. CASE ~call[w].drain
  BY <1>1, <1>3 DEF TypeOK, OnWriteFailure, Calls, Fates
<1> QED BY <1>1, <1>2, <1>3

\* Opening and resynchronising put the writer at the end of the chain.
LEMMA OpenChain ==
    ASSUME ChainInv, NEW w \in Writers, Open(w)
    PROVE  ChainInv'
<1>1. TypeOK'
  BY ResumeOnChain DEF ChainInv, TypeOK, Open, disk, bounds, Windows, EmptyWindow
<1>2. Contiguous' /\ Linked' /\ TxnOrder'
  BY DEF ChainInv, Open, disk, Contiguous, Linked, TxnOrder, LastSeq
<1>3. HeadsOnChain'
  BY ResumeOnChain DEF ChainInv, TypeOK, Open, disk, HeadsOnChain
<1>4. CallsOpen'
  BY DEF ChainInv, TypeOK, Open, CallsOpen
<1> QED BY <1>1, <1>2, <1>3, <1>4 DEF ChainInv

LEMMA ResyncChain ==
    ASSUME ChainInv, NEW w \in Writers, Resync(w)
    PROVE  ChainInv'
<1>1. TypeOK'
  <2>1. call' \in [Writers -> Calls]
    <3>1. call[w] \in [step : {"insert", "resync"}, drain : BOOLEAN,
                       attempt : {0, 1}, ev : Events, note : BOOLEAN]
      BY StampedType DEF ChainInv, Resync
    <3> QED BY <3>1 DEF ChainInv, TypeOK, Resync, Calls
  <2> QED
    BY <2>1, ResumeOnChain
    DEF ChainInv, TypeOK, Resync, disk, checkpointer, bounds
<1>2. Contiguous' /\ Linked' /\ TxnOrder'
  BY DEF ChainInv, Resync, disk, Contiguous, Linked, TxnOrder, LastSeq
<1>3. HeadsOnChain'
  BY ResumeOnChain DEF ChainInv, TypeOK, Resync, disk, HeadsOnChain
<1>4. CallsOpen'
  BY DEF ChainInv, TypeOK, Resync, CallsOpen
<1> QED BY <1>1, <1>2, <1>3, <1>4 DEF ChainInv

\* A committed row extends the chain by one: the only free seq a writer can
\* reach is the one after the last row, and its head is then the last hash.
LEMMA CommitRowChain ==
    ASSUME ChainInv, NEW w \in Writers, CommitRow(w)
    PROVE  ChainInv'
<1> DEFINE seq == nextSeq[w]
           hash == compute_entry_hash(head[w], seq, Stamped(w))
           row == [prev |-> head[w], hash |-> hash, digest |-> Stamped(w),
                   txn |-> txns + 1]
<1>1. /\ seq \in Nat \ {0} /\ head[w] \in Hashes /\ txns \in Nat
      /\ rows \in [DOMAIN rows -> Rows]
  BY DEF ChainInv, TypeOK
<1>2. Stamped(w) \in Digests /\ hash \in Hashes /\ row \in Rows
  <2>1. call[w].step # "idle"
    BY DEF CommitRow
  <2>2. Stamped(w) \in Digests
    BY <2>1, StampedType DEF ChainInv
  <2>3. hash \in Hashes
    BY <1>1, <2>2, HashType
  <2> QED BY <1>1, <2>2, <2>3 DEF Rows
<1>3. /\ rows' \in [DOMAIN rows \cup {seq} -> Rows]
      /\ DOMAIN rows' = DOMAIN rows \cup {seq}
      /\ rows'[seq] = row
      /\ \A s \in DOMAIN rows : s # seq => rows'[s] = rows[s]
  <2>1. rows' = Insert(rows, seq, row)
    BY DEF CommitRow
  <2> HIDE DEF row, seq
  <2> QED BY <1>1, <1>2, <2>1 DEF Insert
<1>4. seq \notin DOMAIN rows
  BY DEF CommitRow, SeqFree
<1>0. up[w] = "open"
  BY DEF ChainInv, CallsOpen, CommitRow
<1>5. seq = LastSeq + 1
  BY <1>0, <1>1, <1>4 DEF ChainInv, Contiguous, HeadsOnChain
<1>6. head[w] = IF seq = 1 THEN GENESIS_PREV_HASH ELSE rows[seq - 1].hash
  <2>1. CASE seq = 1
    BY <2>1, <1>0, <1>5 DEF ChainInv, Contiguous, HeadsOnChain
  <2>2. CASE seq # 1
    BY <2>2, <1>0, <1>1 DEF ChainInv, HeadsOnChain
  <2> QED BY <2>1, <2>2
<1>7. DOMAIN rows' = 1..seq /\ LastSeq' = seq
  <2>1. DOMAIN rows' = 1..seq
    BY <1>1, <1>3, <1>5 DEF ChainInv, Contiguous
  <2> QED BY <1>1, <2>1, MaxSeqOfInterval DEF LastSeq
<1>8. Contiguous'
  BY <1>1, <1>7 DEF Contiguous
<1>9. Linked'
  <2> SUFFICES ASSUME NEW s \in DOMAIN rows'
               PROVE  /\ rows'[s].prev =
                            IF s = 1 THEN GENESIS_PREV_HASH
                            ELSE rows'[s - 1].hash
                      /\ rows'[s].hash =
                            compute_entry_hash(rows'[s].prev, s, rows'[s].digest)
    BY DEF Linked
  <2>1. CASE s = seq
    <3>1. s # 1 => s - 1 \in DOMAIN rows /\ s - 1 # seq
      BY <2>1, <1>1, <1>5 DEF ChainInv, Contiguous
    <3> QED BY <2>1, <3>1, <1>3, <1>6
  <2>2. CASE s # seq
    <3>1. s \in DOMAIN rows /\ s \in Nat
      BY <2>2, <1>3, <1>7
    <3>2. s # 1 => s - 1 \in DOMAIN rows /\ s - 1 # seq
      BY <3>1, <1>1, <1>5 DEF ChainInv, Contiguous
    <3> QED BY <2>2, <3>1, <3>2, <1>3 DEF ChainInv, Linked
  <2> QED BY <2>1, <2>2
<1>10. TxnOrder'
  <2>1. txns' = txns + 1
    BY DEF CommitRow
  <2>2. rows'[seq].txn = txns + 1
    BY <1>3
  <2>3. \A s \in DOMAIN rows :
           rows[s].txn \in Nat /\ rows'[s].txn = rows[s].txn /\ s # seq
           /\ rows[s].txn <= txns /\ s < seq
    BY <1>1, <1>3, <1>4, <1>5 DEF Rows, ChainInv, TxnOrder, Contiguous
  <2>4. \A s \in DOMAIN rows' : rows'[s].txn <= txns'
    BY <1>1, <1>3, <2>1, <2>2, <2>3
  <2>5. \A s, t \in DOMAIN rows' : s < t => rows'[s].txn < rows'[t].txn
    <3> SUFFICES ASSUME NEW s \in DOMAIN rows', NEW t \in DOMAIN rows', s < t
                 PROVE  rows'[s].txn < rows'[t].txn
      OBVIOUS
    <3>1. s \in DOMAIN rows
      BY <1>1, <1>3, <1>7
    <3>2. CASE t = seq
      BY <1>1, <3>1, <3>2, <2>2, <2>3
    <3>3. CASE t \in DOMAIN rows
      BY <3>1, <3>3, <2>3 DEF ChainInv, TxnOrder
    <3> QED BY <1>3, <3>2, <3>3
  <2> QED BY <2>4, <2>5 DEF TxnOrder
<1>11. TypeOK'
  <2>1. DOMAIN rows' \subseteq Nat \ {0} /\ rows' \in [DOMAIN rows' -> Rows]
    BY <1>1, <1>3, <1>7
  <2>2. call[w] \in [step : {"insert", "resync"}, drain : BOOLEAN,
                     attempt : {0, 1}, ev : Events, note : BOOLEAN]
    BY StampedType DEF ChainInv, CommitRow
  <2>3. head' \in [Writers -> Hashes] /\ nextSeq' \in [Writers -> Nat \ {0}]
        /\ txns' \in Nat
    BY <1>1, <1>2 DEF ChainInv, TypeOK, CommitRow
  <2>4. /\ call' \in [Writers -> Calls]
        /\ failures' \in [Writers -> SUBSET Events]
        /\ fate' \in [Events -> Fates]
        /\ noting' \in [Writers -> Nat]
    <3>1. CASE call[w].drain
      BY <2>2, <3>1 DEF ChainInv, TypeOK, CommitRow, AfterDrain, Calls
    <3>2. CASE ~call[w].drain
      BY <1>1, <2>2, <3>2 DEF ChainInv, TypeOK, CommitRow, Calls, Fates
    <3> QED BY <2>2, <3>1, <3>2
  <2> QED
    BY <2>1, <2>3, <2>4 DEF ChainInv, TypeOK, CommitRow, bounds
<1>12. HeadsOnChain'
  <2> SUFFICES ASSUME NEW x \in Writers, up'[x] = "open"
               PROVE  \/ nextSeq'[x] = 1 /\ head'[x] = GENESIS_PREV_HASH
                      \/ /\ nextSeq'[x] - 1 \in DOMAIN rows'
                         /\ head'[x] = rows'[nextSeq'[x] - 1].hash
    BY DEF HeadsOnChain
  <2>1. CASE x = w
    <3>1. nextSeq'[w] = seq + 1 /\ head'[w] = hash
      BY DEF ChainInv, TypeOK, CommitRow
    <3> QED BY <2>1, <3>1, <1>1, <1>3
  <2>2. CASE x # w
    <3>1. nextSeq'[x] = nextSeq[x] /\ head'[x] = head[x] /\ up[x] = "open"
      BY <2>2 DEF ChainInv, TypeOK, CommitRow
    <3> QED BY <3>1, <1>3, <1>4 DEF ChainInv, HeadsOnChain
  <2> QED BY <2>1, <2>2
<1>13. CallsOpen'
  <2>1. \A x \in Writers : x # w => call'[x] = call[x]
    BY DEF ChainInv, TypeOK, CommitRow, AfterDrain
  <2>2. up' = up
    BY DEF CommitRow
  <2> QED BY <1>0, <2>1, <2>2 DEF ChainInv, CallsOpen
<1> QED BY <1>8, <1>9, <1>10, <1>11, <1>12, <1>13 DEF ChainInv

\* Starting an append, refusing one and failing one leave the chain alone.
LEMMA AppendClosedChain ==
    ASSUME ChainInv, NEW w \in Writers, NEW e \in Events, AppendClosed(w, e)
    PROVE  ChainInv'
<1>1. TypeOK'
  BY DEF ChainInv, TypeOK, AppendClosed, disk, chain, checkpointer, bounds, Fates
<1>2. CallsOpen'
  BY DEF ChainInv, CallsOpen, AppendClosed
<1> QED BY <1>1, <1>2, QuietStep DEF AppendClosed, disk, chain

LEMMA BeginAppendChain ==
    ASSUME ChainInv, NEW w \in Writers, NEW e \in Events, NEW note \in BOOLEAN,
           BeginAppend(w, e, note)
    PROVE  ChainInv'
<1>0. (failures[w] # {}) \in BOOLEAN
  OBVIOUS
<1>1. call' \in [Writers -> Calls]
  BY <1>0 DEF ChainInv, TypeOK, BeginAppend, Calls
<1>2. TypeOK'
  BY <1>1
  DEF ChainInv, TypeOK, BeginAppend, disk, chain, checkpointer, bounds, Fates
<1>3. CallsOpen'
  BY DEF ChainInv, TypeOK, CallsOpen, BeginAppend
<1> QED BY <1>2, <1>3, QuietStep DEF BeginAppend, disk, chain

LEMMA CollideChain ==
    ASSUME ChainInv, NEW w \in Writers, Collide(w)
    PROVE  ChainInv'
<1>1. call' \in [Writers -> Calls]
  <2>1. call[w] \in [step : {"insert", "resync"}, drain : BOOLEAN,
                     attempt : {0, 1}, ev : Events, note : BOOLEAN]
    BY StampedType DEF ChainInv, Collide
  <2> QED BY <2>1 DEF ChainInv, TypeOK, Collide, Calls
<1>2. TypeOK'
  BY <1>1 DEF ChainInv, TypeOK, Collide, disk, chain, checkpointer, bounds
<1>3. CallsOpen'
  BY DEF ChainInv, TypeOK, CallsOpen, Collide
<1> QED BY <1>2, <1>3, QuietStep DEF Collide, disk, chain

LEMMA WriteFailureChain ==
    ASSUME ChainInv, NEW w \in Writers, CollideAgain(w) \/ WriteFault(w)
    PROVE  ChainInv'
<1>1. call[w].step # "idle" /\ OnWriteFailure(w)
  BY DEF CollideAgain, WriteFault
<1>2. TypeOK'
  BY <1>1, OnWriteFailureType, LedgerAssumption
  DEF ChainInv, TypeOK, CollideAgain, WriteFault, disk, chain, checkpointer, bounds
<1>3. CallsOpen'
  BY <1>1 DEF ChainInv, TypeOK, CallsOpen, CollideAgain, WriteFault,
              OnWriteFailure, AfterDrain
<1> QED BY <1>2, <1>3, QuietStep DEF CollideAgain, WriteFault, disk, chain

\* A checkpoint adds a transaction and no row.
LEMMA CheckpointStep ==
    ASSUME ChainInv, TypeOK', CallsOpen', UNCHANGED <<rows, head, nextSeq>>,
           txns' = txns \/ txns' = txns + 1,
           \A w \in Writers : up'[w] = "open" => up[w] = "open"
    PROVE  ChainInv'
<1>1. TxnOrder'
  <2>1. txns \in Nat /\ \A s \in DOMAIN rows : rows[s].txn \in Nat
    BY DEF ChainInv, TypeOK, Rows
  <2> QED BY <2>1 DEF ChainInv, TxnOrder
<1> QED BY <1>1 DEF ChainInv, Contiguous, Linked, HeadsOnChain, LastSeq

\* Emitting keeps the checkpoint table's type.
LEMMA EmitType ==
    ASSUME TypeOK, NEW w \in Writers, NEW v \in Windows, Emit(w, v)
    PROVE  /\ DOMAIN cps' \subseteq Nat
           /\ cps' \in [DOMAIN cps' -> Checkpoints]
           /\ txns' = txns + 1
<1> DEFINE cp == [seq_start |-> v.start, chain_head |-> head[w], txn |-> txns + 1]
<1>1. cp \in Checkpoints /\ v.end \in Nat
  BY DEF TypeOK, Checkpoints, Windows
<1>2. CASE v.end \in DOMAIN cps
  BY <1>2 DEF TypeOK, Emit
<1>3. CASE v.end \notin DOMAIN cps
  <2>1. cps' = Insert(cps, v.end, cp)
    BY <1>3 DEF Emit
  <2> HIDE DEF cp
  <2> QED BY <1>1, <2>1 DEF TypeOK, Emit, Insert
<1> QED BY <1>2, <1>3

LEMMA NoteChain ==
    ASSUME ChainInv, NEW w \in Writers, Note(w)
    PROVE  ChainInv'
<1> DEFINE v == [start |-> IF window[w].start = 0 THEN noting[w]
                           ELSE window[w].start,
                 end |-> noting[w], count |-> window[w].count + 1]
<1>1. v \in Windows /\ EmptyWindow \in Windows
  BY DEF ChainInv, TypeOK, Windows, EmptyWindow
<1>2. /\ DOMAIN cps' \subseteq Nat
      /\ cps' \in [DOMAIN cps' -> Checkpoints]
      /\ txns' = txns \/ txns' = txns + 1
  <2>1. CASE Emit(w, v)
    BY <1>1, <2>1, EmitType DEF ChainInv
  <2>2. CASE UNCHANGED <<cps, txns>>
    BY <2>2 DEF ChainInv, TypeOK
  <2> QED BY <2>1, <2>2 DEF Note
<1>3. window' \in [Writers -> Windows] /\ noting' \in [Writers -> Nat]
  BY <1>1 DEF ChainInv, TypeOK, Note
<1>4. TypeOK'
  <2>1. txns' \in Nat /\ faults' \in 0..MaxFaults
    BY <1>2, LedgerAssumption DEF ChainInv, TypeOK, Note
  <2> QED BY <1>2, <1>3, <2>1 DEF ChainInv, TypeOK, Note, chain
<1>5. CallsOpen'
  BY DEF ChainInv, CallsOpen, Note
<1> QED BY <1>2, <1>4, <1>5, CheckpointStep DEF Note, chain

LEMMA CloseChain ==
    ASSUME ChainInv, NEW w \in Writers, Close(w)
    PROVE  ChainInv'
<1>1. window[w] \in Windows /\ EmptyWindow \in Windows
  BY DEF ChainInv, TypeOK, Windows, EmptyWindow
<1>2. /\ DOMAIN cps' \subseteq Nat
      /\ cps' \in [DOMAIN cps' -> Checkpoints]
      /\ txns' = txns \/ txns' = txns + 1
  <2>1. CASE Emit(w, window[w])
    BY <1>1, <2>1, EmitType DEF ChainInv
  <2>2. CASE UNCHANGED <<cps, txns>>
    BY <2>2 DEF ChainInv, TypeOK
  <2> QED BY <2>1, <2>2 DEF Close
<1>3. /\ window' \in [Writers -> Windows]
      /\ fate' \in [Events -> Fates]
      /\ up' \in [Writers -> {"down", "open", "closed"}]
  BY <1>1 DEF ChainInv, TypeOK, Close, Fates
<1>4. TypeOK'
  <2>1. txns' \in Nat /\ faults' \in 0..MaxFaults
    BY <1>2, LedgerAssumption DEF ChainInv, TypeOK, Close
  <2> QED BY <1>2, <1>3, <2>1 DEF ChainInv, TypeOK, Close, chain
<1>5. CallsOpen'
  BY DEF ChainInv, TypeOK, CallsOpen, Close, Idle
<1>6. \A x \in Writers : up'[x] = "open" => up[x] = "open"
  BY DEF ChainInv, TypeOK, Close
<1> QED BY <1>2, <1>4, <1>5, <1>6, CheckpointStep DEF Close, chain

LEMMA CrashChain ==
    ASSUME ChainInv, NEW w \in Writers, Crash(w)
    PROVE  ChainInv'
<1>1. TypeOK'
  BY LedgerAssumption
  DEF ChainInv, TypeOK, Crash, disk, chain, Calls, Windows, EmptyWindow, Fates
<1>2. CallsOpen'
  BY DEF ChainInv, TypeOK, CallsOpen, Crash, Idle
<1>3. \A x \in Writers : up'[x] = "open" => up[x] = "open"
  BY DEF ChainInv, TypeOK, Crash
<1> QED BY <1>1, <1>2, <1>3, QuietStep DEF Crash, disk, chain

\* An OS crash leaves rows 1..m for some m: the rows were committed in order.
LEMMA OSCrashPrefix ==
    ASSUME ChainInv, NEW n \in Nat, OSCrash(n)
    PROVE  \E m \in 0..LastSeq :
              /\ DOMAIN rows' = 1..m
              /\ \A s \in 1..m : rows'[s] = rows[s]
<1> DEFINE K == {s \in DOMAIN rows : rows[s].txn <= n}
<1>1. /\ LastSeq \in Nat /\ DOMAIN rows = 1..LastSeq
      /\ rows \in [DOMAIN rows -> Rows]
      /\ \A s \in DOMAIN rows : rows[s].txn \in Nat
      /\ \A s, t \in DOMAIN rows : s < t => rows[s].txn < rows[t].txn
  BY DEF ChainInv, TypeOK, Contiguous, TxnOrder, Rows
<1>2. DOMAIN rows' = K /\ \A s \in K : rows'[s] = rows[s]
  BY DEF OSCrash, UpToTxn
<1>3. \A s \in 1..LastSeq, t \in K : s < t => s \in K
  BY <1>1
<1>4. PICK m \in 0..LastSeq : K = 1..m
  BY <1>1, <1>3, InitialSegment
<1> QED BY <1>2, <1>4

LEMMA OSCrashChain ==
    ASSUME ChainInv, NEW n \in 0..txns, OSCrash(n)
    PROVE  ChainInv'
<1>0. n \in Nat /\ LastSeq \in Nat /\ DOMAIN rows = 1..LastSeq
  BY DEF ChainInv, TypeOK, Contiguous
<1>1. PICK m \in 0..LastSeq : /\ DOMAIN rows' = 1..m
                              /\ \A s \in 1..m : rows'[s] = rows[s]
  BY <1>0, OSCrashPrefix
<1>2. LastSeq' = m
  BY <1>0, <1>1, MaxSeqOfInterval DEF LastSeq
<1>3. Contiguous'
  BY <1>0, <1>1, <1>2 DEF Contiguous
<1>4. Linked'
  <2> SUFFICES ASSUME NEW s \in 1..m
               PROVE  /\ rows'[s].prev =
                            IF s = 1 THEN GENESIS_PREV_HASH
                            ELSE rows'[s - 1].hash
                      /\ rows'[s].hash =
                            compute_entry_hash(rows'[s].prev, s, rows'[s].digest)
    BY <1>1 DEF Linked
  <2>1. s \in DOMAIN rows /\ (s # 1 => s - 1 \in 1..m)
    BY <1>0
  <2> QED BY <2>1, <1>1 DEF ChainInv, Linked
<1>5. /\ rows' \in [DOMAIN rows' -> Rows]
      /\ cps' \in [DOMAIN cps' -> Checkpoints] /\ DOMAIN cps' \subseteq Nat
  BY UpToTxnType DEF ChainInv, TypeOK, OSCrash, UpToTxn
<1>6. TypeOK'
  BY <1>0, <1>1, <1>5, LedgerAssumption
  DEF ChainInv, TypeOK, OSCrash, chain, Calls, Windows, EmptyWindow, Fates
<1>7. TxnOrder'
  <2>1. \A s \in DOMAIN rows' : rows'[s].txn <= n
    BY DEF OSCrash, UpToTxn
  <2>2. txns' = n
    BY DEF OSCrash
  <2> QED BY <1>0, <1>1, <2>1, <2>2 DEF ChainInv, TxnOrder
<1>8. HeadsOnChain' /\ CallsOpen'
  BY DEF OSCrash, HeadsOnChain, CallsOpen, Idle
<1> QED BY <1>3, <1>4, <1>6, <1>7, <1>8 DEF ChainInv

\* Every step keeps the chain invariant.
LEMMA ChainStep == ChainInv /\ [Next]_vars => ChainInv'
<1> SUFFICES ASSUME ChainInv, [Next]_vars PROVE ChainInv'
  OBVIOUS
<1>1. ASSUME NEW w \in Writers, WriterStep(w) PROVE ChainInv'
  <2>1. CASE Open(w)
    BY <2>1, OpenChain
  <2>2. CASE \E e \in Events : AppendClosed(w, e)
    BY <2>2, AppendClosedChain
  <2>3. CASE \E e \in Events, note \in BOOLEAN : BeginAppend(w, e, note)
    BY <2>3, BeginAppendChain
  <2>4. CASE CommitRow(w)
    BY <2>4, CommitRowChain
  <2>5. CASE Collide(w)
    BY <2>5, CollideChain
  <2>6. CASE Resync(w)
    BY <2>6, ResyncChain
  <2>7. CASE CollideAgain(w) \/ WriteFault(w)
    BY <2>7, WriteFailureChain
  <2>8. CASE Note(w)
    BY <2>8, NoteChain
  <2>9. CASE Close(w)
    BY <2>9, CloseChain
  <2>10. CASE Crash(w)
    BY <2>10, CrashChain
  <2> QED
    BY <1>1, <2>1, <2>2, <2>3, <2>4, <2>5, <2>6, <2>7, <2>8, <2>9, <2>10
    DEF WriterStep, AppendStep
<1>2. CASE \E n \in 0..txns : OSCrash(n)
  BY <1>2, OSCrashChain
<1>3. CASE UNCHANGED vars
  <2>1. TypeOK' /\ CallsOpen'
    BY <1>3 DEF ChainInv, TypeOK, CallsOpen, vars
  <2> QED BY <1>3, <2>1, QuietStep DEF vars
<1> QED BY <1>1, <1>2, <1>3 DEF Next

\* The chain invariant holds in every reachable state.
THEOREM ChainInvariant == Spec => []ChainInv
<1> QED BY ChainInit, ChainStep, PTL DEF Spec

\* Types, for every instance.
THEOREM TypeCorrect == Spec => []TypeOK
<1>1. ChainInv => TypeOK
  BY DEF ChainInv
<1> QED BY <1>1, ChainInvariant, PTL

\* No open writer forgets the chain or runs ahead of it.
THEOREM HeadsStayOnChain == Spec => []HeadsOnChain
<1>1. ChainInv => HeadsOnChain
  BY DEF ChainInv
<1> QED BY <1>1, ChainInvariant, PTL

\* The verifier finds neither a gap nor a broken link in an honest ledger.
LEMMA LinkedVerifies == ChainInv => ChainVerifies
<1> SUFFICES ASSUME ChainInv PROVE ChainVerifies
  OBVIOUS
<1>1. LastSeq \in Nat /\ DOMAIN rows = 1..LastSeq
  BY DEF ChainInv, Contiguous
<1>2. missing_ranges(DOMAIN rows) = {}
  BY <1>1 DEF missing_ranges
<1>3. ASSUME NEW s \in DOMAIN rows
      PROVE  PrevStoredHash(rows, s) =
               IF s = 1 THEN GENESIS_PREV_HASH ELSE rows[s - 1].hash
  <2> DEFINE below == {t \in DOMAIN rows : t < s}
  <2>1. CASE s = 1
    <3>1. below = {}
      BY <1>1, <2>1
    <3> QED BY <2>1, <3>1 DEF PrevStoredHash
  <2>2. CASE s # 1
    <3>1. s - 1 \in below /\ \A t \in below : t <= s - 1
      BY <1>1, <2>2
    <3>2. \A x \in below : (\A t \in below : t <= x) => x = s - 1
      BY <1>1, <3>1
    <3>3. (CHOOSE x \in below : \A t \in below : t <= x) = s - 1
      BY <3>1, <3>2
    <3> QED BY <2>2, <3>1, <3>3 DEF PrevStoredHash
  <2> QED BY <2>1, <2>2
<1>4. broken_links(rows) = {}
  BY <1>3 DEF broken_links, ChainInv, Linked
<1> QED BY <1>2, <1>4 DEF ChainVerifies

\* An honest ledger verifies in every reachable state.
THEOREM HonestLedgerVerifies == Spec => []ChainVerifies
<1> QED BY LinkedVerifies, ChainInvariant, PTL

-----------------------------------------------------------------------------
(* Checkpoints *)

\* What every step keeps of the checkpoints.
CheckpointInv == ChainInv /\ WindowsBehindHead /\ SignedAfterRow

LEMMA CheckpointInit == Init => CheckpointInv
<1> SUFFICES ASSUME Init PROVE WindowsBehindHead /\ SignedAfterRow
  BY ChainInit DEF CheckpointInv
<1>1. DOMAIN cps = {} /\ \A w \in Writers : up[w] = "down"
  BY DEF Init
<1> QED BY <1>1 DEF WindowsBehindHead, SignedAfterRow

\* A writer never remembers more rows than there are, so a resync only moves
\* it forward.
LEMMA ResumeForward ==
    ASSUME ChainInv, NEW w \in Writers, up[w] = "open"
    PROVE  nextSeq[w] <= ResumeNextSeq
<1>1. nextSeq[w] \in Nat \ {0} /\ LastSeq \in Nat /\ DOMAIN rows = 1..LastSeq
  BY DEF ChainInv, TypeOK, Contiguous
<1>2. nextSeq[w] = 1 \/ nextSeq[w] - 1 \in 1..LastSeq
  BY <1>1 DEF ChainInv, HeadsOnChain
<1> QED BY <1>1, <1>2 DEF ResumeNextSeq

\* Rows that stay keep every checkpoint that signs them.
LEMMA SignedKept ==
    ASSUME CheckpointInv, TypeOK', txns <= txns', cps' = cps,
           \A s \in DOMAIN rows : s \in DOMAIN rows' /\ rows'[s] = rows[s]
    PROVE  SignedAfterRow'
<1>1. ASSUME NEW e \in DOMAIN cps PROVE cps[e].txn <= txns'
  BY DEF CheckpointInv, ChainInv, TypeOK, Checkpoints, SignedAfterRow
<1> QED BY <1>1 DEF CheckpointInv, SignedAfterRow

\* A checkpoint for a window behind the writer's head signs that head.
LEMMA EmitSigned ==
    ASSUME CheckpointInv, TypeOK', NEW w \in Writers, up[w] = "open",
           NEW v \in Windows, v.start \in 1..v.end, v.end < nextSeq[w],
           Emit(w, v), rows' = rows
    PROVE  SignedAfterRow'
<1>1. /\ nextSeq[w] - 1 \in DOMAIN rows /\ nextSeq[w] \in Nat
      /\ head[w] = rows[nextSeq[w] - 1].hash
      /\ rows[nextSeq[w] - 1].txn <= txns
      /\ txns \in Nat
      /\ rows[nextSeq[w] - 1].txn \in Nat
  <2>1. v.end \in Nat /\ nextSeq[w] \in Nat \ {0} /\ txns \in Nat
    BY DEF CheckpointInv, ChainInv, TypeOK, Windows
  <2>2. nextSeq[w] # 1
    BY <2>1 DEF Windows
  <2> QED
    BY <2>1, <2>2
    DEF CheckpointInv, ChainInv, TypeOK, HeadsOnChain, TxnOrder, Rows
<1>2. txns' = txns + 1
  BY DEF Emit
<1>3. CASE v.end \in DOMAIN cps
  BY <1>1, <1>2, <1>3, SignedKept DEF Emit
<1>4. CASE v.end \notin DOMAIN cps
  <2> DEFINE cp == [seq_start |-> v.start, chain_head |-> head[w],
                    txn |-> txns + 1]
  <2>1. /\ DOMAIN cps' = DOMAIN cps \cup {v.end}
        /\ cps'[v.end] = cp
        /\ \A e \in DOMAIN cps : cps'[e] = cps[e]
    BY <1>4 DEF Emit, Insert
  <2> SUFFICES ASSUME NEW e \in DOMAIN cps'
               PROVE  /\ cps'[e].seq_start \in 1..e
                      /\ cps'[e].txn <= txns'
                      /\ \E k \in DOMAIN rows : /\ k >= e
                                               /\ cps'[e].chain_head = rows[k].hash
                                               /\ rows[k].txn < cps'[e].txn
    BY DEF SignedAfterRow
  <2>2. CASE e = v.end
    <3>1. nextSeq[w] - 1 >= e
      BY <1>1, <2>2 DEF Windows
    <3> QED BY <1>1, <1>2, <2>1, <2>2, <3>1
  <2>3. CASE e # v.end
    <3>1. e \in DOMAIN cps /\ cps'[e] = cps[e] /\ cps[e].txn \in Nat
      BY <2>1, <2>3 DEF CheckpointInv, ChainInv, TypeOK, Checkpoints
    <3> QED BY <3>1, <1>1, <1>2 DEF CheckpointInv, SignedAfterRow
  <2> QED BY <2>2, <2>3
<1> QED BY <1>3, <1>4

\* Windows stay behind a head that only moves forward.
LEMMA WindowsKept ==
    ASSUME CheckpointInv, TypeOK', UNCHANGED <<noting, window>>,
           \A x \in Writers : up'[x] = "open" =>
               up[x] = "open" /\ nextSeq[x] <= nextSeq'[x]
    PROVE  WindowsBehindHead'
<1> SUFFICES ASSUME NEW x \in Writers, up'[x] = "open"
             PROVE  /\ noting'[x] < nextSeq'[x]
                    /\ window'[x].start = 0 <=> window'[x].count = 0
                    /\ window'[x].count = 0 => window'[x].end = 0
                    /\ window'[x].count > 0 =>
                          /\ window'[x].start <= window'[x].end
                          /\ window'[x].end < nextSeq'[x]
                    /\ noting'[x] # 0 => window'[x].end < noting'[x]
  BY DEF WindowsBehindHead
<1>1. /\ nextSeq[x] \in Nat /\ nextSeq'[x] \in Nat /\ noting[x] \in Nat
      /\ window[x].start \in Nat /\ window[x].end \in Nat
      /\ window[x].count \in Nat
  BY DEF CheckpointInv, ChainInv, TypeOK, Windows
<1> QED BY <1>1 DEF CheckpointInv, WindowsBehindHead

LEMMA OpenCheckpoint ==
    ASSUME CheckpointInv, NEW w \in Writers, Open(w)
    PROVE  CheckpointInv'
<1>1. ChainInv' /\ TypeOK'
  BY OpenChain DEF CheckpointInv, ChainInv
<1>2. SignedAfterRow'
  <2>1. txns \in Nat /\ UNCHANGED <<rows, cps, txns>>
    BY DEF CheckpointInv, ChainInv, TypeOK, Open, disk
  <2> QED BY <1>1, <2>1, SignedKept
<1>3. WindowsBehindHead'
  <2> SUFFICES ASSUME NEW x \in Writers, up'[x] = "open"
               PROVE  /\ noting'[x] < nextSeq'[x]
                      /\ window'[x].start = 0 <=> window'[x].count = 0
                      /\ window'[x].count = 0 => window'[x].end = 0
                      /\ window'[x].count > 0 =>
                            /\ window'[x].start <= window'[x].end
                            /\ window'[x].end < nextSeq'[x]
                      /\ noting'[x] # 0 => window'[x].end < noting'[x]
    BY DEF WindowsBehindHead
  <2>1. CASE x = w
    <3>1. noting'[x] = 0 /\ window'[x] = EmptyWindow
      BY <2>1 DEF CheckpointInv, ChainInv, TypeOK, Open
    <3>2. nextSeq'[x] \in Nat \ {0}
      BY <1>1 DEF TypeOK
    <3> QED BY <3>1, <3>2 DEF EmptyWindow
  <2>2. CASE x # w
    <3>1. /\ noting'[x] = noting[x] /\ window'[x] = window[x]
          /\ nextSeq'[x] = nextSeq[x] /\ up[x] = "open"
      BY <2>2 DEF CheckpointInv, ChainInv, TypeOK, Open
    <3> QED BY <3>1 DEF CheckpointInv, WindowsBehindHead
  <2> QED BY <2>1, <2>2
<1> QED BY <1>1, <1>2, <1>3 DEF CheckpointInv

\* Starting, refusing, resynchronising and failing an append.
LEMMA CallCheckpoint ==
    ASSUME CheckpointInv, ChainInv', NEW w \in Writers,
           \/ \E e \in Events : AppendClosed(w, e)
           \/ \E e \in Events, note \in BOOLEAN : BeginAppend(w, e, note)
           \/ Collide(w)
           \/ Resync(w)
           \/ CollideAgain(w)
           \/ WriteFault(w)
    PROVE  CheckpointInv'
<1>1. TypeOK' /\ UNCHANGED <<rows, cps, txns, up, noting, window>>
  BY DEF ChainInv, AppendClosed, BeginAppend, Collide, Resync, CollideAgain,
         WriteFault, disk, checkpointer
<1>2. \A x \in Writers : up[x] = "open" => nextSeq[x] <= nextSeq'[x]
  <2> SUFFICES ASSUME NEW x \in Writers, up[x] = "open"
               PROVE  nextSeq[x] <= nextSeq'[x]
    OBVIOUS
  <2>1. nextSeq[x] \in Nat
    BY DEF CheckpointInv, ChainInv, TypeOK
  <2>2. CASE Resync(w) /\ x = w
    BY <2>2, ResumeForward DEF CheckpointInv, ChainInv, TypeOK, Resync
  <2>3. CASE nextSeq'[x] = nextSeq[x]
    BY <2>1, <2>3
  <2>4. Resync(w) /\ x # w => nextSeq'[x] = nextSeq[x]
    BY DEF CheckpointInv, ChainInv, TypeOK, Resync
  <2>5. ~Resync(w) => nextSeq' = nextSeq
    BY DEF AppendClosed, BeginAppend, Collide, CollideAgain, WriteFault, chain
  <2> QED BY <2>2, <2>3, <2>4, <2>5
<1>3. SignedAfterRow'
  BY <1>1, SignedKept DEF CheckpointInv, ChainInv, TypeOK
<1>4. WindowsBehindHead'
  BY <1>1, <1>2, WindowsKept
<1> QED BY <1>3, <1>4 DEF CheckpointInv

LEMMA CommitRowCheckpoint ==
    ASSUME CheckpointInv, NEW w \in Writers, CommitRow(w)
    PROVE  CheckpointInv'
<1>1. ChainInv' /\ TypeOK'
  BY CommitRowChain DEF CheckpointInv, ChainInv
<1>2. SignedAfterRow'
  <2>1. \A s \in DOMAIN rows : s \in DOMAIN rows' /\ rows'[s] = rows[s]
    BY DEF CommitRow, SeqFree, Insert
  <2>2. txns <= txns' /\ cps' = cps
    BY DEF CheckpointInv, ChainInv, TypeOK, CommitRow
  <2> QED BY <1>1, <2>1, <2>2, SignedKept
<1>3. WindowsBehindHead'
  <2> SUFFICES ASSUME NEW x \in Writers, up'[x] = "open"
               PROVE  /\ noting'[x] < nextSeq'[x]
                      /\ window'[x].start = 0 <=> window'[x].count = 0
                      /\ window'[x].count = 0 => window'[x].end = 0
                      /\ window'[x].count > 0 =>
                            /\ window'[x].start <= window'[x].end
                            /\ window'[x].end < nextSeq'[x]
                      /\ noting'[x] # 0 => window'[x].end < noting'[x]
    BY DEF WindowsBehindHead
  <2>1. up[x] = "open" /\ window' = window
    BY DEF CommitRow
  <2>2. /\ nextSeq[x] \in Nat \ {0} /\ noting[x] \in Nat
        /\ window[x].start \in Nat /\ window[x].end \in Nat
        /\ window[x].count \in Nat
    BY DEF CheckpointInv, ChainInv, TypeOK, Windows
  <2>3. CASE x = w
    <3>1. nextSeq'[x] = nextSeq[x] + 1
      BY <2>3 DEF CheckpointInv, ChainInv, TypeOK, CommitRow
    <3>2. noting'[x] = noting[x] \/ noting'[x] = nextSeq[x]
      BY <2>3 DEF CheckpointInv, ChainInv, TypeOK, CommitRow
    <3> QED BY <2>1, <2>2, <3>1, <3>2 DEF CheckpointInv, WindowsBehindHead
  <2>4. CASE x # w
    <3>1. nextSeq'[x] = nextSeq[x] /\ noting'[x] = noting[x]
      BY <2>4 DEF CheckpointInv, ChainInv, TypeOK, CommitRow
    <3> QED BY <2>1, <3>1 DEF CheckpointInv, WindowsBehindHead
  <2> QED BY <2>3, <2>4
<1> QED BY <1>1, <1>2, <1>3 DEF CheckpointInv

LEMMA NoteCheckpoint ==
    ASSUME CheckpointInv, NEW w \in Writers, Note(w)
    PROVE  CheckpointInv'
<1> DEFINE v == [start |-> IF window[w].start = 0 THEN noting[w]
                           ELSE window[w].start,
                 end |-> noting[w], count |-> window[w].count + 1]
<1>1. ChainInv' /\ TypeOK'
  BY NoteChain DEF CheckpointInv, ChainInv
<1>2. /\ nextSeq[w] \in Nat \ {0} /\ noting[w] \in Nat /\ noting[w] # 0
      /\ window[w].start \in Nat /\ window[w].end \in Nat
      /\ window[w].count \in Nat /\ up[w] = "open"
  BY DEF CheckpointInv, ChainInv, TypeOK, Windows, Note
<1>3. v \in Windows /\ v.start \in 1..v.end /\ v.end < nextSeq[w] /\ v.count > 0
  BY <1>2 DEF CheckpointInv, WindowsBehindHead, Windows
<1>4. rows' = rows /\ nextSeq' = nextSeq /\ up' = up
  BY DEF Note, chain
<1>5. SignedAfterRow'
  <2>1. CASE Emit(w, v)
    BY <1>1, <1>2, <1>3, <1>4, <2>1, EmitSigned
  <2>2. CASE UNCHANGED <<cps, txns>>
    BY <1>1, <1>4, <2>2, SignedKept DEF CheckpointInv, ChainInv, TypeOK
  <2> QED BY <2>1, <2>2 DEF Note
<1>6. /\ noting'[w] = 0
      /\ window'[w] = v \/ window'[w] = EmptyWindow
      /\ \A x \in Writers : x # w => noting'[x] = noting[x]
                                    /\ window'[x] = window[x]
  BY DEF CheckpointInv, ChainInv, TypeOK, Note
<1>7. WindowsBehindHead'
  <2> HIDE DEF v
  <2> SUFFICES ASSUME NEW x \in Writers, up'[x] = "open"
               PROVE  /\ noting'[x] < nextSeq'[x]
                      /\ window'[x].start = 0 <=> window'[x].count = 0
                      /\ window'[x].count = 0 => window'[x].end = 0
                      /\ window'[x].count > 0 =>
                            /\ window'[x].start <= window'[x].end
                            /\ window'[x].end < nextSeq'[x]
                      /\ noting'[x] # 0 => window'[x].end < noting'[x]
    BY DEF WindowsBehindHead
  <2>1. CASE x = w /\ window'[w] = v
    BY <1>2, <1>3, <1>4, <1>6, <2>1 DEF Windows
  <2>2. CASE x = w /\ window'[w] = EmptyWindow
    BY <1>2, <1>4, <1>6, <2>2 DEF EmptyWindow
  <2>3. CASE x # w
    BY <1>4, <1>6, <2>3 DEF CheckpointInv, WindowsBehindHead
  <2> QED BY <1>6, <2>1, <2>2, <2>3
<1> QED BY <1>1, <1>5, <1>7 DEF CheckpointInv

LEMMA CloseCheckpoint ==
    ASSUME CheckpointInv, NEW w \in Writers, Close(w)
    PROVE  CheckpointInv'
<1>1. ChainInv' /\ TypeOK'
  BY CloseChain DEF CheckpointInv, ChainInv
<1>2. /\ nextSeq[w] \in Nat \ {0} /\ window[w] \in Windows
      /\ window[w].start \in Nat /\ window[w].end \in Nat
      /\ window[w].count \in Nat /\ up[w] = "open"
  BY DEF CheckpointInv, ChainInv, TypeOK, Windows, Close
<1>3. rows' = rows /\ nextSeq' = nextSeq /\ noting' = noting
  BY DEF Close, chain
<1>4. SignedAfterRow'
  <2>1. CASE window[w].count > 0 /\ Emit(w, window[w])
    <3>1. /\ window[w].start \in 1..window[w].end
          /\ window[w].end < nextSeq[w]
      BY <1>2, <2>1 DEF CheckpointInv, WindowsBehindHead
    <3> QED BY <1>1, <1>2, <1>3, <2>1, <3>1, EmitSigned
  <2>2. CASE UNCHANGED <<cps, txns>>
    BY <1>1, <1>3, <2>2, SignedKept DEF CheckpointInv, ChainInv, TypeOK
  <2> QED BY <2>1, <2>2 DEF Close
<1>5. \A x \in Writers : up'[x] = "open" =>
         up[x] = "open" /\ window'[x] = window[x]
  BY DEF CheckpointInv, ChainInv, TypeOK, Close
<1>6. WindowsBehindHead'
  BY <1>3, <1>5 DEF CheckpointInv, WindowsBehindHead
<1> QED BY <1>1, <1>4, <1>6 DEF CheckpointInv

LEMMA CrashCheckpoint ==
    ASSUME CheckpointInv, NEW w \in Writers, Crash(w)
    PROVE  CheckpointInv'
<1>1. ChainInv' /\ TypeOK'
  BY CrashChain DEF CheckpointInv, ChainInv
<1>2. SignedAfterRow'
  BY <1>1, SignedKept DEF CheckpointInv, ChainInv, TypeOK, Crash, disk
<1>3. \A x \in Writers : up'[x] = "open" =>
         /\ up[x] = "open" /\ window'[x] = window[x]
         /\ noting'[x] = noting[x] /\ nextSeq'[x] = nextSeq[x]
  BY DEF CheckpointInv, ChainInv, TypeOK, Crash, chain
<1>4. WindowsBehindHead'
  BY <1>3 DEF CheckpointInv, WindowsBehindHead
<1> QED BY <1>1, <1>2, <1>4 DEF CheckpointInv

\* A surviving checkpoint was committed after its row, so the row survives.
LEMMA OSCrashCheckpoint ==
    ASSUME CheckpointInv, NEW n \in 0..txns, OSCrash(n)
    PROVE  CheckpointInv'
<1>1. ChainInv'
  BY OSCrashChain DEF CheckpointInv
<1>2. WindowsBehindHead'
  BY DEF OSCrash, WindowsBehindHead
<1>3. SignedAfterRow'
  <2> SUFFICES ASSUME NEW e \in DOMAIN cps'
               PROVE  /\ cps'[e].seq_start \in 1..e
                      /\ cps'[e].txn <= txns'
                      /\ \E k \in DOMAIN rows' :
                            /\ k >= e
                            /\ cps'[e].chain_head = rows'[k].hash
                            /\ rows'[k].txn < cps'[e].txn
    BY DEF SignedAfterRow
  <2>1. /\ e \in DOMAIN cps /\ cps'[e] = cps[e] /\ cps[e].txn <= n
        /\ txns' = n /\ cps[e].txn \in Nat /\ n \in Nat
    BY DEF OSCrash, UpToTxn, CheckpointInv, ChainInv, TypeOK, Checkpoints
  <2>2. PICK k \in DOMAIN rows : /\ k >= e
                                 /\ cps[e].chain_head = rows[k].hash
                                 /\ rows[k].txn < cps[e].txn
    BY <2>1 DEF CheckpointInv, SignedAfterRow
  <2>3. rows[k].txn \in Nat
    BY DEF CheckpointInv, ChainInv, TypeOK, Rows
  <2>4. k \in DOMAIN rows' /\ rows'[k] = rows[k]
    BY <2>1, <2>2, <2>3 DEF OSCrash, UpToTxn
  <2> QED BY <2>1, <2>2, <2>4 DEF CheckpointInv, SignedAfterRow
<1> QED BY <1>1, <1>2, <1>3 DEF CheckpointInv

LEMMA CheckpointKept == CheckpointInv /\ [Next]_vars => CheckpointInv'
<1> SUFFICES ASSUME CheckpointInv, [Next]_vars PROVE CheckpointInv'
  OBVIOUS
<1>0. ChainInv'
  BY ChainStep DEF CheckpointInv
<1>1. ASSUME NEW w \in Writers, WriterStep(w) PROVE CheckpointInv'
  <2>1. CASE Open(w)
    BY <2>1, OpenCheckpoint
  <2>2. CASE \/ \E e \in Events : AppendClosed(w, e)
             \/ \E e \in Events, note \in BOOLEAN : BeginAppend(w, e, note)
             \/ Collide(w)
             \/ Resync(w)
             \/ CollideAgain(w)
             \/ WriteFault(w)
    BY <1>0, <2>2, CallCheckpoint
  <2>3. CASE CommitRow(w)
    BY <2>3, CommitRowCheckpoint
  <2>4. CASE Note(w)
    BY <2>4, NoteCheckpoint
  <2>5. CASE Close(w)
    BY <2>5, CloseCheckpoint
  <2>6. CASE Crash(w)
    BY <2>6, CrashCheckpoint
  <2> QED
    BY <1>1, <2>1, <2>2, <2>3, <2>4, <2>5, <2>6 DEF WriterStep, AppendStep
<1>2. CASE \E n \in 0..txns : OSCrash(n)
  BY <1>2, OSCrashCheckpoint
<1>3. CASE UNCHANGED vars
  BY <1>0, <1>3 DEF CheckpointInv, WindowsBehindHead, SignedAfterRow, vars
<1> QED BY <1>1, <1>2, <1>3 DEF Next

\* Every checkpoint signs a head of the chain that is still on it.
THEOREM CheckpointsStayOnChain == Spec => []CheckpointsOnChain
<1>1. CheckpointInv => CheckpointsOnChain
  <2> SUFFICES ASSUME CheckpointInv, NEW e \in DOMAIN cps
               PROVE  /\ cps[e].seq_start \in 1..e
                      /\ e \in DOMAIN rows
                      /\ \E k \in DOMAIN rows :
                            k >= e /\ cps[e].chain_head = rows[k].hash
    BY DEF CheckpointsOnChain
  <2>1. PICK k \in DOMAIN rows : k >= e /\ cps[e].chain_head = rows[k].hash
    BY DEF CheckpointInv, SignedAfterRow
  <2>2. cps[e].seq_start \in 1..e /\ e \in Nat
    BY DEF CheckpointInv, SignedAfterRow, ChainInv, TypeOK
  <2>3. LastSeq \in Nat /\ DOMAIN rows = 1..LastSeq
    BY DEF CheckpointInv, ChainInv, Contiguous
  <2> QED BY <2>1, <2>2, <2>3
<1> QED BY <1>1, CheckpointInit, CheckpointKept, PTL DEF Spec

-----------------------------------------------------------------------------
(* Every event handed to append is accounted for, and the ledger          *)
(* implements EvidenceLog.                                                *)

\* What every step keeps of the events' fates.
AccountInv == ChainInv /\ Accounted /\ CallsOwnEvents /\ DroppedOnce

LEMMA AccountInit == Init => AccountInv
<1> SUFFICES ASSUME Init PROVE Accounted /\ CallsOwnEvents /\ DroppedOnce
  BY ChainInit DEF AccountInv
<1>1. DOMAIN rows = {}
  BY DEF Init
<1>2. Accounted
  BY <1>1 DEF Init, Accounted, Carried, Marked
<1>3. CallsOwnEvents
  BY DEF Init, CallsOwnEvents, Idle
<1>4. DroppedOnce
  BY DEF Init, DroppedOnce
<1> QED BY <1>2, <1>3, <1>4

LEMMA OpenAccount ==
    ASSUME AccountInv, NEW w \in Writers, Open(w)
    PROVE  AccountInv'
<1>1. ChainInv'
  BY OpenChain DEF AccountInv
<1>2. rows' = rows /\ call' = call /\ fate' = fate
  BY DEF Open, disk
<1>3. failures[w] = {}
  BY DEF AccountInv, DroppedOnce, Open
<1>4. failures' = failures
  BY <1>3 DEF AccountInv, ChainInv, TypeOK, Open
<1>5. \A x \in Writers : x # w => up'[x] = up[x]
  BY DEF AccountInv, ChainInv, TypeOK, Open
<1>6. Accounted'
  BY <1>2, <1>3, <1>4, <1>5 DEF AccountInv, Accounted
<1>7. CallsOwnEvents'
  BY <1>2, <1>4 DEF AccountInv, CallsOwnEvents
<1>8. DroppedOnce'
  BY <1>2, <1>3, <1>4, <1>5 DEF AccountInv, DroppedOnce
<1> QED BY <1>1, <1>6, <1>7, <1>8 DEF AccountInv

\* An event nobody has appended yet is nowhere.
LEMMA NewIsNowhere ==
    ASSUME AccountInv, NEW e \in Events, fate[e] \in {"new", "calling"}
    PROVE  /\ ~Carried(rows, e)
           /\ ~Marked(rows, e)
           /\ \A w \in Writers : e \notin failures[w]
           /\ fate[e] = "new" =>
                \A w \in Writers : call[w].step # "idle" => call[w].ev # e
<1>1. ~Carried(rows, e) /\ ~Marked(rows, e)
  BY DEF AccountInv, Accounted
<1>2. ASSUME NEW w \in Writers, e \in failures[w] PROVE FALSE
  <2>1. up[w] \in {"down", "open", "closed"}
    BY DEF AccountInv, ChainInv, TypeOK
  <2> QED BY <1>2, <2>1 DEF AccountInv, DroppedOnce
<1>3. ASSUME NEW w \in Writers, call[w].step # "idle", call[w].ev = e,
             fate[e] = "new"
      PROVE FALSE
  BY <1>3 DEF AccountInv, CallsOwnEvents
<1> QED BY <1>1, <1>2, <1>3

LEMMA AppendClosedAccount ==
    ASSUME AccountInv, NEW w \in Writers, NEW e \in Events, AppendClosed(w, e)
    PROVE  AccountInv'
<1>1. ChainInv'
  BY AppendClosedChain DEF AccountInv
<1>2. UNCHANGED <<rows, call, failures, up>>
  BY DEF AppendClosed, disk
<1>3. /\ fate[e] = "new" /\ fate'[e] \in {"raised", "logged"}
      /\ \A x \in Events : x # e => fate'[x] = fate[x]
  BY DEF AppendClosed, AccountInv, ChainInv, TypeOK
<1>4. /\ ~Carried(rows, e) /\ ~Marked(rows, e)
      /\ \A x \in Writers : e \notin failures[x]
      /\ \A x \in Writers : call[x].step # "idle" => call[x].ev # e
  BY <1>3, NewIsNowhere
<1>5. \A x \in Writers : failures[x] \subseteq Events
  BY DEF AccountInv, ChainInv, TypeOK
<1>6. \A x \in Writers : call[x].step # "idle" => call[x].ev \in Events
  BY StampedType DEF AccountInv, ChainInv
<1>7. Accounted'
  BY <1>2, <1>3, <1>4 DEF AccountInv, Accounted
<1>8. CallsOwnEvents'
  BY <1>2, <1>3, <1>4, <1>6 DEF AccountInv, CallsOwnEvents
<1>9. DroppedOnce'
  BY <1>2, <1>3, <1>4, <1>5 DEF AccountInv, DroppedOnce
<1> QED BY <1>1, <1>7, <1>8, <1>9 DEF AccountInv

LEMMA BeginAppendAccount ==
    ASSUME AccountInv, NEW w \in Writers, NEW e \in Events, NEW note \in BOOLEAN,
           BeginAppend(w, e, note)
    PROVE  AccountInv'
<1>1. ChainInv'
  BY BeginAppendChain DEF AccountInv
<1>2. UNCHANGED <<rows, failures, up>>
  BY DEF BeginAppend, disk
<1>3. /\ fate[e] = "new" /\ fate'[e] = "calling"
      /\ \A x \in Events : x # e => fate'[x] = fate[x]
  BY DEF BeginAppend, AccountInv, ChainInv, TypeOK
<1>4. /\ ~Carried(rows, e) /\ ~Marked(rows, e)
      /\ \A x \in Writers : e \notin failures[x]
      /\ \A x \in Writers : call[x].step # "idle" => call[x].ev # e
  BY <1>3, NewIsNowhere
<1>5. /\ call'[w].ev = e
      /\ call'[w].drain => failures[w] # {}
      /\ \A x \in Writers : x # w => call'[x] = call[x]
  BY DEF BeginAppend, AccountInv, ChainInv, TypeOK
<1>6. \A x \in Writers : failures[x] \subseteq Events
  BY DEF AccountInv, ChainInv, TypeOK
<1>7. \A x \in Writers : call[x].step # "idle" => call[x].ev \in Events
  BY StampedType DEF AccountInv, ChainInv
<1>8. Accounted'
  BY <1>2, <1>3, <1>4 DEF AccountInv, Accounted
<1>9. CallsOwnEvents'
  BY <1>2, <1>3, <1>4, <1>5, <1>7 DEF AccountInv, CallsOwnEvents
<1>10. DroppedOnce'
  BY <1>2, <1>3, <1>4, <1>6 DEF AccountInv, DroppedOnce
<1> QED BY <1>1, <1>8, <1>9, <1>10 DEF AccountInv

\* Retrying changes neither a fate nor the event being appended.
LEMMA RetryAccount ==
    ASSUME AccountInv, NEW w \in Writers, Collide(w) \/ Resync(w)
    PROVE  AccountInv'
<1>1. ChainInv'
  BY CollideChain, ResyncChain DEF AccountInv
<1>2. UNCHANGED <<rows, failures, up, fate>>
  BY DEF Collide, Resync, disk
<1>3. call[w].step # "idle"
  BY DEF Collide, Resync
<1>4. /\ call'[w].ev = call[w].ev /\ call'[w].drain = call[w].drain
      /\ \A x \in Writers : x # w => call'[x] = call[x]
  <2>1. call[w] \in [step : {"insert", "resync"}, drain : BOOLEAN,
                     attempt : {0, 1}, ev : Events, note : BOOLEAN]
    BY <1>3, StampedType DEF AccountInv, ChainInv
  <2> QED BY <2>1 DEF Collide, Resync, AccountInv, ChainInv, TypeOK
<1>5. Accounted' /\ DroppedOnce'
  BY <1>2 DEF AccountInv, Accounted, DroppedOnce
<1>6. CallsOwnEvents'
  BY <1>2, <1>3, <1>4 DEF AccountInv, CallsOwnEvents
<1> QED BY <1>1, <1>5, <1>6 DEF AccountInv

\* A failed marker changes nothing but the call; a failed event is raised
\* or becomes pending in this writer alone.
LEMMA WriteFailureAccount ==
    ASSUME AccountInv, NEW w \in Writers, CollideAgain(w) \/ WriteFault(w)
    PROVE  AccountInv'
<1>1. ChainInv'
  BY WriteFailureChain DEF AccountInv
<1>2. /\ UNCHANGED <<rows, up>> /\ OnWriteFailure(w)
      /\ call[w].step # "idle" /\ up[w] = "open"
  BY DEF CollideAgain, WriteFault, disk, AccountInv, ChainInv, CallsOpen
<1>3. call[w] \in [step : {"insert", "resync"}, drain : BOOLEAN,
                   attempt : {0, 1}, ev : Events, note : BOOLEAN]
  BY <1>2, StampedType DEF AccountInv, ChainInv
<1>4. \A x \in Writers : call[x].step # "idle" => call[x].ev \in Events
  BY StampedType DEF AccountInv, ChainInv
<1>5. CASE call[w].drain
  <2>1. UNCHANGED <<failures, fate>>
    BY <1>2, <1>5 DEF OnWriteFailure
  <2>2. /\ call'[w].ev = call[w].ev /\ ~call'[w].drain
        /\ \A x \in Writers : x # w => call'[x] = call[x]
    BY <1>2, <1>3, <1>5 DEF OnWriteFailure, AfterDrain, AccountInv, ChainInv, TypeOK
  <2>3. Accounted' /\ DroppedOnce'
    BY <1>2, <2>1 DEF AccountInv, Accounted, DroppedOnce
  <2>4. CallsOwnEvents'
    BY <1>2, <2>1, <2>2 DEF AccountInv, CallsOwnEvents
  <2> QED BY <1>1, <2>3, <2>4 DEF AccountInv
<1>6. CASE ~call[w].drain
  <2> DEFINE e == call[w].ev
  <2>1. e \in Events /\ fate[e] = "calling"
    BY <1>2, <1>3 DEF AccountInv, CallsOwnEvents
  <2>2. /\ ~Carried(rows, e) /\ ~Marked(rows, e)
        /\ \A x \in Writers : e \notin failures[x]
    BY <2>1, NewIsNowhere
  <2>3. /\ call'[w].step = "idle"
        /\ \A x \in Writers : x # w => call'[x] = call[x] /\ failures'[x] = failures[x]
        /\ \A x \in Events : x # e => fate'[x] = fate[x]
    BY <1>2, <1>6 DEF OnWriteFailure, AccountInv, ChainInv, TypeOK, Idle
  <2>4. \/ failures'[w] = failures[w] /\ fate'[e] = "raised"
        \/ failures'[w] = failures[w] \cup {e} /\ fate'[e] = "queued"
    BY <1>2, <1>6, <2>1 DEF OnWriteFailure, AccountInv, ChainInv, TypeOK
  <2>5. \A x \in Writers : failures[x] \subseteq Events
    BY DEF AccountInv, ChainInv, TypeOK
  <2>6. \A x \in Writers : x # w /\ call[x].step # "idle" => call[x].ev # e
    BY <1>2 DEF AccountInv, CallsOwnEvents
  <2> HIDE DEF e
  <2>7. Accounted'
    <3> SUFFICES ASSUME NEW y \in Events
                 PROVE  /\ fate'[y] = "recorded" <=> Carried(rows', y)
                        /\ \A s, t \in DOMAIN rows' :
                              rows'[s].digest.ev = y /\ rows'[t].digest.ev = y
                              => s = t
                        /\ fate'[y] = "queued" =>
                              \/ \E x \in Writers :
                                    up'[x] = "open" /\ y \in failures'[x]
                              \/ Marked(rows', y)
                        /\ Marked(rows', y) => fate'[y] = "queued"
      BY DEF Accounted
    <3>1. CASE y = e
      BY <1>2, <2>1, <2>2, <2>4, <3>1 DEF AccountInv, Accounted
    <3>2. CASE y # e
      <4>1. fate'[y] = fate[y]
        BY <2>3, <3>2
      <4>2. \A x \in Writers : y \in failures[x] => y \in failures'[x]
        BY <2>3, <2>4
      <4> QED BY <1>2, <4>1, <4>2 DEF AccountInv, Accounted
    <3> QED BY <3>1, <3>2
  <2>8. CallsOwnEvents'
    BY <1>4, <2>3, <2>6 DEF AccountInv, CallsOwnEvents
  <2>9. DroppedOnce'
    BY <1>2, <2>1, <2>2, <2>3, <2>4, <2>5 DEF AccountInv, DroppedOnce
  <2> QED BY <1>1, <2>7, <2>8, <2>9 DEF AccountInv
<1> QED BY <1>3, <1>5, <1>6

\* Steps that only move the checkpointer.
LEMMA NoteAccount ==
    ASSUME AccountInv, NEW w \in Writers, Note(w)
    PROVE  AccountInv'
<1>1. ChainInv'
  BY NoteChain DEF AccountInv
<1>2. UNCHANGED <<rows, up, failures, call, fate>>
  BY DEF Note
<1> QED BY <1>1, <1>2 DEF AccountInv, Accounted, CallsOwnEvents, DroppedOnce

\* A writer that goes away takes its pending failures and its call with it.
LEMMA LeaveAccount ==
    ASSUME AccountInv, ChainInv', NEW w \in Writers, rows' = rows,
           \A x \in Writers : x # w => /\ up'[x] = up[x]
                                       /\ failures'[x] = failures[x]
                                       /\ call'[x] = call[x],
           call'[w] = Idle,
           \/ up'[w] = "closed" /\ failures'[w] = failures[w] /\ call[w] = Idle
           \/ up'[w] = "down" /\ failures'[w] = {},
           \A e \in Events : fate'[e] =
               IF e \in failures[w] \/ (call[w] # Idle /\ call[w].ev = e)
               THEN "lost" ELSE fate[e]
    PROVE  AccountInv'
<1>1. \A x \in Writers : failures[x] \subseteq Events
  BY DEF AccountInv, ChainInv, TypeOK
<1>2. \A x \in Writers : /\ call[x].step # "idle" => call[x].ev \in Events
                         /\ call[x] # Idle => call[x].step # "idle"
                         /\ Idle.step = "idle"
  BY StampedType DEF AccountInv, ChainInv, TypeOK, Calls, Idle
<1>3. up[w] \in {"down", "open", "closed"}
  BY DEF AccountInv, ChainInv, TypeOK
<1>4. ASSUME NEW e \in Events,
             e \in failures[w] \/ (call[w] # Idle /\ call[w].ev = e)
      PROVE  /\ ~Carried(rows, e) /\ ~Marked(rows, e)
             /\ \A x \in Writers : x # w => e \notin failures[x]
             /\ \A x \in Writers :
                  x # w /\ call[x].step # "idle" => call[x].ev # e
  <2>1. CASE e \in failures[w]
    <3>1. fate[e] \in {"queued", "lost"} /\ ~Marked(rows, e)
      BY <1>3, <2>1 DEF AccountInv, DroppedOnce, Accounted
    <3> QED BY <2>1, <3>1 DEF AccountInv, Accounted, DroppedOnce, CallsOwnEvents
  <2>2. CASE call[w] # Idle /\ call[w].ev = e
    <3>1. fate[e] = "calling"
      BY <1>2, <2>2 DEF AccountInv, CallsOwnEvents
    <3> QED BY <1>2, <2>2, <3>1, NewIsNowhere DEF AccountInv, CallsOwnEvents
  <2> QED BY <1>4, <2>1, <2>2
<1>5. Accounted'
  <2> SUFFICES ASSUME NEW y \in Events
               PROVE  /\ fate'[y] = "recorded" <=> Carried(rows', y)
                      /\ \A s, t \in DOMAIN rows' :
                            rows'[s].digest.ev = y /\ rows'[t].digest.ev = y
                            => s = t
                      /\ fate'[y] = "queued" =>
                            \/ \E x \in Writers :
                                  up'[x] = "open" /\ y \in failures'[x]
                            \/ Marked(rows', y)
                      /\ Marked(rows', y) => fate'[y] = "queued"
    BY DEF Accounted
  <2>1. CASE y \in failures[w] \/ (call[w] # Idle /\ call[w].ev = y)
    BY <1>4, <2>1 DEF AccountInv, Accounted
  <2>2. CASE ~(y \in failures[w] \/ (call[w] # Idle /\ call[w].ev = y))
    <3>1. fate'[y] = fate[y]
      BY <2>2
    <3>2. \A x \in Writers : up[x] = "open" /\ y \in failures[x] =>
             up'[x] = "open" /\ y \in failures'[x]
      BY <2>2
    <3> QED BY <3>1, <3>2 DEF AccountInv, Accounted
  <2> QED BY <2>1, <2>2
<1>6. CallsOwnEvents'
  BY <1>2, <1>4 DEF AccountInv, CallsOwnEvents
<1>7. DroppedOnce'
  BY <1>1, <1>4 DEF AccountInv, DroppedOnce
<1> QED BY <1>5, <1>6, <1>7 DEF AccountInv

LEMMA CloseAccount ==
    ASSUME AccountInv, NEW w \in Writers, Close(w)
    PROVE  AccountInv'
<1>1. ChainInv'
  BY CloseChain DEF AccountInv
<1>2. /\ rows' = rows /\ call' = call /\ failures' = failures
      /\ call[w] = Idle /\ up'[w] = "closed"
      /\ \A x \in Writers : x # w => up'[x] = up[x]
      /\ \A e \in Events : fate'[e] =
            IF e \in failures[w] \/ (call[w] # Idle /\ call[w].ev = e)
            THEN "lost" ELSE fate[e]
  BY DEF Close, AccountInv, ChainInv, TypeOK
<1> QED BY <1>1, <1>2, LeaveAccount

LEMMA CrashAccount ==
    ASSUME AccountInv, NEW w \in Writers, Crash(w)
    PROVE  AccountInv'
<1>1. ChainInv'
  BY CrashChain DEF AccountInv
<1>2. /\ rows' = rows /\ call'[w] = Idle /\ failures'[w] = {}
      /\ up'[w] = "down"
      /\ \A x \in Writers : x # w => /\ up'[x] = up[x]
                                     /\ failures'[x] = failures[x]
                                     /\ call'[x] = call[x]
      /\ \A e \in Events : fate'[e] =
            IF e \in failures[w] \/ (call[w] # Idle /\ call[w].ev = e)
            THEN "lost" ELSE fate[e]
  BY DEF Crash, disk, AccountInv, ChainInv, TypeOK
<1> QED BY <1>1, <1>2, LeaveAccount

LEMMA OSCrashAccount ==
    ASSUME AccountInv, NEW n \in 0..txns, OSCrash(n)
    PROVE  AccountInv'
<1>1. ChainInv'
  BY OSCrashChain DEF AccountInv
<1>2. /\ \A s \in DOMAIN rows' : s \in DOMAIN rows /\ rows'[s] = rows[s]
      /\ \A w \in Writers : /\ call'[w].step = "idle"
                            /\ failures'[w] = {}
  BY DEF OSCrash, UpToTxn, Idle
<1>3. CallsOwnEvents' /\ DroppedOnce'
  BY <1>2 DEF CallsOwnEvents, DroppedOnce
<1>4. Accounted'
  <2> SUFFICES ASSUME NEW y \in Events
               PROVE  /\ fate'[y] = "recorded" <=> Carried(rows', y)
                      /\ \A s, t \in DOMAIN rows' :
                            rows'[s].digest.ev = y /\ rows'[t].digest.ev = y
                            => s = t
                      /\ fate'[y] = "queued" =>
                            \/ \E x \in Writers :
                                  up'[x] = "open" /\ y \in failures'[x]
                            \/ Marked(rows', y)
                      /\ Marked(rows', y) => fate'[y] = "queued"
    BY DEF Accounted
  <2>1. /\ Carried(rows', y) => Carried(rows, y)
        /\ Marked(rows', y) => Marked(rows, y)
    BY <1>2 DEF Carried, Marked
  <2>2. fate'[y] =
           CASE fate[y] = "calling" -> "lost"
             [] fate[y] = "queued" /\ ~Marked(rows', y) -> "lost"
             [] fate[y] = "recorded" /\ ~Carried(rows', y) -> "vanished"
             [] OTHER -> fate[y]
    BY DEF OSCrash
  <2>3. /\ fate[y] = "calling" => fate'[y] = "lost"
        /\ fate[y] = "queued" =>
              fate'[y] = IF Marked(rows', y) THEN "queued" ELSE "lost"
        /\ fate[y] = "recorded" =>
              fate'[y] = IF Carried(rows', y) THEN "recorded" ELSE "vanished"
        /\ fate[y] \notin {"calling", "queued", "recorded"} => fate'[y] = fate[y]
    BY <2>2
  <2>4. /\ fate[y] = "recorded" <=> Carried(rows, y)
        /\ Marked(rows, y) => fate[y] = "queued"
        /\ \A s, t \in DOMAIN rows :
              rows[s].digest.ev = y /\ rows[t].digest.ev = y => s = t
    BY DEF AccountInv, Accounted
  <2>5. \A s, t \in DOMAIN rows' :
           rows'[s].digest.ev = y /\ rows'[t].digest.ev = y => s = t
    BY <1>2, <2>4
  <2>6. /\ fate'[y] = "recorded" <=> Carried(rows', y)
        /\ fate'[y] = "queued" => Marked(rows', y)
        /\ Marked(rows', y) => fate'[y] = "queued"
    BY <2>1, <2>3, <2>4
  <2> QED BY <2>5, <2>6
<1> QED BY <1>1, <1>3, <1>4 DEF AccountInv

\* What a commit adds to the file: the stamped digest at the next seq.
LEMMA CommitAddsOne ==
    ASSUME AccountInv, NEW w \in Writers, CommitRow(w)
    PROVE  /\ LastSeq \in Nat /\ DOMAIN rows = 1..LastSeq
           /\ DOMAIN rows' = 1..(LastSeq + 1)
           /\ rows'[LastSeq + 1].digest = Stamped(w)
           /\ \A s \in DOMAIN rows : rows'[s] = rows[s]
<1>1. up[w] = "open"
  BY DEF AccountInv, ChainInv, CallsOpen, CommitRow
<1>2. LastSeq \in Nat /\ DOMAIN rows = 1..LastSeq
  BY DEF AccountInv, ChainInv, Contiguous
<1>3. nextSeq[w] \in Nat \ {0} /\ nextSeq[w] \notin DOMAIN rows
  BY DEF AccountInv, ChainInv, TypeOK, CommitRow, SeqFree
<1>4. nextSeq[w] = LastSeq + 1
  BY <1>1, <1>2, <1>3 DEF AccountInv, ChainInv, HeadsOnChain
<1>5. /\ DOMAIN rows' = DOMAIN rows \cup {nextSeq[w]}
      /\ rows'[nextSeq[w]].digest = Stamped(w)
      /\ \A s \in DOMAIN rows : rows'[s] = rows[s]
  BY <1>3 DEF CommitRow, Insert
<1> QED BY <1>2, <1>4, <1>5

\* The marker reports exactly what was pending; the event's own row makes it
\* recorded.
LEMMA CommitRowAccount ==
    ASSUME AccountInv, NEW w \in Writers, CommitRow(w)
    PROVE  AccountInv'
<1> DEFINE new == LastSeq + 1
<1>1. ChainInv'
  BY CommitRowChain DEF AccountInv
<1>2. /\ LastSeq \in Nat /\ DOMAIN rows = 1..LastSeq
      /\ DOMAIN rows' = 1..new
      /\ rows'[new].digest = Stamped(w)
      /\ \A s \in DOMAIN rows : rows'[s] = rows[s]
  BY CommitAddsOne
<1>3. /\ call[w].step # "idle" /\ up[w] = "open" /\ up' = up
      /\ call[w] \in [step : {"insert", "resync"}, drain : BOOLEAN,
                      attempt : {0, 1}, ev : Events, note : BOOLEAN]
  BY StampedType DEF AccountInv, ChainInv, CallsOpen, CommitRow
<1>4. \A x \in Writers : failures[x] \subseteq Events
  BY DEF AccountInv, ChainInv, TypeOK
<1>5. \A x \in Writers : call[x].step # "idle" => call[x].ev \in Events
  BY StampedType DEF AccountInv, ChainInv
<1>6. \A y \in Events :
         /\ Carried(rows', y) <=> Carried(rows, y) \/ Stamped(w).ev = y
         /\ Marked(rows', y) <=> Marked(rows, y) \/ y \in Stamped(w).dropped
  <2> HIDE DEF new
  <2>1. /\ DOMAIN rows' = DOMAIN rows \cup {new}
    BY <1>2 DEF new
  <2> QED BY <1>2, <2>1 DEF Carried, Marked
<1>7. CASE call[w].drain
  <2>1. /\ Stamped(w).ev \notin Events /\ Stamped(w).dropped = failures[w]
    BY <1>7, LedgerAssumption DEF Stamped
  <2>2. /\ fate' = fate /\ failures'[w] = {}
        /\ \A x \in Writers : x # w => failures'[x] = failures[x]
        /\ call'[w].ev = call[w].ev /\ ~call'[w].drain
        /\ \A x \in Writers : x # w => call'[x] = call[x]
    BY <1>3, <1>7 DEF CommitRow, AfterDrain, AccountInv, ChainInv, TypeOK
  <2>3. \A y \in failures[w] : y \in Events /\ fate[y] = "queued"
    BY <1>3, <1>4 DEF AccountInv, DroppedOnce
  <2>4. Accounted'
    <3> SUFFICES ASSUME NEW y \in Events
                 PROVE  /\ fate'[y] = "recorded" <=> Carried(rows', y)
                        /\ \A s, t \in DOMAIN rows' :
                              rows'[s].digest.ev = y /\ rows'[t].digest.ev = y
                              => s = t
                        /\ fate'[y] = "queued" =>
                              \/ \E x \in Writers :
                                    up'[x] = "open" /\ y \in failures'[x]
                              \/ Marked(rows', y)
                        /\ Marked(rows', y) => fate'[y] = "queued"
      BY DEF Accounted
    <3>1. Carried(rows', y) <=> Carried(rows, y)
      BY <1>6, <2>1
    <3>2. Marked(rows', y) <=> Marked(rows, y) \/ y \in failures[w]
      BY <1>6, <2>1
    <3>3. \A s, t \in DOMAIN rows' :
             rows'[s].digest.ev = y /\ rows'[t].digest.ev = y => s = t
      <4>1. \A s \in DOMAIN rows' : rows'[s].digest.ev = y => s \in DOMAIN rows
        BY <1>2, <2>1
      <4> QED BY <1>2, <4>1 DEF AccountInv, Accounted
    <3>4. fate[y] = "queued" =>
             \/ \E x \in Writers : up'[x] = "open" /\ y \in failures'[x]
             \/ Marked(rows', y)
      <4> SUFFICES ASSUME fate[y] = "queued", ~Marked(rows', y)
                   PROVE  \E x \in Writers : up'[x] = "open" /\ y \in failures'[x]
        OBVIOUS
      <4>1. PICK x \in Writers : up[x] = "open" /\ y \in failures[x]
        BY <3>2 DEF AccountInv, Accounted
      <4>2. x # w
        BY <3>2, <4>1
      <4> QED BY <1>3, <2>2, <4>1, <4>2
    <3> QED
      BY <2>2, <2>3, <3>1, <3>2, <3>3, <3>4 DEF AccountInv, Accounted
  <2>5. CallsOwnEvents'
    BY <1>3, <2>2 DEF AccountInv, CallsOwnEvents
  <2>6. DroppedOnce'
    <3>1. \A x \in Writers : \A y \in failures'[x] :
             /\ x # w /\ y \in failures[x] /\ y \in Events
             /\ y \notin failures[w]
             /\ Marked(rows', y) <=> Marked(rows, y)
      BY <1>4, <1>6, <2>1, <2>2 DEF AccountInv, DroppedOnce
    <3> QED BY <1>3, <2>2, <3>1 DEF AccountInv, DroppedOnce
  <2> QED BY <1>1, <2>4, <2>5, <2>6 DEF AccountInv
<1>8. CASE ~call[w].drain
  <2> DEFINE e == call[w].ev
  <2>1. /\ e \in Events /\ fate[e] = "calling"
        /\ Stamped(w).ev = e /\ Stamped(w).dropped = {}
    BY <1>3, <1>8 DEF AccountInv, CallsOwnEvents, Stamped
  <2>2. /\ ~Carried(rows, e) /\ ~Marked(rows, e)
        /\ \A x \in Writers : e \notin failures[x]
    BY <2>1, NewIsNowhere
  <2>3. /\ failures' = failures /\ fate'[e] = "recorded"
        /\ \A x \in Events : x # e => fate'[x] = fate[x]
        /\ call'[w].step = "idle"
        /\ \A x \in Writers : x # w => call'[x] = call[x]
    BY <1>8, <2>1 DEF CommitRow, AccountInv, ChainInv, TypeOK, Idle
  <2>4. \A x \in Writers : x # w /\ call[x].step # "idle" => call[x].ev # e
    BY <1>3 DEF AccountInv, CallsOwnEvents
  <2> HIDE DEF e
  <2>5. \A y \in Events : /\ Carried(rows', y) <=> Carried(rows, y) \/ y = e
                          /\ Marked(rows', y) <=> Marked(rows, y)
    BY <1>6, <2>1
  <2>6. Accounted'
    <3> SUFFICES ASSUME NEW y \in Events
                 PROVE  /\ fate'[y] = "recorded" <=> Carried(rows', y)
                        /\ \A s, t \in DOMAIN rows' :
                              rows'[s].digest.ev = y /\ rows'[t].digest.ev = y
                              => s = t
                        /\ fate'[y] = "queued" =>
                              \/ \E x \in Writers :
                                    up'[x] = "open" /\ y \in failures'[x]
                              \/ Marked(rows', y)
                        /\ Marked(rows', y) => fate'[y] = "queued"
      BY DEF Accounted
    <3>1. CASE y = e
      <4>1. \A s \in DOMAIN rows' : rows'[s].digest.ev = y => s = new
        BY <1>2, <2>2, <3>1 DEF Carried
      <4> QED BY <2>2, <2>3, <2>5, <3>1, <4>1
    <3>2. CASE y # e
      <4>1. \A s \in DOMAIN rows' : rows'[s].digest.ev = y => s \in DOMAIN rows
        BY <1>2, <2>1, <3>2
      <4>2. \A s, t \in DOMAIN rows' :
               rows'[s].digest.ev = y /\ rows'[t].digest.ev = y => s = t
        BY <1>2, <4>1 DEF AccountInv, Accounted
      <4> QED BY <1>3, <2>3, <2>5, <3>2, <4>2 DEF AccountInv, Accounted
    <3> QED BY <3>1, <3>2
  <2>7. CallsOwnEvents'
    BY <1>5, <2>3, <2>4 DEF AccountInv, CallsOwnEvents
  <2>8. DroppedOnce'
    BY <1>3, <1>4, <2>2, <2>3, <2>5 DEF AccountInv, DroppedOnce
  <2> QED BY <1>1, <2>6, <2>7, <2>8 DEF AccountInv
<1> QED BY <1>3, <1>7, <1>8

LEMMA AccountStep == AccountInv /\ [Next]_vars => AccountInv'
<1> SUFFICES ASSUME AccountInv, [Next]_vars PROVE AccountInv'
  OBVIOUS
<1>1. ASSUME NEW w \in Writers, WriterStep(w) PROVE AccountInv'
  <2>1. CASE Open(w)
    BY <2>1, OpenAccount
  <2>2. CASE \E e \in Events : AppendClosed(w, e)
    BY <2>2, AppendClosedAccount
  <2>3. CASE \E e \in Events, note \in BOOLEAN : BeginAppend(w, e, note)
    BY <2>3, BeginAppendAccount
  <2>4. CASE CommitRow(w)
    BY <2>4, CommitRowAccount
  <2>5. CASE Collide(w) \/ Resync(w)
    BY <2>5, RetryAccount
  <2>6. CASE CollideAgain(w) \/ WriteFault(w)
    BY <2>6, WriteFailureAccount
  <2>7. CASE Note(w)
    BY <2>7, NoteAccount
  <2>8. CASE Close(w)
    BY <2>8, CloseAccount
  <2>9. CASE Crash(w)
    BY <2>9, CrashAccount
  <2> QED
    BY <1>1, <2>1, <2>2, <2>3, <2>4, <2>5, <2>6, <2>7, <2>8, <2>9
    DEF WriterStep, AppendStep
<1>2. CASE \E n \in 0..txns : OSCrash(n)
  BY <1>2, OSCrashAccount
<1>3. CASE UNCHANGED vars
  <2>1. ChainInv'
    BY ChainStep DEF AccountInv
  <2> QED
    BY <1>3, <2>1
    DEF AccountInv, Accounted, CallsOwnEvents, DroppedOnce, vars
<1> QED BY <1>1, <1>2, <1>3 DEF Next

\* Every event handed to append is accounted for in every reachable state.
THEOREM EveryEventAccounted == Spec => []Accounted
<1>1. AccountInv => Accounted
  BY DEF AccountInv
<1> QED BY <1>1, AccountInit, AccountStep, PTL DEF Spec

-----------------------------------------------------------------------------
(* Refinement *)

\* The abstract log: the digests in seq order.
Log == [s \in DOMAIN rows |-> rows[s].digest]

\* The rows of a ledger, read in seq order, are a sequence of digests.
LEMMA LogIsSequence ==
    ASSUME AccountInv
    PROVE  Log \in Seq(Digests) /\ Len(Log) = LastSeq /\ DOMAIN Log = 1..LastSeq
<1>1. LastSeq \in Nat /\ DOMAIN rows = 1..LastSeq
  BY DEF AccountInv, ChainInv, Contiguous
<1>2. Log \in [1..LastSeq -> Digests]
  BY <1>1 DEF AccountInv, ChainInv, TypeOK, Rows, Log
<1> QED BY <1>1, <1>2

\* A sequence is the function of its elements.
LEMMA SeqAsFunction ==
    ASSUME NEW S, NEW q \in Seq(S)
    PROVE  q = [i \in 1..Len(q) |-> q[i]]
OBVIOUS

\* A commit appends one digest that was not in the log.
LEMMA CommitAppends ==
    ASSUME AccountInv, NEW w \in Writers, CommitRow(w)
    PROVE  \E d \in Digests : /\ \A i \in DOMAIN Log : Log[i] # d
                              /\ Log' = Append(Log, d)
<1> DEFINE d == Stamped(w)
<1>1. /\ LastSeq \in Nat /\ DOMAIN rows = 1..LastSeq
      /\ DOMAIN rows' = 1..(LastSeq + 1)
      /\ rows'[LastSeq + 1].digest = d
      /\ \A s \in DOMAIN rows : rows'[s] = rows[s]
  BY CommitAddsOne
<1>2. d \in Digests /\ call[w].step # "idle"
      /\ call[w] \in [step : {"insert", "resync"}, drain : BOOLEAN,
                      attempt : {0, 1}, ev : Events, note : BOOLEAN]
  BY StampedType DEF AccountInv, ChainInv, CommitRow
<1>3. \A s \in DOMAIN rows : rows[s].digest # d
  <2>1. CASE call[w].drain
    <3>1. PICK y \in failures[w] : TRUE
      BY <1>2, <2>1 DEF AccountInv, CallsOwnEvents
    <3>2. ~Marked(rows, y) /\ d.dropped = failures[w]
      BY <1>2, <2>1
      DEF AccountInv, DroppedOnce, ChainInv, CallsOpen, Stamped
    <3> QED BY <3>1, <3>2 DEF Marked
  <2>2. CASE ~call[w].drain
    <3>1. fate[call[w].ev] = "calling" /\ d.ev = call[w].ev
      BY <1>2, <2>2 DEF AccountInv, CallsOwnEvents, Stamped
    <3>2. ~Carried(rows, d.ev)
      BY <1>2, <3>1, NewIsNowhere
    <3> QED BY <3>2 DEF Carried
  <2> QED BY <1>2, <2>1, <2>2
<1>4. \A i \in DOMAIN Log : Log[i] # d
  BY <1>3 DEF Log
<1>5. Log' = Append(Log, d)
  <2> HIDE DEF d
  <2>1. Log \in Seq(Digests) /\ Len(Log) = LastSeq /\ DOMAIN Log = 1..LastSeq
    BY LogIsSequence
  <2>2. Append(Log, d) = [i \in 1..(LastSeq + 1) |->
                            IF i = LastSeq + 1 THEN d ELSE Log[i]]
    <3>1. /\ Append(Log, d) \in Seq(Digests)
          /\ Len(Append(Log, d)) = LastSeq + 1
          /\ \A i \in 1..LastSeq : Append(Log, d)[i] = Log[i]
          /\ Append(Log, d)[LastSeq + 1] = d
      BY <1>2, <2>1, AppendProperties
    <3>3. Append(Log, d) = [i \in 1..(LastSeq + 1) |-> Append(Log, d)[i]]
      BY <1>1, <3>1, SeqAsFunction
    <3> QED BY <1>1, <3>1, <3>3
  <2>3. Log' = [i \in 1..(LastSeq + 1) |-> rows'[i].digest]
    BY <1>1 DEF Log
  <2>4. \A i \in 1..(LastSeq + 1) :
           rows'[i].digest = IF i = LastSeq + 1 THEN d ELSE Log[i]
    BY <1>1 DEF Log
  <2> QED BY <2>2, <2>3, <2>4
<1> QED BY <1>2, <1>4, <1>5

\* An OS crash cuts the log to a prefix.
LEMMA OSCrashCuts ==
    ASSUME AccountInv, NEW n \in 0..txns, OSCrash(n)
    PROVE  \E m \in 0..Len(Log) : Log' = SubSeq(Log, 1, m)
<1>1. Log \in Seq(Digests) /\ Len(Log) = LastSeq /\ DOMAIN Log = 1..LastSeq
  BY LogIsSequence
<1>2. n \in Nat /\ LastSeq \in Nat /\ DOMAIN rows = 1..LastSeq
  BY DEF AccountInv, ChainInv, TypeOK, Contiguous
<1>3. PICK m \in 0..LastSeq : /\ DOMAIN rows' = 1..m
                              /\ \A s \in 1..m : rows'[s] = rows[s]
  BY <1>2, OSCrashPrefix DEF AccountInv
<1>4. Log' = [i \in 1..m |-> Log[i]]
  BY <1>2, <1>3 DEF Log
<1>5. SubSeq(Log, 1, m) = [i \in 1..m |-> Log[i]]
  BY <1>1, <1>2, <1>3
<1> QED BY <1>1, <1>3, <1>4, <1>5

\* The ledger implements the append-only evidence log.
THEOREM LedgerImplementsLog == Spec => ImplementsLog
<1>1. Init => Abs!Init
  BY DEF Init, Abs!Init
<1>2. AccountInv /\ [Next]_vars => [Abs!Next]_Log
  <2> SUFFICES ASSUME AccountInv, [Next]_vars PROVE Abs!Next \/ Log' = Log
    BY DEF Abs!Next
  <2>1. ASSUME NEW w \in Writers, CommitRow(w) PROVE Abs!Next
    BY <2>1, CommitAppends DEF Abs!Next, Abs!AppendOne, Log
  <2>2. ASSUME NEW n \in 0..txns, OSCrash(n) PROVE Abs!Next
    BY <2>2, OSCrashCuts DEF Abs!Next, Abs!LoseTail, Log
  <2>3. CASE rows' = rows
    BY <2>3 DEF Log
  <2>4. ASSUME NEW w \in Writers, WriterStep(w), ~CommitRow(w) PROVE rows' = rows
    BY <2>4 DEF WriterStep, AppendStep, Open, AppendClosed, BeginAppend, Collide,
                Resync, CollideAgain, WriteFault, Note, Close, Crash, disk
  <2> QED BY <2>1, <2>2, <2>3, <2>4 DEF Next, vars
<1>3. Spec => []AccountInv
  BY AccountInit, AccountStep, PTL DEF Spec
<1> QED BY <1>1, <1>2, <1>3, PTL DEF Spec, ImplementsLog, Abs!Spec, Log
=============================================================================

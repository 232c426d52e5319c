------------------------------ MODULE Verdicts ------------------------------
(***************************************************************************)
(* Shipping mandate verdicts (recorder/verdicts.py): the outbox, a SQLite  *)
(* file that several processes may open, and the shippers that drain it    *)
(* into Coriqo's batch endpoint (coriqo_async.py record_verdict_batch,     *)
(* the one write that _send retries).  A batch is claimed under a key the  *)
(* device chose; Coriqo, which is external, seals a key once and replays   *)
(* its answer.  Requests and answers get lost, and a process may die.      *)
(***************************************************************************)
EXTENDS Integers, Sequences, FiniteSets, SequencesExt

CONSTANTS
    Nothing,
    Procs,          \* processes with a shipper
    Agents,         \* agents the verdicts are about
    Limits,         \* max_batch, as a shipper may be configured
    Attempts,       \* RetryPolicy.attempts
    MaxVerdicts, MaxFaults      \* bounds of the model

ASSUME VerdictsAssumption ==
    /\ Limits \subseteq Nat \ {0} /\ Attempts \in Nat \ {0}
    /\ MaxVerdicts \in Nat /\ MaxFaults \in Nat

VARIABLES
    outbox,     \* pending_verdicts, by id
    bad,        \* ids Coriqo has a reason to refuse
    keys,       \* batch keys made so far
    ship,       \* process -> where its ship_once is
    held,       \* Coriqo: batch key -> the ids it sealed under it
    faults

verdictVars == <<outbox, bad, keys, ship, held, faults>>

Ids == 1..Len(outbox)
Idle == [pc |-> "idle"]

VerdictsInit ==
    /\ outbox = <<>> /\ bad = {} /\ keys = 0
    /\ ship = [p \in Procs |-> Idle]
    /\ held = <<>> /\ faults = 0

\* VerdictOutbox.add, the last step of VerdictRecorder.record.
Add(a, refused) ==
    /\ Len(outbox) < MaxVerdicts
    /\ outbox' = Append(outbox, [agent |-> a, key |-> 0, state |-> "pending"])
    /\ bad' = IF refused THEN bad \cup {Len(outbox) + 1} ELSE bad
    /\ UNCHANGED <<keys, ship, held, faults>>

-----------------------------------------------------------------------------
(* VerdictOutbox.claim.                                                    *)

Claimed == {i \in Ids : outbox[i].state = "pending" /\ outbox[i].key # 0}
Unclaimed == {i \in Ids : outbox[i].state = "pending" /\ outbox[i].key = 0}
Lowest(S, n) == {i \in S : Cardinality({j \in S : j < i}) < n}

\* _resume_claimed's first query: is a batch claimed and not confirmed?
ResumeHead(p) ==
    /\ ship[p].pc = "idle" /\ Claimed \cup Unclaimed # {}
    /\ ship' = [ship EXCEPT ![p] =
         IF Claimed = {} THEN [pc |-> "fresh"]
         ELSE [pc |-> "resume", key |-> outbox[Min(Claimed)].key]]
    /\ UNCHANGED <<outbox, bad, keys, held, faults>>

Batch(key, ids) == [pc |-> "send", key |-> key, ids |-> ids, try |-> 1]

\* Mutant: a resumed batch is cut to the limit.
ResumedLimited(key, n) == Lowest({i \in Claimed : outbox[i].key = key}, n)

\* _resume_claimed's second query: the whole of that batch, whatever the limit.
Resumed(key, n) == {i \in Claimed : outbox[i].key = key}

ResumeRows(p, n) ==
    /\ ship[p].pc = "resume"
    /\ ship' = [ship EXCEPT ![p] = Batch(ship[p].key, Resumed(ship[p].key, n))]
    /\ UNCHANGED <<outbox, bad, keys, held, faults>>

\* One agent's verdicts go in a batch.
Taken(n) ==
    LET first == Lowest(Unclaimed, n)
    IN {i \in first : outbox[i].agent = outbox[Min(first)].agent}

\* The BEGIN IMMEDIATE transaction that stamps a new key.
ClaimNew(p, n) ==
    /\ ship[p].pc = "fresh"
    /\ IF Unclaimed = {}
       THEN ship' = [ship EXCEPT ![p] = Idle] /\ UNCHANGED <<outbox, keys>>
       ELSE /\ keys' = keys + 1
            /\ outbox' = [i \in Ids |-> IF i \in Taken(n)
                            THEN [outbox[i] EXCEPT !.key = keys + 1] ELSE outbox[i]]
            /\ ship' = [ship EXCEPT ![p] = Batch(keys + 1, Taken(n))]
    /\ UNCHANGED <<bad, held, faults>>

-----------------------------------------------------------------------------
(* AsyncCoriqoAgentsClient._send and ship_once.                            *)

SetState(ids, s) ==
    outbox' = [i \in Ids |-> IF i \in ids THEN [outbox[i] EXCEPT !.state = s] ELSE outbox[i]]

\* record_verdict_batch refuses to build a request for no verdicts (two
\* queries of _resume_claimed that saw different states): parked as a 422 is.
NothingToSend(p) ==
    /\ ship[p].pc = "send" /\ ship[p].ids = {}
    /\ ship' = [ship EXCEPT ![p] = Idle]
    /\ UNCHANGED <<outbox, bad, keys, held, faults>>

\* Coriqo gets the batch: a known key is replayed, a malformed batch refused.
Sealed(key, ids) ==
    IF key \in DOMAIN held \/ ids \cap bad # {} THEN held
    ELSE [k \in DOMAIN held \cup {key} |-> IF k = key THEN ids ELSE held[k]]

Verdict(key, ids, counted) ==
    IF key \in DOMAIN held
    THEN [status |-> "duplicate", count |-> IF counted THEN Cardinality(held[key]) ELSE Nothing]
    ELSE [status |-> IF ids \cap bad # {} THEN "422" ELSE "ok", count |-> Nothing]

Answered(p, counted) ==
    /\ ship[p].pc = "send" /\ ship[p].ids # {}
    /\ held' = Sealed(ship[p].key, ship[p].ids)
    /\ ship' = [ship EXCEPT ![p] = [pc |-> "done", key |-> @.key, ids |-> @.ids,
                                    answer |-> Verdict(@.key, @.ids, counted)]]
    /\ UNCHANGED <<outbox, bad, keys, faults>>

\* The next attempt, or the error after the last one.
Retry(s) == IF s.try < Attempts THEN [s EXCEPT !.try = @ + 1] ELSE Idle

\* No answer: a dropped request or answer, a 429 or a 5xx, or the 409 of two
\* copies of a batch that race.
Unanswered(p, landed) ==
    /\ ship[p].pc = "send" /\ ship[p].ids # {} /\ faults < MaxFaults
    /\ faults' = faults + 1
    /\ held' = IF landed THEN Sealed(ship[p].key, ship[p].ids) ELSE held
    /\ ship' = [ship EXCEPT ![p] = Retry(ship[p])]
    /\ UNCHANGED <<outbox, bad, keys>>

\* Mutant: a batch that Coriqo refuses stays claimed, to be tried again.
OutcomeNeverParks(ids, answer) ==
    IF answer.status = "422" THEN "pending" ELSE "shipped"

\* Parked when refused, or replayed at another size; else shipped.
Outcome(ids, answer) ==
    IF answer.status = "422" THEN "rejected"
    ELSE IF answer.status = "duplicate" /\ answer.count # Nothing
            /\ answer.count # Cardinality(ids) THEN "rejected"
    ELSE "shipped"

Conclude(p) ==
    /\ ship[p].pc = "done"
    /\ SetState(ship[p].ids, Outcome(ship[p].ids, ship[p].answer))
    /\ ship' = [ship EXCEPT ![p] = Idle]
    /\ UNCHANGED <<bad, keys, held, faults>>

Dies(p) ==
    /\ ship[p].pc # "idle" /\ faults < MaxFaults
    /\ faults' = faults + 1
    /\ ship' = [ship EXCEPT ![p] = Idle]
    /\ UNCHANGED <<outbox, bad, keys, held>>

ShipStep(p) ==
    \/ ResumeHead(p)
    \/ \E n \in Limits : ResumeRows(p, n)
    \/ \E n \in Limits : ClaimNew(p, n)
    \/ NothingToSend(p)
    \/ \E counted \in BOOLEAN : Answered(p, counted)
    \/ Conclude(p)

VerdictsNext ==
    \/ \E a \in Agents, refused \in BOOLEAN : Add(a, refused)
    \/ \E p \in Procs : ShipStep(p)
    \/ \E p \in Procs, landed \in BOOLEAN : Unanswered(p, landed)
    \/ \E p \in Procs : Dies(p)

\* Some caller runs ship_once again and again, on each process.
VerdictsFairness == \A p \in Procs : WF_verdictVars(ShipStep(p))

VerdictsSpec == VerdictsInit /\ [][VerdictsNext]_verdictVars

-----------------------------------------------------------------------------
(* Properties.                                                             *)

SealedUnder(i) == {k \in DOMAIN held : i \in held[k]}

\* verdicts.py claim, ship_once: a verdict is sealed at most once, whatever
\* two processes claim and resend; a row marked shipped is sealed and a row
\* marked rejected is not.
OutboxTellsTheTruth ==
    \A i \in Ids :
        /\ Cardinality(SealedUnder(i)) <= 1
        /\ outbox[i].state = "shipped" => SealedUnder(i) # {}
        /\ outbox[i].state = "rejected" => SealedUnder(i) = {}

\* verdicts.py ship_once: no verdict starves behind a batch that is lost,
\* refused or claimed by a process that died.
VerdictsSettle ==
    \A i \in 1..MaxVerdicts :
        (i \in Ids /\ outbox[i].state = "pending")
            ~> (i \in Ids /\ outbox[i].state # "pending")
=============================================================================

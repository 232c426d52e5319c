----------------------------- MODULE ShieldSync -----------------------------
(***************************************************************************)
(* What a managed Shield tells Coriqo: the signed head of its seal chain,  *)
(* and, when the policy shares activity, batches of events (or daily       *)
(* totals of them).  Coriqo is external: it stores a batch once per        *)
(* batch_id.  Requests and answers may get lost, the process may die       *)
(* between any two steps; what it knows is the state file.                 *)
(*                                                                         *)
(* Event t happens at time t and is sealed as entry t of the chain.        *)
(***************************************************************************)
EXTENDS Integers, Sequences, FiniteSets, SequencesExt

CONSTANTS
    Nothing,
    FeedCap,        \* interactions the feed keeps
    Retain,         \* retention of unsent events, in steps of the clock
    OutboxCap,      \* SYNC_OUTBOX_CAP
    BatchSize,      \* SYNC_BATCH
    MaxTime, MaxChanges, MaxFaults      \* bounds of the model

Levels == {"seal", "daily", "events"}
Gaps == [from : Nat, to : Nat]
Batches == [id : Nat, level : Levels, gap : Gaps, epoch : Nat, ids : Seq(Nat)]

ASSUME SyncAssumption ==
    /\ Nothing \notin Nat /\ Nothing \notin Batches
    /\ FeedCap \in Nat \ {0} /\ BatchSize \in Nat \ {0} /\ Retain \in Nat /\ OutboxCap \in Nat
    /\ MaxTime \in Nat /\ MaxChanges \in Nat /\ MaxFaults \in Nat

VARIABLES
    now,        \* events so far; also the height of the chain and the clock
    items,      \* Feed.items, oldest first
    level,      \* the sharing level of the policy in force
    st,         \* PublishState, as saved
    pc,         \* where the publisher's tick is
    heads,      \* Coriqo: heights of the seal heads it holds
    stored,     \* Coriqo: the batches it holds
    missed,     \* history: events that left the feed before they were collected
    givenUp,    \* history: gaps that Coriqo refused to be told of
    changes, faults

vars == <<now, items, level, st, pc, heads, stored, missed, givenUp, changes, faults>>

NoGap == [from |-> 0, to |-> 0]

Fresh == [last |-> 0, outbox |-> Nothing, since |-> 0, events |-> <<>>, seen |-> {},
          gap |-> NoGap, inflight |-> Nothing, seq |-> 0]

Init ==
    /\ now = 0 /\ items = <<>> /\ level \in Levels /\ st = Fresh /\ pc = "idle"
    /\ heads = {} /\ stored = {} /\ missed = {} /\ givenUp = {} /\ changes = 0 /\ faults = 0

\* An interaction is sealed and shown; the feed keeps the newest.
Event ==
    /\ now < MaxTime /\ now' = now + 1
    /\ items' = IF Len(items) < FeedCap THEN Append(items, now + 1)
                ELSE Append(Tail(items), now + 1)
    /\ missed' = missed \cup {t \in Range(items) \ Range(items') :
                                 t \notin st.seen \cup Range(st.events)}
    /\ UNCHANGED <<givenUp, level, st, pc, heads, stored, changes, faults>>

\* A managed policy moves the sharing level.
SetLevel(l) ==
    /\ l # level /\ changes < MaxChanges
    /\ level' = l /\ changes' = changes + 1
    /\ UNCHANGED <<now, items, st, pc, heads, stored, missed, givenUp, faults>>

-----------------------------------------------------------------------------
(* Collecting events.                                                      *)

\* What is left of a list, in its order: the k-th element left is the one with
\* k of them up to it.
Without(s, gone) ==
    LET kept == {i \in DOMAIN s : s[i] \notin gone}
    IN  [k \in 1..Cardinality(kept) |->
            s[CHOOSE i \in kept : Cardinality({j \in kept : j <= i}) = k]]

\* _drop_events: marked seen, and the gap grows over them.
Widen(gap, dropped) ==
    IF dropped = {} THEN gap
    ELSE LET all == dropped \cup (IF gap = NoGap THEN {} ELSE {gap.from, gap.to})
         IN  [from |-> Min(all), to |-> Max(all)]
DropEventsQuietly(s, dropped) ==
    [s EXCEPT !.events = Without(@, dropped), !.seen = @ \cup dropped]
DropEvents(s, dropped) ==
    [s EXCEPT !.events = Without(@, dropped),
              !.seen = @ \cup dropped, !.gap = Widen(@, dropped)]

Frozen(s) == IF s.inflight = Nothing THEN {} ELSE Range(s.inflight.ids)

\* The events past retention, or over the cap, the oldest first; the batch in
\* flight is never trimmed.
Expired(s) == {t \in Range(s.events) : t < now - Retain} \ Frozen(s)
OverCap(s, kept) ==
    LET loose  == {i \in DOMAIN s.events : s.events[i] \in kept \ Frozen(s)}
        excess == Cardinality(kept) - OutboxCap
    IN  {s.events[i] : i \in {k \in loose : Cardinality({j \in loose : j <= k}) <= excess}}
Trimmed(s) == Expired(s) \cup OverCap(s, Range(s.events) \ Expired(s))

\* _collect: new items become events, those from before sharing began are
\* marked seen.
Collect(s) ==
    LET known == s.seen \cup Range(s.events)
        old   == {t \in Range(items) : t < s.since}
    IN  [s EXCEPT !.events = @ \o Without(items, known \cup old),
                  !.seen = @ \cup (old \ known)]

\* sync_tick: sharing turned down forgets what waits; turned up it begins now.
\* What is collected is trimmed before anything is sent.
SyncTick ==
    /\ pc = "idle"
    /\ \/ /\ level = "seal"
          /\ st' = [st EXCEPT !.since = 0, !.events = <<>>, !.gap = NoGap, !.inflight = Nothing]
          /\ pc' = "idle"
       \/ /\ level # "seal"
          /\ \E c \in {Collect(IF st.since = 0 THEN [st EXCEPT !.since = now] ELSE st)} :
             \E dropped \in {Trimmed(c)} : st' = DropEvents(c, dropped)
          /\ pc' = IF st'.events # <<>> \/ st'.gap # NoGap THEN "send" ELSE "idle"
    /\ st' # st \/ pc' # pc
    /\ UNCHANGED <<now, items, level, heads, stored, missed, givenUp, changes, faults>>

-----------------------------------------------------------------------------
(* Sending.                                                                *)

HasNew == now > st.last

\* send: the waiting head, or a new one over the chain as it is, saved before it
\* goes out.
SealEntry == IF st.outbox = Nothing THEN now ELSE st.outbox
TickSeal == pc = "idle" /\ (HasNew \/ st.outbox # Nothing)

SendSealOk ==
    /\ TickSeal \/ (pc = "send" /\ (HasNew \/ st.outbox # Nothing))
    /\ heads' = heads \cup {SealEntry}
    /\ st' = [st EXCEPT !.last = SealEntry, !.outbox = Nothing]
    /\ pc' = IF pc = "send" /\ SealEntry = now THEN "send" ELSE "idle"
    /\ UNCHANGED <<now, items, level, stored, missed, givenUp, changes, faults>>

\* The request or its answer is lost, or Coriqo asks for it again later; the
\* entry stays in the outbox and the tick ends.
SendSealFails ==
    /\ TickSeal \/ (pc = "send" /\ (HasNew \/ st.outbox # Nothing))
    /\ faults < MaxFaults /\ faults' = faults + 1
    /\ heads' \in {heads, heads \cup {SealEntry}}
    /\ st' = [st EXCEPT !.outbox = SealEntry]
    /\ pc' = "idle"
    /\ UNCHANGED <<now, items, level, stored, missed, givenUp, changes>>

\* _send_events waits until every seal is under an accepted head.
SealsAssumed == TRUE
SealsOffByOne == st.outbox = Nothing /\ st.last > now
SealsAccepted == st.outbox = Nothing /\ ~HasNew

\* _send_events freezes the next batch, or takes the one in flight again.
SameFlight(s) ==
    /\ s.inflight # Nothing
    /\ s.inflight.level = level /\ IsPrefix(s.inflight.ids, s.events)
FreezeBatch ==
    /\ pc = "send" /\ SealsAccepted /\ level # "seal"
    /\ pc' = "post"
    /\ st' = IF SameFlight(st) THEN st
             ELSE [st EXCEPT !.seq = @ + 1,
                     !.inflight = [id |-> st.seq + 1, level |-> level, gap |-> st.gap,
                                   epoch |-> changes,
                                   ids |-> SubSeq(st.events, 1, IF Len(st.events) < BatchSize
                                                     THEN Len(st.events) ELSE BatchSize)]]
    /\ UNCHANGED <<now, items, level, heads, stored, missed, givenUp, changes, faults>>

\* Coriqo stores the batch (once per id) and its answer arrives.
Sent ==
    [st EXCEPT !.seen = @ \cup Range(st.inflight.ids),
               !.events = SubSeq(@, Len(st.inflight.ids) + 1, Len(@)),
               !.gap = IF @ = st.inflight.gap THEN NoGap ELSE @,
               !.inflight = Nothing]
PostOk ==
    /\ pc = "post"
    /\ stored' = stored \cup {st.inflight}
    /\ st' = Sent
    /\ pc' = IF Sent.events = <<>> THEN "idle" ELSE "send"
    /\ UNCHANGED <<now, items, level, heads, missed, givenUp, changes, faults>>

\* The request or its answer is lost, or the process dies: the batch stays frozen.
PostFails ==
    /\ pc = "post" /\ faults < MaxFaults /\ faults' = faults + 1
    /\ stored' \in {stored, stored \cup {st.inflight}}
    /\ pc' = "idle"
    /\ UNCHANGED <<now, items, level, st, heads, missed, givenUp, changes>>

\* 422: the batch can never be accepted; its events go into the gap, a gap of
\* its own is given up.
PostMalformed ==
    /\ pc = "post" /\ faults < MaxFaults /\ faults' = faults + 1
    /\ st.inflight \notin stored
    /\ LET s == [st EXCEPT !.inflight = Nothing] IN
       IF st.inflight.ids # <<>>
       THEN st' = DropEvents(s, Range(st.inflight.ids)) /\ UNCHANGED givenUp
       ELSE /\ st' = [s EXCEPT !.gap = IF @ = st.inflight.gap THEN NoGap ELSE @]
            /\ givenUp' = givenUp \cup {st.inflight.gap}
    /\ pc' = "idle"
    /\ UNCHANGED <<now, items, level, heads, stored, missed, changes>>

\* 409: Coriqo has another level for this device; the batch is built again.
PostConflict ==
    /\ pc = "post" /\ faults < MaxFaults /\ faults' = faults + 1
    /\ st.inflight \notin stored
    /\ st' = [st EXCEPT !.inflight = Nothing]
    /\ pc' = "idle"
    /\ UNCHANGED <<now, items, level, heads, stored, missed, givenUp, changes>>

Next ==
    \/ Event \/ \E l \in Levels : SetLevel(l)
    \/ SyncTick \/ SendSealOk \/ SendSealFails \/ FreezeBatch
    \/ PostOk \/ PostFails \/ PostMalformed \/ PostConflict

\* The publisher's loop keeps ticking, and an answer keeps coming in the end.
SyncFairness ==
    /\ WF_vars(SyncTick) /\ WF_vars(SendSealOk)
    /\ WF_vars(FreezeBatch) /\ WF_vars(PostOk)

Spec == Init /\ [][Next]_vars /\ SyncFairness

-----------------------------------------------------------------------------
(* Properties.                                                             *)

Covers(gap, t) == gap.from <= t /\ t <= gap.to

\* Every event after sharing began is waiting, stored, told of as "no data", or
\* still to be collected; none is lost in silence by a retry, a refused batch, a
\* full outbox, or a lost answer.  (One that left the feed between two ticks is,
\* and so is a gap that Coriqo refused as malformed.)  And while the level
\* stays the same, no event is in two batches: what is sent again after a lost
\* answer is the same batch (sync_inflight: "daily totals would otherwise count
\* twice").
EventsAccounted ==
    /\ st.since > 0 => \A t \in st.since + 1 .. now :
         \/ t \in Range(st.events) \cup missed
         \/ t \in Range(items) /\ t \notin st.seen
         \/ \E g \in givenUp \cup {st.gap} : Covers(g, t)
         \/ \E b \in stored : t \in Range(b.ids) \/ Covers(b.gap, t)
    /\ \A b, c \in stored :
         b.id # c.id /\ b.epoch = c.epoch => Range(b.ids) \cap Range(c.ids) = {}

\* An event Coriqo holds is under a seal head that Coriqo holds already
\* (_send_events: "Every event's seal must already be under an accepted
\* checkpoint, so send that first").
SealBeforeEvents ==
    \A b \in stored : \A t \in Range(b.ids) : \E h \in heads : t <= h

\* What waits is sent in the end: with faults over and sharing on, the outbox
\* and the gap empty out.
SyncDrains == [](level # "seal" /\ st.since > 0 => <>(level = "seal" \/ (st.events = <<>> /\ st.gap = NoGap)))
=============================================================================

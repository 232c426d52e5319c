------------------------------- MODULE Bundle -------------------------------
(***************************************************************************)
(* The examiner's check of an export bundle (recorder/verify.py            *)
(* verify_bundle): entries, the checkpoints the device signed over them,   *)
(* the epochs the tenant signed over those, and the anchors.  Coriqo       *)
(* exports a bundle of what a device recorded; on the way to the examiner  *)
(* parts of it get lost, or are rewritten by someone who holds neither the *)
(* device's, the tenant's nor the log's key.  A signature is named by the  *)
(* key that made it; what is rewritten is signed by another key, or not.   *)
(* The pairing of tool calls and RFC 3161 anchors are left out.            *)
(***************************************************************************)
EXTENDS Merkle, Verify

CONSTANTS
    Device, NextDevice, Tenant, Rekor,      \* the keys
    Other,          \* any other key
    NoKey,
    Options,        \* what an examiner passes to verify_bundle
    MaxEdits        \* bound: alterations of a bundle

OptionTypes ==
    [pinned : {NoKey, Device}, known : SUBSET {Device}, tenant : BOOLEAN,
     check_anchors : BOOLEAN, require_pinned_anchors : BOOLEAN, rekor : BOOLEAN]

ASSUME BundleAssumption == Options \subseteq OptionTypes /\ MaxEdits \in Nat

VARIABLES
    recorded,   \* the events the device recorded
    bundle,     \* the bundle, once it was exported, as it is now
    edits

bundleVars == <<recorded, bundle, edits>>

-----------------------------------------------------------------------------
(* Recording and exporting.                                                *)

Recorded(dev, what) == [dev |-> dev, kind |-> "event", what |-> what]
Rotated(old, new, by) ==
    [dev |-> old, kind |-> "key_rotated", old |-> old, new |-> new, by |-> by]

\* With and without a rotation.
Histories ==
    {<<Recorded(Device, "a"), Recorded(Device, "b")>>,
     <<Recorded(Device, "a"), Rotated(Device, NextDevice, Device), Recorded(NextDevice, "b")>>}

Chained(events) ==
    LET link(entries, event) ==
            LET seq == Len(entries) + 1
                prev == IF entries = <<>> THEN GENESIS_PREV_HASH ELSE Last(entries).hash
            IN  Append(entries, [seq |-> seq, prev |-> prev, event |-> event,
                                 hash |-> compute_entry_hash(prev, seq, event)])
    IN  FoldLeft(link, <<>>, events)

Signed(entries, n, key) == [seq_end |-> n, head |-> entries[n].hash, sig |-> key]

\* A receipt of a log that holds the root at its second place.
Anchored(root, key) ==
    LET tree == Levels(<<LeafHash("first"), LeafHash(root)>>)
    IN  [type |-> "sigstore_rekor", index |-> 1, size |-> 2,
         path |-> PathOf(Proof(tree, 1).steps), root |-> Root(tree), set |-> key]
Unanchored == [type |-> "none"]

\* An epoch over these checkpoints, and the proofs that go with it.
Enclosed(b, checkpoints, tenant, log) ==
    LET tree == Levels([i \in DOMAIN checkpoints |-> LeafHash(checkpoints[i])])
    IN  [b EXCEPT
          !.checkpoints = [i \in DOMAIN checkpoints |->
              [checkpoint |-> checkpoints[i], proven |-> TRUE,
               steps |-> Proof(tree, i - 1).steps, epoch_index |-> 1]],
          !.epochs = <<[epoch_index |-> 1, root |-> Root(tree), tenant_key |-> tenant,
                        tenant_sig |-> tenant,
                        anchor |-> IF log = NoKey THEN Unanchored
                                   ELSE Anchored(Root(tree), log)]>>]

\* The device's checkpoints: after the first event, and at the end.
CheckpointsOf(events) ==
    LET entries == Chained(events)
        n == Len(events)
    IN  <<Signed(entries, 1, events[1].dev), Signed(entries, n, events[n].dev)>>

Export(events) ==
    Enclosed([device |-> Device, entries |-> Chained(events), checkpoints |-> <<>>,
              epochs |-> <<>>],
             CheckpointsOf(events), Tenant, Rekor)

NoBundle == [entries |-> <<>>]

BundleInit == recorded \in Histories /\ bundle = NoBundle /\ edits = 0

Issue == bundle = NoBundle /\ bundle' = Export(recorded) /\ UNCHANGED <<recorded, edits>>

-----------------------------------------------------------------------------
(* _walk_chain over the bundle's entries.                                  *)

\* _check_rotation_live and _check_rotation
CheckRotation(active, o, seq, event) ==
    LET checked(ok) == IF ok THEN "yes" ELSE "no"
    IN  IF o.pinned # NoKey
        THEN [seq |-> seq, new |-> event.new, verified |-> checked(event.by = active),
              valid |-> event.by = active /\ event.old = active /\ event.dev = active]
        ELSE [seq |-> seq, new |-> event.new, valid |-> TRUE,
              verified |-> IF event.old \in o.known THEN checked(event.by = event.old)
                           ELSE "unchecked"]

WalkEntry(o, walk, e) ==
    LET rotation == e.event.kind = "key_rotated"
        r == CheckRotation(walk.active, o, e.seq, e.event)
        derived == compute_entry_hash(e.prev, e.seq, e.event)
    IN  [seq |-> e.seq, hash |-> e.hash,
         bad |-> \/ walk.bad
                 \/ e.seq # walk.seq + 1
                 \/ e.prev # walk.hash \/ derived # e.hash
                 \/ IF o.pinned # NoKey THEN ~rotation /\ e.event.dev # walk.active
                    ELSE e.event.dev \in walk.retired
                 \/ rotation /\ (r.verified = "no" \/ ~r.valid),
         derived |-> [s \in DOMAIN walk.derived \cup {e.seq} |->
                        IF s = e.seq THEN derived ELSE walk.derived[s]],
         active |-> IF rotation /\ o.pinned # NoKey /\ r.valid THEN r.new ELSE walk.active,
         retired |-> IF rotation THEN walk.retired \cup {e.event.old} ELSE walk.retired,
         rotations |-> IF rotation THEN Append(walk.rotations, r) ELSE walk.rotations]

WalkChain(b, o) ==
    LET next(walk, e) == WalkEntry(o, walk, e)
    IN  FoldLeft(next, [seq |-> 0, hash |-> GENESIS_PREV_HASH, bad |-> FALSE,
                        derived |-> <<>>, active |-> o.pinned, retired |-> {},
                        rotations |-> <<>>], b.entries)

-----------------------------------------------------------------------------
(* verify_bundle                                                           *)

\* _build_key_timeline, _key_active_at
KeyActiveAt(b, walk, seq) ==
    LET past == SelectSeq(walk.rotations, LAMBDA r : r.verified = "yes" /\ r.seq < seq)
    IN  IF past = <<>> THEN b.device ELSE Last(past).new

\* _verify_checkpoints
BadSignature(b, walk, c) ==
    \/ c.sig # KeyActiveAt(b, walk, c.seq_end)
    \/ c.seq_end \notin DOMAIN walk.derived
    \/ walk.derived[c.seq_end] # c.head

SeqEnds(b) == {b.checkpoints[i].checkpoint.seq_end : i \in DOMAIN b.checkpoints}

\* Mutant: entries after the last checkpoint are not missed.
UnsignedTailIgnored(b, walk) == b.checkpoints = <<>>

\* With the device pinned, every entry is under a checkpoint.
UnsignedTail(b, walk) ==
    \/ b.checkpoints = <<>>
    \/ \E s \in DOMAIN walk.derived : \A n \in SeqEnds(b) : s > n

EpochRoots(b, index) ==
    {b.epochs[i].root : i \in {j \in DOMAIN b.epochs : b.epochs[j].epoch_index = index}}

BadInclusion(b, o, c) ==
    IF ~c.proven THEN o.tenant
    ELSE ~\E root \in EpochRoots(b, c.epoch_index) :
            VerifyCheckpoint(c.checkpoint, [leaf |-> LeafHash(c.checkpoint),
                                            steps |-> c.steps, root |-> root], root)

\* _verify_epoch_signature: None when there is nothing to check.
EpochSignature(e) ==
    IF e.tenant_sig = NoKey THEN "unchecked"
    ELSE IF e.tenant_sig = e.tenant_key THEN "yes" ELSE "no"

BadEpochSignature(o, e) ==
    \/ o.tenant /\ e.tenant_key # Tenant
    \/ EpochSignature(e) = "no"
    \/ o.tenant /\ EpochSignature(e) = "unchecked"

\* _verify_anchor: the audit path, and with the log's key its timestamp.
VerifyAnchor(o, e) ==
    /\ VerifyRekorReceipt(LeafHash(e.root), e.anchor.index, e.anchor.size,
                          e.anchor.path, e.anchor.root)
    /\ o.rekor => e.anchor.set = Rekor

BadAnchor(o, e) ==
    IF e.anchor.type = "none" \/ ~o.check_anchors THEN o.require_pinned_anchors
    ELSE ~VerifyAnchor(o, e) \/ (o.require_pinned_anchors /\ ~o.rekor)

VerifyBundle(b, o) ==
    LET walk == WalkChain(b, o)
    IN  /\ ~walk.bad
        /\ o.pinned # NoKey => b.device = o.pinned /\ ~UnsignedTail(b, walk)
        /\ \A i \in DOMAIN b.checkpoints :
             /\ ~BadSignature(b, walk, b.checkpoints[i].checkpoint)
             /\ ~BadInclusion(b, o, b.checkpoints[i])
        /\ \A i \in DOMAIN b.epochs :
             ~BadEpochSignature(o, b.epochs[i]) /\ ~BadAnchor(o, b.epochs[i])

-----------------------------------------------------------------------------
(* What may have happened to it.                                           *)

Edit(b) == edits < MaxEdits /\ bundle' = b /\ edits' = edits + 1 /\ UNCHANGED recorded

Events(b) == [i \in DOMAIN b.entries |-> b.entries[i].event]

DropEntry(i, rechain) ==
    Edit([bundle EXCEPT !.entries = IF rechain THEN Chained(RemoveAt(Events(bundle), i))
                                    ELSE RemoveAt(@, i)])
ChangeEntry(i, rechain) ==
    LET event == Recorded(bundle.entries[i].event.dev, "x")
    IN  Edit([bundle EXCEPT !.entries = IF rechain
                THEN Chained(ReplaceAt(Events(bundle), i, event))
                ELSE [@ EXCEPT ![i].event = event]])
AddEntry(event) ==
    Edit([bundle EXCEPT !.entries = Chained(Append(Events(bundle), event))])

NewEvents ==
    {Recorded(dev, "x") : dev \in {Device, NextDevice, Other}} \cup {Rotated(Device, Other, Other)}

DropCheckpoint(i) == Edit([bundle EXCEPT !.checkpoints = RemoveAt(@, i)])
DropProof(i) ==
    bundle.checkpoints[i].proven /\ Edit([bundle EXCEPT !.checkpoints[i].proven = FALSE])

\* One checkpoint for the entries as they are, under another key.
Reissue ==
    /\ bundle.entries # <<>>
    /\ Edit([bundle EXCEPT !.checkpoints =
         <<[checkpoint |-> Signed(bundle.entries, Len(bundle.entries), Other),
            proven |-> FALSE, steps |-> <<>>, epoch_index |-> 1]>>])
SwapDevice == bundle.device = Device /\ Edit([bundle EXCEPT !.device = Other])

\* An epoch for the checkpoints as they are, with or without signature and log.
Regrow(tenant, log) ==
    /\ bundle.checkpoints # <<>>
    /\ Edit(Enclosed(bundle, [i \in DOMAIN bundle.checkpoints |->
                                bundle.checkpoints[i].checkpoint], tenant, log))
DropEpoch == bundle.epochs # <<>> /\ Edit([bundle EXCEPT !.epochs = <<>>])
DropAnchor == bundle.epochs # <<>> /\ Edit([bundle EXCEPT !.epochs[1].anchor = Unanchored])

Alter ==
    \/ \E i \in DOMAIN bundle.entries, rechain \in BOOLEAN :
         DropEntry(i, rechain) \/ ChangeEntry(i, rechain)
    \/ \E event \in NewEvents : AddEntry(event)
    \/ \E i \in DOMAIN bundle.checkpoints : DropCheckpoint(i) \/ DropProof(i)
    \/ Reissue
    \/ SwapDevice
    \/ \E tenant \in {Other, NoKey}, log \in {Other, NoKey} :
         Regrow(tenant, log)
    \/ DropEpoch
    \/ DropAnchor

BundleNext == Issue \/ (bundle # NoBundle /\ Alter)

-----------------------------------------------------------------------------
(* Properties.                                                             *)

\* Could the examiner's options accept this device's bundle at all?
Answerable(o) ==
    /\ o.require_pinned_anchors => o.check_anchors /\ o.rekor
    /\ o.pinned = NoKey /\ Len(recorded) = 3 => Device \in o.known

\* verify.py verify_bundle: a bundle that arrives as it was exported is
\* accepted, rotation or not; and whatever was lost or rewritten, a bundle
\* that is accepted holds, with the device pinned, nothing but a first part
\* of what that device recorded; with the tenant pinned, only checkpoints
\* the tenant received; and with anchors required, only epochs the log holds.
AcceptedMeansRecorded ==
    bundle # NoBundle => \A o \in Options :
        /\ edits = 0 /\ Answerable(o) => VerifyBundle(bundle, o)
        /\ VerifyBundle(bundle, o) =>
             /\ o.pinned # NoKey => IsPrefix(Events(bundle), recorded)
             /\ o.tenant => \A i \in DOMAIN bundle.checkpoints :
                  bundle.checkpoints[i].checkpoint \in Range(CheckpointsOf(recorded))
             /\ o.require_pinned_anchors => \A i \in DOMAIN bundle.epochs :
                  bundle.epochs[i].root = Export(recorded).epochs[1].root
=============================================================================

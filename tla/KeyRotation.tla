---------------------------- MODULE KeyRotation ----------------------------
(***************************************************************************)
(* Device key files and their rotation (recorder/keys.py and               *)
(* recorder/rotation.py), against the identity the verifier derives from   *)
(* the chain (recorder/verify.py _walk_chain with a starting key).         *)
(*                                                                         *)
(* A process is a recorder (loads the key once, keeps it in memory) or the *)
(* rotation CLI.  Every file-system operation is a step of its own, so a   *)
(* crash, or another process, may come between any two.  No lock guards    *)
(* the key directory: `mishaps' remembers when two processes were inside   *)
(* it at once, the two crashes the protocol has no answer to, and a key    *)
(* staged under a marker left over, so that each property can say which of *)
(* them it survives.                                                       *)
(***************************************************************************)
EXTENDS Naturals, Sequences, FiniteSets

CONSTANTS
    Procs,           \* processes that use the key directory
    Keys,            \* Ed25519 keys that may be generated, each once
    NoKey,           \* no such file, no such key
    MaxUnlinkFaults, \* bound: failed unlinks of the marker
    MaxCrashes       \* bound: crashes of a process inside, or of the machine

ASSUME KeyRotationAssumption ==
    /\ NoKey \notin Keys
    /\ MaxUnlinkFaults \in Nat
    /\ MaxCrashes \in Nat

VARIABLES
    live,     \* PRIVATE_KEY_FILENAME
    livePub,  \* PUBLIC_KEY_FILENAME
    pendPriv, \* the private key staged in PENDING_ROTATION_DIRNAME
    pendPub,  \* the public key staged there
    marker,   \* PROMOTION_CONFIRMED_MARKER: the old key it names
    archive,  \* id -> the keys in .rotated-<id>, .rotated-<id>-2, ...;
              \* NoKey for a file cut short
    unsynced, \* <<id, slot>> of the copies not known to have reached the disk
    torn,     \* keys a copy of which a crash of the machine has cut
    chain,    \* what the verifier's walk knows, after each entry that told it
    proc,     \* process -> program counter and local variables
    used,     \* keys generated so far
    mishaps,  \* "overlap", "window", "tail" and "stale", once they happened
    unlinkFaults,
    crashes

bounds == <<unlinkFaults, crashes>>
copies == <<archive, unsynced, torn>>
files == <<live, livePub, pendPriv, pendPub, marker, copies>>
vars == <<live, livePub, pendPriv, pendPub, marker, copies, chain, proc, used,
          mishaps, unlinkFaults, crashes>>

-----------------------------------------------------------------------------
(* Data *)

Walks == [active : Keys \cup {NoKey}, sealed : SUBSET (Keys \X Keys),
          forged : BOOLEAN, stale : BOOLEAN]
Inside == {"marker", "archive", "copy", "public", "private", "unlink", "load",
           "mint", "mintPub", "stage", "stagePub", "append", "confirm"}
Holding == {"running", "mintPub", "stage", "stagePub", "append", "confirm"}
Tasks == {"record", "rotate1", "rotate2", "promote"}
Off == [pc |-> "off", task |-> "record", key |-> NoKey, new |-> NoKey,
        old |-> NoKey, slot |-> 0]
ProcStates == [pc : Inside \cup {"off", "running"}, task : Tasks,
               key : Keys \cup {NoKey},   \* the key it loaded
               new : Keys \cup {NoKey},   \* the key it staged
               old : Keys \cup {NoKey},   \* old_device_id, from the marker
               slot : Nat]                \* the archive file it chose

Walk == chain[Len(chain)]
News(walk) == {r[2] : r \in walk.sealed}
Olds(walk) == {r[1] : r \in walk.sealed}
Archived == {k \in Keys : \E id \in Keys : \E n \in DOMAIN archive[id] :
                             archive[id][n] = k}

\* The archives once k is written to a slot of id's.
Put(id, slot, k) ==
    [archive EXCEPT ![id] = IF slot \in DOMAIN @ THEN [@ EXCEPT ![slot] = k]
                            ELSE Append(@, k)]

Goto(p, pc) == proc' = [proc EXCEPT ![p].pc = pc]

\* _walk_chain, _check_rotation_live: a rotation counts when the key that
\* signed it (always the event's device) is the active one.
SealRotation(walk, old, new) ==
    [walk EXCEPT !.sealed = @ \cup {<<old, new>>},
                 !.active = IF old = @ THEN new ELSE @,
                 !.forged = @ \/ old # walk.active]
SealRecord(walk, key) == [walk EXCEPT !.stale = @ \/ key # walk.active]

\* The chain after an entry: the new verdict, if the entry changed it.
Extend(walk) == IF walk = Walk THEN chain ELSE Append(chain, walk)

-----------------------------------------------------------------------------
Init ==
    /\ live = NoKey
    /\ livePub = NoKey
    /\ pendPriv = NoKey
    /\ pendPub = NoKey
    /\ marker = NoKey
    /\ archive = [id \in Keys |-> << >>]
    /\ unsynced = {}
    /\ torn = {}
    /\ chain = << [active |-> NoKey, sealed |-> {}, forged |-> FALSE,
                   stale |-> FALSE] >>
    /\ proc = [p \in Procs |-> Off]
    /\ used = {}
    /\ mishaps = {}
    /\ unlinkFaults = 0
    /\ crashes = 0

\* A recorder (Recorder.__init__) or the CLI (rotate_cli) starts: either
\* first calls load_or_create_device_key.
Start(p, task) ==
    /\ proc[p].pc = "off"
    /\ proc' = [proc EXCEPT ![p] = [Off EXCEPT !.pc = "marker", !.task = task]]
    /\ IF \A q \in Procs : proc[q].pc \notin Inside THEN UNCHANGED mishaps
       ELSE mishaps' = mishaps \cup {"overlap"}
    /\ UNCHANGED <<files, chain, used, bounds>>

-----------------------------------------------------------------------------
(* _finish_pending_rotation *)

\* Where its caller goes on: rotate_key returns, the others load.
AfterReconcile(p) ==
    IF proc[p].task = "promote" THEN proc' = [proc EXCEPT ![p] = Off]
    ELSE Goto(p, "load")

\* Mutant: a staged key is promoted whether or not a marker confirms it.
CheckMarkerMutant(p) ==
    /\ proc[p].pc = "marker"
    /\ IF pendPriv = NoKey THEN AfterReconcile(p)
       ELSE proc' = [proc EXCEPT ![p].pc = "archive", ![p].old = live]
    /\ UNCHANGED <<files, chain, used, mishaps, bounds>>

\* Mutant: rotate_key does not reconcile before it stages.
CheckMarkerRotateMutant(p) ==
    /\ proc[p].pc = "marker"
    /\ IF marker = NoKey \/ proc[p].task \in {"rotate1", "rotate2"}
       THEN AfterReconcile(p)
       ELSE proc' = [proc EXCEPT ![p].pc = "archive", ![p].old = marker]
    /\ UNCHANGED <<files, chain, used, mishaps, bounds>>

\* No marker, nothing to do.  Otherwise remember the old id it holds.
CheckMarker(p) ==
    /\ proc[p].pc = "marker"
    /\ IF marker = NoKey THEN AfterReconcile(p)
       ELSE proc' = [proc EXCEPT ![p].pc = "archive", ![p].old = marker]
    /\ UNCHANGED <<files, chain, used, mishaps, bounds>>

\* A previous call may have promoted and died before cleanup.  The archive
\* name is the first free suffix of the old id.
ChooseArchive(p) ==
    /\ proc[p].pc = "archive"
    /\ IF pendPriv = NoKey THEN Goto(p, "unlink")
       ELSE IF live = NoKey THEN Goto(p, "public")
       ELSE proc' = [proc EXCEPT ![p].pc = "copy",
                                 ![p].slot = Len(archive[proc[p].old]) + 1]
    /\ UNCHANGED <<files, chain, used, mishaps, bounds>>

\* Mutant: the old key is not backed up.
CopyToArchiveMutant(p) ==
    /\ proc[p].pc = "copy"
    /\ Goto(p, "public")
    /\ UNCHANGED <<files, chain, used, mishaps, bounds>>

\* shutil.copy2, with no fsync.
CopyToArchive(p) ==
    /\ proc[p].pc = "copy"
    /\ archive' = Put(proc[p].old, proc[p].slot, live)
    /\ unsynced' = unsynced \cup {<<proc[p].old, proc[p].slot>>}
    /\ Goto(p, "public")
    /\ UNCHANGED <<live, livePub, pendPriv, pendPub, marker, torn, chain, used,
                   mishaps, bounds>>

ReplacePublic(p) ==
    /\ proc[p].pc = "public"
    /\ livePub' = IF pendPub = NoKey THEN livePub ELSE pendPub
    /\ pendPub' = NoKey
    /\ Goto(p, "private")
    /\ UNCHANGED <<live, pendPriv, marker, copies, chain, used, mishaps,
                   bounds>>

\* os.replace flips the identity, or raises if the staged file is gone.
ReplacePrivate(p) ==
    /\ proc[p].pc = "private"
    /\ IF pendPriv = NoKey
       THEN /\ proc' = [proc EXCEPT ![p] = Off]
            /\ UNCHANGED <<live, pendPriv>>
       ELSE /\ live' = pendPriv
            /\ pendPriv' = NoKey
            /\ Goto(p, "unlink")
    /\ UNCHANGED <<livePub, pendPub, marker, copies, chain, used, mishaps,
                   bounds>>

\* Best-effort cleanup: an OSError leaves the marker and is swallowed, each
\* time.
UnlinkMarker(p) ==
    /\ proc[p].pc = "unlink"
    /\ \/ marker' = NoKey /\ UNCHANGED unlinkFaults
       \/ /\ unlinkFaults < MaxUnlinkFaults
          /\ unlinkFaults' = unlinkFaults + 1
          /\ UNCHANGED marker
    /\ AfterReconcile(p)
    /\ UNCHANGED <<live, livePub, pendPriv, pendPub, copies, chain, used,
                   mishaps, crashes>>

-----------------------------------------------------------------------------
(* load_or_create_device_key, after the reconciliation *)

\* What the caller does with the key it now holds.  rotate_cli loads once to
\* open the ledger, and rotate_key loads again.
Loaded(p, k) ==
    proc' = [proc EXCEPT ![p] =
        CASE proc[p].task = "record"  -> [@ EXCEPT !.pc = "running", !.key = k]
          [] proc[p].task = "rotate1" -> [@ EXCEPT !.pc = "marker", !.key = k,
                                                   !.task = "rotate2"]
          [] OTHER                    -> [@ EXCEPT !.pc = "stage", !.key = k]]

Load(p) ==
    /\ proc[p].pc = "load"
    /\ IF live = NoKey THEN Goto(p, "mint") ELSE Loaded(p, live)
    /\ UNCHANGED <<files, chain, used, mishaps, bounds>>

\* First run: generate and write the private key.  Enrolment pins the first
\* key of the device: it is the verifier's starting key.
Mint(p, k) ==
    /\ proc[p].pc = "mint"
    /\ k \in Keys \ used
    /\ used' = used \cup {k}
    /\ live' = k
    /\ chain' = IF Walk.active = NoKey
                THEN << [Walk EXCEPT !.active = k] >> ELSE chain
    /\ proc' = [proc EXCEPT ![p].pc = "mintPub", ![p].key = k]
    /\ UNCHANGED <<livePub, pendPriv, pendPub, marker, copies, mishaps,
                   bounds>>

MintPublic(p) ==
    /\ proc[p].pc = "mintPub"
    /\ livePub' = proc[p].key
    /\ Loaded(p, proc[p].key)
    /\ UNCHANGED <<live, pendPriv, pendPub, marker, copies, chain, used,
                   mishaps, bounds>>

-----------------------------------------------------------------------------
(* rotate_key *)

\* Mutant: the new key is written over the live one instead of staged.
StagePrivateMutant(p, k) ==
    /\ proc[p].pc = "stage"
    /\ k \in Keys \ used
    /\ used' = used \cup {k}
    /\ live' = k
    /\ Goto(p, "stagePub")
    /\ UNCHANGED <<livePub, pendPriv, pendPub, marker, copies, chain, mishaps,
                   bounds>>

\* _stage_new_key: a fresh key over whatever was staged before.  "stale": a
\* marker that two failed unlinks have left over, one in each reconciliation
\* of the CLI, confirms the key before its rotation is on the chain.
StagePrivate(p, k) ==
    /\ proc[p].pc = "stage"
    /\ k \in Keys \ used
    /\ used' = used \cup {k}
    /\ pendPriv' = k
    /\ proc' = [proc EXCEPT ![p].pc = "stagePub", ![p].new = k]
    /\ mishaps' = IF marker = NoKey THEN mishaps ELSE mishaps \cup {"stale"}
    /\ UNCHANGED <<live, livePub, pendPub, marker, copies, chain, bounds>>

StagePublic(p) ==
    /\ proc[p].pc = "stagePub"
    /\ pendPub' = proc[p].new
    /\ Goto(p, "append")
    /\ UNCHANGED <<live, livePub, pendPriv, marker, copies, chain, used,
                   mishaps, bounds>>

\* ledger.append(KEY_ROTATED), cross-signed by the key loaded before; None
\* means RuntimeError, with the staged key left where it is.
AppendRotation(p) ==
    /\ proc[p].pc = "append"
    /\ \/ /\ chain' = Extend(SealRotation(Walk, proc[p].key, proc[p].new))
          /\ Goto(p, "confirm")
       \/ /\ proc' = [proc EXCEPT ![p] = Off]
          /\ UNCHANGED chain
    /\ UNCHANGED <<files, used, mishaps, bounds>>

\* _mark_promotion_confirmed, then _promote_staged_key.
Confirm(p) ==
    /\ proc[p].pc = "confirm"
    /\ marker' = proc[p].key
    /\ proc' = [proc EXCEPT ![p].pc = "marker", ![p].task = "promote"]
    /\ UNCHANGED <<live, livePub, pendPriv, pendPub, copies, chain, used,
                   mishaps, bounds>>

-----------------------------------------------------------------------------
\* A running recorder appends an event under the key it loaded at start.
Record(p) ==
    /\ proc[p].pc = "running"
    /\ chain' = Extend(SealRecord(Walk, proc[p].key))
    /\ UNCHANGED <<files, proc, used, mishaps, bounds>>

\* A recorder ends; it holds no file open.
Stop(p) ==
    /\ proc[p].pc = "running"
    /\ proc' = [proc EXCEPT ![p] = Off]
    /\ UNCHANGED <<files, chain, used, mishaps, bounds>>

\* A process dies inside.  "window": between the KEY_ROTATED append and the
\* marker.  Dying inside copy2, it leaves the file it has opened empty.
Crash(p) ==
    /\ proc[p].pc \in Inside
    /\ crashes < MaxCrashes
    /\ crashes' = crashes + 1
    /\ proc' = [proc EXCEPT ![p] = Off]
    /\ mishaps' = IF proc[p].pc = "confirm" THEN mishaps \cup {"window"}
                  ELSE mishaps
    /\ \/ UNCHANGED archive
       \/ /\ proc[p].pc = "copy"
          /\ archive' = Put(proc[p].old, proc[p].slot, NoKey)
    /\ UNCHANGED <<live, livePub, pendPriv, pendPub, marker, unsynced, torn,
                   chain, used, unlinkFaults>>

\* The machine stops.  Files written by atomic_write_bytes were fsynced, and
\* a rename is taken to last; copies in the archive were not, and those in
\* `cut' are empty or short.  The ledger is synchronous=NORMAL and may lose
\* its tail.
OSCrash(n, cut) ==
    /\ crashes < MaxCrashes
    /\ crashes' = crashes + 1
    /\ n \in 1..Len(chain)
    /\ chain' = SubSeq(chain, 1, n)
    /\ cut \subseteq unsynced
    /\ archive' = [id \in Keys |-> [slot \in DOMAIN archive[id] |->
                      IF <<id, slot>> \in cut THEN NoKey ELSE archive[id][slot]]]
    /\ torn' = torn \cup {archive[c[1]][c[2]] : c \in cut}
    /\ unsynced' = {}
    /\ proc' = [p \in Procs |-> Off]
    /\ mishaps' = mishaps \cup (IF n < Len(chain) THEN {"tail"} ELSE {})
                          \cup (IF \E p \in Procs : proc[p].pc = "confirm"
                                THEN {"window"} ELSE {})
    /\ UNCHANGED <<live, livePub, pendPriv, pendPub, marker, used, unlinkFaults>>

-----------------------------------------------------------------------------
Reconcile(p) ==
    \/ CheckMarker(p)
    \/ ChooseArchive(p)
    \/ CopyToArchive(p)
    \/ ReplacePublic(p)
    \/ ReplacePrivate(p)
    \/ UnlinkMarker(p)

Next ==
    \/ \E p \in Procs :
         \/ \E task \in {"record", "rotate1"} : Start(p, task)
         \/ Reconcile(p)
         \/ Load(p)
         \/ \E k \in Keys : Mint(p, k)
         \/ MintPublic(p)
         \/ \E k \in Keys : StagePrivate(p, k)
         \/ StagePublic(p)
         \/ AppendRotation(p)
         \/ Confirm(p)
         \/ Record(p)
         \/ Stop(p)
         \/ Crash(p)
    \/ \E n \in 1..Len(chain), cut \in SUBSET unsynced : OSCrash(n, cut)

Spec == Init /\ [][Next]_vars

-----------------------------------------------------------------------------
(* Properties *)

\* Every variable keeps its type, and a process that is past
\* load_or_create_device_key holds a key.
TypeOK ==
    /\ live \in Keys \cup {NoKey}
    /\ livePub \in Keys \cup {NoKey}
    /\ pendPriv \in Keys \cup {NoKey}
    /\ pendPub \in Keys \cup {NoKey}
    /\ marker \in Keys \cup {NoKey}
    /\ archive \in [Keys -> Seq(Keys \cup {NoKey})]
    /\ \A c \in unsynced : c[1] \in Keys /\ c[2] \in DOMAIN archive[c[1]]
    /\ torn \subseteq Keys \cup {NoKey}
    /\ chain \in Seq(Walks)
    /\ chain # << >>
    /\ proc \in [Procs -> ProcStates]
    /\ \A p \in Procs : proc[p].pc \in Holding => proc[p].key \in Keys
    /\ used \subseteq Keys
    /\ mishaps \subseteq {"overlap", "window", "tail", "stale"}
    /\ unlinkFaults \in 0..MaxUnlinkFaults
    /\ crashes \in 0..MaxCrashes

Survives(which) == mishaps \cap which = {}

\* No process is in the directory, and none left a promotion unfinished.
AtRest == marker = NoKey /\ \A p \in Procs : proc[p].pc \notin Inside

\* The identities the device may use: its enrolled key, and every key some
\* KEY_ROTATED event on the chain introduces.
Explained == {chain[1].active} \cup News(Walk)

\* keys.py, rotation.py: no crash makes the device use "a fresh,
\* never-cross-signed random identity": the live key, and the key any running
\* process holds, is the enrolled key or one a KEY_ROTATED event introduces.
IdentityExplained ==
    Survives({"overlap", "tail", "stale"}) =>
        /\ live # NoKey => live \in Explained
        /\ \A p \in Procs : proc[p].pc = "running" => proc[p].key \in Explained

\* rotation.py rotate_key, keys.py _finish_pending_rotation: the device can
\* always sign as the identity the verifier holds active (its key is live,
\* or staged and bound to become live), and no honest rotation is forged.
IdentityFollowsChain ==
    Survives({"overlap", "tail", "window", "stale"}) =>
        /\ ~Walk.forged
        /\ \/ live = Walk.active
           \/ /\ pendPriv = Walk.active
              /\ \/ marker # NoKey
                 \/ \E p \in Procs : proc[p].pc = "confirm"

\* keys.py _finish_pending_rotation: "the previously-live key is never
\* lost".  Every key retired on the chain still has its private half on disk,
\* whatever process died where, unless the machine stopped before a copy of it
\* had reached the disk; and between rotations the public key file, if there,
\* is the live key's (load_or_create_device_key).
KeyFilesKept ==
    Survives({"overlap"}) =>
        /\ \A k \in Olds(Walk) : k = live \/ k \in Archived \/ k \in torn
        /\ AtRest /\ Survives({"stale"}) => livePub \in {live, NoKey}

\* keys.py PROMOTION_CONFIRMED_MARKER: a confirmed staged key "must always
\* end up live": it leaves the pending directory only by becoming live.
ConfirmedEndsLive ==
    [][ Survives({"overlap"})' /\ marker # NoKey /\ pendPriv # NoKey
        /\ pendPriv' # pendPriv
        => live' = pendPriv ]_vars
=============================================================================

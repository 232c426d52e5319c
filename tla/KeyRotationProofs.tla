------------------------- MODULE KeyRotationProofs -------------------------
(***************************************************************************)
(* Proofs about KeyRotation, for any number of processes, keys and         *)
(* crashes, and with processes that overlap as often as they like.         *)
(***************************************************************************)
EXTENDS KeyRotation, SequenceTheorems, TLAPS

-----------------------------------------------------------------------------
(* The inductive invariant *)

Promoting == {"archive", "copy", "public", "private", "unlink"}
Loading == {"load", "mint", "mintPub"}
Rotating == {"stage", "stagePub", "append", "confirm"}

\* What a process in state s carries from one step to the next, whoever else
\* is there.
LocalOK(s) ==
    /\ s.pc \in Promoting => s.old \in Keys
    /\ s.pc = "copy" => live \in Keys /\ s.slot \in 1..Len(archive[s.old]) + 1
    /\ s.pc \in {"stagePub", "append", "confirm"} => s.new \in Keys
    /\ s.pc \in Loading => s.task \in {"record", "rotate1", "rotate2"}
    /\ s.pc \in Rotating => s.task = "rotate2"

NoOverlap == "overlap" \notin mishaps

\* One process at a time is inside the key directory.
Single == \A p, q \in Procs : proc[p].pc \in Inside /\ proc[q].pc \in Inside => p = q

\* Before the first key there is nothing: no file, no chain, no holder.
NothingBeforeMint ==
    live = NoKey =>
        /\ livePub = NoKey /\ pendPriv = NoKey /\ pendPub = NoKey /\ marker = NoKey
        /\ \A i \in 1..Len(chain) : chain[i].active = NoKey /\ chain[i].sealed = {}
        /\ \A p \in Procs : proc[p].pc \notin Holding

\* Where a process is tells what the files are.
FilesOK(s) ==
    /\ s.pc \in Promoting => marker # NoKey
    /\ s.pc \in {"copy", "public", "private"} => pendPriv # NoKey
    /\ s.pc = "unlink" => pendPriv = NoKey
    /\ s.pc = "copy" => s.slot = Len(archive[s.old]) + 1
    /\ s.pc \in {"public", "private"} => live \in Archived
    /\ s.pc = "private" => pendPub = NoKey
    /\ s.pc = "mint" => live = NoKey
    /\ s.pc = "mintPub" => marker = NoKey
    /\ s.pc \in {"mintPub"} \cup Rotating => s.key = live
    /\ s.pc \in {"stagePub", "append", "confirm"} => pendPriv = s.new
    /\ s.pc \in {"append", "confirm"} => pendPub = s.new

\* Once the marker was looked at, one that is left over has nothing staged
\* beside it, until a key is staged all the same.
MarkerOK(s) ==
    /\ s.pc \in Loading \cup {"stage"} /\ marker # NoKey => pendPriv = NoKey
    /\ s.pc \in {"stagePub", "append", "confirm"} /\ marker # NoKey
         => "stale" \in mishaps

\* The public key file follows the private one, which it leads only while a
\* confirmed rotation is under way.
PublicFollows ==
    \/ "stale" \in mishaps
    \/ /\ marker # NoKey /\ pendPriv # NoKey
       /\ pendPub = NoKey /\ livePub = pendPriv
    \/ /\ marker # NoKey /\ pendPriv # NoKey => pendPub = pendPriv
       /\ livePub \in {live, NoKey}

\* Every key retired anywhere on the chain is live still, or archived, or its
\* copy was cut with the machine.
RetiredKept ==
    \A i \in 1..Len(chain) : \A k \in Olds(chain[i]) : k = live \/ k \in Archived \/ k \in torn

\* The directory as long as no two processes were in it at once.
DirectoryInv ==
    /\ Single
    /\ NothingBeforeMint
    /\ \A p \in Procs : FilesOK(proc[p]) /\ MarkerOK(proc[p])
    /\ PublicFollows
    /\ RetiredKept

\* A staged key that may become live is on the chain.
StagedIsExplained ==
    /\ marker # NoKey /\ pendPriv # NoKey => pendPriv \in News(Walk)
    /\ \A p \in Procs : proc[p].pc = "confirm" => pendPriv \in News(Walk)

ExplainedInv ==
    /\ live # NoKey => live \in Explained
    /\ \A p \in Procs : proc[p].pc = "running" => proc[p].key \in Explained
    /\ StagedIsExplained

\* A rotation is on the chain and its key not live yet.
Bound == pendPriv # NoKey /\ (marker # NoKey \/ \E p \in Procs : proc[p].pc = "confirm")

FollowInv ==
    /\ ~Walk.forged
    /\ Walk.active = IF Bound THEN pendPriv ELSE live

KeyInv ==
    /\ TypeOK
    /\ \A p \in Procs : LocalOK(proc[p])
    /\ NoOverlap => DirectoryInv
    /\ Survives({"overlap", "tail", "stale"}) => ExplainedInv
    /\ Survives({"overlap", "tail", "window", "stale"}) => FollowInv

-----------------------------------------------------------------------------
(* Lemmas *)

\* The invariant is what the properties need.
LEMMA InvImpliesProperties ==
    KeyInv => IdentityExplained /\ IdentityFollowsChain /\ KeyFilesKept
<1> SUFFICES ASSUME KeyInv
             PROVE  IdentityExplained /\ IdentityFollowsChain /\ KeyFilesKept
  OBVIOUS
<1>1. IdentityExplained
  BY DEF KeyInv, ExplainedInv, IdentityExplained
<1>2. IdentityFollowsChain
  BY DEF KeyInv, FollowInv, Bound, IdentityFollowsChain
<1>3. KeyFilesKept
  <2> SUFFICES ASSUME NoOverlap
               PROVE  /\ \A k \in Olds(Walk) : k = live \/ k \in Archived \/ k \in torn
                      /\ marker = NoKey /\ "stale" \notin mishaps => livePub \in {live, NoKey}
    BY DEF KeyFilesKept, AtRest, Survives, NoOverlap
  <2>1. Len(chain) \in 1..Len(chain)
    BY DEF KeyInv, TypeOK
  <2> QED BY <2>1 DEF KeyInv, DirectoryInv, RetiredKept, PublicFollows, Walk
<1> QED BY <1>1, <1>2, <1>3

\* No key, no process, an empty chain.
LEMMA KeyInit == Init => KeyInv
<1> SUFFICES ASSUME Init PROVE KeyInv
  OBVIOUS
<1> USE KeyRotationAssumption DEF Init
<1>1. TypeOK
  BY DEF TypeOK, Walks, ProcStates, Off, Inside, Tasks, Holding
<1>2. \A p \in Procs : LocalOK(proc[p])
  BY DEF LocalOK, Off, Promoting, Loading, Rotating
<1>3. DirectoryInv
  <2>1. Single /\ NothingBeforeMint /\ \A p \in Procs : FilesOK(proc[p]) /\ MarkerOK(proc[p])
    BY DEF Single, NothingBeforeMint, FilesOK, MarkerOK,
           Off, Inside, Holding, Promoting, Loading, Rotating
  <2>2. PublicFollows /\ RetiredKept
    BY DEF PublicFollows, RetiredKept, Olds
  <2> QED BY <2>1, <2>2 DEF DirectoryInv
<1>4. ExplainedInv
  BY DEF ExplainedInv, StagedIsExplained, Off
<1>5. FollowInv
  BY DEF FollowInv, Bound, Walk
<1> QED BY <1>1, <1>2, <1>3, <1>4, <1>5 DEF KeyInv

\* The mishaps that a property survives are none yet.
LEMMA SurvivesEarlier ==
    ASSUME mishaps \subseteq mishaps'
    PROVE  /\ NoOverlap' => NoOverlap
           /\ \A W : Survives(W)' => Survives(W)
           /\ Survives({"overlap", "tail", "stale"})' => NoOverlap'
           /\ Survives({"overlap", "tail", "window", "stale"})' =>
                NoOverlap' /\ Survives({"overlap", "tail", "stale"})'
BY DEF Survives, NoOverlap

\* Whoever is inside is there alone.
LEMMA OthersOutside ==
    ASSUME KeyInv, NoOverlap, NEW p \in Procs, proc[p].pc \in Inside, NEW q \in Procs, q # p
    PROVE  proc[q].pc \in {"off", "running"}
BY DEF KeyInv, DirectoryInv, Single, TypeOK, ProcStates

\* A step of a process that is inside: the others are outside, so that only
\* its own place and the files count.
LEMMA InsideStep ==
    ASSUME KeyInv, NEW p \in Procs, proc[p].pc \in Inside, TypeOK',
           mishaps \subseteq mishaps',
           \A q \in Procs : q # p => proc'[q] = proc[q],
           live \in Keys => live' \in Keys,
           \A id \in Keys : Len(archive[id]) <= Len(archive'[id]),
           LocalOK(proc[p])',
           NoOverlap' => /\ FilesOK(proc[p])' /\ MarkerOK(proc[p])'
                         /\ NothingBeforeMint' /\ PublicFollows' /\ RetiredKept',
           Survives({"overlap", "tail", "stale"})' => ExplainedInv',
           Survives({"overlap", "tail", "window", "stale"})' => FollowInv'
    PROVE  KeyInv'
<1>1. ASSUME NEW q \in Procs PROVE LocalOK(proc[q])'
  <2>1. CASE q = p
    BY <2>1
  <2>2. CASE q # p
    <3>1. LocalOK(proc[q]) /\ proc'[q] = proc[q] /\ proc[q] \in ProcStates
      BY <2>2 DEF KeyInv, TypeOK
    <3>2. \A id \in Keys : Len(archive[id]) \in Nat /\ Len(archive'[id]) \in Nat
      <4>1. archive \in [Keys -> Seq(Keys \cup {NoKey})] /\ archive' \in [Keys -> Seq(Keys \cup {NoKey})]
        BY DEF KeyInv, TypeOK
      <4>2. \A id \in Keys : archive[id] \in Seq(Keys \cup {NoKey}) /\ archive'[id] \in Seq(Keys \cup {NoKey})
        BY <4>1
      <4> QED BY <4>2, LenProperties
    <3>3. proc[q].pc = "copy" =>
            /\ proc[q].old \in Keys /\ live' \in Keys
            /\ proc[q].slot \in 1..Len(archive'[proc[q].old]) + 1
      <4> SUFFICES ASSUME proc[q].pc = "copy"
                   PROVE  /\ proc[q].old \in Keys /\ live' \in Keys
                          /\ proc[q].slot \in 1..Len(archive'[proc[q].old]) + 1
        OBVIOUS
      <4>1. proc[q].old \in Keys /\ live \in Keys /\ proc[q].slot \in 1..Len(archive[proc[q].old]) + 1
        BY <3>1 DEF LocalOK, Promoting
      <4> QED BY <4>1, <3>2
    <3> QED BY <3>1, <3>3 DEF LocalOK
  <2> QED BY <2>1, <2>2
<1>2. ASSUME NoOverlap' PROVE DirectoryInv'
  <2>1. \A q \in Procs : q # p => proc[q].pc \in {"off", "running"} /\ proc'[q] = proc[q]
    BY <1>2, OthersOutside, SurvivesEarlier
  <2>2. \A q \in Procs : q # p => FilesOK(proc[q])' /\ MarkerOK(proc[q])'
    BY <2>1 DEF FilesOK, MarkerOK, Promoting, Loading, Rotating
  <2>3. Single'
    BY <2>1 DEF Single, Inside
  <2> QED BY <1>2, <2>2, <2>3 DEF DirectoryInv
<1> QED BY <1>1, <1>2 DEF KeyInv

\* A step that only moves a process.
LEMMA QuietStep ==
    ASSUME KeyInv, NEW p \in Procs, TypeOK',
           UNCHANGED <<live, livePub, pendPriv, pendPub, marker, archive, unsynced, torn, chain, unlinkFaults>>,
           mishaps \subseteq mishaps',
           \A q \in Procs : q # p => proc'[q] = proc[q],
           LocalOK(proc[p])',
           NoOverlap' => /\ Single' /\ FilesOK(proc[p])' /\ MarkerOK(proc[p])'
                         /\ proc'[p].pc \in Holding => live # NoKey,
           proc'[p].pc # "confirm",
           Survives({"overlap", "tail", "stale"})' /\ proc'[p].pc = "running" => proc'[p].key \in Explained,
           Survives({"overlap", "tail", "window", "stale"})' => proc[p].pc # "confirm"
    PROVE  KeyInv'
<1>1. \A q \in Procs : LocalOK(proc[q])'
  <2>1. \A q \in Procs : q # p => LocalOK(proc[q])'
    BY DEF KeyInv, LocalOK
  <2> QED BY <2>1
<1>2. ASSUME NoOverlap' PROVE DirectoryInv'
  <2>0. DirectoryInv
    BY <1>2, SurvivesEarlier DEF KeyInv
  <2>1. \A q \in Procs : FilesOK(proc[q])' /\ MarkerOK(proc[q])'
    <3>1. \A q \in Procs : q # p => FilesOK(proc[q])' /\ MarkerOK(proc[q])'
      BY <2>0 DEF DirectoryInv, FilesOK, MarkerOK, Archived
    <3> QED BY <1>2, <3>1
  <2>2. NothingBeforeMint'
    BY <1>2, <2>0 DEF DirectoryInv, NothingBeforeMint
  <2>3. PublicFollows' /\ RetiredKept'
    BY <2>0 DEF DirectoryInv, PublicFollows, RetiredKept, Archived
  <2> QED BY <1>2, <2>1, <2>2, <2>3 DEF DirectoryInv
<1>3. ASSUME Survives({"overlap", "tail", "stale"})' PROVE ExplainedInv'
  <2>0. ExplainedInv
    BY <1>3, SurvivesEarlier DEF KeyInv
  <2>1. Explained' = Explained /\ News(Walk)' = News(Walk)
    BY DEF Explained, News, Walk
  <2> QED BY <1>3, <2>0, <2>1 DEF ExplainedInv, StagedIsExplained
<1>4. ASSUME Survives({"overlap", "tail", "window", "stale"})' PROVE FollowInv'
  <2>0. FollowInv
    BY <1>4, SurvivesEarlier DEF KeyInv
  <2>1. Bound' <=> Bound
    BY <1>4 DEF Bound
  <2> QED BY <2>0, <2>1 DEF FollowInv, Walk
<1> QED BY <1>1, <1>2, <1>3, <1>4 DEF KeyInv

\* The types, of a step that gives process p the state s.
LEMMA MovedType ==
    ASSUME TypeOK, NEW p \in Procs, NEW s \in ProcStates, proc' = [proc EXCEPT ![p] = s],
           s.pc \in Holding => s.key \in Keys
    PROVE  /\ proc' \in [Procs -> ProcStates]
           /\ proc'[p] = s
           /\ \A q \in Procs : q # p => proc'[q] = proc[q]
           /\ \A q \in Procs : proc'[q].pc \in Holding => proc'[q].key \in Keys
BY DEF TypeOK

\* A process that is off is outside.
LEMMA OffType ==
    /\ Off \in ProcStates /\ Off.pc = "off"
    /\ "off" \notin Inside \cup Holding
BY DEF Off, ProcStates, Inside, Tasks, Holding

-----------------------------------------------------------------------------
(* One lemma per action *)

\* A process goes off: what it leaves is on disk.
LEMMA LeaveInv ==
    ASSUME KeyInv, NEW p \in Procs, proc' = [proc EXCEPT ![p] = Off],
           UNCHANGED <<live, livePub, pendPriv, pendPub, marker, archive, unsynced, torn, chain, used, unlinkFaults>>,
           mishaps \subseteq mishaps', mishaps' \subseteq {"overlap", "window", "tail", "stale"},
           crashes' \in 0..MaxCrashes,
           proc[p].pc = "confirm" => "window" \in mishaps'
    PROVE  KeyInv'
<1>1. /\ proc' \in [Procs -> ProcStates] /\ proc'[p].pc = "off"
      /\ \A q \in Procs : q # p => proc'[q] = proc[q]
      /\ \A q \in Procs : proc'[q].pc \in Holding => proc'[q].key \in Keys
  BY OffType, MovedType DEF KeyInv
<1>2. TypeOK'
  BY <1>1 DEF KeyInv, TypeOK
<1>3. LocalOK(proc[p])' /\ FilesOK(proc[p])' /\ MarkerOK(proc[p])'
  BY <1>1 DEF LocalOK, FilesOK, MarkerOK, Promoting, Loading, Rotating
<1>4. NoOverlap' => Single'
  BY <1>1, OffType, SurvivesEarlier DEF KeyInv, DirectoryInv, Single
<1>5. proc'[p].pc \notin Holding \cup {"confirm", "running"}
  BY <1>1 DEF Holding
<1>6. Survives({"overlap", "tail", "window", "stale"})' => proc[p].pc # "confirm"
  BY DEF Survives
<1> QED BY <1>1, <1>2, <1>3, <1>4, <1>5, <1>6, QuietStep

\* A process starts, alone or as an overlap.
LEMMA StartInv ==
    ASSUME KeyInv, NEW p \in Procs, NEW task \in {"record", "rotate1"}, Start(p, task)
    PROVE  KeyInv'
<1> DEFINE s == [Off EXCEPT !.pc = "marker", !.task = task]
<1>1. /\ s \in ProcStates /\ s.pc = "marker" /\ s.task = task
      /\ "marker" \notin Holding \cup Promoting \cup Loading \cup Rotating
  BY DEF Off, ProcStates, Inside, Tasks, Holding, Promoting, Loading, Rotating
<1>2. /\ proc' = [proc EXCEPT ![p] = s] /\ proc[p].pc = "off"
      /\ UNCHANGED <<live, livePub, pendPriv, pendPub, marker, archive, unsynced, torn, chain, used,
                     unlinkFaults, crashes>>
      /\ mishaps' \in {mishaps, mishaps \cup {"overlap"}}
      /\ NoOverlap' => \A q \in Procs : proc[q].pc \notin Inside
  BY DEF Start, files, copies, bounds, NoOverlap
<1> HIDE DEF s
<1>3. /\ proc' \in [Procs -> ProcStates] /\ proc'[p] = s
      /\ \A q \in Procs : q # p => proc'[q] = proc[q]
      /\ \A q \in Procs : proc'[q].pc \in Holding => proc'[q].key \in Keys
  BY <1>1, <1>2, MovedType DEF KeyInv
<1>4. TypeOK'
  BY <1>2, <1>3 DEF KeyInv, TypeOK
<1>5. LocalOK(proc[p])' /\ FilesOK(proc[p])' /\ MarkerOK(proc[p])'
  BY <1>1, <1>3 DEF LocalOK, FilesOK, MarkerOK, Promoting, Loading, Rotating
<1>6. NoOverlap' => Single'
  BY <1>2, <1>3 DEF Single
<1> QED BY <1>1, <1>2, <1>3, <1>4, <1>5, <1>6, QuietStep

\* A process inside that goes on without a change to the files, with a state
\* that fits them.
LEMMA GoInv ==
    ASSUME KeyInv, NEW p \in Procs, NEW s \in ProcStates, proc' = [proc EXCEPT ![p] = s],
           UNCHANGED <<live, livePub, pendPriv, pendPub, marker, archive, unsynced, torn, chain, used, mishaps,
                       unlinkFaults, crashes>>,
           proc[p].pc \in Inside \ {"confirm"}, s.pc # "confirm",
           s.pc \in Holding => s.key \in Keys /\ live # NoKey,
           LocalOK(s), NoOverlap => FilesOK(s) /\ MarkerOK(s),
           s.pc = "running" => s.key = live
    PROVE  KeyInv'
<1>1. /\ proc' \in [Procs -> ProcStates] /\ proc'[p] = s
      /\ \A q \in Procs : q # p => proc'[q] = proc[q]
      /\ \A q \in Procs : proc'[q].pc \in Holding => proc'[q].key \in Keys
  BY MovedType DEF KeyInv
<1>2. TypeOK'
  BY <1>1 DEF KeyInv, TypeOK
<1>3. LocalOK(proc[p])' /\ (NoOverlap' => FilesOK(proc[p])' /\ MarkerOK(proc[p])')
  BY <1>1 DEF NoOverlap, LocalOK, FilesOK, MarkerOK, Archived
<1>4. NoOverlap' => Single'
  BY <1>1 DEF NoOverlap, KeyInv, DirectoryInv, Single
<1>5. Survives({"overlap", "tail", "stale"})' /\ s.pc = "running" => s.key \in Explained
  BY DEF KeyInv, ExplainedInv, Survives, Holding
<1> QED BY <1>1, <1>2, <1>3, <1>4, <1>5, QuietStep

\* The marker is read: nothing on disk changes.
LEMMA CheckMarkerInv ==
    ASSUME KeyInv, NEW p \in Procs, CheckMarker(p)
    PROVE  KeyInv'
<1>1. /\ proc[p].pc = "marker" /\ proc[p] \in ProcStates /\ proc \in [Procs -> ProcStates]
      /\ UNCHANGED <<live, livePub, pendPriv, pendPub, marker, archive, unsynced, torn, chain, used, mishaps,
                     unlinkFaults, crashes>>
      /\ marker \in Keys \cup {NoKey} /\ unlinkFaults \in 0..MaxUnlinkFaults
      /\ "marker" \in Inside \ {"confirm"}
  BY DEF CheckMarker, KeyInv, TypeOK, files, copies, bounds, Inside
<1>2. CASE marker = NoKey /\ proc[p].task = "promote"
  <2>1. proc' = [proc EXCEPT ![p] = Off]
    BY <1>2 DEF CheckMarker, AfterReconcile
  <2> QED BY <1>1, <2>1, LeaveInv DEF KeyInv, TypeOK
<1>3. CASE marker = NoKey /\ proc[p].task # "promote"
  <2> DEFINE s == [proc[p] EXCEPT !.pc = "load"]
  <2>1. proc' = [proc EXCEPT ![p] = s]
    BY <1>3 DEF CheckMarker, AfterReconcile, Goto
  <2>2. s \in ProcStates /\ s.pc = "load" /\ s.task \in {"record", "rotate1", "rotate2"}
    BY <1>1, <1>3 DEF ProcStates, Inside, Tasks
  <2> HIDE DEF s
  <2>3. LocalOK(s) /\ FilesOK(s) /\ MarkerOK(s)
    BY <1>3, <2>2 DEF LocalOK, FilesOK, MarkerOK, Promoting, Loading, Rotating
  <2>4. s.pc \notin Holding \cup {"confirm", "running"}
    BY <2>2 DEF Holding
  <2> QED BY <1>1, <2>1, <2>2, <2>3, <2>4, GoInv
<1>4. CASE marker # NoKey
  <2> DEFINE s == [proc[p] EXCEPT !.pc = "archive", !.old = marker]
  <2>1. proc' = [proc EXCEPT ![p] = s]
    BY <1>1, <1>4 DEF CheckMarker, ProcStates
  <2>2. s \in ProcStates /\ s.pc = "archive" /\ s.task = proc[p].task /\ s.old = marker
    BY <1>1, <1>4 DEF ProcStates, Inside
  <2> HIDE DEF s
  <2>3. LocalOK(s)
    BY <1>1, <1>4, <2>2 DEF LocalOK, Loading, Rotating
  <2>4. ASSUME NoOverlap PROVE FilesOK(s) /\ MarkerOK(s)
    <3>1. MarkerOK(proc[p])
      BY <2>4 DEF KeyInv, DirectoryInv
    <3>2. FilesOK(s)
      BY <1>4, <2>2 DEF FilesOK, Rotating
    <3>3. MarkerOK(s)
      BY <1>1, <1>4, <2>2, <3>1 DEF MarkerOK, Loading, Rotating
    <3> QED BY <3>2, <3>3
  <2>5. s.pc \notin Holding \cup {"confirm", "running"}
    BY <2>2 DEF Holding
  <2> QED BY <1>1, <2>1, <2>2, <2>3, <2>4, <2>5, GoInv
<1> QED BY <1>2, <1>3, <1>4

\* The archive name is chosen, or there is nothing left to promote.
LEMMA ChooseArchiveInv ==
    ASSUME KeyInv, NEW p \in Procs, ChooseArchive(p)
    PROVE  KeyInv'
<1>1. /\ proc[p].pc = "archive" /\ proc[p] \in ProcStates /\ proc \in [Procs -> ProcStates]
      /\ UNCHANGED <<live, livePub, pendPriv, pendPub, marker, archive, unsynced, torn, chain, used, mishaps,
                     unlinkFaults, crashes>>
      /\ live \in Keys \cup {NoKey} /\ archive \in [Keys -> Seq(Keys \cup {NoKey})]
      /\ "archive" \in Inside \ {"confirm"}
  BY DEF ChooseArchive, KeyInv, TypeOK, files, copies, bounds, Inside
<1>2. proc[p].old \in Keys
  BY <1>1 DEF KeyInv, LocalOK, Promoting
<1>3. NoOverlap => FilesOK(proc[p]) /\ MarkerOK(proc[p]) /\ NothingBeforeMint
  BY DEF KeyInv, DirectoryInv
<1>4. CASE pendPriv = NoKey
  <2> DEFINE s == [proc[p] EXCEPT !.pc = "unlink"]
  <2>1. proc' = [proc EXCEPT ![p] = s]
    BY <1>4 DEF ChooseArchive, Goto
  <2>2. s \in ProcStates /\ s.pc = "unlink" /\ s.task = proc[p].task /\ s.old = proc[p].old
    BY <1>1 DEF ProcStates, Inside
  <2> HIDE DEF s
  <2>3. LocalOK(s) /\ (NoOverlap => FilesOK(s) /\ MarkerOK(s))
    BY <1>1, <1>2, <1>3, <1>4, <2>2 DEF LocalOK, FilesOK, MarkerOK, Promoting, Loading, Rotating
  <2>4. s.pc \notin Holding \cup {"confirm", "running"}
    BY <2>2 DEF Holding
  <2> QED BY <1>1, <2>1, <2>2, <2>3, <2>4, GoInv
<1>5. CASE pendPriv # NoKey /\ live = NoKey
  <2> DEFINE s == [proc[p] EXCEPT !.pc = "public"]
  <2>1. proc' = [proc EXCEPT ![p] = s]
    BY <1>5 DEF ChooseArchive, Goto
  <2>2. s \in ProcStates /\ s.pc = "public" /\ s.task = proc[p].task /\ s.old = proc[p].old
    BY <1>1 DEF ProcStates, Inside
  <2> HIDE DEF s
  <2>3. LocalOK(s)
    BY <1>2, <2>2 DEF LocalOK, Promoting, Loading, Rotating
  <2>4. ~NoOverlap
    BY <1>3, <1>5 DEF NothingBeforeMint
  <2>5. s.pc \notin Holding \cup {"confirm", "running"}
    BY <2>2 DEF Holding
  <2> QED BY <1>1, <2>1, <2>2, <2>3, <2>4, <2>5, GoInv
<1>6. CASE pendPriv # NoKey /\ live # NoKey
  <2> DEFINE n == Len(archive[proc[p].old]) + 1
             s == [proc[p] EXCEPT !.pc = "copy", !.slot = n]
  <2>1. proc' = [proc EXCEPT ![p] = s]
    BY <1>1, <1>6 DEF ChooseArchive, ProcStates
  <2>2. n \in Nat \ {0}
    <3>1. archive[proc[p].old] \in Seq(Keys \cup {NoKey})
      BY <1>1, <1>2
    <3> QED BY <3>1, LenProperties
  <2>3. s \in ProcStates /\ s.pc = "copy" /\ s.task = proc[p].task /\ s.old = proc[p].old /\ s.slot = n
    BY <1>1, <2>2 DEF ProcStates, Inside
  <2> HIDE DEF s
  <2>4. LocalOK(s) /\ (NoOverlap => FilesOK(s) /\ MarkerOK(s))
    BY <1>1, <1>2, <1>3, <1>6, <2>2, <2>3 DEF LocalOK, FilesOK, MarkerOK, Promoting, Loading, Rotating
  <2>5. s.pc \notin Holding \cup {"confirm", "running"}
    BY <2>3 DEF Holding
  <2> QED BY <1>1, <2>1, <2>3, <2>4, <2>5, GoInv
<1> QED BY <1>4, <1>5, <1>6

\* The archives have lengths.
LEMMA ArchiveLen ==
    ASSUME TypeOK
    PROVE  \A id \in Keys : archive[id] \in Seq(Keys \cup {NoKey}) /\ Len(archive[id]) \in Nat
<1>1. \A id \in Keys : archive[id] \in Seq(Keys \cup {NoKey})
  BY DEF TypeOK
<1> QED BY <1>1, LenProperties

\* A key is put over a slot of an archive, or behind the last.
LEMMA PutInArchive ==
    ASSUME NEW K, NEW A \in Seq(K), NEW slot \in 1..Len(A) + 1, NEW k \in K
    PROVE  LET B == IF slot \in DOMAIN A THEN [A EXCEPT ![slot] = k] ELSE Append(A, k)
           IN  /\ B \in Seq(K) /\ Len(A) <= Len(B) /\ DOMAIN B = 1..Len(B)
               /\ slot \in DOMAIN B /\ B[slot] = k
               /\ slot = Len(A) + 1 => \A n \in DOMAIN A : n \in DOMAIN B /\ B[n] = A[n]
<1>1. Len(A) \in Nat /\ DOMAIN A = 1..Len(A)
  BY LenProperties
<1>2. CASE slot \in DOMAIN A
  <2> DEFINE B == [A EXCEPT ![slot] = k]
  <2>1. /\ B \in Seq(K) /\ Len(B) = Len(A)
        /\ \A j \in 1..Len(A) : B[j] = IF j = slot THEN k ELSE A[j]
    BY <1>1, <1>2, ExceptSeq
  <2>2. slot \in 1..Len(A)
    BY <1>1, <1>2
  <2> HIDE DEF B
  <2>3. DOMAIN B = 1..Len(B)
    BY <2>1, LenProperties
  <2>4. slot # Len(A) + 1 /\ slot \in DOMAIN B /\ B[slot] = k /\ Len(A) <= Len(B)
    BY <1>1, <2>1, <2>2, <2>3
  <2> QED BY <1>2, <2>1, <2>3, <2>4 DEF B
<1>3. CASE slot \notin DOMAIN A
  <2> DEFINE B == Append(A, k)
  <2>1. /\ B \in Seq(K) /\ Len(B) = Len(A) + 1 /\ B[Len(A) + 1] = k
        /\ \A j \in 1..Len(A) : B[j] = A[j]
    BY AppendProperties
  <2>2. slot = Len(A) + 1
    BY <1>1, <1>3
  <2> HIDE DEF B
  <2>3. DOMAIN B = 1..Len(B)
    BY <2>1, LenProperties
  <2>4. /\ slot \in DOMAIN B /\ B[slot] = k /\ Len(A) <= Len(B)
        /\ \A n \in DOMAIN A : n \in DOMAIN B /\ B[n] = A[n]
    BY <1>1, <2>1, <2>2, <2>3
  <2> QED BY <1>3, <2>1, <2>3, <2>4 DEF B
<1> QED BY <1>2, <1>3

\* The archive file is opened: the old key is copied into it, or a crash
\* leaves it empty.
LEMMA PutInv ==
    ASSUME KeyInv, NEW p \in Procs, proc[p].pc = "copy", NEW k \in {live, NoKey},
           NEW s \in ProcStates, proc' = [proc EXCEPT ![p] = s],
           \/ s.pc = "off"
           \/ s.pc = "public" /\ s.task = proc[p].task /\ s.old = proc[p].old /\ k = live,
           archive' = Put(proc[p].old, proc[p].slot, k),
           unsynced' \in {unsynced, unsynced \cup {<<proc[p].old, proc[p].slot>>}},
           crashes' \in 0..MaxCrashes,
           UNCHANGED <<live, livePub, pendPriv, pendPub, marker, torn, chain, used, mishaps,
                       unlinkFaults>>
    PROVE  KeyInv'
<1> DEFINE old == proc[p].old
           slot == proc[p].slot
           A == archive[old]
           B == IF slot \in DOMAIN A THEN [A EXCEPT ![slot] = k] ELSE Append(A, k)
<1>1. /\ proc[p].pc = "copy" /\ proc[p] \in ProcStates /\ proc \in [Procs -> ProcStates]
      /\ proc' = [proc EXCEPT ![p] = s] /\ archive' = [archive EXCEPT ![old] = B]
      /\ UNCHANGED <<live, livePub, pendPriv, pendPub, marker, torn, chain, used, mishaps,
                     unlinkFaults>>
      /\ archive \in [Keys -> Seq(Keys \cup {NoKey})] /\ "copy" \in Inside
  BY DEF Put, KeyInv, TypeOK, Inside
<1>2. old \in Keys /\ live \in Keys /\ slot \in 1..Len(A) + 1
  BY <1>1 DEF KeyInv, LocalOK, Promoting
<1>3. A \in Seq(Keys \cup {NoKey}) /\ Len(A) \in Nat /\ DOMAIN A = 1..Len(A)
  BY <1>1, <1>2, LenProperties
<1>4. /\ s \in ProcStates /\ k \in Keys \cup {NoKey} /\ s.pc \in {"off", "public"}
      /\ s.pc = "public" => s.task = proc[p].task /\ s.old = old /\ k = live
  BY <1>2
<1> HIDE DEF A, old, slot
<1>5. /\ B \in Seq(Keys \cup {NoKey}) /\ Len(A) <= Len(B) /\ DOMAIN B = 1..Len(B)
      /\ slot \in DOMAIN B /\ B[slot] = k
      /\ slot = Len(A) + 1 => \A n \in DOMAIN A : n \in DOMAIN B /\ B[n] = A[n]
  <2> DEFINE K == Keys \cup {NoKey}
  <2>1. A \in Seq(K) /\ k \in K
    BY <1>3, <1>4
  <2> HIDE DEF K
  <2>2. /\ B \in Seq(K) /\ Len(A) <= Len(B) /\ DOMAIN B = 1..Len(B)
        /\ slot \in DOMAIN B /\ B[slot] = k
        /\ slot = Len(A) + 1 => \A n \in DOMAIN A : n \in DOMAIN B /\ B[n] = A[n]
    BY <1>2, <2>1, PutInArchive
  <2> QED BY <2>2 DEF K
<1> HIDE DEF B
<1>6. archive' \in [Keys -> Seq(Keys \cup {NoKey})] /\ archive'[old] = B
      /\ \A id \in Keys : id # old => archive'[id] = archive[id]
  BY <1>1, <1>2, <1>5
<1>7. \A id \in Keys : Len(archive[id]) <= Len(archive'[id])
  <2>1. \A id \in Keys : Len(archive[id]) \in Nat
    BY ArchiveLen DEF KeyInv
  <2>2. Len(archive[old]) <= Len(archive'[old])
    BY <1>5, <1>6 DEF A
  <2> SUFFICES ASSUME NEW id \in Keys PROVE Len(archive[id]) <= Len(archive'[id])
    OBVIOUS
  <2>3. CASE id = old
    BY <2>2, <2>3
  <2>4. CASE id # old
    BY <2>1, <2>4, <1>6
  <2> QED BY <2>3, <2>4
<1>8. /\ proc' \in [Procs -> ProcStates] /\ proc'[p] = s
      /\ \A q \in Procs : q # p => proc'[q] = proc[q]
      /\ \A q \in Procs : proc'[q].pc \in Holding => proc'[q].key \in Keys
  <2>1. s.pc \notin Holding
    BY <1>4 DEF Holding
  <2> QED BY <1>1, <1>4, <2>1, MovedType DEF KeyInv
<1>9. TypeOK'
  <2>1. \A c \in unsynced' : c[1] \in Keys /\ c[2] \in DOMAIN archive'[c[1]]
    <3> SUFFICES ASSUME NEW c \in unsynced' PROVE c[1] \in Keys /\ c[2] \in DOMAIN archive'[c[1]]
      OBVIOUS
    <3>1. CASE c \in unsynced
      <4>1. c[1] \in Keys /\ c[2] \in DOMAIN archive[c[1]]
        BY <3>1 DEF KeyInv, TypeOK
      <4>2. CASE c[1] = old
        <5>1. Len(B) \in Nat /\ c[2] \in 1..Len(A)
          BY <1>3, <1>5, <4>1, <4>2, LenProperties DEF A
        <5> QED BY <1>3, <1>5, <1>6, <4>1, <4>2, <5>1
      <4>3. CASE c[1] # old
        BY <1>6, <4>1, <4>3
      <4> QED BY <4>2, <4>3
    <3>2. CASE c = <<old, slot>>
      BY <1>2, <1>5, <1>6, <3>2
    <3> QED BY <3>1, <3>2 DEF old, slot
  <2> QED BY <1>1, <1>6, <1>8, <2>1 DEF KeyInv, TypeOK
<1>10. k = live => live \in Archived'
  BY <1>2, <1>5, <1>6 DEF Archived
<1>11. slot = Len(A) + 1 => Archived \subseteq Archived'
  <2> SUFFICES ASSUME slot = Len(A) + 1, NEW key \in Archived PROVE key \in Archived'
    OBVIOUS
  <2>0. PICK id \in Keys : key \in Keys /\ \E n \in DOMAIN archive[id] : archive[id][n] = key
    BY DEF Archived
  <2>1. PICK n \in DOMAIN archive[id] : archive[id][n] = key
    BY <2>0
  <2>2. n \in DOMAIN archive'[id] /\ archive'[id][n] = key
    BY <2>1, <1>5, <1>6 DEF A
  <2> QED BY <2>0, <2>2 DEF Archived
<1>12. LocalOK(proc[p])'
  BY <1>2, <1>4, <1>8 DEF LocalOK, Promoting, Loading, Rotating
<1>13. ASSUME NoOverlap'
       PROVE  /\ FilesOK(proc[p])' /\ MarkerOK(proc[p])'
              /\ NothingBeforeMint' /\ PublicFollows' /\ RetiredKept'
  <2>1. DirectoryInv /\ FilesOK(proc[p]) /\ MarkerOK(proc[p])
    BY <1>1, <1>13 DEF NoOverlap, KeyInv, DirectoryInv
  <2>2. slot = Len(A) + 1
    BY <1>1, <2>1 DEF FilesOK, A, old, slot
  <2>3. FilesOK(proc[p])'
    BY <1>1, <1>4, <1>8, <1>10, <2>1 DEF FilesOK, Promoting, Rotating
  <2>4. MarkerOK(proc[p])'
    BY <1>1, <1>4, <1>8, <2>1 DEF MarkerOK, Promoting, Loading, Rotating
  <2>5. NothingBeforeMint' /\ PublicFollows'
    BY <1>1, <1>2, <2>1, KeyRotationAssumption DEF DirectoryInv, NothingBeforeMint, PublicFollows
  <2>6. RetiredKept'
    BY <1>1, <1>11, <2>1, <2>2 DEF DirectoryInv, RetiredKept
  <2> QED BY <2>3, <2>4, <2>5, <2>6
<1>14. Survives({"overlap", "tail", "stale"})' => ExplainedInv'
  <2>1. Explained' = Explained /\ News(Walk)' = News(Walk) /\ s.pc \notin {"running", "confirm"}
    BY <1>1, <1>4 DEF Explained, News, Walk
  <2> QED BY <1>1, <1>8, <2>1 DEF KeyInv, Survives, ExplainedInv, StagedIsExplained
<1>15. Survives({"overlap", "tail", "window", "stale"})' => FollowInv'
  <2>1. Bound' <=> Bound
    BY <1>1, <1>4, <1>8 DEF Bound
  <2> QED BY <1>1, <2>1 DEF KeyInv, Survives, FollowInv, Walk
<1> QED BY <1>1, <1>7, <1>8, <1>9, <1>12, <1>13, <1>14, <1>15, InsideStep

\* The old key is copied into a free slot.
LEMMA CopyToArchiveInv ==
    ASSUME KeyInv, NEW p \in Procs, CopyToArchive(p)
    PROVE  KeyInv'
<1> DEFINE s == [proc[p] EXCEPT !.pc = "public"]
<1>1. /\ proc[p].pc = "copy" /\ proc[p] \in ProcStates /\ proc' = [proc EXCEPT ![p] = s]
      /\ archive' = Put(proc[p].old, proc[p].slot, live)
      /\ unsynced' = unsynced \cup {<<proc[p].old, proc[p].slot>>}
      /\ crashes' \in 0..MaxCrashes
      /\ UNCHANGED <<live, livePub, pendPriv, pendPub, marker, torn, chain, used, mishaps,
                     unlinkFaults>>
  BY DEF CopyToArchive, Goto, KeyInv, TypeOK, bounds
<1>2. s \in ProcStates /\ s.pc = "public" /\ s.task = proc[p].task /\ s.old = proc[p].old
  BY <1>1 DEF ProcStates, Inside
<1> HIDE DEF s
<1> QED BY <1>1, <1>2, PutInv

\* A process dies with the archive file open.
LEMMA CutCopyInv ==
    ASSUME KeyInv, NEW p \in Procs, Crash(p), proc[p].pc = "copy",
           archive' = Put(proc[p].old, proc[p].slot, NoKey)
    PROVE  KeyInv'
<1>1. /\ proc' = [proc EXCEPT ![p] = Off] /\ crashes' \in 0..MaxCrashes
      /\ UNCHANGED <<live, livePub, pendPriv, pendPub, marker, unsynced, torn, chain, used, mishaps,
                     unlinkFaults>>
  BY KeyRotationAssumption DEF Crash, KeyInv, TypeOK
<1> QED BY <1>1, OffType, PutInv

\* A step inside that leaves the archives alone and gives the process state s.
LEMMA FileStep ==
    ASSUME KeyInv, NEW p \in Procs, proc[p].pc \in Inside, NEW s \in ProcStates,
           proc' = [proc EXCEPT ![p] = s], s.pc \in Holding => s.key \in Keys,
           archive' = archive, unsynced' = unsynced, torn' = torn,
           mishaps' = mishaps, crashes' = crashes,
           live' \in Keys \cup {NoKey}, livePub' \in Keys \cup {NoKey},
           pendPriv' \in Keys \cup {NoKey}, pendPub' \in Keys \cup {NoKey},
           marker' \in Keys \cup {NoKey}, chain' \in Seq(Walks), chain' # << >>,
           used' \subseteq Keys, unlinkFaults' \in 0..MaxUnlinkFaults,
           live \in Keys => live' \in Keys,
           LocalOK(proc[p])',
           NoOverlap => /\ FilesOK(proc[p])' /\ MarkerOK(proc[p])'
                        /\ NothingBeforeMint' /\ PublicFollows' /\ RetiredKept',
           Survives({"overlap", "tail", "stale"}) => ExplainedInv',
           Survives({"overlap", "tail", "window", "stale"}) => FollowInv'
    PROVE  KeyInv'
<1>1. /\ proc' \in [Procs -> ProcStates] /\ proc'[p] = s
      /\ \A q \in Procs : q # p => proc'[q] = proc[q]
      /\ \A q \in Procs : proc'[q].pc \in Holding => proc'[q].key \in Keys
  BY MovedType DEF KeyInv
<1>2. TypeOK'
  BY <1>1 DEF KeyInv, TypeOK
<1>3. \A id \in Keys : Len(archive[id]) <= Len(archive'[id])
  <2>1. \A id \in Keys : Len(archive[id]) \in Nat
    BY ArchiveLen DEF KeyInv
  <2> QED BY <2>1
<1>4. /\ NoOverlap' => NoOverlap
      /\ Survives({"overlap", "tail", "stale"})' => Survives({"overlap", "tail", "stale"})
      /\ Survives({"overlap", "tail", "window", "stale"})' => Survives({"overlap", "tail", "window", "stale"})
  BY DEF NoOverlap, Survives
<1> QED BY <1>1, <1>2, <1>3, <1>4, InsideStep

\* The new public key comes first.
LEMMA ReplacePublicInv ==
    ASSUME KeyInv, NEW p \in Procs, ReplacePublic(p)
    PROVE  KeyInv'
<1> DEFINE s == [proc[p] EXCEPT !.pc = "private"]
<1>1. /\ proc[p].pc = "public" /\ proc[p] \in ProcStates /\ proc \in [Procs -> ProcStates]
      /\ proc' = [proc EXCEPT ![p] = s]
      /\ livePub' = (IF pendPub = NoKey THEN livePub ELSE pendPub) /\ pendPub' = NoKey
      /\ UNCHANGED <<live, pendPriv, marker, archive, unsynced, torn, chain, used, mishaps, unlinkFaults, crashes>>
      /\ "public" \in Inside
  BY DEF ReplacePublic, Goto, KeyInv, TypeOK, copies, bounds, Inside
<1>2. proc[p].old \in Keys
  BY <1>1 DEF KeyInv, LocalOK, Promoting
<1>3. s \in ProcStates /\ s.pc = "private" /\ s.task = proc[p].task /\ s.old = proc[p].old
  BY <1>1 DEF ProcStates, Inside
<1> HIDE DEF s
<1>4. proc'[p] = s /\ \A q \in Procs : q # p => proc'[q] = proc[q]
  BY <1>1
<1>5. s.pc \notin Holding
  BY <1>3 DEF Holding
<1>6. LocalOK(proc[p])'
  BY <1>2, <1>3, <1>4 DEF LocalOK, Loading, Rotating
<1>7. ASSUME NoOverlap
      PROVE  /\ FilesOK(proc[p])' /\ MarkerOK(proc[p])'
             /\ NothingBeforeMint' /\ PublicFollows' /\ RetiredKept'
  <2>1. DirectoryInv /\ FilesOK(proc[p]) /\ MarkerOK(proc[p])
    BY <1>7 DEF KeyInv, DirectoryInv
  <2>2. marker # NoKey /\ pendPriv # NoKey /\ live \in Archived
    BY <1>1, <2>1 DEF FilesOK, Promoting
  <2>3. FilesOK(proc[p])'
    BY <1>1, <1>3, <1>4, <2>2 DEF FilesOK, Rotating, Archived
  <2>4. MarkerOK(proc[p])'
    BY <1>1, <1>3, <1>4, <2>1 DEF MarkerOK, Promoting, Loading, Rotating
  <2>5. NothingBeforeMint'
    BY <1>1, <2>1, <2>2 DEF DirectoryInv, NothingBeforeMint
  <2>6. PublicFollows'
    BY <1>1, <2>1, <2>2 DEF DirectoryInv, PublicFollows
  <2>7. RetiredKept'
    BY <1>1, <2>1 DEF DirectoryInv, RetiredKept, Archived
  <2> QED BY <2>3, <2>4, <2>5, <2>6, <2>7
<1>8. Survives({"overlap", "tail", "stale"}) => ExplainedInv'
  <2>1. Explained' = Explained /\ News(Walk)' = News(Walk)
    BY <1>1 DEF Explained, News, Walk
  <2> QED BY <1>1, <1>3, <1>4, <2>1 DEF KeyInv, ExplainedInv, StagedIsExplained
<1>9. Survives({"overlap", "tail", "window", "stale"}) => FollowInv'
  <2>1. Bound' <=> Bound
    BY <1>1, <1>3, <1>4 DEF Bound
  <2> QED BY <1>1, <2>1 DEF KeyInv, FollowInv, Walk
<1> QED BY <1>1, <1>3, <1>5, <1>6, <1>7, <1>8, <1>9, FileStep DEF KeyInv, TypeOK

\* The staged key becomes the live one.
LEMMA ReplacePrivateInv ==
    ASSUME KeyInv, NEW p \in Procs, ReplacePrivate(p)
    PROVE  KeyInv'
<1>1. /\ proc[p].pc = "private" /\ proc[p] \in ProcStates /\ proc \in [Procs -> ProcStates]
      /\ UNCHANGED <<livePub, pendPub, marker, archive, unsynced, torn, chain, used, mishaps, unlinkFaults, crashes>>
      /\ "private" \in Inside
  BY DEF ReplacePrivate, KeyInv, TypeOK, copies, bounds, Inside
<1>2. CASE pendPriv = NoKey
  <2>1. proc' = [proc EXCEPT ![p] = Off] /\ UNCHANGED <<live, pendPriv>>
    BY <1>2 DEF ReplacePrivate
  <2> QED BY <1>1, <2>1, LeaveInv DEF KeyInv, TypeOK
<1>3. CASE pendPriv # NoKey
  <2> DEFINE s == [proc[p] EXCEPT !.pc = "unlink"]
  <2>1. proc' = [proc EXCEPT ![p] = s] /\ live' = pendPriv /\ pendPriv' = NoKey
    BY <1>3 DEF ReplacePrivate, Goto
  <2>2. proc[p].old \in Keys /\ pendPriv \in Keys
    BY <1>1, <1>3 DEF KeyInv, TypeOK, LocalOK, Promoting
  <2>3. s \in ProcStates /\ s.pc = "unlink" /\ s.task = proc[p].task /\ s.old = proc[p].old
    BY <1>1 DEF ProcStates, Inside
  <2> HIDE DEF s
  <2>4. proc'[p] = s /\ \A q \in Procs : q # p => proc'[q] = proc[q]
    BY <1>1, <2>1
  <2>5. s.pc \notin Holding
    BY <2>3 DEF Holding
  <2>6. LocalOK(proc[p])'
    BY <2>2, <2>3, <2>4 DEF LocalOK, Loading, Rotating
  <2>7. ASSUME NoOverlap
        PROVE  /\ FilesOK(proc[p])' /\ MarkerOK(proc[p])'
               /\ NothingBeforeMint' /\ PublicFollows' /\ RetiredKept'
    <3>1. DirectoryInv /\ FilesOK(proc[p]) /\ MarkerOK(proc[p])
      BY <2>7 DEF KeyInv, DirectoryInv
    <3>2. marker # NoKey /\ live \in Archived /\ pendPub = NoKey
      BY <1>1, <3>1 DEF FilesOK, Promoting
    <3>3. FilesOK(proc[p])'
      BY <1>1, <2>1, <2>3, <2>4, <3>2 DEF FilesOK, Rotating
    <3>4. MarkerOK(proc[p])'
      BY <1>1, <2>3, <2>4, <3>1 DEF MarkerOK, Promoting, Loading, Rotating
    <3>5. NothingBeforeMint'
      BY <2>1, <1>3 DEF NothingBeforeMint
    <3>6. PublicFollows'
      BY <1>1, <1>3, <2>1, <3>1, <3>2 DEF DirectoryInv, PublicFollows
    <3>7. RetiredKept'
      <4>1. Archived' = Archived
        BY <1>1 DEF Archived
      <4> QED BY <1>1, <3>1, <3>2, <4>1 DEF DirectoryInv, RetiredKept
    <3> QED BY <3>3, <3>4, <3>5, <3>6, <3>7
  <2>8. ASSUME Survives({"overlap", "tail", "stale"}) PROVE ExplainedInv'
    <3>1. Explained' = Explained /\ News(Walk)' = News(Walk)
      BY <1>1 DEF Explained, News, Walk
    <3>2. marker # NoKey
      <4>1. NoOverlap
        BY <2>8 DEF Survives, NoOverlap
      <4> QED BY <1>1, <4>1 DEF KeyInv, DirectoryInv, FilesOK, Promoting
    <3>3. pendPriv \in Explained
      BY <1>3, <2>8, <3>2 DEF KeyInv, ExplainedInv, StagedIsExplained, Explained
    <3>4. \A q \in Procs : proc'[q].pc # "confirm"
      <4>1. NoOverlap
        BY <2>8 DEF Survives, NoOverlap
      <4>2. \A q \in Procs : q # p => proc[q].pc \in {"off", "running"}
        BY <1>1, <4>1, OthersOutside
      <4> QED BY <4>2, <2>3, <2>4
    <3> QED BY <2>1, <2>3, <2>4, <2>8, <3>1, <3>3, <3>4 DEF KeyInv, ExplainedInv, StagedIsExplained
  <2>9. ASSUME Survives({"overlap", "tail", "window", "stale"}) PROVE FollowInv'
    <3>1. NoOverlap
      BY <2>9 DEF Survives, NoOverlap
    <3>2. marker # NoKey
      BY <1>1, <3>1 DEF KeyInv, DirectoryInv, FilesOK, Promoting
    <3>3. Bound /\ ~Bound'
      BY <1>3, <2>1, <3>2 DEF Bound
    <3> QED BY <1>1, <2>1, <2>9, <3>3 DEF KeyInv, FollowInv, Walk
  <2> QED BY <1>1, <2>1, <2>2, <2>3, <2>5, <2>6, <2>7, <2>8, <2>9, FileStep DEF KeyInv, TypeOK
<1> QED BY <1>2, <1>3

\* The marker goes, or is left over with nothing staged beside it.
LEMMA UnlinkMarkerInv ==
    ASSUME KeyInv, NEW p \in Procs, UnlinkMarker(p)
    PROVE  KeyInv'
<1>1. /\ proc[p].pc = "unlink" /\ proc[p] \in ProcStates /\ proc \in [Procs -> ProcStates]
      /\ UNCHANGED <<live, livePub, pendPriv, pendPub, archive, unsynced, torn, chain, used, mishaps, crashes>>
      /\ \/ marker' = NoKey /\ unlinkFaults' = unlinkFaults
         \/ /\ unlinkFaults < MaxUnlinkFaults /\ unlinkFaults' = unlinkFaults + 1
            /\ marker' = marker
      /\ unlinkFaults \in 0..MaxUnlinkFaults /\ marker \in Keys \cup {NoKey}
      /\ "unlink" \in Inside
  BY DEF UnlinkMarker, KeyInv, TypeOK, copies, bounds, Inside
<1>2. PICK s \in ProcStates :
             /\ proc' = [proc EXCEPT ![p] = s]
             /\ \/ s.pc = "off"
                \/ /\ s.pc = "load" /\ s.task = proc[p].task
                   /\ s.task \in {"record", "rotate1", "rotate2"}
  <2>1. CASE proc[p].task = "promote"
    <3>1. proc' = [proc EXCEPT ![p] = Off]
      BY <2>1 DEF UnlinkMarker, AfterReconcile
    <3> QED BY <3>1, OffType
  <2>2. CASE proc[p].task # "promote"
    <3> DEFINE s == [proc[p] EXCEPT !.pc = "load"]
    <3>1. proc' = [proc EXCEPT ![p] = s]
      BY <2>2 DEF UnlinkMarker, AfterReconcile, Goto
    <3>2. /\ s \in ProcStates /\ s.pc = "load" /\ s.task = proc[p].task
          /\ s.task \in {"record", "rotate1", "rotate2"}
      BY <1>1, <2>2 DEF ProcStates, Inside, Tasks
    <3> QED BY <3>1, <3>2
  <2> QED BY <2>1, <2>2
<1>3. s.pc \notin Holding \cup Promoting \cup Rotating \cup {"running", "confirm", "mint", "mintPub"}
  BY <1>2 DEF Holding, Promoting, Rotating
<1>5. proc'[p] = s /\ \A q \in Procs : q # p => proc'[q] = proc[q]
  BY <1>1, <1>2
<1>6. unlinkFaults' \in 0..MaxUnlinkFaults /\ marker' \in Keys \cup {NoKey}
  BY <1>1, KeyRotationAssumption
<1>7. LocalOK(proc[p])'
  BY <1>2, <1>3, <1>5 DEF LocalOK, Loading, Promoting, Rotating
<1>8. ASSUME NoOverlap
      PROVE  /\ FilesOK(proc[p])' /\ MarkerOK(proc[p])'
             /\ NothingBeforeMint' /\ PublicFollows' /\ RetiredKept'
  <2>1. DirectoryInv /\ FilesOK(proc[p]) /\ MarkerOK(proc[p])
    BY <1>8 DEF KeyInv, DirectoryInv
  <2>2. marker # NoKey /\ pendPriv = NoKey
    BY <1>1, <2>1 DEF FilesOK, Promoting
  <2>3. FilesOK(proc[p])'
    BY <1>2, <1>5 DEF FilesOK, Promoting, Rotating
  <2>4. MarkerOK(proc[p])'
    BY <1>1, <1>2, <1>5, <2>2 DEF MarkerOK, Loading
  <2>5. NothingBeforeMint' /\ PublicFollows'
    BY <1>1, <2>1, <2>2 DEF DirectoryInv, NothingBeforeMint, PublicFollows
  <2>6. RetiredKept'
    BY <1>1, <2>1 DEF DirectoryInv, RetiredKept, Archived
  <2> QED BY <2>3, <2>4, <2>5, <2>6
<1>9. ASSUME Survives({"overlap", "tail", "stale"}) PROVE ExplainedInv'
  <2>1. Explained' = Explained /\ News(Walk)' = News(Walk)
    BY <1>1 DEF Explained, News, Walk
  <2> QED BY <1>1, <1>3, <1>5, <1>9, <2>1 DEF KeyInv, ExplainedInv, StagedIsExplained
<1>10. ASSUME Survives({"overlap", "tail", "window", "stale"}) PROVE FollowInv'
  <2>1. pendPriv = NoKey
    BY <1>1, <1>10 DEF Survives, NoOverlap, KeyInv, DirectoryInv, FilesOK
  <2>2. ~Bound /\ ~Bound'
    BY <1>1, <2>1 DEF Bound
  <2>3. FollowInv /\ Walk' = Walk /\ live' = live
    BY <1>1, <1>10 DEF KeyInv, Walk
  <2> QED BY <2>2, <2>3 DEF FollowInv
<1>11. /\ live' \in Keys \cup {NoKey} /\ livePub' \in Keys \cup {NoKey}
       /\ pendPriv' \in Keys \cup {NoKey} /\ pendPub' \in Keys \cup {NoKey}
       /\ chain' \in Seq(Walks) /\ chain' # << >> /\ used' \subseteq Keys
  BY <1>1 DEF KeyInv, TypeOK
<1> QED BY <1>1, <1>2, <1>3, <1>5, <1>6, <1>7, <1>8, <1>9, <1>10, <1>11, FileStep

-----------------------------------------------------------------------------
(* load_or_create_device_key *)

\* Where a process goes with the key it loaded.
LEMMA LoadedIs ==
    ASSUME TypeOK, NEW p \in Procs, NEW k \in Keys, Loaded(p, k), proc[p].task \in {"record", "rotate1", "rotate2"}
    PROVE  \E s \in ProcStates :
             /\ proc' = [proc EXCEPT ![p] = s]
             /\ s.key = k
             /\ \/ s.pc = "running"
                \/ proc[p].task = "rotate1" /\ s.pc = "marker" /\ s.task = "rotate2"
                \/ proc[p].task = "rotate2" /\ s.pc = "stage" /\ s.task = "rotate2"
<1>1. proc[p] \in ProcStates /\ proc \in [Procs -> ProcStates]
  BY DEF TypeOK
<1>2. CASE proc[p].task = "record"
  <2> DEFINE s == [proc[p] EXCEPT !.pc = "running", !.key = k]
  <2>1. proc' = [proc EXCEPT ![p] = s]
    BY <1>1, <1>2 DEF Loaded
  <2>2. s \in ProcStates /\ s.key = k /\ s.pc = "running"
    BY <1>1 DEF ProcStates
  <2> QED BY <2>1, <2>2
<1>3. CASE proc[p].task = "rotate1"
  <2> DEFINE s == [proc[p] EXCEPT !.pc = "marker", !.key = k, !.task = "rotate2"]
  <2>1. proc' = [proc EXCEPT ![p] = s]
    BY <1>1, <1>3 DEF Loaded
  <2>2. s \in ProcStates /\ s.key = k /\ s.pc = "marker" /\ s.task = "rotate2"
    BY <1>1 DEF ProcStates, Inside, Tasks
  <2> QED BY <1>3, <2>1, <2>2
<1>4. CASE proc[p].task = "rotate2"
  <2> DEFINE s == [proc[p] EXCEPT !.pc = "stage", !.key = k]
  <2>1. proc' = [proc EXCEPT ![p] = s]
    BY <1>1, <1>4 DEF Loaded
  <2>2. s \in ProcStates /\ s.key = k /\ s.pc = "stage" /\ s.task = "rotate2"
    BY <1>1, <1>4 DEF ProcStates, Inside
  <2> QED BY <1>4, <2>1, <2>2
<1> QED BY <1>2, <1>3, <1>4

\* The live key is loaded, or one must be made.
LEMMA LoadInv ==
    ASSUME KeyInv, NEW p \in Procs, Load(p)
    PROVE  KeyInv'
<1>1. /\ proc[p].pc = "load" /\ proc[p] \in ProcStates /\ proc \in [Procs -> ProcStates]
      /\ UNCHANGED <<live, livePub, pendPriv, pendPub, marker, archive, unsynced, torn, chain, used, mishaps,
                     unlinkFaults, crashes>>
      /\ live \in Keys \cup {NoKey} /\ "load" \in Inside \ {"confirm"}
  BY DEF Load, KeyInv, TypeOK, files, copies, bounds, Inside
<1>2. proc[p].task \in {"record", "rotate1", "rotate2"}
  BY <1>1 DEF KeyInv, LocalOK, Loading
<1>3. NoOverlap => MarkerOK(proc[p])
  BY DEF KeyInv, DirectoryInv
<1>4. CASE live = NoKey
  <2> DEFINE s == [proc[p] EXCEPT !.pc = "mint"]
  <2>1. proc' = [proc EXCEPT ![p] = s]
    BY <1>4 DEF Load, Goto
  <2>2. s \in ProcStates /\ s.pc = "mint" /\ s.task = proc[p].task
    BY <1>1 DEF ProcStates, Inside
  <2> HIDE DEF s
  <2>3. LocalOK(s) /\ FilesOK(s)
    BY <1>2, <1>4, <2>2 DEF LocalOK, FilesOK, Promoting, Loading, Rotating
  <2>4. NoOverlap => MarkerOK(s)
    BY <1>1, <1>3, <2>2 DEF MarkerOK, Promoting, Loading, Rotating
  <2>5. s.pc \notin Holding \cup {"confirm", "running"}
    BY <2>2 DEF Holding
  <2> QED BY <1>1, <2>1, <2>2, <2>3, <2>4, <2>5, GoInv
<1>5. CASE live # NoKey
  <2>1. live \in Keys /\ Loaded(p, live)
    BY <1>1, <1>5 DEF Load
  <2>2. PICK s \in ProcStates :
             /\ proc' = [proc EXCEPT ![p] = s]
             /\ s.key = live
             /\ \/ s.pc = "running"
                \/ proc[p].task = "rotate1" /\ s.pc = "marker" /\ s.task = "rotate2"
                \/ proc[p].task = "rotate2" /\ s.pc = "stage" /\ s.task = "rotate2"
    BY <1>2, <2>1, LoadedIs DEF KeyInv
  <2>3. LocalOK(s) /\ FilesOK(s)
    BY <2>2 DEF LocalOK, FilesOK, Promoting, Loading, Rotating
  <2>4. NoOverlap => MarkerOK(s)
    BY <1>1, <1>3, <2>2 DEF MarkerOK, Promoting, Loading, Rotating
  <2> QED BY <1>1, <1>5, <2>1, <2>2, <2>3, <2>4, GoInv
<1> QED BY <1>4, <1>5

\* The first key is written, and enrolled.
LEMMA MintInv ==
    ASSUME KeyInv, NEW p \in Procs, NEW k \in Keys, Mint(p, k)
    PROVE  KeyInv'
<1> DEFINE s == [proc[p] EXCEPT !.pc = "mintPub", !.key = k]
           w == [Walk EXCEPT !.active = k]
<1>1. /\ proc[p].pc = "mint" /\ proc[p] \in ProcStates /\ proc \in [Procs -> ProcStates]
      /\ live' = k /\ chain' = (IF Walk.active = NoKey THEN <<w>> ELSE chain)
      /\ UNCHANGED <<livePub, pendPriv, pendPub, marker, archive, unsynced, torn, mishaps, unlinkFaults, crashes>>
      /\ "mint" \in Inside /\ k # NoKey
  BY KeyRotationAssumption DEF Mint, KeyInv, TypeOK, copies, bounds, Inside
<1>2. proc' = [proc EXCEPT ![p] = s]
  BY <1>1 DEF Mint, ProcStates
<1>3. s \in ProcStates /\ s.pc = "mintPub" /\ s.task = proc[p].task /\ s.key = k
  BY <1>1 DEF ProcStates, Inside
<1>4. /\ Walk \in Walks /\ w \in Walks /\ w.active = k /\ w.sealed = Walk.sealed
      /\ w.forged = Walk.forged
  <2>1. Walk \in Walks
    BY DEF KeyInv, TypeOK, Walk
  <2> QED BY <2>1 DEF Walks
<1> HIDE DEF s, w
<1>5. /\ chain' \in Seq(Walks) /\ chain' # << >>
      /\ Walk.active = NoKey => Len(chain') = 1 /\ chain'[1] = w /\ Walk' = w
  <2>1. CASE Walk.active = NoKey
    <3>1. chain' = <<w>>
      BY <1>1, <2>1
    <3> QED BY <1>4, <3>1 DEF Walk
  <2>2. CASE Walk.active # NoKey
    BY <1>1, <2>2 DEF KeyInv, TypeOK
  <2> QED BY <2>1, <2>2
<1>6. /\ livePub' \in Keys \cup {NoKey} /\ pendPriv' \in Keys \cup {NoKey}
      /\ pendPub' \in Keys \cup {NoKey} /\ marker' \in Keys \cup {NoKey}
      /\ used' \subseteq Keys /\ unlinkFaults' \in 0..MaxUnlinkFaults
  BY <1>1 DEF KeyInv, TypeOK, Mint
<1>7. proc'[p] = s /\ \A q \in Procs : q # p => proc'[q] = proc[q]
  BY <1>1, <1>2
<1>8. LocalOK(proc[p])'
  <2>1. proc[p].task \in {"record", "rotate1", "rotate2"}
    BY <1>1 DEF KeyInv, LocalOK, Loading
  <2> QED BY <1>3, <1>7, <2>1 DEF LocalOK, Promoting, Rotating
<1>9. ASSUME NoOverlap
      PROVE  /\ live = NoKey /\ marker = NoKey /\ pendPriv = NoKey /\ livePub = NoKey
             /\ Walk.active = NoKey /\ Walk.sealed = {}
             /\ \A q \in Procs : q # p => proc'[q].pc = "off"
  <2>1. DirectoryInv /\ FilesOK(proc[p])
    BY <1>9 DEF KeyInv, DirectoryInv
  <2>2. live = NoKey /\ NothingBeforeMint
    BY <1>1, <2>1 DEF FilesOK, DirectoryInv
  <2>3. Len(chain) \in 1..Len(chain)
    BY DEF KeyInv, TypeOK
  <2>4. \A q \in Procs : q # p => proc[q].pc = "off"
    BY <1>1, <1>9, <2>2, OthersOutside DEF NothingBeforeMint, Holding
  <2> QED BY <1>7, <2>2, <2>3, <2>4 DEF NothingBeforeMint, Walk
<1>10. ASSUME NoOverlap
       PROVE  /\ FilesOK(proc[p])' /\ MarkerOK(proc[p])'
              /\ NothingBeforeMint' /\ PublicFollows' /\ RetiredKept'
  <2>1. FilesOK(proc[p])' /\ MarkerOK(proc[p])'
    BY <1>1, <1>3, <1>7, <1>9, <1>10 DEF FilesOK, MarkerOK, Promoting, Rotating
  <2>2. NothingBeforeMint' /\ PublicFollows'
    BY <1>1, <1>9, <1>10 DEF NothingBeforeMint, PublicFollows
  <2>3. RetiredKept'
    BY <1>4, <1>5, <1>9, <1>10 DEF RetiredKept, Olds
  <2> QED BY <2>1, <2>2, <2>3
<1>11. ASSUME Survives({"overlap", "tail", "stale"}) PROVE ExplainedInv'
  <2>1. NoOverlap
    BY <1>11 DEF Survives, NoOverlap
  <2>2. k \in Explained'
    BY <1>4, <1>5, <1>9, <2>1 DEF Explained
  <2>3. \A q \in Procs : proc'[q].pc \notin {"running", "confirm"}
    BY <1>3, <1>7, <1>9, <2>1
  <2> QED BY <1>1, <1>9, <2>1, <2>2, <2>3 DEF ExplainedInv, StagedIsExplained
<1>12. ASSUME Survives({"overlap", "tail", "window", "stale"}) PROVE FollowInv'
  <2>1. NoOverlap /\ FollowInv
    BY <1>12 DEF Survives, NoOverlap, KeyInv
  <2>2. ~Bound'
    BY <1>1, <1>9, <2>1 DEF Bound
  <2>3. ~Walk'.forged /\ Walk'.active = k
    BY <1>4, <1>5, <1>9, <2>1 DEF FollowInv
  <2> QED BY <1>1, <2>2, <2>3 DEF FollowInv
<1> QED BY <1>1, <1>2, <1>3, <1>5, <1>6, <1>8, <1>10, <1>11, <1>12, FileStep

\* The first key's public half is written.
LEMMA MintPublicInv ==
    ASSUME KeyInv, NEW p \in Procs, MintPublic(p)
    PROVE  KeyInv'
<1> DEFINE k == proc[p].key
<1>1. /\ proc[p].pc = "mintPub" /\ proc[p] \in ProcStates /\ proc \in [Procs -> ProcStates]
      /\ livePub' = k /\ Loaded(p, k)
      /\ UNCHANGED <<live, pendPriv, pendPub, marker, archive, unsynced, torn, chain, used, mishaps,
                     unlinkFaults, crashes>>
      /\ "mintPub" \in Inside /\ k \in Keys
  BY DEF MintPublic, KeyInv, TypeOK, copies, bounds, Inside, Holding
<1>2. proc[p].task \in {"record", "rotate1", "rotate2"}
  BY <1>1 DEF KeyInv, LocalOK, Loading
<1>3. PICK s \in ProcStates :
             /\ proc' = [proc EXCEPT ![p] = s]
             /\ s.key = k
             /\ \/ s.pc = "running"
                \/ proc[p].task = "rotate1" /\ s.pc = "marker" /\ s.task = "rotate2"
                \/ proc[p].task = "rotate2" /\ s.pc = "stage" /\ s.task = "rotate2"
  BY <1>1, <1>2, LoadedIs DEF KeyInv
<1>4. proc'[p] = s /\ \A q \in Procs : q # p => proc'[q] = proc[q]
  BY <1>1, <1>3
<1>5. LocalOK(proc[p])'
  BY <1>3, <1>4 DEF LocalOK, Promoting, Loading, Rotating
<1>6. ASSUME NoOverlap
      PROVE  k = live /\ marker = NoKey /\ live # NoKey
  <2>1. FilesOK(proc[p])
    BY <1>6 DEF KeyInv, DirectoryInv
  <2> QED BY <1>1, <2>1, KeyRotationAssumption DEF FilesOK
<1>7. ASSUME NoOverlap
      PROVE  /\ FilesOK(proc[p])' /\ MarkerOK(proc[p])'
             /\ NothingBeforeMint' /\ PublicFollows' /\ RetiredKept'
  <2>1. FilesOK(proc[p])' /\ MarkerOK(proc[p])'
    BY <1>1, <1>3, <1>4, <1>6, <1>7 DEF FilesOK, MarkerOK, Promoting, Loading, Rotating
  <2>2. NothingBeforeMint' /\ PublicFollows'
    BY <1>1, <1>6, <1>7 DEF NothingBeforeMint, PublicFollows
  <2>3. RetiredKept'
    BY <1>1, <1>7 DEF KeyInv, DirectoryInv, RetiredKept, Archived
  <2> QED BY <2>1, <2>2, <2>3
<1>8. ASSUME Survives({"overlap", "tail", "stale"}) PROVE ExplainedInv'
  <2>1. NoOverlap /\ ExplainedInv
    BY <1>8 DEF Survives, NoOverlap, KeyInv
  <2>2. Explained' = Explained /\ News(Walk)' = News(Walk)
    BY <1>1 DEF Explained, News, Walk
  <2>3. s.pc # "confirm" /\ (s.pc = "running" => s.key \in Explained)
    BY <1>3, <1>6, <2>1 DEF ExplainedInv
  <2> QED BY <1>1, <1>4, <2>1, <2>2, <2>3 DEF ExplainedInv, StagedIsExplained
<1>9. ASSUME Survives({"overlap", "tail", "window", "stale"}) PROVE FollowInv'
  <2>1. Bound' <=> Bound
    BY <1>1, <1>3, <1>4 DEF Bound
  <2> QED BY <1>1, <1>9, <2>1 DEF KeyInv, FollowInv, Walk
<1>10. /\ live' \in Keys \cup {NoKey} /\ livePub' \in Keys \cup {NoKey}
       /\ pendPriv' \in Keys \cup {NoKey} /\ pendPub' \in Keys \cup {NoKey}
       /\ marker' \in Keys \cup {NoKey} /\ unlinkFaults' \in 0..MaxUnlinkFaults
       /\ chain' \in Seq(Walks) /\ chain' # << >> /\ used' \subseteq Keys
  BY <1>1 DEF KeyInv, TypeOK
<1> QED BY <1>1, <1>3, <1>5, <1>7, <1>8, <1>9, <1>10, FileStep

-----------------------------------------------------------------------------
(* rotate_key *)

\* A process that stages, or appends the rotation, has the directory to
\* itself, and the chain's identity is live.
LEMMA RotatingAlone ==
    ASSUME KeyInv, NEW p \in Procs, proc[p].pc \in Rotating \ {"confirm"}
    PROVE  /\ NoOverlap => /\ live # NoKey /\ proc[p].key = live
                           /\ marker # NoKey =>
                                IF proc[p].pc = "stage" THEN pendPriv = NoKey ELSE "stale" \in mishaps
                           /\ livePub \in {live, NoKey} \/ "stale" \in mishaps
                           /\ \A q \in Procs : proc[q].pc # "confirm"
           /\ Survives({"overlap", "tail", "window", "stale"}) => Walk.active = live
<1>1. proc[p].pc \in Inside \cap Holding
  BY DEF Rotating, Inside, Holding
<1>2. ASSUME NoOverlap
      PROVE  /\ live # NoKey /\ proc[p].key = live
             /\ marker # NoKey =>
                  IF proc[p].pc = "stage" THEN pendPriv = NoKey ELSE "stale" \in mishaps
             /\ livePub \in {live, NoKey} \/ "stale" \in mishaps
             /\ \A q \in Procs : proc[q].pc # "confirm"
  <2>1. DirectoryInv /\ FilesOK(proc[p]) /\ MarkerOK(proc[p])
    BY <1>2 DEF KeyInv, DirectoryInv
  <2>2. marker # NoKey =>
          IF proc[p].pc = "stage" THEN pendPriv = NoKey ELSE "stale" \in mishaps
    BY <2>1 DEF MarkerOK, Rotating
  <2>3. live # NoKey /\ (livePub \in {live, NoKey} \/ "stale" \in mishaps)
    BY <1>1, <2>1, <2>2 DEF DirectoryInv, NothingBeforeMint, PublicFollows
  <2>4. proc[p].key = live
    BY <2>1 DEF FilesOK
  <2>5. \A q \in Procs : proc[q].pc # "confirm"
    BY <1>1, <1>2, OthersOutside
  <2> QED BY <2>2, <2>3, <2>4, <2>5
<1>3. ASSUME Survives({"overlap", "tail", "window", "stale"}) PROVE Walk.active = live
  <2>1. NoOverlap /\ FollowInv /\ "stale" \notin mishaps
    BY <1>3 DEF Survives, NoOverlap, KeyInv
  <2> QED BY <1>2, <2>1 DEF FollowInv, Bound
<1> QED BY <1>2, <1>3

\* The new key is written beside the live one, which no one can notice
\* unless a marker left over confirms it already.
LEMMA StagingStep ==
    ASSUME KeyInv, NEW p \in Procs, proc[p].pc \in {"stage", "stagePub"},
           NEW s \in ProcStates, proc' = [proc EXCEPT ![p] = s],
           s.pc \in {"stagePub", "append"}, s.task = proc[p].task, s.key = proc[p].key, s.new \in Keys,
           UNCHANGED <<live, livePub, marker, archive, unsynced, torn, chain, unlinkFaults, crashes>>,
           mishaps \subseteq mishaps', mishaps' \subseteq mishaps \cup {"stale"},
           marker # NoKey /\ NoOverlap => "stale" \in mishaps',
           used' \subseteq Keys, pendPriv' \in Keys \cup {NoKey}, pendPub' \in Keys \cup {NoKey},
           NoOverlap => pendPriv' = s.new /\ (s.pc = "append" => pendPub' = s.new)
    PROVE  KeyInv'
<1>1. /\ proc[p].pc \in Inside \cap Holding /\ proc[p].pc \in Rotating \ {"confirm"}
      /\ proc \in [Procs -> ProcStates] /\ s.key \in Keys /\ s.task = "rotate2"
  BY DEF KeyInv, TypeOK, LocalOK, Inside, Rotating, Holding
<1>2. proc'[p] = s /\ \A q \in Procs : q # p => proc'[q] = proc[q]
  BY <1>1
<1>3. LocalOK(proc[p])'
  BY <1>1, <1>2 DEF LocalOK, Promoting, Loading
<1>4. ASSUME NoOverlap'
      PROVE  /\ FilesOK(proc[p])' /\ MarkerOK(proc[p])'
             /\ NothingBeforeMint' /\ PublicFollows' /\ RetiredKept'
  <2>0. NoOverlap
    BY <1>4 DEF NoOverlap
  <2>1. /\ live # NoKey /\ proc[p].key = live /\ (livePub \in {live, NoKey} \/ "stale" \in mishaps)
        /\ marker # NoKey => "stale" \in mishaps'
    BY <1>1, <2>0, RotatingAlone
  <2>2. FilesOK(proc[p])'
    BY <1>2, <2>0, <2>1 DEF FilesOK, Promoting, Rotating
  <2>3. MarkerOK(proc[p])'
    BY <1>2, <2>1 DEF MarkerOK, Promoting, Loading, Rotating
  <2>4. NothingBeforeMint' /\ PublicFollows'
    BY <2>1 DEF NothingBeforeMint, PublicFollows
  <2>5. RetiredKept'
    BY <2>0 DEF KeyInv, DirectoryInv, RetiredKept, Archived
  <2> QED BY <2>2, <2>3, <2>4, <2>5
<1>5. ASSUME NoOverlap, "stale" \notin mishaps'
      PROVE  marker' = NoKey /\ \A q \in Procs : proc'[q].pc # "confirm"
  BY <1>1, <1>2, <1>5, RotatingAlone
<1>6. ASSUME Survives({"overlap", "tail", "stale"})' PROVE ExplainedInv'
  <2>1. NoOverlap /\ ExplainedInv /\ "stale" \notin mishaps'
    BY <1>6 DEF Survives, NoOverlap, KeyInv
  <2>2. Explained' = Explained
    BY DEF Explained, News, Walk
  <2>3. s.pc # "running"
    OBVIOUS
  <2> QED BY <1>2, <1>5, <2>1, <2>2, <2>3 DEF ExplainedInv, StagedIsExplained
<1>7. ASSUME Survives({"overlap", "tail", "window", "stale"})' PROVE FollowInv'
  <2>1. NoOverlap /\ FollowInv /\ "stale" \notin mishaps'
    BY <1>7 DEF Survives, NoOverlap, KeyInv
  <2>2. Walk.active = live
    BY <1>1, <1>7, RotatingAlone DEF Survives
  <2>3. ~Bound'
    BY <1>5, <2>1 DEF Bound
  <2> QED BY <2>1, <2>2, <2>3 DEF FollowInv, Walk
<1>8. TypeOK'
  <2>1. /\ proc' \in [Procs -> ProcStates]
        /\ \A q \in Procs : proc'[q].pc \in Holding => proc'[q].key \in Keys
    BY <1>1, MovedType DEF KeyInv
  <2> QED BY <2>1 DEF KeyInv, TypeOK
<1>9. \A id \in Keys : Len(archive[id]) <= Len(archive'[id])
  <2>1. \A id \in Keys : Len(archive[id]) \in Nat
    BY ArchiveLen DEF KeyInv
  <2> QED BY <2>1
<1> QED BY <1>1, <1>2, <1>3, <1>4, <1>6, <1>7, <1>8, <1>9, InsideStep

\* The private half is staged.
LEMMA StagePrivateInv ==
    ASSUME KeyInv, NEW p \in Procs, NEW k \in Keys, StagePrivate(p, k)
    PROVE  KeyInv'
<1> DEFINE s == [proc[p] EXCEPT !.pc = "stagePub", !.new = k]
<1>1. /\ proc[p].pc = "stage" /\ proc[p] \in ProcStates /\ proc \in [Procs -> ProcStates]
      /\ pendPriv' = k /\ used' \subseteq Keys /\ pendPub' \in Keys \cup {NoKey}
      /\ UNCHANGED <<live, livePub, pendPub, marker, archive, unsynced, torn, chain, unlinkFaults, crashes>>
      /\ mishaps' = IF marker = NoKey THEN mishaps ELSE mishaps \cup {"stale"}
  BY DEF StagePrivate, KeyInv, TypeOK, copies, bounds
<1>2. proc' = [proc EXCEPT ![p] = s]
  BY <1>1 DEF StagePrivate, ProcStates
<1>3. /\ s \in ProcStates /\ s.pc = "stagePub" /\ s.task = proc[p].task /\ s.key = proc[p].key
      /\ s.new = k
  BY <1>1 DEF ProcStates, Inside
<1>4. /\ mishaps \subseteq mishaps' /\ mishaps' \subseteq mishaps \cup {"stale"}
      /\ marker # NoKey => "stale" \in mishaps'
  BY <1>1
<1> HIDE DEF s
<1> QED BY <1>1, <1>2, <1>3, <1>4, StagingStep

\* The public half is staged.
LEMMA StagePublicInv ==
    ASSUME KeyInv, NEW p \in Procs, StagePublic(p)
    PROVE  KeyInv'
<1> DEFINE s == [proc[p] EXCEPT !.pc = "append"]
<1>1. /\ proc[p].pc = "stagePub" /\ proc[p] \in ProcStates /\ proc \in [Procs -> ProcStates]
      /\ pendPub' = proc[p].new /\ used' \subseteq Keys /\ pendPriv' \in Keys \cup {NoKey}
      /\ UNCHANGED <<live, livePub, pendPriv, marker, archive, unsynced, torn, chain, mishaps, unlinkFaults, crashes>>
      /\ proc' = [proc EXCEPT ![p] = s]
  BY DEF StagePublic, Goto, KeyInv, TypeOK, copies, bounds
<1>2. proc[p].new \in Keys
  BY <1>1 DEF KeyInv, LocalOK
<1>3. NoOverlap => pendPriv = proc[p].new /\ (marker # NoKey => "stale" \in mishaps)
  BY <1>1 DEF KeyInv, DirectoryInv, FilesOK, MarkerOK
<1>4. /\ s \in ProcStates /\ s.pc = "append" /\ s.task = proc[p].task /\ s.key = proc[p].key
      /\ s.new = proc[p].new
  BY <1>1 DEF ProcStates, Inside
<1> HIDE DEF s
<1> QED BY <1>1, <1>2, <1>3, <1>4, StagingStep

\* What the chain is after an entry with the verdict w.
LEMMA ExtendIs ==
    ASSUME TypeOK, NEW w \in Walks, chain' = Extend(w)
    PROVE  /\ chain' \in Seq(Walks) /\ chain' # << >>
           /\ Walk' = w /\ chain'[1] = chain[1] /\ Len(chain) \in 1..Len(chain)
           /\ \A i \in 1..Len(chain') : chain'[i] = w \/ \E j \in 1..Len(chain) : chain'[i] = chain[j]
<1>1. chain \in Seq(Walks) /\ chain # << >> /\ Len(chain) \in Nat \ {0}
  BY DEF TypeOK
<1>2. CASE w = Walk
  <2>1. chain' = chain
    BY <1>2 DEF Extend
  <2> QED BY <1>1, <1>2, <2>1 DEF Walk
<1>3. CASE w # Walk
  <2>1. chain' = Append(chain, w)
    BY <1>3 DEF Extend
  <2>2. /\ chain' \in Seq(Walks) /\ Len(chain') = Len(chain) + 1 /\ chain'[Len(chain) + 1] = w
        /\ \A j \in 1..Len(chain) : chain'[j] = chain[j]
    BY <1>1, <2>1, AppendProperties
  <2>3. Walk' = w
    BY <2>2 DEF Walk
  <2>4. chain' # << >> /\ chain'[1] = chain[1] /\ Len(chain) \in 1..Len(chain)
    BY <1>1, <2>2
  <2>5. \A i \in 1..Len(chain') : i = Len(chain) + 1 \/ i \in 1..Len(chain)
    BY <1>1, <2>2
  <2> QED BY <2>2, <2>3, <2>4, <2>5
<1> QED BY <1>2, <1>3

\* The verdict after a rotation.
LEMMA SealRotationIs ==
    ASSUME NEW walk \in Walks, NEW old \in Keys, NEW new \in Keys
    PROVE  LET w == SealRotation(walk, old, new)
           IN  /\ w \in Walks /\ w.sealed = walk.sealed \cup {<<old, new>>}
               /\ old = walk.active => w.active = new /\ (~walk.forged => ~w.forged)
<1> DEFINE w == SealRotation(walk, old, new)
           S == walk.sealed \cup {<<old, new>>}
           a == IF old = walk.active THEN new ELSE walk.active
           f == walk.forged \/ old # walk.active
<1>1. w = [walk EXCEPT !.sealed = S, !.active = a, !.forged = f]
  BY DEF SealRotation, Walks
<1>2. f \in BOOLEAN /\ (old = walk.active /\ ~walk.forged => ~f)
  OBVIOUS
<1>3. a \in Keys \cup {NoKey} /\ (old = walk.active => a = new) /\ S \in SUBSET (Keys \X Keys)
  BY DEF Walks
<1> HIDE DEF w, S, a, f
<1>4. w \in Walks /\ w.sealed = S /\ w.active = a /\ w.forged = f
  BY <1>1, <1>2, <1>3 DEF Walks
<1> QED BY <1>2, <1>3, <1>4 DEF w, S

\* The rotation is on the chain: from here on the staged key is the active one.
LEMMA AppendRotationInv ==
    ASSUME KeyInv, NEW p \in Procs, AppendRotation(p)
    PROVE  KeyInv'
<1>1. /\ proc[p].pc = "append" /\ proc[p] \in ProcStates /\ proc \in [Procs -> ProcStates]
      /\ UNCHANGED <<live, livePub, pendPriv, pendPub, marker, archive, unsynced, torn, used, mishaps,
                     unlinkFaults, crashes>>
      /\ "append" \in Inside /\ proc[p].key \in Keys
  BY DEF AppendRotation, KeyInv, TypeOK, files, copies, bounds, Inside, Holding
<1>2. CASE proc' = [proc EXCEPT ![p] = Off] /\ UNCHANGED chain
  BY <1>1, <1>2, LeaveInv DEF KeyInv, TypeOK
<1>3. CASE chain' = Extend(SealRotation(Walk, proc[p].key, proc[p].new)) /\ Goto(p, "confirm")
  <2> DEFINE s == [proc[p] EXCEPT !.pc = "confirm"]
             old == proc[p].key
             new == proc[p].new
             w == SealRotation(Walk, old, new)
  <2>1. proc' = [proc EXCEPT ![p] = s]
    BY <1>3 DEF Goto
  <2>2. new \in Keys /\ proc[p].task = "rotate2" /\ proc[p].pc \in Rotating \ {"confirm"}
    BY <1>1 DEF KeyInv, LocalOK, Rotating
  <2>3. /\ s \in ProcStates /\ s.pc = "confirm" /\ s.task = "rotate2" /\ s.key = old /\ s.new = new
    BY <1>1, <2>2 DEF ProcStates, Inside
  <2>4. /\ w \in Walks /\ w.sealed = Walk.sealed \cup {<<old, new>>}
        /\ old = Walk.active => w.active = new /\ (~Walk.forged => ~w.forged)
    <3>1. Walk \in Walks
      BY DEF KeyInv, TypeOK, Walk
    <3> QED BY <1>1, <2>2, <3>1, SealRotationIs
  <2> HIDE DEF s, old, new, w
  <2>5. /\ chain' \in Seq(Walks) /\ chain' # << >>
        /\ Walk' = w /\ chain'[1] = chain[1] /\ Len(chain) \in 1..Len(chain)
        /\ \A i \in 1..Len(chain') : chain'[i] = w \/ \E j \in 1..Len(chain) : chain'[i] = chain[j]
    BY <1>3, <2>4, ExtendIs DEF KeyInv, w, old, new
  <2>6. proc'[p] = s /\ \A q \in Procs : q # p => proc'[q] = proc[q]
    BY <1>1, <2>1
  <2>7. LocalOK(proc[p])'
    BY <2>2, <2>3, <2>6 DEF LocalOK, Promoting, Loading
  <2>8. News(Walk)' = News(Walk) \cup {new} /\ Olds(w) = Olds(Walk) \cup {old}
    <3>1. News(w) = News(Walk) \cup {new} /\ Olds(w) = Olds(Walk) \cup {old}
      <4> DEFINE r == <<old, new>>
      <4>1. r[1] = old /\ r[2] = new /\ w.sealed = Walk.sealed \cup {r}
        BY <2>4
      <4> HIDE DEF r
      <4> QED BY <4>1 DEF News, Olds
    <3>2. News(Walk)' = News(w)
      BY <2>5 DEF News
    <3> QED BY <3>1, <3>2
  <2>9. ASSUME NoOverlap
        PROVE  /\ live # NoKey /\ old = live /\ pendPriv = new /\ pendPub = new
               /\ "stale" \notin mishaps => marker = NoKey /\ livePub \in {live, NoKey}
    <3>1. FilesOK(proc[p])
      BY <2>9 DEF KeyInv, DirectoryInv
    <3> QED BY <1>1, <2>2, <2>9, <3>1, RotatingAlone DEF FilesOK, old, new
  <2>10. ASSUME NoOverlap
         PROVE  /\ FilesOK(proc[p])' /\ MarkerOK(proc[p])'
                /\ NothingBeforeMint' /\ PublicFollows' /\ RetiredKept'
    <3>1. FilesOK(proc[p])' /\ MarkerOK(proc[p])'
      BY <1>1, <2>3, <2>6, <2>9, <2>10 DEF FilesOK, MarkerOK, Promoting, Loading, Rotating
    <3>2. NothingBeforeMint' /\ PublicFollows'
      BY <1>1, <2>9, <2>10 DEF NothingBeforeMint, PublicFollows
    <3>3. RetiredKept'
      <4>1. RetiredKept /\ Archived' = Archived /\ live' = live
        BY <1>1, <2>10 DEF KeyInv, DirectoryInv, Archived
      <4>2. \A k \in Olds(w) : k = live \/ k \in Archived \/ k \in torn
        BY <2>5, <2>8, <2>9, <2>10, <4>1 DEF RetiredKept, Walk
      <4>3. \A i \in 1..Len(chain') : \A k \in Olds(chain'[i]) : k = live \/ k \in Archived \/ k \in torn
        BY <2>5, <4>1, <4>2 DEF RetiredKept
      <4> QED BY <1>1, <4>1, <4>3 DEF RetiredKept, Olds
    <3> QED BY <3>1, <3>2, <3>3
  <2>11. ASSUME Survives({"overlap", "tail", "stale"}) PROVE ExplainedInv'
    <3>1. NoOverlap /\ ExplainedInv
      BY <2>11 DEF Survives, NoOverlap, KeyInv
    <3>2. Explained \subseteq Explained'
      BY <2>5, <2>8 DEF Explained
    <3>3. pendPriv' \in News(Walk)'
      BY <1>1, <2>8, <2>9, <3>1
    <3> QED BY <1>1, <2>3, <2>6, <3>1, <3>2, <3>3 DEF ExplainedInv, StagedIsExplained
  <2>12. ASSUME Survives({"overlap", "tail", "window", "stale"}) PROVE FollowInv'
    <3>1. NoOverlap /\ FollowInv
      BY <2>12 DEF Survives, NoOverlap, KeyInv
    <3>2. Walk.active = old
      BY <2>2, <2>9, <2>12, <3>1, RotatingAlone
    <3>3. Bound'
      BY <1>1, <2>2, <2>3, <2>6, <2>9, <3>1, KeyRotationAssumption DEF Bound, new
    <3>4. ~Walk'.forged /\ Walk'.active = pendPriv'
      BY <1>1, <2>4, <2>5, <2>9, <3>1, <3>2 DEF FollowInv
    <3> QED BY <3>3, <3>4 DEF FollowInv
  <2>13. /\ live' \in Keys \cup {NoKey} /\ livePub' \in Keys \cup {NoKey}
         /\ pendPriv' \in Keys \cup {NoKey} /\ pendPub' \in Keys \cup {NoKey}
         /\ marker' \in Keys \cup {NoKey} /\ unlinkFaults' \in 0..MaxUnlinkFaults
         /\ used' \subseteq Keys
    BY <1>1 DEF KeyInv, TypeOK
  <2>14. s.key \in Keys
    BY <1>1, <2>3 DEF old
  <2> QED BY <1>1, <2>1, <2>3, <2>5, <2>7, <2>10, <2>11, <2>12, <2>13, <2>14, FileStep
<1> QED BY <1>2, <1>3 DEF AppendRotation

\* The marker confirms the rotation.
LEMMA ConfirmInv ==
    ASSUME KeyInv, NEW p \in Procs, Confirm(p)
    PROVE  KeyInv'
<1> DEFINE s == [proc[p] EXCEPT !.pc = "marker", !.task = "promote"]
<1>1. /\ proc[p].pc = "confirm" /\ proc[p] \in ProcStates /\ proc \in [Procs -> ProcStates]
      /\ marker' = proc[p].key
      /\ UNCHANGED <<live, livePub, pendPriv, pendPub, archive, unsynced, torn, chain, used, mishaps,
                     unlinkFaults, crashes>>
      /\ "confirm" \in Inside /\ proc[p].key \in Keys
  BY DEF Confirm, KeyInv, TypeOK, copies, bounds, Inside, Holding
<1>2. proc' = [proc EXCEPT ![p] = s]
  BY <1>1 DEF Confirm, ProcStates
<1>3. s \in ProcStates /\ s.pc = "marker" /\ s.task = "promote"
  BY <1>1 DEF ProcStates, Inside, Tasks
<1> HIDE DEF s
<1>4. proc'[p] = s /\ \A q \in Procs : q # p => proc'[q] = proc[q]
  BY <1>1, <1>2
<1>5. s.pc \notin Holding \cup Promoting \cup Loading \cup Rotating
  BY <1>3 DEF Holding, Promoting, Loading, Rotating
<1>6. LocalOK(proc[p])'
  BY <1>3, <1>4, <1>5 DEF LocalOK, Promoting, Rotating
<1>7. proc[p].new \in Keys /\ proc[p].task = "rotate2"
  BY <1>1 DEF KeyInv, LocalOK, Rotating
<1>8. ASSUME NoOverlap
      PROVE  /\ live # NoKey /\ pendPriv = proc[p].new /\ pendPub = proc[p].new
             /\ "stale" \notin mishaps => marker = NoKey /\ livePub \in {live, NoKey}
  <2>1. DirectoryInv /\ FilesOK(proc[p]) /\ MarkerOK(proc[p])
    BY <1>8 DEF KeyInv, DirectoryInv
  <2>2. "stale" \notin mishaps => marker = NoKey
    BY <1>1, <2>1 DEF MarkerOK
  <2>3. live # NoKey /\ ("stale" \notin mishaps => livePub \in {live, NoKey})
    BY <1>1, <2>1, <2>2 DEF DirectoryInv, NothingBeforeMint, PublicFollows, Holding
  <2> QED BY <1>1, <2>1, <2>2, <2>3 DEF FilesOK
<1>9. ASSUME NoOverlap
      PROVE  /\ FilesOK(proc[p])' /\ MarkerOK(proc[p])'
             /\ NothingBeforeMint' /\ PublicFollows' /\ RetiredKept'
  <2>1. FilesOK(proc[p])' /\ MarkerOK(proc[p])'
    BY <1>3, <1>4 DEF FilesOK, MarkerOK, Promoting, Loading, Rotating
  <2>2. NothingBeforeMint' /\ PublicFollows'
    BY <1>1, <1>8, <1>9 DEF NothingBeforeMint, PublicFollows
  <2>3. RetiredKept'
    BY <1>1, <1>9 DEF KeyInv, DirectoryInv, RetiredKept, Archived
  <2> QED BY <2>1, <2>2, <2>3
<1>10. ASSUME Survives({"overlap", "tail", "stale"}) PROVE ExplainedInv'
  <2>1. Explained' = Explained /\ News(Walk)' = News(Walk)
    BY <1>1 DEF Explained, News, Walk
  <2>2. ExplainedInv /\ pendPriv \in News(Walk)
    BY <1>1, <1>10 DEF KeyInv, ExplainedInv, StagedIsExplained
  <2> QED BY <1>1, <1>3, <1>4, <2>1, <2>2 DEF ExplainedInv, StagedIsExplained
<1>11. ASSUME Survives({"overlap", "tail", "window", "stale"}) PROVE FollowInv'
  <2>1. NoOverlap /\ FollowInv
    BY <1>11 DEF Survives, NoOverlap, KeyInv
  <2>2. pendPriv # NoKey /\ marker' # NoKey
    BY <1>1, <1>7, <1>8, <2>1, KeyRotationAssumption
  <2>3. Bound /\ Bound'
    BY <1>1, <2>2 DEF Bound
  <2> QED BY <1>1, <2>1, <2>3 DEF FollowInv, Walk
<1>12. /\ live' \in Keys \cup {NoKey} /\ livePub' \in Keys \cup {NoKey}
       /\ pendPriv' \in Keys \cup {NoKey} /\ pendPub' \in Keys \cup {NoKey}
       /\ marker' \in Keys \cup {NoKey} /\ unlinkFaults' \in 0..MaxUnlinkFaults
       /\ chain' \in Seq(Walks) /\ chain' # << >> /\ used' \subseteq Keys
  BY <1>1 DEF KeyInv, TypeOK
<1> QED BY <1>1, <1>2, <1>3, <1>5, <1>6, <1>9, <1>10, <1>11, <1>12, FileStep

-----------------------------------------------------------------------------
(* The recorder, and the machine *)

\* A record leaves the identity, and what is retired, as they are.
LEMMA RecordInv ==
    ASSUME KeyInv, NEW p \in Procs, Record(p)
    PROVE  KeyInv'
<1> DEFINE w == SealRecord(Walk, proc[p].key)
<1>1. /\ proc[p].pc = "running" /\ chain' = Extend(w)
      /\ UNCHANGED <<live, livePub, pendPriv, pendPub, marker, archive, unsynced, torn, proc, used, mishaps,
                     unlinkFaults, crashes>>
  BY DEF Record, files, copies, bounds
<1>2. w \in Walks /\ w.sealed = Walk.sealed /\ w.active = Walk.active /\ w.forged = Walk.forged
  <2>1. Walk \in Walks
    BY DEF KeyInv, TypeOK, Walk
  <2> QED BY <2>1 DEF Walks, SealRecord
<1> HIDE DEF w
<1>3. /\ chain' \in Seq(Walks) /\ chain' # << >>
      /\ Walk' = w /\ chain'[1] = chain[1] /\ Len(chain) \in 1..Len(chain)
      /\ \A i \in 1..Len(chain') : chain'[i] = w \/ \E j \in 1..Len(chain) : chain'[i] = chain[j]
  BY <1>1, <1>2, ExtendIs DEF KeyInv
<1>4. TypeOK'
  BY <1>1, <1>3 DEF KeyInv, TypeOK
<1>5. \A q \in Procs : LocalOK(proc[q])'
  BY <1>1 DEF KeyInv, LocalOK
<1>6. ASSUME NoOverlap' PROVE DirectoryInv'
  <2>1. DirectoryInv
    BY <1>1, <1>6 DEF NoOverlap, KeyInv
  <2>2. Single' /\ PublicFollows' /\ \A q \in Procs : FilesOK(proc[q])' /\ MarkerOK(proc[q])'
    BY <1>1, <2>1 DEF DirectoryInv, Single, PublicFollows, FilesOK, MarkerOK, Archived
  <2>3. NothingBeforeMint'
    BY <1>1, <2>1 DEF DirectoryInv, NothingBeforeMint, Holding
  <2>4. RetiredKept'
    <3>1. RetiredKept /\ Archived' = Archived /\ live' = live /\ Olds(w) = Olds(Walk)
      BY <1>1, <1>2, <2>1 DEF DirectoryInv, Archived, Olds
    <3>2. \A k \in Olds(w) : k = live \/ k \in Archived \/ k \in torn
      BY <1>3, <3>1 DEF RetiredKept, Walk
    <3>3. \A i \in 1..Len(chain') : \A k \in Olds(chain'[i]) : k = live \/ k \in Archived \/ k \in torn
      BY <1>3, <3>1, <3>2 DEF RetiredKept
    <3> QED BY <1>1, <3>1, <3>3 DEF RetiredKept, Olds
  <2> QED BY <2>2, <2>3, <2>4 DEF DirectoryInv
<1>7. Survives({"overlap", "tail", "stale"})' => ExplainedInv'
  <2>1. Explained' = Explained /\ News(Walk)' = News(Walk)
    BY <1>2, <1>3 DEF Explained, News
  <2> QED BY <1>1, <2>1 DEF KeyInv, Survives, ExplainedInv, StagedIsExplained
<1>8. Survives({"overlap", "tail", "window", "stale"})' => FollowInv'
  <2>1. Bound' <=> Bound
    BY <1>1 DEF Bound
  <2> QED BY <1>1, <1>2, <1>3, <2>1 DEF KeyInv, Survives, FollowInv
<1> QED BY <1>4, <1>5, <1>6, <1>7, <1>8 DEF KeyInv

\* Every process is gone, and the chain perhaps shorter.
LEMMA OSCrashInv ==
    ASSUME KeyInv, NEW n \in 1..Len(chain), NEW cut \in SUBSET unsynced, OSCrash(n, cut)
    PROVE  KeyInv'
<1>1. /\ UNCHANGED <<live, livePub, pendPriv, pendPub, marker, used, unlinkFaults>>
      /\ chain' = SubSeq(chain, 1, n) /\ proc' = [p \in Procs |-> Off]
      /\ crashes' \in 0..MaxCrashes
      /\ mishaps \subseteq mishaps' /\ mishaps' \subseteq {"overlap", "window", "tail", "stale"}
      /\ n < Len(chain) => "tail" \in mishaps'
      /\ (\E p \in Procs : proc[p].pc = "confirm") => "window" \in mishaps'
  BY KeyRotationAssumption DEF OSCrash, KeyInv, TypeOK
<1>0. /\ archive' \in [Keys -> Seq(Keys \cup {NoKey})] /\ unsynced' = {}
      /\ torn' \subseteq Keys \cup {NoKey}
      /\ \A k \in Keys : k \in Archived \/ k \in torn => k \in Archived' \/ k \in torn'
  <2>1. /\ archive' = [id \in Keys |-> [slot \in DOMAIN archive[id] |->
                         IF <<id, slot>> \in cut THEN NoKey ELSE archive[id][slot]]]
        /\ torn' = torn \cup {archive[c[1]][c[2]] : c \in cut} /\ unsynced' = {}
    BY DEF OSCrash
  <2>2. ASSUME NEW id \in Keys
        PROVE  /\ archive'[id] \in Seq(Keys \cup {NoKey}) /\ DOMAIN archive'[id] = DOMAIN archive[id]
               /\ \A m \in DOMAIN archive[id] : /\ archive[id][m] \in Keys \cup {NoKey}
                                               /\ <<id, m>> \notin cut => archive'[id][m] = archive[id][m]
    <3> DEFINE A == archive[id]
               B == [slot \in DOMAIN A |-> IF <<id, slot>> \in cut THEN NoKey ELSE A[slot]]
    <3>1. A \in Seq(Keys \cup {NoKey}) /\ archive'[id] = B
      BY <2>1 DEF KeyInv, TypeOK
    <3>2. Len(A) \in Nat /\ DOMAIN A = 1..Len(A) /\ \A m \in 1..Len(A) : A[m] \in Keys \cup {NoKey}
      BY <3>1, LenProperties, ElementOfSeq
    <3>3. B \in [1..Len(A) -> Keys \cup {NoKey}]
      BY <3>2
    <3>4. B \in Seq(Keys \cup {NoKey})
      BY <3>2, <3>3, IsASeq
    <3> QED BY <3>1, <3>2, <3>4
  <2>3. archive' \in [Keys -> Seq(Keys \cup {NoKey})]
    BY <2>1, <2>2
  <2>4. \A c \in cut : archive[c[1]][c[2]] \in Keys \cup {NoKey}
    BY <2>2 DEF KeyInv, TypeOK
  <2>5. ASSUME NEW k \in Keys, k \in Archived PROVE k \in Archived' \/ k \in torn'
    <3>1. PICK id \in Keys : \E m \in DOMAIN archive[id] : archive[id][m] = k
      BY <2>5 DEF Archived
    <3>2. PICK m \in DOMAIN archive[id] : archive[id][m] = k
      BY <3>1
    <3>3. CASE <<id, m>> \in cut
      <4> DEFINE c == <<id, m>>
      <4>1. c \in cut /\ c[1] = id /\ c[2] = m
        BY <3>3
      <4> HIDE DEF c
      <4>2. archive[c[1]][c[2]] = k
        BY <3>2, <4>1
      <4> QED BY <2>1, <4>1, <4>2
    <3>4. CASE <<id, m>> \notin cut
      BY <2>2, <3>2, <3>4 DEF Archived
    <3> QED BY <3>3, <3>4
  <2>6. torn \subseteq torn' /\ torn' \subseteq Keys \cup {NoKey}
    BY <2>1, <2>4 DEF KeyInv, TypeOK
  <2> QED BY <2>1, <2>3, <2>5, <2>6
<1>2. chain \in Seq(Walks) /\ Len(chain) \in Nat /\ n \in Nat \ {0} /\ n <= Len(chain)
  BY DEF KeyInv, TypeOK
<1>3. /\ chain' \in Seq(Walks) /\ Len(chain') = n
      /\ \A i \in 1..n : i \in 1..Len(chain) /\ chain'[i] = chain[i]
  <2>1. 1 \in 1..Len(chain) + 1 /\ n \in 0..Len(chain)
    BY <1>2
  <2>2. \A i \in 1..n : i \in 1..Len(chain) /\ 1 + i - 1 = i
    BY <1>2
  <2>3. n - 1 + 1 = n /\ 1 <= n + 1
    BY <1>2
  <2> QED BY <1>1, <1>2, <2>1, <2>2, <2>3, SubSeqProperties
<1>4. chain' # << >>
  BY <1>2, <1>3
<1>5. \A p \in Procs : proc'[p] = Off
  BY <1>1
<1>6. \A p \in Procs : proc'[p].pc \notin Inside \cup Holding \cup {"running", "confirm"}
  BY <1>5, OffType
<1>7. TypeOK'
  <2>1. proc' \in [Procs -> ProcStates]
    BY <1>1, OffType
  <2> QED BY <1>0, <1>1, <1>3, <1>4, <1>6, <2>1 DEF KeyInv, TypeOK
<1>8. \A p \in Procs : LocalOK(proc[p])' /\ FilesOK(proc[p])' /\ MarkerOK(proc[p])'
  <2>1. \A p \in Procs : proc'[p].pc = "off"
    BY <1>5, OffType
  <2> QED BY <2>1 DEF LocalOK, FilesOK, MarkerOK, Promoting, Loading, Rotating
<1>9. ASSUME NoOverlap' PROVE DirectoryInv'
  <2>1. DirectoryInv
    BY <1>1, <1>9, SurvivesEarlier DEF KeyInv
  <2>2. Single' /\ PublicFollows'
    BY <1>1, <1>6, <2>1 DEF DirectoryInv, Single, PublicFollows
  <2>3. NothingBeforeMint'
    BY <1>1, <1>3, <1>6, <2>1 DEF DirectoryInv, NothingBeforeMint
  <2>4. RetiredKept'
    <3>1. RetiredKept /\ live' = live
      BY <1>1, <2>1 DEF DirectoryInv
    <3>2. \A i \in 1..Len(chain') : \A k \in Olds(chain'[i]) : k = live \/ k \in Archived \/ k \in torn
      BY <1>3, <3>1 DEF RetiredKept
    <3>3. \A i \in 1..Len(chain') : Olds(chain'[i]) \subseteq Keys
      <4>1. \A i \in 1..Len(chain') : chain'[i] \in Walks
        BY <1>3, ElementOfSeq
      <4> QED BY <4>1 DEF Walks, Olds
    <3>4. \A i \in 1..Len(chain') : \A k \in Olds(chain'[i]) : k = live' \/ k \in Archived' \/ k \in torn'
      BY <1>0, <3>1, <3>2, <3>3
    <3> QED BY <3>4 DEF RetiredKept, Olds
  <2> QED BY <1>8, <2>2, <2>3, <2>4 DEF DirectoryInv
<1>10. ASSUME "tail" \notin mishaps' PROVE Walk' = Walk /\ chain'[1] = chain[1]
  <2>1. n = Len(chain)
    BY <1>1, <1>2, <1>10
  <2> QED BY <1>2, <1>3, <2>1 DEF Walk
<1>11. ASSUME Survives({"overlap", "tail", "stale"})' PROVE ExplainedInv'
  <2>1. ExplainedInv
    BY <1>1, <1>11, SurvivesEarlier DEF KeyInv
  <2>2. Explained' = Explained /\ News(Walk)' = News(Walk)
    BY <1>10, <1>11 DEF Survives, Explained, News
  <2> QED BY <1>1, <1>6, <2>1, <2>2 DEF ExplainedInv, StagedIsExplained
<1>12. ASSUME Survives({"overlap", "tail", "window", "stale"})' PROVE FollowInv'
  <2>1. FollowInv
    BY <1>1, <1>12, SurvivesEarlier DEF KeyInv
  <2>2. Bound' <=> Bound
    BY <1>1, <1>6, <1>12 DEF Survives, Bound
  <2>3. Walk' = Walk
    BY <1>10, <1>12 DEF Survives
  <2> QED BY <1>1, <2>1, <2>2, <2>3 DEF FollowInv
<1> QED BY <1>7, <1>8, <1>9, <1>11, <1>12 DEF KeyInv

\* A step that changes nothing.
LEMMA KeyStutter == KeyInv /\ UNCHANGED vars => KeyInv'
<1> SUFFICES ASSUME KeyInv, UNCHANGED vars PROVE KeyInv'
  OBVIOUS
<1> USE DEF vars, copies
<1>1. TypeOK' /\ \A p \in Procs : LocalOK(proc[p])'
  BY DEF KeyInv, TypeOK, LocalOK
<1>2. NoOverlap' => DirectoryInv'
  <2> SUFFICES ASSUME NoOverlap' PROVE DirectoryInv'
    OBVIOUS
  <2>1. DirectoryInv
    BY DEF NoOverlap, KeyInv
  <2>2. Single' /\ NothingBeforeMint' /\ PublicFollows'
    BY <2>1 DEF DirectoryInv, Single, NothingBeforeMint, PublicFollows
  <2>3. RetiredKept' /\ \A p \in Procs : FilesOK(proc[p])' /\ MarkerOK(proc[p])'
    BY <2>1 DEF DirectoryInv, RetiredKept, FilesOK, MarkerOK, Archived
  <2> QED BY <2>2, <2>3 DEF DirectoryInv
<1>3. Survives({"overlap", "tail", "stale"})' => ExplainedInv'
  BY DEF KeyInv, Survives, ExplainedInv, StagedIsExplained, Explained, News, Walk
<1>4. Survives({"overlap", "tail", "window", "stale"})' => FollowInv'
  <2>1. Bound' <=> Bound
    BY DEF Bound
  <2> QED BY <2>1 DEF KeyInv, Survives, FollowInv, Walk
<1> QED BY <1>1, <1>2, <1>3, <1>4 DEF KeyInv

-----------------------------------------------------------------------------
(* Theorems *)

\* Every step preserves the invariant.
LEMMA KeyNextInv == KeyInv /\ [Next]_vars => KeyInv'
<1> SUFFICES ASSUME KeyInv, [Next]_vars PROVE KeyInv'
  OBVIOUS
<1>1. CASE UNCHANGED vars
  BY <1>1, KeyStutter
<1>2. ASSUME NEW p \in Procs, NEW task \in {"record", "rotate1"}, Start(p, task) PROVE KeyInv'
  BY <1>2, StartInv
<1>3. ASSUME NEW p \in Procs, Reconcile(p) PROVE KeyInv'
  BY <1>3, CheckMarkerInv, ChooseArchiveInv, CopyToArchiveInv, ReplacePublicInv,
     ReplacePrivateInv, UnlinkMarkerInv DEF Reconcile
<1>4. ASSUME NEW p \in Procs, Load(p) \/ MintPublic(p) \/ \E k \in Keys : Mint(p, k) PROVE KeyInv'
  BY <1>4, LoadInv, MintPublicInv, MintInv
<1>5. ASSUME NEW p \in Procs,
             \/ \E k \in Keys : StagePrivate(p, k)
             \/ StagePublic(p) \/ AppendRotation(p) \/ Confirm(p)
      PROVE  KeyInv'
  BY <1>5, StagePrivateInv, StagePublicInv, AppendRotationInv, ConfirmInv
<1>6. ASSUME NEW p \in Procs, Record(p) PROVE KeyInv'
  BY <1>6, RecordInv
<1>7. ASSUME NEW p \in Procs, Stop(p) PROVE KeyInv'
  BY <1>7, LeaveInv DEF Stop, files, copies, bounds, KeyInv, TypeOK
<1>8. ASSUME NEW p \in Procs, Crash(p) PROVE KeyInv'
  <2>1. crashes' \in 0..MaxCrashes
    BY <1>8, KeyRotationAssumption DEF Crash, KeyInv, TypeOK
  <2>2. /\ mishaps \subseteq mishaps' /\ mishaps' \subseteq {"overlap", "window", "tail", "stale"}
        /\ proc[p].pc = "confirm" => "window" \in mishaps'
    BY <1>8 DEF Crash, KeyInv, TypeOK
  <2>3. CASE UNCHANGED archive
    BY <1>8, <2>1, <2>2, <2>3, LeaveInv DEF Crash
  <2>4. CASE proc[p].pc = "copy" /\ archive' = Put(proc[p].old, proc[p].slot, NoKey)
    BY <1>8, <2>4, CutCopyInv
  <2> QED BY <1>8, <2>3, <2>4 DEF Crash
<1>9. ASSUME NEW n \in 1..Len(chain), NEW cut \in SUBSET unsynced, OSCrash(n, cut) PROVE KeyInv'
  BY <1>9, OSCrashInv
<1> QED BY <1>1, <1>2, <1>3, <1>4, <1>5, <1>6, <1>7, <1>8, <1>9 DEF Next

\* The invariant holds in every behaviour of the key directory.
THEOREM KeyInvariant == Spec => []KeyInv
<1> QED BY KeyInit, KeyNextInv, PTL DEF Spec

\* keys.py, rotation.py: whatever crashes, the device signs only
\* as an identity that the rotation chain leads to, up to the mishaps that the
\* property names.
THEOREM SignedByTheChain == Spec => []IdentityExplained
<1> QED BY KeyInvariant, InvImpliesProperties, PTL

\* keys.py _finish_pending_rotation, rotation.py rotate_key: the key that the chain
\* holds active is live or can still be promoted, and no honest rotation is
\* taken for a forged one.
THEOREM ActiveKeyReachable == Spec => []IdentityFollowsChain
<1> QED BY KeyInvariant, InvImpliesProperties, PTL

\* keys.py _finish_pending_rotation: promotion never loses or overwrites a retired key.
THEOREM RetiredKeysKept == Spec => []KeyFilesKept
<1> QED BY KeyInvariant, InvImpliesProperties, PTL

\* A key is staged over another only when no marker confirms that one.
LEMMA StagedOnlyReplaced ==
    ASSUME KeyInv, [Next]_vars, NoOverlap', marker # NoKey, pendPriv # NoKey, pendPriv' # pendPriv
    PROVE  live' = pendPriv
<1>1. NoOverlap
  <2>1. mishaps \subseteq mishaps'
    BY DEF Next, vars, Start, Reconcile, CheckMarker, ChooseArchive, CopyToArchive, ReplacePublic,
           ReplacePrivate, UnlinkMarker, Load, Mint, MintPublic, StagePrivate, StagePublic,
           AppendRotation, Confirm, Record, Stop, Crash, OSCrash
  <2> QED BY <2>1 DEF NoOverlap
<1>2. \/ \E p \in Procs : ReplacePrivate(p) \/ \E k \in Keys : StagePrivate(p, k)
  BY DEF Next, vars, files, copies, Start, Reconcile, CheckMarker, ChooseArchive, CopyToArchive, ReplacePublic,
         UnlinkMarker, Load, Mint, MintPublic, StagePublic,
         AppendRotation, Confirm, Record, Stop, Crash, OSCrash
<1>3. ASSUME NEW p \in Procs, ReplacePrivate(p) PROVE live' = pendPriv
  BY <1>3 DEF ReplacePrivate
<1>4. ASSUME NEW p \in Procs, NEW k \in Keys, StagePrivate(p, k) PROVE FALSE
  BY <1>1, <1>4, RotatingAlone DEF StagePrivate, Rotating
<1> QED BY <1>2, <1>3, <1>4

\* keys.py PROMOTION_CONFIRMED_MARKER: a confirmed staged key leaves the
\* pending directory only by becoming the live one, unless two processes
\* were in the key directory at once.
THEOREM ConfirmedKeysEndLive == Spec => ConfirmedEndsLive
<1> DEFINE A == Survives({"overlap"})' /\ marker # NoKey /\ pendPriv # NoKey /\ pendPriv' # pendPriv
                  => live' = pendPriv
<1>1. KeyInv /\ [Next]_vars => [A]_vars
  BY StagedOnlyReplaced DEF Survives, NoOverlap
<1>2. []KeyInv /\ [][Next]_vars => [][A]_vars
  BY <1>1, PTL
<1> QED BY <1>2, KeyInvariant DEF Spec, ConfirmedEndsLive
=============================================================================

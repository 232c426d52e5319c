-------------------------------- MODULE Gate --------------------------------
(***************************************************************************)
(* The mandate gate in front of an agent's tools: the cached snapshot and  *)
(* its decision (recorder/mandate.py), delegation to sub-agents            *)
(* (recorder/delegation.py), the denial latch (recorder/denial_latch.py)   *)
(* and the call path through all three (recorder/governed_tool.py _check,  *)
(* which recorder/proxy_gate.py _decide repeats).                          *)
(*                                                                         *)
(* Calls run in threads.  A call reads the mandate version, asks the       *)
(* latch, asks the gate and tells the latch; each is atomic under its own  *)
(* lock, and a refresh, a delegation or another call may come in between.  *)
(*                                                                         *)
(* Time and budgets are choices: at any decision the snapshot may be past  *)
(* max_staleness_s (an unchanged answer, 304, makes it fresh again), and a *)
(* call that is otherwise permitted may be over a budget.  A tool list of  *)
(* null is the set of all tools.                                           *)
(***************************************************************************)
EXTENDS Naturals, Sequences, FiniteSets, SequencesExt

CONSTANTS
    Threads,         \* tool calls in flight at once
    Runs,            \* run ids
    Boss,            \* an agent with a mandate of its own
    Subs,            \* agents it may delegate to
    Tools,           \* tool names
    Mandates,        \* agent -> what its snapshots may say
    Threshold,       \* DenialLatch._threshold
    MaxRuns,         \* DenialLatch._max_runs
    DefaultClosed,   \* is default_posture fail_closed?
    MaxVersion       \* bound: agent -> mandate versions it gets

Approvals == {"no", "pending", "approved", "denied"}

ASSUME GateAssumption ==
    /\ Boss \notin Subs
    /\ Mandates \in [{Boss} \cup Subs -> SUBSET
         [tools : SUBSET Tools, observing : BOOLEAN, approval : [Tools -> Approvals],
          suspended : BOOLEAN, reassess : BOOLEAN, closed : BOOLEAN,
          delegates : BOOLEAN]]
    /\ Threshold \in Nat \ {0}
    /\ MaxRuns \in Nat \ {0}
    /\ DefaultClosed \in BOOLEAN
    /\ MaxVersion \in [{Boss} \cup Subs -> Nat]

VARIABLES
    snap,   \* agent -> MandateGate._snapshot, with a history: was this
            \* version ever enforced?
    scope,  \* sub-agent -> the EffectiveScope its DelegatedGate was built with
    latch,  \* the process-wide DenialLatch
    call    \* thread -> the call it is in

gates == <<snap, scope>>
vars == <<snap, scope, latch, call>>

-----------------------------------------------------------------------------
(* Data *)

Agents == {Boss} \cup Subs
NoSnapshot == [ver |-> 0]
SnapshotsOf(a) ==
    {NoSnapshot} \cup
    [ver : 1..MaxVersion[a], m : Mandates[a], enforced : BOOLEAN]
NoScope == [ver |-> 0]
Scopes == {NoScope} \cup
          [ver : 1..MaxVersion[Boss], tools : SUBSET Tools, observing : BOOLEAN]
Ended == {"ran", "refused", "repeat", "halted"}
NoCall == [pc |-> "idle"]
Calls == [pc : {"check", "upstream", "decide", "record"} \cup Ended,
          run : Runs, agent : Agents, tool : Tools, scope : Scopes,
          ver : Seq(Nat),      \* latch_version, read once
          verdict : {"none", "run", "park", "deny", "out_of_scope"},
          outside : BOOLEAN,   \* a version in force meanwhile bars the tool
          lent : BOOLEAN,      \* the delegator was let the tool meanwhile
          over : BOOLEAN]      \* halted before it, and ever since

\* MandateGate.latch_version, DelegatedGate.latch_version
LatchVersion(a) ==
    IF a = Boss THEN <<snap[a].ver>>
    ELSE <<snap[Boss].ver, scope[a].ver, snap[a].ver>>

\* A mandate or a scope that refuses the tool.
OutOfScope(tools, observing, tool) == tool \notin tools /\ ~observing

\* Does the version of snapshot s bar the tool: is the tool not in it, and was
\* that enforced at some time while it was in force?
Bars(s, tool) ==
    s # NoSnapshot /\ tool \notin s.m.tools /\ s.enforced

\* Could an agent with snapshot s use the tool?
Lets(s, tool) ==
    \/ s = NoSnapshot
    \/ /\ ~s.m.suspended
       /\ \/ ~OutOfScope(s.m.tools, s.m.observing, tool)
          \/ s.m.approval[tool] = "approved"
          \/ ~s.m.closed

-----------------------------------------------------------------------------
(* MandateGate.decide *)

Budgeted(within) == IF within THEN "run" ELSE "deny"
Unevaluable(closed) == IF closed THEN "deny" ELSE "run"

Judge(s, old, tool, within) ==
    IF s = NoSnapshot THEN Unevaluable(DefaultClosed)
    ELSE IF s.m.suspended THEN "deny"
    ELSE IF s.m.reassess
         THEN IF s.m.closed THEN "deny" ELSE Budgeted(within)
    ELSE IF old THEN Unevaluable(s.m.closed)
    ELSE IF s.m.approval[tool] = "approved" THEN Budgeted(within)
    ELSE IF s.m.approval[tool] = "denied" THEN "deny"
    ELSE IF s.m.approval[tool] = "pending" THEN "park"
    ELSE IF tool \in s.m.tools \/ s.m.observing THEN Budgeted(within)
    ELSE "out_of_scope"

\* DelegatedGate.decide's last step: the scope pinned at the hand-off.
Narrowed(verdict, s, tool) ==
    IF verdict # "run" \/ tool \in s.tools \/ s.observing THEN verdict
    ELSE "out_of_scope"

-----------------------------------------------------------------------------
(* DenialLatch; _attempts and _first, which always have the same keys, are *)
(* one table.                                                              *)

Put(f, k, v) == [x \in DOMAIN f \cup {k} |-> IF x = k THEN v ELSE f[x]]
Drop(f, Gone(_)) == Restrict(f, {k \in DOMAIN f : ~Gone(k)})

NewLatch == [runs |-> << >>, versions |-> << >>, denied |-> << >>,
             halted |-> << >>]

\* Mutant: the halt goes, the buckets of the earlier version stay.
ForgetPrincipalMutant(l, r, a) ==
    [l EXCEPT !.halted = Drop(@, LAMBDA k : k = r /\ l.halted[k].agent = a)]

\* _forget_principal
ForgetPrincipal(l, r, a) ==
    [l EXCEPT
        !.denied = Drop(@, LAMBDA k : k[1] = r /\ k[2] = a),
        !.halted = Drop(@, LAMBDA k : k = r /\ l.halted[k].agent = a)]

\* _forget
Forget(l, r) ==
    [runs |-> RemoveFirst(l.runs, r),
     versions |-> Drop(l.versions, LAMBDA k : k[1] = r),
     denied |-> Drop(l.denied, LAMBDA k : k[1] = r),
     halted |-> Drop(l.halted, LAMBDA k : k = r)]

\* Mutant: a new version drops the buckets of every agent in the run.
ReconcileMutant(l, r, a, v) ==
    IF <<r, a>> \in DOMAIN l.versions /\ l.versions[<<r, a>>] # v
    THEN [Forget(l, r) EXCEPT !.versions = Put(l.versions, <<r, a>>, v)]
    ELSE [l EXCEPT !.versions = Put(@, <<r, a>>, v)]

\* _reconcile_version
Reconcile(l, r, a, v) ==
    LET kept == IF <<r, a>> \in DOMAIN l.versions /\ l.versions[<<r, a>>] # v
                THEN ForgetPrincipal(l, r, a) ELSE l
    IN  [kept EXCEPT !.versions = Put(@, <<r, a>>, v)]

\* _touch: r becomes the newest run; past the cap the oldest is forgotten.
Touch(l, r) ==
    LET moved == [l EXCEPT !.runs = Append(RemoveFirst(@, r), r)]
    IN  IF Len(moved.runs) > MaxRuns THEN Forget(moved, Head(moved.runs))
        ELSE moved

\* One more attempt, the first or a repeat, and the halt at the threshold.
Count(l, c) ==
    LET key == <<c.run, c.agent, c.tool>>
        n == IF key \in DOMAIN l.denied THEN l.denied[key] + 1 ELSE 1
    IN  [l EXCEPT !.denied = Put(@, key, n),
                  !.halted = IF n >= Threshold /\ c.run \notin DOMAIN @
                             THEN Put(@, c.run, [agent |-> c.agent,
                                                 tool |-> c.tool,
                                                 attempts |-> n])
                             ELSE @]

\* The calls, once the latch is l: a run that is no longer halted is not over.
Watched(cs, l) ==
    [t \in Threads |->
        IF cs[t] = NoCall THEN NoCall
        ELSE [cs[t] EXCEPT !.over = @ /\ cs[t].run \in DOMAIN l.halted]]

\* The latch becomes l and thread t goes on at pc.
Step(t, l, pc) ==
    /\ latch' = l
    /\ call' = Watched([call EXCEPT ![t].pc = pc], l)

-----------------------------------------------------------------------------
Init ==
    /\ snap = [a \in Agents |-> NoSnapshot]
    /\ scope = [a \in Subs |-> NoScope]
    /\ latch = NewLatch
    /\ call = [t \in Threads |-> NoCall]

\* refresh, apply_snapshot: one loop per gate, so snapshots arrive in the
\* order Coriqo made them.  A new version may say anything; under the same
\* version only the allowed tools stand.  The enforcement dial is the tenant's
\* and comes with every snapshot, like the status, the approvals and the flag
\* for reassessment.
Refresh(a, m, v) ==
    /\ v \in {snap[a].ver, snap[a].ver + 1} \ {0}
    /\ v = snap[a].ver => m.tools = snap[a].m.tools
    /\ snap' = [snap EXCEPT ![a] =
         [ver |-> v, m |-> m,
          enforced |-> ~m.observing \/ (v = snap[a].ver /\ snap[a].enforced)]]
    /\ call' = [t \in Threads |->
                  IF call[t] # NoCall /\ call[t].pc \notin Ended
                     /\ a \in {call[t].agent, Boss}
                  THEN [call[t] EXCEPT
                          !.outside = @ \/ Bars(snap'[a], call[t].tool),
                          !.lent = @ \/ (/\ a = Boss
                                         /\ call[t].agent \in Subs
                                         /\ Lets(snap'[a], call[t].tool))]
                  ELSE call[t]]
    /\ UNCHANGED <<scope, latch>>

\* delegated_gate, delegate: the scopes of both as they are now; a child
\* nobody has a mandate for is undeclared and gets the empty scope.
Delegate(s) ==
    /\ snap[Boss] # NoSnapshot
    /\ snap[Boss].m.delegates
    /\ scope' = [scope EXCEPT ![s] =
         [ver |-> snap[Boss].ver, observing |-> snap[Boss].m.observing,
          tools |-> IF snap[s] = NoSnapshot THEN {}
                    ELSE snap[Boss].m.tools \cap snap[s].m.tools]]
    /\ UNCHANGED <<snap, latch, call>>

-----------------------------------------------------------------------------
(* governed_tool._check *)

\* A tool is called: the run and the agent are resolved, the version read.
Begin(t, r, a, tool) ==
    /\ call[t] = NoCall
    /\ a \in Subs => scope[a] # NoScope
    /\ call' = [call EXCEPT ![t] =
         [pc |-> "check", run |-> r, agent |-> a, tool |-> tool,
          scope |-> IF a = Boss THEN NoScope ELSE scope[a],
          ver |-> LatchVersion(a), verdict |-> "none",
          outside |-> \E b \in {a, Boss} : Bars(snap[b], tool),
          lent |-> a \in Subs /\ Lets(snap[Boss], tool),
          over |-> r \in DOMAIN latch.halted]]
    /\ UNCHANGED <<gates, latch>>

\* DenialLatch.check: a halted run refuses every tool, a tool denied before
\* is refused again and counted, anything else is for the gate.
Check(t) ==
    LET c == call[t]
        l == Reconcile(latch, c.run, c.agent, c.ver)
    IN  /\ c.pc = "check"
        /\ IF c.run \in DOMAIN l.halted
           THEN Step(t, Touch(l, c.run), "halted")
           ELSE IF <<c.run, c.agent, c.tool>> \in DOMAIN l.denied
           THEN Step(t, Touch(Count(l, c), c.run), "repeat")
           ELSE Step(t, l, IF c.agent = Boss THEN "decide" ELSE "upstream")
        /\ UNCHANGED gates

\* What _check does with a verdict.  Only a Deny stops the call: anything
\* else, a RequireApproval too, is returned and the wrapper runs the tool.
\* A denial that is not about scope goes through the latch unremembered.
Consequence(verdict) ==
    CASE verdict \in {"run", "park"} -> "ran"
      [] verdict = "deny" -> "refused"
      [] verdict = "out_of_scope" -> "record"

\* Mutant: the scope pinned at the hand-off stands for the delegator.
UpstreamMutant(t, old, within) ==
    /\ call[t].pc = "upstream"
    /\ call' = [call EXCEPT ![t].verdict = "run", ![t].pc = "decide"]
    /\ UNCHANGED <<gates, latch>>

\* DelegatedGate.decide asks the delegator's live gate first.
Upstream(t, old, within) ==
    LET v == Judge(snap[Boss], old, call[t].tool, within)
    IN  /\ call[t].pc = "upstream"
        /\ call' = [call EXCEPT ![t].verdict = v,
                                ![t].pc = IF v = "run" THEN "decide"
                                          ELSE Consequence(v)]
        /\ UNCHANGED <<gates, latch>>

\* Then, or for an agent of its own at once, the agent's own gate.
Decide(t, old, within) ==
    LET c == call[t]
        own == Judge(snap[c.agent], old, c.tool, within)
        v == IF c.agent = Boss THEN own ELSE Narrowed(own, c.scope, c.tool)
    IN  /\ c.pc = "decide"
        /\ call' = [call EXCEPT ![t].verdict = v, ![t].pc = Consequence(v)]
        /\ UNCHANGED <<gates, latch>>

\* DenialLatch.record, with the version read before the gate decided.
Record(t) ==
    LET c == call[t]
        n == Count(Reconcile(latch, c.run, c.agent, c.ver), c)
    IN  /\ c.pc = "record"
        /\ Step(t, Touch(n, c.run), "refused")
        /\ UNCHANGED gates

\* The wrapper: the tool's own result, or the denial raised.
Return(t) ==
    /\ call[t].pc \in Ended
    /\ call' = [call EXCEPT ![t] = NoCall]
    /\ UNCHANGED <<gates, latch>>

\* DenialLatch.reset: a supervisor forgets one run, or all.
Reset(which) ==
    /\ latch' = IF which = Runs THEN NewLatch
                ELSE Forget(latch, CHOOSE r \in which : TRUE)
    /\ call' = Watched(call, latch')
    /\ UNCHANGED gates

-----------------------------------------------------------------------------
CallStep(t) ==
    \/ Check(t)
    \/ \E old, within \in BOOLEAN : Upstream(t, old, within) \/ Decide(t, old, within)
    \/ Record(t)
    \/ Return(t)

Next ==
    \/ \E a \in Agents : \E m \in Mandates[a], v \in 1..MaxVersion[a] : Refresh(a, m, v)
    \/ \E s \in Subs : Delegate(s)
    \/ \E t \in Threads, r \in Runs, a \in Agents, tool \in Tools :
         Begin(t, r, a, tool)
    \/ \E t \in Threads : CallStep(t)
    \/ \E which \in {{r} : r \in Runs} \cup {Runs} : Reset(which)

Spec == Init /\ [][Next]_vars

-----------------------------------------------------------------------------
(* Properties *)

\* Every variable keeps its type, and the latch remembers at most max_runs
\* runs (denial_latch.py DEFAULT_MAX_RUNS).
TypeOK ==
    /\ \A a \in Agents : snap[a] \in SnapshotsOf(a)
    /\ scope \in [Subs -> Scopes]
    /\ \A t \in Threads : call[t] = NoCall \/ call[t] \in Calls
    /\ latch.runs \in Seq(Runs)
    /\ Len(latch.runs) <= MaxRuns
    /\ DOMAIN latch.versions \subseteq Runs \X Agents
    /\ DOMAIN latch.denied \subseteq Runs \X Agents \X Tools
    /\ DOMAIN latch.halted \subseteq Runs

\* denial_latch.py _forget, _touch, _forget_principal: no bucket and no halt
\* outlives its run's place in the latch, and "only if a halt outlives its
\* cause" never happens: the denials that halted a run are still on record.
HaltHasCause ==
    /\ \A k \in DOMAIN latch.denied : k[1] \in Range(latch.runs)
    /\ \A r \in DOMAIN latch.halted :
         LET h == latch.halted[r]
         IN  /\ h.attempts >= Threshold
             /\ <<r, h.agent, h.tool>> \in DOMAIN latch.denied
             /\ latch.denied[<<r, h.agent, h.tool>>] >= h.attempts

\* Is the refusal of c from memory right?  Some mandate version that c was
\* answerable to while under way, or the scope it runs under, bars the tool.
Justified(c) ==
    \/ c.outside
    \/ /\ c.agent \in Subs
       /\ OutOfScope(c.scope.tools, c.scope.observing, c.tool)

\* denial_latch.py _reconcile_version: "the latch's licence to refuse without
\* re-evaluating is that the answer cannot have changed".  Memory refuses an
\* agent that works under its own mandate only a tool that a mandate version
\* in force during the call does not list, and only if that version was
\* enforced at some time: a version that was observed all along is never
\* enforced from memory, and neither is one that the call never ran under.
\* (Nothing stronger holds: the dial is no part of the version, so memory goes
\* on refusing after the dial was turned to observe.)  And every halt has its
\* cause on record.
LatchIsJust ==
    /\ HaltHasCause
    /\ \A t \in Threads :
         call[t].pc = "repeat" /\ call[t].agent = Boss => Justified(call[t])

\* CONFIGURATION.md, denial_latch.py check: in a halted run "every subsequent
\* call, including tools that were in scope all along" is refused, whichever
\* agent of the run makes it.  delegation.py DelegatedGate: "whatever stops the
\* parent stops the child".  So no tool runs in a run that was halted before
\* the call and ever since, and a sub-agent's runs only if its delegator was
\* allowed it at some point of the call and it is within the scope handed
\* over.  (Calls parked for approval are ParkedCallsDoNotRun's subject.)
WhatRunsWasLet ==
    \A t \in Threads : call[t].pc = "ran" =>
        /\ ~call[t].over
        /\ call[t].agent \in Subs /\ call[t].verdict = "run" =>
             /\ call[t].lent
             /\ ~OutOfScope(call[t].scope.tools, call[t].scope.observing, call[t].tool)

\* Run r's halt is lifted by an operator, or because r is the oldest of
\* max_runs runs and a newer one needs its place.
Dismissed(r) ==
    /\ r \notin Range(latch'.runs)
    /\ \/ \A t \in Threads : call'[t].pc = call[t].pc
       \/ Head(latch.runs) = r /\ Len(latch'.runs) = MaxRuns

\* denial_latch.py _reconcile_version: otherwise a halt ends only with a call
\* of the agent that caused it, under another mandate version; "one agent's
\* new mandate says nothing about what another agent did".
HaltEndsWithItsCause ==
    [][ \A r \in DOMAIN latch.halted \ DOMAIN latch'.halted :
          LET a == latch.halted[r].agent
          IN  Dismissed(r) \/ latch'.versions[<<r, a>>] # latch.versions[<<r, a>>]
      ]_vars

\* mandate.py RequireApproval, CONFIGURATION.md: a tool that needs approval
\* is "denied FOR NOW": a call parked for approval does not run.
ParkedCallsDoNotRun ==
    \A t \in Threads : call[t].pc = "ran" => call[t].verdict # "park"
=============================================================================

------------------------------ MODULE Budgets ------------------------------
(***************************************************************************)
(* The budgets of a mandate (recorder/mandate.py _check_budgets): calls a  *)
(* minute, steps of a trajectory and what it may cost.  decide reads the   *)
(* snapshot and the clock first; the budgets are checked and charged later *)
(* and under the lock, by any number of threads, and only for a call that  *)
(* nothing else refuses.  Costs are told afterwards.  What the gate knows  *)
(* of trajectories is bounded: the least recently seen is forgotten.       *)
(***************************************************************************)
EXTENDS Integers, FiniteSets, SequencesExt

CONSTANTS
    Callers,        \* threads in decide
    Trajectories,
    Proposed,       \* ProposedAction: [trajectory, step]
    Ceilings,       \* what a snapshot may say: [calls, steps, cost]
    None,           \* no trajectory, no step index, no ceiling
    MaxTracked,     \* _MAX_TRACKED_TRAJECTORIES
    RateWindow,     \* _CALL_RATE_WINDOW_S
    MaxNow, MaxPermits, MaxSpent        \* bounds of the model

ASSUME BudgetsAssumption ==
    /\ None \notin Trajectories /\ MaxTracked \in Nat \ {0} /\ RateWindow \in Nat
    /\ \A p \in Proposed : p.trajectory \in Trajectories \cup {None}
    /\ None \notin Nat /\ Ceilings \subseteq [calls : Nat \cup {None},
                                             steps : Nat \cup {None}, cost : Nat \cup {None}]
    /\ MaxNow \in Nat /\ MaxPermits \in Nat /\ MaxSpent \in Nat

VARIABLES
    now,        \* the clock
    ceiling,    \* the snapshot's budgets
    deciding,   \* caller -> the decision it is in
    calls,      \* _call_timestamps
    steps,      \* _trajectory_steps, an OrderedDict
    costs,      \* _trajectory_costs, an OrderedDict
    permits,    \* history: when each permitted call read the clock
    taken,      \* history: the steps permitted, per trajectory
    spent,      \* history: the cost told, per trajectory
    seen,       \* history: trajectories, by when they were last marked
    lost        \* history: those that were not among the MaxTracked latest once

tracked == <<calls, steps, costs>>
history == <<permits, taken, spent, seen, lost>>
budgetVars == <<now, ceiling, deciding, tracked, history>>

NotDeciding == [pc |-> "idle"]
NoneTracked(zero) == [order |-> <<>>, of |-> [t \in Trajectories |-> zero]]

BudgetsInit ==
    /\ now = 0 /\ ceiling \in Ceilings
    /\ deciding = [c \in Callers |-> NotDeciding]
    /\ calls = <<>> /\ steps = NoneTracked({}) /\ costs = NoneTracked(0)
    /\ permits = <<>> /\ taken = [t \in Trajectories |-> {}]
    /\ spent = [t \in Trajectories |-> 0] /\ seen = <<>> /\ lost = {}

Tick ==
    /\ now < MaxNow /\ now' = now + 1
    /\ UNCHANGED <<ceiling, deciding, tracked, history>>

\* apply_snapshot: another snapshot; what was counted stays.
ApplySnapshot(c) ==
    /\ c # ceiling /\ ceiling' = c
    /\ UNCHANGED <<now, deciding, tracked, history>>

\* decide, up to where it would permit the call.
StartDecide(c, action) ==
    /\ deciding[c] = NotDeciding
    /\ deciding' = [deciding EXCEPT ![c] =
                        [pc |-> "budgets", action |-> action, ceiling |-> ceiling, now |-> now]]
    /\ UNCHANGED <<now, ceiling, tracked, history>>

-----------------------------------------------------------------------------
(* The two OrderedDicts.                                                   *)

Tracks(d, t) == t \in Range(d.order)
MoveToEnd(d, t) == IF Tracks(d, t) THEN [d EXCEPT !.order = Append(RemoveFirst(@, t), t)] ELSE d
PopOldest(d, zero) == [order |-> Tail(d.order), of |-> [d.of EXCEPT ![Head(d.order)] = zero]]
Set(d, t, v) ==
    [order |-> IF Tracks(d, t) THEN d.order ELSE Append(d.order, t),
     of |-> [d.of EXCEPT ![t] = v]]

\* Mutant: a trajectory that is seen again keeps its place in the queue.
MarkSeenInPlace(d, t, zero) ==
    IF Len(d.order) >= MaxTracked /\ ~Tracks(d, t) THEN PopOldest(d, zero) ELSE d

\* _mark_trajectory_seen, for one of them: an old trajectory makes room even
\* when t is not put there.
MarkSeen(d, t, zero) ==
    IF Len(d.order) >= MaxTracked /\ ~Tracks(d, t) THEN PopOldest(d, zero)
    ELSE MoveToEnd(d, t)

\* history: t is the latest; whoever is not among the MaxTracked latest now.
SeenNow(t) == Append(RemoveFirst(seen, t), t)
LostNow(t) ==
    LET s == SeenNow(t) IN lost \cup {s[i] : i \in 1..(Len(s) - MaxTracked)}

-----------------------------------------------------------------------------
(* _check_budgets                                                          *)

\* The timestamps that are left once the head of the queue is in the window.
Pruned(c, at) ==
    IF c.calls = None THEN calls
    ELSE LET i == SelectInSeq(calls, LAMBDA ts : ts >= at - RateWindow)
         IN  IF i = 0 THEN <<>> ELSE SubSeq(calls, i, Len(calls))

OverRate(c, at) == c.calls # None /\ Len(Pruned(c, at)) >= c.calls

OverSteps(c, action) ==
    /\ c.steps # None /\ action.step # None
    /\ action.step \notin steps.of[action.trajectory]
    /\ Cardinality(steps.of[action.trajectory]) >= c.steps

OverCost(c, action) == c.cost # None /\ costs.of[action.trajectory] >= c.cost

OverBudget(d) ==
    \/ OverRate(d.ceiling, d.now)
    \/ /\ d.action.trajectory # None
       /\ OverSteps(d.ceiling, d.action) \/ OverCost(d.ceiling, d.action)

\* A terminal Deny: nothing is charged.
DenyOverBudget(c) ==
    /\ deciding[c] # NotDeciding /\ OverBudget(deciding[c])
    /\ calls' = Pruned(deciding[c].ceiling, deciding[c].now)
    /\ deciding' = [deciding EXCEPT ![c] = NotDeciding]
    /\ UNCHANGED <<now, ceiling, steps, costs, history>>

\* Charged under the same lock; a call with no step is not in a trajectory.
Permit(c) ==
    /\ deciding[c] # NotDeciding /\ ~OverBudget(deciding[c]) /\ Len(permits) < MaxPermits
    /\ LET d == deciding[c]
           t == d.action.trajectory
           step == d.action.step
       IN  /\ calls' = Append(Pruned(d.ceiling, d.now), d.now)
           /\ permits' = Append(permits, d.now)
           /\ IF t = None \/ step = None
              THEN UNCHANGED <<steps, costs, taken, seen, lost>>
              ELSE /\ steps' = Set(MarkSeen(steps, t, {}), t, steps.of[t] \cup {step})
                   /\ costs' = MarkSeen(costs, t, 0)
                   /\ taken' = [taken EXCEPT ![t] = @ \cup {step}]
                   /\ seen' = SeenNow(t) /\ lost' = LostNow(t)
    /\ deciding' = [deciding EXCEPT ![c] = NotDeciding]
    /\ UNCHANGED <<now, ceiling, spent>>

\* record_actual_cost
RecordActualCost(t) ==
    /\ spent[t] < MaxSpent
    /\ steps' = MarkSeen(steps, t, {})
    /\ costs' = Set(MarkSeen(costs, t, 0), t, costs.of[t] + 1)
    /\ spent' = [spent EXCEPT ![t] = @ + 1]
    /\ seen' = SeenNow(t) /\ lost' = LostNow(t)
    /\ UNCHANGED <<now, ceiling, deciding, calls, permits, taken>>

BudgetsNext ==
    \/ Tick
    \/ \E c \in Ceilings : ApplySnapshot(c)
    \/ \E c \in Callers :
         \/ \E action \in Proposed : StartDecide(c, action)
         \/ DenyOverBudget(c)
         \/ Permit(c)
    \/ \E t \in Trajectories : RecordActualCost(t)

BudgetsSpec == BudgetsInit /\ [][BudgetsNext]_budgetVars

-----------------------------------------------------------------------------
(* Properties.                                                             *)

\* mandate.py _check_budgets, _mark_trajectory_seen: no call is permitted
\* that has, by the budgets it was decided under, as many permitted calls as
\* its ceiling in the window that ends when it is permitted, whichever thread
\* read the clock first; nor one that is a step too many of its trajectory,
\* or after the trajectory has spent its cost, as long as the trajectory was
\* always among the MaxTracked most recently seen.
BudgetsHold ==
    [][\A c \in Callers :
         permits' # permits /\ deciding'[c] # deciding[c] =>
           LET d == deciding[c]
               t == d.action.trajectory
           IN  /\ d.ceiling.calls # None =>
                    Cardinality({i \in DOMAIN permits : permits[i] >= now - RateWindow})
                      < d.ceiling.calls
               /\ t # None /\ t \notin lost =>
                    /\ \/ d.ceiling.steps = None \/ d.action.step = None
                       \/ Cardinality(taken[t] \cup {d.action.step}) <= d.ceiling.steps
                       \/ d.action.step \in taken[t]
                    /\ d.ceiling.cost # None => spent[t] < d.ceiling.cost
      ]_budgetVars
=============================================================================

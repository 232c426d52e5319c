------------------------------- MODULE MCGate -------------------------------
(* Gate and Budgets for TLC.  Of Gate: two runs, two tools, and in a        *)
(* behaviour either an agent and its sub-agent calling in turn in one run,  *)
(* or one agent calling from two threads.  Of Budgets: two threads in one   *)
(* trajectory while time passes, or one and more trajectories than the gate *)
(* keeps.                                                                   *)
EXTENDS Gate, Budgets

CONSTANTS safe, risky, t1, t2, t3

MCTools == {safe, risky}

\* A mandate with this scope; nothing else is unusual about it.
Plain(tools) ==
    [tools |-> tools, observing |-> FALSE, approval |-> [t \in MCTools |-> "no"],
     suspended |-> FALSE, reassess |-> FALSE, closed |-> TRUE, delegates |-> TRUE]

Full == Plain(MCTools)
Less == Plain({safe})

\* The agent may have everything, or less, be suspended, have a human's
\* approval for the risky tool, or be flagged for reassessment; the sub-agent
\* has everything of its own, or has less and is observed.
MCMandates ==
    [a \in {Boss} \cup Subs |->
        IF a = Boss
        THEN {Full, Less, [Full EXCEPT !.suspended = TRUE],
              [Less EXCEPT !.approval[risky] = "approved"],
              [Less EXCEPT !.reassess = TRUE, !.closed = FALSE]}
        ELSE {Full, [Less EXCEPT !.observing = TRUE]}]

\* Between threads only the scope and the dial matter; a tool may wait for
\* approval.
MCScopes == [a \in {Boss} \cup Subs |->
                {Full, Less, [Less EXCEPT !.observing = TRUE],
                 [Less EXCEPT !.approval[risky] = "pending"]}]

\* Everything a snapshot may say in one part or the other.
MCAllMandates == [a \in {Boss} \cup Subs |-> MCMandates[a] \cup MCScopes[a]]

\* Versions per agent.
TwoEach == [a \in {Boss} \cup Subs |-> 2]

VARIABLE part

Says(mandates) == \A a \in Agents : snap[a] = NoSnapshot \/ snap[a].m \in mandates[a]

\* The runs that are calling or that the latch knows.
RunsSeen == {call[t].run : t \in {u \in Threads : call[u] # NoCall}} \cup
            {k[1] : k \in DOMAIN latch.versions}

\* One call at a time, in one run, of the agent or its sub-agent.
Delegating ==
    /\ Cardinality({t \in Threads : call[t] # NoCall}) <= 1
    /\ Cardinality(RunsSeen) <= 1
    /\ Says(MCMandates)

\* Calls of the agent alone, side by side.
Threading ==
    /\ \A s \in Subs : snap[s] = NoSnapshot /\ scope[s] = NoScope
    /\ Says(MCScopes)

Ceiling(perMinute, runSteps, runCost) ==
    [calls |-> perMinute, steps |-> runSteps, cost |-> runCost]
MCCeilings == {Ceiling(None, None, None), Ceiling(2, 1, None), Ceiling(None, 1, 1)}

Call(t, step) == [trajectory |-> t, step |-> step]
MCProposed == {Call(t1, 1), Call(t1, 2), Call(t2, 1), Call(None, None)}

\* The rate, in one trajectory that has no costs.
Rating ==
    /\ Range(seen) \subseteq {t1} /\ \A t \in Trajectories : spent[t] = 0
    /\ \A c \in Callers : deciding[c] = NotDeciding \/ deciding[c].action # Call(t2, 1)
    /\ ceiling.cost = None

\* Trajectories come and go; one thread, and no time passes.
Tracking ==
    /\ now = 0 /\ ceiling.calls = None
    /\ Cardinality({c \in Callers : deciding[c] # NotDeciding}) <= 1

MCInit ==
    /\ Init /\ BudgetsInit
    /\ part \in {"delegating", "threading", "rate", "trajectories"}
    /\ part \in {"delegating", "threading"} => ceiling = Ceiling(None, None, None)
    /\ part = "trajectories" => Tracking
    /\ part = "rate" => Rating
MCNext ==
    /\ UNCHANGED part
    /\ \/ /\ part = "delegating" /\ Next /\ Delegating'
          /\ UNCHANGED budgetVars
       \/ /\ part = "threading" /\ Next /\ Threading'
          /\ UNCHANGED budgetVars
       \/ /\ part = "rate" /\ BudgetsNext /\ Rating'
          /\ UNCHANGED vars
       \/ /\ part = "trajectories" /\ BudgetsNext /\ Tracking'
          /\ UNCHANGED vars
MCSpec == MCInit /\ [][MCNext]_<<vars, budgetVars, part>>

Symmetry == Permutations(Threads) \cup Permutations(Runs) \cup Permutations(Callers)
=============================================================================

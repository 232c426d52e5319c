-------------------------- MODULE MCShieldManaged --------------------------
(* What a managed Shield is told (its policy) and what it tells (its seals  *)
(* and its events).  The two share no state, so a behaviour exercises one;  *)
(* sharing begins at the level "events", which the policy then changes.     *)
EXTENDS ShieldPolicy, ShieldSync

VARIABLE part

MCAdmin == {[mode |-> "block", keep_text |-> FALSE, locked |-> {"mode"}],
            [mode |-> "observe", keep_text |-> TRUE, locked |-> {"mode", "keep_text"}]}
MCEdits == {[mode |-> "observe", acknowledge |-> TRUE], [keep_text |-> FALSE],
            [actions |-> [secret |-> "block", pii |-> "warn", flag |-> "log"]]}

MCInit ==
    /\ part \in {"policy", "sync"}
    /\ PolicyInit /\ Init
    /\ level = IF part = "policy" THEN "seal" ELSE "events"
MCNext ==
    /\ UNCHANGED part
    /\ \/ part = "policy" /\ PolicyNext /\ UNCHANGED vars
       \/ part = "sync" /\ Next /\ UNCHANGED pvars

\* SyncTick is never enabled in Shield's first state with the level "seal", and
\* no policy is polled before there is one: each part's fairness asks nothing of
\* the other.
MCSpec ==
    /\ MCInit /\ [][MCNext]_<<part, pvars, vars>>
    /\ PolicyFairness /\ SyncFairness
=============================================================================

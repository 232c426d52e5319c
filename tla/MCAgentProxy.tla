---------------------------- MODULE MCAgentProxy ----------------------------
(* AgentProxy with environments and requests picked for what they differ in. *)
EXTENDS AgentProxy, TLC

CONSTANTS t1, t2

Symmetry == Permutations({t1, t2})

\* One gate, none, two of them, enforcement off, with the recorder strict,
\* lenient or off.
MCConfs ==
    {c \in ConfTypes :
        /\ c.strict => c.recorder
        /\ ~c.enforce => c.gates = 0 /\ c.closed /\ c.base
        /\ c.enforce => c.recorder
        /\ ~c.base => c.gates = 0 /\ c.closed
        /\ c.gates = 2 => c.closed
        /\ c.enforce => c.guard = "enforce"}

\* The routes, each with the bodies and verdicts that make it differ, and
\* messages of every kind.
MCAsks ==
    {a \in AskTypes :
        /\ ~a.token => a.route = "other" /\ a.body = "ok" /\ a.verdict = "allow"
        /\ a.body # "ok" => ~a.compat /\ ~a.result
        /\ a.body = "none" => a.verdict = "allow"
        /\ a.body = "bad" => a.verdict # "redact"
        /\ a.route # "messages" => ~a.stream /\ ~a.result /\ a.agent = "none"
        /\ a.route \in {"openai", "other"} => ~a.compat
        /\ a.route = "messages" /\ a.body # "ok" => ~a.stream /\ a.agent = "none"
        /\ a.verdict # "allow" => a.agent = "none" /\ ~a.stream
        /\ a.compat => ~a.result
        /\ a.agent # "none" => a.verdict = "allow" /\ a.result = ~a.compat}
=============================================================================

------------------------------ MODULE MCRuntime ------------------------------
(* Workers for TLC: two jobs that ask the same query of different models,    *)
(* and a stream that asks a similar one.                                     *)
EXTENDS Workers

CONSTANTS j1, j2, s1, q1, q2, sys, m1, m2, pa, pb

MCRequests == {j1, j2, s1}
MCReq ==
    (j1 :> [prompt |-> sys, query |-> q1, model |-> m1, session |-> FALSE, stream |-> FALSE])
    @@ (j2 :> [prompt |-> sys, query |-> q1, model |-> m2, session |-> FALSE, stream |-> FALSE])
    @@ (s1 :> [prompt |-> sys, query |-> q2, model |-> m1, session |-> FALSE, stream |-> TRUE])

MCProviders == <<pa, pb>>
MCAdapter == (pa :> "anthropic") @@ (pb :> "openai")

\* q1 and q2 are alike, but not the same.
MCScore == [pair \in {q1, q2} \X {q1, q2} |-> IF pair[1] = pair[2] THEN 2 ELSE 1]
=============================================================================

------------------------------ MODULE Workers ------------------------------
(***************************************************************************)
(* RuntimeWorker over RedisStreamQueue: jobs on a Redis stream read by a   *)
(* consumer group, executed through the Runtime of the worker's process,   *)
(* their results stored and the entries acknowledged.  Streaming requests  *)
(* come straight from a transport (SSE, WebSocket) to any running process. *)
(***************************************************************************)
EXTENDS Runtime

CONSTANTS
    Prefetch,       \* entries per XREADGROUP
    Concurrency,    \* jobs a worker has in flight
    MaxCrashes      \* bound on worker processes that die and are replaced

\* RedisStreamQueue takes max(1, prefetch).
ASSUME WorkersAssumption == Prefetch \in Nat \ {0}

VARIABLES
    queue,      \* the jobs stream: every job published, in order
    cursor,     \* the group's last-delivered position
    pending,    \* delivered, not acknowledged: job -> consumer
    buffer,     \* RedisStreamQueue._buffer per process
    inFlight,   \* RuntimeWorker._in_flight per process
    results,    \* jobs with a stored result
    undelivered,\* RuntimeWorker.errors: results that could not be stored or acked
    acked,      \* jobs acknowledged
    worker,     \* running, stopping, stopped
    crashes

wkvars == <<queue, cursor, pending, buffer, inFlight, results, undelivered, acked,
            worker, crashes>>
vars == <<rtvars, wkvars>>

Jobs == {r \in Requests : ~Req[r].stream}

Init ==
    /\ RtInit
    /\ queue = <<>> /\ cursor = 0
    /\ pending = <<>>
    /\ buffer = [p \in Procs |-> <<>>]
    /\ inFlight = [p \in Procs |-> {}]
    /\ results = {} /\ undelivered = {} /\ acked = {}
    /\ worker = [p \in Procs |-> "running"]
    /\ crashes = 0

\* RedisStreamQueue.publish: XADD.
Publish(j) ==
    /\ j \notin Range(queue)
    /\ queue' = Append(queue, j)
    /\ UNCHANGED <<rtvars, cursor, pending, buffer, inFlight, results, undelivered, acked,
                   worker, crashes>>

\* XREADGROUP ">": entries no consumer of the group has been given yet.
NewEntries ==
    SubSeq(queue, cursor + 1, IF cursor + Prefetch < Len(queue) THEN cursor + Prefetch
                              ELSE Len(queue))

\* What is left of a batch once its first entry is taken.
RestForgotten(batch) == <<>>
Rest(batch) == Tail(batch)

\* The loop of RuntimeWorker.run with a free permit: pop takes from the buffer,
\* or reads a batch into it, and the job's task is created and enters the
\* runtime (execute_payload).
Take(p) ==
    LET batch == IF buffer[p] # <<>> THEN buffer[p] ELSE NewEntries
        fresh == IF buffer[p] # <<>> THEN {} ELSE Range(NewEntries)
    IN  /\ worker[p] = "running"
        /\ Cardinality(inFlight[p]) < Concurrency
        /\ batch # <<>>
        /\ buffer' = [buffer EXCEPT ![p] = Rest(batch)]
        /\ cursor' = cursor + Cardinality(fresh)
        /\ pending' = [j \in fresh \cup DOMAIN pending |-> IF j \in fresh THEN p ELSE pending[j]]
        /\ inFlight' = [inFlight EXCEPT ![p] = @ \cup {Head(batch)}]
        /\ Enter(p, Head(batch))
        /\ UNCHANGED <<queue, results, undelivered, acked, worker, crashes>>

\* A transport (sse_stream, ws_reply) starts a streaming request.
StartStream(p, r) ==
    /\ r \notin Jobs
    /\ worker[p] = "running"
    /\ Enter(p, r)
    /\ UNCHANGED wkvars

Step(r) == RequestStep(r) /\ UNCHANGED wkvars

Hangup(r) == Disconnect(r) /\ UNCHANGED wkvars

Running(p, j) == j \in inFlight[p]
Release(p, j) == inFlight' = [inFlight EXCEPT ![p] = @ \ {j}]

\* _process after the execution, whatever came of it (a job that failed gets an
\* error result): push_result; when it fails, the permit is released and the
\* entry is left unacknowledged.
PushResult(p, j) ==
    /\ Running(p, j) /\ ctx[j].pc = "end" /\ j \notin results
    /\ \/ /\ results' = results \cup {j}
          /\ UNCHANGED <<faults, undelivered, inFlight>>
       \/ /\ Fault
          /\ undelivered' = undelivered \cup {j}
          /\ Release(p, j)
          /\ UNCHANGED results
    /\ UNCHANGED <<ctx, exact, semStream, mirror, lastId, rr, queue, cursor, pending,
                   buffer, acked, worker, crashes>>

\* _process: ack after push_result, then the permit is released.
Ack(p, j) ==
    /\ Running(p, j) /\ ctx[j].pc = "end" /\ j \in results
    /\ \/ /\ acked' = acked \cup {j}
          /\ pending' = [k \in DOMAIN pending \ {j} |-> pending[k]]
          /\ UNCHANGED <<faults, undelivered>>
       \/ /\ Fault
          /\ undelivered' = undelivered \cup {j}
          /\ UNCHANGED <<acked, pending>>
    /\ Release(p, j)
    /\ UNCHANGED <<ctx, exact, semStream, mirror, lastId, rr, queue, cursor, buffer,
                   results, worker, crashes>>

\* RuntimeWorker.stop.
Stop(p) ==
    /\ crashes < MaxCrashes
    /\ worker[p] = "running"
    /\ crashes' = crashes + 1
    /\ worker' = [worker EXCEPT ![p] = "stopping"]
    /\ UNCHANGED <<rtvars, queue, cursor, pending, buffer, inFlight, results, undelivered,
                   acked>>

\* run returns once nothing is in flight; what pop had prefetched stays in the
\* buffer of a process that reads no more.
Drained(p) ==
    /\ worker[p] = "stopping" /\ inFlight[p] = {}
    /\ worker' = [worker EXCEPT ![p] = "stopped"]
    /\ UNCHANGED <<rtvars, queue, cursor, pending, buffer, inFlight, results, undelivered,
                   acked, crashes>>

\* The process dies and its successor starts, a new consumer (the consumer's
\* name is random) with an empty mirror; the requests it ran are gone.
Crash(p) ==
    /\ crashes < MaxCrashes
    /\ worker[p] = "running"
    /\ crashes' = crashes + 1
    /\ ctx' = [r \in Requests |->
                  IF ctx[r].proc = p /\ ctx[r].pc # "end"
                  THEN Ended(ctx[r], "gone") ELSE ctx[r]]
    /\ buffer' = [buffer EXCEPT ![p] = <<>>]
    /\ inFlight' = [inFlight EXCEPT ![p] = {}]
    /\ mirror' = [mirror EXCEPT ![p] = EmptyMirror]
    /\ lastId' = [lastId EXCEPT ![p] = 0]
    /\ rr' = [rr EXCEPT ![p] = 0]
    /\ UNCHANGED <<exact, semStream, faults, queue, cursor, pending, results,
                   undelivered, acked, worker>>

Progress ==
    \/ \E p \in Procs : Take(p) \/ Drained(p)
    \/ \E p \in Procs, j \in Jobs : PushResult(p, j) \/ Ack(p, j)
    \/ \E r \in Requests : Step(r)

Next ==
    \/ Progress
    \/ \E j \in Jobs : Publish(j)
    \/ \E p \in Procs : Stop(p) \/ Crash(p)
    \/ \E p \in Procs, r \in Requests : StartStream(p, r)
    \/ \E r \in Requests : Hangup(r)

Spec == Init /\ [][Next]_vars

-----------------------------------------------------------------------------
(* Properties.                                                             *)

\* A caller gets the answer to its own question: a fresh or exactly cached
\* answer was given to the same prompt, history, query, model and options
\* (CacheLookup's key tells them apart), a semantic hit to a query at least as
\* similar as the threshold; and a cached answer is never the empty text of a
\* turn that only called tools.
AnswersTheRequest ==
    \A r \in Requests : ctx[r].outcome = "ok" =>
        LET c == ctx[r] IN
        /\ c.cached \in {Nothing, "exact"} => c.answer.asked = Asked(r)
        /\ c.cached = "semantic" => Similarity(Req[r].query, c.answer.asked.query) >= Threshold
        /\ c.cached # Nothing => c.answer.text

\* ProviderRouter.stream falls back only before any content, and
\* AllProvidersFailedError means it: the content a client receives in one
\* stream is one provider's, whatever fails when, and a request is reported
\* unavailable only when every provider has refused it for good or used up its
\* retries.
FallbackIsClean ==
    \A r \in Requests :
        /\ Cardinality(ctx[r].sent) <= 1
        /\ ctx[r].outcome = "unavailable" => ctx[r].spent = Provider

\* "At-least-once delivery", as far as it goes: a job leaves the group's pending
\* list only once read_result can find what came of it, and until then it is in
\* the buffer or in flight of the worker it was given to, or was reported
\* undelivered, as long as no worker died.  (Nothing claims a dead worker's
\* entries again.)
PendingIsHeld ==
    /\ acked \subseteq results
    /\ crashes = 0 => \A j \in DOMAIN pending :
           \/ j \in Range(buffer[pending[j]]) \cup inFlight[pending[j]]
           \/ j \in undelivered
=============================================================================

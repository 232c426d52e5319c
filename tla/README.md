# A TLA+ verification of byoai-runtime

byoai-runtime sits between AI agents and their providers and tools. It executes
requests through caches and a provider router, proxies agents to their model's API,
records what agents do in a hash-chained ledger, ships that evidence, decides against a
mandate whether a tool call may run, and, as *Shield*, watches and treats what people
send to AI apps. This directory models those parts in TLA+, checks them with TLC on small
instances and proves, with TLAPS, the safety properties of the ledger, the key directory,
the delivery and its streams, the gate and its budgets, the agent proxy, the verdict
outbox, the receipts, the runtime and its workers, and Shield's policies, record, seals and
sync for instances of any size. Paths below are relative to the repository's `src/byoai/`.

## The system

| Part | State | Operations | Hard because |
|---|---|---|---|
| `recorder/ledger.py` | SQLite tables `agent_events`, `checkpoints`, `sync_state`; in memory `_head`, `_next_seq`, `_pending_failures` | open/resume, `append`, `append_checkpoint`, `set_synced_up_to`, `close` | several `Ledger` objects on one file, stale heads, failed writes, crashes with `synchronous=NORMAL` |
| `recorder/checkpoint.py` | pending window | `note`, `flush`, `_emit` | called after the append's lock is released |
| `recorder/integration.py`, `extract.py` | one ledger, checkpointer, shipper thread; open blocks of a stream | `record`, `close`, stream hooks | several threads over the same objects; streams cut anywhere |
| `recorder/keys.py`, `rotation.py` | key files, staged key, marker, archives | load or create, `rotate_key`, `_finish_pending_rotation` | a sequence of file operations with no lock, crashes between any two |
| `recorder/verify.py`, `merkle.py`, `anchor.py` | none (offline) | walk the chain, rotations, checkpoints, receipts, bundles, proofs | must accept all an honest device can write, and nothing else |
| `recorder/shipper.py`, `attestation.py`, `ingest/store.py` | three watermarks; `enrolments`, `entries`, `checkpoints`, `device_state` | `ship_once`, `ship_checkpoints_once`, `ship_attestations_once`, enrol, revoke, `accept_batch`, `accept_checkpoints` | lost, late and repeated requests, restarts, a summary outside the transaction, several shippers on one file |
| `recorder/mandate.py`, `delegation.py`, `denial_latch.py`, `governed_tool.py` | snapshot, budgets, pinned scope, runs, attempts, halts | `decide`, `refresh`, `delegate`, `check`, `record`, `reset` | decisions race with refreshes; one latch for all threads |
| `recorder/verdicts.py`, `coriqo_async.py` | outbox file | `record`, `claim`, `ship_once` | several processes, retries under one key |
| `recorder/coriqo_agents.py`, `receipts.py` | receipt rows | `publish_session`, fetch receipts | partial progress, swallowed and altered traces |
| `agent_context_cache/main.py`, `openai_compat.py`, `recorder/proxy_gate.py` | a request, its frames, held blocks | messages endpoint, `enforce_response_body`, `SseEnforcer`, translation | tool calls in fragments, cut streams, a latch that moves |
| `runtime.py`, `pipeline.py`, `stages.py`, `providers/`, `cache/` | request context, exact cache, semantic stream and mirror, round-robin cursor | `execute`, `stream`, lookup, write back, retry, fallback | awaits between lookup and write, failures at every call |
| `workers.py`, `transport.py` | job stream, consumer group, results | submit, prefetch, process, acknowledge, shut down | acknowledgement against death and cancellation |
| `integrations/shield.py`, `browser_extension/` | ledger file, offset, seal log, state file, browser queue, witness | ingest, poll, scan, scrub, flush | threads over one offset, kills in the middle of a line, answers out of order |
| `shield_server/`, `integrations/shield_publish.py`, `shield_sync.py`, `shield_proxy.py`, `shield_guard/` | policy rows, held policy, event outbox, gap | write, release and poll policies, send seals and events, treat a message | versions that must only grow, lost answers, capped queues |
| `console/`, `cli.py`, `integrations/shield_console.py`, framework adapters | none of their own | presentation, forwarding | not hard |

How they meet: `Recorder.record` calls `Ledger.append` and then `Checkpointer.note`;
a verdict thread appends to the same `Ledger` without noting; the rotation CLI opens
a second `Ledger` on the same file and replaces key files that the running recorder
loaded long ago; the shipper thread reads the ledger and moves its watermark by the
store's answer; the governed tool and the proxy ask latch and gate while the refresh loop
replaces the gate's snapshot; workers and transports run requests through one `Runtime`
per process and share Redis; the extension, the proxy and the console of Shield write the
file that its watcher seals, and its publisher sends the seals before the events.
`PROJECT.json` lists every component with what is left out of it, and under `hazards` the
places where this is hard to test.

## Modules

| Module | Models | Used by |
|---|---|---|
| `EvidenceLog` | what the ledger promises: append one new digest at the end, or lose a suffix | `Ledger` (refinement) |
| `Verify` | the verifier's judgement on a chain, as operators | `Ledger`, `Bundle` |
| `Ledger` | ledger, checkpointer, recorder | `MCLedger`, proofs |
| `LedgerProofs` | theorems about `Ledger` | |
| `KeyRotation` | key files, rotation CLI, the identity the verifier derives | `MCKeyRotation`, proofs |
| `KeyRotationProofs` | theorems about `KeyRotation` | |
| `Delivery` | shipper, network, ingest store | `MCDelivery`, proofs |
| `Streams` | checkpoint and attestation shipping, their watermarks, the store's checkpoints | `MCDelivery`, proofs |
| `DeliveryProofs` | theorems about `Delivery` and `Streams` | |
| `Gate` | mandate gate, delegation, denial latch, call path | `MCGate`, proofs |
| `Budgets` | the rate, step and cost budgets of a mandate | `MCGate`, proofs |
| `GateProofs` | theorems about `Gate` and `Budgets` | |
| `Runtime`; `Workers` (extends it) | the pipeline, caches and router; the job queue over them | `MCRuntime`, proofs |
| `RuntimeProofs` | theorems about `Runtime` and `Workers` | |
| `AgentProxy` | the agent proxy with guard, recorder hooks and gate | `MCAgentProxy`, proofs |
| `SealChain`; `ShieldFeed`; `ShieldBrowser` (each extends the one before) | seal log and state file; ledger file, feed and threads; extension and endpoint | `MCShield`, proofs |
| `ShieldPolicy` | policy server, polling, settings, what is done to a message | `MCShieldManaged`, proofs |
| `ShieldProofs` | theorems about `ShieldPolicy` and `ShieldBrowser` | |
| `ShieldSync` | seal heads and event batches to Coriqo | `MCShieldManaged`, proofs |
| `SyncProofs` | theorems about `ShieldSync` | |
| `Conversation`, `WireBody` | the messages of a request; request bodies of the agent proxy | `MCExchange` |
| `Verdicts`, `Sessions` | the verdict outbox and its shippers; published sessions and receipts | `MCExchange`, proofs |
| `ExchangeProofs` | theorems about `Verdicts`, `Sessions` and `AgentProxy` | |
| `Merkle`; `Bundle` (extends it and `Verify`) | epoch trees and proofs; the check of an export bundle | `MCExchange` |

### Ledger

A writer is one `Ledger` object. `BeginAppend` takes `_lock`; the append then goes
through the steps another process can get between: the INSERT with its COMMIT
(`CommitRow`; an IntegrityError is `Collide`), the re-read of the head outside any
transaction (`Resync`) and the second attempt (`CollideAgain` when it fails too). A
pending failure makes the append write its `record_failure` marker first, by the same
steps. `WriteFault` is any other SQLite error. `Note` is `Checkpointer.note` with the
emit it may trigger (the count, or `every_seconds` at any time), a failed emit
included; `Checkpointer.tick` has no caller and would be the same emit. `Close` is
`Recorder.close`. `Crash` ends a process; `OSCrash` ends the machine and keeps a prefix
of the committed transactions (WAL with `synchronous=NORMAL`), so `txns` numbers them.
`fate` remembers what each event's caller was told. SHA-256 is an injective
constructor: a hash is the history it commits to. `Emit` reads the head and inserts
the checkpoint in one step; a row committed in between would only give the checkpoint
a later transaction number.

### KeyRotation

`live`, `livePub`, `pendPriv`, `pendPub`, `marker` and `archive` are the files; each
`os.replace`, copy, write and unlink is a step. `chain` keeps what the verifier's walk
knows after each entry (active identity, rotations, whether one looked forged), so an
OS crash can take entries back. The key directory has no lock. Rather than forbid what
the code does not, `mishaps` remembers four events: two processes inside at once
(`overlap`), a crash between the KEY_ROTATED append and the marker (`window`), an
OS crash that lost entries (`tail`), and a key staged under a marker that two failed
unlinks have left over (`stale`); each property says which of them it survives.
`shutil.copy2` does not sync: a process that dies in it may leave an empty file, which
makes the next attempt choose the next suffix, and an OS crash may empty or cut the copies
that had not been written out (`unsynced`, `torn`). Files written by `atomic_write_bytes`
are synced; a rename is taken to last, though the directory is not synced.

### Delivery

The device appends entries, ships batches and restarts; the rotation CLI appends
KEY_ROTATED and changes the key on disk. A request may be lost, or served after the
client has given up (`live` says whether anybody waits). The store either refuses
(`Refuse`, with ROLLBACK) or commits and then updates `device_state` in a second step,
where a crash may come in between. An entry's hash is its seq and the number of OS
crashes before it: a seq written twice has two hashes.

### Streams

Two recorder processes on one ledger file, each with its checkpointer's window and its
shipper thread. `Capture` is `Recorder.record` with its `note`; `AppendVerdict` appends
without noting. A pass reads the unsynced checkpoints (`ReadCheckpoints`), posts them
(`StoreCheckpoints`, `PostFails`), moves the watermark short of the first rejected one
(`ReceiveCheckpointAnswer`), reads the checkpoints that wait for attestation
(`ReadPending`) and sends one envelope per agent and checkpoint (`Attest`,
`AttestFails`) before it moves the other watermark (`AttestationDone`). An error at any
point ends the pass. An envelope is its agent and the seqs of its verdicts, which is what
its chain head tells apart. The compare and the write of a watermark are one step.

### Gate

A call reads the latch version (`Begin`), asks the latch (`Check`), the delegator's gate
(`Upstream`, for a sub-agent), its own gate with the pinned scope (`Decide`) and tells
the latch of a scope denial (`Record`). `Refresh` may replace a snapshot in between.
Staleness and budgets are choices at the decision (`Budgets` has the latter). Under one
`mandate_version_id` only `allowed_tools` stand (assumed of Coriqo, which is not in this
repository): the status, the approvals and the enforcement dial, which is the tenant's, come
with every snapshot and may change while the latch holds what it holds. `enforced` is a
history kept with the snapshot: was this version ever enforced? Refresh and apply are one
step because one loop per gate does both.

### Budgets

`StartDecide` is where `decide` reads the snapshot and the clock, `DenyOverBudget` and
`Permit` are `_check_budgets` under the lock, for a call that nothing else refuses. The
two OrderedDicts are an order and a function; `MarkSeen` is `_mark_trajectory_seen` for
one of them. What really was permitted and spent is kept as history beside them.

### Runtime and Workers

A request is what the cache key tells apart, and a step is the code between two awaits
that touch shared state. `Enter` resolves the context; `LookupExact` and
`LookupSemantic`/`SyncAndFind` read the caches (a cache error is a miss); the call goes
around the router's ring with retries (`AfterError`, `AfterStreamError`); the answer is
written to both caches. The semantic mirror is per process: `_sync` reads the stream in
one step and replays it in the next; `Replay` says at once which slot of the ring each
entry of the reply gets. `Workers` adds the consumer group: entries are
prefetched, executed through the process's `Runtime`, their results stored and then
acknowledged; a worker is stopped and drains, or dies. Similarity is a
table of scores; expiry by time is left out (an entry is there or was evicted).

### AgentProxy

One request of a session whose other calls reach it through the latch. The guard decides
what leaves; the recorder is told of results in the request and blocks in the answer;
the answer comes as a body or frame by frame. A chunk is one whole frame, or the last one
cut before the blank line that ends it (`source.cut`); a block's deltas travel with its
start. The upstream may interleave blocks, stop, fail or be cut, the agent may hang up, and a
row may fail to be written (lenient or strict). `Holds` is which frames `SseEnforcer` keeps
back, `RewriteStop` what becomes of `stop_reason`. At the end of a stream the gate drops what
it holds and returns the cut frame as it came (`client.tail`), and the extractor reads that
frame like any other (`CloseRows`). Left out are a frame cut within its data, which nobody
reads, frames parted by anything but `\n\n`, and a chunk of several frames, all of which
stay unfed when the agent hangs up on it.

### Shield

`SealChain` is the log with one sealed entry per line and the signed state file, written
in that order, so that a kill leaves a torn tail or a state behind the log. `ShieldFeed`
adds the ledger file and the feed's threads, which share one offset under `_poll_lock`
(the startup scan and the scrub's `resync` do not take it). `ShieldBrowser` adds the
extension: `chrome.storage` survives the worker, which may be killed in the middle of a
flush; two flushes may be under way. `ShieldPolicy` follows policy versions from the
administrator through the signed document to the device and the proxy; a release is two
writes. `ShieldSync` numbers events by their time and follows the publisher's state file
(outbox, gap, batch in flight, seen ids). Coriqo, on the other side, is external: it
stores a batch once per `batch_id`.

### The exchange modules

`Conversation` is `ContextResolver` over an application's history of alternating turns with
tool calls. The store may have lost a turn's calls, with its words or without, or left a
dictionary that is no message; it keeps the replies and their ids. `WireBody` is
`PromptCacheInjection` and `SessionDedup` or the OpenAI translation over a client's tool
conversation; a tool output is known by its size, ends and error lines. `Verdicts` is the
outbox that two processes claim from, `Sessions` is `publish_session` beside the receipt
store and its fetching thread, each against a Coriqo that may refuse, swallow or alter, with
requests and answers lost. `Merkle` builds trees and proofs and compares them with RFC
6962's definition. `Bundle` exports what a device recorded and lets up to three parts of it
get lost or be rewritten without any of the three keys before `VerifyBundle` judges it under
several sets of options.

## Runs

| Run | Bounds | Result |
|---|---|---|
| `ledger` | 2 writers (one strict), 3 events, 2 faults, 1 crash, checkpoint every 2 | `ChainVerifies`, `Accounted`, `CheckpointsOnChain`, `ImplementsLog`, `AppendTerminates` hold |
| `key_rotation` | 2 processes, not both inside at once, 3 keys, 2 failed unlinks, 2 crashes | `IdentityExplained`, `IdentityFollowsChain`, `KeyFilesKept`, `ConfirmedEndsLive` hold |
| `delivery` | batches of 2; either 3 entries of one identity, or 2 with a rotation and a revocation; 1 restart, OS crash and fault; or 4 rows of one recorder with 2 agents, or 3 of two recorders, with 1 death, refusal or loss | `WatermarkIsDelivered`, `HonestDeviceNotAccused`, `StreamsComplete`, `EvidenceImmutable`, `EventuallyShipped` hold |
| `gate` | threshold 2, `max_runs` 1, 2 versions each; either agent and sub-agent in one run, or one agent in 2 threads and 2 runs; or budgets: 2 threads, 3 permits, a window of 1 in 3 moments, or 3 trajectories where 2 are tracked | `WhatRunsWasLet`, `LatchIsJust`, `HaltEndsWithItsCause`, `BudgetsHold` hold |
| `runtime` | 1 process (replaced when it dies), 2 jobs and 1 stream, 2 providers, 1 retry, mirror of 2, 1 cache fault, 1 death | `AnswersTheRequest`, `FallbackIsClean`, `PendingIsHeld` hold |
| `shield_record` | 2 handlers, 2 flushes, 3 rows, queue and feed of 2, 1 kill or scrub of Shield, 1 killed worker or lost answer | `NoFalseAlarm`, `SealedWhenAnswered`, `RowsArriveOnce` hold |
| `shield_managed` | either 2 policies, 3 edits, 4 versions, 1 lost request; or 4 events, feed of 3, outbox and batches of 2, any level at first, 2 level changes, 2 faults | `NoDriftNoDifference`, `PolicyConverges`, `EventsAccounted`, `SealBeforeEvents`, `SyncDrains` hold |
| `capture` | 2 tools, messages of up to 2 blocks, threshold 2, every route, body and guard verdict, streams cut at or within a frame | `NothingUngatedReachesAgent`, `MessageIsWhole`, `EverythingTold` hold |
| `exchange` | 5 history items, windows 0, 2 and 9; 2 tool rounds, 4 outputs; 2 processes, 3 verdicts, batches of 1 or 2; a session of 3 steps; epochs of 8; 3 alterations of a bundle | `RequestIsValid`, `BodyKeepsItsMeaning`, `OutboxTellsTheTruth`, `VerdictsSettle`, `VerifiedMeansRecorded`, `ProofsAreSound`, `AcceptedMeansRecorded` hold |
| `checkpoints_verify` | as `ledger` | violated: see below |
| `parked_calls_do_not_run` | as `gate` | violated: see below |
| `managed_policy_binds` | as `shield_managed` | violated: see below |

Why the bounds are enough: two writers and three events let a writer collide, lose the retry
to the other writer, queue a failure and drain it; two processes and three keys let a
rotation be retried over an interrupted one, and two failed unlinks leave a marker to the
next key; three entries in batches of two give gaps, overlapping redelivery and a rewritten
tail; two versions with a threshold of two let a halt form, be met by a late call and be
lifted; `max_runs` 1 with two runs forces eviction; four rows hold a window with the
verdicts of two agents, of whom one is refused, and three rows a window of one recorder
inside another's; three trajectories where two are tracked forget one, and a window of one
in three moments lets timestamps expire and come out of order; two jobs that differ in the
model alone, and a similar query, give hits of both caches and a mirror that overflows; two
blocks overlap in a stream with one of them refused; a queue of two with three rows, and an
outbox of two with four events, overflow while a batch is in flight; eight leaves give every
shape of an odd level; three alterations let an entry, its checkpoint and its epoch be
replaced together. Calls and resets in `Gate` need no bound. Where one instance with
everything is beyond a few minutes of TLC, an MC module makes a behaviour choose its part
(`MCDelivery`, `MCGate`, `MCShieldManaged`, `MCExchange`, whose parts share no state).
Deadlock checking is off because every instance runs out of events, keys or requests, or the
system may rest.

Fairness: `AppendStep` is weakly fair because a running process finishes the append it
is in (`_append_locked` has no wait but SQLite's). In `Delivery`, `run_forever` keeps
trying, the store keeps serving, requests still on their way are served, and every
identity the device takes is enrolled in the end (the operator's job). In `Verdicts`,
each process calls `ship_once` again and again. In `ShieldPolicy`, the device polls and
applies, and the server finishes the second write of a release unless it dies. In
`ShieldSync`, the publisher's thread ticks, and with the bounded faults over its requests
get through. Nothing is assumed of restarts, crashes, losses, users or operators.

## What the models show

Three runs refute what the repository says of itself:

* **`CheckpointsVerify`.** `_emit` signs the head at emit time; a verdict appended since,
  or the append that follows a drained marker, has moved it past `seq_end`. The verifier
  then fails an honest device's checkpoint. `CheckpointsOnChain` is what does hold: the
  signed head is on this chain at or after `seq_end`.
* **`ParkedCallsDoNotRun`.** `RequireApproval` is neither `Allow` nor `Deny`, and `_check`
  stops only a `Deny`: the tool runs.
* **`ManagedPolicyBinds`.** The proxy reads the local policy file, not the effective policy
  (`shield_proxy.py:278`), so a policy the server made mandatory does not bind what leaves,
  however long the proxy has had to read it. `load_policy` says that the proxy reads it
  (`shield.py:1305`).

Other behaviour the models contain and the properties are worded around:

* After an OS crash the ledger resumes from the truncated tail and reuses the lost seqs:
  no gap (`recorder/ledger.py:16` expects one), and `SeqConflict` if they had been shipped.
* A crash between KEY_ROTATED and the marker leaves the new key staged and unconfirmed;
  the next rotation stages another over it, while the chain holds the lost key active.
* The unlink of the marker may fail twice, once in each reconciliation of the CLI: the marker
  then confirms the next staged key at once, and after a failed append or a crash the device
  signs with a key that the chain does not know (`keys.py:239`).
* The old key's copy in the archive is not synced before the new key takes its place
  (`keys.py:231`): an OS crash may leave it empty, where the comment above it says that the
  previously live key is never lost.
* The latch goes on refusing after the dial was turned to `observe` under the same version,
  as the dial is no part of what it compares, although `denial_latch.py:15` has it that the
  same tool against the same snapshot cannot decide differently.
* The shipper sends under the key in hand: after a restart the store refuses the old
  identity's entries, KEY_ROTATED first, and everything behind them waits.
* A checkpoint that another process inserts with a `seq_end` behind a watermark is neither
  shipped nor attested: both reads ask for `seq_end > ?`. `StreamsComplete` is about
  checkpoints inserted in order.
* Verdicts are appended without being noted, so one between two windows, or after the last
  captured event, is in no checkpoint's range and is never attested, although
  `recorder/attestation.py:67` says attesting verdicts "does not lose tool-call coverage".
* A timestamp that is charged late stays behind a newer one in `_call_timestamps` and is
  counted until that one expires: the rate is then stricter than it says. A cost told for a
  trajectory without steps makes the oldest trajectory with steps be forgotten.
* A delegation's latch version does not carry the child's version at the hand-off: a
  second, wider hand-off looks the same to the latch and is refused from memory.
* A dead worker's entries stay in the consumer group; nothing claims them.
* The scan sets `_scanned` before `_offset`: a poll in between absorbs rows twice. A scrub's
  `resync` may move the offset past rows nobody absorbed. Both are outside the lock.
* Two flushes answered out of order make the extension report a rollback that was none.
* A server that dies between the two writes of `release_device_override` strands the device.
* A level change after a lost answer sends the same events under another `batch_id`; a 422
  on a batch that held only a gap gives the gap up; a feed that overflows between two ticks
  loses events without a gap.
* A lost answer makes `publish_session` mark recorded traces rejected, and an exception
  that is no `CoriqoAgentsError` leaves the trajectory open.
* A stream chunk is forwarded before the recorder sees it, so a client that hangs up may
  hold one frame that is not told; translated streams are not recorded at all, and one that
  breaks off ends as `end_turn`.
* `SessionDedup` says of a collapsed output that the identical one appears in full later
  (`stages.py:930`). Outputs are truncated first, so that of a huge one only the ends and
  error lines come later, and two that agree in those are the same to it.
* `SseEnforcer.close` returns the frame the stream was cut in without looking at it
  (`proxy_gate.py:517`): it may announce a tool call the gate never saw, or carry a
  `stop_reason` that was not rewritten, where its docstring calls this the one outcome the
  seam exists to prevent. Parts of a held call may reach the agent so, a finished call not.
* Tool replies whose call turn kept its words without its calls, or is no message, stay in
  the request without a call; two tests assert it (`tests/test_runtime.py:511`, `:621`).
* Without a pinned device key a bundle of a rotated device verifies only if the old key is
  given, and one that was cut at an earlier checkpoint is a valid bundle.

## Proofs

Each theorem holds for every value of the constants that the module's assumption admits: any
number of processes, devices, agents, entries, requests, faults and crashes, not only the
ones of the run. The assumptions ask no more than that the bounds are naturals, that sizes
the code keeps positive are, that `None` is none of the values it stands beside (nor a tool
one of the markers for text and for a refused call), and that a table of inputs has the
shape of such a table. Two go further. `GateAssumption` gives every mandate version the
fields the code reads. `RuntimeAssumption` says that scores of queries can be compared.

Every proof has the same shape: an inductive invariant that TLC checked first on the run's
instance, one lemma per action, and a theorem for each property that follows.

**Ledger**. `ChainVerifies` is not inductive: it says
nothing of writers. `ChainInv` adds that the rows are 1..n and each links to the one before
(`Contiguous`, `Linked`), that they were committed in seq order (`TxnOrder`, which makes
what an OS crash leaves a prefix), that what an open writer remembers is on the chain
(`HeadsOnChain`: a stale `_next_seq` is taken and collides) and that only an open writer
is inside an append (`CallsOpen`). Only `CommitRow` and `OSCrash` change the chain. From it
follow `TypeCorrect`, `HeadsStayOnChain` and `HonestLedgerVerifies`. `CheckpointsStayOnChain`
adds `WindowsBehindHead` and `SignedAfterRow` (a checkpoint's transaction is later than that
of the row it signs, so a crash that keeps the one keeps the other). `EveryEventAccounted`
needs `CallsOwnEvents` (an event is inside at most one append) and `DroppedOnce` (pending
in one place, not yet marked). `LedgerImplementsLog` is the refinement: `CommitRow`
appends a digest that is not yet in the log, `OSCrash` keeps a prefix, every other step
stutters.

**Key directory** (`KeyRotationProofs`: `SignedByTheChain`, `ActiveKeyReachable`,
`RetiredKeysKept`, `ConfirmedKeysEndLive`). The properties speak of files; what the next
step does to them depends on where a process is. `DirectoryInv` says for each place in the
code what the files are (`FilesOK`, `MarkerOK`, `PublicFollows`), as long as no two
processes were inside at once; `ExplainedInv` and `FollowInv` say what of a staged key is on
the chain, each under the mishaps its property survives. `SignedByTheChain` holds for any
number of failed unlinks, since a marker left over has nothing staged beside it until a key
is staged all the same, which is the mishap `stale`; `RetiredKeysKept` has the un-synced
copy as its only exception.

**Delivery** (`WatermarkSafe`, `DeviceNotAccused`, `EvidenceKept`). `DeliveryInv` adds that
every watermark ever written, which an OS crash may bring back, is borne out by the entries
written before it (`MarksOK`), that a request somebody waits for carries what the ledger
holds and there is only one (`RequestOK`, `OneLive`), and that between COMMIT and the
summary only the new rows are unknown to it (`TouchOK`, `SummaryOK`).

**Streams** (`StreamsAreComplete`). A watermark is the end of some checkpoint (`Reached`),
and what a pass holds covers all that was inserted in order up to any of it and is not yet
on the store (`BatchCovers`, `TodoCovers`), which is what lets two shippers move one
watermark.

**Gate** (`GateLetsOnlyScope`, `LatchStaysJust`, `HaltsEndWithTheirCause`,
`GateTypeCorrect`). `LatchInv` says of the latch alone that its runs are distinct and
bounded, that denials belong to runs it has and versions it knows, and that a halt stands on
its attempts. `MemoryOK` and `CallOK` tie it to the calls: a denial under a version is of a
tool that it bars, whatever becomes of the dial, and all calls under this version know of it
(`Bars`), which is what makes a late `Record` harmless.

**Budgets** (`BudgetsAreKept`, an action property). `Kept`: the timestamps held are the
latest of all that were charged, and those let go are older than any window still to come.
`TableOK`: for a trajectory that was never forgotten the table has what really happened.

**Verdict outbox** (`VerdictsSound`). A row's state is the fate of its batch, so rows claimed
under one key are settled together (`BatchesAgree`), Coriqo holds a batch whole
(`BatchesWhole`) and an answer on its way tells the truth of its batch (`AnswerTrue`).

**Sessions and receipts** (`ReceiptsAreHonest`). The property asks of a store that verifies;
`SessionsInv` says what every row knows: a row with an event hash is of a recorded step, and
a step that was altered has been noticed by the row that has its hash (`RowOK`). Steps not
yet sent are not recorded, so a batch finds its rows fresh, and once all rows are written
every step of the trajectory has one or an excuse, which it takes with it when it is
completed (`PubOK`, `RunOK`).

**Agent proxy** (`ProxyInvariant`, `GateHoldsEveryCall`, `EndedIsWhole`,
`RecordIsComplete`). A block of a stream is in one of five places: open at the source with
its start on the wire, held by the gate, shown and open, shown with its end on the wire, or
ended. `BlocksOK` says which, and what was shown of a gated one; it is stated over `Coming`,
the frames the agent's side has not gone through, because a frame that was forwarded stays
on the wire until the recorder has it. `WireShape` says that only ends of blocks, each of
its own block, and the end of the message are followed by another frame: what the translator
sends at once cannot open a block behind one that ends. `EndOK`: the message ends once, when
nothing is open, so `RewriteStop` counts all decisions there will be (`gate.survivors` and
`gate.denied` are counts of them). `SeenOK` ties the recorder to the agent: it has the
blocks open that the agent and the gate have, but for the frame just yielded. A block that
ended there is told or is that frame, and this is what `ClosingOK` keeps of it when the
stream is left at any point. `CutIs` says which frame a stream may have been cut in, and
`TailAddsNoCall` that an agent that reads it after whole frames that were gated
(`FramesGated`) has no further call finished. That `InOrder` lists every open block once is
a count of a finite set (`InOrderIs`); that the recursive function in `EnforceBody` exists,
and gives every block its decision, follows from the least index at which it would not
(`LeastOf`).

**Runtime and workers** (`AnswersAreOwn`, `FallbackStaysClean`, `PendingStaysHeld`).
`RuntimeInv` says of the caches that the exact one holds under a key an answer with text to
what the key is of, and the semantic one entries whose embedding is of the query they
answer, in the stream and in every mirror (`ExactOK`, `MirrorOK`); of a request, what it
carries from the lookup to the write-back (`Carries`); and of the router, that every provider
was spent or is still in the order and that what the client has comes from the head of it
(`Routing`). `QueueInv` is `PendingIsHeld` with the types that the batch needs.

**Shield's policies** (`NoHiddenDrift`). Outside a release, what the device holds or is
being sent is the effective row or older (`NotAhead`); a row written above all others stays
ahead of it. A reported version is at most the held one, so equality with the effective
version makes all three the same row.

**Shield's record and seals** (`ShieldInvariant`, `KilledNeverLooksEdited`,
`CapturedRowsArriveOnce`, `AnsweredIsSealed`). `ChainOK` says that entries are in their
places, that what memory holds is what the log holds while Shield runs, and that every
checkpoint ever signed matches a beginning of it; with a torn line possible only while
Shield is down, `_load` finds nothing to report. `FiledOK` follows each captured row through
queue, flushes, ledger and what was given up, and counts its copies against the restarts
that emptied `browser_dedupe`. That an answer means sealed needs more than the endpoint: a
row is filed by one thread and may be absorbed by another. `OffsetOK`: outside a scrub a row
behind the offset was absorbed or is held by some thread, and after one it may be in
`passed`. `OnceOK`: a key is in one place of the worker, so the rows a handler files are in
nobody else's flush. `PendingOK`: a row filed and not yet absorbed is with the handler that
filed it, which still has a poll ahead of it or holds the row. Its poll cannot miss one: the
poll lock being free, no thread holds lines, so what is not sealed is beyond the offset.

**Activity sync** (`SyncProofs`: `EventsStayAccounted`, `SealsComeFirst`). `SyncInv` says that
the outbox has no event twice and none that was dealt with (`OutboxOK`), that the batch in
flight is what the outbox begins with, as trimming spares it and collecting appends
(`FlightOK`), and that the events of a batch stored at the present level are dealt with or in
flight (`StoredOK`): so a batch is either recognised and sent again as it was, or has none of
them. What is posted is under the head last accepted (`PostOK`, `LastOK`). The lemmas on
`Without` (what is left of a list, and that its beginning stays) replace an induction over
lists by counting. The proof showed that the property asked too much: the event of the very
moment when sharing is turned on again may have been refused before, and forgotten with the
gap when sharing was turned off. It now asks of the events after that moment.

Only model-checked, because the prover cannot: the liveness properties `AppendTerminates`,
`EventuallyShipped`, `PolicyConverges`, `SyncDrains` and `VerdictsSettle` (liveness under
fairness); `Merkle` and `Bundle` (recursive definitions); `Conversation` and `WireBody`,
which are folds and filters over sequences (induction over data).
Type invariants that
are proved, or are part of a proved invariant, are not repeated among the runs' invariants.

## Not modelled

Of the modelled parts: the store's coverage reports, approval and capability reports of the
gate, the composition of the budgets with the call path (a choice in `Gate`), delegation
chains, tool pairing and RFC 3161 timestamps in bundles, the ledger append that precedes
`VerdictOutbox.add`, expiry by time in the caches, custom pipeline stages, the proxy's
statistics and toggles, Shield's enrolment. Detection of secrets and personal data,
redaction patterns, canonical JSON, event schemas, provider payloads and framework adapters
are text processing of one item at a time without state, and are abstracted to what their
callers tell apart. Console, CLI and web pages present what other parts hold.

## Plan

1. Widen: delegation chains, approval reports, the store's coverage reports.
2. Compose: the verdict recorder's ledger append with the outbox and with `Streams`; the
   budgets with the call path.

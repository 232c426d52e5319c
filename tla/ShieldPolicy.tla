---------------------------- MODULE ShieldPolicy ----------------------------
(***************************************************************************)
(* Shield's settings: the policies an administrator writes on the server,  *)
(* the poll that brings the effective one to the device, the device's own  *)
(* settings file, and the proxy that stops or rewrites messages by the     *)
(* policy it read.  A signed document is its version and its content:      *)
(* signatures are taken to be unforgeable, so only the server writes one.  *)
(***************************************************************************)
EXTENDS Integers, Sequences, FiniteSets

CONSTANTS
    None,        \* Python's None
    AdminPolicies,  \* what an administrator writes: [mode, keep_text, locked, sync]
    Edits,          \* what the person saves in Settings
    MaxVersion,     \* bound on policy rows
    MaxLost         \* bound on failed polls

VARIABLES
    override, default,  \* the latest row for the device and for everyone
    versions,           \* highest version so far
    reissue,            \* a release wrote its tombstone and not yet the default
    stranded,           \* history: the server died there
    held,               \* the device's managed policy file
    poll,               \* the answer on its way to the device
    reported,           \* device_shield_state.policy_version
    local,              \* the device's own settings file
    proxy, fresh,       \* the proxy's copy of the policy; nothing changed since
    lost

pvars == <<override, default, versions, reissue, stranded, held, poll, reported,
           local, proxy, fresh, lost>>

-----------------------------------------------------------------------------
(* Rules, actions and the decision on one message.                         *)

Actions == <<"log", "redact", "warn", "block">>
Rank(a) == CHOOSE i \in DOMAIN Actions : Actions[i] = a

\* stricter.
Stricter(a, b) == IF Rank(a) >= Rank(b) THEN a ELSE b

DefaultActions == [secret |-> "block", pii |-> "redact", flag |-> "log"]

\* An administrator writes a policy (a release or a deletion is not one).
ASSUME PolicyAssumption ==
    /\ None \notin AdminPolicies \cup Nat
    /\ None \notin [version : Nat, policy : AdminPolicies \cup {None}]
    /\ MaxVersion \in Nat

\* One rule of each kind: a secret, the secret with an action of its own
\* (credential_assign), a personal detail, a signal.
RULE_TIER == [key |-> "secret", credential_assign |-> "secret", email |-> "pii",
              password_said |-> "flag"]
RuleAction == [credential_assign |-> "warn"]
\* Rules that can rewrite text (PLACEHOLDER); signals cannot.
Placeholder == {"key", "credential_assign", "email"}

\* action_for.
ActionFor(rule, p) ==
    LET tier == RULE_TIER[rule]
        act  == p.actions[tier]
    IN  IF p.mode = "observe" THEN "log"
        ELSE IF rule \notin DOMAIN RuleAction THEN act
        ELSE IF Rank(act) > Rank(DefaultActions[tier]) THEN Stricter(act, RuleAction[rule])
        ELSE RuleAction[rule]

\* evaluate: the strictest action of the rules that hit.
Evaluate(hits, p) ==
    IF hits = {} THEN "log"
    ELSE Actions[CHOOSE i \in DOMAIN Actions :
                    /\ \E r \in hits : Rank(ActionFor(r, p)) = i
                    /\ \A r \in hits : Rank(ActionFor(r, p)) <= i]

\* redact_json_body / redact_with_rules: every rule that can rewrite text and is
\* not merely logged.
Redacted(hits, p) == {r \in hits \cap Placeholder : ActionFor(r, p) # "log"}

-----------------------------------------------------------------------------
(* The server's policies.                                                  *)

PolicyRow(v, p) == [version |-> v, policy |-> p]

DefaultPolicy == [mode |-> "redact", keep_text |-> FALSE, actions |-> DefaultActions]

PolicyInit ==
    /\ override = None /\ default = None /\ versions = 0
    /\ reissue = FALSE /\ stranded = FALSE
    /\ held = None /\ poll = None /\ reported = None
    /\ local = DefaultPolicy /\ proxy = DefaultPolicy /\ fresh = TRUE
    /\ lost = 0

device == <<held, poll, reported, local, proxy, fresh, lost>>

\* write_policy_locked: the next version, in one critical section with its row.
NextVersion == versions < MaxVersion /\ ~reissue /\ versions' = versions + 1

\* PUT /policy and PUT /devices/{id}/policy.
PutDefault(p) ==
    /\ NextVersion /\ default' = PolicyRow(versions', p)
    /\ UNCHANGED <<override, reissue, stranded, device>>

PutOverride(p) ==
    /\ NextVersion /\ override' = PolicyRow(versions', p)
    /\ UNCHANGED <<default, reissue, stranded, device>>

\* DELETE /policy: a signed "no policy" above everything.
DeleteDefault == PutDefault(None)

Live(row) == row # None /\ row.policy # None

\* release_device_override, its first write: the tombstone.  A live default is
\* written again above it.
NeedsReissueNever == FALSE
NeedsReissue == Live(default)
ReleaseOverride ==
    /\ override # None /\ NextVersion /\ override' = PolicyRow(versions', None)
    /\ reissue' = NeedsReissue
    /\ UNCHANGED <<default, stranded, device>>

\* _reissue_default_above.
ReissueDefault ==
    /\ reissue /\ reissue' = FALSE
    /\ versions' = versions + 1 /\ default' = PolicyRow(versions + 1, default.policy)
    /\ UNCHANGED <<override, stranded, device>>

\* The server dies between the two writes.
ServerCrash ==
    /\ reissue /\ reissue' = FALSE /\ stranded' = TRUE
    /\ UNCHANGED <<override, default, versions, device>>

\* pick_effective: a live override, else a live default, else the newest.
Effective ==
    IF Live(override) THEN override
    ELSE IF Live(default) THEN default
    ELSE IF override = None THEN default
    ELSE IF default = None THEN override
    ELSE IF default.version > override.version THEN default ELSE override

-----------------------------------------------------------------------------
(* The device's poll.                                                      *)

server == <<override, default, versions, reissue, stranded>>

HaveVersion == IF held = None THEN 0 ELSE held.version

\* poll_policy up to the server's answer (shield_policy).  The handlers have no
\* await in them, so no request is served in the middle of a release.
PollPolicy ==
    /\ poll = None /\ Effective # None /\ ~reissue
    /\ HaveVersion # Effective.version
    /\ poll' = Effective
    /\ UNCHANGED <<server, held, reported, local, proxy, fresh, lost>>

\* The request or its answer gets lost; or the key list cannot be fetched, which
\* does not use up the one attempt (_trusted_key).
PollFails ==
    /\ poll # None /\ lost < MaxLost
    /\ poll' = None /\ lost' = lost + 1
    /\ UNCHANGED <<server, held, reported, local, proxy, fresh>>

\* apply_managed_envelope: an older or equal version is refused.
Accepts(row) == row.version > HaveVersion
ApplyEnvelope ==
    /\ poll # None /\ poll' = None
    /\ held' = IF Accepts(poll) THEN poll ELSE held
    /\ fresh' = FALSE
    /\ UNCHANGED <<server, reported, local, proxy, lost>>

\* A checkpoint or a heartbeat tells the server which version is in force.
Report ==
    /\ held # None /\ reported # held.version
    /\ reported' = held.version
    /\ UNCHANGED <<server, held, poll, local, proxy, fresh, lost>>

-----------------------------------------------------------------------------
(* Settings and the proxy.                                                 *)

\* load_policy: the local file under the managed, locked keys.
Managed == held # None /\ held.policy # None
Locked == IF Managed THEN held.policy.locked ELSE {}
LoadPolicy ==
    [mode |-> IF "mode" \in Locked THEN held.policy.mode ELSE local.mode,
     keep_text |-> IF "keep_text" \in Locked THEN held.policy.keep_text ELSE local.keep_text,
     actions |-> local.actions]

\* apply_policy_update: whether a change makes Shield less private.
Weakens(new, old) ==
    \/ new.mode = "observe" /\ old.mode # "observe"
    \/ new.keep_text /\ ~old.keep_text
    \/ \E t \in DOMAIN DefaultActions : Rank(new.actions[t]) < Rank(old.actions[t])

\* POST /api/policy: refused for a locked key, or for a weakening nobody
\* acknowledged; the whole effective policy is saved.
SavePolicy(edit) ==
    LET old == LoadPolicy
        new == [mode |-> IF "mode" \in DOMAIN edit THEN edit.mode ELSE old.mode,
                keep_text |-> IF "keep_text" \in DOMAIN edit THEN edit.keep_text ELSE old.keep_text,
                actions |-> IF "actions" \in DOMAIN edit THEN edit.actions ELSE old.actions]
    IN  /\ DOMAIN edit \cap Locked = {}
        /\ Weakens(new, old) => "acknowledge" \in DOMAIN edit
        /\ local' = new /\ fresh' = FALSE
        /\ UNCHANGED <<server, held, poll, reported, proxy, lost>>

\* ShieldProxy.policy: read again when a request comes, at most every two
\* seconds, and from the local file (read_policy, not load_policy).
ReadPolicy ==
    /\ ~fresh /\ fresh' = TRUE
    /\ proxy' = local
    /\ UNCHANGED <<server, held, poll, reported, local, lost>>

\* ShieldProxy.request: stop the message, rewrite it, or let it through; what
\* is left of the hits in the message that goes out.
Decide(hits, p) ==
    LET action == Evaluate(hits, p) IN
    [sent |-> action # "block",
     left |-> hits \ (IF action \in {"redact", "warn"} THEN Redacted(hits, p) ELSE {})]

PolicyNext ==
    \/ \E p \in AdminPolicies : PutDefault(p) \/ PutOverride(p)
    \/ DeleteDefault \/ ReleaseOverride \/ ReissueDefault \/ ServerCrash
    \/ PollPolicy \/ PollFails \/ ApplyEnvelope \/ Report
    \/ \E e \in Edits : SavePolicy(e)
    \/ ReadPolicy

\* The publisher's loop keeps polling and the server finishes what it began.
PolicyFairness == WF_pvars(PollPolicy) /\ WF_pvars(ApplyEnvelope) /\ WF_pvars(ReissueDefault)

PolicySpec == PolicyInit /\ [][PolicyNext]_pvars /\ PolicyFairness

-----------------------------------------------------------------------------
(* Properties.                                                             *)

\* Whatever the administrator sets, overrides, releases and deletes, the device
\* ends up holding the effective policy (release_device_override: "without
\* stranding the device"), unless the server died between the two writes of a
\* release.
PolicyConverges ==
    <>[](stranded \/ Effective = None \/ HaveVersion = Effective.version)

\* A device that the drift list leaves out holds the policy assigned to it, or
\* one assigned since: what it last reported never hides a refused policy.
NoDriftNoDifference ==
    ~stranded /\ ~reissue /\ Effective # None /\ reported = Effective.version
        => held # None /\ held.policy = Effective.policy

\* load_policy: "Both the proxy's own checks and the console read this, not the
\* local file directly, so managed mode can't be bypassed".  Once the proxy has
\* read everything there is, nothing it lets out is what the effective policy
\* would have stopped or rewritten.
ManagedPolicyBinds ==
    fresh => \A hits \in SUBSET DOMAIN RULE_TIER :
        Decide(hits, proxy).sent =>
            /\ Decide(hits, LoadPolicy).sent
            /\ Decide(hits, proxy).left \subseteq Decide(hits, LoadPolicy).left

=============================================================================

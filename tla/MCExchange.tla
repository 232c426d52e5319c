---------------------------- MODULE MCExchange ----------------------------
(* What goes to providers (conversations, request bodies) and to Coriqo     *)
(* (verdicts, sessions, the epoch trees over what was shipped), and what an *)
(* examiner gets back (bundles).  The parts share no state, so a behaviour  *)
(* exercises one of them.                                                   *)
EXTENDS Conversation, WireBody, Verdicts, Sessions, Bundle

CONSTANTS bash, read

VARIABLE part

requestVars == <<conversationVars, bodyVars>>
coriqoVars == <<verdictVars, sessionVars, epoch, bundleVars>>
vars == <<requestVars, coriqoVars, part>>

Output(name, size, ends, errors) ==
    [name |-> name, size |-> size, ends |-> ends, errors |-> errors]

\* Two huge outputs differ only in the middle.
MCOutputs ==
    {Output("listing", "big", "e1", "none"), Output("log", "huge", "e2", "many"),
     Output("other log", "huge", "e2", "many"), Output("report", "mid", "e3", "few")}

MCTools == {bash, read}
MCNoisy == {bash}
MCCallLists == {<<bash>>, <<read>>, <<bash, read>>}
MCOpenings ==
    {[system |-> FALSE, tools |-> TRUE, client |-> 0],
     [system |-> TRUE, tools |-> TRUE, client |-> 0],
     [system |-> TRUE, tools |-> TRUE, client |-> 3]}

Opt(pinned, known, tenant, check, require, rekor) ==
    [pinned |-> pinned, known |-> known, tenant |-> tenant, check_anchors |-> check,
     require_pinned_anchors |-> require, rekor |-> rekor]

\* Nothing pinned, the device, the tenant, the anchors, all of them, and
\* anchors required of an examiner who does not check them.
MCOptions ==
    {Opt(NoKey, {Device}, FALSE, TRUE, FALSE, FALSE), Opt(Device, {}, FALSE, TRUE, FALSE, FALSE),
     Opt(NoKey, {}, TRUE, FALSE, FALSE, FALSE), Opt(NoKey, {Device}, FALSE, TRUE, TRUE, TRUE),
     Opt(Device, {}, TRUE, TRUE, TRUE, TRUE), Opt(Device, {}, FALSE, FALSE, TRUE, TRUE)}

Init ==
    /\ ConversationInit /\ BodyInit /\ VerdictsInit /\ SessionsInit /\ MerkleInit
    /\ BundleInit
    /\ part \in {"conversation", "body", "verdicts", "sessions", "epoch", "bundle"}
    /\ part # "body" => body.client > 0
    /\ part # "bundle" => Len(recorded) = 2

Next ==
    /\ UNCHANGED part
    /\ \/ /\ part = "conversation" /\ ConversationNext
          /\ UNCHANGED <<bodyVars, coriqoVars>>
       \/ /\ part = "body" /\ BodyNext
          /\ UNCHANGED <<conversationVars, coriqoVars>>
       \/ /\ part = "verdicts" /\ VerdictsNext
          /\ UNCHANGED <<requestVars, sessionVars, epoch, bundleVars>>
       \/ /\ part = "sessions" /\ SessionsNext
          /\ UNCHANGED <<requestVars, verdictVars, epoch, bundleVars>>
       \/ /\ part = "epoch" /\ MerkleNext
          /\ UNCHANGED <<requestVars, verdictVars, sessionVars, bundleVars>>
       \/ /\ part = "bundle" /\ BundleNext
          /\ UNCHANGED <<requestVars, verdictVars, sessionVars, epoch>>

Spec == Init /\ [][Next]_vars /\ VerdictsFairness
=============================================================================

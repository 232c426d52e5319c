----------------------------- MODULE MCDelivery -----------------------------
(* Delivery and Streams for TLC.  They share no state here, so a behaviour  *)
(* exercises one of them: of Delivery, the ledger outgrows a batch, or the  *)
(* key is rotated and devices are revoked; of Streams, one recorder has the *)
(* longer ledger, or two share a shorter one.                               *)
EXTENDS Delivery, Streams

CONSTANTS p1, p2

VARIABLE part

\* A third entry, under one identity that stays enrolled, with an OS crash or
\* with lost requests.
LongLedger == diskKey = 1 /\ revoked = {} /\ (osCrashes = 0 \/ faults = 0)
ChangingKeys == Len(ledger) <= MAX_BATCH_EVENTS

\* One recorder, with room for two agents' verdicts inside one window.
Alone == pass[p2] = Resting /\ open[p2] = NoWindow

\* Two, with at most one verdict, and neither dies.
Sharing ==
    /\ Len(rows) < MaxRows /\ deaths = 0
    /\ Cardinality({i \in DOMAIN rows : rows[i] # "captured"}) <= 1
    /\ \A i \in DOMAIN rows : rows[i] # NoSubject
OneFault == deaths + refusals <= 1

\* What is ruled out is up to the device and the operator: no fair step.
MCNext ==
    /\ UNCHANGED part
    /\ \/ /\ part = "long" /\ Next /\ LongLedger'
          /\ UNCHANGED streamVars
       \/ /\ part = "keys" /\ Next /\ ChangingKeys'
          /\ UNCHANGED streamVars
       \/ /\ part = "streams" /\ StreamsNext /\ OneFault' /\ (Alone' \/ Sharing')
          /\ UNCHANGED vars
MCInit == Init /\ StreamsInit /\ part \in {"long", "keys", "streams"}
MCSpec == MCInit /\ [][MCNext]_<<vars, streamVars, part>> /\ Fairness
=============================================================================

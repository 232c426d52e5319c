---------------------------- MODULE EvidenceLog ----------------------------
(***************************************************************************)
(* What the recorder's ledger promises, with its implementation left out:  *)
(* one log of digests per device.  A step either adds one digest at the    *)
(* end or (an OS crash under WAL with synchronous=NORMAL) loses a suffix   *)
(* that had been committed.  No step rewrites, reorders, inserts or        *)
(* repeats an entry.  Ledger.tla is shown to implement this specification. *)
(***************************************************************************)
EXTENDS Naturals, Sequences

CONSTANT Digests

VARIABLE log

Init == log = <<>>

\* A digest enters the log at the end, and only if it is not there already.
AppendOne ==
    \E d \in Digests :
        /\ \A i \in DOMAIN log : log[i] # d
        /\ log' = Append(log, d)

\* The tail is lost; what remains is a prefix.
LoseTail ==
    \E n \in 0..Len(log) : log' = SubSeq(log, 1, n)

Next == AppendOne \/ LoseTail

Spec == Init /\ [][Next]_log
=============================================================================

------------------------------- MODULE Verify -------------------------------
(***************************************************************************)
(* The offline verifier's judgement on a chain (recorder/verify.py), as    *)
(* operators over a table of rows [seq -> [prev, hash, digest]].           *)
(*                                                                         *)
(* SHA-256 over canonical JSON is idealised as an injective constructor:   *)
(* the hash of (prev_hash, seq, event_digest) is the sequence of all       *)
(* <<seq, digest>> pairs up to and including this one, so two entry hashes *)
(* are equal exactly when the histories they commit to are equal.          *)
(***************************************************************************)
EXTENDS Naturals, Sequences

GENESIS_PREV_HASH == <<>>

compute_entry_hash(prev, seq, digest) == Append(prev, <<seq, digest>>)

\* The row just below seq, as _walk_chain carries it in prev_stored_hash.
PrevStoredHash(rows, seq) ==
    LET below == {s \in DOMAIN rows : s < seq}
    IN  IF below = {} THEN GENESIS_PREV_HASH
        ELSE rows[CHOOSE s \in below : \A t \in below : t <= s].hash

\* _walk_chain: seqs whose stored prev_hash is not the stored hash of the row
\* before, or whose stored hash is not the one re-derived from the row.
broken_links(rows) ==
    {s \in DOMAIN rows :
        \/ rows[s].prev # PrevStoredHash(rows, s)
        \/ rows[s].hash # compute_entry_hash(rows[s].prev, s, rows[s].digest)}

\* Ledger.missing_ranges and _walk_chain's gaps, as a set of seqs: those at
\* or below some row that have no row.  A missing prefix shows, a missing
\* suffix cannot.
missing_ranges(seqs) == (UNION {1..t : t \in seqs}) \ seqs

\* _verify_checkpoints: a checkpoint fails unless its chain_head is the hash
\* re-derived at its own seq_end.
bad_checkpoints(rows, cps) ==
    {e \in DOMAIN cps :
        \/ e \notin DOMAIN rows
        \/ cps[e].chain_head #
             compute_entry_hash(rows[e].prev, e, rows[e].digest)}
=============================================================================

---------------------------- MODULE LedgerDigest -----------------------------
(***************************************************************************)
(* The digests of the audit ledger, backend/app/services/integrity/        *)
(* hash_chain_ledger.py.  SHA-256 is taken to be free of collisions, so a  *)
(* digest is represented by what it commits to: the hash of an entry is    *)
(* the sequence of the (sequence number, body) pairs hashed into it, its   *)
(* own pair last.  Two digests are equal exactly when every entry under    *)
(* them is.                                                                *)
(*                                                                         *)
(* A body stands for entry_type, incident_id, payload and created_at       *)
(* together, which canonical_json turns into the bytes that are hashed.    *)
(***************************************************************************)
EXTENDS Integers, Sequences

CONSTANT Body       \* the contents of ledger entries

Digest == Seq([seq : Nat, body : Body])

\* GENESIS_PREVIOUS_HASH: no entry is under it.
Genesis == << >>

\* compute_entry_hash
EntryHash(seq, body, previousHash) ==
    Append(previousHash, [seq |-> seq, body |-> body])

\* A row of audit_ledger_entries without its key and its anchor_batch_id.
Row == [body : Body, previousHash : Digest, entryHash : Digest]

NewRow(seq, body, previousHash) ==
    [body |-> body, previousHash |-> previousHash,
     entryHash |-> EntryHash(seq, body, previousHash)]

=============================================================================

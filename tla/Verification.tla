---------------------------- MODULE Verification -----------------------------
(***************************************************************************)
(* The audit of the ledger, backend/app/services/integrity/                *)
(* integrity_verification_service.py, while entries are appended and       *)
(* anchored (module Anchoring) and while stored payloads are rewritten     *)
(* behind the platform's back, as scripts/simulate_tampering.py does.      *)
(*                                                                         *)
(* verify_ledger runs two SELECTs, first the entries and later the         *)
(* batches.  Each sees what is committed when it runs, so anything may     *)
(* happen between the two.  It never reads the contract.                   *)
(***************************************************************************)
EXTENDS Anchoring

VARIABLE audit      \* one call of verify_ledger: its progress, or its verdict

auditVars == <<vars, audit>>

NoAudit == [pc |-> "idle", entries |-> << >>, ids |-> << >>, status |-> "", tampered |-> 0]

AuditInit == Init /\ audit = NoAudit

\* simulate_tampering.py: the payload changes, entry_hash does not.
TamperPayload(k) ==
    /\ k \in DOMAIN ledger
    /\ ledger[k].body # Forged
    /\ ledger' = [ledger EXCEPT ![k].body = Forged]
    /\ UNCHANGED <<chainVars, mined, anchorBatchId, anchorBatches, pc, work, nextId,
                   crashes, audit>>

\* Defect: only the links are followed, no hash is computed again.
ChainBreaksAtLinksOnly(entries, k) ==
    entries[k].previousHash # IF k = 1 THEN Genesis ELSE entries[k - 1].entryHash

\* Tier 1 stops at entry k: its link is broken, or its hash is not that of its
\* contents.
ChainBreaksAt(entries, k) ==
    \/ entries[k].previousHash # IF k = 1 THEN Genesis ELSE entries[k - 1].entryHash
    \/ entries[k].entryHash # EntryHash(k, entries[k].body, entries[k].previousHash)

Verdict(entries, ids, status, tampered) ==
    [pc |-> "done", entries |-> entries, ids |-> ids, status |-> status,
     tampered |-> tampered]

\* The SELECT of the entries, and tier 1 on what it returns.
ReadEntries ==
    /\ audit.pc = "idle"
    /\ LET breaks == {k \in DOMAIN ledger : ChainBreaksAt(ledger, k)}
       IN  audit' =
             IF ledger = << >> THEN Verdict(ledger, anchorBatchId, "VERIFIED", 0)
             ELSE IF breaks # {}
               THEN Verdict(ledger, anchorBatchId, "TAMPERED", Min(breaks))
               ELSE [NoAudit EXCEPT !.pc = "entries", !.entries = ledger,
                                    !.ids = anchorBatchId]
    /\ UNCHANGED vars

\* The leaves of a batch among the entries that were read.
AuditedLeaves(batch) ==
    LET to == Min({batch.to, Len(audit.entries)})
    IN  [i \in 1 .. to - batch.from + 1 |-> audit.entries[batch.from + i - 1].entryHash]

\* Defect: the first entry of the range is left out (from_sequence < number).
BatchMismatchExclusive(batch) ==
    /\ batch.from < Len(audit.entries)
    /\ Tail(AuditedLeaves(batch)) # << >>
    /\ MerkleRoot(Tail(AuditedLeaves(batch))) # batch.root

\* Tier 2 stops at this batch.  A batch without entries is skipped.
BatchMismatch(batch) ==
    /\ batch.from <= Len(audit.entries)
    /\ MerkleRoot(AuditedLeaves(batch)) # batch.root

\* Defect: the first entry is taken to tell whether all are anchored.
AllAnchoredByFirst(ids) == ids[1] # Unanchored

AllAnchored(ids) == \A k \in DOMAIN ids : ids[k] # Unanchored

\* The SELECT of the batches, tier 2, and the verdict.
ReadBatches ==
    /\ audit.pc = "entries"
    /\ LET mismatches == {anchorBatches[id].from :
                             id \in {i \in DOMAIN anchorBatches :
                                        BatchMismatch(anchorBatches[i])}}
       IN  audit' =
             IF mismatches # {}
               THEN Verdict(audit.entries, audit.ids, "TAMPERED", Min(mismatches))
             ELSE IF ~AllAnchored(audit.ids)
               THEN Verdict(audit.entries, audit.ids, "PENDING_ANCHOR", 0)
             ELSE Verdict(audit.entries, audit.ids, "VERIFIED", 0)
    /\ UNCHANGED vars

\* The verdict is returned; another call may follow.
EndAudit ==
    /\ audit.pc = "done"
    /\ audit' = NoAudit
    /\ UNCHANGED vars

AuditNext ==
    \/ Next /\ UNCHANGED audit
    \/ \E k \in 1 .. MaxEntries : TamperPayload(k)
    \/ ReadEntries
    \/ ReadBatches
    \/ EndAudit

AuditSpec == AuditInit /\ [][AuditNext]_auditVars

-----------------------------------------------------------------------------
\* Properties

ForgedAsRead == {k \in DOMAIN audit.entries : audit.entries[k].body = Forged}

\* A rewritten payload is always found, whenever it was rewritten and wherever
\* the entry is in the chain and in its batch, and the number reported is that
\* of the first rewritten entry.
TamperIsLocated ==
    audit.pc = "done" /\ ForgedAsRead # {} =>
        audit.status = "TAMPERED" /\ audit.tampered = Min(ForgedAsRead)

\* VERIFIED is never said of an entry outside every stored batch: the marks the
\* audit goes by agree with the batch rows it read afterwards.
VerifiedIsBatched ==
    audit.pc = "done" /\ audit.status = "VERIFIED" =>
        \A k \in DOMAIN audit.entries :
            \E id \in DOMAIN anchorBatches :
                /\ anchorBatches[id].from <= k /\ k <= anchorBatches[id].to
                /\ anchorBatches[id].to <= Len(audit.entries)
                /\ anchorBatches[id].root = MerkleRoot(AuditedLeaves(anchorBatches[id]))

\* TAMPERED without a rewritten payload has one cause only: the batch at fault
\* ends with entries appended after the audit had read the ledger.
AlarmWithoutTamperIsARace ==
    audit.pc = "done" /\ audit.status = "TAMPERED" /\ ForgedAsRead = {} =>
        \E id \in DOMAIN anchorBatches :
            /\ anchorBatches[id].from = audit.tampered
            /\ Len(audit.entries) < anchorBatches[id].to

\* docs/blockchain-integrity.md:57, "`TAMPERED`: Identifies exact sequence
\* number and batch ID where tampering occurred."
TamperedMeansTampered ==
    audit.pc = "done" /\ audit.status = "TAMPERED" =>
        audit.tampered \in DOMAIN ledger /\ ledger[audit.tampered].body = Forged

\* docs/blockchain-integrity.md:56, "`VERIFIED`: All ledger entries, batch roots,
\* and on-chain records match cryptographically."  Where a contract is deployed,
\* every entry of a verified ledger is then in a batch on chain.
VerifiedMeansOnChain ==
    deployed /\ audit.pc = "done" /\ audit.status = "VERIFIED" =>
        \A k \in DOMAIN audit.entries :
            \E i \in DOMAIN batches :
                batches[i].fromSequence <= k /\ k <= batches[i].toSequence

=============================================================================

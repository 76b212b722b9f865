-------------------------- MODULE HashLedgerProofs ---------------------------
(***************************************************************************)
(* Theorems about the audit ledger for any set of sessions and of bodies   *)
(* and any bound on its length.                                            *)
(*                                                                         *)
(* LedgerIsAChain speaks of committed rows, and is not inductive: what a   *)
(* commit adds must already continue the chain.  IInv therefore says of    *)
(* every session that the rows it sees are a chain, that no two sessions   *)
(* hold uncommitted rows, that a session's uncommitted rows are new keys,  *)
(* and that a stale read is caught by the primary key.                     *)
(***************************************************************************)
EXTENDS HashLedger, TLAPS

NewKeys == \A s \in Session : DOMAIN own[s] \cap DOMAIN rows = {}

VisibleChains == \A s \in Session : ChainOK(Visible(s))

IInv ==
    /\ TypeOK
    /\ LedgerIsAChain
    /\ VisibleChains
    /\ NewKeys
    /\ OneUncommittedWriter
    /\ StaleReadIsCaught

-----------------------------------------------------------------------------
\* Tables and their latest row

LEMMA NoRowsEmpty == DOMAIN NoRows = {}
BY DEF NoRows

LEMMA LatestOfEmpty ==
    ASSUME NEW f, DOMAIN f = {}
    PROVE  LatestOf(f) = [seq |-> 0, hash |-> Genesis]
BY DEF LatestOf

LEMMA LatestOfRange ==
    ASSUME NEW f, NEW n \in Nat \ {0}, DOMAIN f = 1 .. n
    PROVE  LatestOf(f) = [seq |-> n, hash |-> f[n].entryHash]
  <1> DEFINE last == CHOOSE k \in DOMAIN f : \A j \in DOMAIN f : j <= k
  <1>1. n \in DOMAIN f /\ \A j \in DOMAIN f : j <= n
    OBVIOUS
  <1>2. last \in DOMAIN f /\ \A j \in DOMAIN f : j <= last
    BY <1>1
  <1>3. last = n
    BY <1>1, <1>2
  <1>4. DOMAIN f # {}
    BY <1>1
  <1> HIDE DEF last
  <1> QED
    BY <1>3, <1>4 DEF LatestOf, last

\* The latest row of a chain of n rows is row n.
LEMMA ChainLatest ==
    ASSUME NEW f, ChainOK(f)
    PROVE  \E n \in Nat :
              /\ DOMAIN f = 1 .. n
              /\ LatestOf(f) = [seq |-> n,
                                hash |-> IF n = 0 THEN Genesis ELSE f[n].entryHash]
  <1>1. PICK n \in Nat : n = LatestOf(f).seq
    BY DEF ChainOK
  <1>2. DOMAIN f = 1 .. n
    BY <1>1 DEF ChainOK
  <1>3. CASE n = 0
    BY <1>2, <1>3, LatestOfEmpty
  <1>4. CASE n # 0
    BY <1>2, <1>4, LatestOfRange
  <1> QED
    BY <1>2, <1>3, <1>4

\* Being a chain is a matter of the rows alone.
LEMMA ChainSameRows ==
    ASSUME NEW f, NEW g, ChainOK(f),
           DOMAIN g = DOMAIN f, \A k \in DOMAIN f : g[k] = f[k]
    PROVE  ChainOK(g) /\ LatestOf(g) = LatestOf(f)
  <1>1. PICK n \in Nat :
           /\ DOMAIN f = 1 .. n
           /\ LatestOf(f) = [seq |-> n,
                             hash |-> IF n = 0 THEN Genesis ELSE f[n].entryHash]
    BY ChainLatest
  <1>2. LatestOf(g) = LatestOf(f)
    <2>1. CASE n = 0
      BY <1>1, <2>1, LatestOfEmpty
    <2>2. CASE n # 0
      <3>1. LatestOf(g) = [seq |-> n, hash |-> g[n].entryHash]
        BY <1>1, <2>2, LatestOfRange
      <3> QED
        BY <3>1, <2>2, <1>1
    <2> QED
      BY <2>1, <2>2
  <1>3. \A k \in DOMAIN g :
           /\ g[k].previousHash = IF k = 1 THEN Genesis ELSE g[k - 1].entryHash
           /\ g[k].entryHash = EntryHash(k, g[k].body, g[k].previousHash)
    <2> TAKE k \in DOMAIN g
    <2>1. k \in DOMAIN f /\ (k # 1 => k - 1 \in DOMAIN f)
      BY <1>1
    <2> QED
      BY <2>1 DEF ChainOK
  <1> QED
    BY <1>1, <1>2, <1>3 DEF ChainOK

\* What append_entry adds continues the chain it was read from.
LEMMA ChainExtended ==
    ASSUME NEW f, ChainOK(f), NEW body, NEW g, NEW key,
           key = LatestOf(f).seq + 1,
           DOMAIN g = DOMAIN f \cup {key},
           \A k \in DOMAIN f : g[k] = f[k],
           g[key] = NewRow(key, body, LatestOf(f).hash)
    PROVE  ChainOK(g)
  <1>1. PICK n \in Nat :
           /\ DOMAIN f = 1 .. n
           /\ LatestOf(f) = [seq |-> n,
                             hash |-> IF n = 0 THEN Genesis ELSE f[n].entryHash]
    BY ChainLatest
  <1>2. key = n + 1 /\ DOMAIN g = 1 .. n + 1
    BY <1>1
  <1>3. LatestOf(g).seq = n + 1
    BY <1>2, LatestOfRange
  <1>4. /\ g[key].previousHash = LatestOf(f).hash
        /\ g[key].entryHash = EntryHash(key, g[key].body, g[key].previousHash)
    BY DEF NewRow
  <1>5. \A k \in DOMAIN g :
           /\ g[k].previousHash = IF k = 1 THEN Genesis ELSE g[k - 1].entryHash
           /\ g[k].entryHash = EntryHash(k, g[k].body, g[k].previousHash)
    <2> TAKE k \in DOMAIN g
    <2>1. CASE k = key
      <3>1. k # 1 => k - 1 \in DOMAIN f /\ k - 1 = n
        BY <2>1, <1>1, <1>2
      <3>2. k = 1 => n = 0
        BY <2>1, <1>2
      <3>3. k # 1 => n # 0
        BY <2>1, <1>2
      <3>4. g[k].previousHash = IF k = 1 THEN Genesis ELSE g[k - 1].entryHash
        BY <2>1, <3>1, <3>2, <3>3, <1>1, <1>4
      <3> QED
        BY <2>1, <3>4, <1>4
    <2>2. CASE k # key
      <3>1. k \in DOMAIN f /\ (k # 1 => k - 1 \in DOMAIN f)
        BY <2>2, <1>1, <1>2
      <3> QED
        BY <3>1 DEF ChainOK
    <2> QED
      BY <2>1, <2>2
  <1> QED
    BY <1>2, <1>3, <1>5 DEF ChainOK

\* The digests that append_entry computes are digests.
LEMMA EntryHashType ==
    ASSUME NEW seq \in Nat, NEW body \in Body, NEW previousHash \in Digest
    PROVE  NewRow(seq, body, previousHash) \in Row
BY DEF NewRow, Row, EntryHash, Digest

-----------------------------------------------------------------------------
\* What sessions see

LEMMA VisibleDomain ==
    ASSUME NEW s \in Session
    PROVE  /\ DOMAIN Visible(s) = DOMAIN rows \cup DOMAIN own[s]
           /\ \A k \in DOMAIN own[s] : Visible(s)[k] = own[s][k]
           /\ \A k \in DOMAIN rows \ DOMAIN own[s] : Visible(s)[k] = rows[k]
BY DEF Visible

LEMMA VisibleType ==
    ASSUME TypeOK, NEW s \in Session
    PROVE  /\ DOMAIN Visible(s) \subseteq Nat
           /\ \A k \in DOMAIN Visible(s) : Visible(s)[k] \in Row
BY VisibleDomain DEF TypeOK

\* A session that has flushed nothing sees the committed rows.
LEMMA VisibleToOthers ==
    ASSUME LedgerIsAChain, NEW s \in Session, ~HasFlushed(s)
    PROVE  LatestOf(Visible(s)) = LatestOf(rows)
  <1>1. DOMAIN Visible(s) = DOMAIN rows /\ \A k \in DOMAIN rows : Visible(s)[k] = rows[k]
    BY VisibleDomain DEF HasFlushed
  <1> QED
    BY <1>1, ChainSameRows DEF LedgerIsAChain

\* A session that has flushed rows holds the key after the last committed one.
LEMMA WriterHoldsNextKey ==
    ASSUME IInv, NEW s \in Session, HasFlushed(s)
    PROVE  LatestOf(rows).seq + 1 \in DOMAIN own[s]
  <1>1. PICK r \in Nat : DOMAIN rows = 1 .. r /\ LatestOf(rows).seq = r
    BY ChainLatest DEF IInv, LedgerIsAChain
  <1>2. PICK n \in Nat : DOMAIN Visible(s) = 1 .. n
    BY ChainLatest DEF IInv, VisibleChains
  <1>3. DOMAIN Visible(s) = DOMAIN rows \cup DOMAIN own[s]
    BY VisibleDomain
  <1>4. PICK k \in DOMAIN own[s] : k \notin DOMAIN rows
    BY DEF HasFlushed, IInv, NewKeys
  <1>5. k \in 1 .. n /\ k > r
    BY <1>1, <1>2, <1>3, <1>4
  <1>6. r + 1 \in 1 .. n /\ r + 1 \notin DOMAIN rows
    BY <1>1, <1>5
  <1> QED
    BY <1>1, <1>2, <1>3, <1>6

\* The hash and number read by get_latest_entry have their types.
LEMMA LatestType ==
    ASSUME IInv, NEW s \in Session
    PROVE  LatestOf(Visible(s)) \in [seq : Nat, hash : Digest]
  <1>1. PICK n \in Nat :
           /\ DOMAIN Visible(s) = 1 .. n
           /\ LatestOf(Visible(s)) =
                 [seq |-> n, hash |-> IF n = 0 THEN Genesis ELSE Visible(s)[n].entryHash]
    BY ChainLatest DEF IInv, VisibleChains
  <1>2. Genesis \in Digest
    BY DEF Genesis, Digest
  <1>3. n # 0 => Visible(s)[n].entryHash \in Digest
    BY <1>1, VisibleType DEF IInv, Row
  <1> QED
    BY <1>1, <1>2, <1>3

-----------------------------------------------------------------------------
\* The inductive invariant

LEMMA InitIInv == Init => IInv
  <1> SUFFICES ASSUME Init PROVE IInv
    OBVIOUS
  <1>1. DOMAIN rows = {} /\ \A s \in Session : DOMAIN own[s] = {}
    BY DEF Init, NoRows
  <1>2. LatestOf(NoRows) = [seq |-> 0, hash |-> Genesis]
    BY LatestOfEmpty, NoRowsEmpty
  <1>3. Genesis \in Digest
    BY DEF Genesis, Digest
  <1>4. TypeOK
    BY <1>1, <1>2, <1>3 DEF Init, TypeOK
  <1>5. ASSUME NEW f, DOMAIN f = {} PROVE ChainOK(f)
    BY <1>5, LatestOfEmpty DEF ChainOK
  <1>6. LedgerIsAChain
    BY <1>1, <1>5 DEF LedgerIsAChain
  <1>7. VisibleChains
    BY <1>1, <1>5, VisibleDomain DEF VisibleChains
  <1> QED
    BY <1>1, <1>4, <1>6, <1>7
       DEF IInv, NewKeys, OneUncommittedWriter, HasFlushed, StaleReadIsCaught, Init

\* A step that leaves the tables alone leaves every chain alone.
LEMMA SameTables ==
    ASSUME LedgerIsAChain, VisibleChains, UNCHANGED <<rows, own>>
    PROVE  LedgerIsAChain' /\ VisibleChains'
  <1>1. \A s \in Session : Visible(s)' = Visible(s)
    BY DEF Visible
  <1>2. VisibleChains'
    <2> SUFFICES ASSUME NEW s \in Session PROVE ChainOK(Visible(s)')
      BY DEF VisibleChains, ChainOK, LatestOf
    <2> QED
      BY <1>1 DEF VisibleChains
  <1>3. LedgerIsAChain'
    BY DEF LedgerIsAChain, ChainOK, LatestOf
  <1> QED
    BY <1>2, <1>3

\* Reading the latest row changes nothing but what the session knows.
LEMMA GetLatestEntryStep ==
    ASSUME IInv, NEW s \in Session, NEW body \in Body, GetLatestEntry(s, body)
    PROVE  IInv'
  <1> USE DEF GetLatestEntry
  <1>1. TypeOK'
    BY LatestType DEF IInv, TypeOK
  <1>2. LedgerIsAChain' /\ VisibleChains'
    BY SameTables DEF IInv
  <1>3. NewKeys' /\ OneUncommittedWriter'
    BY DEF IInv, NewKeys, OneUncommittedWriter, HasFlushed
  <1>4. StaleReadIsCaught'
    <2> SUFFICES ASSUME NEW t \in Session, pc'[t] = "read"
                 PROVE  \/ latest'[t] = LatestOf(Visible(t))
                        \/ ~HasFlushed(t) /\ latest'[t].seq + 1 \in DOMAIN rows
      BY DEF StaleReadIsCaught, LatestOf, Visible, HasFlushed, NextSequence
    <2>1. CASE t = s
      BY <2>1 DEF IInv, TypeOK
    <2>2. CASE t # s
      BY <2>2 DEF IInv, TypeOK, StaleReadIsCaught, NextSequence
    <2> QED
      BY <2>1, <2>2
  <1> QED
    BY <1>1, <1>2, <1>3, <1>4 DEF IInv

\* The primary key lets a row in only if it continues what the session sees,
\* and only while no other session has flushed rows.
LEMMA InsertRowStep ==
    ASSUME IInv, NEW s \in Session, InsertRow(s)
    PROVE  IInv'
  <1> DEFINE key == NextSequence(s)
             row == NewRow(key, draft[s], latest[s].hash)
  <1>1. /\ pc[s] = "read"
        /\ ~KeyHeldByOther(s, key)
        /\ key \notin DOMAIN rows /\ key \notin DOMAIN own[s]
        /\ UNCHANGED <<rows, latest, draft>>
        /\ pc' = [pc EXCEPT ![s] = "idle"]
        /\ \A t \in Session \ {s} : own'[t] = own[t]
        /\ DOMAIN own' = Session
        /\ DOMAIN own'[s] = DOMAIN own[s] \cup {key}
        /\ own'[s][key] = row
        /\ \A k \in DOMAIN own[s] : own'[s][k] = own[s][k]
    BY DEF InsertRow, KeyTaken, IInv, TypeOK
  <1>2. latest[s] = LatestOf(Visible(s)) /\ key = LatestOf(Visible(s)).seq + 1
    BY <1>1 DEF IInv, StaleReadIsCaught, NextSequence
  <1>3. key \in Nat /\ row \in Row
    <2>1. latest[s].seq \in Nat /\ latest[s].hash \in Digest /\ draft[s] \in Body
      BY DEF IInv, TypeOK
    <2> QED
      BY <2>1, EntryHashType DEF NextSequence
  <1> HIDE DEF row
  <1>4. TypeOK'
    <2>1. ASSUME NEW t \in Session
          PROVE  DOMAIN own'[t] \subseteq Nat /\ \A k \in DOMAIN own'[t] : own'[t][k] \in Row
      BY <1>1, <1>3 DEF IInv, TypeOK
    <2> QED
      BY <1>1, <2>1 DEF IInv, TypeOK
  <1>5. ASSUME NEW t \in Session \ {s}
        PROVE  /\ DOMAIN own[t] = {}
               /\ Visible(t)' = Visible(t)
    <2>1. Visible(t)' = Visible(t)
      BY <1>1 DEF Visible
    <2>2. ASSUME HasFlushed(t) PROVE FALSE
      <3>1. ~HasFlushed(s)
        BY <2>2 DEF IInv, OneUncommittedWriter
      <3>2. LatestOf(rows).seq + 1 = key
        BY <3>1, <1>2, VisibleToOthers DEF IInv
      <3>3. key \in DOMAIN own[t]
        BY <2>2, <3>2, WriterHoldsNextKey
      <3> QED
        BY <3>3, <1>1 DEF KeyHeldByOther
    <2> QED
      BY <2>1, <2>2 DEF HasFlushed
  <1>6. ChainOK(Visible(s)')
    <2>1. /\ DOMAIN Visible(s)' = DOMAIN Visible(s) \cup {key}
          /\ \A k \in DOMAIN Visible(s) : Visible(s)'[k] = Visible(s)[k]
          /\ Visible(s)'[key] = row
      BY <1>1 DEF Visible
    <2>2. ChainOK(Visible(s))
      BY DEF IInv, VisibleChains
    <2>3. row = NewRow(key, draft[s], LatestOf(Visible(s)).hash)
      BY <1>2 DEF row
    <2> HIDE DEF key
    <2> QED
      BY <2>1, <2>2, <2>3, <1>2, ChainExtended
  <1>7. VisibleChains'
    <2> SUFFICES ASSUME NEW t \in Session PROVE ChainOK(Visible(t)')
      BY DEF VisibleChains, ChainOK, LatestOf
    <2> QED
      BY <1>5, <1>6 DEF IInv, VisibleChains
  <1>8. LedgerIsAChain'
    BY <1>1 DEF IInv, LedgerIsAChain, ChainOK, LatestOf
  <1>9. NewKeys' /\ OneUncommittedWriter'
    BY <1>1, <1>5 DEF IInv, NewKeys, OneUncommittedWriter, HasFlushed
  <1>10. StaleReadIsCaught'
    <2> SUFFICES ASSUME NEW t \in Session, pc'[t] = "read"
                 PROVE  \/ latest[t] = LatestOf(Visible(t)')
                        \/ DOMAIN own'[t] = {} /\ latest[t].seq + 1 \in DOMAIN rows
      BY <1>1 DEF StaleReadIsCaught, LatestOf, HasFlushed, NextSequence
    <2>1. t # s /\ pc[t] = "read"
      BY <1>1 DEF IInv, TypeOK
    <2> QED
      BY <2>1, <1>1, <1>5 DEF IInv, StaleReadIsCaught, NextSequence, HasFlushed
  <1> QED
    BY <1>4, <1>7, <1>8, <1>9, <1>10 DEF IInv

\* A transaction that is rolled back takes its flushed rows with it.
LEMMA DiscardStep ==
    ASSUME IInv, NEW s \in Session, Discard(s)
    PROVE  IInv'
  <1>1. /\ UNCHANGED <<rows, latest, draft>>
        /\ pc' = [pc EXCEPT ![s] = "idle"]
        /\ \A t \in Session \ {s} : own'[t] = own[t]
        /\ DOMAIN own' = Session
        /\ DOMAIN own'[s] = {}
    BY NoRowsEmpty DEF Discard, IInv, TypeOK
  <1>2. TypeOK'
    BY <1>1 DEF IInv, TypeOK
  <1>3. ASSUME NEW t \in Session \ {s} PROVE Visible(t)' = Visible(t)
    BY <1>1 DEF Visible
  <1>4. ChainOK(Visible(s)')
    <2>1. DOMAIN Visible(s)' = DOMAIN rows /\ \A k \in DOMAIN rows : Visible(s)'[k] = rows[k]
      BY <1>1 DEF Visible
    <2> QED
      BY <2>1, ChainSameRows DEF IInv, LedgerIsAChain
  <1>5. VisibleChains'
    <2> SUFFICES ASSUME NEW t \in Session PROVE ChainOK(Visible(t)')
      BY DEF VisibleChains, ChainOK, LatestOf
    <2> QED
      BY <1>3, <1>4 DEF IInv, VisibleChains
  <1>6. LedgerIsAChain'
    BY <1>1 DEF IInv, LedgerIsAChain, ChainOK, LatestOf
  <1>7. NewKeys' /\ OneUncommittedWriter'
    BY <1>1 DEF IInv, NewKeys, OneUncommittedWriter, HasFlushed
  <1>8. StaleReadIsCaught'
    <2> SUFFICES ASSUME NEW t \in Session, pc'[t] = "read"
                 PROVE  \/ latest[t] = LatestOf(Visible(t)')
                        \/ DOMAIN own'[t] = {} /\ latest[t].seq + 1 \in DOMAIN rows
      BY <1>1 DEF StaleReadIsCaught, LatestOf, HasFlushed, NextSequence
    <2>1. t # s /\ pc[t] = "read"
      BY <1>1 DEF IInv, TypeOK
    <2> QED
      BY <2>1, <1>1, <1>3 DEF IInv, StaleReadIsCaught, NextSequence, HasFlushed
  <1> QED
    BY <1>2, <1>5, <1>6, <1>7, <1>8 DEF IInv

\* A commit makes every other session's read stale, and takes the key that
\* each of them would insert next.
LEMMA CommitStep ==
    ASSUME IInv, NEW s \in Session, Commit(s)
    PROVE  IInv'
  <1>1. /\ pc[s] = "idle" /\ HasFlushed(s)
        /\ rows' = Visible(s)
        /\ UNCHANGED <<pc, latest, draft>>
        /\ \A t \in Session \ {s} : own'[t] = own[t]
        /\ DOMAIN own' = Session
        /\ DOMAIN own'[s] = {}
    BY NoRowsEmpty DEF Commit, IInv, TypeOK
  <1>2. \A t \in Session : DOMAIN own'[t] = {}
    BY <1>1 DEF IInv, OneUncommittedWriter, HasFlushed
  <1>3. DOMAIN rows \subseteq DOMAIN rows' /\ LatestOf(rows).seq + 1 \in DOMAIN rows'
    BY <1>1, VisibleDomain, WriterHoldsNextKey
  <1>4. TypeOK'
    BY <1>1, <1>2, VisibleType DEF IInv, TypeOK
  <1>5. ChainOK(rows')
    BY <1>1 DEF IInv, VisibleChains
  <1>6. LedgerIsAChain'
    BY <1>5 DEF LedgerIsAChain, ChainOK, LatestOf
  <1>7. VisibleChains'
    <2> SUFFICES ASSUME NEW t \in Session PROVE ChainOK(Visible(t)')
      BY DEF VisibleChains, ChainOK, LatestOf
    <2>1. DOMAIN Visible(t)' = DOMAIN rows' /\ \A k \in DOMAIN rows' : Visible(t)'[k] = rows'[k]
      BY <1>2 DEF Visible
    <2> QED
      BY <2>1, <1>5, ChainSameRows
  <1>8. NewKeys' /\ OneUncommittedWriter'
    BY <1>2 DEF NewKeys, OneUncommittedWriter, HasFlushed
  <1>9. StaleReadIsCaught'
    <2> SUFFICES ASSUME NEW t \in Session, pc[t] = "read"
                 PROVE  latest[t].seq + 1 \in DOMAIN rows'
      BY <1>1, <1>2 DEF StaleReadIsCaught, HasFlushed, NextSequence
    <2>1. t # s /\ ~HasFlushed(t)
      BY <1>1 DEF IInv, OneUncommittedWriter
    <2>2. CASE latest[t] = LatestOf(Visible(t))
      BY <2>1, <2>2, <1>3, VisibleToOthers DEF IInv
    <2>3. CASE latest[t].seq + 1 \in DOMAIN rows
      BY <2>3, <1>3
    <2> QED
      BY <2>2, <2>3 DEF IInv, StaleReadIsCaught, NextSequence
  <1> QED
    BY <1>4, <1>6, <1>7, <1>8, <1>9 DEF IInv

LEMMA NextIInv == IInv /\ [Next]_vars => IInv'
  <1> SUFFICES ASSUME IInv, [Next]_vars PROVE IInv'
    OBVIOUS
  <1>1. CASE UNCHANGED vars
    <2>1. TypeOK' /\ NewKeys' /\ OneUncommittedWriter'
      BY <1>1 DEF vars, IInv, TypeOK, NewKeys, OneUncommittedWriter, HasFlushed
    <2>2. LedgerIsAChain' /\ VisibleChains'
      BY <1>1, SameTables DEF vars, IInv
    <2>3. StaleReadIsCaught'
      BY <1>1 DEF vars, IInv, StaleReadIsCaught, HasFlushed, NextSequence,
                  LatestOf, Visible
    <2> QED
      BY <2>1, <2>2, <2>3 DEF IInv
  <1>2. CASE Next
    BY <1>2, GetLatestEntryStep, InsertRowStep, DiscardStep, CommitStep
       DEF Next, InsertConflict, Rollback
  <1> QED
    BY <1>1, <1>2

LEMMA SpecIInv == Spec => []IInv
BY InitIInv, NextIInv, PTL DEF Spec

-----------------------------------------------------------------------------

\* The tables and the sessions' local variables keep their types.
THEOREM LedgerTypeCorrect == Spec => []TypeOK
  <1>1. IInv => TypeOK
    BY DEF IInv
  <1> QED
    BY <1>1, SpecIInv, PTL

\* However many sessions race, the committed ledger is one chain from genesis.
THEOREM LedgerChain == Spec => []LedgerIsAChain
  <1>1. IInv => LedgerIsAChain
    BY DEF IInv
  <1> QED
    BY <1>1, SpecIInv, PTL

\* Two transactions never both hold uncommitted rows, so no two wait for each
\* other.
THEOREM LedgerOneWriter == Spec => []OneUncommittedWriter
  <1>1. IInv => OneUncommittedWriter
    BY DEF IInv
  <1> QED
    BY <1>1, SpecIInv, PTL

\* A stale read of the latest row always ends in a primary-key conflict.
THEOREM LedgerStaleReads == Spec => []StaleReadIsCaught
  <1>1. IInv => StaleReadIsCaught
    BY DEF IInv
  <1> QED
    BY <1>1, SpecIInv, PTL

-----------------------------------------------------------------------------
\* The ledger implements the append-only log

BodiesOf(f) == [k \in DOMAIN f |-> f[k].body]

LogOf == BodiesOf(rows)

\* The bodies of a chain of rows are a sequence.
LEMMA BodiesAreSequence ==
    ASSUME NEW f, ChainOK(f), \A k \in DOMAIN f : f[k] \in Row
    PROVE  \E n \in Nat :
              /\ DOMAIN f = 1 .. n /\ LatestOf(f).seq = n
              /\ BodiesOf(f) \in Seq(Body) /\ Len(BodiesOf(f)) = n
  <1>1. PICK n \in Nat : DOMAIN f = 1 .. n /\ LatestOf(f).seq = n
    BY ChainLatest
  <1>2. BodiesOf(f) \in [1 .. n -> Body]
    BY <1>1 DEF BodiesOf, Row
  <1>3. BodiesOf(f) \in Seq(Body) /\ Len(BodiesOf(f)) = n
    BY <1>2
  <1> QED
    BY <1>1, <1>3

LEMMA LogInit == Init => Log!Init
  <1> SUFFICES ASSUME Init PROVE LogOf = << >>
    BY DEF Log!Init, LogOf, BodiesOf
  <1>1. DOMAIN rows = {}
    BY DEF Init, NoRows
  <1>2. LogOf \in [1 .. 0 -> Body]
    BY <1>1 DEF LogOf, BodiesOf
  <1>3. LogOf \in Seq(Body) /\ Len(LogOf) = 0
    BY <1>2
  <1> QED
    BY <1>3

\* A commit extends the log, and every other step leaves it as it is.
LEMMA LogStep ==
    ASSUME IInv, [Next]_vars
    PROVE  Log!Extend \/ LogOf' = LogOf
  <1>1. CASE UNCHANGED rows
    BY <1>1 DEF LogOf, BodiesOf
  <1>2. ASSUME NEW s \in Session, Commit(s) PROVE Log!Extend
    <2>1. rows' = Visible(s) /\ HasFlushed(s)
      BY <1>2 DEF Commit
    <2>2. PICK n \in Nat : /\ DOMAIN rows = 1 .. n /\ LatestOf(rows).seq = n
                           /\ LogOf \in Seq(Body) /\ Len(LogOf) = n
      BY BodiesAreSequence DEF IInv, TypeOK, LedgerIsAChain, LogOf
    <2>3. PICK m \in Nat : /\ DOMAIN rows' = 1 .. m
                           /\ BodiesOf(rows') \in Seq(Body) /\ Len(BodiesOf(rows')) = m
      <3>1. ChainOK(rows') /\ \A k \in DOMAIN rows' : rows'[k] \in Row
        BY <2>1, VisibleType DEF IInv, VisibleChains
      <3> QED
        BY <3>1, BodiesAreSequence
    <2>4. n < m
      <3>1. n + 1 \in DOMAIN rows'
        BY <2>1, <2>2, WriterHoldsNextKey, VisibleDomain
      <3> QED
        BY <3>1, <2>3
    <2>5. \A k \in 1 .. n : BodiesOf(rows')[k] = LogOf[k]
      <3> TAKE k \in 1 .. n
      <3>1. k \in DOMAIN rows /\ k \notin DOMAIN own[s] /\ k \in DOMAIN rows'
        BY <2>2, <2>3, <2>4 DEF IInv, NewKeys
      <3>2. rows'[k] = rows[k]
        BY <3>1, <2>1, VisibleDomain
      <3> QED
        BY <3>1, <3>2 DEF LogOf, BodiesOf
    <2> QED
      BY <2>2, <2>3, <2>4, <2>5 DEF Log!Extend, LogOf, BodiesOf
  <1>3. UNCHANGED rows \/ \E s \in Session : Commit(s)
    BY DEF Next, vars, GetLatestEntry, InsertRow, InsertConflict, Rollback, Discard
  <1> QED
    BY <1>1, <1>2, <1>3

\* Every behaviour of the ledger is one of the append-only log: committed
\* entries are never changed, moved or lost, and new ones come at the end.
THEOREM LedgerAppendOnly == Spec => LedgerIsAppendOnly
  <1>1. IInv /\ [Next]_vars => [Log!Extend]_[k \in DOMAIN rows |-> rows[k].body]
    BY LogStep DEF LogOf, BodiesOf
  <1> QED
    BY <1>1, LogInit, SpecIInv, PTL DEF Spec, LedgerIsAppendOnly, Log!Spec

=============================================================================

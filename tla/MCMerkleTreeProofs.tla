------------------------- MODULE MCMerkleTreeProofs --------------------------
(***************************************************************************)
(* The three properties that MCMerkleTree checks on up to MaxLeaves        *)
(* leaves, for any number of them and any set of entry hashes.             *)
(*                                                                         *)
(* That pairing layer by layer gives the tree of RFC 6962: the reference   *)
(* definition splits the parents of a layer where it splits the layer, as  *)
(* the split of half as many nodes is half of the split (SplitOfHalf); so  *)
(* it gives one hash to every layer, up to the root itself.                *)
(***************************************************************************)
EXTENDS MCIntegrityAnchor, MerkleTreeProofs

LEMMA LeavesType == MCSpec => [](leafHashes \in Seq(EntryHash))
  <1> DEFINE Inv == leafHashes \in Seq(EntryHash)
  <1>1. MCInit => Inv
    BY DEF MCInit
  <1>2. ASSUME Inv, [MCNext]_<<vars, leafHashes>> PROVE Inv'
    <2>1. CASE leafHashes' = << >>
      BY <2>1
    <2>2. CASE AddLeaf
      <3>1. PICK h \in EntryHash : leafHashes' = Append(leafHashes, h)
        BY <2>2 DEF AddLeaf
      <3> QED
        BY <1>2, <3>1
    <2>3. CASE leafHashes' = leafHashes
      BY <1>2, <2>3
    <2> QED
      BY <1>2, <2>1, <2>2, <2>3 DEF MCNext
  <1> QED
    BY <1>1, <1>2, PTL DEF MCSpec

\* With another leaf hash in it, the proof of a leaf leads to another root: the
\* steps of a proof lose nothing of what they start from.
THEOREM ProofVouchesForItsLeaf == MCSpec => []ProofRefusesAnotherLeaf
  <1>1. ASSUME leafHashes \in Seq(EntryHash) PROVE ProofRefusesAnotherLeaf
    <2> SUFFICES ASSUME NEW i \in 0 .. Len(leafHashes) - 1, NEW h \in EntryHash
                 PROVE  VerifyProof([GetProof(leafHashes, i) EXCEPT !.leafHash = h])
                          <=> h = leafHashes[i + 1]
      BY DEF ProofRefusesAnotherLeaf, Indices
    <2> DEFINE proof == GetProof(leafHashes, i)
               tampered == [proof EXCEPT !.leafHash = h]
               leaf == leafHashes[i + 1]
               root == MerkleRoot(leafHashes)
    <2>1. IsSequence(leafHashes)
      BY <1>1 DEF IsSequence
    <2>2. /\ IsSequence(proof.proofSteps)
          /\ proof.leafHash = leaf
          /\ proof.root = root
          /\ RootFrom(proof.leafHash, proof.proofSteps) = root
      BY <2>1, ProofLeadsToRoot
    <2>3. /\ tampered.leafHash = h /\ tampered.proofSteps = proof.proofSteps /\ tampered.root = proof.root
      BY DEF GetProof
    <2> HIDE DEF proof, tampered, root
    <2>4. RootOfProof(tampered) = RootFrom(tampered.leafHash, tampered.proofSteps)
      BY DEF RootOfProof, RootFrom
    <2>5. RootOfProof(tampered) = RootFrom(h, proof.proofSteps)
      BY <2>3, <2>4
    <2>6. VerifyProof(tampered) <=> RootFrom(h, proof.proofSteps) = RootFrom(leaf, proof.proofSteps)
      BY <2>2, <2>3, <2>5 DEF VerifyProof
    <2>7. RootFrom(h, proof.proofSteps) = RootFrom(leaf, proof.proofSteps) => h = leaf
      BY <2>2, RootFromIsInjective
    <2>8. VerifyProof(tampered) <=> h = leaf
      BY <2>6, <2>7
    <2> QED
      BY <2>8 DEF tampered, proof
  <1> QED
    BY <1>1, LeavesType, PTL

\* A batch cut short, and a batch with one leaf changed, have another root.
THEOREM RootPinsTheLeaves == MCSpec => []RootCommitsToLeaves
  <1>1. ASSUME leafHashes \in Seq(EntryHash) PROVE RootCommitsToLeaves
    <2>1. IsSequence(leafHashes) /\ Len(leafHashes) \in Nat
      BY <1>1 DEF IsSequence
    <2>2. ASSUME NEW n \in 1 .. Len(leafHashes) - 1
          PROVE  MerkleRoot(SubSeq(leafHashes, 1, n)) # MerkleRoot(leafHashes)
      <3> DEFINE cut == SubSeq(leafHashes, 1, n)
      <3>1. cut \in Seq(EntryHash) /\ Len(cut) = n /\ n >= 1 /\ n # Len(leafHashes)
            /\ Len(leafHashes) >= 1
        BY <1>1, <2>1
      <3>2. IsSequence(cut) /\ Len(cut) >= 1 /\ cut # leafHashes
        BY <3>1 DEF IsSequence
      <3> HIDE DEF cut
      <3>3. MerkleRoot(cut) # MerkleRoot(leafHashes)
        BY <2>1, <3>1, <3>2, RootCommits
      <3> QED
        BY <3>3 DEF cut
    <2>3. ASSUME NEW i \in DOMAIN leafHashes, NEW h \in EntryHash, h # leafHashes[i]
          PROVE  MerkleRoot([leafHashes EXCEPT ![i] = h]) # MerkleRoot(leafHashes)
      <3> DEFINE changed == [leafHashes EXCEPT ![i] = h]
      <3>1. changed \in Seq(EntryHash) /\ Len(changed) = Len(leafHashes) /\ changed[i] = h
        BY <1>1
      <3>2. Len(leafHashes) >= 1
        BY <1>1, <2>1
      <3>3. IsSequence(changed) /\ changed # leafHashes /\ Len(changed) >= 1
        BY <2>3, <3>1, <3>2 DEF IsSequence
      <3> HIDE DEF changed
      <3>4. MerkleRoot(changed) # MerkleRoot(leafHashes)
        BY <2>1, <3>2, <3>3, RootCommits
      <3> QED
        BY <3>4 DEF changed
    <2> QED
      BY <2>2, <2>3 DEF RootCommitsToLeaves
  <1> QED
    BY <1>1, LeavesType, PTL

-----------------------------------------------------------------------------
\* Powers of two, and the split of the reference definition

\* That d divides k, without the remainder.
LEMMA Divides ==
    ASSUME NEW k \in Nat, NEW d \in Nat, d >= 1
    PROVE  k % d = 0 <=> \E q \in Nat : k = d * q
  <1>1. ASSUME k % d = 0 PROVE \E q \in Nat : k = d * q
    <2> DEFINE q == k \div d
    <2>1. k = d * q + (k % d) /\ q \in Nat
      OBVIOUS
    <2> HIDE DEF q
    <2>2. k = d * q
      BY <1>1, <2>1
    <2> QED
      BY <2>1, <2>2
  <1>2. ASSUME NEW q \in Nat, k = d * q PROVE k % d = 0
    BY <1>2
  <1> QED
    BY <1>1, <1>2

\* A power of two above one is the double of another, ...
LEMMA HalfOfPower ==
    ASSUME NEW k \in Nat, k >= 2, IsPowerOfTwo(k)
    PROVE  \E half \in Nat : half >= 1 /\ k = 2 * half /\ IsPowerOfTwo(half)
  <1>1. k % k = 0
    <2>1. k = k * 1 /\ 1 \in Nat
      OBVIOUS
    <2> QED
      BY <2>1, Divides
  <1>2. k % 2 = 0
    BY <1>1 DEF IsPowerOfTwo
  <1>3. PICK half \in Nat : k = 2 * half
    BY <1>2, Divides
  <1>4. ASSUME NEW d \in 2 .. half, half % d = 0 PROVE d % 2 = 0
    <2>1. PICK q \in Nat : half = d * q
      BY <1>4, Divides
    <2>2. k = d * (2 * q) /\ 2 * q \in Nat /\ d \in Nat /\ d >= 1
      BY <1>3, <2>1
    <2>3. k % d = 0
      BY <2>2, Divides
    <2>4. d \in 2 .. k
      BY <1>3
    <2> QED
      BY <2>3, <2>4 DEF IsPowerOfTwo
  <1>5. half >= 1
    BY <1>3
  <1>6. IsPowerOfTwo(half)
    BY <1>4 DEF IsPowerOfTwo
  <1> QED
    BY <1>3, <1>5, <1>6

\* ... and the double of a power of two is one.
LEMMA DoubleOfPower ==
    ASSUME NEW k \in Nat, k >= 1, IsPowerOfTwo(k)
    PROVE  IsPowerOfTwo(2 * k)
  <1> SUFFICES ASSUME NEW d \in 2 .. 2 * k, (2 * k) % d = 0, d % 2 # 0 PROVE FALSE
    BY DEF IsPowerOfTwo
  <1>1. PICK q \in Nat : 2 * k = d * q
    BY Divides
  <1>2. PICK e \in Nat : d = 2 * e + 1
    <2>1. d = 2 * (d \div 2) + 1 /\ d \div 2 \in Nat
      OBVIOUS
    <2> QED
      BY <2>1
  <1>3. PICK r \in Nat : q = 2 * r \/ q = 2 * r + 1
    <2>1. q = 2 * (q \div 2) \/ q = 2 * (q \div 2) + 1
      OBVIOUS
    <2> QED
      BY <2>1
  <1>4. q = 2 * r
    <2> SUFFICES ASSUME q = 2 * r + 1 PROVE FALSE
      BY <1>3
    <2> DEFINE x == e * r
    <2>1. 2 * k = 4 * (e * r) + 2 * e + 2 * r + 1
      BY <1>1, <1>2
    <2>2. x \in Nat /\ 2 * k = 4 * x + 2 * e + 2 * r + 1
      BY <2>1
    <2> HIDE DEF x
    <2> QED
      BY <2>2
  <1>5. k = d * r
    BY <1>1, <1>4
  <1>6. d \in Nat /\ d >= 1 /\ r # 0
    BY <1>5
  <1>7. k % d = 0
    BY <1>5, <1>6, Divides
  <1>8. d <= k
    BY <1>5, <1>6
  <1>9. d % 2 = 0
    BY <1>7, <1>8 DEF IsPowerOfTwo
  <1> QED
    BY <1>9

\* No power of two lies between a power of two and its double.
LEMMA NoPowerBetween ==
    ASSUME NEW a \in Nat, a >= 1, IsPowerOfTwo(a),
           NEW b \in Nat, IsPowerOfTwo(b), a < b, b < 2 * a
    PROVE  FALSE
  <1> DEFINE S == {x \in Nat : /\ x >= 1 /\ IsPowerOfTwo(x)
                               /\ \E y \in Nat : IsPowerOfTwo(y) /\ x < y /\ y < 2 * x}
  <1>1. S \subseteq Nat /\ a \in S
    OBVIOUS
  <1>2. PICK x \in S : \A y \in S : x <= y
    <2> HIDE DEF S
    <2> QED
      BY <1>1, LeastElement
  <1>3. PICK y \in Nat : IsPowerOfTwo(y) /\ x < y /\ y < 2 * x
    OBVIOUS
  <1>4. x \in Nat /\ x >= 2 /\ y >= 2 /\ IsPowerOfTwo(x)
    BY <1>3
  <1>5. PICK u \in Nat : u >= 1 /\ x = 2 * u /\ IsPowerOfTwo(u)
    BY <1>4, HalfOfPower
  <1>6. PICK v \in Nat : v >= 1 /\ y = 2 * v /\ IsPowerOfTwo(v)
    BY <1>3, <1>4, HalfOfPower
  <1>7. u < v /\ v < 2 * u /\ u < x
    BY <1>3, <1>5, <1>6
  <1>8. u \in S
    BY <1>5, <1>6, <1>7
  <1> HIDE DEF S
  <1> QED
    BY <1>2, <1>4, <1>5, <1>7, <1>8

\* There is one split of n leaves: any two powers of two that would do lie within a
\* factor of two of each other.
IsSplit(k, n) == k \in 1 .. n - 1 /\ IsPowerOfTwo(k) /\ n <= 2 * k

LEMMA SplitIsUnique ==
    ASSUME NEW n \in Nat, NEW k, IsSplit(k, n), NEW l, IsSplit(l, n)
    PROVE  k = l
  <1>1. /\ k \in Nat /\ k >= 1 /\ k < n /\ n <= 2 * k /\ IsPowerOfTwo(k)
        /\ l \in Nat /\ l >= 1 /\ l < n /\ n <= 2 * l /\ IsPowerOfTwo(l)
    BY DEF IsSplit
  <1>2. ~(k < l)
    <2> SUFFICES ASSUME k < l PROVE FALSE
      OBVIOUS
    <2>1. l < 2 * k
      BY <1>1
    <2> QED
      BY <1>1, <2>1, NoPowerBetween
  <1>3. ~(l < k)
    <2> SUFFICES ASSUME l < k PROVE FALSE
      OBVIOUS
    <2>1. k < 2 * l
      BY <1>1
    <2> QED
      BY <1>1, <2>1, NoPowerBetween
  <1> QED
    BY <1>1, <1>2, <1>3

\* The split of two leaves, and of more from that of half as many.
LEMMA SplitOfTwo == IsSplit(1, 2)
  BY DEF IsSplit, IsPowerOfTwo

LEMMA SplitOfMore ==
    ASSUME NEW n \in Nat, n > 2, NEW k, IsSplit(k, (n + 1) \div 2)
    PROVE  IsSplit(2 * k, n)
  <1>1. k \in Nat /\ k >= 1 /\ IsPowerOfTwo(k) /\ k < (n + 1) \div 2 /\ (n + 1) \div 2 <= 2 * k
    BY DEF IsSplit
  <1>2. 2 * k \in 1 .. n - 1 /\ n <= 2 * (2 * k)
    BY <1>1
  <1> QED
    BY <1>1, <1>2, DoubleOfPower DEF IsSplit

\* Every number of leaves from two on has a split, by the smallest counterexample.
LEMMA SplitExists ==
    ASSUME NEW n \in Nat, n >= 2
    PROVE  \E k : IsSplit(k, n)
  <1> DEFINE S == {m \in Nat : m >= 2 /\ ~ \E k : IsSplit(k, m)}
  <1>1. ASSUME S # {} PROVE FALSE
    <2>1. PICK m \in S : \A y \in S : m <= y
      <3>1. S \subseteq Nat
        OBVIOUS
      <3> HIDE DEF S
      <3> QED
        BY <1>1, <3>1, LeastElement
    <2>2. m \in Nat /\ m >= 2 /\ ~ \E k : IsSplit(k, m)
      OBVIOUS
    <2>3. m > 2
      BY <2>2, SplitOfTwo
    <2> DEFINE half == (m + 1) \div 2
    <2>4. half \in Nat /\ half >= 2 /\ half < m
      BY <2>2, <2>3
    <2>5. half \notin S
      <3> HIDE DEF S, half
      <3> QED
        BY <2>1, <2>2, <2>4
    <2>6. \E k : IsSplit(k, half)
      <3> HIDE DEF half
      <3> QED
        BY <2>4, <2>5
    <2> QED
      BY <2>2, <2>3, <2>6, SplitOfMore
  <1> QED
    BY <1>1

LEMMA SplitIsTheSplit ==
    ASSUME NEW n \in Nat, n >= 2
    PROVE  IsSplit(Split(n), n)
BY SplitExists DEF IsSplit, Split

\* The split of half as many leaves is half of the split.
LEMMA SplitOfHalf ==
    ASSUME NEW n \in Nat, n > 2
    PROVE  Split(n) = 2 * Split((n + 1) \div 2)
  <1> DEFINE half == (n + 1) \div 2
  <1>1. half \in Nat /\ half >= 2
    OBVIOUS
  <1>2. IsSplit(Split(half), half)
    <2> HIDE DEF half
    <2> QED
      BY <1>1, SplitIsTheSplit
  <1>3. IsSplit(2 * Split(half), n)
    BY <1>2, SplitOfMore
  <1>4. IsSplit(Split(n), n)
    BY SplitIsTheSplit
  <1> HIDE DEF half
  <1> QED
    BY <1>3, <1>4, SplitIsUnique DEF half


-----------------------------------------------------------------------------
\* The hashes of up to m of the nodes of a list of size many, by the split of the
\* reference definition.
IsReference(mth, nodes, size, m) ==
    mth = [n \in 1 .. m |->
            [from \in 1 .. size - n + 1 |->
                IF n = 1
                  THEN nodes[from]
                  ELSE HashInternal(mth[Split(n)][from],
                                    mth[n - Split(n)][from + Split(n)])]]

LEMMA ReferenceExists ==
    ASSUME NEW nodes, NEW size \in Nat, NEW n \in Nat
    PROVE  \E f : IsReference(f, nodes, size, n)
  <1> DEFINE Missing == {m \in Nat : ~ \E f : IsReference(f, nodes, size, m)}
  <1>1. ASSUME Missing # {} PROVE FALSE
    <2>1. Missing \subseteq Nat
      OBVIOUS
    <2>2. PICK m \in Missing : \A k \in Missing : m <= k
      <3> HIDE DEF Missing
      <3> QED
        BY <1>1, <2>1, LeastElement
    <2>3. m \in Nat
      OBVIOUS
    <2>4. m # 0
      <3>1. IsReference([r \in 1 .. 0 |-> nodes], nodes, size, 0)
        BY Z3 DEF IsReference
      <3> QED
        BY <2>2, <3>1
    <2>5. PICK f : IsReference(f, nodes, size, m - 1)
      <3>1. m - 1 \in Nat /\ m - 1 \notin Missing
        <4> HIDE DEF Missing
        <4> QED
          BY <2>2, <2>3, <2>4
      <3> QED
        BY <3>1
    <2> HIDE DEF Missing
    <2> DEFINE row(h, r) ==
                   [from \in 1 .. size - r + 1 |->
                       IF r = 1 THEN nodes[from]
                                ELSE HashInternal(h[Split(r)][from],
                                                  h[r - Split(r)][from + Split(r)])]
               g == [r \in 1 .. m |-> row(f, r)]
    <2>6. f = [r \in 1 .. m - 1 |-> row(f, r)]
      BY <2>5 DEF IsReference
    <2>7. ASSUME NEW r \in 1 .. m - 1 PROVE f[r] = g[r]
      <3> HIDE DEF row
      <3> QED
        BY <2>3, <2>6
    <2>8. ASSUME NEW r \in 1 .. m PROVE row(f, r) = row(g, r)
      <3>1. CASE r = 1
        BY <3>1
      <3>2. CASE r # 1
        <4>1. r \in Nat /\ r >= 2
          BY <2>3, <3>2
        <4>2. Split(r) \in 1 .. r - 1
          BY <4>1, SplitIsTheSplit DEF IsSplit
        <4>3. Split(r) \in 1 .. m - 1 /\ r - Split(r) \in 1 .. m - 1
          BY <2>3, <4>2
        <4>4. f[Split(r)] = g[Split(r)] /\ f[r - Split(r)] = g[r - Split(r)]
          BY <2>7, <4>3
        <4> HIDE DEF g
        <4> QED
          BY <4>4
      <3> QED
        BY <3>1, <3>2
    <2>9. g = [r \in 1 .. m |-> row(g, r)]
      <3> HIDE DEF row
      <3> QED
        BY <2>8
    <2>10. IsReference(g, nodes, size, m)
      BY <2>9 DEF IsReference
    <2> QED
      BY <2>2, <2>10 DEF Missing
  <1>2. n \notin Missing
    <2> HIDE DEF Missing
    <2> QED
      BY <1>1
  <1> QED
    BY <1>2

SplitsAtPowers(mth, nodes, size) ==
    /\ \A from \in 1 .. size : mth[1][from] = nodes[from]
    /\ \A n \in 2 .. size, from \in 1 .. size :
          from + n - 1 <= size =>
              /\ Split(n) \in 1 .. n - 1
              /\ mth[n][from] = HashInternal(mth[Split(n)][from],
                                             mth[n - Split(n)][from + Split(n)])

LEMMA ReferenceHashes ==
    ASSUME NEW nodes, NEW size \in Nat, NEW mth, IsReference(mth, nodes, size, size)
    PROVE  SplitsAtPowers(mth, nodes, size)
  <1>1. ASSUME NEW n \in 1 .. size, NEW from \in 1 .. size - n + 1
        PROVE  mth[n][from] = IF n = 1 THEN nodes[from]
                                       ELSE HashInternal(mth[Split(n)][from],
                                                         mth[n - Split(n)][from + Split(n)])
    <2> DEFINE row(r) ==
                   [w \in 1 .. size - r + 1 |->
                       IF r = 1 THEN nodes[w]
                                ELSE HashInternal(mth[Split(r)][w],
                                                  mth[r - Split(r)][w + Split(r)])]
    <2>1. mth = [r \in 1 .. size |-> row(r)]
      BY DEF IsReference
    <2>2. mth[n] = row(n)
      <3> HIDE DEF row
      <3> QED
        BY <2>1
    <2> QED
      BY <2>2
  <1>2. ASSUME NEW from \in 1 .. size PROVE mth[1][from] = nodes[from]
    <2>1. 1 \in 1 .. size /\ from \in 1 .. size - 1 + 1
      OBVIOUS
    <2> QED
      BY <1>1, <2>1
  <1>3. ASSUME NEW n \in 2 .. size, NEW from \in 1 .. size, from + n - 1 <= size
        PROVE  /\ Split(n) \in 1 .. n - 1
               /\ mth[n][from] = HashInternal(mth[Split(n)][from],
                                              mth[n - Split(n)][from + Split(n)])
    <2>1. n \in 1 .. size /\ n # 1 /\ from \in 1 .. size - n + 1 /\ n \in Nat /\ n >= 2
      BY <1>3
    <2>2. Split(n) \in 1 .. n - 1
      BY <2>1, SplitIsTheSplit DEF IsSplit
    <2> QED
      BY <1>1, <2>1, <2>2
  <1> QED
    BY <1>2, <1>3 DEF SplitsAtPowers

\* The hash of nodes that pair up, or that end in the last one, is the hash of as
\* many of their parents.
LEMMA ReferenceOfParents ==
    ASSUME NEW nodes, IsSequence(nodes), Len(nodes) > 1,
           NEW mth, IsReference(mth, nodes, Len(nodes), Len(nodes)),
           NEW up, IsReference(up, NextLayer(nodes), Len(NextLayer(nodes)), Len(NextLayer(nodes))),
           NEW n \in 1 .. Len(nodes), NEW i \in 1 .. Len(nodes),
           2 * i + n - 2 <= Len(nodes), n % 2 = 0 \/ 2 * i + n - 2 = Len(nodes)
    PROVE  mth[n][2 * i - 1] = up[(n + 1) \div 2][i]
  <1> DEFINE size == Len(nodes)
             parents == NextLayer(nodes)
             half == Len(parents)
             Covers(m, j) == 2 * j + m - 2 <= size /\ (m % 2 = 0 \/ 2 * j + m - 2 = size)
             Agrees(m, j) == mth[m][2 * j - 1] = up[(m + 1) \div 2][j]
             Wrong == {m \in Nat : m \in 1 .. size /\ \E j \in 1 .. size : Covers(m, j) /\ ~Agrees(m, j)}
  <1>1. size \in Nat /\ size > 1
    BY SequenceFacts
  <1>2. /\ half = (size + 1) \div 2 /\ half \in Nat /\ half >= 1
        /\ \A j \in 1 .. half : parents[j] = IF 2 * j <= size
                                               THEN HashInternal(nodes[2 * j - 1], nodes[2 * j])
                                               ELSE nodes[2 * j - 1]
    BY <1>1, NextLayerPairsUp DEF PairsUp
  <1>3. /\ \A from \in 1 .. size : mth[1][from] = nodes[from]
        /\ \A m \in 2 .. size, from \in 1 .. size :
              from + m - 1 <= size =>
                  /\ Split(m) \in 1 .. m - 1
                  /\ mth[m][from] = HashInternal(mth[Split(m)][from], mth[m - Split(m)][from + Split(m)])
    <2>1. SplitsAtPowers(mth, nodes, size)
      BY <1>1, ReferenceHashes
    <2> QED
      BY <2>1 DEF SplitsAtPowers
  <1>4. /\ \A from \in 1 .. half : up[1][from] = parents[from]
        /\ \A m \in 2 .. half, from \in 1 .. half :
              from + m - 1 <= half =>
                  /\ Split(m) \in 1 .. m - 1
                  /\ up[m][from] = HashInternal(up[Split(m)][from], up[m - Split(m)][from + Split(m)])
    <2>1. SplitsAtPowers(up, parents, half)
      BY <1>2, ReferenceHashes
    <2> HIDE DEF parents, half
    <2> QED
      BY <2>1 DEF SplitsAtPowers
  <1> HIDE DEF size, parents, half
  \* the odd node out
  <1>5. ASSUME NEW j \in 1 .. size, Covers(1, j) PROVE Agrees(1, j)
    <2>1. 2 * j - 1 = size /\ j \in 1 .. half /\ ~(2 * j <= size) /\ (1 + 1) \div 2 = 1
      BY <1>1, <1>2, <1>5
    <2>2. mth[1][2 * j - 1] = nodes[2 * j - 1]
      BY <1>1, <1>3, <2>1
    <2>3. up[1][j] = nodes[2 * j - 1]
      BY <1>2, <1>4, <2>1
    <2> QED
      BY <2>1, <2>2, <2>3
  \* a pair
  <1>6. ASSUME NEW j \in 1 .. size, Covers(2, j) PROVE Agrees(2, j)
    <2>1. /\ 2 * j - 1 \in 1 .. size /\ 2 * j \in 1 .. size /\ 2 * j <= size /\ j \in 1 .. half
          /\ 2 \in 2 .. size /\ (2 * j - 1) + 2 - 1 <= size /\ (2 + 1) \div 2 = 1
          /\ (2 * j - 1) + 1 = 2 * j /\ 2 - 1 = 1
      BY <1>1, <1>2, <1>6
    <2>2. Split(2) = 1
      BY SplitOfTwo, SplitIsTheSplit, SplitIsUnique
    <2>3. mth[2][2 * j - 1] = HashInternal(mth[1][2 * j - 1], mth[1][2 * j])
      BY <1>3, <2>1, <2>2
    <2>4. mth[2][2 * j - 1] = HashInternal(nodes[2 * j - 1], nodes[2 * j])
      BY <1>3, <2>1, <2>3
    <2>5. up[1][j] = HashInternal(nodes[2 * j - 1], nodes[2 * j])
      BY <1>2, <1>4, <2>1
    <2> QED
      BY <2>1, <2>4, <2>5
  \* more: both splits fall between pairs
  <1>7. ASSUME NEW m \in 1 .. size, m > 2, NEW j \in 1 .. size, Covers(m, j),
               \A w \in 1 .. m - 1, t \in 1 .. size : Covers(w, t) => Agrees(w, t)
        PROVE  Agrees(m, j)
    <2> DEFINE a == (m + 1) \div 2
               k == Split(a)
    <2>1. m \in Nat /\ a \in Nat /\ a >= 2
      BY <1>1, <1>7
    <2>2. Split(m) = 2 * k
      BY <1>7, <2>1, SplitOfHalf
    <2>3. a \in 2 .. half /\ j \in 1 .. half /\ j + a - 1 <= half
      BY <1>1, <1>2, <1>7
    <2>4. k \in 1 .. a - 1 /\ up[a][j] = HashInternal(up[k][j], up[a - k][j + k])
      <3> HIDE DEF a
      <3> QED
        BY <1>4, <2>3
    <2>5. /\ Split(m) \in 1 .. m - 1
          /\ mth[m][2 * j - 1] = HashInternal(mth[Split(m)][2 * j - 1],
                                              mth[m - Split(m)][2 * j - 1 + Split(m)])
      <3>1. m \in 2 .. size /\ j \in Nat /\ j >= 1
        BY <1>1, <1>7
      <3>2. 2 * j - 1 \in 1 .. size /\ (2 * j - 1) + m - 1 <= size
        BY <1>1, <1>7, <2>1, <3>1
      <3> QED
        BY <1>3, <3>1, <3>2
    <2> HIDE DEF k
    <2>6. k \in Nat /\ k >= 1 /\ 2 * k <= m - 1
      BY <1>1, <2>2, <2>4, <2>5
    <2>7. /\ 2 * k \in 1 .. m - 1 /\ (2 * k) % 2 = 0 /\ 2 * j + 2 * k - 2 <= size
          /\ (2 * k + 1) \div 2 = k
      BY <1>1, <1>7, <2>6
    <2>8. mth[2 * k][2 * j - 1] = up[k][j]
      <3>1. Covers(2 * k, j)
        BY <2>7
      <3> HIDE DEF Covers
      <3> QED
        BY <1>7, <2>7, <3>1
    <2>9. /\ m - 2 * k \in 1 .. m - 1 /\ j + k \in 1 .. size
          /\ 2 * (j + k) + (m - 2 * k) - 2 = 2 * j + m - 2
          /\ (m - 2 * k) % 2 = m % 2
          /\ (m - 2 * k + 1) \div 2 = a - k
          /\ 2 * (j + k) - 1 = 2 * j - 1 + 2 * k
      BY <1>1, <1>7, <2>6
    <2>10. mth[m - 2 * k][2 * j - 1 + 2 * k] = up[a - k][j + k]
      <3>1. Covers(m - 2 * k, j + k)
        BY <1>7, <2>9
      <3>2. Agrees(m - 2 * k, j + k)
        <4> HIDE DEF Covers, Agrees
        <4> QED
          BY <1>7, <2>9, <3>1
      <3> QED
        BY <2>9, <3>2
    <2> QED
      BY <2>2, <2>4, <2>5, <2>8, <2>10
  <1> HIDE DEF Covers, Agrees
  <1>8. Wrong = {}
    <2> SUFFICES ASSUME Wrong # {} PROVE FALSE
      OBVIOUS
    <2>1. PICK m \in Wrong : \A y \in Wrong : m <= y
      <3>1. Wrong \subseteq Nat
        OBVIOUS
      <3> HIDE DEF Wrong
      <3> QED
        BY <3>1, LeastElement
    <2>2. PICK j \in 1 .. size : m \in Nat /\ m \in 1 .. size /\ Covers(m, j) /\ ~Agrees(m, j)
      OBVIOUS
    <2>3. m > 2
      BY <1>5, <1>6, <2>2
    <2>4. \A w \in 1 .. m - 1, t \in 1 .. size : Covers(w, t) => Agrees(w, t)
      <3> SUFFICES ASSUME NEW w \in 1 .. m - 1, NEW t \in 1 .. size, Covers(w, t) PROVE Agrees(w, t)
        OBVIOUS
      <3>1. w \in Nat /\ w \in 1 .. size /\ ~(m <= w)
        BY <1>1, <2>2
      <3>2. w \notin Wrong
        <4> HIDE DEF Wrong
        <4> QED
          BY <2>1, <3>1
      <3> QED
        BY <3>1, <3>2
    <2> QED
      BY <1>7, <2>2, <2>3, <2>4
  <1>9. Covers(n, i)
    BY DEF Covers, size
  <1> QED
    BY <1>1, <1>8, <1>9 DEF Agrees, size

-----------------------------------------------------------------------------
\* The reference root, and that it is the root

HasReference(nodes, root) ==
    \E mth : IsReference(mth, nodes, Len(nodes), Len(nodes)) /\ root = mth[Len(nodes)][1]

\* Going up a layer keeps the reference hash ...
LEMMA ParentsHaveTheReference ==
    ASSUME NEW nodes, IsSequence(nodes), Len(nodes) > 1, NEW root, HasReference(nodes, root)
    PROVE  HasReference(NextLayer(nodes), root)
  <1> DEFINE size == Len(nodes)
             parents == NextLayer(nodes)
  <1>1. size \in Nat /\ size > 1
    BY SequenceFacts
  <1>2. PICK mth : IsReference(mth, nodes, size, size) /\ root = mth[size][1]
    BY DEF HasReference
  <1>3. Len(parents) \in Nat /\ Len(parents) = (size + 1) \div 2
    BY NextLayerPairsUp DEF PairsUp
  <1>4. PICK up : IsReference(up, parents, Len(parents), Len(parents))
    BY <1>3, ReferenceExists
  <1>5. /\ size \in 1 .. size /\ 1 \in 1 .. size
        /\ 2 * 1 + size - 2 <= size /\ 2 * 1 + size - 2 = size /\ 2 * 1 - 1 = 1
    BY <1>1
  <1>6. mth[size][2 * 1 - 1] = up[(size + 1) \div 2][1]
    BY <1>2, <1>4, <1>5, ReferenceOfParents
  <1>7. root = up[Len(parents)][1]
    BY <1>2, <1>3, <1>5, <1>6
  <1> QED
    BY <1>4, <1>7 DEF HasReference

\* ... and so do all the layers, up to the one node at the top.
LEMMA MerkleRootIsTheReference ==
    ASSUME NEW s, IsSequence(s), Len(s) >= 1, NEW root, HasReference(NodesOf(s), root)
    PROVE  MerkleRoot(s) = root
  <1> DEFINE L == Layers(s)
             h == Len(L)
             Wrong == {d \in Nat : d \in 1 .. h /\ ~HasReference(L[d], root)}
  <1>1. IsTower(L, s) /\ Len(Last(L)) = 1
    BY LayersAreComplete
  <1>2. MerkleRoot(s) = Last(L)[1]
    BY DEF MerkleRoot
  <1> HIDE DEF L
  <1>3. h \in Nat /\ h >= 1
    BY <1>1, SequenceFacts DEF IsTower
  <1>4. Wrong = {}
    <2> SUFFICES ASSUME Wrong # {} PROVE FALSE
      OBVIOUS
    <2>1. PICK d \in Wrong : \A y \in Wrong : d <= y
      <3>1. Wrong \subseteq Nat
        OBVIOUS
      <3> HIDE DEF Wrong
      <3> QED
        BY <3>1, LeastElement
    <2>2. d \in Nat /\ d \in 1 .. h /\ ~HasReference(L[d], root)
      OBVIOUS
    <2>3. d # 1
      BY <1>1, <2>2 DEF IsTower
    <2>4. d - 1 \in Nat /\ d - 1 \in 1 .. h - 1 /\ d - 1 \in 1 .. h /\ d - 1 + 1 = d /\ ~(d <= d - 1)
      <3> HIDE DEF Wrong, h
      <3> QED
        BY <1>3, <2>2, <2>3
    <2>5. d - 1 \notin Wrong
      <3> HIDE DEF Wrong
      <3> QED
        BY <2>1, <2>4
    <2>6. HasReference(L[d - 1], root)
      BY <2>4, <2>5
    <2>7. IsSequence(L[d - 1]) /\ Len(L[d - 1]) > 1 /\ L[d - 1 + 1] = NextLayer(L[d - 1])
      BY <1>1, <2>4 DEF IsTower
    <2>8. HasReference(NextLayer(L[d - 1]), root)
      BY <2>6, <2>7, ParentsHaveTheReference
    <2> QED
      BY <2>2, <2>4, <2>7, <2>8
  <1>5. HasReference(Last(L), root)
    BY <1>3, <1>4 DEF Last
  <1>6. PICK mth : IsReference(mth, Last(L), 1, 1) /\ root = mth[1][1]
    BY <1>1, <1>5 DEF HasReference
  <1>7. 1 \in Nat /\ 1 \in 1 .. 1
    OBVIOUS
  <1>8. mth[1][1] = Last(L)[1]
    BY <1>6, <1>7, ReferenceHashes DEF SplitsAtPowers
  <1> QED
    BY <1>2, <1>6, <1>8

LEMMA ReferenceRootIsAReference ==
    ASSUME IsSequence(leafHashes)
    PROVE  HasReference(NodesOf(leafHashes), ReferenceRoot)
  <1> DEFINE n == Len(leafHashes)
             nodes == NodesOf(leafHashes)
             mth == CHOOSE f : f = [m \in 1 .. n |->
                        [from \in 1 .. n - m + 1 |->
                            IF m = 1 THEN HashLeaf(leafHashes[from])
                                     ELSE HashInternal(f[Split(m)][from],
                                                       f[m - Split(m)][from + Split(m)])]]
  <1>1. n \in Nat /\ DOMAIN leafHashes = 1 .. n
    BY SequenceFacts
  <1>2. Len(nodes) = n /\ \A from \in 1 .. n : nodes[from] = HashLeaf(leafHashes[from])
    <2>1. DOMAIN nodes = 1 .. n /\ nodes = [j \in 1 .. n |-> nodes[j]]
      BY <1>1 DEF NodesOf
    <2>2. \A from \in 1 .. n : nodes[from] = HashLeaf(leafHashes[from])
      BY <1>1 DEF NodesOf
    <2> HIDE DEF nodes
    <2> QED
      BY <1>1, <2>1, <2>2, SequenceOfFunction
  <1>3. ReferenceRoot = mth[n][1]
    BY DEF ReferenceRoot
  <1>4. IsReference(mth, nodes, n, n)
    <2> DEFINE leafRow(f, m) ==
                   [from \in 1 .. n - m + 1 |->
                       IF m = 1 THEN HashLeaf(leafHashes[from])
                                ELSE HashInternal(f[Split(m)][from], f[m - Split(m)][from + Split(m)])]
               row(f, m) ==
                   [from \in 1 .. n - m + 1 |->
                       IF m = 1 THEN nodes[from]
                                ELSE HashInternal(f[Split(m)][from], f[m - Split(m)][from + Split(m)])]
    <2>1. ASSUME NEW f, NEW m \in 1 .. n PROVE row(f, m) = leafRow(f, m)
      <3>1. \A from \in 1 .. n - m + 1 : from \in 1 .. n
        BY <1>1
      <3> HIDE DEF nodes, n
      <3> QED
        BY <1>2, <3>1
    <2>2. PICK g : IsReference(g, nodes, n, n)
      BY <1>1, ReferenceExists
    <2>3. g = [m \in 1 .. n |-> leafRow(g, m)]
      <3>1. g = [m \in 1 .. n |-> row(g, m)]
        BY <2>2 DEF IsReference
      <3> HIDE DEF row, leafRow, n
      <3> QED
        BY <2>1, <3>1
    <2>4. mth = [m \in 1 .. n |-> leafRow(mth, m)]
      BY <2>3
    <2>5. mth = [m \in 1 .. n |-> row(mth, m)]
      <3> HIDE DEF row, leafRow, n, mth
      <3> QED
        BY <2>1, <2>4
    <2> QED
      BY <2>5 DEF IsReference
  <1> HIDE DEF mth
  <1> QED
    BY <1>2, <1>3, <1>4 DEF HasReference

\* Building the tree layer by layer, each odd node out promoted as it is, gives the
\* Merkle tree hash of RFC 6962, however many leaves there are.
THEOREM RootIsThatOfRfc6962 == MCSpec => []RootIsTheReferenceRoot
  <1>1. ASSUME leafHashes \in Seq(EntryHash) PROVE RootIsTheReferenceRoot
    <2> SUFFICES ASSUME leafHashes # << >>
                 PROVE  MerkleRoot(leafHashes) = ReferenceRoot
      BY DEF RootIsTheReferenceRoot
    <2>1. IsSequence(leafHashes) /\ Len(leafHashes) >= 1
      BY <1>1 DEF IsSequence
    <2>2. HasReference(NodesOf(leafHashes), ReferenceRoot)
      BY <2>1, ReferenceRootIsAReference
    <2> QED
      BY <2>1, <2>2, MerkleRootIsTheReference
  <1> QED
    BY <1>1, LeavesType, PTL

=============================================================================

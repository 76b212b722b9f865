-------------------------- MODULE MerkleTreeProofs ---------------------------
(***************************************************************************)
(* Theorems about the Merkle tree, for any number of leaves.               *)
(*                                                                         *)
(* The tree, a proof and what a proof leads to are recursive functions.    *)
(* That each exists, and what it has after every round, is shown by the    *)
(* first round that would lack it (LeastElement).                          *)
(*                                                                         *)
(*   - ProofLeadsToRoot, ProofVerifies: a node and its sibling lead to     *)
(*     their parent, wherever get_proof climbs;                            *)
(*   - RootCommits: a digest has the depth of its tree, so that trees of   *)
(*     one root are of one height; layers with the same parents are the    *)
(*     same, from the root down to the leaves.                             *)
(***************************************************************************)
EXTENDS MerkleTree, WellFoundedInduction, TLAPS

\* The natural numbers are well ordered: what fails somewhere fails somewhere first.
LEMMA LeastElement ==
    ASSUME NEW S, S \subseteq Nat, S # {}
    PROVE  \E x \in S : \A y \in S : x <= y
  <1> DEFINE R == OpToRel(<, Nat)
  <1>1. IsWellFoundedOn(R, Nat)
    BY NatLessThanWellFounded
  <1>2. \A x, y \in Nat : y < x => <<y, x>> \in R
    BY Zenon DEF OpToRel
  <1> HIDE DEF R
  <1>3. PICK x \in S : \A y \in S : ~(<<y, x>> \in R)
    BY <1>1, WFMin
  <1>4. ASSUME NEW y \in S PROVE x <= y
    <2>1. x \in Nat /\ y \in Nat
      OBVIOUS
    <2>2. ~(y < x)
      BY <1>2, <1>3, <2>1, Zenon
    <2> QED
      BY <2>1, <2>2
  <1> QED
    BY <1>4

LEMMA MinIsLeast ==
    ASSUME NEW S, S \subseteq Nat, S # {}
    PROVE  Min(S) \in S /\ \A y \in S : Min(S) <= y
BY LeastElement DEF Min

LEMMA MaxIsGreatest ==
    ASSUME NEW n \in Nat, NEW S, S \subseteq 1 .. n, S # {}
    PROVE  Max(S) \in S /\ \A y \in S : Max(S) >= y
  <1> DEFINE T == {n - y : y \in S}
  <1>1. \A y \in S : n - y \in Nat
    OBVIOUS
  <1>2. T \subseteq Nat /\ T # {}
    BY <1>1
  <1>3. \E t \in T : \A u \in T : t <= u
    <2> HIDE DEF T
    <2> QED
      BY <1>2, LeastElement
  <1>4. PICK x \in S : \A u \in T : n - x <= u
    BY <1>3
  <1>5. \A y \in S : x >= y
    <2> SUFFICES ASSUME NEW y \in S PROVE x >= y
      OBVIOUS
    <2>1. n - x <= n - y
      BY <1>4
    <2>2. x \in Nat /\ y \in Nat
      OBVIOUS
    <2> QED
      BY <2>1, <2>2
  <1> QED
    BY <1>5 DEF Max

-----------------------------------------------------------------------------
\* Sequences of any elements

IsSequence(s) == \E S : s \in Seq(S)

LEMMA SequenceFacts ==
    ASSUME NEW s, IsSequence(s)
    PROVE  Len(s) \in Nat /\ DOMAIN s = 1 .. Len(s)
BY DEF IsSequence

LEMMA SequenceOfFunction ==
    ASSUME NEW n \in Nat, NEW f, DOMAIN f = 1 .. n, f = [i \in 1 .. n |-> f[i]]
    PROVE  IsSequence(f) /\ Len(f) = n
  <1> DEFINE S == {f[i] : i \in 1 .. n}
  <1>1. f \in [1 .. n -> S]
    OBVIOUS
  <1>2. f \in Seq(S) /\ Len(f) = n
    <2> HIDE DEF S
    <2> QED
      BY <1>1
  <1> QED
    BY <1>2 DEF IsSequence

LEMMA SequenceAppend ==
    ASSUME NEW s, IsSequence(s), NEW x
    PROVE  /\ IsSequence(Append(s, x)) /\ Len(Append(s, x)) = Len(s) + 1
           /\ Append(s, x)[Len(s) + 1] = x
           /\ \A i \in 1 .. Len(s) : Append(s, x)[i] = s[i]
  <1>1. PICK S : s \in Seq(S)
    BY DEF IsSequence
  <1> DEFINE T == S \cup {x}
  <1>2. s \in Seq(T) /\ x \in T
    BY <1>1
  <1> HIDE DEF T
  <1>3. Append(s, x) \in Seq(T)
    BY <1>2
  <1> QED
    BY <1>2, <1>3 DEF IsSequence

-----------------------------------------------------------------------------
\* The layers

LEMMA NextLayerNodes ==
    ASSUME NEW layer, IsSequence(layer), Len(layer) >= 1
    PROVE  /\ IsSequence(NextLayer(layer))
           /\ Len(NextLayer(layer)) = (Len(layer) + 1) \div 2
           /\ Len(NextLayer(layer)) \in Nat /\ Len(NextLayer(layer)) >= 1
           /\ Len(layer) > 1 => Len(NextLayer(layer)) < Len(layer)
           /\ \A i \in 1 .. Len(NextLayer(layer)) :
                 NextLayer(layer)[i] = IF 2 * i <= Len(layer)
                                         THEN HashInternal(layer[2 * i - 1], layer[2 * i])
                                         ELSE layer[2 * i - 1]
  <1> DEFINE n == Len(layer)
             half == (n + 1) \div 2
             parents == NextLayer(layer)
  <1>1. n \in Nat /\ n >= 1
    BY SequenceFacts
  <1>2. half \in Nat /\ half >= 1 /\ (n > 1 => half < n)
    BY <1>1
  <1>3. /\ DOMAIN parents = 1 .. half
        /\ parents = [i \in 1 .. half |-> parents[i]]
        /\ \A i \in 1 .. half :
              parents[i] = IF 2 * i <= n THEN HashInternal(layer[2 * i - 1], layer[2 * i])
                                         ELSE layer[2 * i - 1]
    BY DEF NextLayer
  <1> HIDE DEF parents, half
  <1>4. IsSequence(parents) /\ Len(parents) = half
    BY <1>2, <1>3, SequenceOfFunction
  <1> QED
    BY <1>1, <1>2, <1>3, <1>4 DEF parents, half

NodesOf(leafHashes) == [i \in DOMAIN leafHashes |-> HashLeaf(leafHashes[i])]

\* The layers above some leaves, complete or not.
IsTower(layers, leafHashes) ==
    /\ IsSequence(layers) /\ Len(layers) >= 1
    /\ layers[1] = NodesOf(leafHashes)
    /\ \A d \in 1 .. Len(layers) : IsSequence(layers[d]) /\ Len(layers[d]) >= 1
    /\ \A d \in 1 .. Len(layers) - 1 :
          Len(layers[d]) > 1 /\ layers[d + 1] = NextLayer(layers[d])

LEMMA WithParentsIsTower ==
    ASSUME NEW leafHashes, NEW layers, IsTower(layers, leafHashes)
    PROVE  /\ IsTower(WithParents(layers), leafHashes)
           /\ Len(Last(layers)) \in Nat /\ Len(Last(layers)) >= 1
           /\ IF Len(Last(layers)) > 1
                THEN Len(Last(WithParents(layers))) < Len(Last(layers))
                ELSE WithParents(layers) = layers
  <1> DEFINE n == Len(layers)
             top == layers[n]
             parents == NextLayer(top)
             more == Append(layers, parents)
  <1>1. n \in Nat /\ n >= 1 /\ IsSequence(layers)
    BY SequenceFacts DEF IsTower
  <1>2. IsSequence(top) /\ Len(top) >= 1 /\ Len(top) \in Nat
    BY <1>1, SequenceFacts DEF IsTower
  <1> HIDE DEF top
  <1>3. IsSequence(parents) /\ Len(parents) >= 1 /\ (Len(top) > 1 => Len(parents) < Len(top))
    BY <1>2, NextLayerNodes
  <1>4. CASE Len(top) > 1
    <2>1. WithParents(layers) = more
      BY <1>4 DEF WithParents, Last, top
    <2>2. /\ IsSequence(more) /\ Len(more) = n + 1
          /\ more[n + 1] = parents
          /\ \A i \in 1 .. n : more[i] = layers[i]
      BY <1>1, SequenceAppend
    <2>3. parents = NextLayer(top)
      OBVIOUS
    <2> HIDE DEF more, parents
    <2>4. more[1] = NodesOf(leafHashes)
      BY <1>1, <2>2 DEF IsTower
    <2>5. ASSUME NEW d \in 1 .. n + 1 PROVE IsSequence(more[d]) /\ Len(more[d]) >= 1
      <3>1. CASE d \in 1 .. n
        BY <2>2, <3>1 DEF IsTower
      <3>2. CASE d = n + 1
        BY <1>3, <2>2, <3>2
      <3> QED
        BY <1>1, <3>1, <3>2
    <2>6. ASSUME NEW d \in 1 .. n PROVE Len(more[d]) > 1 /\ more[d + 1] = NextLayer(more[d])
      <3>1. CASE d \in 1 .. n - 1
        <4>1. more[d] = layers[d] /\ more[d + 1] = layers[d + 1]
          BY <1>1, <2>2, <3>1
        <4> QED
          BY <3>1, <4>1 DEF IsTower
      <3>2. CASE d = n
        BY <1>1, <1>4, <2>2, <2>3, <3>2 DEF top
      <3> QED
        BY <1>1, <3>1, <3>2
    <2>7. IsTower(more, leafHashes)
      BY <1>1, <2>2, <2>4, <2>5, <2>6 DEF IsTower
    <2>8. Last(more) = parents /\ Last(layers) = top
      BY <2>2 DEF Last, top
    <2> QED
      BY <1>2, <1>3, <1>4, <2>1, <2>7, <2>8
  <1>5. CASE ~(Len(top) > 1)
    <2>1. WithParents(layers) = layers /\ Last(layers) = top
      BY <1>5 DEF WithParents, Last, top
    <2> QED
      BY <1>2, <1>5, <2>1
  <1> QED
    BY <1>4, <1>5

\* The rounds of _build_tree exist: those up to a first that does not would
\* have made it.
LEMMA RoundsExist ==
    ASSUME NEW nodes, NEW n \in Nat
    PROVE  \E f : f = [r \in 1 .. n |-> IF r = 1 THEN <<nodes>> ELSE WithParents(f[r - 1])]
  <1> DEFINE Rounds(m, f) ==
                 f = [r \in 1 .. m |-> IF r = 1 THEN <<nodes>> ELSE WithParents(f[r - 1])]
             Missing == {m \in Nat : ~ \E f : Rounds(m, f)}
  <1>1. ASSUME Missing # {} PROVE FALSE
    <2>1. Missing \subseteq Nat
      OBVIOUS
    <2>2. PICK m \in Missing : \A k \in Missing : m <= k
      <3> HIDE DEF Missing
      <3> QED
        BY <1>1, <2>1, LeastElement
    <2>3. m \in Nat
      OBVIOUS
    <2>4. m # 0
      <3>1. Rounds(0, [r \in 1 .. 0 |-> <<nodes>>])
        BY Z3
      <3> HIDE DEF Rounds
      <3> QED
        BY <2>2, <3>1
    <2>5. PICK f : Rounds(m - 1, f)
      <3>1. m - 1 \in Nat /\ m - 1 \notin Missing
        <4> HIDE DEF Missing
        <4> QED
          BY <2>2, <2>3, <2>4
      <3> HIDE DEF Rounds
      <3> QED
        BY <3>1
    <2> DEFINE g == [r \in 1 .. m |-> IF r = 1 THEN <<nodes>> ELSE WithParents(f[r - 1])]
    <2>6. \A r \in 1 .. m - 1 : f[r] = g[r]
      BY <2>3, <2>5
    <2>7. \A r \in 1 .. m : r # 1 => f[r - 1] = g[r - 1]
      <3> HIDE DEF g
      <3> QED
        BY <2>3, <2>6
    <2>8. Rounds(m, g)
      BY <2>3, <2>7
    <2> HIDE DEF g, Rounds
    <2> QED
      BY <2>2, <2>8
  <1>2. n \notin Missing
    <2> HIDE DEF Missing
    <2> QED
      BY <1>1
  <1>3. \E f : Rounds(n, f)
    <2> HIDE DEF Rounds
    <2> QED
      BY <1>2
  <1> QED
    BY <1>3

IsBuild(rounds, leafHashes) ==
    rounds = [r \in 1 .. Len(leafHashes) |->
                IF r = 1 THEN <<NodesOf(leafHashes)>> ELSE WithParents(rounds[r - 1])]

LEMMA LayersAreBuilt ==
    ASSUME NEW leafHashes, Len(leafHashes) \in Nat
    PROVE  \E rounds : /\ IsBuild(rounds, leafHashes)
                       /\ Layers(leafHashes) = rounds[Len(leafHashes)]
  <1> DEFINE rounds ==
          CHOOSE f : f = [r \in 1 .. Len(leafHashes) |->
                            IF r = 1 THEN <<NodesOf(leafHashes)>> ELSE WithParents(f[r - 1])]
  <1>1. IsBuild(rounds, leafHashes)
    BY RoundsExist DEF IsBuild
  <1>2. Layers(leafHashes) = rounds[Len(leafHashes)]
    BY DEF Layers, NodesOf
  <1> HIDE DEF rounds
  <1> QED
    BY <1>1, <1>2

\* There are rounds enough: the last layer is a single node.
LEMMA LayersAreComplete ==
    ASSUME NEW leafHashes, IsSequence(leafHashes), Len(leafHashes) >= 1
    PROVE  /\ IsTower(Layers(leafHashes), leafHashes)
           /\ Len(Last(Layers(leafHashes))) = 1
  <1> DEFINE n == Len(leafHashes)
             nodes == NodesOf(leafHashes)
  <1>1. n \in Nat /\ n >= 1 /\ DOMAIN leafHashes = 1 .. n
    BY SequenceFacts
  <1>0. PICK rounds : IsBuild(rounds, leafHashes) /\ Layers(leafHashes) = rounds[n]
    BY <1>1, LayersAreBuilt
  <1> DEFINE Done(r) == /\ IsTower(rounds[r], leafHashes)
                        /\ Len(Last(rounds[r])) = 1 \/ Len(Last(rounds[r])) <= n - r + 1
             Wrong == {r \in Nat : r \in 1 .. n /\ ~Done(r)}
  <1>2. /\ rounds[1] = <<nodes>>
        /\ \A r \in 2 .. n : rounds[r] = WithParents(rounds[r - 1])
    BY <1>1, <1>0 DEF IsBuild
  <1>3. IsSequence(nodes) /\ Len(nodes) = n
    <2>1. DOMAIN nodes = 1 .. n /\ nodes = [i \in 1 .. n |-> nodes[i]]
      BY <1>1 DEF NodesOf
    <2> HIDE DEF nodes
    <2> QED
      BY <1>1, <2>1, SequenceOfFunction
  <1>4. Done(1)
    <2> HIDE DEF nodes
    <2>1. /\ IsSequence(<<nodes>>) /\ Len(<<nodes>>) = 1
          /\ <<nodes>>[1] = nodes /\ Last(<<nodes>>) = nodes
      <3>1. <<nodes>> \in Seq({nodes})
        OBVIOUS
      <3> QED
        BY <3>1 DEF IsSequence, Last
    <2>2. IsTower(<<nodes>>, leafHashes)
      BY <1>1, <1>3, <2>1 DEF IsTower, nodes
    <2> QED
      BY <1>1, <1>2, <1>3, <2>1, <2>2
  <1>5. ASSUME NEW r \in 2 .. n, Done(r - 1) PROVE Done(r)
    <2> DEFINE before == rounds[r - 1]
    <2>1. rounds[r] = WithParents(before)
      BY <1>2
    <2>2. /\ IsTower(before, leafHashes)
          /\ Len(Last(before)) = 1 \/ Len(Last(before)) <= n - (r - 1) + 1
      BY <1>5
    <2> HIDE DEF before
    <2>3. /\ IsTower(WithParents(before), leafHashes)
          /\ Len(Last(before)) \in Nat /\ Len(Last(before)) >= 1
          /\ IF Len(Last(before)) > 1
               THEN Len(Last(WithParents(before))) < Len(Last(before))
               ELSE WithParents(before) = before
      BY <2>2, WithParentsIsTower
    <2>4. Len(Last(WithParents(before))) \in Nat
      BY <2>3, WithParentsIsTower
    <2>5. \/ Len(Last(WithParents(before))) = 1
          \/ Len(Last(WithParents(before))) <= n - r + 1
      <3> DEFINE a == Len(Last(WithParents(before)))
                 b == Len(Last(before))
      <3>1. a \in Nat /\ b \in Nat /\ (b = 1 \/ b <= n - (r - 1) + 1) /\ b >= 1
        BY <2>2, <2>3, <2>4
      <3>2. IF b > 1 THEN a < b ELSE a = b
        BY <2>3
      <3> HIDE DEF a, b, n
      <3>3. a = 1 \/ a <= n - r + 1
        BY <1>1, <3>1, <3>2
      <3> QED
        BY <3>3 DEF a, n
    <2> QED
      BY <2>1, <2>3, <2>5
  <1> HIDE DEF Done
  <1>6. Wrong = {}
    <2> SUFFICES ASSUME Wrong # {} PROVE FALSE
      OBVIOUS
    <2>1. Wrong \subseteq Nat
      OBVIOUS
    <2>2. PICK r \in Wrong : \A k \in Wrong : r <= k
      <3> HIDE DEF Wrong
      <3> QED
        BY <2>1, LeastElement
    <2>3. r \in 1 .. n /\ ~Done(r)
      OBVIOUS
    <2>4. r \in 2 .. n
      BY <1>1, <1>4, <2>3
    <2>5. r - 1 \in 1 .. n /\ r - 1 \in Nat /\ r - 1 \notin Wrong
      <3> HIDE DEF Wrong
      <3> QED
        BY <1>1, <2>2, <2>4
    <2> QED
      BY <1>5, <2>3, <2>4, <2>5
  <1>7. Done(n)
    BY <1>1, <1>6
  <1>8. IsTower(rounds[n], leafHashes) /\ (Len(Last(rounds[n])) = 1 \/ Len(Last(rounds[n])) <= 1)
    BY <1>1, <1>7 DEF Done
  <1>9. Layers(leafHashes) = rounds[n]
    BY <1>0
  <1> HIDE DEF Wrong, Done
  <1>10. Len(Last(rounds[n])) \in Nat /\ Len(Last(rounds[n])) >= 1
    BY <1>8, WithParentsIsTower
  <1>11. Len(Last(rounds[n])) = 1
    BY <1>8, <1>10
  <1> QED
    BY <1>8, <1>9, <1>11

-----------------------------------------------------------------------------
\* The two loops: climbing the layers, and following a proof

\* The layers climbed up to the n-th.
IsClimb(climb, layers, start, n) ==
    climb = [d \in 1 .. n |-> IF d = 1 THEN start ELSE Climb(layers[d - 1], climb[d - 1])]

LEMMA ClimbExists ==
    ASSUME NEW layers, NEW start, NEW n \in Nat
    PROVE  \E f : IsClimb(f, layers, start, n)
  <1> DEFINE Climbed(m, f) ==
                 f = [d \in 1 .. m |-> IF d = 1 THEN start
                                                ELSE Climb(layers[d - 1], f[d - 1])]
             Missing == {m \in Nat : ~ \E f : Climbed(m, f)}
  <1>1. ASSUME Missing # {} PROVE FALSE
    <2>1. Missing \subseteq Nat
      OBVIOUS
    <2>2. PICK m \in Missing : \A k \in Missing : m <= k
      <3> HIDE DEF Missing
      <3> QED
        BY <1>1, <2>1, LeastElement
    <2>3. m \in Nat
      OBVIOUS
    <2>4. m # 0
      <3>1. Climbed(0, [d \in 1 .. 0 |-> start])
        BY Z3
      <3> HIDE DEF Climbed
      <3> QED
        BY <2>2, <3>1
    <2>5. PICK f : Climbed(m - 1, f)
      <3>1. m - 1 \in Nat /\ m - 1 \notin Missing
        <4> HIDE DEF Missing
        <4> QED
          BY <2>2, <2>3, <2>4
      <3> HIDE DEF Climbed
      <3> QED
        BY <3>1
    <2> DEFINE g == [d \in 1 .. m |-> IF d = 1 THEN start
                                              ELSE Climb(layers[d - 1], f[d - 1])]
    <2>6. \A d \in 1 .. m - 1 : f[d] = g[d]
      BY <2>3, <2>5
    <2>7. \A d \in 1 .. m : d # 1 => f[d - 1] = g[d - 1]
      <3> HIDE DEF g
      <3> QED
        BY <2>3, <2>6
    <2>8. Climbed(m, g)
      BY <2>3, <2>7
    <2> HIDE DEF g, Climbed
    <2> QED
      BY <2>2, <2>8
  <1>2. n \notin Missing
    <2> HIDE DEF Missing
    <2> QED
      BY <1>1
  <1>3. \E f : Climbed(n, f)
    <2> HIDE DEF Climbed
    <2> QED
      BY <1>2
  <1> QED
    BY <1>3 DEF IsClimb

LEMMA ProofIsClimbed ==
    ASSUME NEW leafHashes, NEW leafIndex, Len(Layers(leafHashes)) \in Nat
    PROVE  \E climb :
               /\ IsClimb(climb, Layers(leafHashes), [idx |-> leafIndex, proofSteps |-> << >>],
                          Len(Layers(leafHashes)))
               /\ GetProof(leafHashes, leafIndex) =
                    [leafHash |-> leafHashes[leafIndex + 1],
                     proofSteps |-> climb[Len(Layers(leafHashes))].proofSteps,
                     root |-> MerkleRoot(leafHashes)]
  <1> DEFINE layers == Layers(leafHashes)
             start == [idx |-> leafIndex, proofSteps |-> << >>]
             climb == CHOOSE f : IsClimb(f, layers, start, Len(layers))
  <1>1. IsClimb(climb, layers, start, Len(layers))
    BY ClimbExists
  <1>2. GetProof(leafHashes, leafIndex) =
            [leafHash |-> leafHashes[leafIndex + 1],
             proofSteps |-> climb[Len(layers)].proofSteps,
             root |-> MerkleRoot(leafHashes)]
    BY DEF GetProof, IsClimb
  <1> HIDE DEF climb
  <1> QED
    BY <1>1, <1>2

LEMMA CurrentExists ==
    ASSUME NEW start, NEW steps, NEW n \in Nat
    PROVE  \E f : f = [k \in 0 .. n |-> IF k = 0 THEN start ELSE Follow(steps[k], f[k - 1])]
  <1> DEFINE Followed(m, f) ==
                 f = [k \in 0 .. m |-> IF k = 0 THEN start ELSE Follow(steps[k], f[k - 1])]
             Missing == {m \in Nat : ~ \E f : Followed(m, f)}
  <1>1. ASSUME Missing # {} PROVE FALSE
    <2>1. Missing \subseteq Nat
      OBVIOUS
    <2>2. PICK m \in Missing : \A k \in Missing : m <= k
      <3> HIDE DEF Missing
      <3> QED
        BY <1>1, <2>1, LeastElement
    <2>3. m \in Nat
      OBVIOUS
    <2>4. m # 0
      <3> DEFINE g == [k \in 0 .. 0 |-> start]
      <3>1. g = [k \in 0 .. 0 |-> IF k = 0 THEN start ELSE Follow(steps[k], g[k - 1])]
        <4>1. \A k \in 0 .. 0 : k = 0
          OBVIOUS
        <4> QED
          BY <4>1, Z3
      <3>2. Followed(0, g)
        BY <3>1
      <3> HIDE DEF Followed, g
      <3> QED
        BY <2>2, <3>2
    <2>5. PICK f : Followed(m - 1, f)
      <3>1. m - 1 \in Nat /\ m - 1 \notin Missing
        <4> HIDE DEF Missing
        <4> QED
          BY <2>2, <2>3, <2>4
      <3> HIDE DEF Followed
      <3> QED
        BY <3>1
    <2> DEFINE g == [k \in 0 .. m |-> IF k = 0 THEN start ELSE Follow(steps[k], f[k - 1])]
    <2>6. \A k \in 0 .. m - 1 : f[k] = g[k]
      BY <2>3, <2>5
    <2>7. \A k \in 0 .. m : k # 0 => f[k - 1] = g[k - 1]
      <3> HIDE DEF g
      <3> QED
        BY <2>3, <2>6
    <2>8. Followed(m, g)
      BY <2>3, <2>7
    <2> HIDE DEF g, Followed
    <2> QED
      BY <2>2, <2>8
  <1>2. n \notin Missing
    <2> HIDE DEF Missing
    <2> QED
      BY <1>1
  <1>3. \E f : Followed(n, f)
    <2> HIDE DEF Followed
    <2> QED
      BY <1>2
  <1> QED
    BY <1>3

IsCurrent(current, leafHash, steps) ==
    current = [n \in 0 .. Len(steps) |->
                IF n = 0 THEN HashLeaf(leafHash) ELSE Follow(steps[n], current[n - 1])]

LEMMA RootIsFollowed ==
    ASSUME NEW proof, Len(proof.proofSteps) \in Nat
    PROVE  \E current : /\ IsCurrent(current, proof.leafHash, proof.proofSteps)
                        /\ RootOfProof(proof) = current[Len(proof.proofSteps)]
  <1> DEFINE steps == proof.proofSteps
             start == HashLeaf(proof.leafHash)
             current == CHOOSE f : f = [n \in 0 .. Len(steps) |->
                                          IF n = 0 THEN start ELSE Follow(steps[n], f[n - 1])]
  <1>1. IsCurrent(current, proof.leafHash, steps)
    BY CurrentExists DEF IsCurrent
  <1>2. RootOfProof(proof) = current[Len(steps)]
    BY DEF RootOfProof
  <1> HIDE DEF current
  <1> QED
    BY <1>1, <1>2

-----------------------------------------------------------------------------
\* The digest that a leaf and some proof steps lead to

RootFrom(leafHash, steps) == RootOfProof([leafHash |-> leafHash, proofSteps |-> steps])

LEMMA RootFromIsFollowed ==
    ASSUME NEW leafHash, NEW steps, IsSequence(steps)
    PROVE  \E current : /\ IsCurrent(current, leafHash, steps)
                        /\ RootFrom(leafHash, steps) = current[Len(steps)]
  <1> DEFINE proof == [leafHash |-> leafHash, proofSteps |-> steps]
  <1>1. Len(steps) \in Nat /\ proof.leafHash = leafHash /\ proof.proofSteps = steps
    BY SequenceFacts
  <1> HIDE DEF proof
  <1>2. \E current : /\ IsCurrent(current, leafHash, steps)
                     /\ RootOfProof(proof) = current[Len(steps)]
    BY <1>1, RootIsFollowed
  <1> QED
    BY <1>2 DEF RootFrom, proof

\* Where two proofs agree, the digests do.
LEMMA CurrentAgrees ==
    ASSUME NEW leafHash, NEW s, NEW t, Len(s) \in Nat, Len(t) \in Nat, Len(s) <= Len(t),
           \A n \in 1 .. Len(s) : s[n] = t[n],
           NEW c, IsCurrent(c, leafHash, s), NEW e, IsCurrent(e, leafHash, t)
    PROVE  \A n \in 0 .. Len(s) : c[n] = e[n]
  <1> DEFINE Differ == {n \in 0 .. Len(s) : c[n] # e[n]}
  <1> SUFFICES ASSUME Differ # {} PROVE FALSE
    OBVIOUS
  <1>1. Differ \subseteq Nat
    OBVIOUS
  <1>2. PICK n \in Differ : \A k \in Differ : n <= k
    <2> HIDE DEF Differ
    <2> QED
      BY <1>1, LeastElement
  <1>3. n \in 0 .. Len(s) /\ c[n] # e[n]
    OBVIOUS
  <1>4. CASE n = 0
    BY <1>3, <1>4 DEF IsCurrent
  <1>5. CASE n # 0
    <2>1. n - 1 \in 0 .. Len(s) /\ n \in 1 .. Len(s) /\ n \in 0 .. Len(t)
      BY <1>3, <1>5
    <2>2. c[n - 1] = e[n - 1]
      <3>1. n - 1 \notin Differ
        <4> HIDE DEF Differ
        <4> QED
          BY <1>2, <1>3, <2>1
      <3> QED
        BY <2>1, <3>1
    <2>3. c[n] = Follow(s[n], c[n - 1]) /\ e[n] = Follow(t[n], e[n - 1])
      BY <1>3, <1>5, <2>1 DEF IsCurrent
    <2> QED
      BY <1>3, <2>1, <2>2, <2>3
  <1> QED
    BY <1>4, <1>5

LEMMA RootFromNoStep ==
    ASSUME NEW leafHash
    PROVE  RootFrom(leafHash, << >>) = HashLeaf(leafHash)
  <1>1. IsSequence(<< >>) /\ Len(<< >>) = 0
    <2>1. << >> \in Seq({})
      OBVIOUS
    <2> QED
      BY <2>1 DEF IsSequence
  <1> QED
    BY <1>1, RootFromIsFollowed DEF IsCurrent

LEMMA RootFromStep ==
    ASSUME NEW leafHash, NEW steps, IsSequence(steps), NEW step
    PROVE  /\ IsSequence(steps \o <<step>>)
           /\ RootFrom(leafHash, steps \o <<step>>) = Follow(step, RootFrom(leafHash, steps))
  <1> DEFINE more == steps \o <<step>>
             n == Len(steps)
  <1>1. PICK S : steps \in Seq(S)
    BY DEF IsSequence
  <1>2. /\ more \in Seq(S \cup {step}) /\ n \in Nat /\ Len(more) = n + 1
        /\ more[n + 1] = step
        /\ \A k \in 1 .. n : more[k] = steps[k]
    <2>1. steps \in Seq(S \cup {step}) /\ <<step>> \in Seq(S \cup {step})
      BY <1>1
    <2> QED
      BY <2>1
  <1> HIDE DEF more
  <1>3. IsSequence(more)
    BY <1>2 DEF IsSequence
  <1>4. PICK c : IsCurrent(c, leafHash, steps) /\ RootFrom(leafHash, steps) = c[n]
    BY RootFromIsFollowed
  <1>5. PICK e : IsCurrent(e, leafHash, more) /\ RootFrom(leafHash, more) = e[n + 1]
    BY <1>2, <1>3, RootFromIsFollowed
  <1>6. c[n] = e[n]
    <2>1. /\ Len(steps) \in Nat /\ Len(more) \in Nat /\ Len(steps) <= Len(more)
          /\ \A k \in 1 .. Len(steps) : steps[k] = more[k]
      BY <1>2
    <2>2. IsCurrent(c, leafHash, steps) /\ IsCurrent(e, leafHash, more)
      BY <1>4, <1>5
    <2>3. \A k \in 0 .. Len(steps) : c[k] = e[k]
      BY <2>1, <2>2, CurrentAgrees
    <2> QED
      BY <1>2, <2>3
  <1>7. e[n + 1] = Follow(more[n + 1], e[n])
    BY <1>2, <1>5 DEF IsCurrent
  <1> QED
    BY <1>2, <1>3, <1>4, <1>5, <1>6, <1>7 DEF more

\* With the same steps, another leaf leads to another digest.
LEMMA RootFromIsInjective ==
    ASSUME NEW leafHash, NEW other, NEW steps, IsSequence(steps),
           RootFrom(leafHash, steps) = RootFrom(other, steps)
    PROVE  leafHash = other
  <1>1. Len(steps) \in Nat
    BY SequenceFacts
  <1>2. PICK c : IsCurrent(c, leafHash, steps) /\ RootFrom(leafHash, steps) = c[Len(steps)]
    BY RootFromIsFollowed
  <1>3. PICK e : IsCurrent(e, other, steps) /\ RootFrom(other, steps) = e[Len(steps)]
    BY RootFromIsFollowed
  <1> DEFINE Meet == {n \in Nat : n <= Len(steps) /\ c[n] = e[n]}
  <1>4. Meet \subseteq Nat /\ Len(steps) \in Meet
    <2>1. c[Len(steps)] = e[Len(steps)]
      BY <1>2, <1>3
    <2> QED
      BY <1>1, <2>1
  <1>5. PICK n \in Meet : \A k \in Meet : n <= k
    <2> HIDE DEF Meet
    <2> QED
      BY <1>4, LeastElement
  <1>6. n \in 0 .. Len(steps) /\ c[n] = e[n]
    BY <1>1
  <1>7. CASE n = 0
    <2>1. HashLeaf(leafHash) = HashLeaf(other)
      BY <1>1, <1>2, <1>3, <1>6, <1>7 DEF IsCurrent
    <2>2. HashLeaf(leafHash).leaf = HashLeaf(other).leaf
      BY <2>1
    <2> QED
      BY <2>2 DEF HashLeaf
  <1>8. CASE n # 0
    <2>1. n - 1 \in 0 .. Len(steps) /\ n - 1 \in Nat
      BY <1>1, <1>6, <1>8
    <2>2. c[n] = Follow(steps[n], c[n - 1]) /\ e[n] = Follow(steps[n], e[n - 1])
      BY <1>1, <1>2, <1>3, <1>6, <1>8 DEF IsCurrent
    <2>3. ASSUME NEW step, NEW x, NEW y, Follow(step, x) = Follow(step, y) PROVE x = y
      <3>1. CASE step.position = "left"
        <4>1. HashInternal(step.hash, x).right = HashInternal(step.hash, y).right
          BY <2>3, <3>1 DEF Follow
        <4> QED
          BY <4>1 DEF HashInternal
      <3>2. CASE step.position # "left"
        <4>1. HashInternal(x, step.hash).left = HashInternal(y, step.hash).left
          BY <2>3, <3>2 DEF Follow
        <4> QED
          BY <4>1 DEF HashInternal
      <3> QED
        BY <3>1, <3>2
    <2>4. c[n - 1] = e[n - 1]
      BY <1>6, <2>2, <2>3
    <2>5. n - 1 \in Meet
      BY <2>1, <2>4
    <2> HIDE DEF Meet
    <2> QED
      BY <1>5, <1>6, <2>1, <2>5
  <1> QED
    BY <1>7, <1>8

-----------------------------------------------------------------------------
\* A proof leads to the node above its leaf, in each layer

\* A node of a layer, its sibling, and their parent.
LEMMA SiblingLeadsToParent ==
    ASSUME NEW layer, IsSequence(layer), Len(layer) > 1, NEW idx \in 0 .. Len(layer) - 1
    PROVE  LET parent == NextLayer(layer)[idx \div 2 + 1]
           IN  \/ Sibling(layer, idx) = << >> /\ parent = layer[idx + 1]
               \/ \E step : /\ Sibling(layer, idx) = <<step>>
                            /\ parent = Follow(step, layer[idx + 1])
  <1> DEFINE k == idx \div 2
             n == Len(layer)
             parent == NextLayer(layer)[k + 1]
  <1>1. n \in Nat /\ n > 1
    BY SequenceFacts
  <1>2. /\ k \in Nat /\ idx \in Nat /\ idx < n /\ k + 1 \in 1 .. (n + 1) \div 2
        /\ \/ idx = 2 * k /\ idx % 2 # 1
           \/ idx = 2 * k + 1 /\ idx % 2 = 1
    BY <1>1
  <1>3. parent = IF 2 * (k + 1) <= n THEN HashInternal(layer[2 * (k + 1) - 1], layer[2 * (k + 1)])
                                     ELSE layer[2 * (k + 1) - 1]
    BY <1>1, <1>2, NextLayerNodes
  <1> HIDE DEF k, n, parent
  <1>4. CASE idx = 2 * k + 1 /\ idx % 2 = 1
    <2> DEFINE step == [position |-> "left", hash |-> layer[idx]]
    <2>1. idx - 1 < n /\ (idx - 1) + 1 = idx
      BY <1>1, <1>2
    <2>2. Sibling(layer, idx) = <<step>>
      BY <1>4, <2>1 DEF Sibling, n
    <2>3. 2 * (k + 1) <= n /\ 2 * (k + 1) - 1 = idx /\ 2 * (k + 1) = idx + 1
      BY <1>1, <1>2, <1>4
    <2>4. parent = HashInternal(layer[idx], layer[idx + 1])
      BY <1>3, <2>3
    <2>5. parent = Follow(step, layer[idx + 1])
      BY <2>4 DEF Follow
    <2> QED
      BY <2>2, <2>5 DEF parent, k
  <1>5. CASE idx = 2 * k /\ idx % 2 # 1 /\ idx + 1 < n
    <2> DEFINE step == [position |-> "right", hash |-> layer[idx + 1 + 1]]
    <2>1. Sibling(layer, idx) = <<step>>
      BY <1>5 DEF Sibling, n
    <2>2. 2 * (k + 1) <= n /\ 2 * (k + 1) - 1 = idx + 1 /\ 2 * (k + 1) = idx + 1 + 1
      BY <1>1, <1>2, <1>5
    <2>3. parent = HashInternal(layer[idx + 1], layer[idx + 1 + 1])
      BY <1>3, <2>2
    <2>4. parent = Follow(step, layer[idx + 1])
      BY <2>3 DEF Follow
    <2> QED
      BY <2>1, <2>4 DEF parent, k
  <1>6. CASE idx = 2 * k /\ idx % 2 # 1 /\ ~(idx + 1 < n)
    <2>1. Sibling(layer, idx) = << >>
      BY <1>6 DEF Sibling, n
    <2>2. ~(2 * (k + 1) <= n) /\ 2 * (k + 1) - 1 = idx + 1
      BY <1>1, <1>2, <1>6
    <2>3. parent = layer[idx + 1]
      BY <1>3, <2>2
    <2> QED
      BY <2>1, <2>3 DEF parent, k
  <1> QED
    BY <1>2, <1>4, <1>5, <1>6

LEMMA ClimbLeadsToParent ==
    ASSUME NEW layer, IsSequence(layer), Len(layer) > 1, NEW idx \in 0 .. Len(layer) - 1,
           NEW leafHash, NEW steps, IsSequence(steps),
           RootFrom(leafHash, steps) = layer[idx + 1],
           NEW at, at.idx = idx, at.proofSteps = steps
    PROVE  /\ Climb(layer, at).idx \in 0 .. Len(NextLayer(layer)) - 1
           /\ IsSequence(Climb(layer, at).proofSteps)
           /\ RootFrom(leafHash, Climb(layer, at).proofSteps) =
                 NextLayer(layer)[Climb(layer, at).idx + 1]
  <1> DEFINE after == Climb(layer, at)
             parents == NextLayer(layer)
  <1>1. after.idx = idx \div 2 /\ after.proofSteps = steps \o Sibling(layer, idx)
    BY DEF Climb
  <1>2. Len(layer) \in Nat /\ Len(parents) = (Len(layer) + 1) \div 2
    BY SequenceFacts, NextLayerNodes
  <1>3. \/ Sibling(layer, idx) = << >> /\ parents[idx \div 2 + 1] = layer[idx + 1]
        \/ \E step : /\ Sibling(layer, idx) = <<step>>
                     /\ parents[idx \div 2 + 1] = Follow(step, layer[idx + 1])
    BY SiblingLeadsToParent
  <1> HIDE DEF after, parents
  <1>4. after.idx \in 0 .. Len(parents) - 1
    BY <1>1, <1>2
  <1>5. CASE Sibling(layer, idx) = << >> /\ parents[idx \div 2 + 1] = layer[idx + 1]
    <2>1. steps \o << >> = steps
      BY DEF IsSequence
    <2> QED
      BY <1>1, <1>4, <1>5, <2>1 DEF after, parents
  <1>6. ASSUME NEW step, Sibling(layer, idx) = <<step>>,
               parents[idx \div 2 + 1] = Follow(step, layer[idx + 1])
        PROVE  /\ IsSequence(after.proofSteps)
               /\ RootFrom(leafHash, after.proofSteps) = parents[after.idx + 1]
    <2>1. /\ IsSequence(steps \o <<step>>)
          /\ RootFrom(leafHash, steps \o <<step>>) = Follow(step, RootFrom(leafHash, steps))
      BY RootFromStep
    <2> QED
      BY <1>1, <1>6, <2>1
  <1> QED
    BY <1>3, <1>4, <1>5, <1>6 DEF after, parents

\* get_proof and verify_proof agree, for any number of leaves and each of them: the
\* proof's steps lead from its leaf to the root of the tree.
THEOREM ProofLeadsToRoot ==
    ASSUME NEW leafHashes, IsSequence(leafHashes), NEW leafIndex \in 0 .. Len(leafHashes) - 1
    PROVE  LET proof == GetProof(leafHashes, leafIndex)
           IN  /\ IsSequence(proof.proofSteps)
               /\ proof.leafHash = leafHashes[leafIndex + 1]
               /\ proof.root = MerkleRoot(leafHashes)
               /\ RootFrom(proof.leafHash, proof.proofSteps) = MerkleRoot(leafHashes)
  <1> DEFINE layers == Layers(leafHashes)
             h == Len(layers)
             leaf == leafHashes[leafIndex + 1]
             start == [idx |-> leafIndex, proofSteps |-> << >>]
             proof == GetProof(leafHashes, leafIndex)
  <1>1. Len(leafHashes) \in Nat /\ Len(leafHashes) >= 1 /\ DOMAIN leafHashes = 1 .. Len(leafHashes)
    BY SequenceFacts
  <1>2. IsTower(layers, leafHashes) /\ Len(Last(layers)) = 1
    BY <1>1, LayersAreComplete
  <1>3. h \in Nat /\ h >= 1
    BY <1>2, SequenceFacts DEF IsTower
  <1>4. PICK climb :
            /\ IsClimb(climb, layers, start, h)
            /\ proof = [leafHash |-> leaf, proofSteps |-> climb[h].proofSteps,
                        root |-> MerkleRoot(leafHashes)]
    BY <1>3, ProofIsClimbed
  <1> HIDE DEF layers, proof, leaf
  <1> DEFINE Leads(d) == /\ climb[d].idx \in 0 .. Len(layers[d]) - 1
                         /\ IsSequence(climb[d].proofSteps)
                         /\ RootFrom(leaf, climb[d].proofSteps) = layers[d][climb[d].idx + 1]
             Stray == {d \in Nat : d \in 1 .. h /\ ~Leads(d)}
  <1>5. Leads(1)
    <2>1. climb[1] = start
      BY <1>3, <1>4 DEF IsClimb
    <2>2. /\ Len(layers[1]) = Len(leafHashes)
          /\ layers[1][leafIndex + 1] = HashLeaf(leaf)
      <3>1. layers[1] = NodesOf(leafHashes)
        BY <1>2 DEF IsTower
      <3>2. /\ NodesOf(leafHashes) = [i \in 1 .. Len(leafHashes) |-> NodesOf(leafHashes)[i]]
            /\ DOMAIN NodesOf(leafHashes) = 1 .. Len(leafHashes)
            /\ \A i \in 1 .. Len(leafHashes) : NodesOf(leafHashes)[i] = HashLeaf(leafHashes[i])
        BY <1>1 DEF NodesOf
      <3>3. Len(NodesOf(leafHashes)) = Len(leafHashes)
        BY <1>1, <3>2, SequenceOfFunction
      <3>4. leafIndex + 1 \in 1 .. Len(leafHashes)
        BY <1>1
      <3> QED
        BY <3>1, <3>2, <3>3, <3>4 DEF leaf
    <2>3. IsSequence(<< >>)
      <3>1. << >> \in Seq({})
        OBVIOUS
      <3> QED
        BY <3>1 DEF IsSequence
    <2>4. climb[1].idx = leafIndex /\ climb[1].proofSteps = << >>
      BY <2>1
    <2> QED
      BY <2>2, <2>3, <2>4, RootFromNoStep
  <1>6. ASSUME NEW d \in 2 .. h, Leads(d - 1) PROVE Leads(d)
    <2> DEFINE layer == layers[d - 1]
               at == climb[d - 1]
    <2>1. d - 1 \in 1 .. h - 1 /\ d \in 1 .. h /\ d # 1
      BY <1>3
    <2>2. IsSequence(layer) /\ Len(layer) > 1 /\ layers[(d - 1) + 1] = NextLayer(layer)
      BY <1>2, <1>3, <2>1 DEF IsTower
    <2>3. layers[d] = NextLayer(layer)
      <3>1. (d - 1) + 1 = d
        BY <2>1
      <3> QED
        BY <2>2, <3>1
    <2>4. climb[d] = Climb(layer, at)
      BY <1>4, <2>1 DEF IsClimb
    <2>5. /\ at.idx \in 0 .. Len(layer) - 1 /\ IsSequence(at.proofSteps)
          /\ RootFrom(leaf, at.proofSteps) = layer[at.idx + 1]
      BY <1>6
    <2> HIDE DEF layer, at
    <2>6. /\ Climb(layer, at).idx \in 0 .. Len(NextLayer(layer)) - 1
          /\ IsSequence(Climb(layer, at).proofSteps)
          /\ RootFrom(leaf, Climb(layer, at).proofSteps) =
                NextLayer(layer)[Climb(layer, at).idx + 1]
      BY <2>2, <2>5, ClimbLeadsToParent
    <2> QED
      BY <2>3, <2>4, <2>6
  <1> HIDE DEF Leads
  <1>7. Stray = {}
    <2> SUFFICES ASSUME Stray # {} PROVE FALSE
      OBVIOUS
    <2>1. Stray \subseteq Nat
      OBVIOUS
    <2>2. PICK d \in Stray : \A k \in Stray : d <= k
      <3> HIDE DEF Stray
      <3> QED
        BY <2>1, LeastElement
    <2>3. d \in 1 .. h /\ ~Leads(d)
      OBVIOUS
    <2>4. d \in 2 .. h
      BY <1>3, <1>5, <2>3
    <2>5. d - 1 \in 1 .. h /\ d - 1 \in Nat /\ d - 1 \notin Stray
      <3> HIDE DEF Stray
      <3> QED
        BY <1>3, <2>2, <2>4
    <2> QED
      BY <1>6, <2>3, <2>4, <2>5
  <1>8. Leads(h)
    BY <1>3, <1>7
  <1>9. /\ IsSequence(climb[h].proofSteps)
        /\ RootFrom(leaf, climb[h].proofSteps) = layers[h][1]
    <2>1. Len(layers[h]) = 1
      BY <1>2 DEF Last
    <2>2. climb[h].idx \in 0 .. 0
      BY <1>8, <2>1 DEF Leads
    <2>3. climb[h].idx + 1 = 1
      BY <2>2
    <2> QED
      BY <1>8, <2>3 DEF Leads
  <1>10. MerkleRoot(leafHashes) = layers[h][1]
    BY DEF MerkleRoot, Last, layers
  <1> QED
    BY <1>4, <1>9, <1>10 DEF proof, leaf

\* What get_proof returns always verifies.
THEOREM ProofVerifies ==
    ASSUME NEW leafHashes, IsSequence(leafHashes), NEW leafIndex \in 0 .. Len(leafHashes) - 1
    PROVE  VerifyProof(GetProof(leafHashes, leafIndex))
  <1> DEFINE proof == GetProof(leafHashes, leafIndex)
  <1>1. /\ IsSequence(proof.proofSteps)
        /\ proof.root = MerkleRoot(leafHashes)
        /\ RootFrom(proof.leafHash, proof.proofSteps) = MerkleRoot(leafHashes)
    BY ProofLeadsToRoot
  <1> HIDE DEF proof
  <1>2. RootOfProof(proof) = RootFrom(proof.leafHash, proof.proofSteps)
    BY DEF RootOfProof, RootFrom
  <1>3. VerifyProof(proof)
    BY <1>1, <1>2 DEF VerifyProof
  <1> QED
    BY <1>3 DEF proof

-----------------------------------------------------------------------------
\* How deep a node is: the nodes down its left side, ending in a leaf

IsSpine(nodes, node, depth) ==
    /\ nodes[depth] = node
    /\ \E entryHash : nodes[0] = HashLeaf(entryHash)
    /\ \A n \in 1 .. depth : \E right : nodes[n] = HashInternal(nodes[n - 1], right)

HasDepth(node, depth) == \E nodes : IsSpine(nodes, node, depth)

LEMMA LeafHasDepth ==
    ASSUME NEW entryHash
    PROVE  HasDepth(HashLeaf(entryHash), 0)
  <1> DEFINE nodes == [n \in 0 .. 0 |-> HashLeaf(entryHash)]
  <1>1. nodes[0] = HashLeaf(entryHash)
    OBVIOUS
  <1> HIDE DEF nodes
  <1>2. IsSpine(nodes, HashLeaf(entryHash), 0)
    BY <1>1 DEF IsSpine
  <1> QED
    BY <1>2 DEF HasDepth

LEMMA InternalHasDepth ==
    ASSUME NEW depth \in Nat, NEW left, HasDepth(left, depth), NEW right
    PROVE  HasDepth(HashInternal(left, right), depth + 1)
  <1>1. PICK nodes : IsSpine(nodes, left, depth)
    BY DEF HasDepth
  <1> DEFINE more == [n \in 0 .. depth + 1 |->
                        IF n = depth + 1 THEN HashInternal(left, right) ELSE nodes[n]]
  <1>2. /\ more[depth + 1] = HashInternal(left, right)
        /\ \A n \in 0 .. depth : more[n] = nodes[n]
    OBVIOUS
  <1> HIDE DEF more
  <1>3. \E entryHash : more[0] = HashLeaf(entryHash)
    BY <1>1, <1>2 DEF IsSpine
  <1>4. ASSUME NEW n \in 1 .. depth + 1
        PROVE  \E r : more[n] = HashInternal(more[n - 1], r)
    <2>1. CASE n = depth + 1
      <3>1. more[n - 1] = left
        BY <1>1, <1>2, <2>1 DEF IsSpine
      <3> QED
        BY <1>2, <2>1, <3>1
    <2>2. CASE n # depth + 1
      <3>1. n \in 1 .. depth /\ n \in 0 .. depth /\ n - 1 \in 0 .. depth
        BY <2>2
      <3>2. more[n] = nodes[n] /\ more[n - 1] = nodes[n - 1]
        BY <1>2, <3>1
      <3> QED
        BY <1>1, <3>1, <3>2 DEF IsSpine
    <2> QED
      BY <2>1, <2>2
  <1>5. IsSpine(more, HashInternal(left, right), depth + 1)
    BY <1>2, <1>3, <1>4 DEF IsSpine
  <1> QED
    BY <1>5 DEF HasDepth

LEMMA InternalIsInjective ==
    ASSUME NEW l, NEW r, NEW m, NEW s, HashInternal(l, r) = HashInternal(m, s)
    PROVE  l = m /\ r = s
  <1>1. /\ HashInternal(l, r).left = HashInternal(m, s).left
        /\ HashInternal(l, r).right = HashInternal(m, s).right
    OBVIOUS
  <1> QED
    BY <1>1 DEF HashInternal

LEMMA LeafIsNotInternal ==
    ASSUME NEW entryHash, NEW left, NEW right
    PROVE  HashLeaf(entryHash) # HashInternal(left, right)
  <1>1. "leaf" \in DOMAIN HashLeaf(entryHash) /\ "leaf" \notin DOMAIN HashInternal(left, right)
    BY DEF HashLeaf, HashInternal
  <1> QED
    BY <1>1

\* The domain prefixes at work: a node has one depth, for a leaf is never an
\* internal node.
LEMMA DepthIsUnique ==
    ASSUME NEW depth \in Nat, NEW deeper \in Nat, depth < deeper,
           NEW node, HasDepth(node, depth), HasDepth(node, deeper)
    PROVE  FALSE
  <1>1. PICK p : IsSpine(p, node, depth)
    BY DEF HasDepth
  <1>2. PICK q : IsSpine(q, node, deeper)
    BY DEF HasDepth
  <1> DEFINE by == deeper - depth
             Meet == {n \in Nat : n <= depth /\ p[n] = q[n + by]}
  <1>3. Meet \subseteq Nat /\ depth \in Meet
    <2>1. p[depth] = q[depth + by]
      <3>1. depth + by = deeper
        OBVIOUS
      <3> QED
        BY <1>1, <1>2, <3>1 DEF IsSpine
    <2> QED
      BY <2>1
  <1>4. PICK n \in Meet : \A k \in Meet : n <= k
    <2> HIDE DEF Meet
    <2> QED
      BY <1>3, LeastElement
  <1>5. n \in 0 .. depth /\ p[n] = q[n + by]
    OBVIOUS
  <1>6. by \in Nat /\ by >= 1
    OBVIOUS
  <1>7. PICK right : q[n + by] = HashInternal(q[n + by - 1], right)
    <2>1. n + by \in 1 .. deeper
      BY <1>5
    <2> QED
      BY <1>2, <2>1 DEF IsSpine
  <1>8. CASE n = 0
    <2>1. PICK entryHash : p[0] = HashLeaf(entryHash)
      BY <1>1 DEF IsSpine
    <2> QED
      BY <1>5, <1>7, <1>8, <2>1, LeafIsNotInternal
  <1>9. CASE n # 0
    <2>1. n \in 1 .. depth /\ n - 1 \in Nat /\ n - 1 <= depth /\ n + by - 1 = (n - 1) + by
      BY <1>5, <1>6, <1>9
    <2>2. PICK r : p[n] = HashInternal(p[n - 1], r)
      BY <1>1, <2>1 DEF IsSpine
    <2>3. p[n - 1] = q[n + by - 1]
      BY <1>5, <1>7, <2>2, InternalIsInjective
    <2>4. n - 1 \in Meet
      BY <2>1, <2>3
    <2> HIDE DEF Meet
    <2> QED
      BY <1>4, <1>5, <2>1, <2>4
  <1> QED
    BY <1>8, <1>9

\* A node of a layer that has a sibling to its right has the depth of the layer;
\* the last one may have been promoted, and is no deeper.
LevelDepths(layer, depth) ==
    /\ \A i \in 1 .. Len(layer) - 1 : HasDepth(layer[i], depth)
    /\ \E j \in 0 .. depth : HasDepth(layer[Len(layer)], j)

LEMMA ParentsAreDeeper ==
    ASSUME NEW layer, IsSequence(layer), Len(layer) > 1,
           NEW depth \in Nat, LevelDepths(layer, depth)
    PROVE  /\ LevelDepths(NextLayer(layer), depth + 1)
           /\ \A i \in 1 .. Len(NextLayer(layer)) :
                 2 * i <= Len(layer) => HasDepth(NextLayer(layer)[i], depth + 1)
  <1> DEFINE n == Len(layer)
             parents == NextLayer(layer)
             m == Len(parents)
  <1>1. n \in Nat /\ n > 1
    BY SequenceFacts
  <1>2. /\ m = (n + 1) \div 2 /\ m \in Nat /\ m >= 1
        /\ \A i \in 1 .. m : parents[i] = IF 2 * i <= n THEN HashInternal(layer[2 * i - 1], layer[2 * i])
                                                       ELSE layer[2 * i - 1]
    BY <1>1, NextLayerNodes
  <1> HIDE DEF parents, m
  <1>3. ASSUME NEW i \in 1 .. m, 2 * i <= n PROVE HasDepth(parents[i], depth + 1)
    <2>1. 2 * i - 1 \in 1 .. n - 1
      BY <1>1, <1>3
    <2>2. HasDepth(layer[2 * i - 1], depth)
      BY <2>1 DEF LevelDepths
    <2> QED
      BY <1>2, <1>3, <2>2, InternalHasDepth
  <1>4. ASSUME NEW i \in 1 .. m - 1 PROVE HasDepth(parents[i], depth + 1)
    <2>1. i \in 1 .. m /\ 2 * i <= n
      BY <1>1, <1>2
    <2> QED
      BY <1>3, <2>1
  <1>5. \E j \in 0 .. depth + 1 : HasDepth(parents[m], j)
    <2>1. m \in 1 .. m
      BY <1>2
    <2>2. CASE 2 * m <= n
      BY <1>3, <2>1, <2>2
    <2>3. CASE ~(2 * m <= n)
      <3>1. 2 * m - 1 = n
        BY <1>1, <1>2, <2>3
      <3>2. parents[m] = layer[n]
        BY <1>2, <2>1, <2>3, <3>1
      <3>3. PICK j \in 0 .. depth : HasDepth(layer[n], j)
        BY DEF LevelDepths
      <3> QED
        BY <3>2, <3>3
    <2> QED
      BY <2>2, <2>3
  <1> QED
    BY <1>3, <1>4, <1>5 DEF LevelDepths, parents, m

\* The depths in each layer of a tower; a tower ends in a node of full depth.
LEMMA TowerDepths ==
    ASSUME NEW leafHashes, IsSequence(leafHashes), Len(leafHashes) >= 1,
           NEW layers, IsTower(layers, leafHashes)
    PROVE  /\ \A d \in 1 .. Len(layers) : LevelDepths(layers[d], d - 1)
           /\ Len(Last(layers)) = 1 => HasDepth(Last(layers)[1], Len(layers) - 1)
  <1> DEFINE h == Len(layers)
             Wrong == {d \in Nat : d \in 1 .. h /\ ~LevelDepths(layers[d], d - 1)}
  <1>1. h \in Nat /\ h >= 1 /\ Len(leafHashes) \in Nat
    BY SequenceFacts DEF IsTower
  <1>2. \A i \in 1 .. Len(layers[1]) : HasDepth(layers[1][i], 0)
    <2>1. layers[1] = NodesOf(leafHashes) /\ DOMAIN leafHashes = 1 .. Len(leafHashes)
      BY SequenceFacts DEF IsTower
    <2>2. IsSequence(layers[1])
      BY <1>1 DEF IsTower
    <2>3. DOMAIN layers[1] = 1 .. Len(layers[1]) /\ DOMAIN layers[1] = 1 .. Len(leafHashes)
      BY <2>1, <2>2, SequenceFacts DEF NodesOf
    <2>4. \A i \in 1 .. Len(leafHashes) : layers[1][i] = HashLeaf(leafHashes[i])
      BY <2>1 DEF NodesOf
    <2> QED
      BY <2>3, <2>4, LeafHasDepth
  <1>3. LevelDepths(layers[1], 0)
    <2>1. Len(layers[1]) \in Nat /\ Len(layers[1]) >= 1
      BY <1>1, SequenceFacts DEF IsTower
    <2> QED
      BY <1>2, <2>1 DEF LevelDepths
  <1>4. ASSUME NEW d \in 1 .. h - 1
        PROVE  /\ IsSequence(layers[d]) /\ Len(layers[d]) > 1 /\ d - 1 \in Nat
               /\ layers[d + 1] = NextLayer(layers[d])
    BY <1>1 DEF IsTower
  <1>5. ASSUME NEW d \in 1 .. h - 1, LevelDepths(layers[d], d - 1)
        PROVE  /\ LevelDepths(layers[d + 1], d)
               /\ \A i \in 1 .. Len(layers[d + 1]) :
                     2 * i <= Len(layers[d]) => HasDepth(layers[d + 1][i], d)
    <2>1. (d - 1) + 1 = d
      BY <1>1
    <2>2. /\ LevelDepths(NextLayer(layers[d]), (d - 1) + 1)
          /\ \A i \in 1 .. Len(NextLayer(layers[d])) :
                2 * i <= Len(layers[d]) => HasDepth(NextLayer(layers[d])[i], (d - 1) + 1)
      BY <1>4, <1>5, ParentsAreDeeper
    <2> QED
      BY <1>4, <2>1, <2>2
  <1>6. Wrong = {}
    <2> SUFFICES ASSUME Wrong # {} PROVE FALSE
      OBVIOUS
    <2>1. Wrong \subseteq Nat
      OBVIOUS
    <2>2. PICK d \in Wrong : \A k \in Wrong : d <= k
      <3> HIDE DEF Wrong
      <3> QED
        BY <2>1, LeastElement
    <2>3. d \in 1 .. h /\ ~LevelDepths(layers[d], d - 1)
      OBVIOUS
    <2>4. d # 1
      BY <1>3, <2>3
    <2>5. d - 1 \in 1 .. h - 1 /\ d - 1 \in Nat /\ d - 1 \notin Wrong /\ d - 1 + 1 = d
      <3> HIDE DEF Wrong
      <3> QED
        BY <1>1, <2>2, <2>3, <2>4
    <2>6. LevelDepths(layers[d - 1], d - 1 - 1)
      BY <1>1, <2>5
    <2>7. LevelDepths(layers[d - 1 + 1], d - 1)
      BY <1>5, <2>5, <2>6
    <2> QED
      BY <2>3, <2>5, <2>7
  <1>7. \A d \in 1 .. h : LevelDepths(layers[d], d - 1)
    BY <1>1, <1>6
  <1>8. ASSUME Len(Last(layers)) = 1 PROVE HasDepth(Last(layers)[1], h - 1)
    <2>1. CASE h = 1
      BY <1>2, <1>8, <2>1 DEF Last
    <2>2. CASE h # 1
      <3>1. h - 1 \in 1 .. h - 1 /\ h - 1 \in 1 .. h /\ h - 1 + 1 = h
        <4> HIDE DEF h, Wrong
        <4> QED
          BY <1>1, <2>2
      <3>2. LevelDepths(layers[h - 1], h - 1 - 1) /\ Len(layers[h - 1]) > 1
        BY <1>4, <1>7, <3>1
      <3>3. \A i \in 1 .. Len(layers[h]) : 2 * i <= Len(layers[h - 1]) => HasDepth(layers[h][i], h - 1)
        BY <1>5, <3>1, <3>2
      <3>4. Len(layers[h - 1]) \in Nat /\ 2 * 1 <= Len(layers[h - 1])
        BY <1>4, <3>1, SequenceFacts
      <3> QED
        BY <1>8, <3>3, <3>4 DEF Last
    <2> QED
      BY <2>1, <2>2
  <1> QED
    BY <1>7, <1>8

-----------------------------------------------------------------------------
\* The root commits to the leaves

LEMMA SameSequence ==
    ASSUME NEW s, NEW t, IsSequence(s), IsSequence(t), Len(s) = Len(t),
           \A i \in 1 .. Len(s) : s[i] = t[i]
    PROVE  s = t
  <1>1. s = [i \in 1 .. Len(s) |-> s[i]] /\ t = [i \in 1 .. Len(t) |-> t[i]]
    BY DEF IsSequence
  <1> QED
    BY <1>1

PairsUp(layer) ==
    /\ Len(NextLayer(layer)) = (Len(layer) + 1) \div 2
    /\ Len(NextLayer(layer)) \in Nat /\ Len(NextLayer(layer)) >= 1
    /\ \A i \in 1 .. Len(NextLayer(layer)) :
          NextLayer(layer)[i] = IF 2 * i <= Len(layer)
                                  THEN HashInternal(layer[2 * i - 1], layer[2 * i])
                                  ELSE layer[2 * i - 1]

LEMMA NextLayerPairsUp ==
    ASSUME NEW layer, IsSequence(layer), Len(layer) > 1
    PROVE  PairsUp(layer)
  <1>1. Len(layer) \in Nat
    BY SequenceFacts
  <1>2. Len(layer) >= 1
    BY <1>1
  <1> QED
    BY <1>2, NextLayerNodes DEF PairsUp

\* Two layers of one depth with the same parents have as many nodes ...
LEMMA SameParentsSameLength ==
    ASSUME NEW s, IsSequence(s), Len(s) > 1, NEW t, IsSequence(t), Len(t) > 1,
           NEW depth \in Nat, LevelDepths(s, depth), LevelDepths(t, depth),
           NextLayer(s) = NextLayer(t), Len(s) < Len(t)
    PROVE  FALSE
  <1> DEFINE m == Len(NextLayer(s))
  <1>1. Len(s) \in Nat /\ Len(t) \in Nat
    BY SequenceFacts
  <1>2. /\ m = (Len(s) + 1) \div 2 /\ m \in Nat /\ m >= 1
        /\ \A i \in 1 .. m : NextLayer(s)[i] = IF 2 * i <= Len(s) THEN HashInternal(s[2 * i - 1], s[2 * i])
                                                              ELSE s[2 * i - 1]
    <2>1. PairsUp(s)
      BY <1>1, NextLayerPairsUp
    <2> QED
      BY <2>1 DEF PairsUp
  <1>7. m = (Len(t) + 1) \div 2
    <2>1. PairsUp(t)
      BY <1>1, NextLayerPairsUp
    <2> QED
      BY <2>1 DEF PairsUp
  <1> HIDE DEF m
  <1>3. Len(s) = 2 * m - 1 /\ Len(t) = 2 * m /\ m \in 1 .. m
    <2> DEFINE a == Len(s)
               b == Len(t)
    <2>1. a \in Nat /\ b \in Nat /\ a < b /\ m = (a + 1) \div 2 /\ m = (b + 1) \div 2 /\ m \in Nat /\ m >= 1
      BY <1>1, <1>2, <1>7
    <2> HIDE DEF a, b
    <2>2. a = 2 * m - 1 /\ b = 2 * m /\ m \in 1 .. m
      BY <2>1
    <2> QED
      BY <2>2 DEF a, b
  <1>4. NextLayer(s)[m] = s[Len(s)]
    BY <1>2, <1>3
  <1>5. PICK j \in 0 .. depth : HasDepth(s[Len(s)], j)
    BY DEF LevelDepths
  <1>6. HasDepth(NextLayer(t)[m], depth + 1)
    <2>1. \A i \in 1 .. Len(NextLayer(t)) : 2 * i <= Len(t) => HasDepth(NextLayer(t)[i], depth + 1)
      BY ParentsAreDeeper
    <2> QED
      BY <1>3, <2>1 DEF m
  <1> QED
    BY <1>4, <1>5, <1>6, DepthIsUnique

\* ... and are the same.
LEMMA SameParentsSameLayer ==
    ASSUME NEW s, IsSequence(s), Len(s) > 1, NEW t, IsSequence(t), Len(t) > 1,
           NEW depth \in Nat, LevelDepths(s, depth), LevelDepths(t, depth),
           NextLayer(s) = NextLayer(t)
    PROVE  s = t
  <1> DEFINE n == Len(s)
             m == Len(NextLayer(s))
  <1>1. Len(s) \in Nat /\ Len(t) \in Nat
    BY SequenceFacts
  <1>2. Len(t) = Len(s)
    <2>1. ~(Len(s) < Len(t)) /\ ~(Len(t) < Len(s))
      BY SameParentsSameLength
    <2> QED
      BY <1>1, <2>1
  <1>3. /\ m = (n + 1) \div 2 /\ m \in Nat
        /\ \A i \in 1 .. m :
              /\ NextLayer(s)[i] = IF 2 * i <= n THEN HashInternal(s[2 * i - 1], s[2 * i])
                                                 ELSE s[2 * i - 1]
              /\ NextLayer(s)[i] = IF 2 * i <= n THEN HashInternal(t[2 * i - 1], t[2 * i])
                                                 ELSE t[2 * i - 1]
    <2>1. PairsUp(s) /\ PairsUp(t)
      BY <1>1, NextLayerPairsUp
    <2>2. /\ m = (n + 1) \div 2 /\ m \in Nat
          /\ \A i \in 1 .. m : NextLayer(s)[i] = IF 2 * i <= n THEN HashInternal(s[2 * i - 1], s[2 * i])
                                                              ELSE s[2 * i - 1]
      BY <2>1 DEF PairsUp
    <2>3. \A i \in 1 .. m : NextLayer(s)[i] = IF 2 * i <= n THEN HashInternal(t[2 * i - 1], t[2 * i])
                                                           ELSE t[2 * i - 1]
      BY <1>2, <2>1 DEF PairsUp
    <2> QED
      BY <2>2, <2>3
  <1>4. n \in Nat
    BY <1>1
  <1> HIDE DEF m, n
  <1>5. ASSUME NEW i \in 1 .. m, 2 * i <= n
        PROVE  s[2 * i - 1] = t[2 * i - 1] /\ s[2 * i] = t[2 * i]
    <2>1. HashInternal(s[2 * i - 1], s[2 * i]) = HashInternal(t[2 * i - 1], t[2 * i])
      BY <1>3, <1>5
    <2> QED
      BY <2>1, InternalIsInjective
  <1>6. ASSUME NEW k \in 1 .. n PROVE s[k] = t[k]
    <2> DEFINE i == (k + 1) \div 2
    <2>1. /\ i \in 1 .. m
          /\ \/ k = 2 * i /\ 2 * i <= n
             \/ k = 2 * i - 1
      BY <1>3, <1>4
    <2> HIDE DEF i
    <2>2. CASE 2 * i <= n
      <3>1. s[2 * i - 1] = t[2 * i - 1] /\ s[2 * i] = t[2 * i]
        BY <1>5, <2>1, <2>2
      <3> QED
        BY <2>1, <3>1
    <2>3. CASE ~(2 * i <= n)
      <3>1. s[2 * i - 1] = t[2 * i - 1]
        BY <1>3, <2>1, <2>3
      <3> QED
        BY <2>1, <2>3, <3>1
    <2> QED
      BY <2>2, <2>3
  <1> QED
    BY <1>2, <1>6, SameSequence DEF n

\* Two lists of leaves with the same root are the same, whatever their lengths:
\* neither a leaf changed nor one left out, added or moved keeps the root.
THEOREM RootCommits ==
    ASSUME NEW s, IsSequence(s), Len(s) >= 1, NEW t, IsSequence(t), Len(t) >= 1,
           MerkleRoot(s) = MerkleRoot(t)
    PROVE  s = t
  <1> DEFINE L == Layers(s)
             M == Layers(t)
             h == Len(L)
  <1>1. /\ IsTower(L, s) /\ Len(Last(L)) = 1
        /\ IsTower(M, t) /\ Len(Last(M)) = 1
    BY LayersAreComplete
  <1>2. Last(L)[1] = Last(M)[1]
    BY DEF MerkleRoot
  <1> HIDE DEF L, M
  <1>3. h \in Nat /\ h >= 1 /\ Len(M) \in Nat /\ Len(M) >= 1
    BY <1>1, SequenceFacts DEF IsTower
  <1>4. /\ \A d \in 1 .. h : LevelDepths(L[d], d - 1)
        /\ HasDepth(Last(L)[1], h - 1)
    BY <1>1, TowerDepths
  <1>5. /\ \A d \in 1 .. Len(M) : LevelDepths(M[d], d - 1)
        /\ HasDepth(Last(M)[1], Len(M) - 1)
    BY <1>1, TowerDepths
  <1>6. Len(M) = h
    <2>1. h - 1 \in Nat /\ Len(M) - 1 \in Nat
      BY <1>3
    <2>2. ~(h - 1 < Len(M) - 1) /\ ~(Len(M) - 1 < h - 1)
      BY <1>2, <1>4, <1>5, <2>1, DepthIsUnique
    <2> QED
      BY <1>3, <2>2
  <1> DEFINE Agree == {d \in Nat : d \in 1 .. h /\ L[d] = M[d]}
  <1>7. h \in Agree
    <2>1. IsSequence(L[h]) /\ IsSequence(M[h])
      BY <1>1, <1>3, <1>6 DEF IsTower
    <2>2. Len(L[h]) = 1 /\ Len(M[h]) = 1 /\ L[h][1] = M[h][1]
      BY <1>1, <1>2, <1>6 DEF Last
    <2>3. L[h] = M[h]
      BY <2>1, <2>2, SameSequence
    <2> QED
      BY <1>3, <2>3
  <1>8. PICK d \in Agree : \A k \in Agree : d <= k
    <2>1. Agree \subseteq Nat
      OBVIOUS
    <2> HIDE DEF Agree
    <2> QED
      BY <1>7, <2>1, LeastElement
  <1>9. d \in 1 .. h /\ L[d] = M[d]
    OBVIOUS
  <1>10. d = 1
    <2> SUFFICES ASSUME d # 1 PROVE FALSE
      OBVIOUS
    <2>1. /\ d - 1 \in 1 .. h - 1 /\ d - 1 \in 1 .. h /\ d - 1 \in Nat
          /\ d - 1 - 1 \in Nat /\ d - 1 + 1 = d
      <3> HIDE DEF Agree, h
      <3> QED
        BY <1>3, <1>9
    <2>2. /\ IsSequence(L[d - 1]) /\ Len(L[d - 1]) > 1 /\ L[d] = NextLayer(L[d - 1])
          /\ IsSequence(M[d - 1]) /\ Len(M[d - 1]) > 1 /\ M[d] = NextLayer(M[d - 1])
      <3>1. L[d - 1 + 1] = NextLayer(L[d - 1]) /\ M[d - 1 + 1] = NextLayer(M[d - 1])
        BY <1>1, <1>6, <2>1 DEF IsTower
      <3> QED
        BY <1>1, <1>6, <2>1, <3>1 DEF IsTower
    <2>3. LevelDepths(L[d - 1], d - 1 - 1) /\ LevelDepths(M[d - 1], d - 1 - 1)
      BY <1>4, <1>5, <1>6, <2>1
    <2>4. L[d - 1] = M[d - 1]
      BY <1>9, <2>1, <2>2, <2>3, SameParentsSameLayer
    <2>5. d - 1 \in Agree
      BY <2>1, <2>4
    <2>6. ~(d <= d - 1)
      BY <1>9
    <2> HIDE DEF Agree
    <2> QED
      BY <1>8, <2>5, <2>6
  <1>11. NodesOf(s) = NodesOf(t)
    BY <1>1, <1>9, <1>10 DEF IsTower
  <1>12. DOMAIN s = 1 .. Len(s) /\ DOMAIN t = 1 .. Len(t) /\ Len(s) \in Nat /\ Len(t) \in Nat
    BY SequenceFacts
  <1>13. DOMAIN s = DOMAIN t
    BY <1>11 DEF NodesOf
  <1>14. Len(s) = Len(t)
    <2>1. Len(s) \in 1 .. Len(s) /\ Len(t) \in 1 .. Len(t)
      BY <1>12
    <2>2. Len(s) \in 1 .. Len(t) /\ Len(t) \in 1 .. Len(s)
      BY <1>12, <1>13, <2>1, Zenon
    <2> DEFINE a == Len(s)
               b == Len(t)
    <2>3. a \in Nat /\ b \in Nat /\ a \in 1 .. b /\ b \in 1 .. a
      BY <1>12, <2>2, Zenon
    <2> HIDE DEF Agree, h, a, b
    <2>4. a = b
      BY <2>3
    <2> QED
      BY <2>4 DEF a, b
  <1>15. ASSUME NEW i \in 1 .. Len(s) PROVE s[i] = t[i]
    <2>1. HashLeaf(s[i]) = HashLeaf(t[i])
      BY <1>11, <1>12, <1>13 DEF NodesOf
    <2>2. HashLeaf(s[i]).leaf = HashLeaf(t[i]).leaf
      BY <2>1
    <2> QED
      BY <2>2 DEF HashLeaf
  <1> QED
    BY <1>14, <1>15, SameSequence

=============================================================================

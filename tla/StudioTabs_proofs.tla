-------------------------- MODULE StudioTabs_proofs --------------------------
(***************************************************************************)
(* Proofs about the editor of the web client (StudioTabs): its inductive   *)
(* invariant IInv, the types, the consistency of the tabs, the snapshot    *)
(* that a reload brings back, and what no step may do to the history, to   *)
(* other scopes' snapshots and to staged work.                             *)
(*                                                                         *)
(* The argument has three layers.  First the operators on data: Kept drops *)
(* elements and leaves the others in order, and from that reconciling,     *)
(* scoping, pruning and recording keep an editor Sound and a history Tidy. *)
(* Then the steps: whatever an event hands to the effects of a render, if  *)
(* it is a sound editor and a tidy history, the render keeps IInv; so each *)
(* event has only to be shown to be such an edit (IsEdit), and each change *)
(* of the scope to load such a snapshot (Moved).  Then the theorems.       *)
(***************************************************************************)
EXTENDS StudioTabs, SequenceTheorems, FiniteSetTheorems, WellFoundedInduction, TLAPS

-----------------------------------------------------------------------------
(* Sequences and what Kept leaves of them *)

\* A nonempty set of natural numbers has a least member.
LEMMA Least ==
    ASSUME NEW T \in SUBSET Nat, T # {}
    PROVE  \E x \in T : \A y \in T : x <= y
<1> DEFINE Less == {ss \in Nat \X Nat : ss[1] < ss[2]}
<1>1. IsWellFoundedOn(Less, Nat)
  BY Zenon, NatLessThanWellFounded DEF OpToRel
<1> HIDE DEF Less
<1>2. PICK x \in T : \A y \in T : <<y, x>> \notin Less
  BY <1>1, WFMin
<1>3. \A y \in T : ~(y < x)
  BY <1>2 DEF Less
<1> QED BY <1>3

\* A set that has 0 and the successors of its members up to n has all up to n.
LEMMA UpTo ==
    ASSUME NEW T, NEW n \in Nat, 0 \in T,
           \A k \in 0..(n - 1) : k \in T => k + 1 \in T
    PROVE  0..n \subseteq T
<1>1. SUFFICES ASSUME (0..n) \ T # {} PROVE FALSE
  OBVIOUS
<1>2. PICK x \in (0..n) \ T : \A y \in (0..n) \ T : x <= y
  <2>1. (0..n) \ T \in SUBSET Nat
    OBVIOUS
  <2> QED BY <1>1, <2>1, Least
<1>3. x # 0 /\ x - 1 \in 0..(n - 1) /\ x - 1 \in T
  BY <1>2
<1> QED BY <1>2, <1>3

\* How many of the first j elements are in S.
Rank(seq, S, j) == Cardinality({k \in 1..j : seq[k] \in S})

\* The rank starts at 0 and grows by one at each element that is in S.
LEMMA RankStep ==
    ASSUME NEW seq, NEW S
    PROVE  /\ Rank(seq, S, 0) = 0
           /\ \A j \in Nat : Rank(seq, S, j) \in Nat /\ Rank(seq, S, j) <= j
           /\ \A j \in Nat : /\ seq[j + 1] \in S => Rank(seq, S, j + 1) = Rank(seq, S, j) + 1
                             /\ seq[j + 1] \notin S => Rank(seq, S, j + 1) = Rank(seq, S, j)
<1> DEFINE Up(j) == {k \in 1..j : seq[k] \in S}
<1>1. \A j \in Nat : IsFiniteSet(Up(j)) /\ Cardinality(Up(j)) \in 0..j
  <2> TAKE j \in Nat
  <2>1. IsFiniteSet(1..j) /\ Cardinality(1..j) = j
    BY FS_Interval
  <2> QED BY <2>1, FS_Subset, FS_CardinalityType
<1>2. Up(0) = {}
  OBVIOUS
<1>3. ASSUME NEW j \in Nat
      PROVE  Cardinality(Up(j + 1)) =
                IF seq[j + 1] \in S THEN Cardinality(Up(j)) + 1 ELSE Cardinality(Up(j))
  <2>1. CASE seq[j + 1] \in S
    <3>1. Up(j + 1) = Up(j) \cup {j + 1} /\ j + 1 \notin Up(j)
      BY <2>1
    <3> HIDE DEF Up
    <3> QED BY <2>1, <3>1, <1>1, FS_AddElement
  <2>2. CASE seq[j + 1] \notin S
    <3>1. Up(j + 1) = Up(j)
      BY <2>2
    <3> QED BY <2>2, <3>1
  <2> QED BY <2>1, <2>2
<1>4. Cardinality(Up(0)) = 0
  BY <1>2, FS_EmptySet
<1> QED BY <1>1, <1>3, <1>4 DEF Rank

\* The recursion that defines Kept has a solution, and Kept is its last value.
LEMMA KeptUnfolds ==
    ASSUME NEW T, NEW seq \in Seq(T), NEW S
    PROVE  \E F : /\ F = [i \in 0..Len(seq) |->
                            IF i = 0 THEN <<>>
                            ELSE IF seq[i] \in S THEN Append(F[i - 1], seq[i]) ELSE F[i - 1]]
                  /\ Kept(seq, S) = F[Len(seq)]
<1> DEFINE n == Len(seq)
           Step(F, i) == IF i = 0 THEN <<>>
                         ELSE IF seq[i] \in S THEN Append(F[i - 1], seq[i]) ELSE F[i - 1]
           Upto == {k \in Nat : \E F : F = [i \in 0..k |-> Step(F, i)]}
<1>1. n \in Nat
  BY LenProperties
<1>2. 0 \in Upto
  <2> DEFINE F == [i \in 0..0 |-> <<>>]
  <2>1. F = [i \in 0..0 |-> Step(F, i)]
    OBVIOUS
  <2> HIDE DEF F
  <2> QED BY <2>1
<1>3. ASSUME NEW k \in 0..(n - 1), k \in Upto PROVE k + 1 \in Upto
  <2>1. PICK F : F = [i \in 0..k |-> Step(F, i)]
    BY <1>3
  <2> DEFINE G == [i \in 0..(k + 1) |-> IF i = k + 1 THEN Step(F, i) ELSE F[i]]
  <2>2. \A i \in 0..k : F[i] = Step(F, i)
    BY <2>1
  <2>3. \A i \in 0..(k + 1) : G[i] = IF i = k + 1 THEN Step(F, i) ELSE F[i]
    OBVIOUS
  <2>4. DOMAIN G = 0..(k + 1) /\ G = [i \in 0..(k + 1) |-> G[i]]
    OBVIOUS
  <2> HIDE DEF G
  <2>5. \A i \in 0..(k + 1) : G[i] = Step(G, i)
    BY <2>2, <2>3, <1>1
  <2>6. G = [i \in 0..(k + 1) |-> Step(G, i)]
    BY <2>4, <2>5
  <2>7. \E F1 : F1 = [i \in 0..(k + 1) |-> Step(F1, i)]
    BY <2>6
  <2>8. k + 1 \in Nat
    BY <1>1
  <2> HIDE DEF Step
  <2> QED BY <2>7, <2>8
<1>4. n \in Upto
  <2> HIDE DEF Upto
  <2>1. 0..n \subseteq Upto
    BY <1>1, <1>2, <1>3, UpTo
  <2> QED BY <1>1, <2>1
<1>5. \E F : F = [i \in 0..n |-> Step(F, i)]
  BY <1>4
<1> DEFINE Solves(F) == F = [i \in 0..n |-> Step(F, i)]
           G == CHOOSE F : Solves(F)
<1>6. Kept(seq, S) = G[n]
  BY Zenon DEF Kept
<1>7. Solves(G)
  <2>1. \E F : Solves(F)
    BY <1>5
  <2> HIDE DEF Solves
  <2> QED BY <2>1
<1> HIDE DEF G
<1> QED BY <1>6, <1>7

\* Kept is the elements that are in S, each at its rank.
LEMMA KeptRanks ==
    ASSUME NEW T, NEW seq \in Seq(T), NEW S
    PROVE  /\ Kept(seq, S) \in Seq(T)
           /\ Len(Kept(seq, S)) = Rank(seq, S, Len(seq))
           /\ \A j \in 1..Len(seq) : seq[j] \in S =>
                 /\ Rank(seq, S, j) \in 1..Len(Kept(seq, S))
                 /\ Kept(seq, S)[Rank(seq, S, j)] = seq[j]
           /\ \A m \in 1..Len(Kept(seq, S)) :
                 \E j \in 1..Len(seq) : seq[j] \in S /\ Rank(seq, S, j) = m
<1> DEFINE n == Len(seq)
           R(j) == Rank(seq, S, j)
<1>1. n \in Nat /\ \A i \in 1..n : seq[i] \in T
  BY LenProperties, ElementOfSeq
<1>2. PICK F : /\ F = [i \in 0..n |->
                         IF i = 0 THEN <<>>
                         ELSE IF seq[i] \in S THEN Append(F[i - 1], seq[i]) ELSE F[i - 1]]
               /\ Kept(seq, S) = F[n]
  BY KeptUnfolds
<1>3. F[0] = <<>>
  BY <1>1, <1>2
<1>4. \A i \in 0..(n - 1) :
         F[i + 1] = IF seq[i + 1] \in S THEN Append(F[i], seq[i + 1]) ELSE F[i]
  <2> TAKE i \in 0..(n - 1)
  <2>1. i + 1 \in 0..n /\ i + 1 # 0 /\ (i + 1) - 1 = i
    BY <1>1
  <2> HIDE DEF n
  <2> QED BY <2>1, <1>2
<1>5. /\ R(0) = 0
      /\ \A j \in Nat : R(j) \in Nat /\ R(j) <= j
      /\ \A j \in Nat : /\ seq[j + 1] \in S => R(j + 1) = R(j) + 1
                        /\ seq[j + 1] \notin S => R(j + 1) = R(j)
  <2>1. R(0) = 0
    BY RankStep
  <2>2. \A j \in Nat : R(j) \in Nat /\ R(j) <= j
    BY RankStep
  <2>3. \A j \in Nat : /\ seq[j + 1] \in S => R(j + 1) = R(j) + 1
                       /\ seq[j + 1] \notin S => R(j + 1) = R(j)
    BY RankStep
  <2> QED BY <2>1, <2>2, <2>3
<1> DEFINE Good(i) == /\ F[i] \in Seq(T) /\ Len(F[i]) = R(i)
                      /\ \A j \in 1..i : seq[j] \in S =>
                            R(j) \in 1..R(i) /\ F[i][R(j)] = seq[j]
                      /\ \A m \in 1..R(i) : \E j \in 1..i : seq[j] \in S /\ R(j) = m
           Upto == {i \in 0..n : Good(i)}
<1> HIDE DEF R, n
<1>6. Good(0)
  <2>1. F[0] \in Seq(T) /\ Len(F[0]) = 0
    BY <1>3, EmptySeq
  <2> QED BY <1>5, <2>1
<1>7. ASSUME NEW i \in 0..(n - 1), Good(i) PROVE Good(i + 1)
  <2>1. i \in Nat /\ i + 1 \in 1..n /\ seq[i + 1] \in T /\ R(i) \in Nat
    <3>1. i \in Nat /\ i + 1 \in 1..n
      BY <1>1
    <3>2. seq[i + 1] \in T
      BY <3>1, <1>1
    <3>3. R(i) \in Nat
      BY <3>1, <1>5
    <3> QED BY <3>1, <3>2, <3>3
  <2>2. CASE seq[i + 1] \in S
    <3>1. R(i + 1) = R(i) + 1
      BY <1>5, <2>1, <2>2
    <3>2. F[i + 1] = Append(F[i], seq[i + 1])
      BY <1>4, <2>2
    <3>3. /\ F[i + 1] \in Seq(T) /\ Len(F[i + 1]) = R(i) + 1
          /\ \A m \in 1..R(i) : F[i + 1][m] = F[i][m]
          /\ F[i + 1][R(i) + 1] = seq[i + 1]
      BY <3>2, <2>1, <1>7, AppendProperties
    <3>4. ASSUME NEW j \in 1..(i + 1), seq[j] \in S
          PROVE  R(j) \in 1..R(i + 1) /\ F[i + 1][R(j)] = seq[j]
      <4>1. CASE j = i + 1
        BY <4>1, <3>1, <3>3, <2>1
      <4>2. CASE j # i + 1
        <5>1. j \in 1..i
          BY <4>2, <2>1
        <5>2. R(j) \in 1..R(i) /\ F[i][R(j)] = seq[j]
          BY <5>1, <3>4, <1>7
        <5> QED BY <5>2, <3>1, <3>3, <2>1
      <4> QED BY <4>1, <4>2
    <3>5. ASSUME NEW m \in 1..R(i + 1)
          PROVE  \E j \in 1..(i + 1) : seq[j] \in S /\ R(j) = m
      <4>1. CASE m = R(i + 1)
        BY <4>1, <2>1, <2>2
      <4>2. CASE m # R(i + 1)
        <5>1. m \in 1..R(i)
          BY <4>2, <3>1, <2>1
        <5> QED BY <5>1, <1>7, <2>1
      <4> QED BY <4>1, <4>2
    <3> QED BY <3>1, <3>3, <3>4, <3>5
  <2>3. CASE seq[i + 1] \notin S
    <3>1. R(i + 1) = R(i) /\ F[i + 1] = F[i]
      BY <1>4, <1>5, <2>1, <2>3
    <3>2. \A j \in 1..(i + 1) : seq[j] \in S => j \in 1..i
      BY <2>1, <2>3
    <3>3. 1..i \subseteq 1..(i + 1)
      BY <2>1
    <3> QED BY <3>1, <3>2, <3>3, <1>7
  <2> QED BY <2>2, <2>3
<1>8. Good(n)
  <2> HIDE DEF Good
  <2>1. 0 \in Upto
    BY <1>1, <1>6
  <2>2. \A i \in 0..(n - 1) : i \in Upto => i + 1 \in Upto
    BY <1>1, <1>7
  <2>3. 0..n \subseteq Upto
    <3> HIDE DEF Upto
    <3> QED BY <1>1, <2>1, <2>2, UpTo
  <2> QED BY <2>3, <1>1
<1> QED BY <1>2, <1>8 DEF n, R

\* What is kept are the elements that are in S; their order does not change.
LEMMA KeptElements ==
    ASSUME NEW T, NEW seq \in Seq(T), NEW S
    PROVE  /\ Kept(seq, S) \in Seq(T)
           /\ ToSet(Kept(seq, S)) = ToSet(seq) \cap S
           /\ \A i, j \in DOMAIN Kept(seq, S) : i # j =>
                 \E a, b \in DOMAIN seq :
                    a # b /\ Kept(seq, S)[i] = seq[a] /\ Kept(seq, S)[j] = seq[b]
<1> DEFINE K == Kept(seq, S)
           R(j) == Rank(seq, S, j)
<1>1. /\ K \in Seq(T)
      /\ \A j \in 1..Len(seq) : seq[j] \in S => R(j) \in 1..Len(K) /\ K[R(j)] = seq[j]
      /\ \A m \in 1..Len(K) : \E j \in 1..Len(seq) : seq[j] \in S /\ R(j) = m
  BY KeptRanks
<1>2. DOMAIN K = 1..Len(K) /\ DOMAIN seq = 1..Len(seq)
  BY <1>1, LenProperties
<1> HIDE DEF K, R
<1>3. ToSet(K) = ToSet(seq) \cap S
  <2>1. ASSUME NEW m \in DOMAIN K PROVE K[m] \in ToSet(seq) \cap S
    BY <1>1, <1>2 DEF ToSet
  <2>2. ASSUME NEW j \in DOMAIN seq, seq[j] \in S PROVE seq[j] \in ToSet(K)
    BY <1>1, <1>2, <2>2 DEF ToSet
  <2> QED BY <2>1, <2>2 DEF ToSet
<1>4. ASSUME NEW i \in DOMAIN K, NEW j \in DOMAIN K, i # j
      PROVE  \E a, b \in DOMAIN seq : a # b /\ K[i] = seq[a] /\ K[j] = seq[b]
  <2>1. PICK a \in DOMAIN seq : seq[a] \in S /\ R(a) = i
    BY <1>1, <1>2
  <2>2. PICK b \in DOMAIN seq : seq[b] \in S /\ R(b) = j
    BY <1>1, <1>2
  <2> QED BY <2>1, <2>2, <1>1, <1>2, <1>4
<1> QED BY <1>1, <1>3, <1>4 DEF K

\* A sequence whose elements all are in S is kept as it is.
LEMMA KeptAll ==
    ASSUME NEW T, NEW seq \in Seq(T), NEW S, \A i \in DOMAIN seq : seq[i] \in S
    PROVE  Kept(seq, S) = seq
<1> DEFINE K == Kept(seq, S)
<1>1. Len(seq) \in Nat /\ DOMAIN seq = 1..Len(seq)
  BY LenProperties
<1>2. ASSUME NEW j \in 0..Len(seq) PROVE Rank(seq, S, j) = j
  <2>1. {k \in 1..j : seq[k] \in S} = 1..j
    BY <1>1
  <2>2. Cardinality(1..j) = j
    BY <1>1, FS_Interval
  <2> QED BY <2>1, <2>2 DEF Rank
<1>3. K \in Seq(T) /\ Len(K) = Len(seq) /\ \A j \in 1..Len(seq) : K[j] = seq[j]
  <2>1. Rank(seq, S, Len(seq)) = Len(seq)
    BY <1>1, <1>2
  <2>2. \A j \in 1..Len(seq) : Rank(seq, S, j) = j /\ seq[j] \in S
    BY <1>1, <1>2
  <2> QED BY <2>1, <2>2, KeptRanks
<1> HIDE DEF K
<1>4. K = seq
  BY <1>3, SeqEqual
<1> QED BY <1>4 DEF K

\* When nothing is dropped the sequence is as it was.
LEMMA KeptSameLength ==
    ASSUME NEW T, NEW seq \in Seq(T), NEW S, Len(Kept(seq, S)) = Len(seq)
    PROVE  Kept(seq, S) = seq /\ \A i \in DOMAIN seq : seq[i] \in S
<1> DEFINE n == Len(seq)
           Up == {k \in 1..n : seq[k] \in S}
<1>1. n \in Nat /\ DOMAIN seq = 1..n
  BY LenProperties
<1>2. Cardinality(Up) = n
  BY KeptRanks DEF Rank
<1>3. IsFiniteSet(1..n) /\ Cardinality(1..n) = n
  <2> HIDE DEF n
  <2>1. IsFiniteSet(1..n)
    BY <1>1, FS_Interval
  <2>2. Cardinality(1..n) = n
    BY <1>1, FS_Interval
  <2> QED BY <2>1, <2>2
<1>4. Up = 1..n
  <2> HIDE DEF n
  <2>1. Up \in SUBSET (1..n)
    OBVIOUS
  <2> HIDE DEF Up
  <2> QED BY <1>2, <1>3, <2>1, FS_Subset
<1>5. \A i \in DOMAIN seq : seq[i] \in S
  BY <1>1, <1>4
<1> QED BY <1>5, KeptAll

\* The first element stays the first one when it is kept.
LEMMA KeptFirst ==
    ASSUME NEW T, NEW seq \in Seq(T), NEW S, seq # <<>>, seq[1] \in S
    PROVE  Kept(seq, S) # <<>> /\ Kept(seq, S)[1] = seq[1]
<1>1. 1 \in 1..Len(seq)
  BY LenProperties, EmptySeq
<1>2. Rank(seq, S, 0 + 1) = Rank(seq, S, 0) + 1 /\ Rank(seq, S, 0) = 0
  BY RankStep
<1>3. Rank(seq, S, 1) = 1
  BY <1>2
<1>4. 1 \in 1..Len(Kept(seq, S)) /\ Kept(seq, S)[1] = seq[1]
  BY <1>1, <1>3, KeptRanks
<1>5. Len(<<>>) = 0
  BY EmptySeq
<1> QED BY <1>4, <1>5

-----------------------------------------------------------------------------
(* Editors *)

Distinct(tabs) == \A i, j \in DOMAIN tabs : i # j => tabs[i].id # tabs[j].id
ActiveOpen(ed) == IF ed.tabs = <<>> THEN ed.active = Null ELSE ed.active \in IdsOf(ed.tabs)

\* An editor that the operations of useTabs.ts may be given.
Sound(ed) == ed \in Editor /\ Distinct(ed.tabs) /\ ActiveOpen(ed)

\* No tab has an id that is still to be drawn.
Drawn(ed, n) == \A i \in DOMAIN ed.tabs : ed.tabs[i].id.n <= n

\* The parts of an editor and of its tabs.
LEMMA EditorParts ==
    ASSUME NEW ed \in Editor
    PROVE  /\ ed = [tabs |-> ed.tabs, active |-> ed.active]
           /\ ed.tabs \in Seq(Tab) /\ ed.active \in Id \cup {Null}
           /\ Len(ed.tabs) \in Nat /\ DOMAIN ed.tabs = 1..Len(ed.tabs)
           /\ \A i \in DOMAIN ed.tabs :
                 /\ ed.tabs[i] \in Tab /\ ed.tabs[i].id \in Id
                 /\ ed.tabs[i].dirty \in BOOLEAN
           /\ IdsOf(ed.tabs) \subseteq Id
<1>1. ed = [tabs |-> ed.tabs, active |-> ed.active] /\ ed.tabs \in Seq(Tab) /\ ed.active \in Id \cup {Null}
  BY DEF Editor
<1>2. Len(ed.tabs) \in Nat /\ DOMAIN ed.tabs = 1..Len(ed.tabs)
  BY <1>1, LenProperties
<1>3. \A i \in DOMAIN ed.tabs : ed.tabs[i] \in Tab
  BY <1>1, <1>2, ElementOfSeq
<1>4. \A i \in DOMAIN ed.tabs : ed.tabs[i].id \in Id /\ ed.tabs[i].dirty \in BOOLEAN
  BY <1>3 DEF Tab
<1> QED BY <1>1, <1>2, <1>3, <1>4 DEF IdsOf

\* Keeping some of its tabs leaves an editor sound.
LEMMA KeepingSound ==
    ASSUME NEW ed, Sound(ed), NEW S
    PROVE  /\ Sound(Keeping(ed, Kept(ed.tabs, S)))
           /\ ToSet(Keeping(ed, Kept(ed.tabs, S)).tabs) = ToSet(ed.tabs) \cap S
<1> DEFINE kept == Kept(ed.tabs, S)
           new == Keeping(ed, kept)
<1>1. ed \in Editor
  BY DEF Sound
<1>2. /\ kept \in Seq(Tab) /\ ToSet(kept) = ToSet(ed.tabs) \cap S
      /\ \A i, j \in DOMAIN kept : i # j =>
            \E a, b \in DOMAIN ed.tabs :
               a # b /\ kept[i] = ed.tabs[a] /\ kept[j] = ed.tabs[b]
  <2>1. ed.tabs \in Seq(Tab)
    BY <1>1, EditorParts
  <2>2. kept \in Seq(Tab)
    BY <2>1, KeptElements
  <2>3. ToSet(kept) = ToSet(ed.tabs) \cap S
    BY <2>1, KeptElements
  <2>4. \A i, j \in DOMAIN kept : i # j =>
           \E a, b \in DOMAIN ed.tabs :
              a # b /\ kept[i] = ed.tabs[a] /\ kept[j] = ed.tabs[b]
    <3> DEFINE old == ed.tabs
    <3>1. old \in Seq(Tab) /\ kept = Kept(old, S)
      BY <2>1
    <3> HIDE DEF old
    <3>2. \A i, j \in DOMAIN Kept(old, S) : i # j =>
             \E a, b \in DOMAIN old :
                a # b /\ Kept(old, S)[i] = old[a] /\ Kept(old, S)[j] = old[b]
      BY <3>1, KeptElements
    <3> QED BY Zenon, <3>1, <3>2 DEF old
  <2> QED BY <2>2, <2>3, <2>4
<1> HIDE DEF kept
<1>3. Distinct(kept)
  BY <1>2 DEF Sound, Distinct
<1>4. \A i \in DOMAIN kept : kept[i].id \in Id
  <2> DEFINE any == [tabs |-> kept, active |-> Null]
  <2>1. any \in Editor
    BY <1>2 DEF Editor
  <2> QED BY <2>1, EditorParts
<1>5. ASSUME kept = <<>> PROVE Sound(new)
  <2>1. IdsOf(kept) = {}
    BY <1>5 DEF IdsOf
  <2> QED BY <1>2, <1>3, <1>5, <2>1 DEF Keeping, KeptActive, Sound, ActiveOpen, Editor
<1>6. ASSUME kept # <<>> PROVE Sound(new)
  <2>1. 1 \in DOMAIN kept /\ Head(kept) = kept[1]
    BY <1>2, <1>6, LenProperties, EmptySeq
  <2>2. Head(kept).id \in IdsOf(kept) /\ Head(kept).id \in Id
    BY <2>1, <1>4 DEF IdsOf
  <2>3. KeptActive(kept, ed.active) \in IdsOf(kept)
    BY <1>6, <2>2 DEF KeptActive
  <2>4. IdsOf(kept) \subseteq Id
    BY <1>4 DEF IdsOf
  <2> QED BY <1>2, <1>3, <1>6, <2>3, <2>4 DEF Keeping, Sound, ActiveOpen, Editor
<1>7. ToSet(new.tabs) = ToSet(ed.tabs) \cap S
  BY <1>2 DEF Keeping
<1>8. Sound(new)
  BY <1>5, <1>6
<1> HIDE DEF new
<1> QED BY <1>7, <1>8 DEF kept, new

\* Reconciliation keeps the valid tabs, and only those.
LEMMA ReconcileSound ==
    ASSUME NEW ed, Sound(ed), NEW cs, NEW cat
    PROVE  /\ Sound(reconcile(ed, cs, cat))
           /\ ToSet(reconcile(ed, cs, cat).tabs) = {tab \in ToSet(ed.tabs) : Valid(tab, cs, cat)}
<1> DEFINE S == {tab \in ToSet(ed.tabs) : Valid(tab, cs, cat)}
<1>1. ToSet(ed.tabs) \cap S = S
  OBVIOUS
<1>2. reconcile(ed, cs, cat) = Keeping(ed, Kept(ed.tabs, S))
  BY DEF reconcile
<1> HIDE DEF S
<1>3. Sound(reconcile(ed, cs, cat)) /\ ToSet(reconcile(ed, cs, cat).tabs) = S
  BY <1>1, <1>2, KeepingSound
<1> QED BY <1>3 DEF S

\* The same, position by position.
LEMMA ReconcileTabs ==
    ASSUME NEW ed, Sound(ed), NEW cs, NEW cat
    PROVE  LET new == reconcile(ed, cs, cat)
           IN /\ \A i \in DOMAIN new.tabs : Valid(new.tabs[i], cs, cat)
              /\ \A i \in DOMAIN ed.tabs :
                    Valid(ed.tabs[i], cs, cat) => ed.tabs[i].id \in IdsOf(new.tabs)
              /\ IdsOf(new.tabs) \subseteq IdsOf(ed.tabs)
              /\ \A n : Drawn(ed, n) => Drawn(new, n)
<1> DEFINE new == reconcile(ed, cs, cat)
<1>1. ToSet(new.tabs) = {tab \in ToSet(ed.tabs) : Valid(tab, cs, cat)}
  BY ReconcileSound
<1> HIDE DEF new
<1>2. ASSUME NEW i \in DOMAIN new.tabs
      PROVE  Valid(new.tabs[i], cs, cat) /\ \E k \in DOMAIN ed.tabs : new.tabs[i] = ed.tabs[k]
  BY <1>1 DEF ToSet
<1>3. ASSUME NEW i \in DOMAIN ed.tabs, Valid(ed.tabs[i], cs, cat)
      PROVE  ed.tabs[i].id \in IdsOf(new.tabs)
  <2>1. PICK k \in DOMAIN new.tabs : new.tabs[k] = ed.tabs[i]
    BY <1>1, <1>3 DEF ToSet
  <2> QED BY <2>1 DEF IdsOf
<1>4. IdsOf(new.tabs) \subseteq IdsOf(ed.tabs)
  BY <1>2 DEF IdsOf
<1>5. ASSUME NEW n, Drawn(ed, n) PROVE Drawn(new, n)
  BY <1>2, <1>5 DEF Drawn
<1> QED BY <1>2, <1>3, <1>4, <1>5 DEF new

\* Scoping keeps ids and soundness, and scoping again changes nothing.
LEMMA ScopedSound ==
    ASSUME NEW ed, Sound(ed), NEW allowed
    PROVE  LET new == scopeWorkspaceSnapshot(ed, allowed)
           IN /\ Sound(new)
              /\ IdsOf(new.tabs) \subseteq IdsOf(ed.tabs)
              /\ \A n : Drawn(ed, n) => Drawn(new, n)
              /\ scopeWorkspaceSnapshot(new, allowed) = new
<1> DEFINE In(tab) == tab.id.conn \in allowed /\ (tab.ends # Null => tab.ends[2] \in allowed)
           InScope(e) == {tab \in ToSet(e.tabs) :
                             /\ tab.id.conn \in allowed
                             /\ tab.ends # Null => tab.ends[2] \in allowed}
           kept == Keeping(ed, Kept(ed.tabs, InScope(ed)))
           Clean(e) == [e EXCEPT !.tabs = [i \in DOMAIN e.tabs |-> [e.tabs[i] EXCEPT !.dirty = FALSE]]]
           new == Clean(kept)
<1>1. \A e : scopeWorkspaceSnapshot(e, allowed) = Clean(Keeping(e, Kept(e.tabs, InScope(e))))
  BY DEF scopeWorkspaceSnapshot
<1>2. Sound(kept) /\ ToSet(kept.tabs) = ToSet(ed.tabs) \cap InScope(ed)
  <2> HIDE DEF InScope
  <2> QED BY KeepingSound
<1>3. \A i \in DOMAIN kept.tabs : kept.tabs[i] \in ToSet(ed.tabs) /\ In(kept.tabs[i])
  <2> HIDE DEF kept
  <2> QED BY <1>2 DEF ToSet
<1> HIDE DEF kept
<1>4. /\ kept.tabs \in Seq(Tab) /\ kept \in Editor
      /\ Len(kept.tabs) \in Nat /\ DOMAIN kept.tabs = 1..Len(kept.tabs)
      /\ \A i \in DOMAIN kept.tabs : kept.tabs[i] \in Tab
  BY <1>2, EditorParts DEF Sound
<1>5. /\ DOMAIN new.tabs = DOMAIN kept.tabs /\ new.active = kept.active
      /\ new = [tabs |-> new.tabs, active |-> kept.active]
      /\ new.tabs = [i \in 1..Len(kept.tabs) |-> [kept.tabs[i] EXCEPT !.dirty = FALSE]]
  <2>1. kept = [tabs |-> kept.tabs, active |-> kept.active]
    BY <1>4 DEF Editor
  <2>2. new.tabs = [i \in 1..Len(kept.tabs) |-> [kept.tabs[i] EXCEPT !.dirty = FALSE]]
    BY <1>4, <2>1
  <2>3. new.active = kept.active /\ new = [tabs |-> new.tabs, active |-> kept.active]
    <3> DEFINE clean == [i \in DOMAIN kept.tabs |-> [kept.tabs[i] EXCEPT !.dirty = FALSE]]
    <3>1. new = [kept EXCEPT !.tabs = clean]
      OBVIOUS
    <3> HIDE DEF clean, new
    <3>2. new = [tabs |-> clean, active |-> kept.active]
      BY <2>1, <3>1
    <3> QED BY <3>2
  <2> QED BY <1>4, <2>2, <2>3
<1>6. \A i \in DOMAIN kept.tabs :
         /\ new.tabs[i] \in Tab /\ new.tabs[i].id = kept.tabs[i].id
         /\ new.tabs[i].ends = kept.tabs[i].ends /\ new.tabs[i].dirty = FALSE
         /\ [new.tabs[i] EXCEPT !.dirty = FALSE] = new.tabs[i]
  BY <1>4, <1>5 DEF Tab
<1> HIDE DEF new
<1>7. new.tabs \in Seq(Tab) /\ Len(new.tabs) = Len(kept.tabs)
  <2>1. new.tabs \in [1..Len(kept.tabs) -> Tab]
    BY <1>4, <1>5, <1>6
  <2>2. new.tabs \in Seq(Tab)
    BY <2>1, <1>4, SeqDef
  <2> QED BY <2>1, <2>2, <1>4, LenProperties
<1>8. IdsOf(new.tabs) = IdsOf(kept.tabs)
  <2>1. \A i \in DOMAIN kept.tabs : new.tabs[i].id = kept.tabs[i].id
    BY <1>6
  <2>2. DOMAIN new.tabs = DOMAIN kept.tabs
    BY <1>5
  <2> QED BY <2>1, <2>2 DEF IdsOf
<1>9. Sound(new)
  <2>1. new \in Editor
    BY <1>4, <1>5, <1>7 DEF Editor
  <2>2. Distinct(new.tabs)
    BY <1>2, <1>5, <1>6 DEF Sound, Distinct
  <2>3. ActiveOpen(new)
    <3>1. new.tabs = <<>> <=> kept.tabs = <<>>
      BY <1>4, <1>7, EmptySeq
    <3> QED BY <3>1, <1>2, <1>5, <1>8 DEF Sound, ActiveOpen
  <2> QED BY <2>1, <2>2, <2>3 DEF Sound
<1>10. IdsOf(new.tabs) \subseteq IdsOf(ed.tabs) /\ \A n : Drawn(ed, n) => Drawn(new, n)
  BY <1>3, <1>5, <1>6, <1>8 DEF IdsOf, Drawn, ToSet
<1>11. Clean(Keeping(new, Kept(new.tabs, InScope(new)))) = new
  <2>1. \A i \in DOMAIN new.tabs : new.tabs[i] \in InScope(new)
    BY <1>3, <1>5, <1>6 DEF ToSet
  <2>2. Kept(new.tabs, InScope(new)) = new.tabs
    <3> HIDE DEF InScope
    <3> QED BY <1>7, <2>1, KeptAll
  <2>3. KeptActive(new.tabs, new.active) = new.active
    <3>1. new.tabs = <<>> => IdsOf(new.tabs) = {}
      BY DEF IdsOf
    <3> QED BY <1>9, <3>1 DEF Sound, ActiveOpen, KeptActive
  <2>4. Keeping(new, new.tabs) = new
    BY <2>3, <1>5 DEF Keeping
  <2>5. [i \in DOMAIN new.tabs |-> [new.tabs[i] EXCEPT !.dirty = FALSE]] = new.tabs
    BY <1>5, <1>6, <1>7
  <2>6. Clean(new) = new
    BY <2>5, <1>5
  <2> QED BY <2>2, <2>4, <2>6
<1> QED BY <1>1, <1>9, <1>10, <1>11 DEF new, kept

-----------------------------------------------------------------------------
(* Histories *)

History == [entries : Seq(Location), cursor : Nat, prev : Id \cup {Null}]

\* Within the limit, and the cursor at an entry when there is one.
Fits(entries, cursor) ==
    Len(entries) <= NavLimit /\ cursor <= Len(entries) /\ (entries # <<>> => cursor # 0)

\* A history that the operations of navigationHistory.ts may be given.
Tidy(h) == h \in History /\ Fits(h.entries, h.cursor)

\* Every entry is of one of these tabs.
Among(entries, ids) == \A k \in DOMAIN entries : entries[k].tab \in ids

\* The cursor is at the active tab.
At(h, ed) == h.entries # <<>> => h.entries[h.cursor].tab = ed.active

\* It is, unless the active tab is about to be recorded as a new one.
OnActive(h, ed) == ed.active = h.prev => At(h, ed)

\* The parts of a history and of its entries.
LEMMA HistoryParts ==
    ASSUME NEW h, Tidy(h)
    PROVE  /\ h = [entries |-> h.entries, cursor |-> h.cursor, prev |-> h.prev]
           /\ h.entries \in Seq(Location) /\ h.cursor \in Nat /\ h.prev \in Id \cup {Null}
           /\ Len(h.entries) \in Nat /\ DOMAIN h.entries = 1..Len(h.entries)
           /\ Len(h.entries) <= NavLimit /\ h.cursor <= Len(h.entries)
           /\ h.entries # <<>> => h.cursor \in DOMAIN h.entries
           /\ \A k \in DOMAIN h.entries : /\ h.entries[k] \in Location
                                          /\ h.entries[k].tab \in Id /\ h.entries[k].cell \in Cells
<1>1. /\ h = [entries |-> h.entries, cursor |-> h.cursor, prev |-> h.prev]
      /\ h.entries \in Seq(Location) /\ h.cursor \in Nat /\ h.prev \in Id \cup {Null}
  BY DEF Tidy, History
<1>2. Len(h.entries) \in Nat /\ DOMAIN h.entries = 1..Len(h.entries)
  BY <1>1, LenProperties
<1>3. /\ Len(h.entries) <= NavLimit /\ h.cursor <= Len(h.entries)
      /\ h.entries # <<>> => h.cursor \in DOMAIN h.entries
  BY <1>1, <1>2 DEF Tidy, Fits
<1>4. \A k \in DOMAIN h.entries : h.entries[k] \in Location
  BY <1>1, <1>2, ElementOfSeq
<1>5. \A k \in DOMAIN h.entries : h.entries[k].tab \in Id /\ h.entries[k].cell \in Cells
  BY <1>4 DEF Location
<1> QED BY <1>1, <1>2, <1>3, <1>4, <1>5

\* A visit ends up under the cursor, and the history within its limit.
LEMMA PushTidy ==
    ASSUME NEW h, Tidy(h), NEW loc \in Location
    PROVE  LET new == pushNavigation(h, loc)
           IN /\ Tidy(new) /\ new.prev = h.prev
              /\ new.entries # <<>> /\ new.entries[new.cursor] = loc
              /\ \A ids : Among(h.entries, ids) /\ loc.tab \in ids => Among(new.entries, ids)
<1> DEFINE new == pushNavigation(h, loc)
           long == Append(SubSeq(h.entries, 1, h.cursor), loc)
           over == IF Len(long) > NavLimit THEN Len(long) - NavLimit ELSE 0
<1>1. /\ h = [entries |-> h.entries, cursor |-> h.cursor, prev |-> h.prev]
      /\ h.entries \in Seq(Location) /\ h.cursor \in Nat /\ h.prev \in Id \cup {Null}
      /\ Len(h.entries) \in Nat /\ DOMAIN h.entries = 1..Len(h.entries)
      /\ Len(h.entries) <= NavLimit /\ h.cursor <= Len(h.entries)
      /\ \A k \in DOMAIN h.entries : h.entries[k] \in Location
  BY HistoryParts
<1>2. NavLimit \in Nat \ {0}
  BY BoundsAssumption
<1>3. CASE h.cursor \in DOMAIN h.entries /\ h.entries[h.cursor] = loc
  <2>1. new = h
    BY <1>3 DEF pushNavigation
  <2>2. h.entries # <<>>
    BY <1>1, <1>3, EmptySeq
  <2> QED BY <1>3, <2>1, <2>2
<1>4. CASE ~(h.cursor \in DOMAIN h.entries /\ h.entries[h.cursor] = loc)
  <2>1. /\ SubSeq(h.entries, 1, h.cursor) \in Seq(Location)
        /\ Len(SubSeq(h.entries, 1, h.cursor)) = h.cursor
        /\ \A k \in 1..h.cursor : SubSeq(h.entries, 1, h.cursor)[k] = h.entries[k]
    <3>1. \A k \in 1..h.cursor : h.entries[k] \in Location
      BY <1>1
    <3> QED BY <1>1, <3>1, SubSeqProperties
  <2>2. /\ long \in Seq(Location) /\ Len(long) = h.cursor + 1
        /\ \A k \in 1..h.cursor : long[k] = h.entries[k]
        /\ long[h.cursor + 1] = loc
    BY <2>1, <1>1, AppendProperties
  <2> HIDE DEF long
  <2>3. over \in {0, 1} /\ over = (IF h.cursor = NavLimit THEN 1 ELSE 0)
    BY <1>1, <1>2, <2>2
  <2>4. new = [h EXCEPT !.entries = SubSeq(long, over + 1, Len(long)),
                        !.cursor = Len(long) - over]
    BY <1>4 DEF pushNavigation, long
  <2> HIDE DEF over, new
  <2>5. /\ new.entries = SubSeq(long, over + 1, Len(long)) /\ new.prev = h.prev
        /\ new.cursor = h.cursor + 1 - over
        /\ new = [entries |-> new.entries, cursor |-> new.cursor, prev |-> new.prev]
    <3> DEFINE cut == SubSeq(long, over + 1, Len(long))
               last == Len(long) - over
    <3>1. last = h.cursor + 1 - over
      BY <2>2, <2>3, <1>1
    <3>2. new = [h EXCEPT !.entries = cut, !.cursor = last]
      BY <2>4
    <3> HIDE DEF cut, last
    <3>3. /\ new.entries = cut /\ new.prev = h.prev /\ new.cursor = last
          /\ new = [entries |-> new.entries, cursor |-> new.cursor, prev |-> new.prev]
      BY <3>2, <1>1
    <3> QED BY <3>1, <3>3 DEF cut
  <2>6. /\ new.entries \in Seq(Location) /\ Len(new.entries) = h.cursor + 1 - over
        /\ \A k \in 1..(h.cursor + 1 - over) : new.entries[k] = long[over + k]
    <3>1. over + 1 \in Int /\ Len(long) \in Int /\ over + 1 <= Len(long) + 1
      BY <2>2, <2>3, <1>1
    <3>2. \A k \in (over + 1)..Len(long) : long[k] \in Location
      <4>1. \A k \in 1..Len(long) : long[k] \in Location
        BY <2>2, ElementOfSeq
      <4> QED BY <4>1, <2>3, <2>2, <1>1
    <3>3. over + 1 \in 1..(Len(long) + 1) /\ Len(long) \in 0..Len(long)
      BY <2>2, <2>3, <1>1
    <3> QED BY <3>1, <3>2, <3>3, <2>2, <2>3, <2>5, <1>1, SubSeqProperties
  <2>7. new.entries # <<>>
    <3>1. Len(new.entries) # 0
      BY <2>3, <2>6, <1>1, <1>2
    <3> QED BY <3>1, EmptySeq
  <2>8. Tidy(new)
    <3>1. Fits(new.entries, new.cursor)
      BY <2>3, <2>5, <2>6, <1>1, <1>2 DEF Fits
    <3>2. new \in History
      <4>1. new.cursor \in Nat
        BY <2>3, <2>5, <1>1
      <4> QED BY <4>1, <2>5, <2>6, <1>1 DEF History
    <3> QED BY <3>1, <3>2 DEF Tidy
  <2>9. new.entries[new.cursor] = loc
    <3>1. new.cursor \in 1..(h.cursor + 1 - over) /\ over + new.cursor = h.cursor + 1
      BY <2>3, <2>5, <1>1, <1>2
    <3> QED BY <3>1, <2>6, <2>2
  <2>10. ASSUME NEW ids, Among(h.entries, ids), loc.tab \in ids
         PROVE  Among(new.entries, ids)
    <3>1. \A k \in 1..(h.cursor + 1) : long[k].tab \in ids
      BY <2>2, <2>10, <1>1 DEF Among
    <3>2. DOMAIN new.entries = 1..(h.cursor + 1 - over)
      BY <2>6, LenProperties
    <3>3. \A k \in 1..(h.cursor + 1 - over) : over + k \in 1..(h.cursor + 1)
      BY <2>3, <1>1
    <3> QED BY <3>1, <3>2, <3>3, <2>6 DEF Among
  <2> QED BY <2>5, <2>7, <2>8, <2>9, <2>10 DEF new
<1> QED BY <1>3, <1>4

\* Pruning leaves entries of open tabs; the current one stays current if it may.
LEMMA PruneTidy ==
    ASSUME NEW h, Tidy(h), NEW open
    PROVE  LET new == pruneNavigation(h, open)
           IN /\ Tidy(new) /\ new.prev = h.prev /\ Among(new.entries, open)
              /\ h.entries # <<>> /\ h.entries[h.cursor].tab \in open =>
                    new.entries # <<>> /\ new.entries[new.cursor] = h.entries[h.cursor]
              /\ \A ids : Among(h.entries, ids) => Among(new.entries, ids)
<1> DEFINE new == pruneNavigation(h, open)
           S == [tab : open, cell : Cells]
           K == Kept(h.entries, S)
           before == Cardinality({k \in 1..(h.cursor - 1) : h.entries[k].tab \in open})
<1>1. /\ h = [entries |-> h.entries, cursor |-> h.cursor, prev |-> h.prev]
      /\ h.entries \in Seq(Location) /\ h.cursor \in Nat /\ h.prev \in Id \cup {Null}
      /\ Len(h.entries) \in Nat /\ DOMAIN h.entries = 1..Len(h.entries)
      /\ Len(h.entries) <= NavLimit /\ h.cursor <= Len(h.entries)
      /\ h.entries # <<>> => h.cursor \in DOMAIN h.entries
      /\ \A k \in DOMAIN h.entries : h.entries[k] \in Location
  BY HistoryParts
<1>2. \A k \in DOMAIN h.entries : h.entries[k] \in S <=> h.entries[k].tab \in open
  BY <1>1 DEF Location
<1> HIDE DEF S
<1>3. K \in Seq(Location) /\ ToSet(K) = ToSet(h.entries) \cap S
  BY <1>1, KeptElements
<1>4. /\ Len(K) = Rank(h.entries, S, Len(h.entries))
      /\ \A j \in 1..Len(h.entries) : h.entries[j] \in S =>
            Rank(h.entries, S, j) \in 1..Len(K) /\ K[Rank(h.entries, S, j)] = h.entries[j]
  BY <1>1, KeptRanks
<1>5. Len(K) \in Nat /\ Len(K) <= Len(h.entries) /\ DOMAIN K = 1..Len(K)
  <2>1. Rank(h.entries, S, Len(h.entries)) <= Len(h.entries)
    BY <1>1, RankStep
  <2> QED BY <2>1, <1>3, <1>4, LenProperties
<1>6. h.entries # <<>> =>
         /\ before = Rank(h.entries, S, h.cursor - 1) /\ before \in Nat
         /\ h.entries[h.cursor] \in S => Rank(h.entries, S, h.cursor) = before + 1
  <2> SUFFICES ASSUME h.entries # <<>>
               PROVE  /\ before = Rank(h.entries, S, h.cursor - 1) /\ before \in Nat
                      /\ h.entries[h.cursor] \in S => Rank(h.entries, S, h.cursor) = before + 1
    OBVIOUS
  <2>1. h.cursor \in 1..Len(h.entries) /\ h.cursor - 1 \in Nat /\ (h.cursor - 1) + 1 = h.cursor
    BY <1>1
  <2>2. {k \in 1..(h.cursor - 1) : h.entries[k].tab \in open}
           = {k \in 1..(h.cursor - 1) : h.entries[k] \in S}
    BY <2>1, <1>1, <1>2
  <2>3. before = Rank(h.entries, S, h.cursor - 1)
    BY <2>2 DEF Rank
  <2>4. Rank(h.entries, S, h.cursor - 1) \in Nat
    BY <2>1, RankStep
  <2>5. h.entries[(h.cursor - 1) + 1] \in S =>
           Rank(h.entries, S, (h.cursor - 1) + 1) = Rank(h.entries, S, h.cursor - 1) + 1
    BY <2>1, RankStep
  <2> HIDE DEF before
  <2> QED BY <2>1, <2>3, <2>4, <2>5
<1>7. \A j \in DOMAIN K : \E i \in DOMAIN h.entries : K[j] = h.entries[i] /\ h.entries[i].tab \in open
  <2> HIDE DEF K
  <2>1. \A j \in DOMAIN K : K[j] \in ToSet(h.entries) /\ K[j] \in S
    BY <1>3 DEF ToSet
  <2> QED BY <2>1, <1>2 DEF ToSet
<1> HIDE DEF K, before
<1>8. CASE Len(K) = Len(h.entries)
  <2>1. new = h
    BY <1>8 DEF pruneNavigation, K, S
  <2>2. \A i \in DOMAIN h.entries : h.entries[i] \in S
    BY <1>1, <1>8, KeptSameLength DEF K
  <2>3. Among(h.entries, open)
    BY <1>2, <2>2 DEF Among
  <2> QED BY <2>1, <2>3
<1>9. CASE Len(K) # Len(h.entries)
  <2>1. h.entries # <<>>
    BY <1>9, <1>5, EmptySeq
  <2>2. new = [h EXCEPT !.entries = K,
                        !.cursor = IF before + 1 > Len(K) THEN Len(K) ELSE before + 1]
    BY <1>9 DEF pruneNavigation, K, S, before
  <2> HIDE DEF new
  <2>3. /\ new.entries = K /\ new.prev = h.prev
        /\ new.cursor = IF before + 1 > Len(K) THEN Len(K) ELSE before + 1
        /\ new = [entries |-> new.entries, cursor |-> new.cursor, prev |-> new.prev]
    BY <2>2, <1>1
  <2>4. new.cursor \in Nat /\ new.cursor <= Len(K) /\ (Len(K) # 0 => new.cursor # 0)
    BY <2>1, <2>3, <1>5, <1>6
  <2>5. Tidy(new)
    <3>1. K # <<>> => Len(K) # 0
      BY <1>3, EmptySeq
    <3>2. Fits(new.entries, new.cursor)
      BY <2>3, <2>4, <3>1, <1>1, <1>5, BoundsAssumption DEF Fits
    <3>3. new \in History
      BY <2>3, <2>4, <1>1, <1>3 DEF History
    <3> QED BY <3>2, <3>3 DEF Tidy
  <2>6. ASSUME h.entries[h.cursor].tab \in open
        PROVE  new.entries # <<>> /\ new.entries[new.cursor] = h.entries[h.cursor]
    <3>1. h.cursor \in 1..Len(h.entries) /\ h.entries[h.cursor] \in S
      BY <2>1, <2>6, <1>1, <1>2
    <3>2. before + 1 \in 1..Len(K) /\ K[before + 1] = h.entries[h.cursor]
      BY <3>1, <1>4, <1>6, <2>1
    <3>3. new.cursor = before + 1
      BY <3>2, <2>3, <1>5, <1>6, <2>1
    <3>4. K # <<>>
      BY <3>2, EmptySeq
    <3> QED BY <3>2, <3>3, <3>4, <2>3
  <2>7. Among(new.entries, open) /\ \A ids : Among(h.entries, ids) => Among(new.entries, ids)
    BY <1>7, <2>3 DEF Among
  <2>8. new.prev = h.prev
    BY <2>3
  <2> QED BY <2>5, <2>6, <2>7, <2>8 DEF new
<1> QED BY <1>8, <1>9

\* A sequence without positions is the empty one.
LEMMA NoPositions ==
    ASSUME NEW T, NEW seq \in Seq(T), DOMAIN seq = {}
    PROVE  seq = <<>>
<1>1. Len(seq) \in Nat /\ 1..Len(seq) = {}
  BY LenProperties
<1>2. Len(seq) = 0
  BY <1>1
<1> QED BY <1>2, EmptySeq

\* The effect that records the active tab leaves a history of open tabs with
\* its cursor at the active one.
LEMMA RecordedTidy ==
    ASSUME NEW h, Tidy(h), NEW ed, Sound(ed), NEW cell \in Cells
    PROVE  LET new == Recorded(h, ed, cell)
           IN /\ Tidy(new) /\ Among(new.entries, IdsOf(ed.tabs))
              /\ ed.active # Null => new.prev = ed.active
              /\ ed.active = Null => new.prev = h.prev
              /\ OnActive(h, ed) => At(new, ed)
<1> DEFINE new == Recorded(h, ed, cell)
           pruned == pruneNavigation(h, IdsOf(ed.tabs))
           loc == [tab |-> ed.active, cell |-> cell]
<1>1. /\ Tidy(pruned) /\ pruned.prev = h.prev /\ Among(pruned.entries, IdsOf(ed.tabs))
      /\ h.entries # <<>> /\ h.entries[h.cursor].tab \in IdsOf(ed.tabs) =>
            pruned.entries # <<>> /\ pruned.entries[pruned.cursor] = h.entries[h.cursor]
  <2>1. Tidy(pruned)
    BY PruneTidy
  <2>2. pruned.prev = h.prev /\ Among(pruned.entries, IdsOf(ed.tabs))
    BY PruneTidy
  <2>3. h.entries # <<>> /\ h.entries[h.cursor].tab \in IdsOf(ed.tabs) =>
           pruned.entries # <<>> /\ pruned.entries[pruned.cursor] = h.entries[h.cursor]
    BY PruneTidy
  <2> QED BY <2>1, <2>2, <2>3
<1>2. h.entries = <<>> => pruned.entries = <<>>
  <2> SUFFICES ASSUME h.entries = <<>> PROVE pruned.entries = <<>>
    OBVIOUS
  <2>1. Among(h.entries, {})
    BY DEF Among
  <2>2. Among(pruned.entries, {})
    BY <2>1, PruneTidy
  <2> HIDE DEF pruned
  <2>3. pruned.entries \in Seq(Location) /\ DOMAIN pruned.entries = {}
    BY <1>1, <2>2, HistoryParts DEF Among
  <2> QED BY <2>3, NoPositions
<1>3. /\ ed.active \in Id \cup {Null}
      /\ ed.tabs = <<>> => ed.active = Null /\ IdsOf(ed.tabs) = {}
      /\ ed.tabs # <<>> => ed.active \in IdsOf(ed.tabs) /\ ed.active # Null
  <2>1. ed \in Editor
    BY DEF Sound
  <2>2. ed.active \in Id \cup {Null} /\ IdsOf(ed.tabs) \subseteq Id
    BY <2>1, EditorParts
  <2>3. ed.tabs = <<>> => IdsOf(ed.tabs) = {}
    BY DEF IdsOf
  <2> QED BY <2>2, <2>3, NamesAssumption DEF Sound, ActiveOpen
<1> HIDE DEF pruned
<1>4. CASE ed.active = Null
  <2>1. new = pruned
    BY <1>4 DEF Recorded, pruned
  <2>2. ed.tabs = <<>> /\ DOMAIN pruned.entries = {}
    BY <1>1, <1>3, <1>4 DEF Among
  <2>3. pruned.entries = <<>>
    BY <1>1, <2>2, NoPositions, HistoryParts
  <2> QED BY <1>1, <1>4, <2>1, <2>3 DEF At
<1>5. CASE ed.active # Null /\ ed.active = h.prev
  <2>1. new = pruned
    BY <1>5 DEF Recorded, pruned
  <2>2. ed.active \in IdsOf(ed.tabs)
    BY <1>3, <1>5
  <2>3. OnActive(h, ed) => At(pruned, ed)
    BY <1>1, <1>2, <1>5, <2>2 DEF OnActive, At
  <2> QED BY <1>1, <1>5, <2>1, <2>3
<1>6. CASE ed.active # Null /\ ed.active # h.prev
  <2> DEFINE pushed == pushNavigation(pruned, loc)
  <2>1. loc \in Location /\ loc.tab = ed.active /\ ed.active \in IdsOf(ed.tabs)
    BY <1>3, <1>6 DEF Location
  <2> HIDE DEF loc
  <2>2. /\ Tidy(pushed) /\ pushed.entries # <<>> /\ pushed.entries[pushed.cursor] = loc
        /\ Among(pushed.entries, IdsOf(ed.tabs))
    <3>1. Tidy(pushed) /\ pushed.entries # <<>> /\ pushed.entries[pushed.cursor] = loc
      BY <1>1, <2>1, PushTidy
    <3>2. Among(pushed.entries, IdsOf(ed.tabs))
      BY <1>1, <2>1, PushTidy
    <3> QED BY <3>1, <3>2
  <2>3. new = [pushed EXCEPT !.prev = ed.active]
    BY <1>6 DEF Recorded, pruned, loc
  <2> HIDE DEF pushed, new
  <2>4. /\ new.entries = pushed.entries /\ new.cursor = pushed.cursor /\ new.prev = ed.active
        /\ new = [entries |-> new.entries, cursor |-> new.cursor, prev |-> new.prev]
    BY <2>2, <2>3, HistoryParts
  <2>5. Tidy(new)
    BY <2>2, <2>4, <1>3, HistoryParts DEF Tidy, History
  <2>6. At(new, ed)
    BY <2>1, <2>2, <2>4 DEF At
  <2> QED BY <1>6, <2>2, <2>4, <2>5, <2>6 DEF new
<1> QED BY <1>4, <1>5, <1>6

\* What the effects of a render make of an editor and a history.
LEMMA ShownSound ==
    ASSUME NEW h, Tidy(h), NEW ed, Sound(ed), NEW cs, NEW cat, NEW cell \in Cells
    PROVE  LET e == reconcile(ed, cs, cat)
               n == Recorded(Recorded(h, ed, cell), e, cell)
           IN /\ Sound(e) /\ Tidy(n) /\ Among(n.entries, IdsOf(e.tabs))
              /\ e.active # Null => n.prev = e.active
              /\ OnActive(h, ed) => At(n, e)
              /\ At(n, e) \/ e.active = h.prev
<1> DEFINE e == reconcile(ed, cs, cat)
           m == Recorded(h, ed, cell)
           n == Recorded(m, e, cell)
<1>1. Sound(e)
  BY ReconcileSound
<1>2. /\ Tidy(m)
      /\ ed.active # Null => m.prev = ed.active
      /\ ed.active = Null => m.prev = h.prev
      /\ OnActive(h, ed) => At(m, ed)
      /\ Among(m.entries, IdsOf(ed.tabs))
  <2>1. Tidy(m) /\ Among(m.entries, IdsOf(ed.tabs))
    BY RecordedTidy
  <2>2. ed.active # Null => m.prev = ed.active
    BY RecordedTidy
  <2>3. ed.active = Null => m.prev = h.prev
    BY RecordedTidy
  <2>4. OnActive(h, ed) => At(m, ed)
    BY RecordedTidy
  <2> QED BY <2>1, <2>2, <2>3, <2>4
<1>3. IdsOf(e.tabs) \subseteq IdsOf(ed.tabs)
  BY ReconcileTabs
<1> HIDE DEF m, e
<1>4. /\ Tidy(n) /\ Among(n.entries, IdsOf(e.tabs))
      /\ e.active # Null => n.prev = e.active
      /\ OnActive(m, e) => At(n, e)
  <2>1. Tidy(n) /\ Among(n.entries, IdsOf(e.tabs))
    BY <1>1, <1>2, RecordedTidy
  <2>2. e.active # Null => n.prev = e.active
    BY <1>1, <1>2, RecordedTidy
  <2>3. OnActive(m, e) => At(n, e)
    BY <1>1, <1>2, RecordedTidy
  <2> QED BY <2>1, <2>2, <2>3
<1>5. /\ ed.active = Null => ed.tabs = <<>> /\ IdsOf(ed.tabs) = {}
      /\ e.active = Null => IdsOf(e.tabs) = {}
      /\ e.active # Null => IdsOf(e.tabs) # {}
  <2>1. \A x : Sound(x) => /\ x.active = Null => x.tabs = <<>> /\ IdsOf(x.tabs) = {}
                           /\ x.active # Null => IdsOf(x.tabs) # {}
    <3> TAKE x
    <3> SUFFICES ASSUME Sound(x)
                 PROVE  /\ x.active = Null => x.tabs = <<>> /\ IdsOf(x.tabs) = {}
                        /\ x.active # Null => IdsOf(x.tabs) # {}
      OBVIOUS
    <3>1. IdsOf(x.tabs) \subseteq Id
      BY EditorParts DEF Sound
    <3>2. x.tabs = <<>> => IdsOf(x.tabs) = {}
      BY DEF IdsOf
    <3> QED BY <3>1, <3>2, NamesAssumption DEF Sound, ActiveOpen
  <2> QED BY <2>1, <1>1
<1> HIDE DEF n
<1>6. CASE ed.active = Null
  <2>1. e.active = Null /\ DOMAIN n.entries = {}
    BY <1>3, <1>4, <1>5, <1>6 DEF Among
  <2>2. n.entries = <<>>
    BY <1>4, <2>1, NoPositions, HistoryParts
  <2>3. At(n, e)
    BY <2>2 DEF At
  <2> QED BY <1>1, <1>4, <2>3 DEF n, m, e
<1>7. CASE ed.active # Null
  <2>1. OnActive(h, ed) => At(n, e)
    BY <1>2, <1>4, <1>7 DEF OnActive, At
  <2>2. At(n, e) \/ e.active = ed.active
    BY <1>2, <1>4, <1>7 DEF OnActive
  <2>3. ed.active # h.prev => OnActive(h, ed)
    BY DEF OnActive
  <2> QED BY <1>1, <1>4, <2>1, <2>2, <2>3 DEF n, m, e
<1> QED BY <1>6, <1>7

-----------------------------------------------------------------------------
(* A sequence with one element taken out or put in *)

\* Removing a position moves the later elements one to the left.
LEMMA RemoveAtFacts ==
    ASSUME NEW T, NEW seq \in Seq(T), NEW i \in DOMAIN seq
    PROVE  /\ RemoveAt(seq, i) \in Seq(T) /\ Len(RemoveAt(seq, i)) = Len(seq) - 1
           /\ \A k \in 1..(Len(seq) - 1) :
                 /\ k < i => RemoveAt(seq, i)[k] = seq[k]
                 /\ k >= i => RemoveAt(seq, i)[k] = seq[k + 1]
<1> DEFINE n == Len(seq)
           left == SubSeq(seq, 1, i - 1)
           right == SubSeq(seq, i + 1, n)
<1>1. n \in Nat /\ i \in 1..n /\ \A k \in 1..n : seq[k] \in T
  BY LenProperties, ElementOfSeq
<1> HIDE DEF n
<1>2. /\ left \in Seq(T) /\ Len(left) = i - 1
      /\ \A k \in 1..(i - 1) : left[k] = seq[k]
  <2>1. i - 1 \in Int /\ \A k \in 1..(i - 1) : seq[k] \in T
    BY <1>1
  <2>2. \A k \in 1..((i - 1) - 1 + 1) : left[k] = seq[1 + k - 1]
    BY <2>1, SubSeqProperties
  <2>3. left \in Seq(T) /\ Len(left) = IF 1 <= i - 1 THEN (i - 1) - 1 + 1 ELSE 0
    BY <2>1, SubSeqProperties
  <2> HIDE DEF left
  <2> QED BY <1>1, <2>2, <2>3
<1>3. /\ right \in Seq(T) /\ Len(right) = n - i
      /\ \A k \in 1..(n - i) : right[k] = seq[i + k]
  <2>1. i + 1 \in Int /\ n \in Int /\ \A k \in (i + 1)..n : seq[k] \in T
    BY <1>1
  <2>2. \A k \in 1..(n - (i + 1) + 1) : right[k] = seq[(i + 1) + k - 1]
    BY <2>1, SubSeqProperties
  <2>3. right \in Seq(T) /\ Len(right) = IF i + 1 <= n THEN n - (i + 1) + 1 ELSE 0
    BY <2>1, SubSeqProperties
  <2> HIDE DEF right
  <2> QED BY <1>1, <2>2, <2>3
<1>4. RemoveAt(seq, i) = left \o right
  BY DEF RemoveAt, n
<1> HIDE DEF left, right
<1>5. /\ left \o right \in Seq(T) /\ Len(left \o right) = Len(left) + Len(right)
      /\ \A k \in 1..(Len(left) + Len(right)) :
            (left \o right)[k] = IF k <= Len(left) THEN left[k] ELSE right[k - Len(left)]
  BY <1>2, <1>3, ConcatProperties
<1>6. ASSUME NEW k \in 1..(n - 1)
      PROVE  /\ k < i => (left \o right)[k] = seq[k]
             /\ k >= i => (left \o right)[k] = seq[k + 1]
  <2>1. (left \o right)[k] = IF k <= i - 1 THEN left[k] ELSE right[k - (i - 1)]
    <3>1. k \in 1..(Len(left) + Len(right)) /\ Len(left) = i - 1
      BY <1>1, <1>2, <1>3
    <3>2. (left \o right)[k] = IF k <= Len(left) THEN left[k] ELSE right[k - Len(left)]
      BY <3>1, <1>5
    <3> QED BY <3>1, <3>2
  <2>2. CASE k < i
    BY <2>1, <2>2, <1>1, <1>2
  <2>3. CASE k >= i
    <3>1. k - (i - 1) \in 1..(n - i) /\ i + (k - (i - 1)) = k + 1 /\ ~(k <= i - 1)
      BY <2>3, <1>1
    <3> QED BY <2>1, <2>3, <3>1, <1>3
  <2> QED BY <2>2, <2>3, <1>1
<1>7. Len(left \o right) = n - 1
  BY <1>1, <1>2, <1>3, <1>5
<1> QED BY <1>4, <1>5, <1>6, <1>7 DEF n

\* Inserting at a position moves the elements from there on one to the right.
LEMMA InsertAtFacts ==
    ASSUME NEW T, NEW seq \in Seq(T), NEW i \in 1..(Len(seq) + 1), NEW e \in T
    PROVE  /\ InsertAt(seq, i, e) \in Seq(T) /\ Len(InsertAt(seq, i, e)) = Len(seq) + 1
           /\ InsertAt(seq, i, e)[i] = e
           /\ \A k \in 1..Len(seq) :
                 /\ k < i => InsertAt(seq, i, e)[k] = seq[k]
                 /\ k >= i => InsertAt(seq, i, e)[k + 1] = seq[k]
<1> DEFINE n == Len(seq)
           left == SubSeq(seq, 1, i - 1)
           right == SubSeq(seq, i, n)
<1>1. n \in Nat /\ i \in 1..(n + 1) /\ \A k \in 1..n : seq[k] \in T
  BY LenProperties, ElementOfSeq
<1> HIDE DEF n
<1>2. /\ left \in Seq(T) /\ Len(left) = i - 1
      /\ \A k \in 1..(i - 1) : left[k] = seq[k]
  <2>1. i - 1 \in Int /\ \A k \in 1..(i - 1) : seq[k] \in T
    BY <1>1
  <2>2. \A k \in 1..((i - 1) - 1 + 1) : left[k] = seq[1 + k - 1]
    BY <2>1, SubSeqProperties
  <2>3. left \in Seq(T) /\ Len(left) = IF 1 <= i - 1 THEN (i - 1) - 1 + 1 ELSE 0
    BY <2>1, SubSeqProperties
  <2> HIDE DEF left
  <2> QED BY <1>1, <2>2, <2>3
<1>3. /\ right \in Seq(T) /\ Len(right) = n + 1 - i
      /\ \A k \in 1..(n + 1 - i) : right[k] = seq[i + k - 1]
  <2>1. i \in Int /\ n \in Int /\ \A k \in i..n : seq[k] \in T
    BY <1>1
  <2>2. \A k \in 1..(n - i + 1) : right[k] = seq[i + k - 1]
    BY <2>1, SubSeqProperties
  <2>3. right \in Seq(T) /\ Len(right) = IF i <= n THEN n - i + 1 ELSE 0
    BY <2>1, SubSeqProperties
  <2> HIDE DEF right
  <2> QED BY <1>1, <2>2, <2>3
<1>4. InsertAt(seq, i, e) = (left \o <<e>>) \o right
  BY DEF InsertAt, n
<1> HIDE DEF left, right
<1>5. left \o <<e>> \in Seq(T) /\ Len(left \o <<e>>) = i
      /\ (\A k \in 1..(i - 1) : (left \o <<e>>)[k] = seq[k]) /\ (left \o <<e>>)[i] = e
  <2>1. <<e>> \in Seq(T) /\ Len(<<e>>) = 1 /\ <<e>>[1] = e
    OBVIOUS
  <2> DEFINE one == <<e>>
  <2> HIDE DEF one
  <2>2. /\ left \o one \in Seq(T) /\ Len(left \o one) = Len(left) + Len(one)
        /\ \A k \in 1..(Len(left) + Len(one)) :
              (left \o one)[k] = IF k <= Len(left) THEN left[k] ELSE one[k - Len(left)]
    BY <1>2, <2>1, ConcatProperties DEF one
  <2>3. one \in Seq(T) /\ Len(one) = 1 /\ one[1] = e
    BY <2>1 DEF one
  <2>4. Len(left \o one) = i
    BY <1>1, <1>2, <2>2, <2>3
  <2>5. \A k \in 1..(i - 1) : (left \o one)[k] = seq[k]
    BY <1>1, <1>2, <2>2, <2>3
  <2>6. (left \o one)[i] = e
    <3>1. i - Len(left) = 1 /\ ~(i <= Len(left)) /\ i \in 1..(Len(left) + Len(one))
      BY <1>1, <1>2, <2>3
    <3> QED BY <3>1, <2>2, <2>3
  <2> QED BY <2>2, <2>4, <2>5, <2>6 DEF one
<1> DEFINE front == left \o <<e>>
<1>a. front \in Seq(T)
  BY <1>5
<1> HIDE DEF front
<1>6. /\ front \o right \in Seq(T) /\ Len(front \o right) = Len(front) + Len(right)
      /\ \A k \in 1..(Len(front) + Len(right)) :
            (front \o right)[k] = IF k <= Len(front) THEN front[k] ELSE right[k - Len(front)]
  BY <1>3, <1>a, ConcatProperties
<1>7. /\ Len(front) = i /\ (\A k \in 1..(i - 1) : front[k] = seq[k]) /\ front[i] = e
      /\ InsertAt(seq, i, e) = front \o right
  BY <1>4, <1>5 DEF front
<1>8. Len(front \o right) = n + 1 /\ (front \o right)[i] = e
  BY <1>1, <1>3, <1>6, <1>7
<1>9. ASSUME NEW k \in 1..n
      PROVE  /\ k < i => (front \o right)[k] = seq[k]
             /\ k >= i => (front \o right)[k + 1] = seq[k]
  <2>1. CASE k < i
    BY <2>1, <1>1, <1>3, <1>6, <1>7
  <2>2. CASE k >= i
    <3>1. /\ k + 1 \in 1..(Len(front) + Len(right)) /\ ~(k + 1 <= Len(front))
          /\ (k + 1) - Len(front) \in 1..(n + 1 - i) /\ i + ((k + 1) - Len(front)) - 1 = k
      BY <2>2, <1>1, <1>3, <1>7
    <3>2. (front \o right)[k + 1] = right[(k + 1) - Len(front)]
      BY <3>1, <1>6
    <3>3. right[(k + 1) - Len(front)] = seq[i + ((k + 1) - Len(front)) - 1]
      BY <3>1, <1>3
    <3> QED BY <2>2, <3>1, <3>2, <3>3, <1>1
  <2> QED BY <2>1, <2>2, <1>1
<1> QED BY <1>6, <1>7, <1>8, <1>9 DEF n

-----------------------------------------------------------------------------
(* The editors that events make *)

\* Tabs with distinct ids, one of them active.
LEMMA MadeSound ==
    ASSUME NEW tabs \in Seq(Tab), Distinct(tabs), NEW active \in IdsOf(tabs)
    PROVE  Sound([tabs |-> tabs, active |-> active])
<1> DEFINE ed == [tabs |-> tabs, active |-> active]
<1>1. ed.tabs = tabs /\ ed.active = active
  OBVIOUS
<1>2. \A i \in DOMAIN tabs : tabs[i].id \in Id
  <2>1. DOMAIN tabs = 1..Len(tabs) /\ \A i \in 1..Len(tabs) : tabs[i] \in Tab
    BY LenProperties, ElementOfSeq
  <2> QED BY <2>1 DEF Tab
<1>3. active \in Id
  BY <1>2 DEF IdsOf
<1>4. ed \in Editor
  BY <1>3 DEF Editor
<1>5. tabs # <<>>
  <2>1. DOMAIN tabs # {}
    BY DEF IdsOf
  <2> QED BY <2>1
<1> HIDE DEF ed
<1>6. Sound(ed)
  BY <1>1, <1>4, <1>5 DEF Sound, ActiveOpen
<1> QED BY <1>6 DEF ed

\* Showing a tab keeps the others where they are.
LEMMA OpenedSound ==
    ASSUME NEW ed, Sound(ed), NEW tab \in Tab
    PROVE  LET new == Opened(ed, tab)
           IN /\ Sound(new) /\ new.active = tab.id
              /\ \A i \in DOMAIN ed.tabs : i \in DOMAIN new.tabs /\ new.tabs[i] = ed.tabs[i]
              /\ \A n : Drawn(ed, n) /\ tab.id.n <= n => Drawn(new, n)
<1> DEFINE tabs == IF tab.id \in IdsOf(ed.tabs) THEN ed.tabs ELSE Append(ed.tabs, tab)
           new == [tabs |-> tabs, active |-> tab.id]
<1>1. ed.tabs \in Seq(Tab) /\ Len(ed.tabs) \in Nat /\ DOMAIN ed.tabs = 1..Len(ed.tabs)
  BY EditorParts DEF Sound
<1>2. /\ tabs \in Seq(Tab) /\ Distinct(tabs) /\ tab.id \in IdsOf(tabs)
      /\ \A i \in DOMAIN ed.tabs : i \in DOMAIN tabs /\ tabs[i] = ed.tabs[i]
      /\ \A i \in DOMAIN tabs : i \in DOMAIN ed.tabs \/ tabs[i] = tab
  <2>1. CASE tab.id \in IdsOf(ed.tabs)
    BY <1>1, <2>1 DEF Sound
  <2>2. CASE tab.id \notin IdsOf(ed.tabs)
    <3>1. /\ tabs \in Seq(Tab) /\ Len(tabs) = Len(ed.tabs) + 1
          /\ \A k \in 1..Len(ed.tabs) : tabs[k] = ed.tabs[k]
          /\ tabs[Len(ed.tabs) + 1] = tab
      BY <1>1, <2>2, AppendProperties
    <3> HIDE DEF tabs
    <3>2. DOMAIN tabs = 1..(Len(ed.tabs) + 1)
      BY <3>1, LenProperties
    <3>3. \A k \in 1..Len(ed.tabs) : tabs[k].id # tab.id
      BY <1>1, <2>2, <3>1 DEF IdsOf
    <3>4. \A k \in DOMAIN tabs : k \in 1..Len(ed.tabs) \/ k = Len(ed.tabs) + 1
      BY <1>1, <3>2
    <3>5. Distinct(tabs)
      BY <1>1, <3>1, <3>3, <3>4 DEF Sound, Distinct
    <3>6. Len(ed.tabs) + 1 \in DOMAIN tabs /\ 1..Len(ed.tabs) \subseteq DOMAIN tabs
      BY <1>1, <3>2
    <3>7. tab.id \in IdsOf(tabs)
      BY <3>1, <3>6 DEF IdsOf
    <3> QED BY <1>1, <3>1, <3>4, <3>5, <3>6, <3>7
  <2> QED BY <2>1, <2>2
<1>3. Opened(ed, tab) = new
  BY DEF Opened
<1> HIDE DEF tabs
<1>4. Sound(new)
  BY <1>2, MadeSound
<1>5. ASSUME NEW n, Drawn(ed, n), tab.id.n <= n PROVE Drawn(new, n)
  BY <1>2, <1>5 DEF Drawn
<1> QED BY <1>2, <1>3, <1>4, <1>5

\* The active tab may be any of the tabs.
LEMMA ActivatedSound ==
    ASSUME NEW ed, Sound(ed), NEW active \in IdsOf(ed.tabs)
    PROVE  /\ Sound([ed EXCEPT !.active = active])
           /\ [ed EXCEPT !.active = active].tabs = ed.tabs
           /\ [ed EXCEPT !.active = active].active = active
<1>1. ed = [tabs |-> ed.tabs, active |-> ed.active] /\ ed.tabs \in Seq(Tab)
  BY EditorParts DEF Sound
<1>2. [ed EXCEPT !.active = active] = [tabs |-> ed.tabs, active |-> active]
  BY <1>1
<1>3. Sound([tabs |-> ed.tabs, active |-> active])
  BY <1>1, MadeSound DEF Sound
<1> QED BY <1>2, <1>3

\* A tab may change in everything but its id.
LEMMA ChangedSound ==
    ASSUME NEW ed, Sound(ed), NEW i \in DOMAIN ed.tabs, NEW tab \in Tab, tab.id = ed.tabs[i].id
    PROVE  LET new == [ed EXCEPT !.tabs[i] = tab]
           IN /\ Sound(new) /\ DOMAIN new.tabs = DOMAIN ed.tabs /\ new.tabs[i] = tab
              /\ \A k \in DOMAIN ed.tabs : k # i => new.tabs[k] = ed.tabs[k]
              /\ \A n : Drawn(ed, n) => Drawn(new, n)
<1> DEFINE tabs == [ed.tabs EXCEPT ![i] = tab]
           new == [tabs |-> tabs, active |-> ed.active]
<1>1. /\ ed = [tabs |-> ed.tabs, active |-> ed.active] /\ ed.tabs \in Seq(Tab)
      /\ Len(ed.tabs) \in Nat /\ DOMAIN ed.tabs = 1..Len(ed.tabs)
  BY EditorParts DEF Sound
<1>2. /\ tabs \in Seq(Tab) /\ Len(tabs) = Len(ed.tabs)
      /\ tabs[i] = tab /\ \A k \in DOMAIN ed.tabs : k # i => tabs[k] = ed.tabs[k]
  BY <1>1, ExceptSeq
<1>3. [ed EXCEPT !.tabs[i] = tab] = new
  BY <1>1
<1> HIDE DEF tabs
<1>4. DOMAIN tabs = DOMAIN ed.tabs
  BY <1>1, <1>2, LenProperties
<1>5. \A k \in DOMAIN ed.tabs : tabs[k].id = ed.tabs[k].id
  BY <1>2
<1>6. Distinct(tabs)
  BY <1>4, <1>5 DEF Sound, Distinct
<1>7. IdsOf(tabs) = IdsOf(ed.tabs)
  BY <1>4, <1>5 DEF IdsOf
<1>8. ed.active \in IdsOf(tabs)
  <2>1. ed.tabs # <<>>
    BY <1>1
  <2> QED BY <2>1, <1>7 DEF Sound, ActiveOpen
<1>9. Sound(new)
  BY <1>2, <1>6, <1>8, MadeSound
<1>10. ASSUME NEW n, Drawn(ed, n) PROVE Drawn(new, n)
  BY <1>4, <1>5, <1>10 DEF Drawn
<1> QED BY <1>2, <1>3, <1>4, <1>9, <1>10

\* Without one of the tabs.
LEMMA RemovedTabs ==
    ASSUME NEW seq \in Seq(Tab), Distinct(seq), NEW i \in DOMAIN seq
    PROVE  LET new == RemoveAt(seq, i)
           IN /\ new \in Seq(Tab) /\ Len(new) = Len(seq) - 1 /\ Distinct(new)
              /\ \A k \in DOMAIN seq : k # i => \E m \in DOMAIN new : new[m] = seq[k]
              /\ \A m \in DOMAIN new : \E k \in DOMAIN seq : k # i /\ new[m] = seq[k]
<1> DEFINE new == RemoveAt(seq, i)
<1>1. Len(seq) \in Nat /\ DOMAIN seq = 1..Len(seq)
  BY LenProperties
<1>2. /\ new \in Seq(Tab) /\ Len(new) = Len(seq) - 1
      /\ \A k \in 1..(Len(seq) - 1) : /\ k < i => new[k] = seq[k]
                                      /\ k >= i => new[k] = seq[k + 1]
  <2>1. new \in Seq(Tab) /\ Len(new) = Len(seq) - 1
    BY RemoveAtFacts
  <2>2. \A k \in 1..(Len(seq) - 1) : /\ k < i => new[k] = seq[k]
                                     /\ k >= i => new[k] = seq[k + 1]
    BY RemoveAtFacts
  <2> QED BY <2>1, <2>2
<1> HIDE DEF new
<1>3. DOMAIN new = 1..(Len(seq) - 1)
  BY <1>2, LenProperties
<1> DEFINE old(m) == IF m < i THEN m ELSE m + 1
<1>4. \A m \in DOMAIN new : old(m) \in DOMAIN seq /\ old(m) # i /\ new[m] = seq[old(m)]
  BY <1>1, <1>2, <1>3
<1>5. \A k, m \in DOMAIN new : k # m => old(k) # old(m)
  BY <1>1, <1>3
<1>6. ASSUME NEW k \in DOMAIN seq, k # i PROVE \E m \in DOMAIN new : old(m) = k
  <2>1. CASE k < i
    BY <1>1, <1>3, <2>1
  <2>2. CASE k > i
    <3>1. k - 1 \in DOMAIN new /\ old(k - 1) = k
      BY <1>1, <1>3, <2>2
    <3> QED BY <3>1
  <2> QED BY <1>1, <1>6, <2>1, <2>2
<1> HIDE DEF old
<1>7. Distinct(new)
  BY <1>4, <1>5 DEF Distinct
<1>8. \A k \in DOMAIN seq : k # i => \E m \in DOMAIN new : new[m] = seq[k]
  BY <1>4, <1>6
<1>9. \A m \in DOMAIN new : \E k \in DOMAIN seq : k # i /\ new[m] = seq[k]
  BY <1>4
<1> QED BY <1>2, <1>7, <1>8, <1>9 DEF new

\* With one tab more.
LEMMA InsertedTabs ==
    ASSUME NEW seq \in Seq(Tab), Distinct(seq), NEW i \in 1..(Len(seq) + 1),
           NEW tab \in Tab, tab.id \notin IdsOf(seq)
    PROVE  LET new == InsertAt(seq, i, tab)
           IN /\ new \in Seq(Tab) /\ Distinct(new)
              /\ i \in DOMAIN new /\ new[i] = tab
              /\ \A k \in DOMAIN seq : \E m \in DOMAIN new : new[m] = seq[k]
              /\ \A m \in DOMAIN new : new[m] = tab \/ \E k \in DOMAIN seq : new[m] = seq[k]
<1> DEFINE new == InsertAt(seq, i, tab)
<1>1. Len(seq) \in Nat /\ DOMAIN seq = 1..Len(seq)
  BY LenProperties
<1>2. /\ new \in Seq(Tab) /\ Len(new) = Len(seq) + 1 /\ new[i] = tab
      /\ \A k \in 1..Len(seq) : /\ k < i => new[k] = seq[k]
                                /\ k >= i => new[k + 1] = seq[k]
  <2>1. new \in Seq(Tab) /\ Len(new) = Len(seq) + 1 /\ new[i] = tab
    BY InsertAtFacts
  <2>2. \A k \in 1..Len(seq) : /\ k < i => new[k] = seq[k]
                               /\ k >= i => new[k + 1] = seq[k]
    BY InsertAtFacts
  <2> QED BY <2>1, <2>2
<1> HIDE DEF new
<1>3. DOMAIN new = 1..(Len(seq) + 1) /\ i \in DOMAIN new
  BY <1>1, <1>2, LenProperties
<1> DEFINE old(m) == IF m < i THEN m ELSE m - 1
<1>4. \A m \in DOMAIN new : m # i => old(m) \in DOMAIN seq /\ new[m] = seq[old(m)]
  <2> SUFFICES ASSUME NEW m \in DOMAIN new, m # i
               PROVE  old(m) \in DOMAIN seq /\ new[m] = seq[old(m)]
    OBVIOUS
  <2>1. CASE m < i
    BY <1>1, <1>2, <1>3, <2>1
  <2>2. CASE m > i
    <3>1. m - 1 \in 1..Len(seq) /\ m - 1 >= i /\ (m - 1) + 1 = m /\ old(m) = m - 1
      BY <1>1, <1>3, <2>2
    <3> HIDE DEF old
    <3> QED BY <1>1, <1>2, <3>1
  <2> QED BY <1>1, <1>3, <2>1, <2>2
<1>5. \A k, m \in DOMAIN new : k # m /\ k # i /\ m # i => old(k) # old(m)
  BY <1>1, <1>3
<1>6. ASSUME NEW k \in DOMAIN seq PROVE \E m \in DOMAIN new : m # i /\ old(m) = k
  <2>1. CASE k < i
    BY <1>1, <1>3, <2>1
  <2>2. CASE k >= i
    <3>1. k + 1 \in DOMAIN new /\ k + 1 # i /\ old(k + 1) = k
      BY <1>1, <1>3, <2>2
    <3> QED BY <3>1
  <2> QED BY <1>1, <2>1, <2>2
<1> HIDE DEF old
<1>7. Distinct(new)
  <2>1. \A m \in DOMAIN new : m # i => new[m].id # tab.id
    BY <1>4 DEF IdsOf
  <2> QED BY <1>2, <1>4, <1>5, <2>1 DEF Distinct
<1>8. \A k \in DOMAIN seq : \E m \in DOMAIN new : new[m] = seq[k]
  BY <1>4, <1>6
<1>9. \A m \in DOMAIN new : new[m] = tab \/ \E k \in DOMAIN seq : new[m] = seq[k]
  BY <1>2, <1>4
<1> QED BY <1>2, <1>3, <1>7, <1>8, <1>9 DEF new

\* The tabs up to one of them.
LEMMA FirstTabs ==
    ASSUME NEW seq \in Seq(Tab), Distinct(seq), NEW i \in DOMAIN seq
    PROVE  LET new == SubSeq(seq, 1, i)
           IN /\ new \in Seq(Tab) /\ Distinct(new) /\ DOMAIN new = 1..i
              /\ \A k \in 1..i : k \in DOMAIN seq /\ new[k] = seq[k]
<1> DEFINE new == SubSeq(seq, 1, i)
<1>1. Len(seq) \in Nat /\ DOMAIN seq = 1..Len(seq) /\ \A k \in 1..Len(seq) : seq[k] \in Tab
  BY LenProperties, ElementOfSeq
<1>2. i \in Int /\ 1 \in Int /\ \A k \in 1..i : seq[k] \in Tab /\ k \in DOMAIN seq
  BY <1>1
<1>3. /\ new \in Seq(Tab) /\ Len(new) = IF 1 <= i THEN i - 1 + 1 ELSE 0
      /\ \A k \in 1..(i - 1 + 1) : new[k] = seq[1 + k - 1]
  <2>1. new \in Seq(Tab) /\ Len(new) = IF 1 <= i THEN i - 1 + 1 ELSE 0
    BY <1>2, SubSeqProperties
  <2>2. \A k \in 1..(i - 1 + 1) : new[k] = seq[1 + k - 1]
    BY <1>2, SubSeqProperties
  <2> QED BY <2>1, <2>2
<1> HIDE DEF new
<1>4. Len(new) = i /\ \A k \in 1..i : new[k] = seq[k]
  BY <1>1, <1>3
<1>5. DOMAIN new = 1..i
  BY <1>3, <1>4, LenProperties
<1>6. Distinct(new)
  BY <1>2, <1>4, <1>5 DEF Distinct
<1> QED BY <1>2, <1>3, <1>4, <1>5, <1>6 DEF new

-----------------------------------------------------------------------------
(* The histories that events make *)

\* A step back or forward ends at an entry of an open tab.
LEMMA StepOpen ==
    ASSUME NEW h, Tidy(h), NEW direction \in {"back", "forward"}, NEW open,
           stepNavigation(h, direction, open) # 0
    PROVE  LET k == stepNavigation(h, direction, open)
           IN k \in DOMAIN h.entries /\ h.entries[k].tab \in open
<1> DEFINE Open == {k \in DOMAIN h.entries : h.entries[k].tab \in open}
           back == {k \in Open : k < h.cursor}
           forth == {k \in Open : k > h.cursor}
           k == stepNavigation(h, direction, open)
<1>1. Len(h.entries) \in Nat /\ DOMAIN h.entries = 1..Len(h.entries)
  BY HistoryParts
<1>2. ASSUME back # {} PROVE (CHOOSE x \in back : \A y \in back : y <= x) \in Open
  <2> DEFINE Gap == {g \in Nat : Len(h.entries) - g \in back}
  <2>1. Gap \in SUBSET Nat /\ Gap # {}
    <3>1. PICK x \in back : TRUE
      BY <1>2
    <3>2. Len(h.entries) - x \in Nat /\ Len(h.entries) - (Len(h.entries) - x) = x
      BY <1>1
    <3> QED BY <3>1, <3>2
  <2>2. PICK g \in Gap : \A y \in Gap : g <= y
    <3> HIDE DEF Gap
    <3> QED BY <2>1, Least
  <2>3. Len(h.entries) - g \in back
    BY <2>2
  <2>4. \A y \in back : y <= Len(h.entries) - g
    <3> TAKE y \in back
    <3>1. Len(h.entries) - y \in Nat /\ Len(h.entries) - (Len(h.entries) - y) = y
      BY <1>1
    <3>2. Len(h.entries) - y \in Gap
      BY <3>1
    <3>3. g <= Len(h.entries) - y
      BY <2>2, <3>2
    <3> QED BY <1>1, <3>3, <2>2
  <2>5. (CHOOSE x \in back : \A y \in back : y <= x) \in back
    <3> HIDE DEF back
    <3> QED BY <2>3, <2>4
  <2> QED BY <2>5
<1>3. ASSUME forth # {} PROVE (CHOOSE x \in forth : \A y \in forth : x <= y) \in Open
  <2>1. forth \in SUBSET Nat
    BY <1>1
  <2>2. (CHOOSE x \in forth : \A y \in forth : x <= y) \in forth
    <3> HIDE DEF forth
    <3> QED BY <2>1, <1>3, Least
  <2> QED BY <2>2
<1>4. k = CASE direction = "back" /\ back # {} -> CHOOSE x \in back : \A y \in back : y <= x
            [] direction = "forward" /\ forth # {} -> CHOOSE x \in forth : \A y \in forth : x <= y
            [] OTHER -> 0
  BY DEF stepNavigation
<1>5. k # 0
  OBVIOUS
<1> HIDE DEF back, forth, k, Open
<1>6. k \in Open
  BY <1>2, <1>3, <1>4, <1>5
<1> QED BY <1>6 DEF Open, k

\* A change of the current cell leaves the tabs of the history alone.
LEMMA CellTidy ==
    ASSUME NEW h, Tidy(h), NEW id, NEW cell \in Cells
    PROVE  LET new == updateCurrentNavigationCell(h, id, cell)
           IN /\ Tidy(new) /\ new.prev = h.prev
              /\ \A ed : At(h, ed) => At(new, ed)
<1> DEFINE new == updateCurrentNavigationCell(h, id, cell)
<1>1. /\ h = [entries |-> h.entries, cursor |-> h.cursor, prev |-> h.prev]
      /\ h.entries \in Seq(Location) /\ h.cursor \in Nat /\ h.prev \in Id \cup {Null}
      /\ Len(h.entries) \in Nat /\ DOMAIN h.entries = 1..Len(h.entries)
      /\ \A k \in DOMAIN h.entries : /\ h.entries[k] \in Location
                                     /\ h.entries[k].tab \in Id
  BY HistoryParts
<1>2. CASE ~(h.cursor \in DOMAIN h.entries /\ h.entries[h.cursor].tab = id)
  BY <1>2 DEF updateCurrentNavigationCell
<1>3. CASE h.cursor \in DOMAIN h.entries /\ h.entries[h.cursor].tab = id
  <2> DEFINE loc == [h.entries[h.cursor] EXCEPT !.cell = cell]
             entries == [h.entries EXCEPT ![h.cursor] = loc]
  <2>1. new = [h EXCEPT !.entries = entries]
    BY <1>3 DEF updateCurrentNavigationCell
  <2>2. loc \in Location /\ loc.tab = h.entries[h.cursor].tab
    BY <1>1, <1>3 DEF Location
  <2> HIDE DEF loc
  <2>3. /\ entries \in Seq(Location) /\ Len(entries) = Len(h.entries)
        /\ entries[h.cursor] = loc
    BY <1>1, <1>3, <2>2, ExceptSeq
  <2> HIDE DEF entries, new
  <2>4. /\ new.entries = entries /\ new.cursor = h.cursor /\ new.prev = h.prev
        /\ new = [entries |-> new.entries, cursor |-> new.cursor, prev |-> new.prev]
    BY <1>1, <2>1
  <2>5. h.entries # <<>> /\ entries # <<>>
    BY <1>1, <1>3, <2>3, EmptySeq
  <2>6. Tidy(new)
    BY <1>1, <2>3, <2>4, <2>5 DEF Tidy, History, Fits
  <2>7. \A ed : At(h, ed) => At(new, ed)
    BY <2>2, <2>3, <2>4, <2>5 DEF At
  <2> QED BY <2>4, <2>6, <2>7 DEF new
<1> QED BY <1>2, <1>3

-----------------------------------------------------------------------------
(* The inductive invariant *)

\* What the user sees: sound, valid tabs and a tidy history of them.
View ==
    /\ Sound(editor) /\ Drawn(editor, fresh)
    /\ \A i \in Positions : Valid(editor.tabs[i], conns, catalog)
    /\ Tidy(nav) /\ Among(nav.entries, IdsOf(editor.tabs))
    /\ editor.active # Null => nav.prev = editor.active

\* Every snapshot can be loaded.
Loadable(snapshots, n) ==
    \A s \in Workspaces \cup {All} : snapshots[s] # Null =>
        /\ Sound(snapshots[s].editor) /\ Drawn(snapshots[s].editor, n)
        /\ Fits(snapshots[s].entries, snapshots[s].cursor)
SnapshotsSound == Loadable(store, fresh)

\* The snapshot of the scope shown is the one of what is shown.
SnapshotCurrent ==
    LET allowed == selectWorkspaceConnections(conns, defs, Scope)
    IN IF store[Scope] = Null THEN nav.entries = <<>>
       ELSE /\ store[Scope].entries = nav.entries /\ store[Scope].cursor = nav.cursor
            /\ scopeWorkspaceSnapshot(store[Scope].editor, allowed)
                  = scopeWorkspaceSnapshot(editor, allowed)
            /\ nav.entries # <<>> =>
                  store[Scope].editor.active = scopeWorkspaceSnapshot(editor, allowed).active

\* There is a workspace, their ids differ, and those still to come are new.
WorkspacesFit ==
    /\ defs # <<>> /\ \A i, j \in DOMAIN defs : i # j => defs[i].id # defs[j].id
    /\ \A i \in DOMAIN defs : defs[i].id <= born
    /\ choice.active <= born /\ born <= moves

\* So will they when the server has saved what it is saving; a change that was
\* not to change the scope leads back to the one it was asked for in.
SavingFits ==
    saving # Null =>
        /\ saving.defs # <<>>
        /\ \A i, j \in DOMAIN saving.defs : i # j => saving.defs[i].id # saving.defs[j].id
        /\ \A i \in DOMAIN saving.defs : saving.defs[i].id <= born
        /\ saving.choice.active <= born
        /\ ~saving.changes =>
              ~saving.removed /\ ScopeId(saving.defs, saving.choice) = saving.scope

IInv ==
    /\ TypeOK /\ View /\ SnapshotsSound /\ SnapshotCurrent /\ WorkspacesFit /\ SavingFits

\* The effects of a render, whatever editor and history an event hands them.
LEMMA ShownFacts ==
    ASSUME NEW ed, Sound(ed), NEW h, Tidy(h), Drawn(ed, fresh'), Shown(ed, h)
    PROVE  /\ View'
           /\ OnActive(h, ed) => At(nav', editor')
           /\ At(nav', editor') \/ editor'.active = h.prev
           /\ \A i \in DOMAIN ed.tabs :
                 Valid(ed.tabs[i], conns', catalog') => ed.tabs[i].id \in IdsOf(editor'.tabs)
<1>1. editor' = reconcile(ed, conns', catalog')
  BY DEF Shown
<1>2. PICK cell \in Cells : nav' = Recorded(Recorded(h, ed, cell), editor', cell)
  BY DEF Shown
<1>3. /\ Sound(editor') /\ Tidy(nav') /\ Among(nav'.entries, IdsOf(editor'.tabs))
      /\ editor'.active # Null => nav'.prev = editor'.active
      /\ OnActive(h, ed) => At(nav', editor')
      /\ At(nav', editor') \/ editor'.active = h.prev
  <2>1. Sound(editor') /\ Tidy(nav') /\ Among(nav'.entries, IdsOf(editor'.tabs))
    BY <1>1, <1>2, ShownSound
  <2>2. editor'.active # Null => nav'.prev = editor'.active
    BY <1>1, <1>2, ShownSound
  <2>3. OnActive(h, ed) => At(nav', editor')
    BY <1>1, <1>2, ShownSound
  <2>4. At(nav', editor') \/ editor'.active = h.prev
    BY <1>1, <1>2, ShownSound
  <2> QED BY <2>1, <2>2, <2>3, <2>4
<1>4. \A i \in DOMAIN editor'.tabs : Valid(editor'.tabs[i], conns', catalog')
  BY <1>1, ReconcileTabs
<1>5. \A i \in DOMAIN ed.tabs :
         Valid(ed.tabs[i], conns', catalog') => ed.tabs[i].id \in IdsOf(editor'.tabs)
  BY <1>1, ReconcileTabs
<1>6. Drawn(editor', fresh')
  BY <1>1, ReconcileTabs
<1>7. View'
  BY <1>3, <1>4, <1>6 DEF View, Positions
<1> QED BY <1>3, <1>5, <1>7

\* The types of a workspace and of the store.
WorkspaceDef == [id : Workspaces, members : SUBSET Conns]
Scopes == Workspaces \cup {All}
Snapshots == [editor : Editor, entries : Seq(Location), cursor : Nat]

\* The workspace shown is one of the workspaces.
LEMMA ScopeFacts ==
    ASSUME NEW ds \in Seq(WorkspaceDef), ds # <<>>, NEW ch \in Choice
    PROVE  /\ ActiveId(ds, ch) \in WorkspaceIds(ds) /\ ScopeId(ds, ch) \in Scopes
           /\ WorkspaceIds(ds) \subseteq Workspaces
           /\ 1 \in DOMAIN ds /\ Head(ds) = ds[1]
           /\ \A i \in DOMAIN ds : ds[i] \in WorkspaceDef /\ ds[i].id \in Workspaces
<1>1. /\ Len(ds) \in Nat /\ DOMAIN ds = 1..Len(ds)
      /\ \A i \in DOMAIN ds : ds[i] \in WorkspaceDef
  BY LenProperties, ElementOfSeq
<1>2. Len(ds) # 0
  BY EmptySeq
<1>3. 1 \in DOMAIN ds /\ Head(ds) = ds[1]
  BY <1>1, <1>2
<1>4. \A i \in DOMAIN ds : ds[i].id \in Workspaces
  BY <1>1 DEF WorkspaceDef
<1>5. WorkspaceIds(ds) \subseteq Workspaces
  BY <1>4 DEF WorkspaceIds
<1>6. ActiveId(ds, ch) \in WorkspaceIds(ds)
  BY <1>3 DEF ActiveId, WorkspaceIds
<1>7. ScopeId(ds, ch) \in Scopes
  BY <1>5, <1>6 DEF ScopeId, Scopes
<1> QED BY <1>1, <1>3, <1>4, <1>5, <1>6, <1>7

\* A snapshot brings back what was shown, and can be loaded.
LEMMA SnapshotFacts ==
    ASSUME NEW ed, Sound(ed), NEW h, Tidy(h), NEW allowed
    PROVE  LET new == Snapshot(ed, h, allowed)
           IN /\ new \in Snapshots /\ new # Null
              /\ Sound(new.editor) /\ Fits(new.entries, new.cursor)
              /\ \A n : Drawn(ed, n) => Drawn(new.editor, n)
              /\ new.entries = h.entries /\ new.cursor = h.cursor
              /\ scopeWorkspaceSnapshot(new.editor, allowed) = scopeWorkspaceSnapshot(ed, allowed)
              /\ new.editor.active = scopeWorkspaceSnapshot(ed, allowed).active
<1> DEFINE e == scopeWorkspaceSnapshot(ed, allowed)
           new == Snapshot(ed, h, allowed)
<1>1. Sound(e) /\ scopeWorkspaceSnapshot(e, allowed) = e
  BY ScopedSound
<1>2. \A n : Drawn(ed, n) => Drawn(e, n)
  BY ScopedSound
<1>3. new = [editor |-> e, entries |-> h.entries, cursor |-> h.cursor]
  BY DEF Snapshot
<1> HIDE DEF e, new
<1>4. new.editor = e /\ new.entries = h.entries /\ new.cursor = h.cursor
  BY <1>3
<1>5. h.entries \in Seq(Location) /\ h.cursor \in Nat
  BY HistoryParts
<1>6. e \in Editor
  BY <1>1 DEF Sound
<1>7. new \in Snapshots
  BY <1>3, <1>5, <1>6 DEF Snapshots
<1>8. new # Null
  BY <1>7, NamesAssumption DEF Snapshots
<1> QED BY <1>1, <1>2, <1>4, <1>7, <1>8 DEF Tidy, new, e

\* Ids drawn before stay drawn.
LEMMA DrawnLater ==
    ASSUME NEW ed \in Editor, NEW n \in Nat, NEW m \in Nat, n <= m, Drawn(ed, n)
    PROVE  Drawn(ed, m)
<1>1. \A i \in DOMAIN ed.tabs : ed.tabs[i].id \in Id
  BY EditorParts
<1>2. MaxFresh \in Nat
  BY BoundsAssumption
<1>3. \A i \in DOMAIN ed.tabs : ed.tabs[i].id.n \in 0..MaxFresh
  BY <1>1 DEF Id
<1> QED BY <1>2, <1>3 DEF Drawn

\* Drawing further ids leaves every snapshot loadable.
LEMMA LoadableLater ==
    ASSUME NEW snapshots \in [Scopes -> {Null} \cup Snapshots],
           NEW n \in Nat, NEW m \in Nat, n <= m, Loadable(snapshots, n)
    PROVE  Loadable(snapshots, m)
<1> SUFFICES ASSUME NEW s \in Scopes, snapshots[s] # Null
             PROVE  /\ Sound(snapshots[s].editor) /\ Drawn(snapshots[s].editor, m)
                    /\ Fits(snapshots[s].entries, snapshots[s].cursor)
  BY DEF Loadable, Scopes
<1>1. /\ Sound(snapshots[s].editor) /\ Drawn(snapshots[s].editor, n)
      /\ Fits(snapshots[s].entries, snapshots[s].cursor)
  BY DEF Loadable, Scopes
<1>2. snapshots[s].editor \in Editor
  BY <1>1 DEF Sound
<1> QED BY <1>1, <1>2, DrawnLater

\* Writing the snapshot of the scope shown makes it the current one.
LEMMA WrittenCurrent ==
    ASSUME View', NEW kept \in [Scopes -> {Null} \cup Snapshots], Loadable(kept, fresh'),
           NEW s \in Scopes, s = Scope', store' = [kept EXCEPT ![s] = Written(s)]
    PROVE  /\ store' \in [Scopes -> {Null} \cup Snapshots]
           /\ SnapshotsSound' /\ SnapshotCurrent'
           /\ \A r \in Scopes : r # s => store'[r] = kept[r]
<1> DEFINE allowed == selectWorkspaceConnections(conns', defs', s)
           new == Snapshot(editor', nav', allowed)
<1>1. Written(s) = new
  BY DEF Written
<1>2. Sound(editor') /\ Tidy(nav') /\ Drawn(editor', fresh')
  BY DEF View
<1> HIDE DEF allowed
<1>3. /\ new \in Snapshots /\ new # Null
      /\ Sound(new.editor) /\ Fits(new.entries, new.cursor) /\ Drawn(new.editor, fresh')
      /\ new.entries = nav'.entries /\ new.cursor = nav'.cursor
      /\ scopeWorkspaceSnapshot(new.editor, allowed) = scopeWorkspaceSnapshot(editor', allowed)
      /\ new.editor.active = scopeWorkspaceSnapshot(editor', allowed).active
  <2>1. new \in Snapshots /\ new # Null /\ Sound(new.editor) /\ Fits(new.entries, new.cursor)
    BY <1>2, SnapshotFacts
  <2>2. Drawn(new.editor, fresh')
    BY <1>2, SnapshotFacts
  <2>3. new.entries = nav'.entries /\ new.cursor = nav'.cursor
    BY <1>2, SnapshotFacts
  <2>4. /\ scopeWorkspaceSnapshot(new.editor, allowed) = scopeWorkspaceSnapshot(editor', allowed)
        /\ new.editor.active = scopeWorkspaceSnapshot(editor', allowed).active
    BY <1>2, SnapshotFacts
  <2> QED BY <2>1, <2>2, <2>3, <2>4
<1> HIDE DEF new
<1>4. /\ store' \in [Scopes -> {Null} \cup Snapshots] /\ store'[s] = new
      /\ \A r \in Scopes : r # s => store'[r] = kept[r]
  BY <1>1, <1>3
<1>5. SnapshotsSound'
  BY <1>3, <1>4 DEF SnapshotsSound, Loadable, Scopes
<1>6. SnapshotCurrent'
  <2>1. allowed = selectWorkspaceConnections(conns', defs', Scope')
    BY DEF allowed
  <2>2. store'[Scope'] = new
    BY <1>4
  <2> QED BY <1>3, <2>1, <2>2 DEF SnapshotCurrent
<1> QED BY <1>4, <1>5, <1>6

\* The parts of the invariant that the steps start from.
LEMMA Start ==
    ASSUME IInv
    PROVE  /\ defs \in Seq(WorkspaceDef) /\ defs # <<>> /\ choice \in Choice
           /\ Scope \in Scopes /\ store \in [Scopes -> {Null} \cup Snapshots]
           /\ ActiveId(defs, choice) \in WorkspaceIds(defs)
           /\ WorkspaceIds(defs) \subseteq Workspaces
           /\ editor \in Editor /\ Positions = 1..Len(editor.tabs) /\ Len(editor.tabs) \in Nat
           /\ \A i \in Positions : /\ editor.tabs[i] \in Tab /\ editor.tabs[i].id \in Id
                                   /\ editor.tabs[i].dirty \in BOOLEAN
           /\ Sound(editor) /\ Drawn(editor, fresh) /\ Tidy(nav)
           /\ fresh \in 0..MaxFresh /\ MaxFresh \in Nat
           /\ Loadable(store, fresh) /\ conns \subseteq Conns
<1>1. /\ defs \in Seq(WorkspaceDef) /\ defs # <<>> /\ choice \in Choice
      /\ store \in [Scopes -> {Null} \cup Snapshots] /\ editor \in Editor
      /\ fresh \in 0..MaxFresh /\ conns \subseteq Conns
  BY DEF IInv, TypeOK, WorkspacesFit, WorkspaceDef, Definitions, Scopes, Snapshots
<1>2. /\ ActiveId(defs, choice) \in WorkspaceIds(defs) /\ WorkspaceIds(defs) \subseteq Workspaces
      /\ Scope \in Scopes
  BY <1>1, ScopeFacts DEF Scope
<1>3. /\ Positions = 1..Len(editor.tabs) /\ Len(editor.tabs) \in Nat
      /\ \A i \in Positions : /\ editor.tabs[i] \in Tab /\ editor.tabs[i].id \in Id
                              /\ editor.tabs[i].dirty \in BOOLEAN
  BY <1>1, EditorParts DEF Positions
<1>4. Sound(editor) /\ Drawn(editor, fresh) /\ Tidy(nav) /\ Loadable(store, fresh)
  BY DEF IInv, View, SnapshotsSound
<1> QED BY <1>1, <1>2, <1>3, <1>4, BoundsAssumption

\* After a step the types follow from the invariant's parts.
LEMMA Types ==
    ASSUME View', conns' \subseteq Conns, catalog' \in [Conns -> {Null} \cup SUBSET Tables],
           defs' \in Seq(WorkspaceDef), choice' \in Choice,
           saving' \in {Null} \cup Saving, store' \in [Scopes -> {Null} \cup Snapshots],
           fresh' \in 0..MaxFresh, born' \in 0..MaxMoves, moves' \in 0..MaxMoves,
           asked' \in BOOLEAN
    PROVE  TypeOK'
BY DEF View, Sound, Tidy, History, Fits, TypeOK, WorkspaceDef, Definitions, Scopes, Snapshots

\* What the server is saving still fits when workspaces are created meanwhile.
LEMMA SavingLater ==
    ASSUME IInv, saving' = saving, born' \in Nat, born <= born'
    PROVE  SavingFits' /\ saving' \in {Null} \cup Saving
<1>1. saving' \in {Null} \cup Saving /\ born \in Nat
  BY BoundsAssumption DEF IInv, TypeOK
<1>2. SUFFICES ASSUME saving # Null PROVE SavingFits'
  BY <1>1 DEF SavingFits
<1>3. /\ saving.defs \in Seq(WorkspaceDef) /\ saving.choice \in Choice
  BY <1>1, <1>2 DEF Saving, Definitions, WorkspaceDef
<1>4. /\ \A i \in DOMAIN saving.defs : saving.defs[i].id \in Nat
      /\ saving.choice.active \in Nat
  <2>1. Workspaces \subseteq Nat
    BY BoundsAssumption DEF Workspaces
  <2>2. \A i \in DOMAIN saving.defs : saving.defs[i] \in WorkspaceDef
    BY <1>3, ElementOfSeq, LenProperties
  <2> QED BY <1>3, <2>1, <2>2 DEF WorkspaceDef, Choice
<1> QED BY <1>1, <1>2, <1>4 DEF IInv, SavingFits

\* Nothing is being saved, and nothing has to fit.
LEMMA SavingOver ==
    ASSUME saving' = Null PROVE SavingFits' /\ saving' \in {Null} \cup Saving
BY DEF SavingFits

\* A render keeps the invariant, whatever sound editor an event hands it.
LEMMA RenderKeeps ==
    ASSUME IInv, NEW ed, Sound(ed), NEW h, Tidy(h), Drawn(ed, fresh'),
           fresh' \in fresh..MaxFresh, asked' \in BOOLEAN, Render(ed, h)
    PROVE  /\ IInv' /\ Scope' = Scope
           /\ \A s \in Scopes : s # Scope => store'[s] = store[s]
<1>1. Shown(ed, h) /\ UNCHANGED <<conns, catalog, defs, choice, saving, born, moves>>
  BY DEF Render
<1>2. View'
  BY <1>1, ShownFacts
<1>3. Scope' = Scope
  BY <1>1 DEF Scope
<1>4. Loadable(store, fresh') /\ fresh' \in 0..MaxFresh
  <2>1. fresh \in Nat /\ fresh' \in Nat /\ fresh <= fresh' /\ fresh' \in 0..MaxFresh
    BY Start
  <2> QED BY <2>1, Start, LoadableLater
<1>5. /\ store' \in [Scopes -> {Null} \cup Snapshots] /\ SnapshotsSound' /\ SnapshotCurrent'
      /\ \A s \in Scopes : s # Scope => store'[s] = store[s]
  <2>1. CASE editor' = editor /\ nav' = nav
    <3>1. store' = store
      BY <2>1 DEF Render
    <3>2. SnapshotsSound'
      BY <3>1, <1>4 DEF SnapshotsSound, Loadable
    <3>3. SnapshotCurrent'
      BY <2>1, <3>1, <1>1, <1>3 DEF IInv, SnapshotCurrent
    <3> QED BY <3>1, <3>2, <3>3, Start
  <2>2. CASE ~(editor' = editor /\ nav' = nav)
    <3>1. store' = [store EXCEPT ![Scope] = Written(Scope)]
      BY <2>2 DEF Render
    <3> DEFINE s == Scope
    <3>2. s \in Scopes /\ s = Scope' /\ store' = [store EXCEPT ![s] = Written(s)]
      BY <1>3, <3>1, Start
    <3> HIDE DEF s
    <3>3. store \in [Scopes -> {Null} \cup Snapshots]
      BY Start
    <3>4. store' \in [Scopes -> {Null} \cup Snapshots] /\ SnapshotsSound' /\ SnapshotCurrent'
      BY <1>2, <1>4, <3>2, <3>3, WrittenCurrent
    <3>5. \A r \in Scopes : r # s => store'[r] = store[r]
      BY <1>2, <1>4, <3>2, <3>3, WrittenCurrent
    <3> QED BY <3>4, <3>5 DEF s
  <2> QED BY <2>1, <2>2
<1>6. WorkspacesFit' /\ SavingFits' /\ saving' \in {Null} \cup Saving
  BY <1>1 DEF IInv, WorkspacesFit, SavingFits, TypeOK
<1>7. TypeOK'
  <2>1. /\ conns' \subseteq Conns /\ catalog' \in [Conns -> {Null} \cup SUBSET Tables]
        /\ born' \in 0..MaxMoves /\ moves' \in 0..MaxMoves
        /\ defs' \in Seq(WorkspaceDef) /\ choice' \in Choice
    BY <1>1, Start DEF IInv, TypeOK
  <2> QED BY <2>1, <1>2, <1>4, <1>5, <1>6, Types
<1> QED BY <1>2, <1>3, <1>5, <1>6, <1>7 DEF IInv

-----------------------------------------------------------------------------
(* Edits: the events within a scope *)

\* A staged tab that is still valid is handed on, unless the user consented.
Carried(ed) ==
    \A i \in Positions : editor.tabs[i].dirty /\ Valid(editor.tabs[i], conns', catalog') =>
        \/ asked'
        \/ \E j \in DOMAIN ed.tabs :
              ed.tabs[j].id = editor.tabs[i].id /\ Valid(ed.tabs[j], conns', catalog')

\* The history handed on has its cursor at the active tab, or never had.
Leads(ed, h) == OnActive(h, ed) \/ (~AtActive /\ h.prev = editor.active)

\* What every event but a change of the scope, of the connections or a reload is.
Edits(ed, h) ==
    /\ Sound(ed) /\ Tidy(h) /\ Drawn(ed, fresh')
    /\ fresh' \in fresh..MaxFresh /\ asked' \in BOOLEAN
    /\ Leads(ed, h) /\ Carried(ed) /\ Render(ed, h)
IsEdit == \E ed, h : Edits(ed, h)

\* The history at hand leads to whatever is shown next.
LEMMA NavLeads ==
    ASSUME IInv, NEW ed PROVE Leads(ed, nav)
<1>1. nav.entries # <<>> => editor.active # Null
  <2> SUFFICES ASSUME nav.entries # <<>>, editor.active = Null PROVE FALSE
    OBVIOUS
  <2>1. nav.cursor \in DOMAIN nav.entries
    BY Start, HistoryParts
  <2>2. IdsOf(editor.tabs) # {}
    BY <2>1 DEF IInv, View, Among
  <2>3. editor.tabs # <<>>
    BY <2>2 DEF IdsOf
  <2>4. editor.active \in IdsOf(editor.tabs)
    BY <2>3, Start DEF Sound, ActiveOpen
  <2>5. editor.active \in Id
    BY <2>4, Start, EditorParts
  <2> QED BY <2>5, NamesAssumption
<1>2. nav.entries # <<>> => nav.prev = editor.active
  BY <1>1 DEF IInv, View
<1>3. CASE AtActive
  BY <1>2, <1>3 DEF AtActive, Leads, OnActive, At
<1>4. CASE ~AtActive
  BY <1>2, <1>4 DEF AtActive, Leads
<1> QED BY <1>3, <1>4

\* What useTabs.ts commits is an edit: a sound editor whose tabs are the
\* open ones, the tabs left out having been asked about (useTabs.ts, commit).
LEMMA CommitEdits ==
    ASSUME IInv, NEW ed, Sound(ed), Drawn(ed, fresh'), fresh' \in fresh..MaxFresh,
           asked' \in BOOLEAN, Carried(ed), Commit(ed)
    PROVE  IsEdit
<1>1. Render(ed, nav)
  BY DEF Commit
<1>2. Edits(ed, nav)
  BY <1>1, NavLeads, Start DEF Edits
<1> QED BY <1>2 DEF IsEdit

\* When each open tab is handed on as it is.
LEMMA AllCarried ==
    ASSUME IInv, UNCHANGED <<conns, catalog>>, NEW ed,
           \A i \in Positions : editor.tabs[i].dirty =>
              asked' \/ \E j \in DOMAIN ed.tabs : ed.tabs[j] = editor.tabs[i]
    PROVE  Carried(ed)
BY DEF IInv, View, Carried

\* Tab ids and new tabs are well typed, and keep what they are made of.
LEMMA TabTypes ==
    /\ \A kind \in {"table", "query", "erd", "diff"}, c \in Conns,
          obj \in Tables \cup Conns \cup {Null}, n \in 0..MaxFresh :
             stableTabId(kind, c, obj, n) \in Id /\ stableTabId(kind, c, obj, n).n = n
    /\ \A id \in Id, ends \in (Conns \X Conns) \cup {Null} :
          NewTab(id, ends) \in Tab /\ NewTab(id, ends).id = id
BY DEF stableTabId, NewTab, Id, Tab

\* Showing a tab.
LEMMA OpenedEdits ==
    ASSUME IInv, NEW tab \in Tab, tab.id.n <= fresh', fresh' \in fresh..MaxFresh,
           asked' \in BOOLEAN, Commit(Opened(editor, tab))
    PROVE  IsEdit
<1> DEFINE ed == Opened(editor, tab)
<1>1. Sound(ed) /\ \A i \in Positions : i \in DOMAIN ed.tabs /\ ed.tabs[i] = editor.tabs[i]
  <2>1. Sound(ed)
    BY Start, OpenedSound
  <2>2. \A i \in DOMAIN editor.tabs : i \in DOMAIN ed.tabs /\ ed.tabs[i] = editor.tabs[i]
    BY Start, OpenedSound
  <2> QED BY <2>1, <2>2 DEF Positions
<1>2. Drawn(ed, fresh')
  <2>1. Drawn(editor, fresh')
    BY Start, DrawnLater
  <2> QED BY <2>1, Start, OpenedSound
<1> HIDE DEF ed
<1>3. UNCHANGED <<conns, catalog>> /\ Commit(ed)
  BY DEF Commit, Render, ed
<1>4. Carried(ed)
  BY <1>1, <1>3, AllCarried
<1> QED BY <1>1, <1>2, <1>3, <1>4, CommitEdits

\* The id of the tab that shows a table: an open one, or the default one.
LEMMA TableTabIds ==
    ASSUME IInv, NEW c \in Conns, NEW t \in Tables
    PROVE  TableTabId(c, t) \in Id /\ TableTabId(c, t).n <= fresh
<1>1. CASE ~(\E i \in Positions : SameTable(editor.tabs[i], c, t))
  <2>1. TableTabId(c, t) = stableTabId("table", c, t, 0)
    BY <1>1 DEF TableTabId
  <2>2. MaxFresh \in Nat /\ 0 \in 0..MaxFresh /\ 0 <= fresh
    BY Start
  <2> QED BY <2>1, <2>2, TabTypes
<1>2. CASE \E i \in Positions : SameTable(editor.tabs[i], c, t)
  <2> DEFINE Same == {i \in 1..Len(editor.tabs) : SameTable(editor.tabs[i], c, t)}
             k == SelectInSeq(editor.tabs, LAMBDA tab : SameTable(tab, c, t))
  <2>1. Same # {} /\ Same \in SUBSET Nat
    BY <1>2, Start
  <2>2. k = CHOOSE x \in Same : \A y \in Same : x <= y
    BY <2>1 DEF SelectInSeq, Min
  <2>3. k \in Same
    <3> HIDE DEF Same
    <3> QED BY <2>1, <2>2, Least
  <2>4. TableTabId(c, t) = editor.tabs[k].id
    BY <1>2 DEF TableTabId
  <2>5. k \in Positions
    BY <2>3, Start
  <2> HIDE DEF k
  <2> QED BY <2>4, <2>5, Start DEF Drawn, Positions
<1> QED BY <1>1, <1>2

\* The id openErdTab shows: that of the open diagram, or the default one.
LEMMA ErdTabIds ==
    ASSUME IInv, NEW c \in Conns
    PROVE  ErdTabId(c) \in Id /\ ErdTabId(c).n <= fresh
<1> DEFINE erds == {i \in Positions : editor.tabs[i].id.kind = "erd" /\ editor.tabs[i].id.conn = c}
           k == CHOOSE i \in erds : \A j \in erds : i <= j
<1>1. CASE erds = {}
  <2>1. ErdTabId(c) = stableTabId("erd", c, Null, 0)
    BY <1>1 DEF ErdTabId
  <2>2. MaxFresh \in Nat /\ 0 \in 0..MaxFresh /\ 0 <= fresh
    BY Start
  <2> QED BY <2>1, <2>2, TabTypes
<1>2. CASE erds # {}
  <2>1. erds \in SUBSET Nat
    BY Start
  <2>2. k \in erds
    <3> HIDE DEF erds
    <3> QED BY <1>2, <2>1, Least
  <2>3. ErdTabId(c) = editor.tabs[k].id
    BY <1>2 DEF ErdTabId
  <2>4. k \in Positions
    BY <2>2
  <2> HIDE DEF k
  <2> QED BY <2>3, <2>4, Start DEF Drawn, Positions
<1> QED BY <1>1, <1>2

\* Opening a tab.
LEMMA OpenEdits ==
    ASSUME IInv, OpenStep PROVE IsEdit
<1>0. /\ conns \subseteq Conns /\ fresh \in 0..MaxFresh /\ MaxFresh \in Nat
      /\ Erds \subseteq Conns /\ Diffs \subseteq Conns \X Conns
  BY Start, BoundsAssumption
<1>1. ASSUME NEW c \in conns, NEW t \in Tables, openTableTab(c, t) PROVE IsEdit
  <2> DEFINE tab == NewTab(TableTabId(c, t), Null)
  <2>1. TableTabId(c, t) \in Id /\ TableTabId(c, t).n <= fresh
    BY <1>0, TableTabIds
  <2>2. tab \in Tab /\ tab.id = TableTabId(c, t)
    BY <2>1, TabTypes
  <2>3. fresh' = fresh /\ asked' = FALSE /\ Commit(Opened(editor, tab))
    BY <1>1 DEF openTableTab
  <2> HIDE DEF tab
  <2>4. tab.id.n <= fresh' /\ fresh' \in fresh..MaxFresh
    BY <1>0, <2>1, <2>2, <2>3
  <2> QED BY <2>2, <2>3, <2>4, OpenedEdits
<1>2. ASSUME NEW c \in conns, NEW t \in Tables, openInNewTab(c, t) PROVE IsEdit
  <2> DEFINE id == stableTabId("table", c, t, fresh + 1)
             tab == NewTab(id, Null)
  <2>1. fresh' = fresh + 1 /\ asked' = FALSE /\ Commit(Opened(editor, tab)) /\ fresh < MaxFresh
    BY <1>2 DEF openInNewTab
  <2>2. fresh + 1 \in 0..MaxFresh /\ fresh + 1 \in fresh..MaxFresh
    BY <1>0, <2>1
  <2>3. id \in Id /\ id.n = fresh + 1
    BY <1>0, <2>2, TabTypes
  <2> HIDE DEF id
  <2>4. tab \in Tab /\ tab.id = id
    BY <2>3, TabTypes
  <2> HIDE DEF tab
  <2>5. tab.id.n <= fresh' /\ fresh' \in fresh..MaxFresh
    BY <1>0, <2>1, <2>2, <2>3, <2>4
  <2> QED BY <2>1, <2>4, <2>5, OpenedEdits
<1>3. ASSUME NEW c \in conns, openQueryTab(c) PROVE IsEdit
  <2> DEFINE id == stableTabId("query", c, Null, fresh + 1)
             tab == NewTab(id, Null)
  <2>1. fresh' = fresh + 1 /\ asked' = FALSE /\ Commit(Opened(editor, tab)) /\ fresh < MaxFresh
    BY <1>3 DEF openQueryTab
  <2>2. fresh + 1 \in 0..MaxFresh /\ fresh + 1 \in fresh..MaxFresh
    BY <1>0, <2>1
  <2>3. id \in Id /\ id.n = fresh + 1
    <3>1. c \in Conns /\ Null \in Tables \cup Conns \cup {Null}
      BY <1>0
    <3> QED BY <2>2, <3>1, TabTypes
  <2> HIDE DEF id
  <2>4. tab \in Tab /\ tab.id = id
    BY <2>3, TabTypes
  <2> HIDE DEF tab
  <2>5. tab.id.n <= fresh' /\ fresh' \in fresh..MaxFresh
    BY <1>0, <2>1, <2>2, <2>3, <2>4
  <2> QED BY <2>1, <2>4, <2>5, OpenedEdits
<1>4. ASSUME NEW c \in conns \cap Erds, openErdTab(c) PROVE IsEdit
  <2> DEFINE tab == NewTab(ErdTabId(c), Null)
  <2>1. ErdTabId(c) \in Id /\ ErdTabId(c).n <= fresh
    BY <1>0, ErdTabIds
  <2>2. tab \in Tab /\ tab.id = ErdTabId(c)
    BY <2>1, TabTypes
  <2>3. fresh' = fresh /\ asked' = FALSE /\ Commit(Opened(editor, tab))
    BY <1>4 DEF openErdTab
  <2> HIDE DEF tab
  <2>4. tab.id.n <= fresh' /\ fresh' \in fresh..MaxFresh
    BY <1>0, <2>1, <2>2, <2>3
  <2> QED BY <2>2, <2>3, <2>4, OpenedEdits
<1>5. ASSUME NEW from \in conns, NEW to \in conns, openDiffTab(from, to) PROVE IsEdit
  <2> DEFINE id == stableTabId("diff", from, to, 0)
             tab == NewTab(id, <<from, to>>)
  <2>1. fresh' = fresh /\ asked' = FALSE /\ Commit(Opened(editor, tab))
    BY <1>5 DEF openDiffTab
  <2>2. 0 \in 0..MaxFresh /\ 0 <= fresh /\ fresh' \in fresh..MaxFresh
    BY <1>0, <2>1
  <2>3. id \in Id /\ id.n = 0
    BY <1>0, <2>2, TabTypes
  <2> HIDE DEF id
  <2>4. tab \in Tab /\ tab.id = id
    BY <1>0, <2>3, TabTypes
  <2> HIDE DEF tab
  <2> QED BY <2>1, <2>2, <2>3, <2>4, OpenedEdits
<1>6. ASSUME NEW c \in conns, NEW t \in Tables, NEW from \in Cells, NEW to \in Cells,
             FollowReference(c, t, from, to)
      PROVE  IsEdit
  <2> DEFINE target == TableTabId(c, t)
             tab == NewTab(target, Null)
             ed == Opened(editor, tab)
             here == [tab |-> editor.active, cell |-> from]
             there == [tab |-> target, cell |-> to]
             leaving == pushNavigation(nav, here)
             h == pushNavigation(leaving, there)
  <2>1. /\ editor.active # Null /\ Render(ed, h) /\ fresh' = fresh /\ asked' = FALSE
    BY <1>6 DEF FollowReference
  <2>2. target \in Id /\ target.n <= fresh
    BY <1>0, TableTabIds
  <2> HIDE DEF target
  <2>3. tab \in Tab /\ tab.id = target
    BY <2>2, TabTypes
  <2> HIDE DEF tab
  <2>4. here \in Location /\ there \in Location /\ there.tab = target
    BY <2>1, <2>2, Start, EditorParts DEF Location
  <2> HIDE DEF here, there
  <2>5. Tidy(leaving)
    BY <2>4, Start, PushTidy
  <2> HIDE DEF leaving
  <2>6. Tidy(h) /\ h.entries # <<>> /\ h.entries[h.cursor] = there
    BY <2>4, <2>5, PushTidy
  <2> HIDE DEF h
  <2>7. Sound(ed) /\ ed.active = target
    BY <2>3, Start, OpenedSound
  <2>8. \A i \in DOMAIN editor.tabs : i \in DOMAIN ed.tabs /\ ed.tabs[i] = editor.tabs[i]
    BY <2>3, Start, OpenedSound
  <2>9. Drawn(ed, fresh')
    <3>1. Drawn(editor, fresh) /\ tab.id.n <= fresh
      BY <2>2, <2>3, Start
    <3>2. Drawn(ed, fresh)
      BY <3>1, <2>3, Start, OpenedSound
    <3> QED BY <2>1, <3>2
  <2> HIDE DEF ed
  <2>10. Leads(ed, h)
    BY <2>4, <2>6, <2>7 DEF Leads, OnActive, At
  <2>11. Carried(ed)
    <3>1. UNCHANGED <<conns, catalog>>
      BY <2>1 DEF Render
    <3> QED BY <2>8, <3>1, AllCarried DEF Positions
  <2>12. fresh' \in fresh..MaxFresh
    BY <1>0, <2>1
  <2>13. Edits(ed, h)
    BY <2>1, <2>6, <2>7, <2>9, <2>10, <2>11, <2>12 DEF Edits
  <2> QED BY <2>13 DEF IsEdit
<1> QED BY <1>1, <1>2, <1>3, <1>4, <1>5, <1>6 DEF OpenStep

\* A step back or forward.
LEMMA NavigateEdits ==
    ASSUME IInv, NEW direction \in {"back", "forward"}, navigateHistory(direction)
    PROVE  IsEdit
<1> DEFINE k == stepNavigation(nav, direction, IdsOf(editor.tabs))
           id == nav.entries[k].tab
           ed == [editor EXCEPT !.active = id]
           h == [nav EXCEPT !.cursor = k, !.prev = id]
<1>1. k # 0 /\ Render(ed, h) /\ fresh' = fresh /\ asked' = FALSE
  BY DEF navigateHistory
<1>2. k \in DOMAIN nav.entries /\ id \in IdsOf(editor.tabs)
  BY <1>1, Start, StepOpen
<1> HIDE DEF k, id
<1>3. Sound(ed) /\ ed.tabs = editor.tabs /\ ed.active = id
  BY <1>2, Start, ActivatedSound
<1> HIDE DEF ed
<1>4. /\ nav = [entries |-> nav.entries, cursor |-> nav.cursor, prev |-> nav.prev]
      /\ nav.entries \in Seq(Location) /\ Len(nav.entries) <= NavLimit
      /\ Len(nav.entries) \in Nat /\ DOMAIN nav.entries = 1..Len(nav.entries)
  BY Start, HistoryParts
<1>5. /\ h.entries = nav.entries /\ h.cursor = k /\ h.prev = id
      /\ h = [entries |-> h.entries, cursor |-> h.cursor, prev |-> h.prev]
  <2>1. h = [nav EXCEPT !.cursor = k, !.prev = id]
    OBVIOUS
  <2> HIDE DEF h
  <2>2. nav = [entries |-> nav.entries, cursor |-> nav.cursor, prev |-> nav.prev]
    BY <1>4
  <2>3. h.entries = nav.entries
    BY <2>1, <2>2
  <2>4. h.cursor = k
    BY <2>1, <2>2
  <2>5. h.prev = id
    BY <2>1, <2>2
  <2>6. h = [entries |-> h.entries, cursor |-> h.cursor, prev |-> h.prev]
    BY <2>1, <2>2
  <2> QED BY <2>3, <2>4, <2>5, <2>6
<1> HIDE DEF h
<1>6. id \in Id
  BY <1>2, Start, EditorParts
<1>7. Tidy(h)
  BY <1>2, <1>4, <1>5, <1>6 DEF Tidy, History, Fits
<1>8. Leads(ed, h)
  BY <1>3, <1>5 DEF Leads, OnActive, At, id
<1>9. UNCHANGED <<conns, catalog>>
  BY <1>1 DEF Render
<1>10. Carried(ed)
  BY <1>3, <1>9, AllCarried DEF Positions
<1>11. Drawn(ed, fresh') /\ fresh' \in fresh..MaxFresh
  BY <1>1, <1>3, Start DEF Drawn
<1>12. Edits(ed, h)
  BY <1>1, <1>3, <1>7, <1>8, <1>10, <1>11 DEF Edits
<1> QED BY <1>12 DEF IsEdit

\* Tabs made of open ones, one of them active, without a new id drawn.
LEMMA MadeEdits ==
    ASSUME IInv, NEW tabs \in Seq(Tab), Distinct(tabs), NEW active \in IdsOf(tabs),
           \A m \in DOMAIN tabs : \E k \in Positions : tabs[m].id = editor.tabs[k].id,
           \A i \in Positions : editor.tabs[i].dirty =>
              asked' \/ \E j \in DOMAIN tabs : tabs[j] = editor.tabs[i],
           fresh' = fresh, asked' \in BOOLEAN, Commit([tabs |-> tabs, active |-> active])
    PROVE  IsEdit
<1> DEFINE ed == [tabs |-> tabs, active |-> active]
<1>1. Sound(ed)
  BY MadeSound
<1>2. ed.tabs = tabs /\ Commit(ed)
  OBVIOUS
<1> HIDE DEF ed
<1>3. Drawn(ed, fresh') /\ fresh' \in fresh..MaxFresh
  BY <1>2, Start DEF Drawn, Positions
<1>4. Carried(ed)
  <2>1. UNCHANGED <<conns, catalog>>
    BY <1>2 DEF Commit, Render
  <2> QED BY <1>2, <2>1, AllCarried
<1> QED BY <1>1, <1>2, <1>3, <1>4, CommitEdits

\* What is said of a tab does not depend on whether it is dirty.
LEMMA ChangedEdits ==
    ASSUME IInv, NEW i \in Positions, NEW tab \in Tab, tab.id = editor.tabs[i].id,
           Valid(tab, conns, catalog), fresh' = fresh, asked' \in BOOLEAN,
           Commit([editor EXCEPT !.tabs[i] = tab])
    PROVE  IsEdit
<1> DEFINE ed == [editor EXCEPT !.tabs[i] = tab]
<1>1. Sound(ed) /\ DOMAIN ed.tabs = Positions /\ ed.tabs[i] = tab
  <2>1. i \in DOMAIN editor.tabs /\ Sound(editor)
    BY Start DEF Positions
  <2>2. Sound(ed) /\ DOMAIN ed.tabs = DOMAIN editor.tabs /\ ed.tabs[i] = tab
    BY <2>1, ChangedSound
  <2> QED BY <2>2 DEF Positions
<1>2. \A k \in Positions : k # i => ed.tabs[k] = editor.tabs[k]
  BY Start, ChangedSound DEF Positions
<1>3. Drawn(ed, fresh)
  BY Start, ChangedSound DEF Positions
<1> HIDE DEF ed
<1>4. UNCHANGED <<conns, catalog>> /\ Commit(ed)
  BY DEF Commit, Render, ed
<1>5. Carried(ed)
  BY <1>1, <1>2, <1>4 DEF Carried, IInv, View
<1>6. Drawn(ed, fresh') /\ fresh' \in fresh..MaxFresh
  BY <1>3, Start
<1> QED BY <1>1, <1>4, <1>5, <1>6, CommitEdits

\* The user is asked before a staged tab among these goes.
LEMMA Consent ==
    ASSUME IInv, NEW S, Confirmed(S)
    PROVE  asked' \in BOOLEAN /\ \A i \in S : editor.tabs[i].dirty => asked'
BY DEF Confirmed, Dirty

\* Showing an open tab is an edit (useTabs.ts, setActiveTabId).
LEMMA SetActiveEdits ==
    ASSUME IInv, NEW i \in Positions, setActiveTabId(i) PROVE IsEdit
<1> DEFINE id == editor.tabs[i].id
<1>1. id \in IdsOf(editor.tabs)
  BY DEF IdsOf, Positions
<1>2. fresh' = fresh /\ asked' = FALSE /\ Commit([editor EXCEPT !.active = id])
  BY DEF setActiveTabId
<1> HIDE DEF id
<1>3. [editor EXCEPT !.active = id] = [tabs |-> editor.tabs, active |-> id]
  BY Start, EditorParts
<1>4. Commit([tabs |-> editor.tabs, active |-> id])
  BY <1>2, <1>3
<1>5. editor.tabs \in Seq(Tab) /\ Distinct(editor.tabs)
  BY Start, EditorParts DEF Sound
<1> QED BY <1>1, <1>2, <1>4, <1>5, MadeEdits DEF Positions

\* A copy next to the original, under an id just drawn, is an edit (useTabs.ts,
\* duplicateTab).
LEMMA DuplicateEdits ==
    ASSUME IInv, NEW i \in Positions, duplicateTab(i) PROVE IsEdit
<1> DEFINE old == editor.tabs[i]
           copy == [old EXCEPT !.id.n = fresh + 1, !.dirty = FALSE]
           tabs == InsertAt(editor.tabs, i + 1, copy)
           ed == [tabs |-> tabs, active |-> copy.id]
<1>1. fresh < MaxFresh /\ Commit(ed) /\ fresh' = fresh + 1 /\ asked' = FALSE
  BY DEF duplicateTab
<1>2. fresh + 1 \in 0..MaxFresh /\ fresh \in Nat /\ MaxFresh \in Nat
  BY <1>1, Start
<1>3. old \in Tab /\ old.id \in Id
  BY Start
<1> HIDE DEF old
<1>4. copy \in Tab /\ copy.id.n = fresh + 1
  <2>1. old = [id |-> old.id, ends |-> old.ends, dirty |-> old.dirty]
    BY <1>3 DEF Tab
  <2>2. copy = [id |-> [old.id EXCEPT !.n = fresh + 1], ends |-> old.ends, dirty |-> FALSE]
    <3> DEFINE mid == [old EXCEPT !.id.n = fresh + 1]
    <3>1. mid = [id |-> [old.id EXCEPT !.n = fresh + 1], ends |-> old.ends, dirty |-> old.dirty]
      BY <2>1
    <3>2. copy = [mid EXCEPT !.dirty = FALSE]
      OBVIOUS
    <3> HIDE DEF mid, copy
    <3> QED BY <3>1, <3>2
  <2>3. [old.id EXCEPT !.n = fresh + 1] \in Id /\ [old.id EXCEPT !.n = fresh + 1].n = fresh + 1
    BY <1>2, <1>3 DEF Id
  <2> DEFINE new == [old.id EXCEPT !.n = fresh + 1]
  <2> HIDE DEF new
  <2>4. copy = [id |-> new, ends |-> old.ends, dirty |-> FALSE]
    BY <2>2 DEF new
  <2>5. new \in Id /\ new.n = fresh + 1 /\ old.ends \in (Conns \X Conns) \cup {Null}
    BY <2>3, <1>3 DEF new, Tab
  <2> HIDE DEF copy
  <2> QED BY <2>4, <2>5 DEF Tab
<1> HIDE DEF copy
<1>5. copy.id \notin IdsOf(editor.tabs)
  <2>1. \A k \in Positions : editor.tabs[k].id.n <= fresh /\ editor.tabs[k].id.n \in 0..MaxFresh
    BY Start DEF Drawn, Positions, Id
  <2>2. \A k \in Positions : editor.tabs[k].id # copy.id
    BY <1>2, <1>4, <2>1
  <2> QED BY <2>2 DEF IdsOf, Positions
<1>6. /\ editor.tabs \in Seq(Tab) /\ Distinct(editor.tabs) /\ i + 1 \in 1..(Len(editor.tabs) + 1)
  BY Start, EditorParts DEF Sound
<1>7. /\ tabs \in Seq(Tab) /\ Distinct(tabs) /\ i + 1 \in DOMAIN tabs /\ tabs[i + 1] = copy
      /\ \A k \in DOMAIN editor.tabs : \E m \in DOMAIN tabs : tabs[m] = editor.tabs[k]
      /\ \A m \in DOMAIN tabs : tabs[m] = copy \/ \E k \in DOMAIN editor.tabs : tabs[m] = editor.tabs[k]
  <2>1. tabs \in Seq(Tab) /\ Distinct(tabs) /\ i + 1 \in DOMAIN tabs /\ tabs[i + 1] = copy
    BY <1>4, <1>5, <1>6, InsertedTabs
  <2>2. \A k \in DOMAIN editor.tabs : \E m \in DOMAIN tabs : tabs[m] = editor.tabs[k]
    BY <1>4, <1>5, <1>6, InsertedTabs
  <2>3. \A m \in DOMAIN tabs : tabs[m] = copy \/ \E k \in DOMAIN editor.tabs : tabs[m] = editor.tabs[k]
    BY <1>4, <1>5, <1>6, InsertedTabs
  <2> QED BY <2>1, <2>2, <2>3
<1> HIDE DEF tabs
<1>8. Sound(ed)
  <2>1. copy.id \in IdsOf(tabs)
    BY <1>7 DEF IdsOf
  <2> QED BY <1>7, <2>1, MadeSound
<1>9. ed.tabs = tabs
  OBVIOUS
<1> HIDE DEF ed
<1>10. Drawn(ed, fresh')
  <2>1. Drawn(editor, fresh')
    BY <1>1, <1>2, Start, DrawnLater
  <2> QED BY <1>1, <1>2, <1>4, <1>7, <1>9, <2>1 DEF Drawn
<1>11. Carried(ed)
  <2>1. UNCHANGED <<conns, catalog>>
    BY <1>1 DEF Commit, Render
  <2> QED BY <1>7, <1>9, <2>1, AllCarried DEF Positions
<1>12. fresh' \in fresh..MaxFresh
  BY <1>1, <1>2
<1> QED BY <1>1, <1>8, <1>10, <1>11, <1>12, CommitEdits

\* Moving a tab to another place is an edit: the same tabs, one of them active
\* (useTabs.ts, reorderTabs).
LEMMA ReorderEdits ==
    ASSUME IInv, NEW i \in Positions, NEW j \in Positions, reorderTabs(i, j) PROVE IsEdit
<1> DEFINE tab == editor.tabs[i]
           rest == RemoveAt(editor.tabs, i)
           tabs == InsertAt(rest, j, tab)
<1>1. fresh' = fresh /\ asked' = FALSE /\ Commit([editor EXCEPT !.tabs = tabs])
  BY DEF reorderTabs
<1>2. /\ editor.tabs \in Seq(Tab) /\ Distinct(editor.tabs) /\ tab \in Tab
      /\ editor = [tabs |-> editor.tabs, active |-> editor.active]
  BY Start, EditorParts DEF Sound
<1>3. /\ rest \in Seq(Tab) /\ Len(rest) = Len(editor.tabs) - 1 /\ Distinct(rest)
      /\ \A k \in DOMAIN editor.tabs : k # i => \E m \in DOMAIN rest : rest[m] = editor.tabs[k]
      /\ \A m \in DOMAIN rest : \E k \in DOMAIN editor.tabs : k # i /\ rest[m] = editor.tabs[k]
  <2>0. i \in DOMAIN editor.tabs
    BY DEF Positions
  <2>1. rest \in Seq(Tab) /\ Len(rest) = Len(editor.tabs) - 1 /\ Distinct(rest)
    BY <1>2, <2>0, RemovedTabs
  <2>2. \A k \in DOMAIN editor.tabs : k # i => \E m \in DOMAIN rest : rest[m] = editor.tabs[k]
    BY <1>2, <2>0, RemovedTabs
  <2>3. \A m \in DOMAIN rest : \E k \in DOMAIN editor.tabs : k # i /\ rest[m] = editor.tabs[k]
    BY <1>2, <2>0, RemovedTabs
  <2> QED BY <2>1, <2>2, <2>3
<1> HIDE DEF rest
<1>4. j \in 1..(Len(rest) + 1)
  BY <1>3, Start
<1>5. tab.id \notin IdsOf(rest)
  BY <1>2, <1>3 DEF IdsOf, Distinct, Positions
<1> HIDE DEF tab
<1>6. /\ tabs \in Seq(Tab) /\ Distinct(tabs) /\ j \in DOMAIN tabs /\ tabs[j] = tab
      /\ \A k \in DOMAIN rest : \E m \in DOMAIN tabs : tabs[m] = rest[k]
      /\ \A m \in DOMAIN tabs : tabs[m] = tab \/ \E k \in DOMAIN rest : tabs[m] = rest[k]
  <2>1. tabs \in Seq(Tab) /\ Distinct(tabs) /\ j \in DOMAIN tabs /\ tabs[j] = tab
    BY <1>2, <1>3, <1>4, <1>5, InsertedTabs
  <2>2. \A k \in DOMAIN rest : \E m \in DOMAIN tabs : tabs[m] = rest[k]
    BY <1>2, <1>3, <1>4, <1>5, InsertedTabs
  <2>3. \A m \in DOMAIN tabs : tabs[m] = tab \/ \E k \in DOMAIN rest : tabs[m] = rest[k]
    BY <1>2, <1>3, <1>4, <1>5, InsertedTabs
  <2> QED BY <2>1, <2>2, <2>3
<1> HIDE DEF tabs
<1>7. \A k \in Positions : \E m \in DOMAIN tabs : tabs[m] = editor.tabs[k]
  <2> TAKE k \in Positions
  <2>1. CASE k = i
    BY <2>1, <1>6 DEF tab
  <2>2. CASE k # i
    BY <2>2, <1>3, <1>6 DEF Positions
  <2> QED BY <2>1, <2>2
<1>8. \A m \in DOMAIN tabs : \E k \in Positions : tabs[m].id = editor.tabs[k].id
  <2> TAKE m \in DOMAIN tabs
  <2>1. CASE tabs[m] = tab
    BY <2>1 DEF tab
  <2>2. CASE tabs[m] # tab
    <3>1. PICK k \in DOMAIN rest : tabs[m] = rest[k]
      BY <2>2, <1>6
    <3>2. PICK l \in DOMAIN editor.tabs : rest[k] = editor.tabs[l]
      BY <1>3
    <3> QED BY <3>1, <3>2 DEF Positions
  <2> QED BY <2>1, <2>2
<1>9. editor.active \in IdsOf(tabs)
  <2>1. editor.tabs # <<>>
    BY Start, EmptySeq
  <2>2. editor.active \in IdsOf(editor.tabs)
    BY <2>1, Start DEF Sound, ActiveOpen
  <2> QED BY <2>2, <1>7 DEF IdsOf, Positions
<1>10. Commit([tabs |-> tabs, active |-> editor.active])
  <2>1. [editor EXCEPT !.tabs = tabs] = [tabs |-> tabs, active |-> editor.active]
    BY <1>2
  <2> QED BY <1>1, <2>1
<1> QED BY <1>1, <1>6, <1>7, <1>8, <1>9, <1>10, MadeEdits

\* Marking a tab as staged or not is an edit (useTabs.ts, setTabDirty).
LEMMA DirtyEdits ==
    ASSUME IInv, NEW i \in Positions, NEW dirty \in BOOLEAN, setTabDirty(i, dirty) PROVE IsEdit
<1> DEFINE tab == [editor.tabs[i] EXCEPT !.dirty = dirty]
<1>1. fresh' = fresh /\ asked' = FALSE /\ Commit([editor EXCEPT !.tabs[i].dirty = dirty])
  BY DEF setTabDirty
<1>2. [editor EXCEPT !.tabs[i].dirty = dirty] = [editor EXCEPT !.tabs[i] = tab]
  OBVIOUS
<1>3. editor.tabs[i] \in Tab /\ Valid(editor.tabs[i], conns, catalog)
  BY Start DEF IInv, View
<1>4. /\ tab \in Tab /\ tab.id = editor.tabs[i].id /\ tab.ends = editor.tabs[i].ends
  BY <1>3 DEF Tab
<1> HIDE DEF tab
<1>5. Valid(tab, conns, catalog)
  BY <1>3, <1>4 DEF Valid
<1> QED BY <1>1, <1>2, <1>4, <1>5, ChangedEdits

\* Comparing another pair in a diff tab is an edit: its id stays, and the new
\* pair is one of connections that are there.
LEMMA PairEdits ==
    ASSUME IInv, NEW i \in Positions, NEW from \in conns, NEW to \in conns,
           ChangePair(i, from, to)
    PROVE  IsEdit
<1> DEFINE tab == [editor.tabs[i] EXCEPT !.ends = <<from, to>>]
<1>1. /\ fresh' = fresh /\ asked' = FALSE /\ from # to
      /\ Commit([editor EXCEPT !.tabs[i].ends = <<from, to>>])
  BY DEF ChangePair
<1>2. [editor EXCEPT !.tabs[i].ends = <<from, to>>] = [editor EXCEPT !.tabs[i] = tab]
  OBVIOUS
<1>3. editor.tabs[i] \in Tab /\ Valid(editor.tabs[i], conns, catalog)
  BY Start DEF IInv, View
<1>4. /\ tab \in Tab /\ tab.id = editor.tabs[i].id /\ tab.ends = <<from, to>>
  <2>1. <<from, to>> \in Conns \X Conns
    BY Start
  <2> QED BY <1>3, <2>1 DEF Tab
<1> HIDE DEF tab
<1>5. Valid(tab, conns, catalog)
  BY <1>1, <1>3, <1>4 DEF Valid
<1> QED BY <1>1, <1>2, <1>4, <1>5, ChangedEdits

\* Focusing a cell is an edit: it changes the cell of the current entry of the
\* history and nothing else (navigationHistory.ts, updateCurrentNavigationCell).
LEMMA FocusEdits ==
    ASSUME IInv, NEW i \in Positions, NEW cell \in Cells, FocusCell(i, cell) PROVE IsEdit
<1> DEFINE h == updateCurrentNavigationCell(nav, editor.tabs[i].id, cell)
<1>1. Render(editor, h) /\ fresh' = fresh /\ asked' = FALSE
  BY DEF FocusCell
<1>2. Tidy(h) /\ h.prev = nav.prev /\ (At(nav, editor) => At(h, editor))
  BY Start, CellTidy
<1> HIDE DEF h
<1>3. Leads(editor, h)
  BY <1>2, NavLeads DEF Leads, OnActive
<1>4. Drawn(editor, fresh') /\ fresh' \in fresh..MaxFresh
  BY <1>1, Start
<1>5. Carried(editor)
  <2>1. UNCHANGED <<conns, catalog>>
    BY <1>1 DEF Render
  <2> QED BY <2>1, AllCarried DEF Positions
<1>6. Edits(editor, h)
  BY <1>1, <1>2, <1>3, <1>4, <1>5, Start DEF Edits
<1> QED BY <1>6 DEF IsEdit

\* Closing all tabs is an edit (useTabs.ts, closeAllTabs).
LEMMA CloseAllEdits ==
    ASSUME IInv, closeAllTabs PROVE IsEdit
<1>1. Confirmed(Positions) /\ fresh' = fresh /\ Commit(Empty)
  BY DEF closeAllTabs
<1>2. asked' \in BOOLEAN /\ \A i \in Positions : editor.tabs[i].dirty => asked'
  BY <1>1, Consent
<1>3. Sound(Empty) /\ Drawn(Empty, fresh')
  BY EmptySeq DEF Empty, Sound, Editor, Distinct, ActiveOpen, Drawn
<1>4. Carried(Empty)
  BY <1>2 DEF Carried
<1>5. fresh' \in fresh..MaxFresh
  BY <1>1, Start
<1> QED BY <1>1, <1>2, <1>3, <1>4, <1>5, CommitEdits

\* Closing the other tabs is an edit: the one left becomes the active one
\* (useTabs.ts, closeOtherTabs).
LEMMA CloseOthersEdits ==
    ASSUME IInv, NEW i \in Positions, closeOtherTabs(i) PROVE IsEdit
<1> DEFINE tabs == <<editor.tabs[i]>>
<1>1. /\ Confirmed(Positions \ {i}) /\ fresh' = fresh
      /\ Commit([tabs |-> tabs, active |-> editor.tabs[i].id])
  BY DEF closeOtherTabs
<1>2. asked' \in BOOLEAN /\ \A k \in Positions \ {i} : editor.tabs[k].dirty => asked'
  BY <1>1, Consent
<1>3. tabs \in Seq(Tab) /\ DOMAIN tabs = {1} /\ tabs[1] = editor.tabs[i]
  <2>1. editor.tabs[i] \in Tab
    BY Start
  <2> QED BY <2>1
<1> HIDE DEF tabs
<1>4. Distinct(tabs) /\ editor.tabs[i].id \in IdsOf(tabs)
  BY <1>3 DEF Distinct, IdsOf
<1>5. \A k \in Positions : editor.tabs[k].dirty =>
         asked' \/ \E j \in DOMAIN tabs : tabs[j] = editor.tabs[k]
  BY <1>2, <1>3
<1>6. \A m \in DOMAIN tabs : \E k \in Positions : tabs[m].id = editor.tabs[k].id
  BY <1>3
<1> QED BY <1>1, <1>2, <1>3, <1>4, <1>5, <1>6, MadeEdits

\* Closing the tabs to the right is an edit: the active one is still open, or it
\* is the tab they were closed from (useTabs.ts, closeTabsToRight).
LEMMA CloseRightEdits ==
    ASSUME IInv, NEW i \in Positions, closeTabsToRight(i) PROVE IsEdit
<1> DEFINE tabs == SubSeq(editor.tabs, 1, i)
           active == IF editor.active \in IdsOf(tabs) THEN editor.active ELSE editor.tabs[i].id
<1>1. /\ Confirmed({j \in Positions : j > i}) /\ fresh' = fresh
      /\ Commit([tabs |-> tabs, active |-> active])
  BY DEF closeTabsToRight
<1>2. /\ asked' \in BOOLEAN
      /\ \A k \in {j \in Positions : j > i} : editor.tabs[k].dirty => asked'
  BY <1>1, Consent
<1>3. /\ tabs \in Seq(Tab) /\ Distinct(tabs) /\ DOMAIN tabs = 1..i
      /\ \A k \in 1..i : k \in Positions /\ tabs[k] = editor.tabs[k]
  <2>1. editor.tabs \in Seq(Tab) /\ Distinct(editor.tabs) /\ i \in DOMAIN editor.tabs
    BY Start, EditorParts DEF Sound, Positions
  <2>2. tabs \in Seq(Tab) /\ Distinct(tabs) /\ DOMAIN tabs = 1..i
    BY <2>1, FirstTabs
  <2>3. \A k \in 1..i : k \in DOMAIN editor.tabs /\ tabs[k] = editor.tabs[k]
    BY <2>1, FirstTabs
  <2> QED BY <2>2, <2>3 DEF Positions
<1> HIDE DEF tabs
<1>4. i \in 1..i /\ \A k \in Positions : k > i \/ k \in 1..i
  BY Start
<1>5. active \in IdsOf(tabs)
  BY <1>3, <1>4 DEF IdsOf
<1> HIDE DEF active
<1>6. \A k \in Positions : editor.tabs[k].dirty =>
         asked' \/ \E j \in DOMAIN tabs : tabs[j] = editor.tabs[k]
  BY <1>2, <1>3, <1>4
<1>7. \A m \in DOMAIN tabs : \E k \in Positions : tabs[m].id = editor.tabs[k].id
  BY <1>3
<1> QED BY <1>1, <1>2, <1>3, <1>5, <1>6, <1>7, MadeEdits

\* Closing a tab is an edit: when it was active its left neighbour becomes so
\* (useTabs.ts, closeTab).
LEMMA CloseEdits ==
    ASSUME IInv, NEW i \in Positions, closeTab(i) PROVE IsEdit
<1> DEFINE tabs == RemoveAt(editor.tabs, i)
           left == IF i = 1 THEN 1 ELSE i - 1
           active == IF editor.active # editor.tabs[i].id THEN editor.active
                     ELSE IF tabs = <<>> THEN Null ELSE tabs[left].id
<1>1. /\ Confirmed({i}) /\ fresh' = fresh
      /\ Commit([tabs |-> tabs, active |-> active])
  BY DEF closeTab
<1>2. asked' \in BOOLEAN /\ (editor.tabs[i].dirty => asked')
  BY <1>1, Consent
<1>3. /\ tabs \in Seq(Tab) /\ Len(tabs) = Len(editor.tabs) - 1 /\ Distinct(tabs)
      /\ \A k \in Positions : k # i => \E m \in DOMAIN tabs : tabs[m] = editor.tabs[k]
      /\ \A m \in DOMAIN tabs : \E k \in Positions : k # i /\ tabs[m] = editor.tabs[k]
  <2>1. editor.tabs \in Seq(Tab) /\ Distinct(editor.tabs) /\ i \in DOMAIN editor.tabs
    BY Start, EditorParts DEF Sound, Positions
  <2>2. tabs \in Seq(Tab) /\ Len(tabs) = Len(editor.tabs) - 1 /\ Distinct(tabs)
    BY <2>1, RemovedTabs
  <2>3. \A k \in DOMAIN editor.tabs : k # i => \E m \in DOMAIN tabs : tabs[m] = editor.tabs[k]
    BY <2>1, RemovedTabs
  <2>4. \A m \in DOMAIN tabs : \E k \in DOMAIN editor.tabs : k # i /\ tabs[m] = editor.tabs[k]
    BY <2>1, RemovedTabs
  <2> QED BY <2>2, <2>3, <2>4 DEF Positions
<1> HIDE DEF tabs
<1>4. \A k \in Positions : editor.tabs[k].dirty =>
         asked' \/ \E j \in DOMAIN tabs : tabs[j] = editor.tabs[k]
  BY <1>2, <1>3
<1>5. Len(tabs) \in Nat /\ DOMAIN tabs = 1..Len(tabs) /\ (tabs = <<>> <=> Len(tabs) = 0)
  BY <1>3, LenProperties, EmptySeq
<1>6. editor.tabs # <<>> /\ editor.active \in IdsOf(editor.tabs)
  <2>1. editor.tabs # <<>>
    BY Start, EmptySeq
  <2> QED BY <2>1, Start DEF Sound, ActiveOpen
<1>7. CASE tabs # <<>>
  <2>1. left \in DOMAIN tabs
    BY <1>3, <1>5, <1>7, Start
  <2> HIDE DEF left
  <2>2. tabs[left].id \in IdsOf(tabs)
    BY <2>1 DEF IdsOf
  <2>3. editor.active # editor.tabs[i].id => editor.active \in IdsOf(tabs)
    <3> SUFFICES ASSUME editor.active # editor.tabs[i].id PROVE editor.active \in IdsOf(tabs)
      OBVIOUS
    <3>1. PICK k \in Positions : editor.tabs[k].id = editor.active
      BY <1>6 DEF IdsOf, Positions
    <3>2. PICK m \in DOMAIN tabs : tabs[m] = editor.tabs[k]
      BY <1>3, <3>1
    <3> QED BY <3>1, <3>2 DEF IdsOf
  <2>4. active \in IdsOf(tabs)
    BY <1>7, <2>2, <2>3
  <2> HIDE DEF active
  <2>5. \A m \in DOMAIN tabs : \E k \in Positions : tabs[m].id = editor.tabs[k].id
    BY <1>3
  <2> QED BY <1>1, <1>2, <1>3, <1>4, <2>4, <2>5, MadeEdits
<1>8. CASE tabs = <<>>
  <2>1. DOMAIN tabs = {} /\ \A k \in Positions : k = i
    BY <1>3, <1>5, <1>8
  <2>2. editor.active = editor.tabs[i].id
    BY <1>6, <2>1 DEF IdsOf, Positions
  <2>3. [tabs |-> tabs, active |-> active] = Empty
    BY <1>8, <2>2 DEF Empty
  <2>4. Sound(Empty) /\ Drawn(Empty, fresh')
    BY EmptySeq DEF Empty, Sound, Editor, Distinct, ActiveOpen, Drawn
  <2>5. Carried(Empty)
    BY <1>2, <2>1 DEF Carried
  <2>6. fresh' \in fresh..MaxFresh
    BY <1>1, Start
  <2>7. Commit(Empty)
    BY <1>1, <2>3
  <2> QED BY <1>2, <2>4, <2>5, <2>6, <2>7, CommitEdits
<1> QED BY <1>7, <1>8

\* An event at one of the tabs.
LEMMA TabEdits ==
    ASSUME IInv, NEW i \in Positions, TabStep(i) PROVE IsEdit
<1>1. CASE setActiveTabId(i) \/ duplicateTab(i) \/ closeTab(i)
           \/ closeOtherTabs(i) \/ closeTabsToRight(i)
  BY <1>1, SetActiveEdits, DuplicateEdits, CloseEdits, CloseOthersEdits, CloseRightEdits
<1>2. CASE \E j \in Positions : reorderTabs(i, j)
  BY <1>2, ReorderEdits
<1>3. CASE \E dirty \in BOOLEAN : setTabDirty(i, dirty)
  BY <1>3, DirtyEdits
<1>4. CASE \E cell \in Cells : FocusCell(i, cell)
  BY <1>4, FocusEdits
<1>5. CASE \E from, to \in conns : ChangePair(i, from, to)
  BY <1>5, PairEdits
<1> QED BY <1>1, <1>2, <1>3, <1>4, <1>5 DEF TabStep

-----------------------------------------------------------------------------
\* What follows from an edit.
LEMMA EditFacts ==
    ASSUME IInv, IsEdit
    PROVE  /\ IInv' /\ Scope' = Scope
           /\ \A s \in Scopes : s # Scope => store'[s] = store[s]
           /\ AtActive' \/ (~AtActive /\ editor'.active = editor.active)
           /\ \A i \in Positions :
                 editor.tabs[i].dirty /\ Valid(editor.tabs[i], conns', catalog') =>
                    asked' \/ editor.tabs[i].id \in IdsOf(editor'.tabs)
<1>1. PICK ed, h : Edits(ed, h)
  BY DEF IsEdit
<1>2. /\ Sound(ed) /\ Tidy(h) /\ Drawn(ed, fresh')
      /\ fresh' \in fresh..MaxFresh /\ asked' \in BOOLEAN
      /\ Leads(ed, h) /\ Carried(ed) /\ Render(ed, h)
  BY <1>1 DEF Edits
<1>3. IInv' /\ Scope' = Scope /\ \A s \in Scopes : s # Scope => store'[s] = store[s]
  BY <1>2, RenderKeeps
<1>4. /\ OnActive(h, ed) => At(nav', editor')
      /\ At(nav', editor') \/ editor'.active = h.prev
      /\ \A i \in DOMAIN ed.tabs :
            Valid(ed.tabs[i], conns', catalog') => ed.tabs[i].id \in IdsOf(editor'.tabs)
  <2>1. Shown(ed, h)
    BY <1>2 DEF Render
  <2> QED BY <1>2, <2>1, ShownFacts
<1>5. AtActive' \/ (~AtActive /\ editor'.active = editor.active)
  BY <1>2, <1>4 DEF Leads, At, AtActive
<1>6. \A i \in Positions :
         editor.tabs[i].dirty /\ Valid(editor.tabs[i], conns', catalog') =>
            asked' \/ editor.tabs[i].id \in IdsOf(editor'.tabs)
  BY <1>2, <1>4 DEF Carried
<1> QED BY <1>3, <1>5, <1>6

\* A history of open tabs is empty when none is active.
LEMMA ActiveSomewhere ==
    ASSUME NEW ed, Sound(ed), NEW h, Tidy(h), Among(h.entries, IdsOf(ed.tabs)),
           h.entries # <<>>
    PROVE  ed.active # Null
<1>1. h.cursor \in DOMAIN h.entries
  BY HistoryParts
<1>2. IdsOf(ed.tabs) # {}
  BY <1>1 DEF Among
<1>3. ed.tabs # <<>>
  BY <1>2 DEF IdsOf
<1>4. ed.active \in IdsOf(ed.tabs)
  BY <1>3 DEF Sound, ActiveOpen
<1>5. ed.active \in Id
  BY <1>4, EditorParts DEF Sound
<1> QED BY <1>5, NamesAssumption

\* The three things a step does, besides keeping the invariant.
Follows == AtActive' \/ (~AtActive /\ editor'.active = editor.active)
KeepsStaged ==
    \A i \in Positions : editor.tabs[i].dirty /\ Valid(editor.tabs[i], conns', catalog') =>
       asked' \/ editor.tabs[i].id \in IdsOf(editor'.tabs)

\* A step that shows an editor and writes the snapshot of the scope shown.
LEMMA ShownWritten ==
    ASSUME IInv, NEW ed, Sound(ed), NEW h, Tidy(h), Drawn(ed, fresh), Shown(ed, h),
           NEW kept \in [Scopes -> {Null} \cup Snapshots], Loadable(kept, fresh),
           NEW s, s = Scope', store' = [kept EXCEPT ![s] = Written(s)],
           conns' \subseteq Conns, catalog' \in [Conns -> {Null} \cup SUBSET Tables],
           defs' \in Seq(WorkspaceDef), choice' \in Choice, WorkspacesFit',
           saving' \in {Null} \cup Saving, SavingFits',
           fresh' = fresh, born' \in 0..MaxMoves, moves' \in 0..MaxMoves, asked' \in BOOLEAN
    PROVE  IInv' /\ \A r \in Scopes : r # s => store'[r] = kept[r]
<1>1. Drawn(ed, fresh') /\ Loadable(kept, fresh') /\ fresh' \in 0..MaxFresh
  BY Start
<1>2. View'
  BY <1>1, ShownFacts
<1>3. s \in Scopes
  BY ScopeFacts DEF WorkspacesFit, Scope
<1>4. store' \in [Scopes -> {Null} \cup Snapshots] /\ SnapshotsSound' /\ SnapshotCurrent'
  BY <1>1, <1>2, <1>3, WrittenCurrent
<1>5. \A r \in Scopes : r # s => store'[r] = kept[r]
  BY <1>1, <1>2, <1>3, WrittenCurrent
<1>6. TypeOK'
  BY <1>1, <1>2, <1>4, Types
<1> QED BY <1>2, <1>4, <1>5, <1>6 DEF IInv

\* What an editor and a history handed on by the current ones lead to.
LEMMA ShownFollows ==
    ASSUME IInv, NEW ed, Sound(ed), NEW h, Tidy(h), Drawn(ed, fresh), fresh' = fresh,
           Shown(ed, h)
    PROVE  /\ Leads(ed, h) => Follows
           /\ Carried(ed) => KeepsStaged
<1>1. /\ OnActive(h, ed) => At(nav', editor')
      /\ At(nav', editor') \/ editor'.active = h.prev
      /\ \A i \in DOMAIN ed.tabs :
            Valid(ed.tabs[i], conns', catalog') => ed.tabs[i].id \in IdsOf(editor'.tabs)
  <2>1. Drawn(ed, fresh')
    OBVIOUS
  <2> QED BY <2>1, ShownFacts
<1>2. Leads(ed, h) => Follows
  BY <1>1 DEF Leads, At, AtActive, Follows
<1>3. Carried(ed) => KeepsStaged
  BY <1>1 DEF Carried, KeepsStaged
<1> QED BY <1>2, <1>3

\* The tabs at hand are handed on as they are.
LEMMA AllKept == Carried(editor)
BY DEF Carried, Positions

-----------------------------------------------------------------------------
(* The connections and their tables *)

\* Deleting a connection, or loading the connections or the tables again, keeps
\* the invariant, stays in its scope and writes the snapshot of that one alone;
\* a staged tab goes only when the user is asked or what it shows is gone.
LEMMA SourceFacts ==
    ASSUME IInv, SourceStep
    PROVE  /\ IInv' /\ Scope' = Scope /\ Follows /\ KeepsStaged
           /\ \A s \in Scopes : s # Scope => store'[s] = store[s]
<1> DEFINE Goal == /\ IInv' /\ Scope' = Scope /\ Follows /\ KeepsStaged
                   /\ \A s \in Scopes : s # Scope => store'[s] = store[s]
<1>1. ASSUME NEW ed, Sound(ed), Drawn(ed, fresh), Carried(ed), Shown(ed, nav),
             store' = [store EXCEPT ![Scope] = Written(Scope)],
             conns' \subseteq Conns, catalog' \in [Conns -> {Null} \cup SUBSET Tables],
             UNCHANGED <<defs, choice, saving, fresh, born, moves>>, asked' \in BOOLEAN
      PROVE  Goal
  <2>1. Scope' = Scope
    BY <1>1 DEF Scope
  <2> DEFINE s == Scope
  <2>2. s = Scope' /\ store' = [store EXCEPT ![s] = Written(s)]
    BY <1>1, <2>1
  <2> HIDE DEF s
  <2>3. /\ store \in [Scopes -> {Null} \cup Snapshots] /\ Loadable(store, fresh) /\ Tidy(nav)
        /\ defs' \in Seq(WorkspaceDef) /\ choice' \in Choice /\ fresh' = fresh
        /\ born' \in 0..MaxMoves /\ moves' \in 0..MaxMoves /\ WorkspacesFit'
        /\ saving' \in {Null} \cup Saving /\ SavingFits'
    BY <1>1, Start DEF IInv, TypeOK, WorkspacesFit, SavingFits
  <2>4. IInv' /\ \A r \in Scopes : r # s => store'[r] = store[r]
    BY <1>1, <2>2, <2>3, ShownWritten
  <2>5. Leads(ed, nav) /\ Follows /\ KeepsStaged
    BY <1>1, <2>3, NavLeads, ShownFollows
  <2> QED BY <2>1, <2>4, <2>5 DEF s
<1> HIDE DEF Goal
<1>2. ASSUME NEW c \in conns, DeleteConnection(c) PROVE Goal
  <2> DEFINE S == {tab \in ToSet(editor.tabs) : ~Uses(tab, c)}
             ed == Keeping(editor, Kept(editor.tabs, S))
             lost == {i \in Positions : Uses(editor.tabs[i], c)}
  <2>1. /\ conns' = conns \ {c} /\ catalog' = [catalog EXCEPT ![c] = Null]
        /\ UNCHANGED <<defs, choice, saving, fresh, born, moves>> /\ Shown(ed, nav)
        /\ store' = [store EXCEPT ![Scope] = Written(Scope)] /\ Confirmed(lost)
    BY <1>2 DEF DeleteConnection
  <2>2. \A i \in Positions : editor.tabs[i] \in S <=> i \notin lost
    BY DEF Positions, ToSet
  <2>3. asked' \in BOOLEAN /\ \A i \in lost : editor.tabs[i].dirty => asked'
    BY <2>1, Consent
  <2> HIDE DEF S, lost
  <2>4. Sound(ed) /\ ToSet(ed.tabs) = ToSet(editor.tabs) \cap S
    BY Start, KeepingSound
  <2> HIDE DEF ed
  <2>5. Drawn(ed, fresh)
    BY <2>4, Start DEF Drawn, ToSet
  <2>6. \A i \in Positions : editor.tabs[i] \in S => \E j \in DOMAIN ed.tabs : ed.tabs[j] = editor.tabs[i]
    BY <2>4 DEF ToSet, Positions
  <2>7. Carried(ed)
    BY <2>2, <2>3, <2>6 DEF Carried
  <2>8. conns' \subseteq Conns /\ catalog' \in [Conns -> {Null} \cup SUBSET Tables]
    BY <2>1, Start DEF IInv, TypeOK
  <2> QED BY <1>1, <2>1, <2>3, <2>4, <2>5, <2>7, <2>8
<1>3. ASSUME NEW cs \in SUBSET Conns, NEW cat \in [Conns -> {Null} \cup SUBSET Tables],
             Refetch(cs, cat)
      PROVE  Goal
  <2>1. /\ conns' = cs /\ catalog' = cat /\ UNCHANGED <<defs, choice, saving, fresh, born, moves>>
        /\ Shown(editor, nav) /\ store' = [store EXCEPT ![Scope] = Written(Scope)]
        /\ asked' = FALSE
    BY <1>3 DEF Refetch
  <2>2. conns' \subseteq Conns /\ catalog' \in [Conns -> {Null} \cup SUBSET Tables]
    BY <2>1
  <2> QED BY <1>1, <2>1, <2>2, Start, AllKept
<1>4. ASSUME NEW cs \in SUBSET Conns, LoadConnections(cs) PROVE Goal
  <2> DEFINE cat == [c \in Conns |-> IF c \in cs THEN catalog[c] ELSE Null]
  <2>1. cat \in [Conns -> {Null} \cup SUBSET Tables]
    BY DEF IInv, TypeOK
  <2>2. Refetch(cs, cat)
    BY <1>4 DEF LoadConnections
  <2> HIDE DEF cat
  <2> QED BY <1>3, <2>1, <2>2
<1>5. ASSUME NEW c \in conns, NEW ts \in SUBSET Tables, LoadTables(c, ts) PROVE Goal
  <2> DEFINE cat == [catalog EXCEPT ![c] = ts]
  <2>1. cat \in [Conns -> {Null} \cup SUBSET Tables] /\ conns \in SUBSET Conns
    BY Start DEF IInv, TypeOK
  <2>2. Refetch(conns, cat)
    BY <1>5 DEF LoadTables
  <2> HIDE DEF cat
  <2> QED BY <1>3, <2>1, <2>2
<1> QED BY <1>2, <1>4, <1>5 DEF SourceStep, Goal

-----------------------------------------------------------------------------
(* Loading a snapshot *)

\* What is loaded for a scope is sound, and leads on when the snapshot is whole.
LEMMA SavedFacts ==
    ASSUME IInv, NEW s \in Scopes, NEW missing, Sound(missing), Drawn(missing, fresh),
           NEW allowed
    PROVE  LET ed == scopeWorkspaceSnapshot(SavedEditor(s, missing), allowed)
           IN /\ Sound(ed) /\ Drawn(ed, fresh) /\ Tidy(SavedHistory(s))
              /\ Whole(s) => OnActive(SavedHistory(s), ed)
              /\ scopeWorkspaceSnapshot(ed, allowed) = ed
<1> DEFINE ed == scopeWorkspaceSnapshot(SavedEditor(s, missing), allowed)
<1>1. store[s] \in {Null} \cup Snapshots /\ store[s] # Null =>
         /\ Sound(store[s].editor) /\ Drawn(store[s].editor, fresh)
         /\ Fits(store[s].entries, store[s].cursor)
  BY Start DEF Loadable, Scopes
<1>2. Sound(SavedEditor(s, missing)) /\ Drawn(SavedEditor(s, missing), fresh)
  BY <1>1, Start DEF SavedEditor
<1>3. Sound(ed) /\ Drawn(ed, fresh) /\ scopeWorkspaceSnapshot(ed, allowed) = ed
  <2>1. Sound(ed) /\ scopeWorkspaceSnapshot(ed, allowed) = ed
    BY <1>2, ScopedSound
  <2>2. Drawn(ed, fresh)
    BY <1>2, ScopedSound
  <2> QED BY <2>1, <2>2
<1> HIDE DEF ed
<1>4. CASE store[s] = Null
  <2>1. SavedHistory(s) = emptyNavigationHistory
    BY <1>4 DEF SavedHistory
  <2>2. Tidy(emptyNavigationHistory)
    BY EmptySeq, BoundsAssumption DEF emptyNavigationHistory, Tidy, History, Fits
  <2>3. OnActive(SavedHistory(s), ed)
    BY <2>1 DEF emptyNavigationHistory, OnActive, At
  <2> QED BY <1>3, <2>1, <2>2, <2>3 DEF ed
<1>5. CASE store[s] # Null
  <2> DEFINE h == SavedHistory(s)
  <2>1. store[s] \in Snapshots
    BY <1>5, Start
  <2>2. h = [entries |-> store[s].entries, cursor |-> store[s].cursor,
             prev |-> store[s].editor.active]
    BY <1>5 DEF SavedHistory
  <2> HIDE DEF h
  <2>3. h.entries = store[s].entries /\ h.cursor = store[s].cursor /\ h.prev = store[s].editor.active
    BY <2>2
  <2>4. h.entries \in Seq(Location) /\ h.cursor \in Nat /\ h.prev \in Id \cup {Null}
    BY <2>1, <2>3 DEF Snapshots, Editor
  <2>5. Fits(h.entries, h.cursor)
    BY <1>5, <2>3, Start DEF Loadable, Scopes
  <2>6. Tidy(h)
    BY <2>2, <2>3, <2>4, <2>5 DEF Tidy, History
  <2>7. Whole(s) => OnActive(h, ed)
    BY <1>5, <2>3 DEF Whole, OnActive, At
  <2> QED BY <1>3, <2>6, <2>7 DEF h, ed
<1> QED BY <1>4, <1>5

\* The snapshot of the scope shown leads on when it is whole, whatever of the
\* tabs shown is scoped away.
LEMMA WholeLeads ==
    ASSUME NEW ed PROVE Whole(Scope) => OnActive(SavedHistory(Scope), ed)
<1> DEFINE s == Scope
           h == SavedHistory(s)
<1>1. CASE store[s] = Null
  <2>1. h.entries = <<>>
    BY <1>1 DEF SavedHistory, emptyNavigationHistory
  <2> QED BY <2>1 DEF OnActive, At
<1>2. CASE store[s] # Null
  <2>1. h = [entries |-> store[s].entries, cursor |-> store[s].cursor,
             prev |-> store[s].editor.active]
    BY <1>2 DEF SavedHistory
  <2>2. h.entries = store[s].entries /\ h.cursor = store[s].cursor /\ h.prev = store[s].editor.active
    BY <2>1
  <2> HIDE DEF h, s
  <2>3. Whole(s) => OnActive(h, ed)
    BY <1>2, <2>2 DEF Whole, OnActive, At
  <2> QED BY <2>3 DEF h, s
<1> QED BY <1>1, <1>2

\* An editor without tabs is sound.
LEMMA EmptySound == Sound(Empty) /\ \A n : Drawn(Empty, n)
BY EmptySeq DEF Empty, Sound, Editor, Distinct, ActiveOpen, Drawn

\* Leaving a scope saves it, and it alone.
LEMMA SavedScopeFacts ==
    ASSUME IInv
    PROVE  /\ SavedScope \in [Scopes -> {Null} \cup Snapshots] /\ Loadable(SavedScope, fresh)
           /\ \A r \in Scopes : r # Scope => SavedScope[r] = store[r]
<1> DEFINE new == Snapshot(editor, nav, selectWorkspaceConnections(conns, defs, Scope))
           s == Scope
<1>1. /\ new \in Snapshots /\ Sound(new.editor) /\ Fits(new.entries, new.cursor)
      /\ Drawn(new.editor, fresh)
  <2> DEFINE allowed == selectWorkspaceConnections(conns, defs, Scope)
  <2> HIDE DEF allowed
  <2> DEFINE snap == Snapshot(editor, nav, allowed)
  <2>1. snap \in Snapshots /\ Sound(snap.editor) /\ Fits(snap.entries, snap.cursor)
    BY Start, SnapshotFacts
  <2>2. Drawn(snap.editor, fresh)
    BY Start, SnapshotFacts
  <2> QED BY <2>1, <2>2 DEF allowed
<1>2. SavedScope = [store EXCEPT ![s] = new]
  BY DEF SavedScope
<1>3. s \in Scopes /\ store \in [Scopes -> {Null} \cup Snapshots] /\ Loadable(store, fresh)
  BY Start
<1> HIDE DEF new, s
<1>4. SavedScope \in [Scopes -> {Null} \cup Snapshots] /\ SavedScope[s] = new
      /\ \A r \in Scopes : r # s => SavedScope[r] = store[r]
  BY <1>1, <1>2, <1>3
<1>5. Loadable(SavedScope, fresh)
  BY <1>1, <1>3, <1>4 DEF Loadable, Scopes
<1> QED BY <1>4, <1>5 DEF s

\* The workspaces with a new one at the end.
LEMMA AppendedDefs ==
    ASSUME IInv, NEW members \in SUBSET Conns, born + 1 \in Workspaces
    PROVE  LET ds == Append(defs, [id |-> born + 1, members |-> members])
           IN /\ ds \in Seq(WorkspaceDef) /\ ds # <<>> /\ Len(ds) > Len(defs)
              /\ \A i, j \in DOMAIN ds : i # j => ds[i].id # ds[j].id
              /\ \A i \in DOMAIN ds : ds[i].id <= born + 1
              /\ WorkspaceIds(ds) = WorkspaceIds(defs) \cup {born + 1}
              /\ Head(ds) = Head(defs)
<1> DEFINE d == [id |-> born + 1, members |-> members]
           ds == Append(defs, d)
           n == Len(defs)
<1>1. /\ defs \in Seq(WorkspaceDef) /\ defs # <<>> /\ born \in Nat
      /\ \A i \in DOMAIN defs : defs[i].id <= born
      /\ \A i, j \in DOMAIN defs : i # j => defs[i].id # defs[j].id
  BY Start, BoundsAssumption DEF IInv, WorkspacesFit, TypeOK
<1>2. n \in Nat /\ DOMAIN defs = 1..n /\ n # 0
  BY <1>1, LenProperties, EmptySeq
<1>3. d \in WorkspaceDef /\ d.id = born + 1
  BY DEF WorkspaceDef
<1> HIDE DEF d, n
<1>4. /\ ds \in Seq(WorkspaceDef) /\ Len(ds) = n + 1
      /\ \A i \in 1..n : ds[i] = defs[i]
      /\ ds[n + 1] = d
  BY <1>1, <1>3, AppendProperties DEF n
<1> HIDE DEF ds
<1>5. DOMAIN ds = 1..(n + 1) /\ ds # <<>>
  BY <1>2, <1>4, LenProperties, EmptySeq
<1>6. \A i \in DOMAIN ds : i \in 1..n \/ i = n + 1
  BY <1>2, <1>5
<1>7. \A i \in 1..n : defs[i].id \in Nat /\ defs[i].id # born + 1
  <2>1. \A i \in 1..n : defs[i] \in WorkspaceDef
    BY <1>1, <1>2, ElementOfSeq DEF n
  <2>2. Workspaces \subseteq Nat
    BY BoundsAssumption DEF Workspaces
  <2>3. \A i \in 1..n : defs[i].id \in Nat /\ defs[i].id <= born
    BY <1>1, <1>2, <2>1, <2>2 DEF WorkspaceDef
  <2> QED BY <1>1, <2>3
<1>8. \A i, j \in DOMAIN ds : i # j => ds[i].id # ds[j].id
  BY <1>1, <1>2, <1>3, <1>4, <1>6, <1>7
<1>9. \A i \in DOMAIN ds : ds[i].id <= born + 1
  BY <1>1, <1>2, <1>3, <1>4, <1>6, <1>7
<1>10. WorkspaceIds(ds) = WorkspaceIds(defs) \cup {born + 1}
  <2>1. 1..n \subseteq DOMAIN ds /\ n + 1 \in DOMAIN ds
    BY <1>2, <1>5
  <2> QED BY <1>2, <1>3, <1>4, <1>6, <2>1 DEF WorkspaceIds
<1>11. Head(ds) = Head(defs)
  <2>1. Head(ds) = ds[1] /\ Head(defs) = defs[1] /\ 1 \in 1..n
    BY <1>1, <1>2, <1>4, <1>5
  <2> QED BY <2>1, <1>4
<1>12. Len(ds) > Len(defs)
  BY <1>2, <1>4 DEF n
<1> QED BY <1>4, <1>5, <1>8, <1>9, <1>10, <1>11, <1>12 DEF ds, d

\* The workspaces without one of them.
LEMMA WithoutDefs ==
    ASSUME IInv, NEW w
    PROVE  LET ds == Without(defs, w)
           IN /\ ds \in Seq(WorkspaceDef) /\ Len(ds) <= Len(defs)
              /\ \A i, j \in DOMAIN ds : i # j => ds[i].id # ds[j].id
              /\ \A i \in DOMAIN ds : ds[i].id <= born
              /\ WorkspaceIds(ds) = WorkspaceIds(defs) \ {w}
              /\ Head(defs).id # w => ds # <<>> /\ Head(ds) = Head(defs)
<1> DEFINE S == {d \in ToSet(defs) : d.id # w}
           ds == Kept(defs, S)
<1>1. /\ defs \in Seq(WorkspaceDef) /\ defs # <<>>
      /\ \A i \in DOMAIN defs : defs[i].id <= born
      /\ \A i, j \in DOMAIN defs : i # j => defs[i].id # defs[j].id
      /\ Len(defs) \in Nat /\ 1 \in DOMAIN defs /\ Head(defs) = defs[1]
  BY Start, ScopeFacts, LenProperties DEF IInv, WorkspacesFit
<1>2. Without(defs, w) = ds
  BY DEF Without
<1>3. \A i \in DOMAIN defs : defs[i] \in S <=> defs[i].id # w
  BY DEF ToSet
<1>4. ToSet(defs) \cap S = {d \in ToSet(defs) : d.id # w}
  OBVIOUS
<1> HIDE DEF S
<1>5. ds \in Seq(WorkspaceDef) /\ ToSet(ds) = ToSet(defs) \cap S
  BY <1>1, KeptElements
<1>6. \A i, j \in DOMAIN ds : i # j =>
         \E a, b \in DOMAIN defs : a # b /\ ds[i] = defs[a] /\ ds[j] = defs[b]
  BY <1>1, KeptElements
<1>7. Len(ds) <= Len(defs)
  <2>1. Len(ds) = Rank(defs, S, Len(defs))
    BY <1>1, KeptRanks
  <2>2. Rank(defs, S, Len(defs)) <= Len(defs)
    BY <1>1, RankStep
  <2> QED BY <2>1, <2>2
<1>8. Head(defs).id # w => ds # <<>> /\ Head(ds) = Head(defs)
  <2> SUFFICES ASSUME Head(defs).id # w PROVE ds # <<>> /\ Head(ds) = Head(defs)
    OBVIOUS
  <2>1. defs[1] \in S
    BY <1>1, <1>3
  <2>2. ds # <<>> /\ ds[1] = defs[1]
    BY <1>1, <2>1, KeptFirst
  <2> HIDE DEF ds
  <2>3. Head(ds) = ds[1]
    BY <1>5, <2>2
  <2> QED BY <1>1, <2>2, <2>3
<1> HIDE DEF ds
<1>9. \A i, j \in DOMAIN ds : i # j => ds[i].id # ds[j].id
  BY <1>1, <1>6
<1>10. \A i \in DOMAIN ds : ds[i].id <= born
  BY <1>1, <1>5 DEF ToSet
<1>11. WorkspaceIds(ds) = WorkspaceIds(defs) \ {w}
  <2>1. WorkspaceIds(ds) = {d.id : d \in ToSet(ds)} /\ WorkspaceIds(defs) = {d.id : d \in ToSet(defs)}
    BY DEF WorkspaceIds, ToSet
  <2> QED BY <1>4, <1>5, <2>1
<1> QED BY <1>2, <1>5, <1>7, <1>8, <1>9, <1>10, <1>11

\* The scope shown follows a change of the workspaces.
LEMMA FollowFacts ==
    ASSUME IInv, NEW kept \in [Scopes -> {Null} \cup Snapshots], Loadable(kept, fresh),
           FollowWorkspaces(kept), WorkspacesFit',
           saving' \in {Null} \cup Saving, SavingFits', defs' \in Seq(WorkspaceDef), choice' \in Choice,
           born' \in 0..MaxMoves, moves' \in 0..MaxMoves, asked' \in BOOLEAN
    PROVE  /\ IInv' /\ \A r \in Scopes : r # Scope' => store'[r] = kept[r]
           /\ Follows \/ ~Whole(Scope')
           /\ Scope' = Scope => KeepsStaged
<1> DEFINE s == Scope'
           ed == scopeWorkspaceSnapshot(SavedEditor(s, Empty),
                                        selectWorkspaceConnections(conns, defs', s))
           h == SavedHistory(s)
<1>1. /\ UNCHANGED <<conns, catalog, fresh>>
      /\ s = Scope => Shown(editor, nav)
      /\ s # Scope => Shown(ed, h)
      /\ store' = [kept EXCEPT ![s] = Written(s)]
  BY DEF FollowWorkspaces, RestoreScope, Scope
<1>2. s \in Scopes
  BY ScopeFacts DEF WorkspacesFit, Scope
<1>3. Sound(ed) /\ Drawn(ed, fresh) /\ Tidy(h) /\ (Whole(s) => OnActive(h, ed))
  <2> DEFINE allowed == selectWorkspaceConnections(conns, defs', s)
             e == scopeWorkspaceSnapshot(SavedEditor(s, Empty), allowed)
  <2> HIDE DEF allowed, s
  <2>1. Sound(e) /\ Drawn(e, fresh) /\ Tidy(SavedHistory(s))
    BY <1>2, EmptySound, SavedFacts
  <2>2. Whole(s) => OnActive(SavedHistory(s), e)
    BY <1>2, EmptySound, SavedFacts
  <2> QED BY <2>1, <2>2 DEF allowed
<1>4. s = Scope'
  OBVIOUS
<1>5. conns' \subseteq Conns /\ catalog' \in [Conns -> {Null} \cup SUBSET Tables] /\ fresh' = fresh
  BY <1>1, Start DEF IInv, TypeOK
<1> HIDE DEF s, ed, h
<1>6. CASE s = Scope
  <2>1. Shown(editor, nav)
    BY <1>1, <1>6
  <2>2. IInv' /\ \A r \in Scopes : r # s => store'[r] = kept[r]
    BY <1>1, <1>4, <1>5, <2>1, Start, ShownWritten
  <2>3. Follows /\ KeepsStaged
    BY <1>5, <2>1, Start, NavLeads, AllKept, ShownFollows
  <2> QED BY <1>4, <2>2, <2>3
<1>7. CASE s # Scope
  <2>1. Shown(ed, h)
    BY <1>1, <1>7
  <2>2. IInv' /\ \A r \in Scopes : r # s => store'[r] = kept[r]
    BY <1>1, <1>3, <1>4, <1>5, <2>1, ShownWritten
  <2>3. Whole(s) => Follows
    BY <1>3, <1>5, <2>1, ShownFollows DEF Leads
  <2> QED BY <1>4, <1>7, <2>2, <2>3
<1> QED BY <1>6, <1>7

-----------------------------------------------------------------------------
(* Changes of the scope and of the workspaces *)

\* The workspace shown is gone from the workspaces, by another session's hand.
Gone == ~choice.all /\ ActiveId(defs, choice) \notin WorkspaceIds(defs')
Evicted == (\E ds \in ElsewhereChanged : LoadWorkspaces(ds)) /\ Gone

\* The answer to a change that was to leave the scope, or to one asked for in
\* a scope that the user has left since.
Late == WorkspacesSaved /\ (saving.changes \/ saving.scope # Scope)

\* What a change of the scope or of the workspaces does.
Moved ==
    /\ IInv'
    /\ Follows \/ ~Whole(Scope')
    /\ KeepsStaged \/ Evicted \/ Late
    /\ \A r \in Scopes : r \notin {Scope, Scope'} => store'[r] \in {store[r], Null}

\* The counters of the changes of the scope stay within their bounds.
LEMMA MoveFacts ==
    ASSUME IInv, Move
    PROVE  /\ moves' = moves + 1 /\ moves' \in 0..MaxMoves /\ born \in 0..MaxMoves
           /\ born <= moves' /\ born + 1 <= moves'
           /\ born + 1 \in Workspaces /\ born + 1 \in 0..MaxMoves /\ Workspaces \subseteq Nat
<1>1. /\ moves \in 0..MaxMoves /\ born \in 0..MaxMoves /\ born <= moves
      /\ moves < MaxMoves /\ moves' = moves + 1 /\ MaxMoves \in Nat
  BY BoundsAssumption DEF Move, IInv, TypeOK, WorkspacesFit
<1> QED BY <1>1 DEF Workspaces

\* The user is asked about every tab.
LEMMA AskedAll ==
    ASSUME IInv, Confirmed(Positions) PROVE asked' \in BOOLEAN /\ KeepsStaged
BY Consent DEF KeepsStaged

\* Asking for a change of the workspaces saves the scope shown, and shows and
\* chooses nothing else (App.tsx, mutateNamedWorkspace up to the await).
LEMMA BeginMoves ==
    ASSUME IInv, NEW next \in Saving, BeginSave(next), born' \in {born, born + 1}, SavingFits'
    PROVE  Moved
<1>1. /\ Move /\ saving' = next /\ store' = SavedScope
      /\ UNCHANGED <<conns, catalog, editor, nav, defs, choice, fresh>>
      /\ Confirmed(IF next.changes THEN Positions ELSE {})
  BY DEF BeginSave
<1>2. /\ moves' \in 0..MaxMoves /\ born' \in 0..MaxMoves /\ born' <= moves' /\ born <= born'
      /\ born \in Nat /\ Workspaces \subseteq Nat
  BY <1>1, MoveFacts, BoundsAssumption
<1>3. asked' \in BOOLEAN
  BY <1>1, Consent
<1>4. View' /\ Follows /\ KeepsStaged
  <2>1. View' /\ (AtActive' <=> AtActive)
    BY <1>1 DEF IInv, View, Positions, AtActive
  <2>2. KeepsStaged
    BY <1>1 DEF KeepsStaged, Positions, IdsOf
  <2> QED BY <1>1, <2>1, <2>2 DEF Follows
<1> DEFINE s == Scope
<1>5. s \in Scopes /\ s = Scope' /\ store' = [store EXCEPT ![s] = Written(s)]
  BY <1>1, Start DEF Scope, SavedScope, Written
<1>6. store \in [Scopes -> {Null} \cup Snapshots] /\ Loadable(store, fresh')
  BY <1>1, Start
<1> HIDE DEF s
<1>7. store' \in [Scopes -> {Null} \cup Snapshots] /\ SnapshotsSound' /\ SnapshotCurrent'
  BY <1>4, <1>5, <1>6, WrittenCurrent
<1>8. \A r \in Scopes : r # s => store'[r] = store[r]
  BY <1>4, <1>5, <1>6, WrittenCurrent
<1>9. /\ defs' \in Seq(WorkspaceDef) /\ choice' \in Choice /\ fresh' \in 0..MaxFresh
      /\ conns' \subseteq Conns /\ catalog' \in [Conns -> {Null} \cup SUBSET Tables]
  BY <1>1, Start DEF IInv, TypeOK
<1>10. WorkspacesFit'
  <2>1. \A i \in DOMAIN defs : defs[i].id \in Nat /\ defs[i].id <= born
    BY <1>2, Start, ScopeFacts DEF IInv, WorkspacesFit
  <2>2. choice.active \in Nat /\ choice.active <= born
    BY <1>2, Start DEF IInv, WorkspacesFit, Choice
  <2>3. born' \in Nat
    BY <1>2
  <2>4. /\ \A i \in DOMAIN defs : defs[i].id <= born'
        /\ choice.active <= born'
    BY <1>2, <2>1, <2>2, <2>3
  <2> QED BY <1>1, <1>2, <2>4 DEF IInv, WorkspacesFit
<1>11. TypeOK'
  BY <1>1, <1>2, <1>3, <1>4, <1>7, <1>9, Types
<1> QED BY <1>4, <1>5, <1>7, <1>8, <1>10, <1>11 DEF Moved, IInv, s

\* Asking for a new workspace.
LEMMA CreateMoves ==
    ASSUME IInv, NEW members \in SUBSET Conns, CreateWorkspace(members) PROVE Moved
<1> DEFINE ds == Append(defs, [id |-> born + 1, members |-> members])
           ch == [active |-> born + 1, all |-> FALSE]
           next == [defs |-> ds, choice |-> ch, removed |-> FALSE, forget |-> {},
                    scope |-> Scope, changes |-> TRUE]
<1>1. born' = born + 1 /\ BeginSave(next)
  BY DEF CreateWorkspace
<1>2. Move /\ saving' = next
  BY <1>1 DEF BeginSave
<1>3. born + 1 \in Workspaces /\ Workspaces \subseteq Nat
  BY <1>2, MoveFacts
<1>4. /\ ds \in Seq(WorkspaceDef) /\ ds # <<>>
      /\ \A i, j \in DOMAIN ds : i # j => ds[i].id # ds[j].id
      /\ \A i \in DOMAIN ds : ds[i].id <= born + 1
  <2>1. ds \in Seq(WorkspaceDef) /\ ds # <<>>
    BY <1>3, AppendedDefs
  <2>2. \A i, j \in DOMAIN ds : i # j => ds[i].id # ds[j].id
    BY <1>3, AppendedDefs
  <2>3. \A i \in DOMAIN ds : ds[i].id <= born + 1
    BY <1>3, AppendedDefs
  <2> QED BY <2>1, <2>2, <2>3
<1>5. ch \in Choice /\ ch.active = born + 1 /\ born + 1 <= born + 1
  <2>1. ch \in Choice /\ ch.active = born + 1
    BY <1>3 DEF Choice
  <2>2. born + 1 \in Nat
    BY <1>3
  <2> QED BY <2>1, <2>2
<1> HIDE DEF ds, ch
<1>6. next \in Saving
  BY <1>4, <1>5, Start DEF Saving, Definitions, WorkspaceDef, Scopes
<1>7. next.defs = ds /\ next.choice = ch /\ next.changes = TRUE
  OBVIOUS
<1> HIDE DEF next
<1>8. SavingFits'
  BY <1>1, <1>2, <1>4, <1>5, <1>7 DEF SavingFits
<1> QED BY <1>1, <1>6, <1>8, BeginMoves

\* Asking for a workspace to be deleted: the choice falls to the first one left
\* only when the one chosen goes.
LEMMA DeleteMoves ==
    ASSUME IInv, NEW w \in Workspaces, DeleteWorkspace(w) PROVE Moved
<1> DEFINE active == ActiveId(defs, choice)
           left == Without(defs, w)
           ch == [choice EXCEPT !.active = IF w = active THEN Head(left).id ELSE active]
           next == [defs |-> left, choice |-> ch, removed |-> FALSE, forget |-> {w},
                    scope |-> Scope, changes |-> w = active]
<1>1. born' = born /\ w \in WorkspaceIds(defs) /\ Len(defs) > 1 /\ BeginSave(next)
  BY DEF DeleteWorkspace
<1>2. saving' = next
  BY <1>1 DEF BeginSave
<1>3. /\ left \in Seq(WorkspaceDef)
      /\ \A i, j \in DOMAIN left : i # j => left[i].id # left[j].id
      /\ \A i \in DOMAIN left : left[i].id <= born
      /\ WorkspaceIds(left) = WorkspaceIds(defs) \ {w}
  <2>1. left \in Seq(WorkspaceDef) /\ WorkspaceIds(left) = WorkspaceIds(defs) \ {w}
    BY WithoutDefs
  <2>2. \A i, j \in DOMAIN left : i # j => left[i].id # left[j].id
    BY WithoutDefs
  <2>3. \A i \in DOMAIN left : left[i].id <= born
    BY WithoutDefs
  <2> QED BY <2>1, <2>2, <2>3
<1>4. /\ choice \in Choice /\ active \in WorkspaceIds(defs) /\ WorkspaceIds(defs) \subseteq Workspaces
      /\ defs \in Seq(WorkspaceDef) /\ Scope \in Scopes
      /\ Scope = IF choice.all THEN All ELSE active
  BY Start DEF Scope, ScopeId
<1>5. left # <<>>
  <2>1. 1 \in DOMAIN defs /\ 2 \in DOMAIN defs
    <3>1. DOMAIN defs = 1..Len(defs) /\ Len(defs) \in Nat
      BY <1>4, LenProperties
    <3> QED BY <1>1, <3>1
  <2>2. defs[1].id # defs[2].id
    BY <2>1 DEF IInv, WorkspacesFit
  <2>3. WorkspaceIds(left) # {}
    <3> HIDE DEF left
    <3>1. defs[1].id \in WorkspaceIds(defs) /\ defs[2].id \in WorkspaceIds(defs)
      BY <2>1 DEF WorkspaceIds
    <3> QED BY <1>3, <2>2, <3>1
  <2> HIDE DEF left
  <2> QED BY <2>3 DEF WorkspaceIds
<1> HIDE DEF left, active
<1>6. 1 \in DOMAIN left /\ Head(left) = left[1]
  BY <1>3, <1>4, <1>5, ScopeFacts
<1>7. (IF w = active THEN Head(left).id ELSE active) \in WorkspaceIds(left)
  BY <1>3, <1>4, <1>6 DEF WorkspaceIds
<1>8. /\ ch \in Choice /\ ch.active \in WorkspaceIds(left) /\ ch.active <= born
      /\ ch.all = choice.all /\ (w # active => ch.active = active)
  <2>1. /\ ch.active = (IF w = active THEN Head(left).id ELSE active)
        /\ ch.all = choice.all /\ ch \in Choice
    BY <1>3, <1>4, <1>7 DEF Choice
  <2>2. \A x \in WorkspaceIds(left) : x <= born
    BY <1>3 DEF WorkspaceIds
  <2> HIDE DEF ch
  <2> QED BY <1>7, <2>1, <2>2
<1> HIDE DEF ch
<1>9. w # active => ScopeId(left, ch) = Scope
  BY <1>4, <1>8 DEF ScopeId, ActiveId
<1>10. next \in Saving
  BY <1>3, <1>4, <1>8 DEF Saving, Definitions, WorkspaceDef, Scopes
<1>11. /\ next.defs = left /\ next.choice = ch /\ next.removed = FALSE
       /\ next.scope = Scope /\ next.changes = (w = active)
  OBVIOUS
<1> HIDE DEF next
<1>12. SavingFits'
  BY <1>1, <1>2, <1>3, <1>5, <1>8, <1>9, <1>11 DEF SavingFits
<1> QED BY <1>1, <1>10, <1>12, BeginMoves

\* Another session has created or deleted a workspace: the scope shown changes
\* only when the workspace shown is the one that is gone.
LEMMA LoadMoves ==
    ASSUME IInv, NEW ds \in ElsewhereChanged, LoadWorkspaces(ds) PROVE Moved
<1>1. /\ Move /\ born' = IF Len(ds) > Len(defs) THEN born + 1 ELSE born
      /\ defs' = ds /\ asked' = FALSE /\ choice' = choice /\ saving' = saving
      /\ FollowWorkspaces(store)
  BY DEF LoadWorkspaces
<1>2. /\ moves' \in 0..MaxMoves /\ born \in 0..MaxMoves /\ born <= moves' /\ born + 1 <= moves'
      /\ born + 1 \in Workspaces /\ born + 1 \in 0..MaxMoves /\ Workspaces \subseteq Nat
  BY <1>1, MoveFacts
<1>3. /\ choice \in Choice /\ choice.active <= born /\ choice.active \in Nat
      /\ defs \in Seq(WorkspaceDef) /\ Len(defs) \in Nat /\ defs # <<>>
      /\ store \in [Scopes -> {Null} \cup Snapshots] /\ Loadable(store, fresh)
  BY <1>2, Start, LenProperties DEF IInv, WorkspacesFit, Choice
<1> DEFINE Fit == /\ ds \in Seq(WorkspaceDef) /\ ds # <<>>
                  /\ \A i, j \in DOMAIN ds : i # j => ds[i].id # ds[j].id
                  /\ \A i \in DOMAIN ds : ds[i].id <= born'
                  /\ born' \in 0..MaxMoves /\ born' <= moves' /\ choice.active <= born'
           Lost == ScopeId(ds, choice) # Scope => Gone
<1>4. ASSUME \E w \in WorkspaceIds(defs) : ds = Without(defs, w) /\ ds # <<>>
      PROVE  Fit /\ Lost
  <2>1. PICK w \in WorkspaceIds(defs) : ds = Without(defs, w) /\ ds # <<>>
    BY <1>4
  <2>2. /\ ds \in Seq(WorkspaceDef) /\ Len(ds) <= Len(defs)
        /\ \A i, j \in DOMAIN ds : i # j => ds[i].id # ds[j].id
        /\ \A i \in DOMAIN ds : ds[i].id <= born
        /\ WorkspaceIds(ds) = WorkspaceIds(defs) \ {w}
        /\ Head(defs).id # w => ds # <<>> /\ Head(ds) = Head(defs)
    BY <2>1, WithoutDefs
  <2>3. born' = born
    <3>1. Len(ds) \in Nat
      BY <2>2, LenProperties
    <3> QED BY <1>1, <1>3, <2>2, <3>1
  <2>4. Fit
    BY <1>2, <1>3, <2>1, <2>2, <2>3
  <2>5. Lost
    <3>1. Head(ds).id \in WorkspaceIds(ds)
      <4>1. 1 \in DOMAIN ds /\ Head(ds) = ds[1]
        BY <2>1, <2>2, <1>3, ScopeFacts
      <4> QED BY <4>1 DEF WorkspaceIds
    <3>2. Head(defs).id \in WorkspaceIds(defs)
      <4>1. 1 \in DOMAIN defs /\ Head(defs) = defs[1]
        BY <1>3, ScopeFacts
      <4> QED BY <4>1 DEF WorkspaceIds
    <3> QED BY <1>1, <2>2, <3>1, <3>2 DEF Gone, Scope, ScopeId, ActiveId
  <2> QED BY <2>4, <2>5
<1>5. ASSUME \E c \in Conns : ds = Append(defs, [id |-> born + 1, members |-> {c}])
      PROVE  Fit /\ Lost
  <2>1. PICK c \in Conns : ds = Append(defs, [id |-> born + 1, members |-> {c}])
    BY <1>5
  <2>2. {c} \in SUBSET Conns
    OBVIOUS
  <2>3. /\ ds \in Seq(WorkspaceDef) /\ ds # <<>> /\ Len(ds) > Len(defs)
        /\ \A i, j \in DOMAIN ds : i # j => ds[i].id # ds[j].id
        /\ \A i \in DOMAIN ds : ds[i].id <= born + 1
        /\ WorkspaceIds(ds) = WorkspaceIds(defs) \cup {born + 1}
        /\ Head(ds) = Head(defs)
    BY <1>2, <2>1, <2>2, AppendedDefs
  <2>4. born' = born + 1
    BY <1>1, <2>3
  <2>5. Fit
    BY <1>2, <1>3, <2>3, <2>4
  <2>6. Lost
    <3>1. choice.active # born + 1
      BY <1>2, <1>3
    <3> QED BY <2>3, <3>1 DEF Gone, Scope, ScopeId, ActiveId
  <2> QED BY <2>5, <2>6
<1> HIDE DEF Fit, Lost
<1>6. Fit /\ Lost
  BY <1>4, <1>5 DEF ElsewhereChanged
<1>7. WorkspacesFit' /\ defs' \in Seq(WorkspaceDef) /\ choice' \in Choice /\ born' \in 0..MaxMoves
  BY <1>1, <1>3, <1>6 DEF WorkspacesFit, Fit
<1>8. Scope' = ScopeId(ds, choice) /\ SavingFits' /\ saving' \in {Null} \cup Saving
  <2>1. born' \in Nat /\ born <= born'
    BY <1>1, <1>2
  <2> QED BY <1>1, <2>1, SavingLater DEF Scope
<1>9. IInv' /\ (\A r \in Scopes : r # Scope' => store'[r] = store[r])
      /\ (Follows \/ ~Whole(Scope')) /\ (Scope' = Scope => KeepsStaged)
  BY <1>1, <1>2, <1>3, <1>7, <1>8, FollowFacts
<1> QED BY <1>6, <1>8, <1>9 DEF Moved, Lost, Evicted

\* Asking for other members of a workspace: the ids stay what they are.
LEMMA UpdateMoves ==
    ASSUME IInv, NEW w \in Workspaces, NEW members \in SUBSET Conns, UpdateWorkspace(w, members)
    PROVE  Moved
<1> DEFINE removed == w = Scope /\ ~(MembersOf(defs, w) \subseteq members)
           ds == [i \in DOMAIN defs |->
                    IF defs[i].id = w THEN [id |-> w, members |-> members] ELSE defs[i]]
           shown == ActiveId(defs, choice)
           ch == [choice EXCEPT !.active = shown]
           next == [defs |-> ds, choice |-> ch, removed |-> removed, forget |-> {},
                    scope |-> Scope, changes |-> removed]
<1>1. born' = born /\ BeginSave(next)
  BY DEF UpdateWorkspace
<1>2. saving' = next
  BY <1>1 DEF BeginSave
<1>3. /\ defs \in Seq(WorkspaceDef) /\ defs # <<>> /\ choice \in Choice
      /\ DOMAIN defs = 1..Len(defs) /\ Len(defs) \in Nat /\ Len(defs) # 0
      /\ \A i \in DOMAIN defs : defs[i] \in WorkspaceDef
      /\ shown \in WorkspaceIds(defs) /\ WorkspaceIds(defs) \subseteq Workspaces
      /\ \A i, j \in DOMAIN defs : i # j => defs[i].id # defs[j].id
      /\ \A i \in DOMAIN defs : defs[i].id <= born
      /\ Scope \in Scopes /\ Scope = IF choice.all THEN All ELSE shown
  BY Start, ScopeFacts, LenProperties, EmptySeq DEF IInv, WorkspacesFit, Scope, ScopeId
<1>4. /\ ds \in Seq(WorkspaceDef) /\ ds # <<>> /\ DOMAIN ds = DOMAIN defs
      /\ \A i \in DOMAIN defs : ds[i].id = defs[i].id
  <2>1. [id |-> w, members |-> members] \in WorkspaceDef
    BY DEF WorkspaceDef
  <2>2. ds \in [1..Len(defs) -> WorkspaceDef]
    BY <1>3, <2>1
  <2>3. ds \in Seq(WorkspaceDef)
    BY <1>3, <2>2, SeqDef
  <2>4. \A i \in DOMAIN defs : ds[i].id = defs[i].id
    OBVIOUS
  <2> QED BY <1>3, <2>2, <2>3, <2>4
<1>5. removed \in BOOLEAN
  OBVIOUS
<1> HIDE DEF ds, shown, removed
<1>6. WorkspaceIds(ds) = WorkspaceIds(defs)
  BY <1>4 DEF WorkspaceIds
<1>7. ch \in Choice /\ ch.active = shown /\ ch.all = choice.all /\ shown <= born
  BY <1>3 DEF Choice, WorkspaceIds
<1> HIDE DEF ch
<1>8. ScopeId(ds, ch) = Scope
  BY <1>3, <1>6, <1>7 DEF ScopeId, ActiveId
<1>9. next \in Saving
  BY <1>3, <1>4, <1>5, <1>7 DEF Saving, Definitions, WorkspaceDef, Scopes
<1>10. /\ next.defs = ds /\ next.choice = ch /\ next.removed = removed
       /\ next.scope = Scope /\ next.changes = removed
  OBVIOUS
<1> HIDE DEF next
<1>11. SavingFits'
  BY <1>1, <1>2, <1>3, <1>4, <1>7, <1>8, <1>10 DEF SavingFits
<1> QED BY <1>1, <1>9, <1>11, BeginMoves

\* The parts of what the server is saving, and the scope it will lead to.
LEMMA SavingParts ==
    ASSUME IInv, saving # Null
    PROVE  /\ saving.defs \in Seq(WorkspaceDef) /\ saving.choice \in Choice
           /\ saving.removed \in BOOLEAN /\ saving.forget \subseteq Workspaces
           /\ ScopeId(saving.defs, saving.choice) \in Scopes
<1>1. /\ saving.defs \in Seq(WorkspaceDef) /\ saving.choice \in Choice
      /\ saving.removed \in BOOLEAN /\ saving.forget \subseteq Workspaces
  BY DEF IInv, TypeOK, Saving, Definitions, WorkspaceDef
<1>2. saving.defs # <<>>
  BY DEF IInv, SavingFits
<1> QED BY <1>1, <1>2, ScopeFacts

\* The answer: the scope follows what was saved.  When members left the workspace
\* shown its tabs are scoped again, and the history leads on from the snapshot.
LEMMA AnswerMoves ==
    ASSUME IInv, WorkspacesSaved PROVE Moved
<1> DEFINE s == Scope'
           allowed == selectWorkspaceConnections(conns, saving.defs, s)
           after == scopeWorkspaceSnapshot(editor, allowed)
           h == SavedHistory(s)
           kept == [x \in DOMAIN store |-> IF x \in saving.forget THEN Null ELSE store[x]]
<1>1. saving # Null /\ saving' = Null /\ defs' = saving.defs /\ choice' = saving.choice
      /\ asked' = FALSE /\ born' = born /\ moves' = moves
  BY DEF WorkspacesSaved
<1>2. s = ScopeId(saving.defs, saving.choice) /\ s \in Scopes
  BY <1>1, SavingParts DEF Scope
<1>3. IF saving.removed /\ s = Scope
      THEN /\ UNCHANGED <<conns, catalog, fresh>> /\ Shown(after, h)
           /\ store' = [store EXCEPT ![s] = Written(s)]
      ELSE FollowWorkspaces(kept)
  BY <1>2 DEF WorkspacesSaved
<1>4. /\ SavingFits' /\ saving' \in {Null} \cup Saving /\ asked' \in BOOLEAN
      /\ defs' \in Seq(WorkspaceDef) /\ choice' \in Choice /\ WorkspacesFit'
      /\ born' \in 0..MaxMoves /\ moves' \in 0..MaxMoves
  <2>1. WorkspacesFit'
    BY <1>1 DEF IInv, SavingFits, WorkspacesFit
  <2> QED BY <1>1, <2>1, SavingParts, SavingOver DEF IInv, TypeOK
<1>5. store \in [Scopes -> {Null} \cup Snapshots] /\ Loadable(store, fresh)
  BY Start
<1>6. /\ kept \in [Scopes -> {Null} \cup Snapshots] /\ Loadable(kept, fresh)
      /\ \A r \in Scopes : kept[r] \in {store[r], Null}
  <2>1. DOMAIN store = Scopes
    BY <1>5
  <2>2. \A r \in Scopes : kept[r] = IF r \in saving.forget THEN Null ELSE store[r]
    BY <2>1
  <2>3. kept \in [Scopes -> {Null} \cup Snapshots]
    BY <1>5, <2>1
  <2> HIDE DEF kept
  <2> QED BY <1>5, <2>2, <2>3 DEF Loadable, Scopes
<1>7. ~saving.changes => ~saving.removed /\ s = saving.scope
  BY <1>1, <1>2 DEF IInv, SavingFits
<1>8. s = Scope'
  OBVIOUS
<1> HIDE DEF kept, s
<1>9. CASE saving.removed /\ s = Scope
  <2>1. /\ Shown(after, h) /\ store' = [store EXCEPT ![s] = Written(s)]
        /\ conns' \subseteq Conns /\ catalog' \in [Conns -> {Null} \cup SUBSET Tables]
        /\ fresh' = fresh
    BY <1>3, <1>9, Start DEF IInv, TypeOK
  <2>2. saving.changes
    BY <1>7, <1>9
  <2>3. Sound(after) /\ Drawn(after, fresh)
    <3> HIDE DEF allowed
    <3>1. Sound(after)
      BY Start, ScopedSound
    <3>2. Drawn(after, fresh)
      BY Start, ScopedSound
    <3> QED BY <3>1, <3>2
  <2>4. Tidy(h)
    BY <1>2, EmptySound, SavedFacts
  <2>5. Whole(s) => OnActive(h, after)
    BY <1>9, WholeLeads
  <2> HIDE DEF after, h
  <2>6. IInv' /\ \A r \in Scopes : r # s => store'[r] = store[r]
    BY <1>4, <1>5, <1>8, <2>1, <2>3, <2>4, ShownWritten
  <2>7. Whole(s) => Follows
    BY <2>1, <2>3, <2>4, <2>5, ShownFollows DEF Leads
  <2> QED BY <1>8, <2>2, <2>6, <2>7 DEF Moved, Late
<1>10. CASE ~(saving.removed /\ s = Scope)
  <2>1. FollowWorkspaces(kept)
    BY <1>3, <1>10
  <2>2. IInv' /\ (\A r \in Scopes : r # Scope' => store'[r] = kept[r])
        /\ (Follows \/ ~Whole(Scope')) /\ (Scope' = Scope => KeepsStaged)
    BY <1>4, <1>6, <2>1, FollowFacts
  <2>3. KeepsStaged \/ Late
    BY <1>7, <1>8, <2>2 DEF Late
  <2> QED BY <1>6, <2>2, <2>3 DEF Moved
<1> QED BY <1>9, <1>10

\* The answer that nothing was saved changes nothing else.
LEMMA FailMoves ==
    ASSUME IInv, SaveFails PROVE Moved
<1>1. /\ saving' = Null /\ asked' = FALSE
      /\ UNCHANGED <<conns, catalog, editor, nav, defs, choice, store, fresh, born, moves>>
  BY DEF SaveFails
<1>2. SavingFits' /\ saving' \in {Null} \cup Saving
  BY <1>1, SavingOver
<1>3. TypeOK'
  BY <1>1, <1>2 DEF IInv, TypeOK
<1>4. View' /\ SnapshotsSound' /\ SnapshotCurrent' /\ WorkspacesFit'
  BY <1>1 DEF IInv, View, SnapshotsSound, Loadable, SnapshotCurrent, WorkspacesFit, Positions, Scope
<1>5. Follows /\ KeepsStaged
  BY <1>1 DEF Follows, AtActive, KeepsStaged, Positions, IdsOf
<1> QED BY <1>1, <1>2, <1>3, <1>4, <1>5 DEF Moved, IInv

\* Switching: the scope that is left is saved, the one entered is loaded and
\* written again only if its first renders change it (App.tsx, switchNamedWorkspace).
LEMMA SwitchMoves ==
    ASSUME IInv, NEW s \in Scopes, switchNamedWorkspace(s) PROVE Moved
<1> DEFINE allowed == selectWorkspaceConnections(conns, defs, s)
           entered == scopeWorkspaceSnapshot(SavedEditor(s, Empty), allowed)
           h == SavedHistory(s)
<1>1. /\ Move /\ born' = born /\ s # Scope /\ s \in WorkspaceIds(defs) \cup {All}
      /\ Confirmed(Positions) /\ UNCHANGED <<conns, catalog, defs, saving, fresh>>
      /\ choice' = IF s = All THEN [active |-> ActiveId(defs, choice), all |-> TRUE]
                   ELSE [active |-> s, all |-> FALSE]
      /\ store' = IF editor' = entered /\ nav' = h THEN SavedScope
                  ELSE [SavedScope EXCEPT ![s] = Written(s)]
  BY DEF switchNamedWorkspace
<1>2. Shown(entered, h)
  BY <1>1 DEF switchNamedWorkspace, RestoreScope
<1>3. moves' \in 0..MaxMoves /\ born' \in 0..MaxMoves /\ born <= moves'
  BY <1>1, MoveFacts
<1>4. /\ defs \in Seq(WorkspaceDef) /\ defs # <<>>
      /\ ActiveId(defs, choice) \in WorkspaceIds(defs) /\ WorkspaceIds(defs) \subseteq Workspaces
      /\ \A x \in WorkspaceIds(defs) : x <= born
  BY Start DEF IInv, WorkspacesFit, WorkspaceIds
<1>5. choice' \in Choice /\ choice'.active <= born
  BY <1>1, <1>4 DEF Choice
<1>6. Scope' = s
  <2>1. CASE s = All
    BY <1>1, <2>1 DEF Scope, ScopeId
  <2>2. CASE s # All
    BY <1>1, <2>2 DEF Scope, ScopeId, ActiveId
  <2> QED BY <2>1, <2>2
<1>7. WorkspacesFit' /\ defs' \in Seq(WorkspaceDef) /\ SavingFits' /\ saving' \in {Null} \cup Saving
  BY <1>1, <1>3, <1>4, <1>5 DEF IInv, WorkspacesFit, SavingFits, TypeOK
<1>8. asked' \in BOOLEAN /\ KeepsStaged
  BY <1>1, AskedAll
<1>9. conns' \subseteq Conns /\ catalog' \in [Conns -> {Null} \cup SUBSET Tables] /\ fresh' = fresh
  BY <1>1, Start DEF IInv, TypeOK
<1>10. allowed = selectWorkspaceConnections(conns', defs', Scope')
  BY <1>1, <1>6
<1> HIDE DEF allowed
<1>11. /\ Sound(entered) /\ Drawn(entered, fresh) /\ Tidy(h)
       /\ Whole(s) => OnActive(h, entered)
       /\ scopeWorkspaceSnapshot(entered, allowed) = entered
  <2>1. Sound(entered) /\ Drawn(entered, fresh) /\ Tidy(h)
    BY EmptySound, SavedFacts
  <2>2. Whole(s) => OnActive(h, entered)
    BY EmptySound, SavedFacts
  <2>3. scopeWorkspaceSnapshot(entered, allowed) = entered
    BY EmptySound, SavedFacts
  <2> QED BY <2>1, <2>2, <2>3
<1>12. /\ SavedScope \in [Scopes -> {Null} \cup Snapshots] /\ Loadable(SavedScope, fresh)
       /\ \A r \in Scopes : r # Scope => SavedScope[r] = store[r]
  BY SavedScopeFacts
<1>13. Whole(s) => Follows
  <2> HIDE DEF entered, h
  <2> QED BY <1>2, <1>9, <1>11, ShownFollows DEF Leads
<1>14. CASE editor' = entered /\ nav' = h
  <2>1. store' = SavedScope /\ store'[s] = store[s]
    BY <1>1, <1>12, <1>14
  <2>2. View'
    <3> HIDE DEF entered, h
    <3>1. Drawn(entered, fresh')
      BY <1>9, <1>11
    <3> QED BY <1>2, <1>11, <3>1, ShownFacts
  <2>3. SnapshotsSound'
    BY <1>9, <1>12, <2>1 DEF SnapshotsSound, Loadable
  <2>4. SnapshotCurrent'
    <3>1. CASE store[s] = Null
      <4>1. nav'.entries = <<>>
        BY <1>14, <3>1 DEF SavedHistory, emptyNavigationHistory
      <4> QED BY <1>6, <2>1, <3>1, <4>1 DEF SnapshotCurrent
    <3>2. CASE store[s] # Null
      <4>1. nav' = [entries |-> store[s].entries, cursor |-> store[s].cursor,
                    prev |-> store[s].editor.active]
        BY <1>14, <3>2 DEF SavedHistory
      <4>2. editor' = scopeWorkspaceSnapshot(store[s].editor, allowed)
        BY <1>14, <3>2 DEF SavedEditor
      <4>3. scopeWorkspaceSnapshot(editor', allowed) = editor'
        BY <1>11, <1>14
      <4>4. nav'.entries # <<>> => editor'.active # Null
        BY <2>2, ActiveSomewhere DEF View
      <4>5. nav'.entries # <<>> => store[s].editor.active = editor'.active
        BY <2>2, <4>1, <4>4 DEF View
      <4>6. nav'.entries = store[s].entries /\ nav'.cursor = store[s].cursor
        BY <4>1
      <4> QED BY <1>6, <1>10, <2>1, <3>2, <4>2, <4>3, <4>5, <4>6 DEF SnapshotCurrent
    <3> QED BY <3>1, <3>2
  <2>5. TypeOK'
    <3>1. store' \in [Scopes -> {Null} \cup Snapshots] /\ fresh' \in 0..MaxFresh
      BY <1>9, <1>12, <2>1, Start
    <3> QED BY <1>3, <1>5, <1>7, <1>8, <1>9, <2>2, <3>1, Types
  <2>6. IInv'
    BY <1>7, <2>2, <2>3, <2>4, <2>5 DEF IInv
  <2> QED BY <1>6, <1>8, <1>12, <1>13, <2>1, <2>6 DEF Moved
<1>15. CASE ~(editor' = entered /\ nav' = h)
  <2>1. store' = [SavedScope EXCEPT ![s] = Written(s)]
    BY <1>1, <1>15
  <2> HIDE DEF entered, h
  <2>2. IInv' /\ \A r \in Scopes : r # s => store'[r] = SavedScope[r]
    BY <1>2, <1>3, <1>5, <1>6, <1>7, <1>8, <1>9, <1>11, <1>12, <2>1, ShownWritten
  <2> QED BY <1>6, <1>8, <1>12, <1>13, <2>2 DEF Moved
<1> QED BY <1>14, <1>15

\* Every change of the scope or of the workspaces.
LEMMA ScopeMoves ==
    ASSUME IInv, ScopeStep PROVE Moved
BY SwitchMoves, DeleteMoves, CreateMoves, UpdateMoves, LoadMoves DEF ScopeStep, Scopes

\* Every answer to one.
LEMMA AnswersMove ==
    ASSUME IInv, AnswerStep PROVE Moved
BY AnswerMoves, FailMoves DEF AnswerStep

\* The page is loaded again.
LEMMA ReloadMoves ==
    ASSUME IInv, Reload PROVE Moved /\ KeepsStaged
<1> DEFINE s == Scope'
           allowed == selectWorkspaceConnections(conns, defs', s)
           missing == IF s = Default THEN editor ELSE Empty
           ed == scopeWorkspaceSnapshot(SavedEditor(s, missing), allowed)
           h == SavedHistory(s)
<1>1. /\ UNCHANGED <<conns, catalog, choice, fresh, born, moves>>
      /\ defs' = defs \/ (saving # Null /\ defs' = saving.defs)
      /\ saving' = Null /\ asked' = TRUE
  BY DEF Reload
<1>2. s = ScopeId(defs', choice)
  BY <1>1 DEF Scope
<1>3. Shown(ed, h) /\ store' = [store EXCEPT ![s] = Written(s)]
  BY <1>2 DEF Reload
<1>4. /\ defs' \in Seq(WorkspaceDef) /\ choice' \in Choice /\ WorkspacesFit'
      /\ SavingFits' /\ saving' \in {Null} \cup Saving
  <2>1. SavingFits' /\ saving' \in {Null} \cup Saving
    BY <1>1, SavingOver
  <2>2. CASE defs' = defs
    BY <1>1, <2>1, <2>2, Start DEF IInv, WorkspacesFit
  <2>3. CASE saving # Null /\ defs' = saving.defs
    BY <1>1, <2>1, <2>3, Start, SavingParts DEF IInv, WorkspacesFit, SavingFits
  <2> QED BY <1>1, <2>2, <2>3
<1>5. s = Scope' /\ s \in Scopes
  BY <1>1, <1>2, <1>4, ScopeFacts DEF WorkspacesFit
<1>6. Sound(missing) /\ Drawn(missing, fresh)
  BY Start, EmptySound
<1> HIDE DEF allowed, missing, s
<1>7. Sound(ed) /\ Drawn(ed, fresh) /\ Tidy(h) /\ (Whole(s) => OnActive(h, ed))
  <2>1. Sound(ed) /\ Drawn(ed, fresh) /\ Tidy(h)
    BY <1>5, <1>6, SavedFacts
  <2>2. Whole(s) => OnActive(h, ed)
    BY <1>5, <1>6, SavedFacts
  <2> QED BY <2>1, <2>2
<1> HIDE DEF ed, h
<1>8. /\ store \in [Scopes -> {Null} \cup Snapshots] /\ Loadable(store, fresh)
      /\ conns' \subseteq Conns /\ catalog' \in [Conns -> {Null} \cup SUBSET Tables]
      /\ fresh' = fresh /\ born' \in 0..MaxMoves /\ moves' \in 0..MaxMoves
  BY <1>1, Start DEF IInv, TypeOK
<1>9. IInv' /\ \A r \in Scopes : r # s => store'[r] = store[r]
  BY <1>1, <1>3, <1>4, <1>5, <1>7, <1>8, ShownWritten
<1>10. Whole(s) => Follows
  BY <1>3, <1>7, <1>8, ShownFollows DEF Leads
<1>11. KeepsStaged
  BY <1>1 DEF KeepsStaged
<1> QED BY <1>5, <1>9, <1>10, <1>11 DEF Moved

-----------------------------------------------------------------------------
(* The theorems *)

\* The first state: nothing open, nothing saved, one workspace.
LEMMA InitInvariant == Init => IInv
<1> SUFFICES ASSUME Init PROVE IInv
  OBVIOUS
<1> DEFINE d == [id |-> Default, members |-> Conns]
<1>1. MaxMoves \in Nat /\ MaxFresh \in Nat /\ Default \in Workspaces
  BY BoundsAssumption DEF Default, Workspaces
<1>2. Sound(editor) /\ Drawn(editor, fresh) /\ Positions = {} /\ IdsOf(editor.tabs) = {}
  <2>1. editor = Empty
    BY DEF Init
  <2>2. Positions = {} /\ IdsOf(editor.tabs) = {} /\ editor.tabs = <<>>
    BY <2>1 DEF Empty, IdsOf, Positions
  <2> QED BY <2>1, <2>2, EmptySound
<1>3. Tidy(nav) /\ nav.entries = <<>> /\ DOMAIN nav.entries = {}
  BY EmptySeq, BoundsAssumption DEF Init, emptyNavigationHistory, Tidy, History, Fits
<1>4. View
  <2>1. editor.active = Null
    BY DEF Init, Empty
  <2> QED BY <1>2, <1>3, <2>1 DEF View, Among
<1>5. store \in [Scopes -> {Null} \cup Snapshots] /\ \A s \in Scopes : store[s] = Null
  BY DEF Init, Scopes
<1>6. SnapshotsSound
  BY <1>5 DEF SnapshotsSound, Loadable, Scopes
<1>7. /\ defs \in Seq(WorkspaceDef) /\ defs # <<>> /\ DOMAIN defs = {1} /\ defs[1].id = 0
  <2>1. d \in WorkspaceDef /\ d.id = 0
    BY <1>1 DEF WorkspaceDef, Default
  <2>2. defs = <<d>>
    BY DEF Init
  <2> HIDE DEF d
  <2> QED BY <2>1, <2>2
<1>8. choice \in Choice /\ choice.active = 0
  BY <1>1 DEF Init, Choice, Default
<1>9. WorkspacesFit /\ SavingFits /\ saving = Null
  BY <1>1, <1>7, <1>8 DEF Init, WorkspacesFit, SavingFits
<1>10. Scope \in Scopes
  BY <1>7, <1>8, ScopeFacts DEF Scope
<1>11. SnapshotCurrent
  BY <1>3, <1>5, <1>10 DEF SnapshotCurrent
<1>12. TypeOK
  <2>1. conns \subseteq Conns /\ catalog \in [Conns -> {Null} \cup SUBSET Tables]
    BY DEF Init
  <2>2. fresh = 0 /\ born = 0 /\ moves \in {0, MaxMoves} /\ asked = FALSE
    BY DEF Init
  <2>3. fresh \in 0..MaxFresh /\ born \in 0..MaxMoves /\ moves \in 0..MaxMoves
    BY <1>1, <2>2
  <2>4. asked \in BOOLEAN
    BY <2>2
  <2> QED BY <1>4, <1>5, <1>7, <1>8, <1>9, <2>1, <2>3, <2>4
       DEF View, Sound, Tidy, History, Fits, TypeOK, WorkspaceDef, Definitions, Scopes, Snapshots
<1> QED BY <1>4, <1>6, <1>9, <1>11, <1>12 DEF IInv

\* Every step is an edit, a change of the sources or of the scope, a reload, or
\* the server's answer.
LEMMA StepKinds ==
    ASSUME IInv, Next PROVE IsEdit \/ SourceStep \/ ScopeStep \/ Reload \/ AnswerStep
<1>1. CASE OpenStep
  BY <1>1, OpenEdits
<1>2. CASE closeAllTabs
  BY <1>2, CloseAllEdits
<1>3. CASE \E i \in Positions : TabStep(i)
  BY <1>3, TabEdits
<1>4. CASE \E direction \in {"back", "forward"} : navigateHistory(direction)
  BY <1>4, NavigateEdits
<1> QED BY <1>1, <1>2, <1>3, <1>4 DEF Next, EventStep

\* The invariant is inductive: an edit keeps it by EditFacts, a change of the
\* sources by SourceFacts, of the scope by ScopeMoves, a reload by ReloadMoves, an
\* answer by AnswersMove.
LEMMA NextInvariant ==
    ASSUME IInv, [Next]_vars PROVE IInv'
<1>1. CASE Next
  BY <1>1, StepKinds, EditFacts, SourceFacts, ScopeMoves, ReloadMoves, AnswersMove DEF Moved
<1>2. CASE UNCHANGED vars
  BY <1>2 DEF vars, IInv, TypeOK, View, SnapshotsSound, Loadable, SnapshotCurrent, WorkspacesFit,
              SavingFits, Positions, Scope
<1> QED BY <1>1, <1>2

\* IInv holds of every reachable state, for any connections, tables, bounds and
\* length of the history.
THEOREM Invariant == Spec => []IInv
BY InitInvariant, NextInvariant, PTL DEF Spec

\* Every variable has its type in every reachable state: no operation of the
\* editor, the history or the workspaces puts anything else in the store.
THEOREM TypesHold == Spec => []TypeOK
<1>1. IInv => TypeOK
  BY DEF IInv
<1> QED BY <1>1, Invariant, PTL

\* However tabs are opened, copied, moved, closed, restored and scoped: ids differ,
\* no tab shows what is gone, and one tab is active whenever one is open.
THEOREM EditorStaysConsistent == Spec => []EditorConsistent
<1>1. IInv => EditorConsistent
  BY DEF IInv, View, Sound, Distinct, ActiveOpen, EditorConsistent, Positions
<1> QED BY <1>1, Invariant, PTL

\* At any moment the snapshot of the scope shown brings back the tabs shown, in
\* order, with the same one active.
THEOREM ReloadsKeepTabs == Spec => []ReloadKeepsTabs
<1>1. IInv => ReloadKeepsTabs
  BY DEF IInv, SnapshotCurrent, ReloadKeepsTabs
<1> QED BY <1>1, Invariant, PTL

\* The history holds open tabs and its cursor is at one of them.
LEMMA InvariantHistory == ASSUME IInv PROVE HistoryOfOpenTabs
<1>1. nav.entries # <<>> => nav.cursor \in DOMAIN nav.entries
  BY Start, HistoryParts
<1> QED BY <1>1 DEF IInv, View, Tidy, Fits, Among, HistoryOfOpenTabs

\* After every step the history holds open tabs, within its limit, and its cursor
\* is at the active tab, or stays off it as before, or a snapshot has just been
\* loaded whose active tab was outside its scope.
THEOREM HistoryFollows == Spec => HistoryFollowsEditor
<1> DEFINE Good == /\ HistoryOfOpenTabs'
                   /\ \/ AtActive'
                      \/ ~AtActive /\ editor'.active = editor.active
                      \/ (Reload \/ ScopeStep \/ AnswerStep) /\ ~Whole(Scope')
<1>1. ASSUME IInv, Next, IInv' PROVE Good
  <2>1. HistoryOfOpenTabs'
    BY <1>1, InvariantHistory, PTL
  <2>2. Follows \/ ((Reload \/ ScopeStep \/ AnswerStep) /\ ~Whole(Scope'))
    <3>1. CASE IsEdit
      BY <1>1, <3>1, EditFacts DEF Follows
    <3>2. CASE SourceStep
      BY <1>1, <3>2, SourceFacts
    <3>3. CASE ScopeStep
      BY <1>1, <3>3, ScopeMoves DEF Moved
    <3>4. CASE Reload
      BY <1>1, <3>4, ReloadMoves DEF Moved
    <3>5. CASE AnswerStep
      BY <1>1, <3>5, AnswersMove DEF Moved
    <3> QED BY <1>1, <3>1, <3>2, <3>3, <3>4, <3>5, StepKinds
  <2> QED BY <2>1, <2>2 DEF Follows
<1>2. IInv /\ IInv' /\ [Next]_vars => [Good]_vars
  BY <1>1
<1> QED BY <1>2, Invariant, PTL DEF Spec, HistoryFollowsEditor

\* No step writes the snapshot of a scope it neither leaves nor enters; it can
\* only drop one.
THEOREM OtherScopesKept == Spec => OtherScopesUntouched
<1> DEFINE Good == \A s \in DOMAIN store :
                      s \notin {Scope, Scope'} => store'[s] \in {store[s], Null}
<1>1. ASSUME IInv, Next PROVE Good
  <2>1. DOMAIN store = Scopes
    BY <1>1, Start
  <2>2. CASE IsEdit
    BY <1>1, <2>1, <2>2, EditFacts
  <2>3. CASE SourceStep
    BY <1>1, <2>1, <2>3, SourceFacts
  <2>4. CASE ScopeStep
    BY <1>1, <2>1, <2>4, ScopeMoves DEF Moved
  <2>5. CASE Reload
    BY <1>1, <2>1, <2>5, ReloadMoves DEF Moved
  <2>6. CASE AnswerStep
    BY <1>1, <2>1, <2>6, AnswersMove DEF Moved
  <2> QED BY <1>1, <2>2, <2>3, <2>4, <2>5, <2>6, StepKinds
<1>2. IInv /\ [Next]_vars => [Good]_vars
  BY <1>1
<1> QED BY <1>2, Invariant, PTL DEF Spec, OtherScopesUntouched

\* No step drops a tab with staged work unless the user was asked, what it shows
\* is gone, another session deleted the workspace shown, or the server answers a
\* change that was to leave the scope, or asked for in a scope left since: the one
\* time work goes unasked, because it was staged after the consent.
THEOREM StagedWorkKept == Spec => NoSilentDiscard
<1> DEFINE Good == \A i \in Positions :
                      editor.tabs[i].dirty /\ editor.tabs[i].id \notin IdsOf(editor'.tabs) =>
                         \/ asked'
                         \/ ~Valid(editor.tabs[i], conns', catalog')
                         \/ /\ \E ds \in ElsewhereChanged : LoadWorkspaces(ds)
                            /\ ~choice.all /\ ActiveId(defs, choice) \notin WorkspaceIds(defs')
                         \/ WorkspacesSaved /\ (saving.changes \/ saving.scope # Scope)
<1>1. ASSUME IInv, Next PROVE Good
  <2>1. KeepsStaged \/ Evicted \/ Late
    <3>1. CASE IsEdit
      BY <1>1, <3>1, EditFacts DEF KeepsStaged
    <3>2. CASE SourceStep
      BY <1>1, <3>2, SourceFacts
    <3>3. CASE ScopeStep
      BY <1>1, <3>3, ScopeMoves DEF Moved
    <3>4. CASE Reload
      BY <1>1, <3>4, ReloadMoves
    <3>5. CASE AnswerStep
      BY <1>1, <3>5, AnswersMove DEF Moved
    <3> QED BY <1>1, <3>1, <3>2, <3>3, <3>4, <3>5, StepKinds
  <2> QED BY <2>1 DEF KeepsStaged, Evicted, Gone, Late
<1>2. IInv /\ [Next]_vars => [Good]_vars
  BY <1>1
<1> QED BY <1>2, Invariant, PTL DEF Spec, NoSilentDiscard
=============================================================================

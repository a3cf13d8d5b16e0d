--------------------------- MODULE MachineSetProofs ---------------------------
(***************************************************************************)
(* Proofs about MachineSet for any labels, texts, templates and MachineSets *)
(* and any number of changes.  First what the merge of labels computes for  *)
(* texts of any length; then the properties of the controller.              *)
(***************************************************************************)
EXTENDS MachineSet, TLAPS, FiniteSetTheorems, SequenceTheorems,
        WellFoundedInduction

(* The last label with a key *)

LEMMA LeastNat ==
  ASSUME NEW S \in SUBSET Nat, S # {}
  PROVE  \E m \in S : \A n \in S : m <= n
<1>1. PICK m \in S : \A n \in S : ~(<<n, m>> \in OpToRel(<, Nat))
  BY NatLessThanWellFounded, WFMin
<1>2. \A n \in S : n \in Nat /\ m \in Nat /\ ~(n < m)
  BY <1>1 DEF OpToRel
<1> QED BY <1>2

\* A bounded set of numbers has a greatest one: the least of its bounds.
LEMMA MaxExists ==
  ASSUME NEW S \in SUBSET Nat, S # {}, NEW b \in Nat, \A n \in S : n <= b
  PROVE  Max(S) \in S /\ \A n \in S : n <= Max(S)
<1> DEFINE Bounds == {c \in Nat : \A n \in S : n <= c}
<1>1. PICK m \in Bounds : \A c \in Bounds : m <= c
  <2>1. Bounds \in SUBSET Nat /\ b \in Bounds
    OBVIOUS
  <2> QED BY <2>1, LeastNat
<1>2. m \in S
  <2>1. SUFFICES ASSUME m \notin S PROVE FALSE
    OBVIOUS
  <2>2. \A n \in S : n \in Nat /\ n <= m /\ n # m
    BY <1>1, <2>1
  <2>3. m \in Nat /\ m # 0
    <3>1. PICK n \in S : TRUE
      OBVIOUS
    <3>2. n \in Nat /\ m \in Nat /\ n <= m /\ n # m
      BY <1>1, <2>2, <3>1
    <3> QED BY <3>2
  <2>4. m - 1 \in Bounds
    BY <2>2, <2>3
  <2>5. m <= m - 1
    BY <1>1, <2>4
  <2> QED BY <2>3, <2>5
<1>3. \E x \in S : \A y \in S : x >= y
  BY <1>1, <1>2
<1>4. Max(S) \in S /\ \A y \in S : Max(S) >= y
  BY <1>3 DEF Max
<1> QED BY <1>4

\* A text's last label with a key is one of the places where the key occurs.
LEMMA LastPlace ==
  ASSUME NEW text \in Text, NEW k \in Keys(text)
  PROVE  /\ Max(Places(text, k)) \in Places(text, k)
         /\ \A n \in Places(text, k) : n <= Max(Places(text, k))
<1>1. Len(text) \in Nat /\ Places(text, k) \in SUBSET (1..Len(text))
  BY DEF Text, Places
<1>2. Places(text, k) # {}
  BY DEF Keys, Places
<1>3. Places(text, k) \in SUBSET Nat /\ \A n \in Places(text, k) : n <= Len(text)
  BY <1>1
<1> QED BY <1>1, <1>2, <1>3, MaxExists

\* What LastVal is, without Max.
LEMMA LastValAt ==
  ASSUME NEW text \in Text, NEW k \in Keys(text)
  PROVE  \E i \in Places(text, k) :
           /\ \A n \in Places(text, k) : n <= i
           /\ LastVal(text, k) = text[i].val
BY LastPlace DEF LastVal

LEMMA LastValIs ==
  ASSUME NEW text \in Text, NEW k, NEW i \in Places(text, k),
         \A n \in Places(text, k) : n <= i
  PROVE  k \in Keys(text) /\ LastVal(text, k) = text[i].val
<1>1. k \in Keys(text)
  BY DEF Keys, Places
<1>2. PICK j \in Places(text, k) : /\ \A n \in Places(text, k) : n <= j
                                   /\ LastVal(text, k) = text[j].val
  BY <1>1, LastValAt
<1>3. i \in Nat /\ j \in Nat
  BY DEF Places, Text
<1>4. i = j
  BY <1>2, <1>3
<1> QED BY <1>1, <1>2, <1>4

-----------------------------------------------------------------------------
(* The sorted keys *)

LEMMA PositionOf ==
  ASSUME NEW k \in ToSet(KeyOrder)
  PROVE  Position(k) \in 1..Len(KeyOrder) /\ KeyOrder[Position(k)] = k
<1>1. Len(KeyOrder) \in Nat /\ DOMAIN KeyOrder = 1..Len(KeyOrder)
  BY LabelAssumption
<1>2. \E i \in DOMAIN KeyOrder : KeyOrder[i] = k
  BY DEF ToSet
<1> QED BY <1>1, <1>2 DEF Position

LEMMA KeysFinite ==
  ASSUME NEW K \in SUBSET ToSet(KeyOrder)
  PROVE  IsFiniteSet(K) /\ Cardinality(K) \in Nat
<1> DEFINE f == [k \in K |-> Position(k)]
<1>1. f \in Injection(K, 1..Len(KeyOrder))
  BY PositionOf DEF Injection, IsInjective
<1>2. Len(KeyOrder) \in Nat
  BY LabelAssumption
<1>3. IsFiniteSet(1..Len(KeyOrder))
  BY <1>2, FS_Interval
<1>4. IsFiniteSet(K)
  BY <1>1, <1>3, FS_Injection
<1> QED BY <1>4, FS_CardinalityType

\* Each key stands at its rank: the number of keys up to it.
LEMMA SortedExists ==
  ASSUME NEW K \in SUBSET ToSet(KeyOrder)
  PROVE  \E s \in [1..Cardinality(K) -> K] :
           \A i, j \in DOMAIN s : i < j => Position(s[i]) < Position(s[j])
<1> DEFINE n       == Cardinality(K)
           UpTo(k) == {l \in K : Position(l) <= Position(k)}
           Rank(k) == Cardinality(UpTo(k))
           g       == [k \in K |-> Rank(k)]
           s       == [i \in 1..n |-> CHOOSE k \in K : Rank(k) = i]
<1>1. IsFiniteSet(K) /\ n \in Nat
  BY KeysFinite
<1>2. \A k \in K : Position(k) \in Nat /\ KeyOrder[Position(k)] = k
  BY PositionOf
<1>3. ASSUME NEW k \in K
      PROVE  IsFiniteSet(UpTo(k)) /\ Rank(k) \in 1..n
  <2>1. UpTo(k) \in SUBSET K /\ k \in UpTo(k)
    BY <1>2
  <2>2. IsFiniteSet(UpTo(k)) /\ Rank(k) <= n
    BY <1>1, <2>1, FS_Subset
  <2>3. Rank(k) \in Nat /\ Rank(k) # 0
    <3> HIDE DEF UpTo
    <3> QED BY <2>1, <2>2, FS_CardinalityType, FS_EmptySet
  <2> QED BY <1>1, <2>2, <2>3
<1>4. ASSUME NEW k \in K, NEW l \in K, Position(k) < Position(l)
      PROVE  Rank(k) < Rank(l)
  <2>1. UpTo(k) \in SUBSET UpTo(l) /\ l \in UpTo(l) /\ l \notin UpTo(k)
    BY <1>2, <1>4
  <2>2. Rank(k) <= Rank(l) /\ Rank(k) # Rank(l)
    <3>1. IsFiniteSet(UpTo(l))
      BY <1>3
    <3> HIDE DEF UpTo
    <3> QED BY <2>1, <3>1, FS_Subset
  <2> QED BY <1>1, <1>3, <2>2
<1>5. \A k, l \in K : Rank(k) = Rank(l) => k = l
  <2> SUFFICES ASSUME NEW k \in K, NEW l \in K, Rank(k) = Rank(l), k # l
               PROVE  FALSE
    OBVIOUS
  <2>1. Position(k) < Position(l) \/ Position(l) < Position(k)
    BY <1>2
  <2>2. Rank(k) < Rank(l) \/ Rank(l) < Rank(k)
    BY <1>4, <2>1
  <2>3. Rank(k) \in Nat /\ Rank(l) \in Nat
    BY <1>3
  <2> HIDE DEF Rank
  <2> QED BY <2>2, <2>3
<1> HIDE DEF Rank
<1>6. \A i \in 1..n : \E k \in K : Rank(k) = i
  <2>1. g \in Injection(K, 1..n)
    BY <1>3, <1>5 DEF Injection, IsInjective
  <2>2. IsFiniteSet(1..n) /\ Cardinality(1..n) = n
    BY <1>1, FS_Interval
  <2>3. g \in Surjection(K, 1..n)
    <3> HIDE DEF g
    <3> QED BY <1>1, <2>1, <2>2, FS_Injection
  <2> QED BY <2>3 DEF Surjection
<1>7. s \in [1..n -> K] /\ \A i \in 1..n : Rank(s[i]) = i
  BY <1>6
<1>8. ASSUME NEW i \in 1..n, NEW j \in 1..n, i < j
      PROVE  Position(s[i]) < Position(s[j])
  <2>1. s[i] \in K /\ s[j] \in K /\ Rank(s[i]) = i /\ Rank(s[j]) = j
    BY <1>7
  <2> HIDE DEF s
  <2>2. \/ Position(s[i]) < Position(s[j]) \/ Position(s[j]) < Position(s[i])
        \/ s[i] = s[j]
    BY <1>2, <2>1
  <2>3. i \in Nat /\ j \in Nat
    BY <1>1
  <2>4. ~(Position(s[j]) < Position(s[i])) /\ s[i] # s[j]
    BY <1>4, <1>8, <2>1, <2>3
  <2> QED BY <2>2, <2>4
<1> HIDE DEF s
<1> QED BY <1>7, <1>8

\* The sorted keys are the keys, each once.
LEMMA SortedIs ==
  ASSUME NEW K \in SUBSET ToSet(KeyOrder)
  PROVE  /\ Sorted(K) \in [1..Cardinality(K) -> K]
         /\ \A i, j \in 1..Cardinality(K) : Sorted(K)[i] = Sorted(K)[j] => i = j
         /\ \A k \in K : \E i \in 1..Cardinality(K) : Sorted(K)[i] = k
<1> DEFINE n == Cardinality(K)
           s == Sorted(K)
<1>1. IsFiniteSet(K) /\ n \in Nat
  BY KeysFinite
<1>2. s \in [1..n -> K]
      /\ \A i, j \in DOMAIN s : i < j => Position(s[i]) < Position(s[j])
  BY SortedExists DEF Sorted
<1> HIDE DEF s
<1>3. \A k \in K : Position(k) \in Nat
  BY PositionOf
<1>4. \A i, j \in 1..n : s[i] = s[j] => i = j
  <2> SUFFICES ASSUME NEW i \in 1..n, NEW j \in 1..n, s[i] = s[j], i # j
               PROVE  FALSE
    OBVIOUS
  <2>1. i < j \/ j < i
    BY <1>1
  <2>2. Position(s[i]) < Position(s[j]) \/ Position(s[j]) < Position(s[i])
    BY <1>2, <2>1
  <2>3. Position(s[i]) \in Nat
    BY <1>2, <1>3
  <2> QED BY <2>2, <2>3
<1>5. s \in Injection(1..n, K)
  BY <1>2, <1>4 DEF Injection, IsInjective
<1>6. Cardinality(1..n) = n
  BY <1>1, FS_Interval
<1>7. s \in Surjection(1..n, K)
  BY <1>1, <1>5, <1>6, FS_Injection
<1>8. \A k \in K : \E i \in 1..n : s[i] = k
  BY <1>7 DEF Surjection
<1> QED BY <1>2, <1>4, <1>8 DEF s

-----------------------------------------------------------------------------
(* The merge *)

\* The items of a text and of its keys and values.
LEMMA TextItems ==
  ASSUME NEW text \in Text
  PROVE  /\ Keys(text) \in SUBSET ToSet(KeyOrder)
         /\ \A k \in Keys(text) : LastVal(text, k) \in LabelVal
<1>1. \A i \in DOMAIN text : text[i] # Junk => text[i] \in Label
  BY DEF Text
<1>2. Keys(text) \in SUBSET ToSet(KeyOrder)
  BY <1>1 DEF Keys, Label
<1>3. ASSUME NEW k \in Keys(text)
      PROVE  LastVal(text, k) \in LabelVal
  <2>1. PICK i \in Places(text, k) : LastVal(text, k) = text[i].val
    BY LastValAt
  <2> QED BY <1>1, <2>1 DEF Places, Label
<1> QED BY <1>2, <1>3

\* Joining the keys of a text gives a text with the same keys and values.
LEMMA JoinedIs ==
  ASSUME NEW all \in Text
  PROVE  LET joined == Joined(all, Sorted(Keys(all)))
         IN  /\ joined \in Text
             /\ Keys(joined) = Keys(all)
             /\ \A k \in Keys(all) : LastVal(joined, k) = LastVal(all, k)
<1> DEFINE K == Keys(all)
           n == Cardinality(K)
           s == Sorted(K)
           joined == Joined(all, s)
<1>1. K \in SUBSET ToSet(KeyOrder) /\ \A k \in K : LastVal(all, k) \in LabelVal
  BY TextItems
<1>2. n \in Nat
  BY <1>1, KeysFinite
<1>3. /\ s \in [1..n -> K]
      /\ \A i, j \in 1..n : s[i] = s[j] => i = j
      /\ \A k \in K : \E i \in 1..n : s[i] = k
  <2> HIDE DEF K
  <2> QED BY <1>1, SortedIs
<1> HIDE DEF s, n, K
<1>4. joined = [i \in 1..n |-> [key |-> s[i], val |-> LastVal(all, s[i])]]
  BY <1>3 DEF Joined
<1>5. joined \in [1..n -> Label]
  BY <1>1, <1>3, <1>4 DEF Label
<1>6. joined \in Seq(Label)
  BY <1>2, <1>5, SeqDef
<1>7. /\ joined \in Text /\ DOMAIN joined = 1..n
      /\ \A i \in 1..n : /\ joined[i] # Junk /\ joined[i].key = s[i]
                         /\ joined[i].val = LastVal(all, s[i])
  <2>1. joined \in Seq(Label \cup {Junk})
    BY <1>6, SeqMonotonic
  <2>2. \A i \in 1..n : joined[i] # Junk
    BY <1>5, LabelAssumption
  <2> QED BY <1>4, <2>1, <2>2 DEF Text
<1> HIDE DEF joined
<1>8. Keys(joined) = K
  BY <1>3, <1>7 DEF Keys
<1>9. ASSUME NEW k \in K
      PROVE  LastVal(joined, k) = LastVal(all, k)
  <2>1. PICK i \in 1..n : s[i] = k
    BY <1>3
  <2>2. Places(joined, k) = {i}
    BY <1>3, <1>7, <2>1 DEF Places
  <2>3. LastVal(joined, k) = joined[i].val
    BY <1>2, <1>7, <2>2, LastValIs
  <2> QED BY <1>7, <2>1, <2>3
<1> QED BY <1>7, <1>8, <1>9 DEF joined, s, K

\* One text after the other: the second has the last word.
LEMMA TextAfterText ==
  ASSUME NEW first \in Text, NEW second \in Text
  PROVE  LET all == first \o second
         IN  /\ all \in Text /\ Keys(all) = Keys(first) \cup Keys(second)
             /\ \A k \in Keys(second) : LastVal(all, k) = LastVal(second, k)
<1> DEFINE all == first \o second
           l   == Len(first)
           m   == Len(second)
<1>1. /\ l \in Nat /\ m \in Nat /\ all \in Text
      /\ DOMAIN first = 1..l /\ DOMAIN second = 1..m /\ DOMAIN all = 1..l + m
      /\ \A i \in 1..l : all[i] = first[i]
      /\ \A i \in 1..m : l + i \in 1..l + m /\ all[l + i] = second[i]
  BY DEF Text
<1>2. \A i \in 1..l + m : i \in 1..l \/ \E j \in 1..m : i = l + j
  <2> SUFFICES ASSUME NEW i \in 1..l + m, i \notin 1..l
               PROVE  \E j \in 1..m : i = l + j
    OBVIOUS
  <2>1. i - l \in 1..m /\ i = l + (i - l)
    BY <1>1
  <2> QED BY <2>1
<1>3. 1..l \subseteq 1..l + m
  BY <1>1
<1> HIDE DEF all, l, m
<1>4. Keys(all) = Keys(first) \cup Keys(second)
  <2>1. \A k : k \in Keys(all) <=>
                 \E i \in 1..l + m : all[i] # Junk /\ all[i].key = k
    BY <1>1 DEF Keys
  <2>2. \A k : k \in Keys(first) <=>
                 \E i \in 1..l : first[i] # Junk /\ first[i].key = k
    BY <1>1 DEF Keys
  <2>3. \A k : k \in Keys(second) <=>
                 \E i \in 1..m : second[i] # Junk /\ second[i].key = k
    BY <1>1 DEF Keys
  <2>4. \A k : k \in Keys(all) => k \in Keys(first) \/ k \in Keys(second)
    BY <1>1, <1>2, <2>1, <2>2, <2>3
  <2>5. \A k : k \in Keys(first) \/ k \in Keys(second) => k \in Keys(all)
    BY <1>1, <1>3, <2>1, <2>2, <2>3
  <2> QED BY <2>4, <2>5
<1>5. ASSUME NEW k \in Keys(second)
      PROVE  LastVal(all, k) = LastVal(second, k)
  <2>1. PICK j \in Places(second, k) :
               /\ \A n \in Places(second, k) : n <= j
               /\ LastVal(second, k) = second[j].val
    BY LastValAt
  <2>2. j \in 1..m /\ l + j \in Places(all, k) /\ all[l + j] = second[j]
    BY <1>1 DEF Places
  <2>3. ASSUME NEW n \in Places(all, k)
        PROVE  n <= l + j
    <3>1. CASE n \in 1..l
      BY <1>1, <2>2, <3>1
    <3>2. ASSUME NEW i \in 1..m, n = l + i
          PROVE  n <= l + j
      <4>1. i \in Places(second, k)
        BY <1>1, <3>2 DEF Places
      <4> QED BY <1>1, <2>1, <2>2, <3>2, <4>1
    <3> QED BY <1>1, <1>2, <3>1, <3>2 DEF Places
  <2>4. LastVal(all, k) = all[l + j].val
    BY <1>1, <2>2, <2>3, LastValIs
  <2> QED BY <2>1, <2>2, <2>4
<1> QED BY <1>1, <1>4, <1>5 DEF all

\* What mergeCommaSeparatedKeyValuePairs returns: a text with the labels of the
\* second list and those labels of the first whose keys the second does not have.
LEMMA Merged ==
  ASSUME NEW first \in Text, NEW second \in Text
  PROVE  LET merged == mergeCommaSeparatedKeyValuePairs(first, second)
         IN  /\ merged \in Text
             /\ Keys(merged) = Keys(first) \cup Keys(second)
             /\ \A k \in Keys(second) : LastVal(merged, k) = LastVal(second, k)
<1>1. first \o second \in Text
  BY TextAfterText
<1> QED BY <1>1, TextAfterText, JoinedIs DEF mergeCommaSeparatedKeyValuePairs

\* Merging the same labels into the result again changes nothing.
LEMMA MergedAgain ==
  ASSUME NEW first \in Text, NEW second \in Text
  PROVE  LET merged == mergeCommaSeparatedKeyValuePairs(first, second)
         IN  mergeCommaSeparatedKeyValuePairs(first, merged) = merged
<1> DEFINE all    == first \o second
           merged == mergeCommaSeparatedKeyValuePairs(first, second)
           again  == first \o merged
           K      == Keys(all)
<1>1. all \in Text /\ merged \in Text /\ again \in Text
  BY TextAfterText, Merged
<1>2. Keys(merged) = K /\ Keys(again) = K
  <2>1. K = Keys(first) \cup Keys(second)
    BY TextAfterText
  <2>2. Keys(merged) = Keys(first) \cup Keys(second)
    BY Merged
  <2> HIDE DEF merged
  <2>3. Keys(again) = Keys(first) \cup Keys(merged)
    BY <1>1, TextAfterText
  <2> QED BY <2>1, <2>2, <2>3
<1>3. \A k \in K : LastVal(again, k) = LastVal(all, k)
  <2>1. \A k \in K : LastVal(merged, k) = LastVal(all, k)
    BY <1>1, JoinedIs DEF mergeCommaSeparatedKeyValuePairs
  <2> QED BY <1>1, <1>2, <2>1, TextAfterText
<1>4. K \in SUBSET ToSet(KeyOrder)
  BY <1>1, TextItems
<1>5. merged = Joined(all, Sorted(K))
      /\ mergeCommaSeparatedKeyValuePairs(first, merged) = Joined(again, Sorted(K))
  BY <1>2 DEF mergeCommaSeparatedKeyValuePairs
<1> HIDE DEF all, merged, again, K
<1>6. \A i \in DOMAIN Sorted(K) : Sorted(K)[i] \in K
  BY <1>4, SortedIs
<1>7. Joined(again, Sorted(K)) = Joined(all, Sorted(K))
  BY <1>3, <1>6 DEF Joined
<1> QED BY <1>5, <1>7 DEF merged

-----------------------------------------------------------------------------
(* The annotations *)

LEMMA TextOfType ==
  ASSUME NEW labels \in Text \cup {Unset}
  PROVE  TextOf(labels) \in Text /\ arch \in Text
<1>1. <<>> \in Text
  BY DEF Text
<1>2. arch \in Text
  BY LabelAssumption DEF arch, Text
<1> QED BY <1>1, <1>2 DEF TextOf

\* A valid template announces a machine with something of everything.
LEMMA AnnotationsTyped ==
  ASSUME NEW spec \in Template, Valid(spec), NEW ann \in AnnotationsType
  PROVE  Annotations(spec, ann) \in AnnotationsType
<1> DEFINE flavor == parseCloudscaleFlavor(spec.flavor)
<1>1. Len(spec.flavor) = 3
  BY DEF Valid, parseCloudscaleFlavor
<1>2. flavor.cpu \in Nat /\ flavor.memGB \in Nat
  BY <1>1, FlavorAssumption DEF parseCloudscaleFlavor, Template
<1>3. flavor.memGB * 1024 \in Nat
  BY <1>2
<1>4. spec.size \in Int \ {0}
  BY SizeAssumption DEF Valid, Template
<1>5. mergeCommaSeparatedKeyValuePairs(arch, TextOf(ann.labels)) \in Text
  <2>1. ann.labels \in Text \cup {Unset}
    BY DEF AnnotationsType
  <2> QED BY <2>1, TextOfType, Merged
<1> HIDE DEF flavor
<1>6. Annotations(spec, ann) =
        [cpu |-> flavor.cpu, memory |-> flavor.memGB * 1024, gpu |-> 0,
         disk |-> spec.size,
         labels |-> mergeCommaSeparatedKeyValuePairs(arch, TextOf(ann.labels))]
  BY DEF Annotations, flavor
<1> QED BY <1>2, <1>3, <1>4, <1>5, <1>6 DEF AnnotationsType, Amount

\* What a patch leaves: each annotation is the current or the updated one.
LEMMA PatchedTyped ==
  ASSUME NEW orig \in AnnotationsType, NEW updated \in AnnotationsType,
         NEW current \in AnnotationsType
  PROVE  /\ Patched(orig, updated, current) \in AnnotationsType
         /\ Patched(orig, updated, current).labels =
              IF updated.labels = orig.labels THEN current.labels
              ELSE updated.labels
<1> DEFINE One(k) == IF updated[k] = orig[k] THEN current[k] ELSE updated[k]
<1>1. Patched(orig, updated, current) =
        [cpu |-> One("cpu"), memory |-> One("memory"), gpu |-> One("gpu"),
         disk |-> One("disk"), labels |-> One("labels")]
  BY DEF Patched, AnnotationsType
<1> QED BY <1>1 DEF AnnotationsType

\* A patch from what is there to what should be there makes it so.
LEMMA PatchedFromCurrent ==
  ASSUME NEW orig \in AnnotationsType, NEW updated \in AnnotationsType
  PROVE  Patched(orig, updated, orig) = updated
BY DEF Patched, AnnotationsType

\* The annotations of the annotations are the annotations.
LEMMA AnnotationsSettle ==
  ASSUME NEW spec, NEW ann \in AnnotationsType
  PROVE  Annotations(spec, Annotations(spec, ann)) = Annotations(spec, ann)
<1> DEFINE text   == TextOf(ann.labels)
           merged == mergeCommaSeparatedKeyValuePairs(arch, text)
<1>1. text \in Text /\ arch \in Text
  BY TextOfType DEF AnnotationsType
<1> HIDE DEF text
<1>2. merged \in Text
      /\ mergeCommaSeparatedKeyValuePairs(arch, merged) = merged
  BY <1>1, Merged, MergedAgain
<1> HIDE DEF merged
<1>3. TextOf(merged) = merged
  BY <1>2, LabelAssumption DEF TextOf
<1>4. Annotations(spec, ann).labels = merged
  BY DEF Annotations, merged, text
<1> QED BY <1>2, <1>3, <1>4 DEF Annotations, merged, text

\* No label that was seen is missing from the annotations made from it.
LEMMA LabelsKept ==
  ASSUME NEW spec, NEW ann \in AnnotationsType
  PROVE  Labels(ann.labels) \subseteq Labels(Annotations(spec, ann).labels)
<1> DEFINE text   == TextOf(ann.labels)
           merged == mergeCommaSeparatedKeyValuePairs(arch, text)
<1>1. text \in Text /\ arch \in Text
  BY TextOfType DEF AnnotationsType
<1>2. Annotations(spec, ann).labels = merged
  BY DEF Annotations
<1> HIDE DEF text
<1>3. /\ merged \in Text /\ Keys(text) \subseteq Keys(merged)
      /\ \A k \in Keys(text) : LastVal(merged, k) = LastVal(text, k)
  BY <1>1, Merged
<1> HIDE DEF merged
<1>4. TextOf(merged) = merged
  BY <1>3, LabelAssumption DEF TextOf
<1> QED BY <1>2, <1>3, <1>4 DEF Labels, text

-----------------------------------------------------------------------------
(* The controller *)

LEMMA NothingThere ==
  /\ NoAnnotations \in AnnotationsType
  /\ NoSet \in Objects /\ [NoSet EXCEPT !.st = "gone"] \in Objects
BY DEF NoAnnotations, AnnotationsType, Amount, Objects

\* A MachineSet that is there has a template and annotations.
LEMMA Live ==
  ASSUME NEW o \in Objects, o.st \in {"live", "deleting"}
  PROVE  o \in [st : {"live", "deleting"}, spec : Template, ann : AnnotationsType]
BY DEF Objects, NoSet

LEMMA InitTyped == Init => TypeOK
BY NothingThere, SizeAssumption DEF Init, TypeOK

LEMMA ReconcileTyped ==
  ASSUME TypeOK, NEW ms \in MachineSet, Reconcile(ms)
  PROVE  TypeOK'
<1> DEFINE read    == cache[ms]
           updated == Annotations(read.spec, read.ann)
<1>1. read \in [st : {"live", "deleting"}, spec : Template, ann : AnnotationsType]
  BY Live DEF TypeOK, Reconcile
<1>2. /\ read.spec \in Template /\ read.ann \in AnnotationsType
      /\ Valid(read.spec) /\ updated # read.ann
  BY <1>1 DEF Reconcile
<1>3. updated \in AnnotationsType
  BY <1>2, AnnotationsTyped
<1>4. w' = [pc |-> "patch", ms |-> ms, orig |-> read.ann, updated |-> updated]
  BY DEF Reconcile
<1> HIDE DEF updated
<1>5. /\ w' \in [pc : {"patch"}, ms : MachineSet, orig : AnnotationsType,
                 updated : AnnotationsType]
      /\ w'.updated = Annotations(read.spec, w'.orig) /\ w'.updated # w'.orig
  BY <1>2, <1>3, <1>4 DEF updated
<1>6. UNCHANGED <<obj, cache, changes>>
  BY DEF Reconcile
<1> QED BY <1>2, <1>5, <1>6 DEF TypeOK

LEMMA PatchTyped ==
  ASSUME TypeOK, Patch
  PROVE  TypeOK'
<1>1. /\ w.ms \in MachineSet
      /\ w.orig \in AnnotationsType /\ w.updated \in AnnotationsType
  BY DEF TypeOK, Patch, Idle
<1>2. w' = Idle /\ cache' = cache
  BY DEF Patch
<1>3. changes' \in 0..MaxChanges
  BY SizeAssumption DEF TypeOK, Patch, Change
<1>4. obj' \in [MachineSet -> Objects]
  <2>1. CASE obj' = obj
    BY <2>1 DEF TypeOK
  <2>2. CASE /\ obj[w.ms].st \in {"live", "deleting"}
             /\ obj' = [obj EXCEPT ![w.ms].ann = Patched(w.orig, w.updated, @)]
    <3> DEFINE o == obj[w.ms]
               p == [o EXCEPT !.ann = Patched(w.orig, w.updated, o.ann)]
    <3>1. o \in [st : {"live", "deleting"}, spec : Template, ann : AnnotationsType]
      BY <1>1, <2>2, Live DEF TypeOK
    <3>2. Patched(w.orig, w.updated, o.ann) \in AnnotationsType
      BY <1>1, <3>1, PatchedTyped
    <3>3. p \in Objects
      BY <3>1, <3>2 DEF Objects
    <3>4. obj' = [obj EXCEPT ![w.ms] = p]
      BY <2>2
    <3> HIDE DEF p
    <3> QED BY <3>3, <3>4 DEF TypeOK
  <2> QED BY <2>1, <2>2 DEF Patch
<1> QED BY <1>2, <1>3, <1>4 DEF TypeOK

LEMMA UserCreatesTyped ==
  ASSUME TypeOK, NEW ms \in MachineSet, UserCreates(ms)
  PROVE  TypeOK'
<1>1. PICK spec \in Template, text \in UserText \cup {Unset} :
        obj' = [obj EXCEPT ![ms] = [st |-> "live", spec |-> spec,
                                    ann |-> [NoAnnotations EXCEPT
                                               !.labels = text]]]
  BY DEF UserCreates
<1>2. [NoAnnotations EXCEPT !.labels = text] \in AnnotationsType
  BY LabelAssumption DEF NoAnnotations, AnnotationsType, Amount
<1>3. [st |-> "live", spec |-> spec,
       ann |-> [NoAnnotations EXCEPT !.labels = text]] \in Objects
  BY <1>2 DEF Objects
<1>4. obj' \in [MachineSet -> Objects]
  BY <1>1, <1>3 DEF TypeOK
<1>5. UNCHANGED <<cache, w, changes>>
  BY DEF UserCreates
<1> QED BY <1>4, <1>5 DEF TypeOK

LEMMA UserEditsTyped ==
  ASSUME TypeOK, NEW ms \in MachineSet, UserEdits(ms)
  PROVE  TypeOK'
<1> DEFINE o == obj[ms]
           There == [st : {"live", "deleting"}, spec : Template,
                     ann : AnnotationsType]
<1>1. o \in There
  BY Live DEF TypeOK, UserEdits
<1>2. UNCHANGED <<cache, w>> /\ changes' \in 0..MaxChanges
  BY SizeAssumption DEF TypeOK, UserEdits, Change
<1>3. \E p \in There : obj' = [obj EXCEPT ![ms] = p]
  <2>1. ASSUME NEW spec \in Template, obj' = [obj EXCEPT ![ms].spec = spec]
        PROVE  \E p \in There : obj' = [obj EXCEPT ![ms] = p]
    <3>1. [o EXCEPT !.spec = spec] \in There
      BY <1>1
    <3> QED BY <2>1, <3>1
  <2>2. ASSUME NEW text \in UserText, obj' = [obj EXCEPT ![ms].ann.labels = text]
        PROVE  \E p \in There : obj' = [obj EXCEPT ![ms] = p]
    <3>1. [o.ann EXCEPT !.labels = text] \in AnnotationsType
      BY <1>1, LabelAssumption DEF AnnotationsType
    <3>2. [o EXCEPT !.ann = [o.ann EXCEPT !.labels = text]] \in There
      BY <1>1, <3>1
    <3>3. obj' = [obj EXCEPT ![ms] =
                    [o EXCEPT !.ann = [o.ann EXCEPT !.labels = text]]]
      BY <2>2
    <3> QED BY <3>2, <3>3
  <2>3. ASSUME NEW k \in {"cpu", "labels"},
               obj' = [obj EXCEPT ![ms].ann[k] = Unset]
        PROVE  \E p \in There : obj' = [obj EXCEPT ![ms] = p]
    <3>1. [o.ann EXCEPT ![k] = Unset] \in AnnotationsType
      BY <1>1 DEF AnnotationsType, Amount
    <3>2. [o EXCEPT !.ann = [o.ann EXCEPT ![k] = Unset]] \in There
      BY <1>1, <3>1
    <3>3. obj' = [obj EXCEPT ![ms] =
                    [o EXCEPT !.ann = [o.ann EXCEPT ![k] = Unset]]]
      BY <2>3
    <3> QED BY <3>2, <3>3
  <2> QED BY <2>1, <2>2, <2>3 DEF UserEdits
<1>4. There \subseteq Objects
  BY DEF Objects
<1>5. obj' \in [MachineSet -> Objects]
  BY <1>3, <1>4 DEF TypeOK
<1> QED BY <1>2, <1>5 DEF TypeOK

LEMMA UserDeletesTyped ==
  ASSUME TypeOK, NEW ms \in MachineSet, UserDeletes(ms)
  PROVE  TypeOK'
<1>1. obj' \in [MachineSet -> Objects]
  <2>1. CASE obj[ms].st = "live" /\ obj' = [obj EXCEPT ![ms].st = "deleting"]
    <3>1. [obj[ms] EXCEPT !.st = "deleting"] \in Objects
      BY <2>1, Live DEF TypeOK, Objects
    <3>2. obj' = [obj EXCEPT ![ms] = [obj[ms] EXCEPT !.st = "deleting"]]
      BY <2>1
    <3> QED BY <3>1, <3>2 DEF TypeOK
  <2>2. CASE obj' = [obj EXCEPT ![ms] = [NoSet EXCEPT !.st = "gone"]]
    BY <2>2, NothingThere DEF TypeOK
  <2> QED BY <2>1, <2>2 DEF UserDeletes
<1>2. UNCHANGED <<cache, w, changes>>
  BY DEF UserDeletes
<1> QED BY <1>1, <1>2 DEF TypeOK

LEMMA NextTyped == TypeOK /\ [Next]_vars => TypeOK'
<1> SUFFICES ASSUME TypeOK, [Next]_vars PROVE TypeOK'
  OBVIOUS
<1>1. ASSUME NEW ms \in MachineSet, Deliver(ms)
      PROVE  TypeOK'
  BY <1>1 DEF Deliver, TypeOK
<1>2. CASE UNCHANGED vars
  BY <1>2 DEF vars, TypeOK
<1> QED BY <1>1, <1>2, PatchTyped, ReconcileTyped, UserCreatesTyped,
           UserEditsTyped, UserDeletesTyped DEF Next, AllDeleted

\* Whatever users write, delete or change meanwhile, every annotation that is
\* set is a number or a text of labels and junk, no root volume of size 0 is
\* announced, and a patch is only made for a valid template and to change
\* something.
THEOREM TypeCorrect == Spec => []TypeOK
BY InitTyped, NextTyped, PTL DEF Spec

-----------------------------------------------------------------------------
(* The patches *)

\* The worker only puts a MachineSet down by patching it or failing to.
LEMMA OnlyPatch ==
  ASSUME [Next]_vars, w.pc = "patch", w' # w
  PROVE  Patch
BY DEF Next, vars, Reconcile, Deliver, UserCreates, UserEdits, UserDeletes,
       AllDeleted

LEMMA PatchingTyped ==
  ASSUME TypeOK, w.pc = "patch"
  PROVE  /\ w.ms \in MachineSet
         /\ w.orig \in AnnotationsType /\ w.updated \in AnnotationsType
         /\ \E spec \in Template :
              Valid(spec) /\ w.updated = Annotations(spec, w.orig)
BY DEF TypeOK, Idle

\* A successful patch merges the annotations.
LEMMA PatchStep ==
  ASSUME TypeOK, Patch, obj' # obj
  PROVE  LET o == obj[w.ms]
         IN  /\ o \in [st : {"live", "deleting"}, spec : Template,
                       ann : AnnotationsType]
             /\ obj'[w.ms].spec = o.spec
             /\ obj'[w.ms].ann = Patched(w.orig, w.updated, o.ann)
<1> DEFINE o == obj[w.ms]
<1>1. /\ o.st \in {"live", "deleting"}
      /\ obj' = [obj EXCEPT ![w.ms].ann = Patched(w.orig, w.updated, @)]
  BY DEF Patch
<1>2. w.ms \in MachineSet
  BY PatchingTyped DEF Patch
<1>3. o \in Objects /\ w.ms \in DOMAIN obj
  BY <1>2 DEF TypeOK
<1>4. o \in [st : {"live", "deleting"}, spec : Template, ann : AnnotationsType]
  BY <1>1, <1>3, Live
<1> QED BY <1>1, <1>3, <1>4

\* No patch takes away a label that the reconcile saw and that is still there:
\* texts of any length, in any order, with repeated keys and with junk.
THEOREM LabelsPreserved == Spec => SeenLabelsPreserved
<1> DEFINE Seen == w.pc = "patch" /\ w' # w =>
                     Labels(obj[w.ms].ann.labels) \cap Labels(w.orig.labels)
                       \subseteq Labels(obj'[w.ms].ann.labels)
<1>1. TypeOK /\ [Next]_vars => Seen
  <2> SUFFICES ASSUME TypeOK, [Next]_vars, w.pc = "patch", w' # w
               PROVE  Labels(obj[w.ms].ann.labels) \cap Labels(w.orig.labels)
                        \subseteq Labels(obj'[w.ms].ann.labels)
    OBVIOUS
  <2>1. Patch
    BY OnlyPatch
  <2>2. CASE obj' = obj
    BY <2>2
  <2>3. CASE obj' # obj
    <3>1. /\ obj[w.ms].ann \in AnnotationsType
          /\ obj'[w.ms].ann = Patched(w.orig, w.updated, obj[w.ms].ann)
      BY <2>1, <2>3, PatchStep
    <3>2. w.orig \in AnnotationsType /\ w.updated \in AnnotationsType
      BY PatchingTyped
    <3>3. obj'[w.ms].ann.labels = IF w.updated.labels = w.orig.labels
                                  THEN obj[w.ms].ann.labels
                                  ELSE w.updated.labels
      BY <3>1, <3>2, PatchedTyped
    <3>4. Labels(w.orig.labels) \subseteq Labels(w.updated.labels)
      BY <3>2, PatchingTyped, LabelsKept
    <3> QED BY <3>3, <3>4
  <2> QED BY <2>2, <2>3
<1>2. TypeOK /\ [Next]_vars => [Seen]_vars
  BY <1>1
<1>3. SeenLabelsPreserved <=> [][Seen]_vars
  BY DEF SeenLabelsPreserved
<1> QED BY <1>2, <1>3, TypeCorrect, PTL DEF Spec

\* A patch that is made from what is there is the last one: the annotations that
\* the next reconcile computes are the ones it finds.
THEOREM Settles == Spec => PatchSettles
<1> DEFINE Settled ==
             LET ms == w.ms IN
             w.pc = "patch" /\ w' # w /\ obj' # obj /\ Valid(obj[ms].spec)
               /\ w.orig = obj[ms].ann /\ w.updated = Annotations(obj[ms].spec, obj[ms].ann)
               => obj'[ms].ann = Annotations(obj'[ms].spec, obj'[ms].ann)
<1>1. TypeOK /\ [Next]_vars => Settled
  <2> DEFINE o == obj[w.ms]
  <2> SUFFICES ASSUME TypeOK, [Next]_vars, w.pc = "patch", w' # w, obj' # obj,
                      w.orig = o.ann, w.updated = Annotations(o.spec, o.ann)
               PROVE  obj'[w.ms].ann =
                        Annotations(obj'[w.ms].spec, obj'[w.ms].ann)
    OBVIOUS
  <2>1. Patch
    BY OnlyPatch
  <2>2. /\ obj'[w.ms].spec = o.spec
        /\ obj'[w.ms].ann = Patched(w.orig, w.updated, w.orig)
    BY <2>1, PatchStep
  <2>3. w.orig \in AnnotationsType /\ w.updated \in AnnotationsType
    BY PatchingTyped
  <2>4. obj'[w.ms].ann = Annotations(o.spec, w.orig)
    BY <2>2, <2>3, PatchedFromCurrent
  <2> QED BY <2>2, <2>3, <2>4, AnnotationsSettle
<1>2. TypeOK /\ [Next]_vars => [Settled]_vars
  BY <1>1
<1>3. PatchSettles <=> [][Settled]_vars
  BY DEF PatchSettles
<1> QED BY <1>2, <1>3, TypeCorrect, PTL DEF Spec
=============================================================================

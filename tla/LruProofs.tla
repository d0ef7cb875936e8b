------------------------------ MODULE LruProofs ------------------------------
(***************************************************************************)
(* The LRU cache of model/lru.go implements the bounded map of             *)
(* ObjectCache, and its count is the number of live entries, for every     *)
(* set of keys and values and every capacity.                              *)
(***************************************************************************)
EXTENDS Lru, FiniteSetTheorems, SequenceTheorems, TLAPS

\* s holds every member of D once.
Lists(s, D) ==
  /\ s \in Seq(Key)
  /\ \A i \in 1..Len(s) : s[i] \in D
  /\ \A k \in D : \E i \in 1..Len(s) : s[i] = k
  /\ \A i, j \in 1..Len(s) : s[i] = s[j] => i = j

\* The members of L come first in s.
Leads(L, s) == \A i, j \in 1..Len(s) : i < j /\ s[j] \in L => s[i] \in L

SameBut(k, L, M) == L \ {k} = M \ {k}

\* The entries that a lookup can return, unless they expire.
Live == {k \in DOMAIN items : Current(k)}

EntriesOK ==
  /\ now \in Nat
  /\ generation \in Nat
  /\ items \in [DOMAIN items -> Entry]
  /\ \A k \in DOMAIN items : items[k].generation <= generation

\* The recency list and the map agree, and entries of earlier generations have
\* sunk below the live ones: what a full cache evicts is live only if all are.
ListOK ==
  /\ Lists(evictList, DOMAIN items)
  /\ Leads(Live, evictList)
  /\ Len(evictList) <= Size

\* The count that Len reports is the number of live entries.
CountIsExact == len = Cardinality(Live)

LruInv == EntriesOK /\ ListOK /\ CountIsExact

-----------------------------------------------------------------------------
(* Lists of keys. *)

\* What is left of a list without its i-th element.
LEMMA RemoveAtElements ==
  ASSUME NEW s \in Seq(Key), NEW i \in 1..Len(s)
  PROVE  /\ RemoveAt(s, i) \in Seq(Key)
         /\ Len(RemoveAt(s, i)) = Len(s) - 1
         /\ \A j \in 1..Len(s) - 1 : RemoveAt(s, i)[j] = IF j < i THEN s[j] ELSE s[j + 1]
<1> DEFINE a == SubSeq(s, 1, i - 1)
           b == SubSeq(s, i + 1, Len(s))
<1>1. Len(s) \in Nat /\ \A j \in 1..Len(s) : s[j] \in Key
  BY LenProperties, ElementOfSeq
<1>2. a \in Seq(Key) /\ Len(a) = i - 1 /\ \A j \in 1..i-1 : a[j] = s[j]
  <2>1. \A j \in 1..(i - 1) : s[j] \in Key
    BY <1>1
  <2>2. /\ a \in Seq(Key)
        /\ Len(a) = IF 1 <= i - 1 THEN (i - 1) - 1 + 1 ELSE 0
        /\ \A j \in 1..((i - 1) - 1 + 1) : a[j] = s[1 + j - 1]
    BY <2>1, <1>1, SubSeqProperties
  <2> QED BY <2>2, <1>1
<1>3. /\ b \in Seq(Key) /\ Len(b) = Len(s) - i
      /\ \A j \in 1..Len(s) - i : b[j] = s[i + j]
  <2>1. \A j \in (i + 1)..Len(s) : s[j] \in Key
    BY <1>1
  <2>2. /\ b \in Seq(Key)
        /\ Len(b) = IF i + 1 <= Len(s) THEN Len(s) - (i + 1) + 1 ELSE 0
        /\ \A j \in 1..(Len(s) - (i + 1) + 1) : b[j] = s[(i + 1) + j - 1]
    BY <2>1, <1>1, SubSeqProperties
  <2> QED BY <2>2, <1>1
<1>4. RemoveAt(s, i) = a \o b
  BY DEF RemoveAt
<1> HIDE DEF a, b
<1>5. /\ a \o b \in Seq(Key)
      /\ Len(a \o b) = Len(a) + Len(b)
      /\ \A j \in 1..Len(a) + Len(b) : (a \o b)[j] = IF j <= Len(a) THEN a[j] ELSE b[j - Len(a)]
  <2>1. a \in Seq(Key) /\ b \in Seq(Key)
    BY <1>2, <1>3
  <2> QED BY <2>1, ConcatProperties
<1>6. Len(a \o b) = Len(s) - 1
  BY <1>1, <1>2, <1>3, <1>5
<1>7. ASSUME NEW j \in 1..Len(s) - 1 PROVE (a \o b)[j] = IF j < i THEN s[j] ELSE s[j + 1]
  <2>1. (a \o b)[j] = IF j <= i - 1 THEN a[j] ELSE b[j - (i - 1)]
    BY <1>1, <1>2, <1>3, <1>5
  <2>2. CASE j < i
    BY <2>1, <2>2, <1>1, <1>2
  <2>3. CASE ~(j < i)
    <3>1. j - (i - 1) \in 1..Len(s) - i /\ i + (j - (i - 1)) = j + 1
      BY <2>3, <1>1
    <3>2. b[j - (i - 1)] = s[i + (j - (i - 1))]
      BY <3>1, <1>3
    <3> QED BY <2>1, <2>3, <3>1, <3>2, <1>1
  <2> QED BY <2>2, <2>3, Zenon
<1> QED BY <1>4, <1>5, <1>6, <1>7

\* Removing the i-th element takes it, and nothing else, off the list.
LEMMA Removes ==
  ASSUME NEW D, NEW L, NEW M, NEW s, Lists(s, D), Leads(L, s),
         NEW i \in 1..Len(s), SameBut(s[i], L, M)
  PROVE  Lists(RemoveAt(s, i), D \ {s[i]}) /\ Leads(M, RemoveAt(s, i))
<1> DEFINE t == RemoveAt(s, i)
<1>1. s \in Seq(Key) /\ Len(s) \in Nat
  BY LenProperties DEF Lists
<1>2. /\ t \in Seq(Key) /\ Len(t) = Len(s) - 1
      /\ \A j \in 1..Len(s) - 1 : t[j] = IF j < i THEN s[j] ELSE s[j + 1]
  BY <1>1, RemoveAtElements
<1> HIDE DEF t
<1>3. ASSUME NEW j \in 1..Len(t)
      PROVE  \E p \in 1..Len(s) : t[j] = s[p] /\ p # i /\ p = IF j < i THEN j ELSE j + 1
  <2>1. CASE j < i
    <3>1. j \in 1..Len(s) /\ t[j] = s[j] /\ j # i
      BY <1>1, <1>2, <2>1
    <3> QED BY <2>1, <3>1
  <2>2. CASE ~(j < i)
    <3>1. j + 1 \in 1..Len(s) /\ t[j] = s[j + 1] /\ j + 1 # i
      BY <1>1, <1>2, <2>2
    <3> QED BY <2>2, <3>1
  <2> QED BY <2>1, <2>2
<1>4. ASSUME NEW k \in D \ {s[i]} PROVE \E j \in 1..Len(t) : t[j] = k
  <2>1. PICK j \in 1..Len(s) : s[j] = k /\ j # i
    BY DEF Lists
  <2>2. CASE j < i
    <3>1. j \in 1..Len(t) /\ t[j] = s[j]
      BY <2>2, <1>1, <1>2
    <3> QED BY <3>1, <2>1
  <2>3. CASE j > i
    <3>1. j - 1 \in 1..Len(t) /\ t[j - 1] = s[j]
      BY <2>3, <1>1, <1>2
    <3> QED BY <3>1, <2>1
  <2> QED BY <2>1, <2>2, <2>3
<1>5. ASSUME NEW j \in 1..Len(t) PROVE t[j] \in D \ {s[i]}
  <2>1. PICK p \in 1..Len(s) : t[j] = s[p] /\ p # i
    BY <1>3
  <2> QED BY <2>1 DEF Lists
<1>6. ASSUME NEW j \in 1..Len(t), NEW m \in 1..Len(t), t[j] = t[m] PROVE j = m
  <2>1. PICK p \in 1..Len(s) : t[j] = s[p] /\ p = IF j < i THEN j ELSE j + 1
    BY <1>3
  <2>2. PICK q \in 1..Len(s) : t[m] = s[q] /\ q = IF m < i THEN m ELSE m + 1
    BY <1>3
  <2>3. p = q
    BY <1>6, <2>1, <2>2, Zenon DEF Lists
  <2> QED BY <2>1, <2>2, <2>3
<1>7. ASSUME NEW j \in 1..Len(t), NEW m \in 1..Len(t), j < m, t[m] \in M PROVE t[j] \in M
  <2>1. t[m] \in L /\ t[j] # s[i]
    BY <1>5, <1>7 DEF SameBut
  <2>2. PICK p \in 1..Len(s) : t[j] = s[p] /\ p = IF j < i THEN j ELSE j + 1
    BY <1>3
  <2>3. PICK q \in 1..Len(s) : t[m] = s[q] /\ q = IF m < i THEN m ELSE m + 1
    BY <1>3
  <2>4. p < q
    BY <1>7, <2>2, <2>3
  <2>5. t[j] \in L
    BY <2>1, <2>2, <2>3, <2>4 DEF Leads
  <2> QED BY <2>1, <2>5 DEF SameBut
<1>8. Lists(t, D \ {s[i]})
  BY <1>2, <1>4, <1>5, <1>6 DEF Lists
<1>9. Leads(M, t)
  BY <1>7 DEF Leads
<1> QED BY <1>8, <1>9 DEF t

\* A list with one more element at the front.
LEMMA PushElements ==
  ASSUME NEW s \in Seq(Key), NEW k \in Key
  PROVE  /\ <<k>> \o s \in Seq(Key)
         /\ Len(<<k>> \o s) = Len(s) + 1
         /\ (<<k>> \o s)[1] = k
         /\ \A j \in 1..Len(s) : (<<k>> \o s)[j + 1] = s[j]
<1> DEFINE f == <<k>>
<1>1. f \in Seq(Key) /\ Len(f) = 1 /\ f[1] = k
  OBVIOUS
<1>2. Len(s) \in Nat
  BY LenProperties
<1> HIDE DEF f
<1>3. /\ f \o s \in Seq(Key)
      /\ Len(f \o s) = Len(f) + Len(s)
      /\ \A i \in 1..Len(f) + Len(s) : (f \o s)[i] = IF i <= Len(f) THEN f[i] ELSE s[i - Len(f)]
  BY SMTT(30), <1>1, ConcatProperties
<1>4. (f \o s)[1] = k
  BY <1>1, <1>2, <1>3
<1>5. ASSUME NEW j \in 1..Len(s) PROVE (f \o s)[j + 1] = s[j]
  <2>1. j + 1 \in 1..Len(f) + Len(s) /\ ~(j + 1 <= Len(f)) /\ (j + 1) - Len(f) = j
    BY <1>1, <1>2
  <2> QED BY <1>3, <2>1
<1>6. Len(f \o s) = Len(s) + 1
  BY <1>1, <1>2, <1>3
<1> QED BY <1>3, <1>4, <1>5, <1>6 DEF f

\* A new key at the front.
LEMMA Pushes ==
  ASSUME NEW D, NEW L, NEW M, NEW s, Lists(s, D), Leads(L, s),
         NEW k \in Key, k \notin D, k \in M, SameBut(k, L, M)
  PROVE  Lists(<<k>> \o s, D \cup {k}) /\ Leads(M, <<k>> \o s)
<1> DEFINE t == <<k>> \o s
<1>1. s \in Seq(Key) /\ Len(s) \in Nat
  BY LenProperties DEF Lists
<1>2. /\ t \in Seq(Key) /\ Len(t) = Len(s) + 1
      /\ t[1] = k
      /\ \A j \in 1..Len(s) : t[j + 1] = s[j]
  BY <1>1, PushElements
<1> HIDE DEF t
<1>3. ASSUME NEW j \in 1..Len(t), j # 1
      PROVE  \E p \in 1..Len(s) : p = j - 1 /\ t[j] = s[p]
  <2>1. j - 1 \in 1..Len(s) /\ (j - 1) + 1 = j
    BY <1>1, <1>2, <1>3
  <2>2. t[j] = s[j - 1]
    BY <1>2, <2>1
  <2> QED BY <2>1, <2>2
<1>4. ASSUME NEW j \in 1..Len(t) PROVE t[j] \in D \cup {k}
  BY <1>2, <1>3, Zenon DEF Lists
<1>5. ASSUME NEW x \in D \cup {k} PROVE \E j \in 1..Len(t) : t[j] = x
  <2>1. CASE x = k
    BY <2>1, <1>1, <1>2
  <2>2. CASE x \in D
    <3>1. PICK j \in 1..Len(s) : s[j] = x
      BY <2>2 DEF Lists
    <3>2. j + 1 \in 1..Len(t) /\ t[j + 1] = x
      BY <3>1, <1>1, <1>2
    <3> QED BY <3>2
  <2> QED BY <2>1, <2>2
<1>6. ASSUME NEW j \in 1..Len(t), NEW m \in 1..Len(t), t[j] = t[m] PROVE j = m
  <2>1. CASE j # 1 /\ m # 1
    <3>1. PICK p \in 1..Len(s) : p = j - 1 /\ t[j] = s[p]
      BY <2>1, <1>3
    <3>2. PICK q \in 1..Len(s) : q = m - 1 /\ t[m] = s[q]
      BY <2>1, <1>3
    <3>3. p = q
      BY <1>6, <3>1, <3>2, Zenon DEF Lists
    <3> QED BY <3>1, <3>2, <3>3, <1>1, <1>2
  <2>2. ASSUME NEW n \in 1..Len(t), n # 1 PROVE t[n] # k
    BY <2>2, <1>3 DEF Lists
  <2>3. CASE j = 1 \/ m = 1
    BY <1>6, <2>2, <2>3, <1>2
  <2> QED BY <2>1, <2>3
<1>7. ASSUME NEW j \in 1..Len(t), NEW m \in 1..Len(t), j < m, t[m] \in M PROVE t[j] \in M
  <2>1. CASE j = 1
    BY <2>1, <1>2
  <2>2. CASE j # 1
    <3>1. PICK p \in 1..Len(s) : p = j - 1 /\ t[j] = s[p]
      BY <2>2, <1>3
    <3>2. PICK q \in 1..Len(s) : q = m - 1 /\ t[m] = s[q]
      BY <2>2, <1>7, <1>3
    <3>3. p < q
      BY <1>7, <3>1, <3>2
    <3>4. t[m] \in L /\ t[j] # k
      BY <1>7, <3>1, <3>2 DEF Lists, SameBut
    <3>5. t[j] \in L
      BY <3>1, <3>2, <3>3, <3>4 DEF Leads
    <3> QED BY <3>4, <3>5 DEF SameBut
  <2> QED BY <2>1, <2>2
<1>8. Lists(t, D \cup {k})
  BY <1>2, <1>4, <1>5, <1>6 DEF Lists
<1>9. Leads(M, t)
  BY <1>7 DEF Leads
<1> QED BY <1>8, <1>9 DEF t

\* A list has as many elements as the set it lists.
LEMMA Counts ==
  ASSUME NEW D, NEW s, Lists(s, D)
  PROVE  IsFiniteSet(D) /\ Cardinality(D) = Len(s)
<1>1. Len(s) \in Nat /\ s \in [1..Len(s) -> D] /\ DOMAIN s = 1..Len(s)
  BY LenProperties DEF Lists
<1>2. s \in Bijection(1..Len(s), D)
  BY <1>1 DEF Bijection, Injection, Surjection, IsInjective, Lists
<1>3. ExistsBijection(1..Len(s), D)
  BY <1>2 DEF ExistsBijection
<1> QED BY <1>1, <1>3, FS_NatBijection, FS_CountingElements

-----------------------------------------------------------------------------
(* The invariant. *)

\* The element of a key is where the list has it.
LEMMA ElementFound ==
  ASSUME ListOK, NEW k \in DOMAIN items
  PROVE  Element(k) \in 1..Len(evictList) /\ evictList[Element(k)] = k
<1>1. \E i \in DOMAIN evictList : evictList[i] = k
  BY LenProperties DEF ListOK, Lists
<1>2. Element(k) \in DOMAIN evictList /\ evictList[Element(k)] = k
  BY <1>1 DEF Element
<1> QED BY <1>2, LenProperties DEF ListOK, Lists

\* The list without a key, and with the key moved to its front.
LEMMA TakesOff ==
  ASSUME ListOK, NEW k \in DOMAIN items, NEW M, SameBut(k, Live, M)
  PROVE  /\ Lists(Without(k), DOMAIN items \ {k})
         /\ Leads(M, Without(k))
         /\ Len(Without(k)) = Len(evictList) - 1
<1>1. Element(k) \in 1..Len(evictList) /\ evictList[Element(k)] = k
  BY ElementFound
<1>2. Lists(evictList, DOMAIN items) /\ Leads(Live, evictList)
  BY DEF ListOK
<1>3. PICK i \in 1..Len(evictList) : i = Element(k) /\ evictList[i] = k
  BY <1>1
<1>4. SameBut(evictList[i], Live, M)
  BY <1>3
<1>5. /\ Lists(RemoveAt(evictList, i), DOMAIN items \ {evictList[i]})
      /\ Leads(M, RemoveAt(evictList, i))
  BY <1>2, <1>4, Removes, Zenon
<1>6. Len(RemoveAt(evictList, i)) = Len(evictList) - 1
  BY <1>2, RemoveAtElements DEF Lists
<1> QED BY <1>3, <1>5, <1>6 DEF Without

\* A key that is moved to the front of the list must be live there.
LEMMA MovesUp ==
  ASSUME ListOK, NEW k \in DOMAIN items, NEW M, SameBut(k, Live, M), k \in M
  PROVE  /\ Lists(ToFront(k), DOMAIN items)
         /\ Leads(M, ToFront(k))
         /\ Len(ToFront(k)) = Len(evictList)
<1>1. /\ Lists(Without(k), DOMAIN items \ {k})
      /\ Leads(Live, Without(k))
      /\ Len(Without(k)) = Len(evictList) - 1
  <2>1. SameBut(k, Live, Live)
    BY DEF SameBut
  <2> QED BY <2>1, TakesOff, Zenon
<1>2. k \in Key /\ Len(evictList) \in Nat
  <2>1. evictList \in Seq(Key) /\ \E i \in 1..Len(evictList) : evictList[i] = k
    BY ElementFound DEF ListOK, Lists
  <2> QED BY <2>1, ElementOfSeq, LenProperties
<1>3. k \notin DOMAIN items \ {k}
  OBVIOUS
<1>4. /\ Lists(<<k>> \o Without(k), (DOMAIN items \ {k}) \cup {k})
      /\ Leads(M, <<k>> \o Without(k))
  BY <1>1, <1>2, <1>3, Pushes, Zenon
<1>5. Len(<<k>> \o Without(k)) = Len(Without(k)) + 1
  BY <1>1, <1>2, PushElements DEF Lists
<1>6. (DOMAIN items \ {k}) \cup {k} = DOMAIN items
  OBVIOUS
<1> QED BY <1>1, <1>2, <1>4, <1>5, <1>6 DEF ToFront

\* The live entries are finitely many, and no more than the list holds.
LEMMA LiveIsFinite ==
  ASSUME ListOK
  PROVE  IsFiniteSet(Live) /\ Cardinality(Live) \in Nat
<1>1. IsFiniteSet(DOMAIN items) /\ Live \in SUBSET DOMAIN items
  BY Counts DEF ListOK, Live
<1> QED BY <1>1, FS_Subset, FS_CardinalityType

\* Removing an entry.
LEMMA RemoveElementStep ==
  ASSUME LruInv, NEW k \in DOMAIN items, RemoveElement(k), UNCHANGED <<generation, now>>
  PROVE  LruInv' /\ Live' = Live \ {k} /\ \A j \in DOMAIN items' : items'[j] = items[j]
<1>1. /\ DOMAIN items' = DOMAIN items \ {k}
      /\ \A j \in DOMAIN items' : items'[j] = items[j]
      /\ items' = [j \in DOMAIN items \ {k} |-> items[j]]
  BY DEF RemoveElement, Drop, Restrict
<1>2. Live' = Live \ {k}
  BY <1>1 DEF Live, Current
<1>3. EntriesOK'
  BY <1>1 DEF LruInv, EntriesOK
<1>4. ListOK'
  <2>1. /\ Lists(evictList', DOMAIN items')
        /\ Leads(Live', evictList')
        /\ Len(evictList') = Len(evictList) - 1
    <3>1. SameBut(k, Live, Live')
      BY <1>2 DEF SameBut
    <3>2. /\ Lists(Without(k), DOMAIN items \ {k})
          /\ Leads(Live', Without(k))
          /\ Len(Without(k)) = Len(evictList) - 1
      BY <3>1, TakesOff, Zenon DEF LruInv
    <3> QED BY <1>1, <3>2 DEF RemoveElement
  <2>2. Len(evictList) \in Nat
    BY LenProperties DEF LruInv, ListOK, Lists
  <2> QED BY <2>1, <2>2, SizeAssumption DEF LruInv, ListOK
<1>5. CountIsExact'
  <2>1. k \in Live <=> Current(k)
    BY DEF Live
  <2> QED BY <1>2, <2>1, LiveIsFinite, FS_RemoveElement, Zenon DEF LruInv, CountIsExact, RemoveElement
<1> QED BY <1>1, <1>2, <1>3, <1>4, <1>5 DEF LruInv

\* Storing under a key that is there.
LEMMA OverwriteStep ==
  ASSUME LruInv, NEW k \in Key, NEW e \in Entry, e.generation = generation,
         Overwrite(k, e), UNCHANGED <<generation, now>>
  PROVE  /\ LruInv' /\ Live' = Live \cup {k} /\ items'[k] = e
         /\ \A j \in DOMAIN items \ {k} : items'[j] = items[j]
         /\ Cardinality(Live \ {k}) < Size
<1>1. /\ k \in DOMAIN items /\ items' = [items EXCEPT ![k] = e]
      /\ DOMAIN items' = DOMAIN items /\ items'[k] = e
      /\ \A j \in DOMAIN items \ {k} : items'[j] = items[j]
  BY DEF LruInv, EntriesOK, Overwrite
<1>2. Live' = Live \cup {k}
  BY <1>1 DEF Live, Current
<1>3. EntriesOK'
  BY <1>1 DEF LruInv, EntriesOK
<1>4. ListOK'
  <2>1. /\ Lists(evictList', DOMAIN items')
        /\ Leads(Live', evictList')
        /\ Len(evictList') = Len(evictList)
    <3>1. k \in Live' /\ SameBut(k, Live, Live')
      BY <1>2 DEF SameBut
    <3>2. /\ Lists(ToFront(k), DOMAIN items)
          /\ Leads(Live', ToFront(k))
          /\ Len(ToFront(k)) = Len(evictList)
      BY <1>1, <3>1, MovesUp DEF LruInv
    <3> QED BY <1>1, <3>2 DEF Overwrite
  <2> QED BY <2>1 DEF LruInv, ListOK
<1>5. CountIsExact'
  <2>1. k \in Live <=> Current(k)
    BY <1>1 DEF Live
  <2> QED BY <1>2, <2>1, LiveIsFinite, FS_AddElement, Zenon DEF LruInv, CountIsExact, Overwrite
<1>6. Cardinality(Live \ {k}) < Size
  <2>1. /\ IsFiniteSet(DOMAIN items \ {k})
        /\ Cardinality(DOMAIN items \ {k}) = Len(evictList) - 1
    BY <1>1, Counts, FS_RemoveElement, Zenon DEF LruInv, ListOK
  <2>2. (Live \ {k}) \in SUBSET (DOMAIN items \ {k})
    BY DEF Live
  <2>3. Cardinality(Live \ {k}) <= Len(evictList) - 1 /\ Cardinality(Live \ {k}) \in Nat
    BY <2>1, <2>2, FS_Subset, FS_CardinalityType
  <2>4. Len(evictList) \in Nat /\ Len(evictList) <= Size
    BY LenProperties DEF LruInv, ListOK, Lists
  <2> QED BY <2>3, <2>4, SizeAssumption
<1> QED BY <1>1, <1>2, <1>3, <1>4, <1>5, <1>6 DEF LruInv

\* A new key while there is room.
LEMMA InsertStep ==
  ASSUME LruInv, NEW k \in Key, NEW e \in Entry, e.generation = generation,
         Insert(k, e), Len(evictList) < Size, UNCHANGED <<generation, now>>
  PROVE  /\ LruInv' /\ Live' = Live \cup {k} /\ items'[k] = e
         /\ \A j \in DOMAIN items : items'[j] = items[j]
         /\ Cardinality(Live \ {k}) < Size
<1>1. evictList \in Seq(Key) /\ Len(evictList) \in Nat /\ k \notin DOMAIN items
  BY LenProperties DEF LruInv, ListOK, Lists, Insert
<1>2. Len(<<k>> \o evictList) = Len(evictList) + 1
  BY <1>1, PushElements
<1>3. /\ evictList' = <<k>> \o evictList
      /\ items' = With(items, k, e)
      /\ len' = len + 1
  BY <1>1, <1>2, SizeAssumption DEF Insert
<1>4. /\ DOMAIN items' = DOMAIN items \cup {k}
      /\ items'[k] = e
      /\ \A j \in DOMAIN items : items'[j] = items[j]
      /\ items' = [j \in DOMAIN items \cup {k} |-> items'[j]]
  BY <1>1, <1>3 DEF With
<1>5. Live' = Live \cup {k}
  BY <1>1, <1>4 DEF Live, Current
<1>6. EntriesOK'
  BY <1>4 DEF LruInv, EntriesOK
<1>7. ListOK'
  <2>1. k \in Live' /\ SameBut(k, Live, Live')
    BY <1>5 DEF SameBut
  <2>2. Lists(evictList, DOMAIN items) /\ Leads(Live, evictList)
    BY DEF LruInv, ListOK
  <2>3. Lists(<<k>> \o evictList, DOMAIN items \cup {k}) /\ Leads(Live', <<k>> \o evictList)
    BY <1>1, <2>1, <2>2, Pushes, Zenon
  <2> QED BY <1>1, <1>2, <1>3, <1>4, <2>3, SizeAssumption DEF ListOK
<1>8. k \notin Live
  BY <1>1 DEF Live
<1>9. CountIsExact'
  BY <1>3, <1>5, <1>8, LiveIsFinite, FS_AddElement, Zenon DEF LruInv, CountIsExact
<1>10. Cardinality(Live \ {k}) < Size
  <2>1. IsFiniteSet(DOMAIN items) /\ Cardinality(DOMAIN items) = Len(evictList)
    BY Counts DEF LruInv, ListOK
  <2>2. (Live \ {k}) \in SUBSET DOMAIN items
    BY DEF Live
  <2>3. Cardinality(Live \ {k}) <= Len(evictList) /\ Cardinality(Live \ {k}) \in Nat
    BY <2>1, <2>2, FS_Subset, FS_CardinalityType
  <2> QED BY <1>1, <2>3, SizeAssumption
<1> QED BY <1>4, <1>5, <1>6, <1>7, <1>9, <1>10 DEF LruInv

\* A new key in a full cache takes the place of one entry, and of a live one
\* only if all are live.
LEMMA EvictStep ==
  ASSUME LruInv, NEW k \in Key, NEW e \in Entry, e.generation = generation,
         Insert(k, e), ~(Len(evictList) < Size), UNCHANGED <<generation, now>>
  PROVE  /\ LruInv' /\ items'[k] = e
         /\ \A j \in DOMAIN items \cap DOMAIN items' : items'[j] = items[j]
         /\ \E old \in DOMAIN items \ {k} :
              /\ Live' = (Live \cup {k}) \ {old}
              /\ IF old \in Live THEN Cardinality(Live \ {k}) = Size
                 ELSE Cardinality(Live \ {k}) < Size
<1> DEFINE n == Len(evictList)
           list == <<k>> \o evictList
           old == evictList[n]
<1>1. evictList \in Seq(Key) /\ n \in Nat /\ k \notin DOMAIN items /\ n = Size /\ n \in 1..n
  <2>1. evictList \in Seq(Key) /\ n \in Nat /\ n <= Size /\ k \notin DOMAIN items
    BY LenProperties DEF LruInv, ListOK, Lists, Insert
  <2> QED BY <2>1, SizeAssumption
<1>2. old \in DOMAIN items /\ old # k
  BY <1>1 DEF LruInv, ListOK, Lists
<1>3. list \in Seq(Key) /\ Len(list) = n + 1 /\ list[n + 1] = old
  BY <1>1, PushElements
<1>4. list[Len(list)] = old /\ Len(list) > Size
  BY <1>1, <1>3, SizeAssumption
<1>5. /\ evictList' = RemoveAt(list, Len(list))
      /\ items' = Drop(With(items, k, e), old)
      /\ len' = IF Current(old) THEN len ELSE len + 1
  BY <1>4 DEF Insert
<1>6. /\ DOMAIN items' = (DOMAIN items \cup {k}) \ {old}
      /\ items'[k] = e
      /\ \A j \in DOMAIN items \ {old} : items'[j] = items[j]
      /\ items' = [j \in (DOMAIN items \cup {k}) \ {old} |-> items'[j]]
  BY <1>1, <1>2, <1>5 DEF With, Drop, Restrict
<1> HIDE DEF n, list, old
<1>7. Live' = (Live \cup {k}) \ {old}
  BY <1>1, <1>2, <1>6 DEF Live, Current
<1>8. EntriesOK'
  BY <1>2, <1>6 DEF LruInv, EntriesOK
<1>9. ListOK'
  <2>1. Lists(evictList, DOMAIN items) /\ Leads(Live, evictList)
    BY DEF LruInv, ListOK
  <2>2. k \in Live \cup {k} /\ SameBut(k, Live, Live \cup {k})
    BY DEF SameBut
  <2>3. Lists(list, DOMAIN items \cup {k}) /\ Leads(Live \cup {k}, list)
    BY <1>1, <2>1, <2>2, Pushes, Zenon DEF list
  <2>4. Len(list) = n + 1 /\ n + 1 \in 1..Len(list)
    BY <1>1, <1>3
  <2>5. SameBut(list[n + 1], Live \cup {k}, Live')
    BY <1>3, <1>7 DEF SameBut
  <2>6. /\ Lists(RemoveAt(list, n + 1), (DOMAIN items \cup {k}) \ {list[n + 1]})
        /\ Leads(Live', RemoveAt(list, n + 1))
    BY <2>3, <2>4, <2>5, Removes, Zenon
  <2>7. Len(RemoveAt(list, n + 1)) = Len(list) - 1
    BY <1>3, <2>4, RemoveAtElements
  <2> QED BY <1>1, <1>3, <1>5, <1>6, <2>4, <2>6, <2>7 DEF ListOK
<1>10. k \notin Live /\ Live \ {k} = Live /\ (old \in Live <=> Current(old))
  BY <1>1, <1>2 DEF Live
<1>11. CountIsExact'
  <2> DEFINE S == Live \cup {k}
  <2>1. /\ IsFiniteSet(S) /\ Cardinality(S) = Cardinality(Live) + 1
        /\ Cardinality(Live) \in Nat
    BY <1>10, LiveIsFinite, FS_AddElement DEF LruInv
  <2>2. Live' = S \ {old} /\ (old \in S <=> Current(old))
    BY <1>2, <1>7, <1>10
  <2> HIDE DEF S
  <2>3. Cardinality(S \ {old}) = IF old \in S THEN Cardinality(S) - 1 ELSE Cardinality(S)
    BY <2>1, FS_RemoveElement, Zenon
  <2>4. Cardinality(Live') = Cardinality(S \ {old})
    BY <2>2
  <2>5. len = Cardinality(Live)
    BY DEF LruInv, CountIsExact
  <2>6. len' = Cardinality(Live')
    BY <1>5, <2>1, <2>2, <2>3, <2>4, <2>5
  <2> QED BY <2>6 DEF CountIsExact
<1>12. IF old \in Live THEN Cardinality(Live \ {k}) = Size ELSE Cardinality(Live \ {k}) < Size
  <2>1. IsFiniteSet(DOMAIN items) /\ Cardinality(DOMAIN items) = n
    BY Counts DEF LruInv, ListOK, n
  <2>2. CASE old \in Live
    <3>1. \A i \in 1..n : evictList[i] \in Live
      BY <1>1, <2>2 DEF LruInv, ListOK, Leads, n, old
    <3>2. Live = DOMAIN items
      <4>1. \A j \in DOMAIN items : \E i \in 1..n : evictList[i] = j
        BY DEF LruInv, ListOK, Lists, n
      <4>2. \A j \in DOMAIN items : j \in Live
        BY <3>1, <4>1
      <4>3. \A j \in Live : j \in DOMAIN items
        BY DEF Live
      <4> QED BY <4>2, <4>3, Zenon
    <3> QED BY <1>1, <1>10, <2>1, <2>2, <3>2
  <2>3. CASE old \notin Live
    <3>1. /\ IsFiniteSet(DOMAIN items \ {old})
          /\ Cardinality(DOMAIN items \ {old}) = n - 1
      BY <1>2, <2>1, FS_RemoveElement
    <3>2. Live \in SUBSET (DOMAIN items \ {old})
      BY <2>3 DEF Live
    <3>3. Cardinality(Live) <= n - 1 /\ Cardinality(Live) \in Nat
      BY <3>1, <3>2, FS_Subset, FS_CardinalityType
    <3>4. Cardinality(Live) < Size
      BY <1>1, <3>3
    <3> QED BY <1>10, <2>3, <3>4, Zenon
  <2> QED BY <2>2, <2>3
<1>13. LruInv' /\ \A j \in DOMAIN items \cap DOMAIN items' : items'[j] = items[j]
  BY <1>6, <1>8, <1>9, <1>11 DEF LruInv
<1> QED BY <1>2, <1>6, <1>7, <1>12, <1>13

-----------------------------------------------------------------------------
(* The abstract map. *)

\* The map has the values of the live entries.
MapIsLive ==
  /\ AbstractMap = [j \in Key |-> AbstractMap[j]]
  /\ \A j \in Live : j \in Key /\ AbstractMap[j] = items[j].value /\ AbstractMap[j] # None
  /\ \A j \in Key \ Live : AbstractMap[j] = None

\* It does while the invariant holds.
LEMMA MapValues == LruInv => MapIsLive
<1> SUFFICES ASSUME LruInv PROVE MapIsLive
  OBVIOUS
<1>1. \A j \in DOMAIN items : j \in Key
  <2>1. /\ evictList \in Seq(Key)
        /\ \A j \in DOMAIN items : \E i \in 1..Len(evictList) : evictList[i] = j
    BY DEF LruInv, ListOK, Lists
  <2> QED BY <2>1, ElementOfSeq
<1>2. \A j \in DOMAIN items : items[j].value \in Value
  BY DEF LruInv, EntriesOK, Entry
<1> QED BY <1>1, <1>2, NoneAssumption DEF AbstractMap, Live, MapIsLive

\* The keys that the map stores are those of the live entries.
LEMMA StoresLive ==
  ASSUME LruInv
  PROVE  Map!Stored(AbstractMap) = Live
BY MapValues DEF MapIsLive, Map!Stored

\* Counting in ObjectCache is counting here.
LEMMA SameCount ==
  ASSUME NEW S
  PROVE  Map!Cardinality(S) = Cardinality(S)
BY Zenon DEF Cardinality, Map!Cardinality

\* Storing without forgetting.
LEMMA PutsIntoRoom ==
  ASSUME LruInv, LruInv', NEW k \in Key, NEW v, items'[k].value = v, ret' = ret,
         Live' = Live \cup {k}, \A j \in Live \ {k} : items'[j] = items[j],
         Cardinality(Live \ {k}) < Size
  PROVE  Map!Put(k, v)
<1>1. Map!Stored(AbstractMap) = Live
  BY StoresLive
<1>2. MapIsLive /\ MapIsLive'
  BY MapValues, PTL
<1>3. AbstractMap' = [AbstractMap EXCEPT ![k] = v]
  BY <1>2 DEF MapIsLive
<1>4. Cardinality(Map!Stored(AbstractMap) \ {k}) < Size
  BY <1>1
<1>5. IF Map!Cardinality(Map!Stored(AbstractMap) \ {k}) < Size
      THEN AbstractMap' = [AbstractMap EXCEPT ![k] = v]
      ELSE \E old \in Map!Stored(AbstractMap) \ {k} :
             AbstractMap' = [AbstractMap EXCEPT ![k] = v, ![old] = None]
  BY <1>3, <1>4, SameCount, Zenon
<1> QED BY <1>5, Zenon DEF Map!Put

\* Storing into a full map forgets another key.
LEMMA PutsForOld ==
  ASSUME LruInv, LruInv', NEW k \in Key, NEW v, items'[k].value = v, ret' = ret,
         NEW old \in Live, old # k, Live' = (Live \cup {k}) \ {old},
         \A j \in (Live \cap Live') \ {k} : items'[j] = items[j],
         Cardinality(Live \ {k}) = Size
  PROVE  Map!Put(k, v)
<1>1. Map!Stored(AbstractMap) = Live
  BY StoresLive
<1>2. MapIsLive /\ MapIsLive'
  BY MapValues, PTL
<1>3. AbstractMap' = [AbstractMap EXCEPT ![k] = v, ![old] = None]
  BY <1>2 DEF MapIsLive
<1>4. ~(Cardinality(Map!Stored(AbstractMap) \ {k}) < Size)
  <2>1. ~(Cardinality(Live \ {k}) < Size)
    BY SizeAssumption
  <2> QED BY <1>1, <2>1
<1>5. old \in Map!Stored(AbstractMap) \ {k}
  BY <1>1
<1>6. IF Map!Cardinality(Map!Stored(AbstractMap) \ {k}) < Size
      THEN AbstractMap' = [AbstractMap EXCEPT ![k] = v]
      ELSE \E x \in Map!Stored(AbstractMap) \ {k} :
             AbstractMap' = [AbstractMap EXCEPT ![k] = v, ![x] = None]
  BY <1>3, <1>4, <1>5, SameCount, Zenon
<1> QED BY <1>6, Zenon DEF Map!Put

\* Storing a value keeps the invariant, and is a store of the map.
LEMMA AddStep ==
  ASSUME LruInv, NEW k \in Key, NEW v \in Value, NEW secs \in Expiry,
         AddWithExpiresInSecs(k, v, secs)
  PROVE  LruInv' /\ Map!Put(k, v)
<1> DEFINE e == [value |-> v, expireAt |-> Deadline(secs), generation |-> generation]
<1>1. e \in Entry /\ e.generation = generation /\ e.value = v
  BY ExpiryAssumption DEF LruInv, EntriesOK, Entry, Deadline
<1>2. (Overwrite(k, e) \/ Insert(k, e)) /\ UNCHANGED <<generation, now>> /\ ret' = ret
  BY DEF AddWithExpiresInSecs
<1> HIDE DEF e
<1>3. CASE Overwrite(k, e)
  <2>1. /\ LruInv' /\ Live' = Live \cup {k} /\ items'[k] = e
        /\ \A j \in DOMAIN items \ {k} : items'[j] = items[j]
        /\ Cardinality(Live \ {k}) < Size
    BY <1>1, <1>2, <1>3, OverwriteStep
  <2>2. items'[k].value = v /\ \A j \in Live \ {k} : items'[j] = items[j]
    BY <1>1, <2>1 DEF Live
  <2> QED BY <1>2, <2>1, <2>2, PutsIntoRoom
<1>4. CASE Insert(k, e) /\ Len(evictList) < Size
  <2>1. /\ LruInv' /\ Live' = Live \cup {k} /\ items'[k] = e
        /\ \A j \in DOMAIN items \ {k} : items'[j] = items[j]
        /\ Cardinality(Live \ {k}) < Size
    BY <1>1, <1>2, <1>4, InsertStep, Zenon
  <2>2. items'[k].value = v /\ \A j \in Live \ {k} : items'[j] = items[j]
    BY <1>1, <2>1 DEF Live
  <2> QED BY <1>2, <2>1, <2>2, PutsIntoRoom
<1>5. CASE Insert(k, e) /\ ~(Len(evictList) < Size)
  <2>1. /\ LruInv' /\ items'[k] = e
        /\ \A j \in DOMAIN items \cap DOMAIN items' : items'[j] = items[j]
        /\ \E old \in DOMAIN items \ {k} :
             /\ Live' = (Live \cup {k}) \ {old}
             /\ IF old \in Live THEN Cardinality(Live \ {k}) = Size
                ELSE Cardinality(Live \ {k}) < Size
    BY <1>1, <1>2, <1>5, EvictStep, Zenon
  <2>2. PICK old \in DOMAIN items \ {k} :
             /\ Live' = (Live \cup {k}) \ {old}
             /\ IF old \in Live THEN Cardinality(Live \ {k}) = Size
                ELSE Cardinality(Live \ {k}) < Size
    BY <2>1
  <2>3. \A j \in (Live \cap Live') \ {k} : items'[j] = items[j]
    BY <2>1 DEF Live
  <2>4. CASE old \in Live
    BY <1>1, <1>2, <2>1, <2>2, <2>3, <2>4, PutsForOld
  <2>5. CASE old \notin Live
    <3>1. Live' = Live \cup {k}
      BY <2>2, <2>5
    <3> QED BY <1>1, <1>2, <2>1, <2>2, <2>3, <2>5, <3>1, PutsIntoRoom
  <2> QED BY <2>4, <2>5
<1> QED BY <1>2, <1>3, <1>4, <1>5

\* A lookup that hits moves the entry up and returns its value.
LEMMA HitStep ==
  ASSUME LruInv, NEW k \in Key, GetHit(k)
  PROVE  LruInv' /\ Map!Get(k)
<1>1. k \in DOMAIN items /\ k \in Live /\ UNCHANGED <<items, len, generation, now>>
  BY DEF GetHit, Expired, Live, Current
<1>2. Live' = Live /\ AbstractMap' = AbstractMap
  BY <1>1 DEF Live, Current, AbstractMap
<1>3. ListOK'
  <2>1. SameBut(k, Live, Live)
    BY DEF SameBut
  <2>2. /\ Lists(ToFront(k), DOMAIN items)
        /\ Leads(Live, ToFront(k))
        /\ Len(ToFront(k)) = Len(evictList)
    BY <1>1, <2>1, MovesUp DEF LruInv
  <2> QED BY <1>1, <1>2, <2>2 DEF LruInv, ListOK, GetHit
<1>4. LruInv'
  BY <1>1, <1>2, <1>3 DEF LruInv, EntriesOK, CountIsExact
<1>5. ret' = AbstractMap[k] /\ ret' # None
  BY <1>1, MapValues DEF MapIsLive, GetHit
<1> QED BY <1>2, <1>4, <1>5 DEF Map!Get

\* The map without a key.
LEMMA Forgets ==
  ASSUME LruInv, LruInv', NEW k \in Key, Live' = Live \ {k},
         \A j \in DOMAIN items' : items'[j] = items[j]
  PROVE  AbstractMap' = [AbstractMap EXCEPT ![k] = None]
<1>1. MapIsLive /\ MapIsLive'
  BY MapValues, PTL
<1>2. \A j \in Live' : items'[j] = items[j]
  BY DEF Live
<1> QED BY <1>1, <1>2 DEF MapIsLive

\* A lookup that misses removes what it met.
LEMMA MissStep ==
  ASSUME LruInv, NEW k \in Key, GetMiss(k)
  PROVE  LruInv' /\ Map!Get(k)
<1>1. ret' = None /\ UNCHANGED <<generation, now>>
  BY DEF GetMiss
<1>2. CASE k \in DOMAIN items
  <2>1. LruInv' /\ Live' = Live \ {k} /\ \A j \in DOMAIN items' : items'[j] = items[j]
    BY <1>1, <1>2, RemoveElementStep DEF GetMiss
  <2>2. AbstractMap' = [AbstractMap EXCEPT ![k] = None]
    BY <2>1, Forgets
  <2> QED BY <1>1, <2>1, <2>2 DEF Map!Get
<1>3. CASE k \notin DOMAIN items
  <2>1. UNCHANGED <<items, evictList, len>>
    BY <1>3 DEF GetMiss
  <2>2. Live' = Live /\ AbstractMap' = AbstractMap
    BY <1>1, <2>1 DEF Live, Current, AbstractMap
  <2>3. LruInv'
    BY <1>1, <2>1, <2>2 DEF LruInv, EntriesOK, ListOK, CountIsExact
  <2>4. AbstractMap[k] = None
    BY <1>3 DEF AbstractMap
  <2>5. AbstractMap = [AbstractMap EXCEPT ![k] = None]
    BY <2>4, MapValues DEF MapIsLive
  <2> QED BY <1>1, <2>2, <2>3, <2>5 DEF Map!Get
<1> QED BY <1>2, <1>3

\* Removing a key.
LEMMA RemoveStep ==
  ASSUME LruInv, NEW k \in Key, RemoveKey(k)
  PROVE  LruInv' /\ Map!Remove(k)
<1>1. k \in DOMAIN items /\ RemoveElement(k) /\ UNCHANGED <<generation, now>> /\ ret' = ret
  BY DEF RemoveKey
<1>2. LruInv' /\ Live' = Live \ {k} /\ \A j \in DOMAIN items' : items'[j] = items[j]
  BY <1>1, RemoveElementStep
<1>3. AbstractMap' = [AbstractMap EXCEPT ![k] = None]
  BY <1>2, Forgets
<1> QED BY <1>1, <1>2, <1>3 DEF Map!Remove

\* Purge leaves no entry live, though it removes none.
LEMMA PurgeStep ==
  ASSUME LruInv, Purge
  PROVE  LruInv' /\ Map!Purge
<1>1. /\ generation' = generation + 1 /\ len' = 0
      /\ UNCHANGED <<items, evictList, now, ret>>
  BY DEF Purge
<1>2. generation \in Nat /\ \A k \in DOMAIN items : items[k].generation \in Nat /\ items[k].generation <= generation
  BY DEF LruInv, EntriesOK, Entry
<1>3. Live' = {}
  BY <1>1, <1>2 DEF Live, Current
<1>4. EntriesOK'
  BY <1>1, <1>2 DEF LruInv, EntriesOK
<1>5. ListOK'
  BY <1>1, <1>3 DEF LruInv, ListOK, Leads
<1>6. CountIsExact'
  BY <1>1, <1>3, FS_EmptySet DEF CountIsExact
<1>7. LruInv'
  BY <1>4, <1>5, <1>6 DEF LruInv
<1>8. MapIsLive'
  BY <1>7, MapValues, PTL
<1>9. AbstractMap' = [k \in Key |-> None]
  BY <1>3, <1>8 DEF MapIsLive
<1> QED BY <1>1, <1>7, <1>9 DEF Map!Purge

\* The clock and stuttering change nothing that the map shows.
LEMMA QuietStep ==
  ASSUME LruInv, Tick \/ UNCHANGED vars
  PROVE  LruInv' /\ UNCHANGED <<AbstractMap, ret>>
<1>1. UNCHANGED <<items, evictList, len, generation, ret>> /\ (now' = now \/ now' = now + 1)
  BY DEF Tick, vars
<1>2. Live' = Live /\ AbstractMap' = AbstractMap
  BY <1>1 DEF Live, Current, AbstractMap
<1>3. EntriesOK'
  BY <1>1 DEF LruInv, EntriesOK
<1>4. ListOK' /\ CountIsExact'
  BY <1>1, <1>2 DEF LruInv, ListOK, CountIsExact
<1> QED BY <1>1, <1>2, <1>3, <1>4 DEF LruInv

\* An empty cache.
LEMMA InitStep ==
  ASSUME Init
  PROVE  LruInv /\ Map!Init
<1>1. DOMAIN items = {} /\ items = [k \in {} |-> None] /\ Live = {}
  BY DEF Init, Live
<1>2. EntriesOK
  BY <1>1 DEF Init, EntriesOK
<1>3. ListOK
  BY <1>1, SizeAssumption DEF Init, ListOK, Lists, Leads
<1>4. CountIsExact
  BY <1>1, FS_EmptySet DEF Init, CountIsExact
<1>5. AbstractMap = [k \in Key |-> None]
  BY <1>1 DEF AbstractMap
<1> QED BY <1>2, <1>3, <1>4, <1>5 DEF LruInv, Map!Init, Init

\* Every step keeps the invariant and is a step of the map or none.
LEMMA EveryStep ==
  ASSUME LruInv, [Next]_vars
  PROVE  LruInv' /\ [Map!Next]_(Map!vars)
<1>1. ASSUME NEW k \in Key, GetHit(k) \/ GetMiss(k)
      PROVE  LruInv' /\ Map!Get(k)
  BY <1>1, HitStep, MissStep
<1>2. ASSUME NEW k \in Key, RemoveKey(k)
      PROVE  LruInv' /\ Map!Remove(k)
  BY <1>2, RemoveStep
<1>3. ASSUME NEW k \in Key, NEW v \in Value, NEW secs \in Expiry, AddWithExpiresInSecs(k, v, secs)
      PROVE  LruInv' /\ Map!Put(k, v)
  BY <1>3, AddStep
<1>4. CASE Purge
  BY <1>4, PurgeStep DEF Map!Next
<1>5. CASE Tick \/ UNCHANGED vars
  BY <1>5, QuietStep DEF Map!vars
<1> QED BY <1>1, <1>2, <1>3, <1>4, <1>5 DEF Next, Map!Next

-----------------------------------------------------------------------------

\* IsObjectCache for every set of keys and values and every capacity: the cache
\* of model/lru.go is the bounded map that its users are promised.  An old
\* value never comes back, and what Purge leaves behind takes no room.
THEOREM CacheIsMap == Spec => IsObjectCache
<1>1. Init => LruInv /\ Map!Init
  BY InitStep
<1>2. LruInv /\ [Next]_vars => LruInv' /\ [Map!Next]_(Map!vars)
  BY EveryStep
<1> QED BY <1>1, <1>2, PTL DEF Spec, IsObjectCache, Map!Spec

\* The live entries are at the front of the list, as many as there are, so that
\* the walk of Keys comes to them last and numbers them without a gap.
LEMMA SlotsAreExact == LruInv => LenIsExact
<1> SUFFICES ASSUME LruInv PROVE LenIsExact
  OBVIOUS
<1> DEFINE m == Len(evictList)
           n == Cardinality(LiveAt)
<1>1. /\ evictList \in Seq(Key) /\ m \in Nat /\ DOMAIN evictList = 1..m
      /\ \A i \in 1..m : evictList[i] \in DOMAIN items
      /\ \A k \in DOMAIN items : \E i \in 1..m : evictList[i] = k
      /\ \A i, j \in 1..m : evictList[i] = evictList[j] => i = j
  BY LenProperties DEF LruInv, ListOK, Lists
<1>2. LiveAt \subseteq 1..m /\ \A i \in 1..m : i \in LiveAt <=> evictList[i] \in Live
  BY <1>1 DEF LiveAt, Live
<1>3. IsFiniteSet(LiveAt) /\ n \in Nat
  <2>1. IsFiniteSet(1..m)
    BY <1>1, FS_Interval
  <2>2. IsFiniteSet(LiveAt)
    BY Zenon, <1>2, <2>1, FS_Subset
  <2> QED
    BY Zenon, <2>2, FS_CardinalityType
<1>4. len = n
  <2> DEFINE f == [i \in LiveAt |-> evictList[i]]
  <2>1. f \in Bijection(LiveAt, Live)
    BY Zenon, <1>1, <1>2 DEF Bijection, Injection, Surjection, IsInjective, Live
  <2> QED
    BY <1>3, <2>1, FS_Bijection DEF ExistsBijection, LruInv, CountIsExact
<1>5. LiveAt = 1..n
  <2>1. \A i \in LiveAt : 1..i \subseteq LiveAt
    BY <1>1, <1>2 DEF LruInv, ListOK, Leads
  <2>2. ASSUME NEW i \in LiveAt PROVE i <= n
    <3>1. i \in Nat \ {0}
      BY <1>1, <1>2
    <3>2. Cardinality(1..i) = i
      BY <3>1, FS_Interval
    <3> QED
      BY Zenon, <1>3, <2>1, <3>2, FS_Subset
  <2>3. LiveAt \subseteq 1..n
    BY <1>1, <1>2, <1>3, <2>2
  <2>4. IsFiniteSet(1..n) /\ Cardinality(1..n) = n
    BY <1>3, FS_Interval
  <2> QED
    BY Zenon, <2>3, <2>4, FS_Subset
<1>6. ASSUME NEW i \in 1..n PROVE Slot(i) = n - i
  <2>1. {j \in LiveAt : j > i} = (i + 1)..n
    BY <1>3, <1>5
  <2>2. Cardinality((i + 1)..n) = n - i
    BY <1>3, FS_Interval
  <2> QED
    BY Zenon, <2>1, <2>2 DEF Slot
<1>7. Keys = {n - i : i \in 1..n}
  BY Zenon, <1>5, <1>6 DEF Keys
<1>8. {n - i : i \in 1..n} = 0..(n - 1)
  <2>1. ASSUME NEW x \in 0..(n - 1) PROVE \E i \in 1..n : x = n - i
    <3>1. n - x \in 1..n /\ x = n - (n - x)
      BY <1>3
    <3> QED
      BY <3>1
  <2>2. \A i \in 1..n : n - i \in 0..(n - 1)
    BY <1>3
  <2> QED
    BY <2>1, <2>2
<1> QED
  BY <1>4, <1>7, <1>8 DEF LenIsExact

\* LenIsExact for every set of keys and every capacity: Keys (model/lru.go:142)
\* never writes past the slots that it allocates and leaves none of them empty.
THEOREM CountsLive == Spec => []LenIsExact
<1>1. Init => LruInv
  BY InitStep
<1>2. LruInv /\ [Next]_vars => LruInv'
  BY EveryStep
<1>3. LruInv => LenIsExact
  BY SlotsAreExact
<1> QED BY <1>1, <1>2, <1>3, PTL DEF Spec

=============================================================================

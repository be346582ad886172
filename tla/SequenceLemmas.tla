--------------------------- MODULE SequenceLemmas ---------------------------
(***************************************************************************)
(* Facts about the sequence operators with which the lists of utlt_list    *)
(* and the queues are modelled, for the proof modules.                     *)
(***************************************************************************)
EXTENDS Integers, Sequences, FiniteSets, SequencesExt, SequenceTheorems,
        FiniteSetTheorems, WellFoundedInduction, TLAPS

-----------------------------------------------------------------------------
(* Smallest elements. *)

(* A set of naturals that is not empty has a least element. *)
LEMMA NatHasMin == ASSUME NEW T \in SUBSET Nat, T # {}
                   PROVE  \E x \in T : \A y \in T : x <= y
<1>1. PICK x \in T : \A y \in T : ~(<<y, x>> \in OpToRel(<, Nat))
  BY NatLessThanWellFounded, WFMin
<1>2. \A y \in T : y \in Nat
  OBVIOUS
<1>3. x \in Nat /\ \A y \in T : ~(y < x)
  BY <1>1, <1>2 DEF OpToRel
<1>4. \A y \in T : x <= y
  BY <1>2, <1>3
<1>5. QED
  BY <1>4

(* What a search for the first index of a kind finds. *)
LEMMA FirstIndex == ASSUME NEW T \in SUBSET Nat, T # {}
                    PROVE  LET i == CHOOSE x \in T : \A y \in T : x <= y
                           IN  i \in T /\ \A y \in T : i <= y
  BY NatHasMin

(* Min of a set of naturals is its least element. *)
LEMMA MinOfNats == ASSUME NEW T \in SUBSET Nat, T # {}
                   PROVE  Min(T) \in T /\ \A y \in T : Min(T) <= y
  BY NatHasMin DEF Min

-----------------------------------------------------------------------------
(* Inserting and removing at a position. *)

(* A part of a sequence: its length and its elements. *)
LEMMA PartElements ==
  ASSUME NEW A, NEW s \in Seq(A), NEW m \in 1 .. Len(s) + 1, NEW n \in m - 1 .. Len(s)
  PROVE  /\ SubSeq(s, m, n) \in Seq(A)
         /\ Len(SubSeq(s, m, n)) = n - m + 1
         /\ \A k \in 1 .. n - m + 1 : SubSeq(s, m, n)[k] = s[m + k - 1]
<1>1. Len(s) \in Nat /\ m \in Int /\ n \in Int /\ \A k \in m .. n : s[k] \in A
  BY LenProperties, ElementOfSeq
<1>2. /\ SubSeq(s, m, n) \in Seq(A)
      /\ Len(SubSeq(s, m, n)) = IF m <= n THEN n - m + 1 ELSE 0
      /\ \A k \in 1 .. n - m + 1 : SubSeq(s, m, n)[k] = s[m + k - 1]
  BY <1>1, SubSeqProperties
<1>3. QED
  BY <1>1, <1>2

(* InsertAt moves the elements from the position on one to the right. *)
LEMMA InsertAtElements ==
  ASSUME NEW A, NEW s \in Seq(A), NEW e \in A, NEW i \in 1 .. Len(s) + 1
  PROVE  /\ InsertAt(s, i, e) \in Seq(A)
         /\ Len(InsertAt(s, i, e)) = Len(s) + 1
         /\ \A k \in 1 .. Len(s) + 1 :
              InsertAt(s, i, e)[k] = IF k < i THEN s[k] ELSE IF k = i THEN e ELSE s[k - 1]
<1> DEFINE a == SubSeq(s, 1, i - 1)
           b == SubSeq(s, i, Len(s))
           c == a \o <<e>>
<1>1. Len(s) \in Nat /\ i \in Int
  BY LenProperties
<1>2. /\ a \in Seq(A) /\ Len(a) = i - 1
      /\ \A k \in 1 .. i - 1 : a[k] = s[k]
  BY <1>1, PartElements
<1>3. /\ b \in Seq(A) /\ Len(b) = Len(s) - i + 1
      /\ \A k \in 1 .. Len(s) - i + 1 : b[k] = s[i + k - 1]
  BY <1>1, PartElements
<1>4. InsertAt(s, i, e) = c \o b
  BY DEF InsertAt
<1> HIDE DEF a, b
<1>5. <<e>> \in Seq(A) /\ Len(<<e>>) = 1 /\ <<e>>[1] = e
  OBVIOUS
<1>6. /\ c \in Seq(A) /\ Len(c) = Len(a) + 1
      /\ \A k \in 1 .. Len(a) + 1 : c[k] = IF k <= Len(a) THEN a[k] ELSE <<e>>[k - Len(a)]
  BY <1>2, <1>5, ConcatProperties
<1> HIDE DEF c
<1>7. Len(c) = i /\ \A k \in 1 .. i : c[k] = IF k < i THEN s[k] ELSE e
  <2>1. ASSUME NEW k \in 1 .. i PROVE c[k] = IF k < i THEN s[k] ELSE e
    <3>1. CASE k < i
      BY <1>1, <1>2, <1>6, <3>1
    <3>2. CASE k = i
      BY <1>1, <1>2, <1>5, <1>6, <3>2
    <3>3. QED
      BY <1>1, <3>1, <3>2
  <2>2. QED
    BY <1>1, <1>2, <1>6, <2>1
<1>8. /\ c \o b \in Seq(A) /\ Len(c \o b) = Len(c) + Len(b)
      /\ \A k \in 1 .. Len(c) + Len(b) : (c \o b)[k] = IF k <= Len(c) THEN c[k] ELSE b[k - Len(c)]
  BY <1>3, <1>6, ConcatProperties
<1>9. QED
  BY <1>1, <1>3, <1>4, <1>7, <1>8

(* RemoveAt moves the elements behind the position one to the left. *)
LEMMA RemoveAtElements ==
  ASSUME NEW A, NEW s \in Seq(A), NEW i \in 1 .. Len(s)
  PROVE  /\ RemoveAt(s, i) \in Seq(A)
         /\ Len(RemoveAt(s, i)) = Len(s) - 1
         /\ \A k \in 1 .. Len(s) - 1 :
              RemoveAt(s, i)[k] = IF k < i THEN s[k] ELSE s[k + 1]
<1> DEFINE a == SubSeq(s, 1, i - 1)
           b == SubSeq(s, i + 1, Len(s))
<1>1. Len(s) \in Nat /\ i \in Int
  BY LenProperties
<1>2. /\ a \in Seq(A) /\ Len(a) = i - 1
      /\ \A k \in 1 .. i - 1 : a[k] = s[k]
  BY <1>1, PartElements
<1>3. /\ b \in Seq(A) /\ Len(b) = Len(s) - i
      /\ \A k \in 1 .. Len(s) - i : b[k] = s[i + k]
  BY <1>1, PartElements
<1>4. RemoveAt(s, i) = a \o b
  BY DEF RemoveAt
<1> HIDE DEF a, b
<1>5. /\ a \o b \in Seq(A) /\ Len(a \o b) = Len(a) + Len(b)
      /\ \A k \in 1 .. Len(a) + Len(b) : (a \o b)[k] = IF k <= Len(a) THEN a[k] ELSE b[k - Len(a)]
  BY <1>2, <1>3, ConcatProperties
<1>6. QED
  BY SMTT(60), <1>1, <1>2, <1>3, <1>4, <1>5

-----------------------------------------------------------------------------
(* What a sequence holds: ToSet, and holding each element once. *)

(* ToSet and IsInjective in terms of positions. *)
LEMMA SeqAsSet ==
  ASSUME NEW A, NEW s \in Seq(A)
  PROVE  /\ \A x : x \in ToSet(s) <=> \E k \in 1 .. Len(s) : s[k] = x
         /\ IsInjective(s) <=> \A j, k \in 1 .. Len(s) : s[j] = s[k] => j = k
         /\ ToSet(s) \subseteq A
  BY LenProperties, ElementOfSeq DEF ToSet, IsInjective

(* InsertAt adds its element and disturbs no other. *)
LEMMA InsertAtSet ==
  ASSUME NEW A, NEW s \in Seq(A), NEW e \in A, NEW i \in 1 .. Len(s) + 1
  PROVE  /\ ToSet(InsertAt(s, i, e)) = ToSet(s) \cup {e}
         /\ IsInjective(s) /\ e \notin ToSet(s) => IsInjective(InsertAt(s, i, e))
<1> DEFINE r == InsertAt(s, i, e)
<1>1. /\ Len(s) \in Nat /\ i \in Int
      /\ r \in Seq(A) /\ Len(r) = Len(s) + 1
      /\ \A k \in 1 .. Len(s) + 1 :
           r[k] = IF k < i THEN s[k] ELSE IF k = i THEN e ELSE s[k - 1]
  BY LenProperties, InsertAtElements
<1> HIDE DEF r
<1>2. ASSUME NEW x \in ToSet(r) PROVE x \in ToSet(s) \cup {e}
  <2>1. PICK k \in 1 .. Len(r) : r[k] = x
    BY <1>1, SeqAsSet
  <2>2. x = e \/ \E j \in 1 .. Len(s) : s[j] = x
    BY SMTT(60), <1>1, <2>1
  <2>3. QED
    BY <2>2, SeqAsSet
<1>3. ASSUME NEW x \in ToSet(s) PROVE x \in ToSet(r)
  <2>1. PICK k \in 1 .. Len(s) : s[k] = x
    BY SeqAsSet
  <2>2. CASE k < i
    <3>1. k \in 1 .. Len(r) /\ r[k] = x
      BY <1>1, <2>1, <2>2
    <3>2. QED
      BY <1>1, <3>1, SeqAsSet
  <2>3. CASE ~(k < i)
    <3>1. k + 1 \in 1 .. Len(r) /\ r[k + 1] = x
      BY <1>1, <2>1, <2>3
    <3>2. QED
      BY <1>1, <3>1, SeqAsSet
  <2>4. QED
    BY <2>2, <2>3
<1>4. e \in ToSet(r)
  <2>1. i \in 1 .. Len(r) /\ r[i] = e
    BY <1>1
  <2>2. QED
    BY <1>1, <2>1, SeqAsSet
<1>5. ToSet(r) = ToSet(s) \cup {e}
  BY <1>2, <1>3, <1>4
<1>6. ASSUME IsInjective(s), e \notin ToSet(s) PROVE IsInjective(r)
  <2>1. \A k \in 1 .. Len(s) : s[k] # e
    BY <1>6, SeqAsSet
  <2>2. \A j, k \in 1 .. Len(s) : s[j] = s[k] => j = k
    BY <1>6, SeqAsSet
  <2>3. ASSUME NEW j \in 1 .. Len(r), NEW k \in 1 .. Len(r), r[j] = r[k] PROVE j = k
    <3> DEFINE From(n) == IF n < i THEN n ELSE n - 1
    <3>1. \A n \in 1 .. Len(r) : n # i => From(n) \in 1 .. Len(s) /\ r[n] = s[From(n)]
      BY <1>1
    <3>2. r[i] = e
      BY <1>1
    <3>3. j = i \/ k = i => j = k
      BY <2>1, <2>3, <3>1, <3>2
    <3>4. j # i /\ k # i => From(j) = From(k)
      BY <2>2, <2>3, <3>1
    <3>5. QED
      BY <1>1, <3>3, <3>4
  <2>4. QED
    BY <1>1, <2>3, SeqAsSet
<1>7. QED
  BY <1>5, <1>6 DEF r

(* Removing what stands at a position of a sequence that holds each element *)
(* once removes that element.                                               *)
LEMMA RemoveAtSet ==
  ASSUME NEW A, NEW s \in Seq(A), IsInjective(s), NEW i \in 1 .. Len(s)
  PROVE  /\ ToSet(RemoveAt(s, i)) = ToSet(s) \ {s[i]}
         /\ IsInjective(RemoveAt(s, i))
<1> DEFINE r == RemoveAt(s, i)
<1>1. /\ Len(s) \in Nat /\ i \in Int
      /\ r \in Seq(A) /\ Len(r) = Len(s) - 1
      /\ \A k \in 1 .. Len(s) - 1 : r[k] = IF k < i THEN s[k] ELSE s[k + 1]
  BY LenProperties, RemoveAtElements
<1> HIDE DEF r
<1>2. \A j, k \in 1 .. Len(s) : s[j] = s[k] => j = k
  BY SeqAsSet
<1>3. ASSUME NEW x \in ToSet(r) PROVE x \in ToSet(s) \ {s[i]}
  <2>1. PICK k \in 1 .. Len(r) : r[k] = x
    BY <1>1, SeqAsSet
  <2>2. PICK j \in 1 .. Len(s) : s[j] = x /\ j # i
    BY <1>1, <2>1
  <2>3. QED
    BY <1>2, <2>2, SeqAsSet
<1>4. ASSUME NEW x \in ToSet(s) \ {s[i]} PROVE x \in ToSet(r)
  <2>1. PICK k \in 1 .. Len(s) : s[k] = x /\ k # i
    BY SeqAsSet
  <2>2. CASE k < i
    <3>1. k \in 1 .. Len(r) /\ r[k] = x
      BY <1>1, <2>1, <2>2
    <3>2. QED
      BY <1>1, <3>1, SeqAsSet
  <2>3. CASE ~(k < i)
    <3>1. k - 1 \in 1 .. Len(r) /\ r[k - 1] = x
      BY SMTT(60), <1>1, <2>1, <2>3
    <3>2. QED
      BY <1>1, <3>1, SeqAsSet
  <2>4. QED
    BY <2>2, <2>3
<1>5. ASSUME NEW j \in 1 .. Len(r), NEW k \in 1 .. Len(r), r[j] = r[k] PROVE j = k
  BY SMTT(60), <1>1, <1>2, <1>5
<1>6. IsInjective(r)
  BY <1>1, <1>5, SeqAsSet
<1>7. QED
  BY <1>3, <1>4, <1>6 DEF r

(* RemoveFirst leaves a sequence without the element as it is, and takes it *)
(* from its place otherwise.                                                *)
LEMMA RemoveFirstCases ==
  ASSUME NEW A, NEW s \in Seq(A), NEW e
  PROVE  \/ e \notin ToSet(s) /\ RemoveFirst(s, e) = s
         \/ \E i \in 1 .. Len(s) : s[i] = e /\ RemoveFirst(s, e) = RemoveAt(s, i)
<1> DEFINE I == {k \in 1 .. Len(s) : s[k] = e}
<1>1. CASE e \notin ToSet(s)
  <2>1. ~\E k \in 1 .. Len(s) : s[k] = e
    BY <1>1, SeqAsSet
  <2>2. QED
    BY <1>1, <2>1 DEF RemoveFirst
<1>2. CASE e \in ToSet(s)
  <2>1. \E k \in 1 .. Len(s) : s[k] = e
    BY <1>2, SeqAsSet
  <2>2. I # {} /\ I \in SUBSET Nat
    BY <2>1
  <2>3. Min(I) \in I
    BY <2>2, MinOfNats
  <2>4. RemoveFirst(s, e) = RemoveAt(s, Min(I))
    BY <2>1, <2>2 DEF RemoveFirst, SelectInSeq
  <2>5. QED
    BY <2>3, <2>4
<1>3. QED
  BY <1>1, <1>2

(* RemoveFirst on a sequence that holds each element once: the element is   *)
(* gone, the others stay.                                                   *)
LEMMA RemoveFirstSet ==
  ASSUME NEW A, NEW s \in Seq(A), IsInjective(s), NEW e
  PROVE  /\ RemoveFirst(s, e) \in Seq(A)
         /\ ToSet(RemoveFirst(s, e)) = ToSet(s) \ {e}
         /\ IsInjective(RemoveFirst(s, e))
<1> DEFINE r == RemoveFirst(s, e)
<1>1. CASE e \notin ToSet(s) /\ r = s
  BY <1>1
<1>2. CASE \E i \in 1 .. Len(s) : s[i] = e /\ r = RemoveAt(s, i)
  <2>1. PICK i \in 1 .. Len(s) : s[i] = e /\ r = RemoveAt(s, i)
    BY <1>2
  <2>2. RemoveAt(s, i) \in Seq(A)
    BY RemoveAtElements
  <2>3. ToSet(RemoveAt(s, i)) = ToSet(s) \ {s[i]} /\ IsInjective(RemoveAt(s, i))
    BY RemoveAtSet
  <2>4. QED
    BY <2>1, <2>2, <2>3
<1>3. QED
  BY <1>1, <1>2, RemoveFirstCases

(* What RemoveFirst leaves is in order if the sequence was. *)
LEMMA RemoveFirstSorted ==
  ASSUME NEW A, NEW s \in Seq(A), NEW e, NEW key \in [A -> Nat],
         \A j, k \in 1 .. Len(s) : j < k => key[s[j]] <= key[s[k]]
  PROVE  \A j, k \in 1 .. Len(RemoveFirst(s, e)) :
           j < k => key[RemoveFirst(s, e)[j]] <= key[RemoveFirst(s, e)[k]]
<1> DEFINE r == RemoveFirst(s, e)
<1> SUFFICES ASSUME NEW j \in 1 .. Len(r), NEW k \in 1 .. Len(r), j < k
             PROVE  key[r[j]] <= key[r[k]]
  OBVIOUS
<1>1. CASE r = s
  <2> HIDE DEF r
  <2>1. QED
    BY <1>1
<1>2. CASE \E i \in 1 .. Len(s) : r = RemoveAt(s, i)
  <2>1. PICK i \in 1 .. Len(s) : r = RemoveAt(s, i)
    BY <1>2
  <2> DEFINE From(n) == IF n < i THEN n ELSE n + 1
  <2>2. /\ Len(RemoveAt(s, i)) = Len(s) - 1
        /\ \A n \in 1 .. Len(s) - 1 :
             RemoveAt(s, i)[n] = IF n < i THEN s[n] ELSE s[n + 1]
    BY RemoveAtElements
  <2>3. Len(s) \in Nat /\ i \in Int
    BY LenProperties
  <2> HIDE DEF r
  <2>4. j \in 1 .. Len(s) - 1 /\ k \in 1 .. Len(s) - 1 /\ j < k
    BY <2>1, <2>2
  <2>5. r[j] = s[From(j)] /\ r[k] = s[From(k)]
    BY <2>1, <2>2, <2>4
  <2>6. From(j) \in 1 .. Len(s) /\ From(k) \in 1 .. Len(s) /\ From(j) < From(k)
    <3> HIDE DEF r
    <3>1. j \in Int /\ k \in Int /\ 1 <= j /\ j < k /\ k <= Len(s) - 1
      BY <2>3, <2>4
    <3>2. QED
      BY <2>3, <3>1
  <2>7. QED
    BY <2>5, <2>6
<1>3. QED
  BY <1>1, <1>2, RemoveFirstCases

(* A concatenation holds what its parts hold, and each element once exactly *)
(* if the parts do and share none.                                          *)
LEMMA ConcatSet ==
  ASSUME NEW A, NEW s \in Seq(A), NEW t \in Seq(A)
  PROVE  /\ ToSet(s \o t) = ToSet(s) \cup ToSet(t)
         /\ IsInjective(s \o t) <=>
              IsInjective(s) /\ IsInjective(t) /\ ToSet(s) \cap ToSet(t) = {}
<1> DEFINE r == s \o t
<1>1. /\ Len(s) \in Nat /\ Len(t) \in Nat
      /\ r \in Seq(A) /\ Len(r) = Len(s) + Len(t)
      /\ \A k \in 1 .. Len(s) + Len(t) : r[k] = IF k <= Len(s) THEN s[k] ELSE t[k - Len(s)]
  BY LenProperties, ConcatProperties
<1> HIDE DEF r
<1>2. \A k \in 1 .. Len(s) : k \in 1 .. Len(r) /\ r[k] = s[k]
  BY <1>1
<1>3. ASSUME NEW k \in 1 .. Len(t)
      PROVE  Len(s) + k \in 1 .. Len(r) /\ r[Len(s) + k] = t[k]
  <2>1. Len(s) + k \in 1 .. Len(r) /\ ~(Len(s) + k <= Len(s)) /\ (Len(s) + k) - Len(s) = k
    BY <1>1
  <2>2. QED
    BY <1>1, <2>1
<1>4. \A k \in 1 .. Len(r) : \/ k \in 1 .. Len(s) /\ r[k] = s[k]
                             \/ k - Len(s) \in 1 .. Len(t) /\ r[k] = t[k - Len(s)]
  BY <1>1
<1>5. ToSet(r) = ToSet(s) \cup ToSet(t)
  <2>1. ASSUME NEW x \in ToSet(r) PROVE x \in ToSet(s) \cup ToSet(t)
    BY SMTT(60), <1>1, <1>4, SeqAsSet
  <2>2. ASSUME NEW x \in ToSet(s) PROVE x \in ToSet(r)
    BY <1>1, <1>2, SeqAsSet
  <2>3. ASSUME NEW x \in ToSet(t) PROVE x \in ToSet(r)
    <3>1. PICK k \in 1 .. Len(t) : t[k] = x
      BY SeqAsSet
    <3>2. QED
      BY <1>1, <1>3, <3>1, SeqAsSet
  <2>4. QED
    BY <2>1, <2>2, <2>3
<1>6. ASSUME IsInjective(r)
      PROVE  IsInjective(s) /\ IsInjective(t) /\ ToSet(s) \cap ToSet(t) = {}
  <2>1. \A j, k \in 1 .. Len(r) : r[j] = r[k] => j = k
    BY <1>1, <1>6, SeqAsSet
  <2>2. IsInjective(s)
    BY SMTT(60), <1>1, <1>2, <2>1, SeqAsSet
  <2>3. ASSUME NEW j \in 1 .. Len(t), NEW k \in 1 .. Len(t), t[j] = t[k] PROVE j = k
    <3>1. Len(s) + j = Len(s) + k
      BY <1>3, <2>1, <2>3
    <3>2. QED
      BY <1>1, <3>1
  <2>4. IsInjective(t)
    BY <2>3, SeqAsSet
  <2>5. ASSUME NEW x \in ToSet(s), x \in ToSet(t) PROVE FALSE
    <3>1. PICK j \in 1 .. Len(s) : s[j] = x
      BY SeqAsSet
    <3>2. PICK k \in 1 .. Len(t) : t[k] = x
      BY <2>5, SeqAsSet
    <3>3. j = Len(s) + k
      BY <1>2, <1>3, <2>1, <3>1, <3>2
    <3>4. QED
      BY <1>1, <3>3
  <2>6. QED
    BY <2>2, <2>4, <2>5
<1>7. ASSUME IsInjective(s), IsInjective(t), ToSet(s) \cap ToSet(t) = {}
      PROVE  IsInjective(r)
  <2>1. \A j, k \in 1 .. Len(s) : s[j] = s[k] => j = k
    BY <1>7, SeqAsSet
  <2>2. \A j, k \in 1 .. Len(t) : t[j] = t[k] => j = k
    BY <1>7, SeqAsSet
  <2>3. \A j \in 1 .. Len(s), k \in 1 .. Len(t) : s[j] # t[k]
    BY <1>7, SeqAsSet
  <2>4. ASSUME NEW j \in 1 .. Len(r), NEW k \in 1 .. Len(r), r[j] = r[k] PROVE j = k
    <3>1. CASE j \in 1 .. Len(s) /\ r[j] = s[j]
      BY <1>4, <2>1, <2>3, <2>4, <3>1
    <3>2. CASE j - Len(s) \in 1 .. Len(t) /\ r[j] = t[j - Len(s)]
      <4>1. ~(k \in 1 .. Len(s) /\ r[k] = s[k])
        BY <2>3, <2>4, <3>2
      <4>2. j - Len(s) = k - Len(s)
        BY <1>4, <2>2, <2>4, <3>2, <4>1
      <4>3. QED
        BY <1>1, <4>2
    <3>3. QED
      BY <1>4, <3>1, <3>2
  <2>5. QED
    BY <1>1, <2>4, SeqAsSet
<1>8. QED
  BY <1>5, <1>6, <1>7 DEF r

(* The head and the tail of a sequence that holds each element once. *)
LEMMA HeadTailSet ==
  ASSUME NEW A, NEW s \in Seq(A), s # << >>
  PROVE  /\ Head(s) \in A /\ Head(s) = s[1] /\ Head(s) \in ToSet(s)
         /\ Tail(s) \in Seq(A) /\ ToSet(s) = ToSet(Tail(s)) \cup {Head(s)}
         /\ IsInjective(s) => IsInjective(Tail(s)) /\ Head(s) \notin ToSet(Tail(s))
<1> DEFINE t == Tail(s)
<1>1. /\ Len(s) \in Nat \ {0} /\ Head(s) = s[1] /\ Head(s) \in A
      /\ t \in Seq(A) /\ Len(t) = Len(s) - 1
      /\ \A k \in 1 .. Len(t) : t[k] = s[k + 1]
  BY EmptySeq, HeadTailProperties
<1> HIDE DEF t
<1>2. \A k \in 1 .. Len(t) : k + 1 \in 1 .. Len(s) /\ t[k] = s[k + 1]
  BY <1>1
<1>3. \A k \in 1 .. Len(s) : k = 1 \/ (k - 1 \in 1 .. Len(t) /\ s[k] = t[k - 1])
  BY <1>1
<1>4. Head(s) \in ToSet(s)
  BY <1>1, SeqAsSet
<1>5. ToSet(s) = ToSet(t) \cup {Head(s)}
  <2>1. ASSUME NEW x \in ToSet(s) PROVE x \in ToSet(t) \cup {Head(s)}
    BY <1>1, <1>3, SeqAsSet
  <2>2. ASSUME NEW x \in ToSet(t) PROVE x \in ToSet(s)
    BY <1>1, <1>2, SeqAsSet
  <2>3. QED
    BY <1>4, <2>1, <2>2
<1>6. ASSUME IsInjective(s) PROVE IsInjective(t) /\ Head(s) \notin ToSet(t)
  <2>1. \A j, k \in 1 .. Len(s) : s[j] = s[k] => j = k
    BY <1>6, SeqAsSet
  <2>2. \A j, k \in 1 .. Len(t) : t[j] = t[k] => j = k
    BY <1>1, <1>2, <2>1
  <2>3. \A k \in 1 .. Len(t) : t[k] # Head(s)
    BY <1>1, <1>2, <2>1
  <2>4. QED
    BY <1>1, <2>2, <2>3, SeqAsSet
<1>7. QED
  BY <1>1, <1>4, <1>5, <1>6 DEF t

(* Append adds its element. *)
LEMMA AppendSet ==
  ASSUME NEW A, NEW s \in Seq(A), NEW e \in A
  PROVE  /\ Append(s, e) \in Seq(A) /\ ToSet(Append(s, e)) = ToSet(s) \cup {e}
         /\ IsInjective(s) /\ e \notin ToSet(s) => IsInjective(Append(s, e))
<1> DEFINE r == Append(s, e)
<1>1. /\ Len(s) \in Nat /\ r \in Seq(A) /\ Len(r) = Len(s) + 1
      /\ \A k \in 1 .. Len(s) : r[k] = s[k]
      /\ r[Len(s) + 1] = e
  BY LenProperties, AppendProperties
<1> HIDE DEF r
<1>2. \A k \in 1 .. Len(r) : k \in 1 .. Len(s) \/ k = Len(s) + 1
  BY <1>1
<1>3. \A k \in 1 .. Len(s) : k \in 1 .. Len(r)
  BY <1>1
<1>4. ToSet(r) = ToSet(s) \cup {e}
  <2>1. ASSUME NEW x \in ToSet(r) PROVE x \in ToSet(s) \cup {e}
    BY <1>1, <1>2, SeqAsSet
  <2>2. ASSUME NEW x \in ToSet(s) PROVE x \in ToSet(r)
    BY <1>1, <1>3, SeqAsSet
  <2>3. e \in ToSet(r)
    BY <1>1, SeqAsSet
  <2>4. QED
    BY <2>1, <2>2, <2>3
<1>5. ASSUME IsInjective(s), e \notin ToSet(s) PROVE IsInjective(r)
  <2>1. \A j, k \in 1 .. Len(s) : s[j] = s[k] => j = k
    BY <1>5, SeqAsSet
  <2>2. \A k \in 1 .. Len(s) : s[k] # e
    BY <1>5, SeqAsSet
  <2>3. ASSUME NEW j \in 1 .. Len(r), NEW k \in 1 .. Len(r), r[j] = r[k] PROVE j = k
    BY <1>1, <1>2, <2>1, <2>2, <2>3
  <2>4. QED
    BY <1>1, <2>3, SeqAsSet
<1>6. QED
  BY <1>1, <1>4, <1>5 DEF r

(* A sequence that holds each element once is as long as the set of them.  *)
LEMMA InjectiveLength ==
  ASSUME NEW A, NEW s \in Seq(A), IsInjective(s)
  PROVE  IsFiniteSet(ToSet(s)) /\ Cardinality(ToSet(s)) = Len(s)
<1>1. Len(s) \in Nat /\ DOMAIN s = 1 .. Len(s) /\ s \in [1 .. Len(s) -> A]
  BY LenProperties
<1>2. s \in [1 .. Len(s) -> ToSet(s)]
  BY <1>1 DEF ToSet
<1>3. s \in Bijection(1 .. Len(s), ToSet(s))
  <2>1. s \in Injection(1 .. Len(s), ToSet(s))
    BY <1>1, <1>2 DEF Injection, IsInjective
  <2>2. s \in Surjection(1 .. Len(s), ToSet(s))
    BY <1>1, <1>2, SeqAsSet DEF Surjection
  <2>3. QED
    BY <2>1, <2>2 DEF Bijection
<1>4. ExistsBijection(1 .. Len(s), ToSet(s))
  BY <1>3 DEF ExistsBijection
<1>5. IsFiniteSet(1 .. Len(s)) /\ Cardinality(1 .. Len(s)) = Len(s)
  BY SMTT(60), <1>1, FS_Interval
<1>6. QED
  BY <1>4, <1>5, FS_Bijection

(* A finite set as a sequence.                                              *)
LEMMA SetAsSeq ==
  ASSUME NEW S, IsFiniteSet(S)
  PROVE  /\ SetToSeq(S) \in Seq(S) /\ IsInjective(SetToSeq(S))
         /\ Len(SetToSeq(S)) = Cardinality(S) /\ ToSet(SetToSeq(S)) = S
<1> DEFINE n == Cardinality(S)
<1>1. n \in Nat /\ ExistsBijection(1 .. n, S)
  BY FS_CardinalityType
<1>2. PICK f : f \in Bijection(1 .. n, S)
  BY <1>1 DEF ExistsBijection
<1>3. f \in [1 .. n -> S] /\ IsInjective(f)
  BY <1>2 DEF Bijection, Injection, IsInjective
<1> DEFINE s == SetToSeq(S)
<1>4. s \in [1 .. n -> S] /\ IsInjective(s)
  BY <1>3 DEF SetToSeq
<1> HIDE DEF s
<1>5. s \in Seq(S) /\ Len(s) = n
  BY <1>1, <1>4
<1>6. ToSet(s) \in SUBSET S
  BY <1>4 DEF ToSet
<1>7. IsFiniteSet(ToSet(s)) /\ Cardinality(ToSet(s)) = n
  BY <1>4, <1>5, InjectiveLength
<1>8. ToSet(s) = S
  BY <1>6, <1>7, FS_Subset
<1>9. QED
  BY <1>4, <1>5, <1>8 DEF s

-----------------------------------------------------------------------------
(* Nodes linked in the order of a sequence, as LinkedList links them. *)

(* A node of a list by its place, with the head at both ends. *)
NodeAt(q, head, i) == IF i \in 1 .. Len(q) THEN q[i] ELSE head

LinkedAs(h, head, q) ==
  \A i \in 0 .. Len(q) : /\ h.next[NodeAt(q, head, i)] = NodeAt(q, head, i + 1)
                         /\ h.prev[NodeAt(q, head, i + 1)] = NodeAt(q, head, i)

(* A walk along next, which stays where it meets the head or stop. *)
Walk(h, head, stop) ==
  LET at[k \in Nat] == IF k = 0 THEN h.next[head]
                       ELSE LET n == at[k - 1]
                            IN  IF n \in {head, stop} THEN n ELSE h.next[n]
  IN  at

(* A place of a list holds an element, or the head.                        *)
LEMMA NodeAtIs ==
  ASSUME NEW E, NEW q \in Seq(E), NEW head, head \notin E, NEW i \in Int
  PROVE  /\ NodeAt(q, head, i) \in ToSet(q) \cup {head}
         /\ NodeAt(q, head, i) = head <=> i \notin 1 .. Len(q)
         /\ i \in 1 .. Len(q) => NodeAt(q, head, i) = q[i] /\ q[i] \in E
<1>1. Len(q) \in Nat /\ (i \in 1 .. Len(q) => q[i] \in E)
  BY LenProperties, ElementOfSeq
<1>2. i \in 1 .. Len(q) => q[i] \in ToSet(q)
  BY SeqAsSet
<1>3. QED
  BY <1>1, <1>2 DEF NodeAt

(* The nodes of a list are different ones. *)
LEMMA NodesDistinct ==
  ASSUME NEW E, NEW q \in Seq(E), NEW head, head \notin E, IsInjective(q),
         NEW i \in Int, NEW j \in Int, NodeAt(q, head, i) = NodeAt(q, head, j),
         \/ i \in 0 .. Len(q) /\ j \in 0 .. Len(q)
         \/ i \in 1 .. Len(q) + 1 /\ j \in 1 .. Len(q) + 1
  PROVE  i = j
<1>1. Len(q) \in Nat /\ \A k, l \in 1 .. Len(q) : q[k] = q[l] => k = l
  BY LenProperties, SeqAsSet
<1>2. i \in 1 .. Len(q) <=> j \in 1 .. Len(q)
  BY NodeAtIs
<1>3. CASE i \in 1 .. Len(q)
  <2>1. q[i] = q[j]
    BY <1>2, <1>3 DEF NodeAt
  <2>2. QED
    BY <1>1, <1>2, <1>3, <2>1
<1>4. CASE i \notin 1 .. Len(q)
  BY <1>1, <1>2, <1>4
<1>5. QED
  BY <1>3, <1>4

(* What is linked has a node before and one behind it. *)
LEMMA LinkedNeighbours ==
  ASSUME NEW E, NEW q \in Seq(E), NEW head, head \notin E, NEW h, LinkedAs(h, head, q),
         NEW n \in ToSet(q) \cup {head}
  PROVE  h.next[n] \in ToSet(q) \cup {head} /\ h.prev[n] \in ToSet(q) \cup {head}
<1>1. Len(q) \in Nat
  BY LenProperties
<1>2. \A i \in Int : NodeAt(q, head, i) \in ToSet(q) \cup {head}
  BY NodeAtIs
<1>3. PICK i \in 0 .. Len(q) : n = NodeAt(q, head, i)
  <2>1. CASE n = head
    BY <1>1, <2>1, NodeAtIs
  <2>2. CASE n \in ToSet(q)
    BY <1>1, <2>2, SeqAsSet DEF NodeAt
  <2>3. QED
    BY <2>1, <2>2
<1>4. h.next[n] = NodeAt(q, head, i + 1)
  BY <1>3 DEF LinkedAs
<1>5. PICK j \in 0 .. Len(q) : n = NodeAt(q, head, j + 1)
  <2>1. CASE n = head
    <3>1. NodeAt(q, head, Len(q) + 1) = head
      BY <1>1, NodeAtIs
    <3>2. QED
      BY <1>1, <2>1, <3>1
  <2>2. CASE n # head
    <3>1. i \in 1 .. Len(q)
      BY <1>3, <2>2 DEF NodeAt
    <3>2. i - 1 \in 0 .. Len(q) /\ (i - 1) + 1 = i
      BY <1>1, <3>1
    <3>3. QED
      BY <1>3, <3>2
  <2>3. QED
    BY <2>1, <2>2
<1>6. h.prev[n] = NodeAt(q, head, j)
  BY <1>5 DEF LinkedAs
<1>7. QED
  BY <1>2, <1>4, <1>6

(* A list depends on its own nodes only. *)
LEMMA LinkedFrame ==
  ASSUME NEW E, NEW q \in Seq(E), NEW head, head \notin E, NEW h, NEW g, LinkedAs(h, head, q),
         \A n \in ToSet(q) \cup {head} : g.next[n] = h.next[n] /\ g.prev[n] = h.prev[n]
  PROVE  LinkedAs(g, head, q)
<1>1. \A i \in Int : NodeAt(q, head, i) \in ToSet(q) \cup {head}
  BY NodeAtIs
<1>2. Len(q) \in Nat
  BY LenProperties
<1>3. QED
  BY <1>1, <1>2 DEF LinkedAs

(* A walk along a list comes to its nodes in their order and stays at the  *)
(* head.                                                                   *)
LEMMA WalkLinked ==
  ASSUME NEW E, NEW q \in Seq(E), NEW head, head \notin E, NEW h, LinkedAs(h, head, q),
         NEW stop, stop \notin E
  PROVE  \A k \in Nat : Walk(h, head, stop)[k] = NodeAt(q, head, k + 1)
<1> DEFINE f == [k \in Nat |-> NodeAt(q, head, k + 1)]
           Next1(n) == IF n \in {head, stop} THEN n ELSE h.next[n]
           at == Walk(h, head, stop)
<1>1. Len(q) \in Nat
  BY LenProperties
<1>2. NodeAt(q, head, 0) = head /\ h.next[head] = NodeAt(q, head, 1)
  <2>1. NodeAt(q, head, 0) = head
    BY NodeAtIs
  <2>2. h.next[NodeAt(q, head, 0)] = NodeAt(q, head, 1)
    BY <1>1 DEF LinkedAs
  <2>3. QED
    BY <2>1, <2>2
<1>3. ASSUME NEW k \in Nat, k # 0 PROVE f[k] = Next1(f[k - 1])
  <2>1. f[k] = NodeAt(q, head, k + 1) /\ f[k - 1] = NodeAt(q, head, k)
    BY <1>3
  <2>2. CASE k \in 1 .. Len(q)
    <3>1. NodeAt(q, head, k) \in E
      BY <2>2, NodeAtIs
    <3>2. NodeAt(q, head, k) \notin {head, stop}
      BY <3>1
    <3>3. h.next[NodeAt(q, head, k)] = NodeAt(q, head, k + 1)
      BY <1>1, <2>2 DEF LinkedAs
    <3>4. QED
      BY <2>1, <3>2, <3>3
  <2>3. CASE k \notin 1 .. Len(q)
    <3>1. NodeAt(q, head, k) = head /\ NodeAt(q, head, k + 1) = head
      BY <1>1, <1>3, <2>3 DEF NodeAt
    <3>2. QED
      BY <2>1, <3>1
  <2>4. QED
    BY <2>2, <2>3
<1>4. f = [k \in Nat |-> IF k = 0 THEN h.next[head] ELSE Next1(f[k - 1])]
  <2>1. f[0] = h.next[head]
    BY <1>2
  <2> DEFINE g == [k \in Nat |-> IF k = 0 THEN h.next[head] ELSE Next1(f[k - 1])]
  <2>2. \A k \in Nat : f[k] = g[k]
    BY <1>3, <2>1
  <2>3. f = [k \in Nat |-> f[k]] /\ g = [k \in Nat |-> g[k]]
    OBVIOUS
  <2> HIDE DEF f, g
  <2>4. f = g
    BY <2>2, <2>3
  <2>5. QED
    BY <2>4 DEF g
<1> HIDE DEF f
<1>5. at = [k \in Nat |-> IF k = 0 THEN h.next[head] ELSE Next1(at[k - 1])]
  BY <1>4 DEF Walk
<1> HIDE DEF at
<1>6. \A k \in Nat : at[k] = f[k]
  <2> DEFINE T == {k \in Nat : at[k] # f[k]}
  <2> SUFFICES ASSUME T # {} PROVE FALSE
    OBVIOUS
  <2>1. PICK k \in T : \A j \in T : k <= j
    BY NatHasMin
  <2>2. k # 0
    BY <1>4, <1>5
  <2>3. k - 1 \in Nat /\ k - 1 \notin T
    BY <2>1, <2>2
  <2>4. at[k - 1] = f[k - 1]
    BY <2>3
  <2>5. at[k] = Next1(at[k - 1]) /\ f[k] = Next1(f[k - 1])
    BY <1>4, <1>5, <2>2
  <2>6. QED
    BY <2>4, <2>5
<1>7. QED
  BY <1>6 DEF f, at

(* Of the nodes in S, r has those of h, with s linked between two of them. *)
Between(h, r, S, s, before, after) ==
  \A n \in S :
    /\ r.next[n] = IF n = before THEN s ELSE IF n = s THEN after ELSE h.next[n]
    /\ r.prev[n] = IF n = s THEN before ELSE IF n = after THEN s ELSE h.prev[n]

(* The pointers of a list into which s came behind the node at place p.    *)
LEMMA InsertedLinked ==
  ASSUME NEW E, NEW q \in Seq(E), NEW head, head \notin E, IsInjective(q),
         NEW h, NEW r, LinkedAs(h, head, q), NEW s \in E, s \notin ToSet(q),
         NEW p \in 0 .. Len(q), NEW before, NEW after,
         before = NodeAt(q, head, p), after = NodeAt(q, head, p + 1),
         Between(h, r, ToSet(q) \cup {head, s}, s, before, after)
  PROVE  LinkedAs(r, head, InsertAt(q, p + 1, s))
<1> DEFINE u == InsertAt(q, p + 1, s)
           a(i) == NodeAt(q, head, i)
           b(i) == NodeAt(u, head, i)
           N == ToSet(q) \cup {head, s}
<1>1. Len(q) \in Nat /\ p + 1 \in 1 .. Len(q) + 1 /\ p \in Int /\ p \in Nat
  BY LenProperties
<1>2. /\ u \in Seq(E) /\ Len(u) = Len(q) + 1
      /\ \A k \in 1 .. Len(q) + 1 :
           u[k] = IF k < p + 1 THEN q[k] ELSE IF k = p + 1 THEN s ELSE q[k - 1]
  BY <1>1, InsertAtElements
<1> HIDE DEF u
<1>3. \A i \in 0 .. p : b(i) = a(i)
  BY <1>1, <1>2 DEF NodeAt
<1>4. b(p + 1) = s
  BY <1>1, <1>2 DEF NodeAt
<1>5. \A i \in p + 2 .. Len(q) + 2 : b(i) = a(i - 1)
  <2> TAKE i \in p + 2 .. Len(q) + 2
  <2>1. CASE i = Len(q) + 2
    BY <1>1, <1>2, <2>1 DEF NodeAt
  <2>2. CASE i \in p + 2 .. Len(q) + 1
    BY <1>1, <1>2, <2>2 DEF NodeAt
  <2>3. QED
    BY <1>1, <2>1, <2>2
<1>6. \A i \in 0 .. Len(q) : h.next[a(i)] = a(i + 1) /\ h.prev[a(i + 1)] = a(i)
  BY DEF LinkedAs
<1>7. before = a(p) /\ after = a(p + 1)
  OBVIOUS
<1>8. \A i \in Int : a(i) \in N /\ a(i) # s
  BY NodeAtIs
<1>9. \A i, k \in 0 .. Len(q) : a(i) = a(k) => i = k
  BY <1>1, NodesDistinct
<1>10. \A i, k \in 1 .. Len(q) + 1 : a(i) = a(k) => i = k
  BY <1>1, NodesDistinct
<1>11. /\ s \in N
       /\ \A n \in N :
           /\ r.next[n] = IF n = before THEN s ELSE IF n = s THEN after ELSE h.next[n]
           /\ r.prev[n] = IF n = s THEN before ELSE IF n = after THEN s ELSE h.prev[n]
  BY DEF Between
<1> HIDE DEF a, b, N
\* The other links stay.
<1>12. ASSUME NEW i \in 0 .. Len(q), i # p
       PROVE  r.next[a(i)] = a(i + 1) /\ r.prev[a(i + 1)] = a(i)
  <2>1. p \in 0 .. Len(q) /\ p + 1 \in 1 .. Len(q) + 1 /\ i + 1 \in 1 .. Len(q) + 1
        /\ p + 1 # i + 1 /\ i \in Int /\ i + 1 \in Int
    BY <1>1, <1>12
  <2>2. a(i) # before /\ a(i + 1) # after
    BY <1>7, <1>9, <1>10, <1>12, <2>1
  <2>3. /\ a(i) \in N /\ a(i) # s /\ a(i + 1) \in N /\ a(i + 1) # s
    BY <1>8, <2>1
  <2>4. QED
    BY <1>6, <1>11, <2>2, <2>3
<1>13. r.next[before] = s /\ r.prev[s] = before
  BY <1>1, <1>7, <1>8, <1>11
<1>14. r.next[s] = after /\ r.prev[after] = s
  <2>1. before # s /\ after # s /\ after \in N
    BY <1>1, <1>7, <1>8
  <2>2. QED
    BY <1>11, <2>1
<1>15. ASSUME NEW i \in 0 .. Len(u)
       PROVE  r.next[b(i)] = b(i + 1) /\ r.prev[b(i + 1)] = b(i)
  <2>1. CASE i < p
    <3>1. i \in 0 .. Len(q) /\ i # p /\ i \in 0 .. p /\ i + 1 \in 0 .. p
      BY <1>1, <1>2, <2>1
    <3>2. QED
      BY <1>3, <1>12, <3>1
  <2>2. CASE i = p
    <3>1. b(i) = before /\ b(i + 1) = s
      BY <1>1, <1>3, <1>4, <1>7, <2>2
    <3>2. QED
      BY <1>13, <3>1
  <2>3. CASE i = p + 1
    <3>1. i + 1 \in p + 2 .. Len(q) + 2 /\ (i + 1) - 1 = p + 1
      BY <1>1, <2>3
    <3>2. b(i) = s /\ b(i + 1) = after
      BY <1>4, <1>5, <1>7, <2>3, <3>1
    <3>3. QED
      BY <1>14, <3>2
  <2>4. CASE i > p + 1
    <3>1. PICK k \in 0 .. Len(q) : k = i - 1 /\ k # p /\ i = k + 1
      BY <1>1, <1>2, <2>4
    <3>2. /\ i \in p + 2 .. Len(q) + 2 /\ i + 1 \in p + 2 .. Len(q) + 2
          /\ (i + 1) - 1 = k + 1
      BY <1>1, <1>2, <2>4, <3>1
    <3>3. b(i) = a(k) /\ b(i + 1) = a(k + 1)
      BY <1>5, <3>1, <3>2
    <3>4. QED
      BY <1>12, <3>1, <3>3
  <2>5. QED
    BY <1>1, <1>2, <2>1, <2>2, <2>3, <2>4
<1>16. LinkedAs(r, head, u)
  BY <1>15 DEF LinkedAs, b
<1>17. QED
  BY <1>16 DEF u

(* The pointers of a list from which the node at place j went. *)
LEMMA RemovedLinked ==
  ASSUME NEW E, NEW q \in Seq(E), NEW head, head \notin E, IsInjective(q),
         NEW h, NEW r, LinkedAs(h, head, q), NEW j \in 1 .. Len(q),
         NEW before, NEW after, before = h.prev[q[j]], after = h.next[q[j]],
         \A n \in (ToSet(q) \cup {head}) \ {q[j]} :
           /\ r.next[n] = IF n = before THEN after ELSE h.next[n]
           /\ r.prev[n] = IF n = after THEN before ELSE h.prev[n]
  PROVE  LinkedAs(r, head, RemoveAt(q, j))
<1> DEFINE u == RemoveAt(q, j)
           a(i) == NodeAt(q, head, i)
           b(i) == NodeAt(u, head, i)
           s == q[j]
           N == ToSet(q) \cup {head}
<1>1. Len(q) \in Nat /\ j \in Int
  BY LenProperties
<1>2. /\ u \in Seq(E) /\ Len(u) = Len(q) - 1
      /\ \A k \in 1 .. Len(q) - 1 : u[k] = IF k < j THEN q[k] ELSE q[k + 1]
  BY RemoveAtElements
<1> HIDE DEF u
<1>3. \A i \in 0 .. j - 1 : b(i) = a(i)
  BY <1>1, <1>2 DEF NodeAt
<1>4. \A i \in j .. Len(q) : b(i) = a(i + 1)
  <2> TAKE i \in j .. Len(q)
  <2>1. CASE i = Len(q)
    BY <1>1, <1>2, <2>1 DEF NodeAt
  <2>2. CASE i \in j .. Len(q) - 1
    BY <1>1, <1>2, <2>2 DEF NodeAt
  <2>3. QED
    BY <1>1, <2>1, <2>2
<1>5. \A i \in 0 .. Len(q) : h.next[a(i)] = a(i + 1) /\ h.prev[a(i + 1)] = a(i)
  BY <1>1 DEF LinkedAs
<1>6. a(j) = s
  BY <1>1 DEF NodeAt
<1>7. after = a(j + 1)
  BY <1>1, <1>5, <1>6
<1>8. before = a(j - 1)
  <2>1. j - 1 \in 0 .. Len(q) /\ (j - 1) + 1 = j
    BY <1>1
  <2>2. QED
    BY <1>5, <1>6, <2>1
<1>9. \A i \in Int : a(i) \in N
  BY NodeAtIs
<1>10. \A i, k \in 0 .. Len(q) : a(i) = a(k) => i = k
  BY <1>1, NodesDistinct
<1>11. \A i, k \in 1 .. Len(q) + 1 : a(i) = a(k) => i = k
  BY <1>1, NodesDistinct
<1>12. \A n \in N \ {s} :
           /\ r.next[n] = IF n = before THEN after ELSE h.next[n]
           /\ r.prev[n] = IF n = after THEN before ELSE h.prev[n]
  OBVIOUS
<1> HIDE DEF a, b, s, N
<1>13. ASSUME NEW i \in 0 .. Len(q), i # j, i # j - 1
       PROVE  r.next[a(i)] = a(i + 1)
  <2>1. a(i) # s /\ a(i) # before
    <3>1. j \in 0 .. Len(q) /\ j - 1 \in 0 .. Len(q)
      BY <1>1
    <3>2. QED
      BY <1>6, <1>8, <1>10, <1>13, <3>1
  <2>2. r.next[a(i)] = h.next[a(i)]
    BY <1>9, <1>12, <2>1
  <2>3. QED
    BY <1>5, <2>2
<1>14. ASSUME NEW i \in 0 .. Len(q), i # j, i # j - 1
       PROVE  r.prev[a(i + 1)] = a(i)
  <2>1. a(i + 1) # s /\ a(i + 1) # after
    <3>1. j \in 1 .. Len(q) + 1 /\ j + 1 \in 1 .. Len(q) + 1 /\ i + 1 \in 1 .. Len(q) + 1
      BY <1>1
    <3>2. i + 1 # j /\ i + 1 # j + 1
      BY <1>1, <1>14
    <3>3. QED
      BY <1>6, <1>7, <1>11, <3>1, <3>2
  <2>2. r.prev[a(i + 1)] = h.prev[a(i + 1)]
    <3>1. i + 1 \in Int
      BY <1>1
    <3>2. a(i + 1) \in N
      BY <1>9, <3>1
    <3>3. QED
      BY <1>12, <2>1, <3>2
  <2>3. QED
    BY <1>5, <2>2
<1>15. r.next[before] = after /\ r.prev[after] = before
  <2>1. /\ j \in 0 .. Len(q) /\ j - 1 \in 0 .. Len(q)
        /\ j \in 1 .. Len(q) + 1 /\ j + 1 \in 1 .. Len(q) + 1
        /\ j - 1 # j /\ j + 1 # j /\ j - 1 \in Int /\ j + 1 \in Int
    BY <1>1
  <2>2. before # s /\ after # s /\ before \in N /\ after \in N
    BY <1>6, <1>7, <1>8, <1>9, <1>10, <1>11, <2>1
  <2>3. QED
    BY <1>12, <2>2
<1>16. ASSUME NEW i \in 0 .. Len(u)
       PROVE  r.next[b(i)] = b(i + 1) /\ r.prev[b(i + 1)] = b(i)
  <2>1. CASE i < j - 1
    <3>1. /\ i \in 0 .. Len(q) /\ i # j /\ i # j - 1
          /\ i \in 0 .. j - 1 /\ i + 1 \in 0 .. j - 1
      BY <1>1, <1>2, <2>1
    <3>2. b(i) = a(i) /\ b(i + 1) = a(i + 1)
      BY <1>3, <3>1
    <3>3. QED
      BY <1>13, <1>14, <3>1, <3>2
  <2>2. CASE i = j - 1
    <3>1. i \in 0 .. j - 1 /\ i + 1 = j /\ j \in j .. Len(q)
      BY <1>1, <2>2
    <3>2. b(i) = before /\ b(i + 1) = after
      BY <1>3, <1>4, <1>7, <1>8, <2>2, <3>1
    <3>3. QED
      BY <1>15, <3>2
  <2>3. CASE i >= j
    <3>1. /\ i + 1 \in 0 .. Len(q) /\ i + 1 # j /\ i + 1 # j - 1
          /\ i \in j .. Len(q) /\ i + 1 \in j .. Len(q)
      BY <1>1, <1>2, <2>3
    <3>2. b(i) = a(i + 1) /\ b(i + 1) = a((i + 1) + 1)
      BY <1>4, <3>1
    <3>3. QED
      BY <1>13, <1>14, <3>1, <3>2
  <2>4. QED
    BY <1>1, <1>2, <2>1, <2>2, <2>3
<1>17. LinkedAs(r, head, u)
  BY <1>16 DEF LinkedAs, b
<1>18. QED
  BY <1>17 DEF u

(* The same list, walked the other way. *)
LEMMA MirrorLinked ==
  ASSUME NEW E, NEW q \in Seq(E), NEW head, head \notin E, NEW h, NEW g,
         LinkedAs(h, head, q), g.next = h.prev, g.prev = h.next
  PROVE  LinkedAs(g, head, Reverse(q)) /\ Reverse(q) \in Seq(E) /\ Len(Reverse(q)) = Len(q)
<1> DEFINE u == Reverse(q)
           n == Len(q)
<1>1. n \in Nat /\ \A i \in 1 .. n : q[i] \in E
  BY LenProperties, ElementOfSeq
<1>2. u = [i \in 1 .. n |-> q[n - i + 1]]
  BY DEF Reverse
<1>3. u \in Seq(E) /\ Len(u) = n /\ \A i \in 1 .. n : u[i] = q[n - i + 1]
  <2>1. \A i \in 1 .. n : q[n - i + 1] \in E
    BY <1>1
  <2>2. u \in [1 .. n -> E]
    BY <1>2, <2>1
  <2>3. u \in Seq(E) /\ Len(u) = n
    BY <1>1, <2>2, IsASeq, LenProperties
  <2>4. QED
    BY <1>2, <2>3
<1> HIDE DEF u, n
<1>4. ASSUME NEW i \in 0 .. n + 1 PROVE NodeAt(u, head, i) = NodeAt(q, head, n + 1 - i)
  <2>1. CASE i \in 1 .. n
    <3>1. n + 1 - i \in 1 .. n /\ n + 1 - i = n - i + 1
      BY <1>1, <2>1
    <3>2. QED
      BY <1>3, <2>1, <3>1 DEF NodeAt, n
  <2>2. CASE i \notin 1 .. n
    <3>1. n + 1 - i \notin 1 .. n
      BY <1>1, <1>4, <2>2
    <3>2. QED
      BY <1>3, <2>2, <3>1 DEF NodeAt, n
  <2>3. QED
    BY <2>1, <2>2
<1>5. \A i \in 0 .. n : /\ h.next[NodeAt(q, head, i)] = NodeAt(q, head, i + 1)
                        /\ h.prev[NodeAt(q, head, i + 1)] = NodeAt(q, head, i)
  BY DEF LinkedAs, n
<1>6. ASSUME NEW i \in 0 .. n
      PROVE  /\ g.next[NodeAt(u, head, i)] = NodeAt(u, head, i + 1)
             /\ g.prev[NodeAt(u, head, i + 1)] = NodeAt(u, head, i)
  <2>1. PICK k \in 0 .. n : k = n - i /\ n + 1 - i = k + 1 /\ n + 1 - (i + 1) = k
    BY <1>1
  <2>2. i \in 0 .. n + 1 /\ i + 1 \in 0 .. n + 1
    BY <1>1
  <2>3. NodeAt(u, head, i) = NodeAt(q, head, k + 1) /\ NodeAt(u, head, i + 1) = NodeAt(q, head, k)
    BY <1>4, <2>1, <2>2
  <2>4. QED
    BY <1>5, <2>3
<1>7. LinkedAs(g, head, u)
  BY <1>3, <1>6 DEF LinkedAs
<1>8. QED
  BY <1>3, <1>7 DEF u, n

(* The heaps of LinkedList, and its pointer operations.                    *)
Heaps(N, stop) == [next : [N -> N \cup {stop}], prev : [N -> N \cup {stop}]]

LinkBetween(h, new, before, after) ==
  LET h1 == [h EXCEPT !.prev[after] = new]
      h2 == [h1 EXCEPT !.next[new] = after]
      h3 == [h2 EXCEPT !.prev[new] = before]
  IN  [h3 EXCEPT !.next[before] = new]

Unlink(h, n) ==
  LET h1 == [h EXCEPT !.prev[h.next[n]] = h.prev[n]]
      h2 == [h1 EXCEPT !.next[h1.prev[n]] = h1.next[n]]
  IN  [h2 EXCEPT !.next[n] = n, !.prev[n] = n]

(* What they do to each node. *)
LEMMA LinkPointers ==
  ASSUME NEW N, NEW stop, NEW h \in Heaps(N, stop), NEW s \in N,
         NEW before \in N, NEW after \in N, s # before
  PROVE  LET r == LinkBetween(h, s, before, after)
         IN  r \in Heaps(N, stop) /\ Between(h, r, N, s, before, after)
<1> DEFINE r == LinkBetween(h, s, before, after)
<1>1. PICK next, prev : /\ next \in [N -> N \cup {stop}] /\ prev \in [N -> N \cup {stop}]
                        /\ h = [next |-> next, prev |-> prev]
  BY DEF Heaps
<1>2. r = [next |-> [[next EXCEPT ![s] = after] EXCEPT ![before] = s],
           prev |-> [[prev EXCEPT ![after] = s] EXCEPT ![s] = before]]
  <2> DEFINE h1 == [h EXCEPT !.prev[after] = s]
             h2 == [h1 EXCEPT !.next[s] = after]
             h3 == [h2 EXCEPT !.prev[s] = before]
  <2>1. r = [h3 EXCEPT !.next[before] = s]
    BY DEF LinkBetween
  <2> HIDE DEF r
  <2>2. h1 = [next |-> next, prev |-> [prev EXCEPT ![after] = s]]
    BY <1>1
  <2> HIDE DEF h1
  <2>3. h2 = [next |-> [next EXCEPT ![s] = after], prev |-> [prev EXCEPT ![after] = s]]
    BY <2>2
  <2> HIDE DEF h2
  <2>4. h3 = [next |-> [next EXCEPT ![s] = after],
              prev |-> [[prev EXCEPT ![after] = s] EXCEPT ![s] = before]]
    BY <2>3
  <2> HIDE DEF h3
  <2>5. QED
    BY <2>1, <2>4
<1> HIDE DEF r
<1>3. r \in Heaps(N, stop)
  BY <1>1, <1>2 DEF Heaps
<1>4. \A n \in N :
        /\ r.next[n] = IF n = before THEN s ELSE IF n = s THEN after ELSE next[n]
        /\ r.prev[n] = IF n = s THEN before ELSE IF n = after THEN s ELSE prev[n]
  BY <1>1, <1>2
<1>5. QED
  BY <1>1, <1>3, <1>4 DEF r, Between

LEMMA UnlinkPointers ==
  ASSUME NEW N, NEW stop, NEW h \in Heaps(N, stop), NEW s \in N,
         h.next[s] \in N, h.prev[s] \in N
  PROVE  LET r == Unlink(h, s)
         IN  /\ r \in Heaps(N, stop)
             /\ \A n \in N :
                  /\ r.next[n] = IF n = s THEN s ELSE IF n = h.prev[s] THEN h.next[s] ELSE h.next[n]
                  /\ r.prev[n] = IF n = s THEN s ELSE IF n = h.next[s] THEN h.prev[s] ELSE h.prev[n]
<1> DEFINE r == Unlink(h, s)
<1>1. PICK after \in N, before \in N : after = h.next[s] /\ before = h.prev[s]
  OBVIOUS
<1>2. PICK next, prev : /\ next \in [N -> N \cup {stop}] /\ prev \in [N -> N \cup {stop}]
                        /\ h = [next |-> next, prev |-> prev]
  BY DEF Heaps
<1>3. r = [next |-> [[next EXCEPT ![before] = after] EXCEPT ![s] = s],
           prev |-> [[prev EXCEPT ![after] = before] EXCEPT ![s] = s]]
  <2> DEFINE h1 == [h EXCEPT !.prev[h.next[s]] = h.prev[s]]
             h2 == [h1 EXCEPT !.next[h1.prev[s]] = h1.next[s]]
  <2>1. h1 = [next |-> next, prev |-> [prev EXCEPT ![after] = before]]
    BY <1>1, <1>2
  <2>2. h1.prev[s] = before /\ h1.next[s] = after
    BY <1>1, <1>2, <2>1
  <2>3. r = [h2 EXCEPT !.next[s] = s, !.prev[s] = s]
    BY DEF Unlink
  <2> HIDE DEF h1
  <2>4. h2 = [next |-> [next EXCEPT ![before] = after], prev |-> [prev EXCEPT ![after] = before]]
    BY <2>1, <2>2
  <2> HIDE DEF h2, r
  <2>5. QED
    BY <2>3, <2>4
<1> HIDE DEF r
<1>4. r \in Heaps(N, stop)
  BY <1>1, <1>2, <1>3 DEF Heaps
<1>5. \A n \in N :
        /\ r.next[n] = IF n = s THEN s ELSE IF n = before THEN after ELSE next[n]
        /\ r.prev[n] = IF n = s THEN s ELSE IF n = after THEN before ELSE prev[n]
  BY <1>1, <1>2, <1>3
<1>6. QED
  BY <1>1, <1>2, <1>4, <1>5 DEF r

(* Linking a node behind the one at place p, and unlinking one: the list   *)
(* changes so, and what is not in it does not.                             *)
LEMMA LinkInList ==
  ASSUME NEW E, NEW N, NEW stop, E \subseteq N, NEW h \in Heaps(N, stop),
         NEW q \in Seq(E), NEW head \in N, head \notin E, IsInjective(q),
         LinkedAs(h, head, q), NEW s \in E, s \notin ToSet(q), NEW p \in 0 .. Len(q)
  PROVE  LET r == LinkBetween(h, s, NodeAt(q, head, p), NodeAt(q, head, p + 1))
         IN  /\ r \in Heaps(N, stop) /\ LinkedAs(r, head, InsertAt(q, p + 1, s))
             /\ \A n \in N \ (ToSet(q) \cup {head, s}) :
                  r.next[n] = h.next[n] /\ r.prev[n] = h.prev[n]
<1>1. PICK before, after : before = NodeAt(q, head, p) /\ after = NodeAt(q, head, p + 1)
  OBVIOUS
<1> DEFINE r == LinkBetween(h, s, before, after)
<1>2. ToSet(q) \subseteq E /\ p \in Int /\ p + 1 \in Int
  BY SeqAsSet, LenProperties
<1>3. before \in ToSet(q) \cup {head} /\ after \in ToSet(q) \cup {head}
  BY <1>1, <1>2, NodeAtIs
<1>4. before \in N /\ after \in N /\ s \in N /\ s # before
  BY <1>2, <1>3
<1>5. r \in Heaps(N, stop) /\ Between(h, r, N, s, before, after)
  BY <1>4, LinkPointers
<1> HIDE DEF r
<1>6. \A n \in ToSet(q) \cup {head, s} : n \in N
  BY <1>2
<1>7. Between(h, r, ToSet(q) \cup {head, s}, s, before, after)
  BY <1>5, <1>6 DEF Between
<1>8. LinkedAs(r, head, InsertAt(q, p + 1, s))
  BY <1>1, <1>7, InsertedLinked
<1>9. \A n \in N \ (ToSet(q) \cup {head, s}) : r.next[n] = h.next[n] /\ r.prev[n] = h.prev[n]
  BY <1>3, <1>5 DEF Between
<1>10. r = LinkBetween(h, s, NodeAt(q, head, p), NodeAt(q, head, p + 1))
  BY <1>1 DEF r
<1>11. QED
  BY <1>5, <1>8, <1>9, <1>10

LEMMA UnlinkInList ==
  ASSUME NEW E, NEW N, NEW stop, E \subseteq N, NEW h \in Heaps(N, stop),
         NEW q \in Seq(E), NEW head \in N, head \notin E, IsInjective(q),
         LinkedAs(h, head, q), NEW j \in 1 .. Len(q)
  PROVE  LET r == Unlink(h, q[j])
         IN  /\ r \in Heaps(N, stop) /\ LinkedAs(r, head, RemoveAt(q, j))
             /\ \A n \in N \ (ToSet(q) \cup {head}) :
                  r.next[n] = h.next[n] /\ r.prev[n] = h.prev[n]
<1> DEFINE r == Unlink(h, q[j])
<1>1. ToSet(q) \subseteq E /\ q[j] \in ToSet(q) /\ q[j] \in N
  BY SeqAsSet
<1>2. PICK before, after : before = h.prev[q[j]] /\ after = h.next[q[j]]
  OBVIOUS
<1>3. before \in ToSet(q) \cup {head} /\ after \in ToSet(q) \cup {head}
  BY <1>1, <1>2, LinkedNeighbours
<1>4. before \in N /\ after \in N
  BY <1>1, <1>3
<1>5. /\ r \in Heaps(N, stop)
      /\ \A n \in N :
           /\ r.next[n] = IF n = q[j] THEN q[j] ELSE IF n = before THEN after ELSE h.next[n]
           /\ r.prev[n] = IF n = q[j] THEN q[j] ELSE IF n = after THEN before ELSE h.prev[n]
  BY <1>1, <1>2, <1>4, UnlinkPointers
<1> HIDE DEF r
<1>6. \A n \in ToSet(q) \cup {head} : n \in N
  BY <1>1
<1>7. \A n \in (ToSet(q) \cup {head}) \ {q[j]} :
        /\ r.next[n] = IF n = before THEN after ELSE h.next[n]
        /\ r.prev[n] = IF n = after THEN before ELSE h.prev[n]
  BY <1>5, <1>6
<1>8. LinkedAs(r, head, RemoveAt(q, j))
  BY <1>1, <1>2, <1>7, RemovedLinked
<1>9. \A n \in N \ (ToSet(q) \cup {head}) : r.next[n] = h.next[n] /\ r.prev[n] = h.prev[n]
  BY <1>1, <1>3, <1>5
<1>10. QED
  BY <1>5, <1>8, <1>9 DEF r

(* A list is not longer than there are nodes.                              *)
LEMMA ListFits ==
  ASSUME NEW E, NEW N, E \subseteq N, IsFiniteSet(N), NEW q \in Seq(E), IsInjective(q)
  PROVE  Len(q) \in 0 .. Cardinality(N)
<1>1. ToSet(q) \in SUBSET N /\ Cardinality(ToSet(q)) = Len(q) /\ Len(q) \in Nat
  BY SeqAsSet, InjectiveLength, LenProperties
<1>2. Cardinality(ToSet(q)) <= Cardinality(N) /\ Cardinality(N) \in Nat
  BY <1>1, FS_Subset, FS_CardinalityType
<1>3. QED
  BY <1>1, <1>2

-----------------------------------------------------------------------------
(* Folds. *)

(* Induction along the naturals up to n, for a property given as a set. *)
LEMMA UpTo ==
  ASSUME NEW n \in Nat, NEW S, 0 \in S, \A k \in 1 .. n : k - 1 \in S => k \in S
  PROVE  0 .. n \subseteq S
<1> DEFINE T == {k \in 0 .. n : k \notin S}
<1> SUFFICES ASSUME T # {} PROVE FALSE
  OBVIOUS
<1>1. T \in SUBSET Nat
  OBVIOUS
<1>2. PICK x \in T : \A y \in T : x <= y
  <2> HIDE DEF T
  <2>1. QED
    BY <1>1, NatHasMin
<1>3. x \in 1 .. n /\ x \notin S
  OBVIOUS
<1>4. x - 1 \in 0 .. n /\ ~(x <= x - 1)
  BY <1>3
<1>5. x - 1 \in S
  BY <1>2, <1>4
<1>6. QED
  BY <1>3, <1>5

(* Max of a set of numbers up to n is its greatest element. *)
LEMMA MaxUpTo ==
  ASSUME NEW n \in Nat, NEW s \in SUBSET (1 .. n), s # {}
  PROVE  Max(s) \in s /\ \A y \in s : Max(s) >= y
<1>1. \E x \in s : \A y \in s : x >= y
  <2> DEFINE T == {n - y : y \in s}
  <2>1. T \in SUBSET Nat /\ T # {}
    OBVIOUS
  <2>2. PICK t \in T : \A u \in T : t <= u
    <3> HIDE DEF T
    <3>1. QED
      BY <2>1, NatHasMin
  <2>3. PICK x \in s : t = n - x
    OBVIOUS
  <2>4. ASSUME NEW y \in s PROVE x >= y
    <3>1. t <= n - y
      BY <2>2
    <3>2. QED
      BY <2>3, <3>1
  <2>5. QED
    BY <2>4
<1>2. QED
  BY <1>1 DEF Max

LEMMA MaxInterval ==
  ASSUME NEW n \in Nat, NEW k \in 1 .. n
  PROVE  /\ 1 .. k \in SUBSET (1 .. n) /\ 1 .. k # {} /\ Max(1 .. k) = k
         /\ (1 .. k) \ {k} = 1 .. k - 1
<1>1. 1 .. k \in SUBSET (1 .. n) /\ k \in 1 .. k /\ (1 .. k) \ {k} = 1 .. k - 1
  OBVIOUS
<1>2. Max(1 .. k) \in 1 .. k /\ \A y \in 1 .. k : Max(1 .. k) >= y
  BY <1>1, MaxUpTo
<1>3. Max(1 .. k) \in 1 .. k /\ Max(1 .. k) >= k
  BY <1>1, <1>2
<1>4. Max(1 .. k) = k
  BY <1>3
<1>5. QED
  BY <1>1, <1>4

(* What FoldLeft recurses on: there is a function on the sets of positions  *)
(* that takes each set's greatest last.                                     *)
Folds(f, b, n, G) ==
  \A s \in SUBSET (1 .. n) : G[s] = IF s = {} THEN b ELSE f[<<G[s \ {Max(s)}], Max(s)>>]

LEMMA FoldExists ==
  ASSUME NEW n \in Nat, NEW T, NEW b \in T, NEW f \in [T \X (1 .. n) -> T]
  PROVE  \E G \in [SUBSET (1 .. n) -> T] : Folds(f, b, n, G)
<1> DEFINE S == {k \in 0 .. n : \E G \in [SUBSET (1 .. k) -> T] : Folds(f, b, k, G)}
<1>1. 0 \in S
  <2> DEFINE G == [s \in SUBSET (1 .. 0) |-> b]
  <2>1. \A s \in SUBSET (1 .. 0) : s = {}
    OBVIOUS
  <2>2. G \in [SUBSET (1 .. 0) -> T] /\ Folds(f, b, 0, G)
    BY <2>1 DEF Folds
  <2>3. QED
    BY <2>2
<1>2. ASSUME NEW k \in 1 .. n, k - 1 \in S PROVE k \in S
  <2>1. PICK G \in [SUBSET (1 .. k - 1) -> T] : Folds(f, b, k - 1, G)
    BY <1>2
  <2> DEFINE H == [s \in SUBSET (1 .. k) |-> IF k \in s THEN f[<<G[s \ {k}], k>>] ELSE G[s]]
  <2>2. ASSUME NEW s \in SUBSET (1 .. k)
        PROVE  s \ {k} \in SUBSET (1 .. k - 1) /\ (k \notin s => s \in SUBSET (1 .. k - 1))
    OBVIOUS
  <2>3. H \in [SUBSET (1 .. k) -> T]
    BY <2>2
  <2>4. ASSUME NEW s \in SUBSET (1 .. k)
        PROVE  H[s] = IF s = {} THEN b ELSE f[<<H[s \ {Max(s)}], Max(s)>>]
    <3>1. CASE s = {}
      BY <2>1, <3>1 DEF Folds
    <3>2. CASE k \in s
      <4>1. k \in Nat /\ s # {}
        BY <3>2
      <4>2. Max(s) = k
        <5>1. Max(s) \in s /\ \A y \in s : Max(s) >= y
          BY <4>1, MaxUpTo
        <5>2. Max(s) \in 1 .. k /\ Max(s) >= k
          BY <3>2, <5>1
        <5>3. QED
          BY <5>2
      <4>3. s \ {k} \in SUBSET (1 .. k) /\ k \notin s \ {k}
        OBVIOUS
      <4>4. H[s \ {k}] = G[s \ {k}]
        BY <4>3
      <4>5. QED
        BY <3>2, <4>2, <4>4
    <3>3. CASE s # {} /\ k \notin s
      <4>1. s \in SUBSET (1 .. k - 1) /\ k - 1 \in Nat
        BY <2>2, <3>3
      <4>2. G[s] = f[<<G[s \ {Max(s)}], Max(s)>>]
        BY <2>1, <3>3, <4>1 DEF Folds
      <4>3. s \ {Max(s)} \in SUBSET (1 .. k) /\ k \notin s \ {Max(s)}
        BY <3>3
      <4>4. H[s] = G[s] /\ H[s \ {Max(s)}] = G[s \ {Max(s)}]
        BY <3>3, <4>3
      <4>5. QED
        BY <3>3, <4>2, <4>4
    <3>4. QED
      BY <3>1, <3>2, <3>3
  <2> HIDE DEF H
  <2>5. Folds(f, b, k, H)
    BY <2>4 DEF Folds
  <2>6. QED
    BY <2>3, <2>5
<1> HIDE DEF S
<1>3. n \in S
  <2>1. 0 .. n \subseteq S
    BY <1>1, <1>2, UpTo
  <2>2. QED
    BY <2>1
<1>4. QED
  BY <1>3 DEF S

-----------------------------------------------------------------------------
(* Sequences of sequences, made flat. *)

(* The places of sequences c[i], one for each i of an index set.            *)
Spots(I, c) == {p \in I \X Nat : p[2] \in 1 .. Len(c[p[1]])}

(* A sequence that has the element of each place once.                      *)
SpelledBy(es, I, c, b) ==
  /\ b \in [1 .. Len(es) -> Spots(I, c)]
  /\ \A x, y \in 1 .. Len(es) : b[x] = b[y] => x = y
  /\ \A p \in Spots(I, c) : \E x \in 1 .. Len(es) : b[x] = p
  /\ \A x \in 1 .. Len(es) : es[x] = c[b[x][1]][b[x][2]]

Spells(es, I, c) == \E b : SpelledBy(es, I, c, b)

LEMMA SpotsAre ==
  ASSUME NEW I, NEW c, NEW i \in I, NEW j \in 1 .. Len(c[i])
  PROVE  <<i, j>> \in Spots(I, c)
  BY DEF Spots

(* One more sequence, behind the others. *)
LEMMA SpellConcat ==
  ASSUME NEW E, NEW n \in Nat \ {0}, NEW c \in [1 .. n -> Seq(E)], NEW k \in 2 .. n,
         NEW s \in Seq(E), Spells(s, 1 .. k - 1, c)
  PROVE  s \o c[k] \in Seq(E) /\ Spells(s \o c[k], 1 .. k, c)
<1> DEFINE t == c[k]
           r == s \o c[k]
           m == Len(s)
<1>1. /\ t \in Seq(E) /\ m \in Nat /\ Len(t) \in Nat /\ r \in Seq(E) /\ Len(r) = m + Len(t)
      /\ \A x \in 1 .. m + Len(t) : r[x] = IF x <= m THEN s[x] ELSE t[x - m]
  BY LenProperties, ConcatProperties
<1> HIDE DEF r
<1>2. PICK b : SpelledBy(s, 1 .. k - 1, c, b)
  BY DEF Spells
<1> DEFINE d == [x \in 1 .. Len(r) |-> IF x <= m THEN b[x] ELSE <<k, x - m>>]
<1>3. \A x \in 1 .. m : /\ x \in 1 .. Len(r) /\ d[x] = b[x] /\ b[x] \in Spots(1 .. k - 1, c)
                        /\ b[x] \in Spots(1 .. k, c) /\ b[x][1] # k
  <2>1. \A p \in Spots(1 .. k - 1, c) : p \in Spots(1 .. k, c) /\ p[1] # k
    BY DEF Spots
  <2>2. \A x \in 1 .. m : b[x] \in Spots(1 .. k - 1, c)
    BY <1>2 DEF SpelledBy
  <2>3. \A x \in 1 .. m : x \in 1 .. Len(r) /\ d[x] = b[x]
    BY <1>1
  <2>4. QED
    BY <2>1, <2>2, <2>3
<1>4. \A x \in 1 .. Len(r) : x \notin 1 .. m =>
        /\ x - m \in 1 .. Len(t) /\ d[x] = <<k, x - m>> /\ d[x] \in Spots(1 .. k, c)
        /\ d[x][1] = k /\ d[x][2] = x - m
  BY SMTT(60), <1>1 DEF Spots
<1>5. \A j \in 1 .. Len(t) : /\ m + j \in 1 .. Len(r) /\ m + j \notin 1 .. m /\ d[m + j] = <<k, j>>
  BY SMTT(60), <1>1
<1> HIDE DEF d
<1>6. d \in [1 .. Len(r) -> Spots(1 .. k, c)]
  <2>1. \A x \in 1 .. Len(r) : d[x] \in Spots(1 .. k, c)
    BY <1>3, <1>4
  <2>2. QED
    BY <2>1 DEF d
<1>7. ASSUME NEW x \in 1 .. Len(r), NEW y \in 1 .. Len(r), d[x] = d[y] PROVE x = y
  <2>1. CASE x \in 1 .. m /\ y \in 1 .. m
    <3>1. b[x] = b[y]
      BY Zenon, <1>3, <1>7, <2>1
    <3>2. QED
      BY <1>2, <2>1, <3>1 DEF SpelledBy
  <2>2. CASE x \notin 1 .. m /\ y \notin 1 .. m
    BY SMTT(60), <1>1, <1>4, <1>7, <2>2
  <2>3. CASE x \in 1 .. m /\ y \notin 1 .. m
    <3>1. d[x][1] # k /\ d[y][1] = k
      BY Zenon, <1>3, <1>4, <2>3
    <3>2. QED
      BY Zenon, <1>7, <3>1
  <2>4. CASE x \notin 1 .. m /\ y \in 1 .. m
    <3>1. d[y][1] # k /\ d[x][1] = k
      BY Zenon, <1>3, <1>4, <2>4
    <3>2. QED
      BY Zenon, <1>7, <3>1
  <2>5. QED
    BY <2>1, <2>2, <2>3, <2>4
<1>8. ASSUME NEW p \in Spots(1 .. k, c) PROVE \E x \in 1 .. Len(r) : d[x] = p
  <2>1. CASE p[1] = k
    <3>1. p = <<k, p[2]>> /\ p[2] \in 1 .. Len(t)
      BY <1>8, <2>1 DEF Spots
    <3>2. QED
      BY <1>5, <3>1
  <2>2. CASE p[1] # k
    <3>1. p \in Spots(1 .. k - 1, c)
      BY <1>8, <2>2 DEF Spots
    <3>2. PICK x \in 1 .. m : b[x] = p
      BY <1>2, <3>1 DEF SpelledBy
    <3>3. QED
      BY <1>3, <3>2
  <2>3. QED
    BY <2>1, <2>2
<1>9. ASSUME NEW x \in 1 .. Len(r) PROVE r[x] = c[d[x][1]][d[x][2]]
  <2>1. CASE x \in 1 .. m
    <3>1. r[x] = s[x]
      BY <1>1, <2>1
    <3>2. QED
      BY <1>2, <1>3, <2>1, <3>1 DEF SpelledBy
  <2>2. CASE x \notin 1 .. m
    <3>1. r[x] = t[x - m]
      BY <1>1, <2>2
    <3>2. QED
      BY <1>4, <2>2, <3>1
  <2>3. QED
    BY <2>1, <2>2
<1>10. SpelledBy(r, 1 .. k, c, d)
  BY <1>6, <1>7, <1>8, <1>9 DEF SpelledBy
<1>11. QED
  BY <1>1, <1>10 DEF Spells, r

LEMMA SpellFirst ==
  ASSUME NEW E, NEW n \in Nat \ {0}, NEW c \in [1 .. n -> Seq(E)]
  PROVE  Spells(c[1], 1 .. 1, c)
<1> DEFINE b == [x \in 1 .. Len(c[1]) |-> <<1, x>>]
<1>1. c[1] \in Seq(E) /\ Len(c[1]) \in Nat
  BY LenProperties
<1>2. b \in [1 .. Len(c[1]) -> Spots(1 .. 1, c)]
  BY <1>1 DEF Spots
<1>3. ASSUME NEW p \in Spots(1 .. 1, c) PROVE p[2] \in 1 .. Len(c[1]) /\ b[p[2]] = p
  BY DEF Spots
<1>4. SpelledBy(c[1], 1 .. 1, c, b)
  BY <1>2, <1>3 DEF SpelledBy
<1>5. QED
  BY <1>4 DEF Spells

(* FlattenSeq has the element of each place of its sequences once. *)
Flattens(g, k, c) == g = [i \in 1 .. k |-> IF i = 1 THEN c[i] ELSE g[i - 1] \o c[i]]

LEMMA FlattenSpells ==
  ASSUME NEW E, NEW n \in Nat \ {0}, NEW c \in [1 .. n -> Seq(E)]
  PROVE  FlattenSeq(c) \in Seq(E) /\ Spells(FlattenSeq(c), 1 .. n, c)
<1> DEFINE S == {k \in 0 .. n : \E g \in [1 .. k -> Seq(E)] : Flattens(g, k, c)}
<1>1. 0 \in S
  <2> DEFINE g == [i \in 1 .. 0 |-> c[i]]
  <2>1. g \in [1 .. 0 -> Seq(E)] /\ Flattens(g, 0, c)
    BY DEF Flattens
  <2> HIDE DEF g
  <2>2. 0 \in 0 .. n
    OBVIOUS
  <2>3. QED
    BY Zenon, <2>1, <2>2
<1>2. ASSUME NEW k \in 1 .. n, k - 1 \in S PROVE k \in S
  <2>1. PICK g \in [1 .. k - 1 -> Seq(E)] : Flattens(g, k - 1, c)
    BY <1>2
  <2> DEFINE v == IF k = 1 THEN c[k] ELSE g[k - 1] \o c[k]
             h == [i \in 1 .. k |-> IF i = k THEN v ELSE g[i]]
  <2>2. v \in Seq(E)
    <3>1. CASE k = 1
      BY <3>1
    <3>2. CASE k # 1
      <4>1. g[k - 1] \in Seq(E) /\ c[k] \in Seq(E)
        BY <3>2
      <4>2. QED
        BY <3>2, <4>1, ConcatProperties
    <3>3. QED
      BY <3>1, <3>2
  <2>3. h \in [1 .. k -> Seq(E)]
    BY <2>2
  <2>4. ASSUME NEW i \in 1 .. k PROVE h[i] = IF i = 1 THEN c[i] ELSE h[i - 1] \o c[i]
    <3>1. CASE i = k
      <4>1. k # 1 => k - 1 \in 1 .. k /\ h[k - 1] = g[k - 1]
        BY <1>2
      <4>2. QED
        BY <3>1, <4>1
    <3>2. CASE i # k
      <4>1. i \in 1 .. k - 1 /\ h[i] = g[i]
        BY <3>2
      <4>2. i # 1 => i - 1 \in 1 .. k /\ i - 1 # k /\ h[i - 1] = g[i - 1]
        BY <3>2
      <4>3. g[i] = IF i = 1 THEN c[i] ELSE g[i - 1] \o c[i]
        BY <2>1, <4>1 DEF Flattens
      <4>4. QED
        BY <4>1, <4>2, <4>3
    <3>3. QED
      BY <3>1, <3>2
  <2> HIDE DEF v
  <2>5. h = [i \in 1 .. k |-> h[i]]
    OBVIOUS
  <2> HIDE DEF h
  <2>6. Flattens(h, k, c)
    BY <2>4, <2>5 DEF Flattens
  <2>7. k \in 0 .. n
    OBVIOUS
  <2>8. QED
    BY Zenon, <2>3, <2>6, <2>7
<1> HIDE DEF S
<1>3. PICK g0 \in [1 .. n -> Seq(E)] : Flattens(g0, n, c)
  <2>1. 0 .. n \subseteq S
    BY <1>1, <1>2, UpTo
  <2>2. n \in S
    BY <2>1
  <2>3. QED
    BY <2>2 DEF S
<1> DEFINE g == CHOOSE f : Flattens(f, n, c)
<1>4. Flattens(g, n, c)
  BY <1>3
<1>5. FlattenSeq(c) = g[n]
  <2>1. Len(c) = n
    BY LenProperties
  <2>2. QED
    BY <2>1 DEF FlattenSeq, Flattens
<1> HIDE DEF g
<1> DEFINE P == {k \in 0 .. n : k # 0 => g[k] \in Seq(E) /\ Spells(g[k], 1 .. k, c)}
<1>6. 0 \in P
  OBVIOUS
<1>7. ASSUME NEW k \in 1 .. n, k - 1 \in P PROVE k \in P
  <2>1. CASE k = 1
    <3>1. g[1] = c[1]
      BY <1>4 DEF Flattens
    <3>2. Spells(c[1], 1 .. 1, c)
      BY SpellFirst
    <3>3. c[1] \in Seq(E)
      OBVIOUS
    <3>4. QED
      BY <2>1, <3>1, <3>2, <3>3
  <2>2. CASE k # 1
    <3>1. g[k] = g[k - 1] \o c[k]
      BY <1>4, <2>2 DEF Flattens
    <3>2. k \in 2 .. n /\ g[k - 1] \in Seq(E) /\ Spells(g[k - 1], 1 .. k - 1, c)
      BY <1>7, <2>2
    <3>3. PICK s \in Seq(E) : s = g[k - 1]
      BY <3>2
    <3>4. s \o c[k] \in Seq(E) /\ Spells(s \o c[k], 1 .. k, c)
      BY <3>2, <3>3, SpellConcat
    <3>5. g[k] \in Seq(E) /\ Spells(g[k], 1 .. k, c)
      BY Zenon, <3>1, <3>3, <3>4
    <3>6. k \in 0 .. n
      OBVIOUS
    <3>7. QED
      BY Zenon, <3>5, <3>6
  <2>3. QED
    BY <2>1, <2>2
<1> HIDE DEF P
<1>8. n \in P
  <2>1. 0 .. n \subseteq P
    BY <1>6, <1>7, UpTo
  <2>2. QED
    BY <2>1
<1>9. QED
  BY <1>5, <1>8 DEF P
=============================================================================

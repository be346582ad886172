-------------------------- MODULE ContainerProofs ---------------------------
(***************************************************************************)
(* Proofs about two containers of the UPF: the pools of lib/utlt, for      *)
(* every capacity and every number of threads, and the buckets of the      *)
(* match tables of up_match.c, for any PDRs, precedences and packets.      *)
(***************************************************************************)
EXTENDS PoolClients, MatchList, SequenceLemmas

-----------------------------------------------------------------------------
(* Remainders, as far as the ring needs them. *)

(* A number below the modulus is its own remainder. *)
LEMMA ModBelow == ASSUME NEW m \in Nat \ {0}, NEW n \in 0 .. m - 1
                  PROVE  n % m = n
  BY SMT

(* A number less than twice the modulus loses it once. *)
LEMMA ModOnce == ASSUME NEW m \in Nat \ {0}, NEW n \in m .. 2 * m - 1
                 PROVE  n % m = n - m
  BY SMT

(* The step of a cursor: one further, or from the last entry to the first. *)
LEMMA SuccCases == ASSUME NEW p \in Ring
                   PROVE  Succ(p) = IF p = Cap THEN 0 ELSE p + 1
  BY CapAssumption, ModBelow, ModOnce DEF Succ, Ring

(* The number of free slots is the distance between the cursors. *)
LEMMA SizeCases == ASSUME NEW f \in Ring, NEW e \in Ring
                   PROVE  (e + Cap + 1 - f) % (Cap + 1) =
                            IF f <= e THEN e - f ELSE e + Cap + 1 - f
<1>1. CASE f <= e
  <2>1. e + Cap + 1 - f \in (Cap + 1) .. 2 * (Cap + 1) - 1
    BY <1>1, CapAssumption DEF Ring
  <2>2. QED
    BY <1>1, <2>1, ModOnce, CapAssumption DEF Ring
<1>2. CASE ~(f <= e)
  <2>1. e + Cap + 1 - f \in 0 .. Cap
    BY <1>2, CapAssumption DEF Ring
  <2>2. QED
    BY <1>2, <2>1, ModBelow, CapAssumption DEF Ring
<1>3. QED
  BY <1>1, <1>2

(* The position of the k-th entry counted from the front. *)
LEMMA EntryCases == ASSUME NEW f \in Ring, NEW k \in 1 .. Cap + 1
                    PROVE  (f + k - 1) % (Cap + 1) =
                             IF f + k - 1 <= Cap THEN f + k - 1
                             ELSE f + k - 1 - (Cap + 1)
<1>1. CASE f + k - 1 <= Cap
  <2>1. f + k - 1 \in 0 .. Cap
    BY <1>1, CapAssumption DEF Ring
  <2>2. QED
    BY <1>1, <2>1, ModBelow, CapAssumption DEF Ring
<1>2. CASE ~(f + k - 1 <= Cap)
  <2>1. f + k - 1 \in (Cap + 1) .. 2 * (Cap + 1) - 1
    BY <1>2, CapAssumption DEF Ring
  <2>2. QED
    BY SMTT(60), <1>2, <2>1, ModOnce, CapAssumption DEF Ring
<1>3. QED
  BY <1>1, <1>2

-----------------------------------------------------------------------------
(* What the two operations do to the window between the cursors. *)

(* The window has at most Cap entries, all inside the ring. *)
LEMMA WindowType == ASSUME TypeOK
                    PROVE  /\ IndexSize \in 0 .. Cap
                           /\ \A k \in 1 .. Cap + 1 : Entry(k) \in Ring
  BY SizeCases, EntryCases, CapAssumption DEF TypeOK, IndexSize, Entry, Ring

(* A successful allocation takes the first entry and shifts the others. *)
LEMMA AllocWindow == ASSUME TypeOK, IndexAlloc, IndexSize > 0
                     PROVE  /\ qFront' \in Ring
                            /\ IndexSize' = IndexSize - 1
                            /\ Entry(1) = qFront
                            /\ \A k \in 1 .. IndexSize - 1 : Entry(k)' = Entry(k + 1)
<1> USE CapAssumption DEF Ring
<1>1. qFront \in Ring /\ qEnd \in Ring /\ qEnd' = qEnd
  BY DEF TypeOK, IndexAlloc
<1>2. qFront' = IF qFront = Cap THEN 0 ELSE qFront + 1
  BY <1>1, SuccCases DEF IndexAlloc
<1>3. qFront' \in Ring
  BY <1>1, <1>2
<1>4. IndexSize = IF qFront <= qEnd THEN qEnd - qFront ELSE qEnd + Cap + 1 - qFront
  BY <1>1, SizeCases DEF IndexSize
<1>5. IndexSize' = IF qFront' <= qEnd THEN qEnd - qFront' ELSE qEnd + Cap + 1 - qFront'
  BY <1>1, <1>3, SizeCases DEF IndexSize
<1>6. IndexSize' = IndexSize - 1
  BY <1>1, <1>2, <1>4, <1>5
<1>7. Entry(1) = qFront
  BY <1>1, EntryCases DEF Entry
<1>8. ASSUME NEW k \in 1 .. IndexSize - 1
      PROVE  Entry(k)' = Entry(k + 1)
  <2>1. k \in 1 .. Cap + 1 /\ k + 1 \in 1 .. Cap + 1
    BY <1>1, <1>4
  <2>2. Entry(k)' = (qFront' + k - 1) % (Cap + 1)
    BY DEF Entry
  <2>3. Entry(k + 1) = (qFront + (k + 1) - 1) % (Cap + 1)
    BY DEF Entry
  <2>4. QED
    BY <1>1, <1>2, <1>3, <2>1, <2>2, <2>3, EntryCases
<1>9. QED
  BY <1>3, <1>6, <1>7, <1>8

(* An accepted free writes the entry after the last and moves none. *)
LEMMA FreeWindow == ASSUME TypeOK, NEW s \in Slot, IndexFree(s), IndexSize < Cap
                    PROVE  /\ qEnd' \in Ring
                           /\ IndexSize' = IndexSize + 1
                           /\ Entry(IndexSize + 1) = qEnd
                           /\ \A k \in 1 .. IndexSize + 1 : Entry(k)' = Entry(k)
                           /\ \A k \in 1 .. IndexSize : Entry(k) # qEnd
<1> USE CapAssumption DEF Ring
<1>1. qFront \in Ring /\ qEnd \in Ring /\ qFront' = qFront
  BY DEF TypeOK, IndexFree
<1>2. qEnd' = IF qEnd = Cap THEN 0 ELSE qEnd + 1
  BY <1>1, SuccCases DEF IndexFree
<1>3. qEnd' \in Ring
  BY <1>1, <1>2
<1>4. IndexSize = IF qFront <= qEnd THEN qEnd - qFront ELSE qEnd + Cap + 1 - qFront
  BY <1>1, SizeCases DEF IndexSize
<1>5. IndexSize' = IF qFront <= qEnd' THEN qEnd' - qFront ELSE qEnd' + Cap + 1 - qFront
  BY <1>1, <1>3, SizeCases DEF IndexSize
<1>6. IndexSize' = IndexSize + 1
  BY <1>1, <1>2, <1>4, <1>5
<1>7. \A k \in 1 .. IndexSize + 1 :
         Entry(k) = IF qFront + k - 1 <= Cap THEN qFront + k - 1
                    ELSE qFront + k - 1 - (Cap + 1)
  BY <1>1, <1>4, EntryCases DEF Entry
<1>8. Entry(IndexSize + 1) = qEnd
  BY <1>1, <1>4, <1>7
<1>9. \A k \in 1 .. IndexSize : Entry(k) # qEnd
  BY <1>1, <1>4, <1>7
<1>10. \A k \in 1 .. IndexSize + 1 : Entry(k)' = Entry(k)
  BY <1>1 DEF Entry
<1>11. QED
  BY <1>3, <1>6, <1>8, <1>9, <1>10

-----------------------------------------------------------------------------
(* Type correctness and the refinement of FreeQueue, for arbitrary callers. *)

(* After IndexInit every object is free, in the order of its index. *)
LEMMA InitWindow == ASSUME IndexInit
                    PROVE  /\ qFront \in Ring /\ qEnd \in Ring
                           /\ IndexSize = Cap
                           /\ \A k \in 1 .. Cap : /\ Entry(k) = k - 1
                                                  /\ queueAvail[Entry(k)] = k - 1
<1> USE CapAssumption DEF Ring
<1>1. qFront = 0 /\ qEnd = Cap /\ qFront \in Ring /\ qEnd \in Ring
  BY DEF IndexInit
<1>2. IndexSize = Cap
  BY <1>1, SizeCases DEF IndexSize
<1>3. \A k \in 1 .. Cap : Entry(k) = k - 1
  BY <1>1, EntryCases DEF Entry
<1>4. \A k \in 1 .. Cap : queueAvail[k - 1] = k - 1
  BY DEF IndexInit
<1>5. QED
  BY <1>1, <1>2, <1>3, <1>4

(* IndexInit leaves the ring well formed. *)
LEMMA InitType == IndexInit => TypeOK
<1> SUFFICES ASSUME IndexInit
             PROVE  TypeOK
  OBVIOUS
<1>1. \A k \in 1 .. IndexSize : queueAvail[Entry(k)] \in Slot
  BY InitWindow, CapAssumption DEF Slot
<1>2. \A i \in Ring : i < Cap => i \in Slot
  BY CapAssumption DEF Slot, Ring
<1>3. 0 \in Slot
  BY CapAssumption DEF Slot
<1>4. queueAvail \in [Ring -> Slot \cup {NULL}]
  BY <1>2 DEF IndexInit
<1>5. arrayForIndex \in [Ring -> Slot]
  BY <1>2, <1>3 DEF IndexInit
<1>6. index \in [Slot -> Slot] /\ assigned \in Slot \cup {NULL}
  BY <1>3 DEF IndexInit
<1>7. QED
  BY <1>1, <1>4, <1>5, <1>6, InitWindow DEF TypeOK

(* An allocation keeps the ring well formed. *)
LEMMA AllocType == TypeOK /\ IndexAlloc => TypeOK'
<1> SUFFICES ASSUME TypeOK, IndexAlloc
             PROVE  TypeOK'
  OBVIOUS
<1>1. CASE IndexSize > 0
  <2>1. Entry(1) = qFront /\ queueAvail[qFront] \in Slot
    BY <1>1, AllocWindow, WindowType, CapAssumption DEF TypeOK
  <2>2. \A k \in 1 .. IndexSize' : queueAvail'[Entry(k)'] \in Slot
    BY <1>1, AllocWindow, WindowType, CapAssumption DEF TypeOK, IndexAlloc
  <2>3. QED
    BY <1>1, <2>1, <2>2, AllocWindow DEF TypeOK, IndexAlloc
<1>2. CASE ~(IndexSize > 0)
  BY <1>2, WindowType DEF TypeOK, IndexAlloc, IndexSize, Entry
<1>3. QED
  BY <1>1, <1>2

(* So does a free, of any slot. *)
LEMMA FreeType == ASSUME NEW s \in Slot, TypeOK, IndexFree(s)
                  PROVE  TypeOK'
<1>1. CASE IndexSize < Cap
  <2>1. \A k \in 1 .. IndexSize' : queueAvail'[Entry(k)'] \in Slot
    <3> SUFFICES ASSUME NEW k \in 1 .. IndexSize + 1
                 PROVE  queueAvail'[Entry(k)'] \in Slot
      BY <1>1, FreeWindow
    <3>1. Entry(k)' = Entry(k) /\ Entry(k) \in Ring
      BY <1>1, FreeWindow, WindowType, CapAssumption
    <3>2. queueAvail' = [queueAvail EXCEPT ![qEnd] = s]
      BY <1>1 DEF IndexFree
    <3>3. CASE k = IndexSize + 1
      BY <1>1, <3>1, <3>2, <3>3, FreeWindow DEF TypeOK
    <3>4. CASE k \in 1 .. IndexSize
      BY <1>1, <3>1, <3>2, <3>4, FreeWindow DEF TypeOK
    <3>5. QED
      BY <3>3, <3>4, WindowType, CapAssumption
  <2>2. QED
    BY <1>1, <2>1, FreeWindow DEF TypeOK, IndexFree
<1>2. CASE ~(IndexSize < Cap)
  BY <1>2, WindowType DEF TypeOK, IndexFree, IndexSize, Entry
<1>3. QED
  BY <1>1, <1>2

(* A sequence given by its elements is the tail of another. *)
LEMMA TailByElements == ASSUME NEW S, NEW q \in Seq(S), q # <<>>
                        PROVE  Tail(q) = [k \in 1 .. Len(q) - 1 |-> q[k + 1]]
<1> DEFINE t == [k \in 1 .. Len(q) - 1 |-> q[k + 1]]
<1>1. Len(q) \in Nat \ {0} /\ \A k \in 1 .. Len(q) - 1 : q[k + 1] \in S
  BY EmptySeq, ElementOfSeq
<1>2. t \in Seq(S) /\ Len(t) = Len(q) - 1
  BY <1>1
<1>3. QED
  BY <1>1, <1>2, HeadTailProperties, SeqEqual

(* A sequence given by its elements is another with one more element. *)
LEMMA AppendByElements ==
  ASSUME NEW S, NEW q \in Seq(S), NEW e \in S
  PROVE  Append(q, e) = [k \in 1 .. Len(q) + 1 |-> IF k = Len(q) + 1 THEN e ELSE q[k]]
<1> DEFINE t == [k \in 1 .. Len(q) + 1 |-> IF k = Len(q) + 1 THEN e ELSE q[k]]
<1>1. Len(q) \in Nat /\ \A k \in 1 .. Len(q) : q[k] \in S
  BY LenProperties, ElementOfSeq
<1>2. t \in Seq(S) /\ Len(t) = Len(q) + 1
  <2>1. \A k \in 1 .. Len(q) + 1 : t[k] \in S
    BY <1>1
  <2>2. QED
    BY <1>1, <2>1
<1>3. \A k \in 1 .. Len(q) + 1 : Append(q, e)[k] = t[k]
  <2> SUFFICES ASSUME NEW k \in 1 .. Len(q) + 1
               PROVE  Append(q, e)[k] = t[k]
    OBVIOUS
  <2>1. CASE k = Len(q) + 1
    BY <1>1, <2>1, AppendProperties
  <2>2. CASE k \in 1 .. Len(q)
    BY <1>1, <2>2, AppendProperties
  <2>3. QED
    BY <1>1, <2>1, <2>2
<1>4. Append(q, e) \in Seq(S) /\ Len(Append(q, e)) = Len(q) + 1
  BY AppendProperties
<1>5. Append(q, e) = t
  <2> HIDE DEF t
  <2> QED
    BY <1>1, <1>2, <1>3, <1>4, SeqEqual
<1>6. QED
  BY <1>5

(***************************************************************************)
(* Whatever callers free, the cursors of IndexAlloc and IndexFree stay in  *)
(* the ring and only written entries are ever handed out.                  *)
(***************************************************************************)
THEOREM PoolTypeCorrect == Spec => []TypeOK
<1>1. IndexInit => TypeOK
  BY InitType
<1>2. TypeOK /\ [Next]_vars => TypeOK'
  <2> SUFFICES ASSUME TypeOK, [Next]_vars
               PROVE  TypeOK'
    OBVIOUS
  <2>1. CASE UNCHANGED vars
    BY <2>1 DEF vars, TypeOK, IndexSize, Entry
  <2>2. QED
    BY <2>1, AllocType, FreeType DEF Next
<1>3. QED
  BY <1>1, <1>2, PTL DEF Spec

(***************************************************************************)
(* The ring buffer of utlt_pool.h and utlt_index.h implements the bounded  *)
(* queue of free slots, for every capacity and every sequence of calls.    *)
(***************************************************************************)
THEOREM PoolImplementsFreeQueue == Spec => ImplementsFreeQueue
<1>1. IndexInit => Queue!Init
  <2> SUFFICES ASSUME IndexInit
               PROVE  Queue!Init
    OBVIOUS
  <2>1. Avail = [k \in 1 .. Cap |-> k - 1]
    BY InitWindow DEF Avail
  <2>2. Avail \in Seq(Slot) /\ Len(Avail) = Cap
    BY <2>1, CapAssumption DEF Slot
  <2>3. QED
    BY <2>2 DEF Queue!Init, IndexInit
<1>2. TypeOK /\ [Next]_vars => [Queue!Next]_Queue!vars
  <2> SUFFICES ASSUME TypeOK, [Next]_vars
               PROVE  [Queue!Next]_Queue!vars
    OBVIOUS
  <2>0. /\ IndexSize \in 0 .. Cap
        /\ Avail \in Seq(Slot) /\ Len(Avail) = IndexSize
    BY WindowType, CapAssumption DEF TypeOK, Avail
  <2>1. CASE IndexAlloc /\ IndexSize > 0
    <3>1. Avail # <<>> /\ assigned' = Head(Avail)
      BY <2>0, <2>1, AllocWindow DEF Avail, IndexAlloc
    <3>2. Avail' = [k \in 1 .. IndexSize - 1 |-> Avail[k + 1]]
      BY <2>0, <2>1, AllocWindow DEF Avail, IndexAlloc
    <3>3. Avail' = Tail(Avail)
      BY <2>0, <3>1, <3>2, TailByElements
    <3>4. QED
      BY <3>1, <3>3 DEF Queue!Next, Queue!Alloc
  <2>2. CASE IndexAlloc /\ ~(IndexSize > 0)
    <3>1. Avail = <<>>
      BY <2>0, <2>2
    <3>2. Avail' = Avail /\ assigned' = NULL
      BY <2>2 DEF Avail, IndexAlloc, IndexSize, Entry
    <3>3. QED
      BY <3>1, <3>2 DEF Queue!Next, Queue!Alloc
  <2>3. ASSUME NEW s \in Slot, IndexFree(s)
        PROVE  Queue!Free(s)
    <3>1. CASE IndexSize < Cap
      <4>1. Avail' = [k \in 1 .. IndexSize + 1 |->
                        IF k = IndexSize + 1 THEN s ELSE Avail[k]]
        <5>1. ASSUME NEW k \in 1 .. IndexSize + 1
              PROVE  queueAvail'[Entry(k)'] = IF k = IndexSize + 1 THEN s ELSE Avail[k]
          <6>1. queueAvail' = [queueAvail EXCEPT ![qEnd] = s]
            BY <2>3, <3>1 DEF IndexFree
          <6>2. Entry(k)' = Entry(k) /\ Entry(k) \in Ring
            BY <2>0, <2>3, <3>1, FreeWindow, WindowType, CapAssumption
          <6>3. k # IndexSize + 1 => k \in 1 .. IndexSize
            BY <2>0, CapAssumption
          <6>4. QED
            BY <2>3, <3>1, <6>1, <6>2, <6>3, FreeWindow DEF TypeOK, Avail
        <5>2. QED
          BY <2>3, <3>1, <5>1, FreeWindow DEF Avail
      <4>2. Avail' = Append(Avail, s)
        BY <2>0, <4>1, AppendByElements
      <4>3. QED
        BY <2>0, <2>3, <3>1, <4>2 DEF Queue!Free, IndexFree
    <3>2. CASE ~(IndexSize < Cap)
      BY <2>0, <2>3, <3>2 DEF Queue!Free, IndexFree, Avail, IndexSize, Entry
    <3>3. QED
      BY <3>1, <3>2
  <2>4. CASE UNCHANGED vars
    BY <2>4 DEF vars, Queue!vars, Avail, IndexSize, Entry
  <2>5. QED
    BY <2>1, <2>2, <2>3, <2>4 DEF Next, Queue!Next
<1>3. QED
  BY <1>1, <1>2, PoolTypeCorrect, PTL DEF Spec, ImplementsFreeQueue, Queue!Spec

-----------------------------------------------------------------------------
(* Disciplined clients. *)

(* The objects held by all threads are objects of the pool, finitely many. *)
LEMMA HeldFinite == ASSUME ClientInv
                    PROVE  /\ Held \subseteq Slot
                           /\ IsFiniteSet(Held)
                           /\ Cardinality(Held) \in Nat
<1>1. Held \subseteq Slot
  BY DEF ClientInv, Held
<1>2. IsFiniteSet(Slot)
  BY FS_Interval, CapAssumption DEF Slot
<1>3. IsFiniteSet(Held)
  BY <1>1, <1>2, FS_Subset
<1>4. QED
  BY <1>1, <1>3, FS_CardinalityType

(* A successful allocation by a thread. *)
LEMMA AcquireStep == ASSUME ClientInv, NEW t \in Thread, Acquire(t), IndexSize > 0
                     PROVE  ClientInv'
<1> DEFINE s == queueAvail[qFront]
<1>1. TypeOK /\ IndexAlloc /\ held \in [Thread -> SUBSET Slot]
  BY DEF ClientInv, Acquire
<1>2. /\ IndexSize' = IndexSize - 1
      /\ Entry(1) = qFront
      /\ \A k \in 1 .. IndexSize - 1 : Entry(k)' = Entry(k + 1)
      /\ IndexSize \in 0 .. Cap
      /\ \A k \in 1 .. Cap + 1 : Entry(k) \in Ring
  BY <1>1, AllocWindow, WindowType
<1>3. /\ s \in Slot /\ s # NULL /\ assigned' = s
      /\ queueAvail' = queueAvail /\ arrayForIndex' = arrayForIndex
      /\ index' = [index EXCEPT ![s] = arrayForIndex[qFront]]
  <2>1. s \in Slot
    BY <1>1, <1>2, CapAssumption DEF TypeOK
  <2>2. s # NULL
    BY <2>1, NullAssumption DEF Slot
  <2>3. QED
    BY <1>1, <2>1, <2>2 DEF IndexAlloc
<1>4. held' = [held EXCEPT ![t] = @ \cup {s}]
  BY <1>3 DEF Acquire
<1>5. \A k \in 1 .. IndexSize : Avail[k] = queueAvail[Entry(k)]
  BY DEF Avail
<1>6. \A k \in 1 .. IndexSize' : Avail'[k] = queueAvail[Entry(k + 1)]
  BY <1>2, <1>3 DEF Avail
<1>7. s \notin Held /\ \A k \in 2 .. IndexSize : queueAvail[Entry(k)] # s
  BY <1>2, <1>5, CapAssumption DEF ClientInv, EachSlotInOnePlace
<1>8. Held' = Held \cup {s}
  BY <1>1, <1>4 DEF Held
<1>9. TypeOK'
  BY <1>1, AllocType
<1>10. held' \in [Thread -> SUBSET Slot]
  BY <1>1, <1>3, <1>4
<1>11. EachSlotInOnePlace'
  <2>1. \A u, v \in Thread : u # v => held'[u] \cap held'[v] = {}
    BY <1>1, <1>4, <1>7 DEF ClientInv, EachSlotInOnePlace, Held
  <2>2. \A j, k \in 1 .. IndexSize' : Avail'[j] = Avail'[k] => j = k
    <3> SUFFICES ASSUME NEW j \in 1 .. IndexSize', NEW k \in 1 .. IndexSize',
                        Avail'[j] = Avail'[k]
                 PROVE  j = k
      OBVIOUS
    <3>1. j + 1 \in 1 .. IndexSize /\ k + 1 \in 1 .. IndexSize
      BY <1>2, CapAssumption
    <3>2. Avail[j + 1] = Avail[k + 1]
      BY <1>5, <1>6, <3>1
    <3>3. j + 1 = k + 1
      BY <3>1, <3>2 DEF ClientInv, EachSlotInOnePlace
    <3>4. QED
      BY <1>2, <3>3, CapAssumption
  <2>3. \A k \in 1 .. IndexSize' : Avail'[k] \notin Held'
    <3> SUFFICES ASSUME NEW k \in 1 .. IndexSize'
                 PROVE  Avail'[k] \notin Held'
      OBVIOUS
    <3>1. k + 1 \in 2 .. IndexSize /\ k + 1 \in 1 .. IndexSize
      BY <1>2, CapAssumption
    <3>2. Avail'[k] = Avail[k + 1]
      BY <1>5, <1>6, <3>1
    <3>3. Avail[k + 1] \notin Held /\ Avail[k + 1] # s
      BY <1>5, <1>7, <3>1 DEF ClientInv, EachSlotInOnePlace
    <3>4. QED
      BY <1>8, <3>2, <3>3
  <2>4. Cardinality(Held') + IndexSize' = Cap
    <3>1. Cardinality(Held') = Cardinality(Held) + 1
      BY <1>7, <1>8, HeldFinite, FS_AddElement
    <3>2. QED
      BY <1>2, <3>1, HeldFinite, CapAssumption DEF ClientInv, EachSlotInOnePlace
  <2>5. QED
    BY <2>1, <2>2, <2>3, <2>4 DEF EachSlotInOnePlace
<1>12. IndexFindsHeld'
  <2>1. arrayForIndex[qFront] = s
    BY <1>2, CapAssumption DEF ClientInv
  <2>2. QED
    BY <1>1, <1>3, <1>8, <2>1, HeldFinite DEF ClientInv, IndexFindsHeld, TypeOK
<1>13. \A k \in 1 .. IndexSize' : arrayForIndex'[Entry(k)'] = queueAvail'[Entry(k)']
  <2> SUFFICES ASSUME NEW k \in 1 .. IndexSize'
               PROVE  arrayForIndex'[Entry(k)'] = queueAvail'[Entry(k)']
    OBVIOUS
  <2>1. k + 1 \in 1 .. IndexSize /\ k \in 1 .. IndexSize - 1
    BY <1>2, CapAssumption
  <2>2. QED
    BY <1>2, <1>3, <2>1 DEF ClientInv
<1>14. QED
  BY <1>9, <1>10, <1>11, <1>12, <1>13 DEF ClientInv

(* An allocation from an empty pool changes nothing but the result. *)
LEMMA AcquireFails == ASSUME ClientInv, NEW t \in Thread, Acquire(t), ~(IndexSize > 0)
                      PROVE  ClientInv'
<1>1. TypeOK'
  BY AllocType DEF ClientInv, Acquire
<1>2. UNCHANGED <<qFront, qEnd, queueAvail, arrayForIndex, index>> /\ assigned' = NULL
  BY DEF Acquire, IndexAlloc
<1>3. held' = held
  <2>1. held[t] \cup ({NULL} \ {NULL}) = held[t]
    OBVIOUS
  <2>2. QED
    BY <1>2, <2>1 DEF Acquire, ClientInv
<1>4. IndexSize' = IndexSize /\ Avail' = Avail /\ Held' = Held
  BY <1>2, <1>3 DEF IndexSize, Avail, Entry, Held
<1>5. EachSlotInOnePlace' /\ IndexFindsHeld' /\ held' \in [Thread -> SUBSET Slot]
  BY <1>2, <1>3, <1>4 DEF ClientInv, EachSlotInOnePlace, IndexFindsHeld
<1>6. \A k \in 1 .. IndexSize' : arrayForIndex'[Entry(k)'] = queueAvail'[Entry(k)']
  BY <1>2, <1>4 DEF ClientInv, Entry
<1>7. QED
  BY <1>1, <1>5, <1>6 DEF ClientInv

(* A thread gives back an object it holds: the ring always has room. *)
LEMMA ReleaseStep == ASSUME ClientInv, NEW t \in Thread, NEW s \in held[t], Release(t, s)
                     PROVE  ClientInv'
<1>1. /\ TypeOK /\ IndexFree(s) /\ held \in [Thread -> SUBSET Slot]
      /\ s \in Slot /\ s \in Held
  BY DEF ClientInv, Release, Held
<1>2. Cardinality(Held \ {s}) = Cardinality(Held) - 1 /\ Cardinality(Held \ {s}) \in Nat
  BY <1>1, HeldFinite, FS_RemoveElement, FS_CardinalityType
<1>3. IndexSize < Cap /\ IndexSize \in 0 .. Cap
  BY <1>1, <1>2, HeldFinite, WindowType, CapAssumption DEF ClientInv, EachSlotInOnePlace
<1>4. /\ IndexSize' = IndexSize + 1
      /\ Entry(IndexSize + 1) = qEnd
      /\ \A k \in 1 .. IndexSize + 1 : Entry(k)' = Entry(k)
      /\ \A k \in 1 .. IndexSize : Entry(k) # qEnd
      /\ \A k \in 1 .. Cap + 1 : Entry(k) \in Ring
      /\ qEnd \in Ring
  BY <1>1, <1>3, FreeWindow, WindowType DEF TypeOK
<1>5. /\ queueAvail' = [queueAvail EXCEPT ![qEnd] = s]
      /\ arrayForIndex' = [arrayForIndex EXCEPT ![qEnd] = index[s]]
      /\ index' = index /\ index[s] = s
      /\ held' = [held EXCEPT ![t] = @ \ {s}]
  BY <1>1, <1>3 DEF IndexFree, Release, ClientInv, IndexFindsHeld
<1>6. \A k \in 1 .. IndexSize : Avail[k] = queueAvail[Entry(k)]
  BY DEF Avail
<1>7. \A k \in 1 .. IndexSize + 1 :
         /\ k = IndexSize + 1 => queueAvail'[Entry(k)'] = s /\ arrayForIndex'[Entry(k)'] = s
         /\ k # IndexSize + 1 => /\ k \in 1 .. IndexSize
                                 /\ queueAvail'[Entry(k)'] = queueAvail[Entry(k)]
                                 /\ arrayForIndex'[Entry(k)'] = arrayForIndex[Entry(k)]
  <2> SUFFICES ASSUME NEW k \in 1 .. IndexSize + 1
               PROVE  /\ k = IndexSize + 1 => queueAvail'[Entry(k)'] = s /\ arrayForIndex'[Entry(k)'] = s
                      /\ k # IndexSize + 1 => /\ k \in 1 .. IndexSize
                                              /\ queueAvail'[Entry(k)'] = queueAvail[Entry(k)]
                                              /\ arrayForIndex'[Entry(k)'] = arrayForIndex[Entry(k)]
    OBVIOUS
  <2>1. Entry(k)' = Entry(k) /\ Entry(k) \in Ring
    BY <1>3, <1>4, CapAssumption
  <2>2. k # IndexSize + 1 => k \in 1 .. IndexSize
    BY <1>3, CapAssumption
  <2>3. QED
    BY <1>1, <1>4, <1>5, <2>1, <2>2 DEF TypeOK
<1>8. \A k \in 1 .. IndexSize + 1 :
         Avail'[k] = IF k = IndexSize + 1 THEN s ELSE Avail[k]
  BY <1>4, <1>6, <1>7 DEF Avail
<1>9. Held' = Held \ {s}
  BY <1>1, <1>5 DEF Held, ClientInv, EachSlotInOnePlace
<1>10. TypeOK' /\ held' \in [Thread -> SUBSET Slot]
  BY <1>1, <1>5, FreeType
<1>11. EachSlotInOnePlace'
  <2>1. \A u, v \in Thread : u # v => held'[u] \cap held'[v] = {}
    BY <1>1, <1>5 DEF ClientInv, EachSlotInOnePlace
  <2>2. \A k \in 1 .. IndexSize : Avail[k] # s
    BY <1>1 DEF ClientInv, EachSlotInOnePlace
  <2>3. \A j, k \in 1 .. IndexSize' : Avail'[j] = Avail'[k] => j = k
    <3> SUFFICES ASSUME NEW j \in 1 .. IndexSize + 1, NEW k \in 1 .. IndexSize + 1,
                        Avail'[j] = Avail'[k]
                 PROVE  j = k
      BY <1>4
    <3>1. QED
      BY <1>7, <1>8, <2>2 DEF ClientInv, EachSlotInOnePlace
  <2>4. \A k \in 1 .. IndexSize' : Avail'[k] \notin Held'
    BY <1>4, <1>7, <1>8, <1>9 DEF ClientInv, EachSlotInOnePlace
  <2>5. Cardinality(Held') + IndexSize' = Cap
    BY <1>2, <1>3, <1>4, <1>9, HeldFinite, CapAssumption DEF ClientInv, EachSlotInOnePlace
  <2>6. QED
    BY <2>1, <2>3, <2>4, <2>5 DEF EachSlotInOnePlace
<1>12. IndexFindsHeld'
  BY <1>5, <1>9 DEF ClientInv, IndexFindsHeld
<1>13. \A k \in 1 .. IndexSize' : arrayForIndex'[Entry(k)'] = queueAvail'[Entry(k)']
  BY <1>4, <1>7 DEF ClientInv
<1>14. QED
  BY <1>10, <1>11, <1>12, <1>13 DEF ClientInv

(* Every step of disciplined threads keeps the inductive invariant. *)
LEMMA ClientStep == ClientInv /\ [ClientNext]_clientVars => ClientInv'
<1> SUFFICES ASSUME ClientInv, [ClientNext]_clientVars
             PROVE  ClientInv'
  OBVIOUS
<1>1. CASE UNCHANGED clientVars
  BY <1>1 DEF clientVars, vars, ClientInv, TypeOK, EachSlotInOnePlace, IndexFindsHeld,
              Held, Avail, IndexSize, Entry
<1>2. QED
  BY <1>1, AcquireStep, AcquireFails, ReleaseStep DEF ClientNext

(* It holds after IndexInit, when nobody holds anything. *)
LEMMA ClientStart == ClientInit => ClientInv
<1> SUFFICES ASSUME ClientInit
             PROVE  ClientInv
  OBVIOUS
<1>1. Held = {}
  BY DEF ClientInit, Held
<1>2. Cardinality(Held) = 0
  BY <1>1, FS_EmptySet
<1>3. TypeOK
  BY InitType DEF ClientInit
<1>4. \A k \in 1 .. IndexSize : Avail[k] = k - 1
  BY InitWindow DEF ClientInit, Avail
<1>5. EachSlotInOnePlace
  BY <1>1, <1>2, <1>4, InitWindow, CapAssumption DEF ClientInit, EachSlotInOnePlace
<1>6. \A k \in 1 .. IndexSize : arrayForIndex[Entry(k)] = queueAvail[Entry(k)]
  <2>1. \A k \in 1 .. Cap : arrayForIndex[k - 1] = k - 1
    BY CapAssumption DEF ClientInit, IndexInit, Ring
  <2>2. QED
    BY <2>1, InitWindow DEF ClientInit
<1>7. QED
  BY <1>1, <1>3, <1>5, <1>6 DEF ClientInit, ClientInv, IndexFindsHeld

(***************************************************************************)
(* Threads that free only what they hold never share an object, never lose *)
(* one, and are never refused by IndexFree.                                *)
(***************************************************************************)
THEOREM PoolNeverShares == ClientSpec => []EachSlotInOnePlace
  BY ClientStart, ClientStep, PTL DEF ClientSpec, ClientInv

(***************************************************************************)
(* IndexFind(p->index) is p for every object in use.                       *)
(***************************************************************************)
THEOREM PoolFindsHeld == ClientSpec => []IndexFindsHeld
  BY ClientStart, ClientStep, PTL DEF ClientSpec, ClientInv

-----------------------------------------------------------------------------
(***************************************************************************)
(* A bucket of match rules, as long as the list head compares greater:     *)
(* which is what the loop of GetLastSmallPrecedenceFromList reads behind   *)
(* the last node.                                                          *)
(***************************************************************************)
(* Where a rule is inserted: behind the first node whose successor has a    *)
(* greater precedence, or at the end; in front of an empty list only.       *)
LEMMA InsertPosition ==
  ASSUME list \in Seq(MatchRuleNode), NEW precedence
  PROVE  LET pos == GetLastSmallPrecedenceFromList(precedence, TRUE)
         IN  /\ pos \in 0 .. Len(list)
             /\ pos = 0 => Len(list) = 0
             /\ pos \in 1 .. Len(list) - 1 => list[pos + 1].precedence > precedence
             /\ \A i \in 1 .. Len(list) : 1 < i /\ i <= pos => ~(list[i].precedence > precedence)
<1> DEFINE Stops(i) == IF i < Len(list) THEN list[i + 1].precedence > precedence ELSE TRUE
           Stop == {i \in 1 .. Len(list) : Stops(i)}
           pos == GetLastSmallPrecedenceFromList(precedence, TRUE)
           Goal(q) == /\ q \in 0 .. Len(list)
                      /\ q = 0 => Len(list) = 0
                      /\ q \in 1 .. Len(list) - 1 => list[q + 1].precedence > precedence
                      /\ \A i \in 1 .. Len(list) : 1 < i /\ i <= q => ~(list[i].precedence > precedence)
<1> SUFFICES Goal(pos)
  OBVIOUS
<1>1. Len(list) \in Nat
  BY LenProperties
<1>2. pos = IF Stop = {} THEN 0 ELSE CHOOSE i \in Stop : \A j \in Stop : i <= j
  BY DEF GetLastSmallPrecedenceFromList
<1> HIDE DEF pos
<1>3. CASE Len(list) = 0
  <2>1. Stop = {}
    BY <1>1, <1>3
  <2>2. pos = 0
    BY <1>2, <2>1
  <2>3. QED
    BY <1>3, <2>2
<1>4. CASE Len(list) # 0
  <2>1. Len(list) \in Stop
    BY <1>1, <1>4
  <2>2. Stop \in SUBSET Nat /\ Stop # {}
    BY <2>1
  <2>3. pos \in Stop /\ \A j \in Stop : pos <= j
    <3> HIDE DEF Stop
    <3>1. QED
      BY <1>2, <2>2, FirstIndex
  <2>4. pos \in 1 .. Len(list) /\ (pos < Len(list) => list[pos + 1].precedence > precedence)
    BY <1>1, <2>3
  <2>5. ASSUME NEW i \in 1 .. Len(list), 1 < i, i <= pos
        PROVE  ~(list[i].precedence > precedence)
    <3>1. i - 1 \in 1 .. Len(list) /\ i - 1 < Len(list) /\ ~(pos <= i - 1) /\ (i - 1) + 1 = i
      BY <1>1, <2>4, <2>5
    <3>2. i - 1 \notin Stop
      BY <2>3, <3>1
    <3>3. QED
      BY <3>1, <3>2
  <2>6. QED
    BY <1>1, <2>4, <2>5
<1>5. QED
  BY <1>3, <1>4

(* MatchRuleRegister keeps the order behind the front. *)
LEMMA RegisterInOrder ==
  ASSUME TailInOrder, NEW node \in MatchRuleNode, MatchRuleRegister(node, TRUE)
  PROVE  TailInOrder'
<1> DEFINE q == GetLastSmallPrecedenceFromList(node.precedence, TRUE)
           p == q + 1
           From(k) == IF k < p THEN k ELSE k - 1
<1>1. /\ list \in Seq(MatchRuleNode) /\ Len(list) \in Nat
      /\ \A i \in 1 .. Len(list) : list[i] \in MatchRuleNode
  BY LenProperties, ElementOfSeq DEF TailInOrder, BucketTypeOK
<1>2. /\ \A i, j \in 1 .. Len(list) : list[i].pdr = list[j].pdr => i = j
      /\ \A i, j \in 2 .. Len(list) : i < j => list[i].precedence <= list[j].precedence
  BY DEF TailInOrder, BucketTypeOK
<1>3. \A n \in MatchRuleNode : n.precedence \in Nat
  BY MatchListAssumption DEF MatchRuleNode
<1>4. /\ p \in 1 .. Len(list) + 1
      /\ p = 1 => Len(list) = 0
      /\ p \in 2 .. Len(list) => list[p].precedence > node.precedence
      /\ \A i \in 1 .. Len(list) : 1 < i /\ i < p => ~(list[i].precedence > node.precedence)
  <2>1. /\ q \in 0 .. Len(list)
        /\ q = 0 => Len(list) = 0
        /\ q \in 1 .. Len(list) - 1 => list[q + 1].precedence > node.precedence
        /\ \A i \in 1 .. Len(list) : 1 < i /\ i <= q => ~(list[i].precedence > node.precedence)
    BY <1>1, InsertPosition
  <2> HIDE DEF q
  <2>2. QED
    BY <1>1, <2>1
<1>5. list' = InsertAt(list, p, node) /\ node.pdr \notin Registered
  BY DEF MatchRuleRegister
<1> HIDE DEF p
<1>6. /\ list' \in Seq(MatchRuleNode) /\ Len(list') = Len(list) + 1
      /\ \A k \in 1 .. Len(list) + 1 :
           list'[k] = IF k < p THEN list[k] ELSE IF k = p THEN node ELSE list[k - 1]
  BY SMTT(60), <1>1, <1>4, <1>5, InsertAtElements
<1>7. /\ list'[p] = node
      /\ \A k \in 1 .. Len(list') : k # p => From(k) \in 1 .. Len(list) /\ list'[k] = list[From(k)]
  BY <1>1, <1>4, <1>6
<1>8. ASSUME NEW i \in 1 .. Len(list'), NEW j \in 1 .. Len(list'), list'[i].pdr = list'[j].pdr
      PROVE  i = j
  <2>1. \A k \in 1 .. Len(list) : list[k].pdr # node.pdr
    BY <1>5 DEF Registered
  <2>2. i = p \/ j = p => i = j
    <3>1. CASE i = p
      BY <1>7, <1>8, <2>1, <3>1
    <3>2. CASE j = p
      BY <1>7, <1>8, <2>1, <3>2
    <3>3. QED
      BY <3>1, <3>2
  <2>3. i # p /\ j # p => From(i) = From(j)
    BY ZenonT(60), <1>2, <1>7, <1>8
  <2>4. QED
    BY <1>1, <1>4, <1>6, <2>2, <2>3
<1>9. ASSUME NEW i \in 2 .. Len(list'), NEW j \in 2 .. Len(list'), i < j
      PROVE  list'[i].precedence <= list'[j].precedence
  <2>1. 2 <= p /\ p <= Len(list) + 1 /\ p \in Int /\ i \in 1 .. Len(list') /\ j \in 1 .. Len(list')
    BY <1>1, <1>4, <1>6, <1>9
  <2>2. CASE i # p /\ j # p
    <3>1. From(i) \in 2 .. Len(list) /\ From(j) \in 2 .. Len(list) /\ From(i) < From(j)
      <4>1. /\ i \in Int /\ j \in Int /\ 2 <= i /\ i < j /\ j <= Len(list) + 1
            /\ Len(list) \in Int
        BY <1>1, <1>6, <1>9
      <4>2. QED
        BY <2>1, <2>2, <4>1
    <3>2. QED
      BY <1>2, <1>7, <2>1, <2>2, <3>1
  <2>3. CASE i = p
    <3>1. p \in 2 .. Len(list) /\ From(j) \in 2 .. Len(list) /\ p <= From(j) /\ j # p
      BY <1>1, <1>6, <1>9, <2>1, <2>3
    <3>2. /\ list[p].precedence \in Nat /\ list[From(j)].precedence \in Nat
          /\ node.precedence \in Nat
      BY <1>1, <1>3, <3>1
    <3>3. list[p].precedence <= list[From(j)].precedence
      BY <1>2, <3>1, <3>2
    <3>4. list[p].precedence > node.precedence
      BY <1>4, <3>1
    <3>5. list'[i] = node /\ list'[j] = list[From(j)]
      BY <1>7, <2>1, <2>3, <3>1
    <3>6. QED
      BY <3>2, <3>3, <3>4, <3>5
  <2>4. CASE j = p
    <3>1. i \in 1 .. Len(list) /\ 1 < i /\ i < p /\ From(i) = i
      BY <1>1, <1>6, <1>9, <2>1, <2>4
    <3>2. list[i].precedence \in Nat /\ node.precedence \in Nat
      BY <1>1, <1>3, <3>1
    <3>3. ~(list[i].precedence > node.precedence)
      BY <1>4, <3>1
    <3>4. list'[j] = node /\ list'[i] = list[i]
      BY <1>7, <2>1, <2>4, <3>1
    <3>5. QED
      BY <3>2, <3>3, <3>4
  <2>5. QED
    BY <2>2, <2>3, <2>4
<1>10. QED
  BY <1>6, <1>8, <1>9 DEF TailInOrder, BucketTypeOK

(* MatchRuleDeregister moves the rules behind the removed one forward; the  *)
(* rule that becomes the first is no longer bound to the order.             *)
LEMMA DeregisterInOrder ==
  ASSUME TailInOrder, NEW r \in Rules, MatchRuleDeregister(r)
  PROVE  TailInOrder'
<1> DEFINE I == {k \in 1 .. Len(list) : list[k].pdr = r}
           p == Min(I)
           From(k) == IF k < p THEN k ELSE k + 1
<1>1. /\ list \in Seq(MatchRuleNode) /\ Len(list) \in Nat
  BY LenProperties DEF TailInOrder, BucketTypeOK
<1>2. /\ \A i, j \in 1 .. Len(list) : list[i].pdr = list[j].pdr => i = j
      /\ \A i, j \in 2 .. Len(list) : i < j => list[i].precedence <= list[j].precedence
  BY DEF TailInOrder, BucketTypeOK
<1>3. \E k \in 1 .. Len(list) : list[k].pdr = r
  BY DEF MatchRuleDeregister, Registered
<1>4. I # {} /\ I \in SUBSET Nat
  BY <1>3
<1>5. p \in 1 .. Len(list)
  <2>1. p \in I
    BY <1>4, MinOfNats
  <2>2. QED
    BY <2>1
<1>6. list' = RemoveAt(list, p)
  BY <1>3, <1>4 DEF MatchRuleDeregister, RemoveFirstMatch, SelectInSeq
<1> HIDE DEF p
<1>7. /\ list' \in Seq(MatchRuleNode) /\ Len(list') = Len(list) - 1
      /\ \A k \in 1 .. Len(list) - 1 : list'[k] = IF k < p THEN list[k] ELSE list[k + 1]
  BY <1>1, <1>5, <1>6, RemoveAtElements
<1>8. \A k \in 1 .. Len(list') : From(k) \in 1 .. Len(list) /\ list'[k] = list[From(k)]
  BY <1>1, <1>5, <1>7
<1>9. ASSUME NEW i \in 1 .. Len(list'), NEW j \in 1 .. Len(list'), list'[i].pdr = list'[j].pdr
      PROVE  i = j
  <2>1. From(i) = From(j)
    BY SMTT(60), <1>2, <1>8, <1>9
  <2>2. QED
    BY <1>1, <1>5, <1>7, <2>1
<1>10. ASSUME NEW i \in 2 .. Len(list'), NEW j \in 2 .. Len(list'), i < j
       PROVE  list'[i].precedence <= list'[j].precedence
  <2>1. /\ i \in 1 .. Len(list') /\ j \in 1 .. Len(list')
        /\ From(i) \in 2 .. Len(list) /\ From(j) \in 2 .. Len(list) /\ From(i) < From(j)
    BY <1>1, <1>5, <1>7, <1>10
  <2>2. QED
    BY <1>2, <1>8, <2>1
<1>11. QED
  BY <1>7, <1>9, <1>10 DEF TailInOrder, BucketTypeOK

-----------------------------------------------------------------------------
(***************************************************************************)
(* When the list head compares greater, every rule of a bucket but the     *)
(* first is in order of precedence, whatever rules were registered and     *)
(* deregistered before, and no PDR is in it twice.                         *)
(***************************************************************************)
THEOREM TailAlwaysInOrder ==
  ASSUME HeadGreater \subseteq {TRUE}
  PROVE  BucketSpec => []TailInOrder
<1>1. BucketInit => TailInOrder
  BY DEF BucketInit, TailInOrder, BucketTypeOK
<1>2. TailInOrder /\ [BucketNext]_bucketVars => TailInOrder'
  <2> SUFFICES ASSUME TailInOrder, [BucketNext]_bucketVars PROVE TailInOrder'
    OBVIOUS
  <2>1. ASSUME NEW node \in MatchRuleNode, NEW greater \in HeadGreater,
               MatchRuleRegister(node, greater)
        PROVE  TailInOrder'
    <3>1. greater = TRUE
      OBVIOUS
    <3>2. QED
      BY <2>1, <3>1, RegisterInOrder
  <2>2. ASSUME NEW r \in Rules, MatchRuleDeregister(r) PROVE TailInOrder'
    BY <2>2, DeregisterInOrder
  <2>3. CASE UNCHANGED bucketVars
    BY <2>3 DEF bucketVars, TailInOrder, BucketTypeOK
  <2>4. QED
    BY <2>1, <2>2, <2>3 DEF BucketNext
<1>3. QED
  BY <1>1, <1>2, PTL DEF BucketSpec

(***************************************************************************)
(* A packet that FindPDRByTEID or FindPDRByUEIP does not match at the      *)
(* front of the bucket gets, of the rules that admit it, one with the      *)
(* smallest precedence value.                                              *)
(***************************************************************************)
THEOREM BestAlwaysBehindFront ==
  ASSUME HeadGreater \subseteq {TRUE}
  PROVE  BucketSpec => []BestBehindFront
<1>1. TailInOrder => BestBehindFront
  <2> SUFFICES ASSUME TailInOrder, NEW packet \in Packets, FindPDR(packet) > 1,
                      NEW i \in 1 .. Len(list), PacketNonGTPUMatch(packet, list[i])
               PROVE  list[FindPDR(packet)].precedence <= list[i].precedence
    BY DEF BestBehindFront
  <2> DEFINE I == {k \in 1 .. Len(list) : PacketNonGTPUMatch(packet, list[k])}
             found == FindPDR(packet)
  <2>1. i \in I /\ I # {} /\ I \in SUBSET Nat
    OBVIOUS
  <2>2. found = Min(I)
    BY <2>1 DEF FindPDR, SelectInSeq
  <2>3. found \in 1 .. Len(list) /\ found <= i
    <3>1. Min(I) \in I /\ Min(I) <= i
      BY <2>1, MinOfNats
    <3>2. QED
      BY <2>2, <3>1
  <2> HIDE DEF I
  <2>4. /\ Len(list) \in Nat /\ list[i] \in MatchRuleNode
        /\ \A j, k \in 2 .. Len(list) : j < k => list[j].precedence <= list[k].precedence
    BY LenProperties, ElementOfSeq DEF TailInOrder, BucketTypeOK
  <2>5. list[i].precedence \in Nat
    BY <2>4, MatchListAssumption DEF MatchRuleNode
  <2>6. found > 1
    OBVIOUS
  <2> HIDE DEF found
  <2>7. found \in 2 .. Len(list) /\ i \in 2 .. Len(list)
    BY <2>3, <2>4, <2>6
  <2>8. CASE found = i
    BY <2>5, <2>8 DEF found
  <2>9. CASE found < i
    BY <2>4, <2>7, <2>9 DEF found
  <2>10. QED
    BY <2>3, <2>4, <2>8, <2>9
<1>2. QED
  BY <1>1, TailAlwaysInOrder, PTL
=============================================================================

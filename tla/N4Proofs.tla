------------------------------ MODULE N4Proofs ------------------------------
(***************************************************************************)
(* Proofs about the N4 side of the UPF: transactions, their slots, lists   *)
(* and timers, and the event queue, for any number of slots and timers,    *)
(* any ids and message types of the peer, and any queue.                   *)
(***************************************************************************)
EXTENDS N4, TimerListProofs, FiniteSetTheorems

-----------------------------------------------------------------------------
(* The inductive invariant.  Its first part is about the globals of the    *)
(* PFCP library between two calls: x stands for the transactions of a      *)
(* library p, t for its timers, h for its list pointers.                   *)

Param == [type : Timer, index : Slot]
Types == Requests \cup Responses
Xact == [origin : {"local", "remote"}, transactionId : Ids, gnode : BOOLEAN, step : 0 .. 3,
         type : [0 .. 2 -> Types \cup {NULL}], buf : [0 .. 2 -> BOOLEAN],
         timerResponse : Blk \cup {NULL}, responseReCount : 0 .. 255,
         timerHolding : Blk \cup {NULL}, holdingReCount : 0 .. 255]
Lib == [xact : [Slot -> Xact], avail : Seq(Slot), links : L!Heap, tl : TimerLists(Param),
        globalXactId : 1 .. PFCP_MAX_XACT_ID, fault : {NULL}]

UseOf(x) == {s \in Slot : x[s].step > 0}
RemoteOf(x) == {s \in UseOf(x) : x[s].origin = "remote"}
LocalOf(x) == {s \in UseOf(x) : x[s].origin = "local"}

(* Every slot is in use or free. *)
SlotsOf(x, avail) == IsInjective(avail) /\ ToSet(avail) = Slot \ UseOf(x)

(* What the members of a transaction say while it is in use. *)
ShapedOf(x) ==
  /\ \A s \in RemoteOf(x) : x[s].gnode /\ x[s].step < 3
  /\ \A s \in LocalOf(x) :
       /\ x[s].gnode /\ x[s].transactionId \in 1 .. PFCP_MAX_XACT_ID - 1
       /\ x[s].timerResponse = NULL /\ x[s].timerHolding = NULL

(* Each remote transaction has two of the timers, which know it by their   *)
(* parameter, and there are no others.                                     *)
TimersOf(x, t) ==
  /\ Accounted(t, Param)
  /\ Cardinality(Placed(t)) = 2 * Cardinality(RemoteOf(x))
  /\ \A b \in Placed(t) :
       /\ t.blk[b].type = "ONCE"
       /\ \E s \in RemoteOf(x) : b \in {x[s].timerResponse, x[s].timerHolding}
  /\ \A s \in RemoteOf(x) :
       /\ x[s].timerResponse \in Placed(t) /\ x[s].timerHolding \in Placed(t)
       /\ t.blk[x[s].timerResponse].param = T3("T3_RESPONSE", s)
       /\ t.blk[x[s].timerHolding].param = T3("T3_HOLDING", s)
       /\ ~t.blk[x[s].timerResponse].isRunning

(* The local transactions are linked in some order.  Each remote one is    *)
(* linked as if it were alone, and the head knows one of them at most.     *)
LocalLinked(h, local) ==
  \E q \in Seq(Slot) : IsInjective(q) /\ ToSet(q) = local /\ LinkedAs(h, localList, q)

RemoteLinked(h, remote) ==
  /\ h.next[remoteList] = h.prev[remoteList]
  /\ h.next[remoteList] \in {remoteList} \cup remote
  /\ \A s \in remote : h.next[s] = remoteList /\ h.prev[s] = remoteList

ListsOf(x, h) == LocalLinked(h, LocalOf(x)) /\ RemoteLinked(h, RemoteOf(x))

LibInv(p) ==
  /\ p \in Lib
  /\ SlotsOf(p.xact, p.avail) /\ ShapedOf(p.xact)
  /\ TimersOf(p.xact, p.tl) /\ ListsOf(p.xact, p.links)

(* The second part is about the events in the queue q at a time c.         *)

MessageEvent == [type : {"N4_MESSAGE"}, msg : Types \cap PeerTypes, id : Ids]
TimeoutEvent == [type : {"T3_HOLDING"}, index : Slot]
Event == MessageEvent \cup {SessionReport} \cup TimeoutEvent

IsMessage(e) == e.type = "N4_MESSAGE"
IsTimeout(e) == e.type = "T3_HOLDING"

(* The id the k-th report from now will get. *)
Ahead(id, k) == ((id - 1 + k) % (PFCP_MAX_XACT_ID - 1)) + 1

(* Reports have ids of their own, and those asked for will have.           *)
LocalIds(x, id, q) ==
  /\ \A s, t \in LocalOf(x) : x[s].transactionId = x[t].transactionId => s = t
  /\ \A i \in 1 .. Len(q) :
       q[i] = SessionReport =>
         \A s \in LocalOf(x), k \in 0 .. i - 1 : x[s].transactionId # Ahead(id, k)

(* A request in the queue is a new one, a response the one to a report.    *)
SameStage(e, f) == e.msg \in Requests <=> f.msg \in Requests
Fresh(x, e) == \A s \in RemoteOf(x) : x[s].transactionId # e.id
Awaited(x, e) == \E s \in LocalOf(x) : x[s].transactionId = e.id /\ x[s].step = 1
Messages(x, q) ==
  /\ \A i \in 1 .. Len(q) :
       IsMessage(q[i]) => IF q[i].msg \in Requests THEN Fresh(x, q[i]) ELSE Awaited(x, q[i])
  /\ \A i, j \in 1 .. Len(q) :
       /\ IsMessage(q[i]) /\ IsMessage(q[j])
       /\ q[i].id = q[j].id /\ SameStage(q[i], q[j])
       => i = j

(* A timeout in the queue is the only one of its transaction, whose timer  *)
(* has stopped; as long as the clock does not wrap, its time is over.      *)
Stopped(x, t, s, c) ==
  /\ s \in RemoteOf(x)
  /\ ~t.blk[x[s].timerHolding].isRunning
  /\ MaxTime < TimeMod => t.blk[x[s].timerHolding].expireTime < c % TimeMod
Timeouts(x, t, q, c) ==
  /\ \A i \in 1 .. Len(q) : IsTimeout(q[i]) => Stopped(x, t, q[i].index, c)
  /\ \A i, j \in 1 .. Len(q) :
       IsTimeout(q[i]) /\ IsTimeout(q[j]) /\ q[i].index = q[j].index => i = j

EventInv(p, q, c) ==
  /\ q \in Seq(Event) /\ Len(q) <= QCap
  /\ c \in 0 .. MaxTime
  /\ LocalIds(p.xact, p.globalXactId, q) /\ Messages(p.xact, q) /\ Timeouts(p.xact, p.tl, q, c)

Inv == LibInv(pf) /\ EventInv(pf, eventQ, clock)
-----------------------------------------------------------------------------
(* Lists of linked nodes. *)

Nodes == Slot \cup Heads

(* A walk along a list comes to its nodes in their order and stays at the  *)
(* head.                                                                   *)
LEMMA VisitLinked ==
  ASSUME NEW h, NEW head \in Heads, NEW q \in Seq(Slot), LinkedAs(h, head, q)
  PROVE  \A k \in Nat : L!Visit(h, head)[k] = NodeAt(q, head, k + 1)
<1>1. head \notin Slot /\ NULL \notin Slot
  BY HeadsAssumption
<1>2. L!Visit(h, head) = Walk(h, head, NULL)
  BY DEF L!Visit, Walk
<1>3. QED
  BY <1>1, <1>2, WalkLinked

(* The pointer operations are those of SequenceLemmas. *)
LEMMA HeapIs ==
  /\ L!Heap = Heaps(Nodes, NULL)
  /\ \A h, s, head : L!ListInsert(h, s, head) = LinkBetween(h, s, head, h.next[head])
  /\ \A h, s : L!ListRemove(h, s) = Unlink(h, s)
<1>1. L!Heap = Heaps(Nodes, NULL)
  BY DEF L!Heap, L!Pointer, Nodes, Heaps
<1>2. \A h, s, head : L!ListInsert(h, s, head) = LinkBetween(h, s, head, h.next[head])
  BY DEF L!ListInsert, L!InsertBetween, LinkBetween
<1>3. \A h, s : L!ListRemove(h, s) = Unlink(h, s)
  BY DEF L!ListRemove, L!ListHeadInit, Unlink
<1>4. QED
  BY <1>1, <1>2, <1>3

(* ListInsert at the head. *)
LEMMA InsertLinked ==
  ASSUME NEW h \in L!Heap, NEW head \in Heads, NEW q \in Seq(Slot), IsInjective(q),
         LinkedAs(h, head, q), NEW s \in Slot, s \notin ToSet(q)
  PROVE  LET r == L!ListInsert(h, s, head)
         IN  /\ r \in L!Heap /\ LinkedAs(r, head, InsertAt(q, 1, s))
             /\ \A n \in Nodes \ (ToSet(q) \cup {head, s}) :
                  r.next[n] = h.next[n] /\ r.prev[n] = h.prev[n]
<1>1. /\ Len(q) \in Nat /\ Slot \subseteq Nodes /\ h \in Heaps(Nodes, NULL)
      /\ head \in Nodes /\ head \notin Slot
  BY LenProperties, HeadsAssumption, HeapIs DEF Nodes
<1>2. PICK p \in 0 .. Len(q) : p = 0 /\ p + 1 = 1
  BY <1>1
<1>3. NodeAt(q, head, p) = head /\ NodeAt(q, head, p + 1) = h.next[head]
  <2>1. NodeAt(q, head, p) = head
    BY <1>1, <1>2, NodeAtIs
  <2>2. QED
    BY <1>2, <2>1 DEF LinkedAs
<1> DEFINE r == LinkBetween(h, s, NodeAt(q, head, p), NodeAt(q, head, p + 1))
<1>4. /\ r \in Heaps(Nodes, NULL) /\ LinkedAs(r, head, InsertAt(q, p + 1, s))
      /\ \A n \in Nodes \ (ToSet(q) \cup {head, s}) :
           r.next[n] = h.next[n] /\ r.prev[n] = h.prev[n]
  BY <1>1, LinkInList
<1>5. r = L!ListInsert(h, s, head)
  BY <1>3, HeapIs
<1>6. QED
  BY <1>2, <1>4, <1>5, HeapIs

(* ListRemove of a node of the list. *)
LEMMA RemoveLinked ==
  ASSUME NEW h \in L!Heap, NEW head \in Heads, NEW q \in Seq(Slot), IsInjective(q),
         LinkedAs(h, head, q), NEW j \in 1 .. Len(q)
  PROVE  LET r == L!ListRemove(h, q[j])
         IN  /\ r \in L!Heap /\ LinkedAs(r, head, RemoveAt(q, j))
             /\ \A n \in Nodes \ (ToSet(q) \cup {head}) :
                  r.next[n] = h.next[n] /\ r.prev[n] = h.prev[n]
<1>1. Slot \subseteq Nodes /\ h \in Heaps(Nodes, NULL) /\ head \in Nodes /\ head \notin Slot
  BY HeadsAssumption, HeapIs DEF Nodes
<1> DEFINE r == Unlink(h, q[j])
<1>2. /\ r \in Heaps(Nodes, NULL) /\ LinkedAs(r, head, RemoveAt(q, j))
      /\ \A n \in Nodes \ (ToSet(q) \cup {head}) :
           r.next[n] = h.next[n] /\ r.prev[n] = h.prev[n]
  BY <1>1, UnlinkInList
<1>3. r = L!ListRemove(h, q[j])
  BY HeapIs
<1>4. QED
  BY <1>2, <1>3, HeapIs

(* The lists of one kind are left alone by what changes other nodes only. *)
LEMMA LocalFrame ==
  ASSUME NEW h, NEW g, NEW local \in SUBSET Slot, LocalLinked(h, local),
         \A n \in local \cup {localList} : g.next[n] = h.next[n] /\ g.prev[n] = h.prev[n]
  PROVE  LocalLinked(g, local)
<1>1. PICK q \in Seq(Slot) : IsInjective(q) /\ ToSet(q) = local /\ LinkedAs(h, localList, q)
  BY DEF LocalLinked
<1>2. localList \notin Slot
  BY HeadsAssumption DEF Heads
<1>3. LinkedAs(g, localList, q)
  BY <1>1, <1>2, LinkedFrame
<1>4. QED
  BY <1>1, <1>3 DEF LocalLinked

(* Remote links depend on the pointers of the head and of the remote       *)
(* ones.                                                                   *)
LEMMA RemoteFrame ==
  ASSUME NEW h, NEW g, NEW remote \in SUBSET Slot, RemoteLinked(h, remote),
         \A n \in remote \cup {remoteList} : g.next[n] = h.next[n] /\ g.prev[n] = h.prev[n]
  PROVE  RemoteLinked(g, remote)
  BY DEF RemoteLinked

(* The head of the remote transactions knows none or one of them. *)
LEMMA RemoteSeq ==
  ASSUME NEW h, NEW remote \in SUBSET Slot, RemoteLinked(h, remote)
  PROVE  \E q \in Seq(Slot) : IsInjective(q) /\ ToSet(q) \subseteq remote /\ LinkedAs(h, remoteList, q)
<1>1. CASE h.next[remoteList] = remoteList
  <2>1. << >> \in Seq(Slot) /\ IsInjective(<< >>) /\ ToSet(<< >>) \subseteq remote /\ Len(<< >>) = 0
    BY DEF IsInjective, ToSet
  <2>2. \A i \in Int : NodeAt(<< >>, remoteList, i) = remoteList
    BY <2>1 DEF NodeAt
  <2>3. h.prev[remoteList] = remoteList
    BY <1>1 DEF RemoteLinked
  <2>4. LinkedAs(h, remoteList, << >>)
    BY <1>1, <2>1, <2>2, <2>3 DEF LinkedAs
  <2>5. QED
    BY <2>1, <2>4
<1>2. CASE h.next[remoteList] \in remote
  <2>1. PICK s \in remote : s = h.next[remoteList]
    BY <1>2
  <2> DEFINE q == <<s>>
  <2>2. q \in Seq(Slot) /\ Len(q) = 1 /\ q[1] = s
    OBVIOUS
  <2> HIDE DEF q
  <2>3. IsInjective(q) /\ ToSet(q) \subseteq remote
    BY <2>1, <2>2, SeqAsSet
  <2>4. NodeAt(q, remoteList, 0) = remoteList /\ NodeAt(q, remoteList, 1) = s /\ NodeAt(q, remoteList, 2) = remoteList
    BY <2>2 DEF NodeAt
  <2>5. ASSUME NEW i \in 0 .. Len(q)
        PROVE  /\ h.next[NodeAt(q, remoteList, i)] = NodeAt(q, remoteList, i + 1)
               /\ h.prev[NodeAt(q, remoteList, i + 1)] = NodeAt(q, remoteList, i)
    <3>1. i = 0 \/ i = 1
      BY <2>2
    <3>2. QED
      BY <2>1, <2>4, <3>1 DEF RemoteLinked
  <2>6. QED
    BY <2>2, <2>3, <2>5 DEF LinkedAs
<1>3. QED
  BY <1>1, <1>2 DEF RemoteLinked

(* The count in the module of the lists is the usual one. *)
LEMMA StepsCount == /\ IsFiniteSet(Nodes) /\ Cardinality(Nodes) \in Nat
                    /\ L!Steps = 0 .. Cardinality(Nodes)
<1>1. IsFiniteSet(Slot) /\ IsFiniteSet({localList}) /\ IsFiniteSet({localList} \cup {remoteList})
  BY SlotAssumption, FS_Singleton, FS_AddElement
<1>2. IsFiniteSet(Heads)
  <2>1. Heads = {localList} \cup {remoteList}
    BY DEF Heads
  <2>2. QED
    BY <1>1, <2>1
<1>3. IsFiniteSet(Nodes) /\ Cardinality(Nodes) \in Nat
  BY <1>1, <1>2, FS_Union, FS_CardinalityType DEF Nodes
<1>4. L!Cardinality(Nodes) = Cardinality(Nodes)
  BY DEF L!Cardinality, Cardinality
<1>5. QED
  BY <1>3, <1>4 DEF L!Steps, Nodes

(* What comes before a step of a walk is a step of it.                     *)
LEMMA StepsBelow == L!Steps \subseteq Nat /\ \A n \in L!Steps : \A k \in 0 .. n : k \in L!Steps
<1> PICK m \in Nat : m = Cardinality(Nodes)
  BY StepsCount
<1>1. L!Steps = 0 .. m
  BY StepsCount
<1>2. QED
  BY <1>1

(* A walk along a list ends in time. *)
LEMMA LinkedEnds ==
  ASSUME NEW q \in Seq(Slot), IsInjective(q)
  PROVE  Len(q) \in L!Steps
  BY StepsCount, ListFits DEF Nodes

(* A walk sees all nodes of its list and no others. *)
LEMMA LinkedMembers ==
  ASSUME NEW h, NEW head \in Heads, NEW q \in Seq(Slot), IsInjective(q), LinkedAs(h, head, q)
  PROVE  L!WalkEnds(h, head) /\ L!Members(h, head) = ToSet(q)
<1> DEFINE at == L!Visit(h, head)
<1>1. Len(q) \in L!Steps /\ L!Steps \subseteq Nat /\ Len(q) \in Nat
  BY LinkedEnds, StepsBelow, LenProperties
<1>2. \A k \in L!Steps : at[k] = NodeAt(q, head, k + 1)
  BY <1>1, VisitLinked
<1> HIDE DEF at
<1>3. at[Len(q)] = head
  BY <1>1, <1>2 DEF NodeAt
<1>4. L!WalkEnds(h, head)
  BY <1>1, <1>3 DEF L!WalkEnds, at
<1>5. L!Members(h, head) = {at[k] : k \in L!Steps} \ {head, NULL}
  BY DEF L!Members, at
<1>6. ASSUME NEW k \in L!Steps, at[k] # head PROVE at[k] \in ToSet(q)
  BY <1>1, <1>2, <1>6, SeqAsSet DEF NodeAt
<1>7. ASSUME NEW s \in ToSet(q) PROVE s \notin {head, NULL} /\ \E k \in L!Steps : at[k] = s
  <2>1. PICK i \in 1 .. Len(q) : q[i] = s
    BY SeqAsSet
  <2>2. i - 1 \in L!Steps /\ (i - 1) + 1 = i
    BY <1>1, StepsBelow
  <2>3. at[i - 1] = s
    BY <1>2, <2>1, <2>2 DEF NodeAt
  <2>4. s \in Slot
    BY SeqAsSet
  <2>5. QED
    BY <2>2, <2>3, <2>4, HeadsAssumption
<1>8. L!Members(h, head) = ToSet(q)
  BY <1>5, <1>6, <1>7
<1>9. QED
  BY <1>4, <1>8

(* PfcpXactFindByTransactionId comes back with a transaction of the list   *)
(* that has the id, or finds that none has.                                *)
LEMMA FindLinked ==
  ASSUME NEW p, NEW type \in Types, NEW id, NEW q \in Seq(Slot), IsInjective(q),
         LinkedAs(p.links, ListOf(type, id), q)
  PROVE  LET f == PfcpXactFindByTransactionId(p, type, id)
         IN  /\ f.ends
             /\ \/ f.xact = NULL /\ \A s \in ToSet(q) : p.xact[s].transactionId # id
                \/ f.xact \in ToSet(q) /\ p.xact[f.xact].transactionId = id
<1> DEFINE head == ListOf(type, id)
           at == L!Visit(p.links, head)
           stops == {k \in L!Steps : at[k] = head \/ (at[k] \in Slot /\ HasId(p.xact[at[k]], type, id))}
           k == CHOOSE i \in stops : \A j \in stops : i <= j
           f == PfcpXactFindByTransactionId(p, type, id)
<1>1. head \in Heads /\ head \notin Slot
  BY HeadsAssumption DEF ListOf, Heads
<1>2. Len(q) \in L!Steps /\ L!Steps \subseteq Nat /\ Len(q) \in Nat
  BY LinkedEnds, StepsBelow, LenProperties
<1>3. \A i \in L!Steps : at[i] = NodeAt(q, head, i + 1)
  BY <1>1, <1>2, VisitLinked
<1>4. PfcpXactGetStage(type) # "UNKNOWN"
  BY DEF PfcpXactGetStage, Types
<1>5. f = IF stops = {} THEN [xact |-> NULL, ends |-> FALSE]
          ELSE [xact |-> IF at[k] = head THEN NULL ELSE at[k], ends |-> TRUE]
  BY <1>4 DEF PfcpXactFindByTransactionId
<1> HIDE DEF at, f, head
<1>6. at[Len(q)] = head
  BY <1>2, <1>3 DEF NodeAt
<1>7. Len(q) \in stops /\ stops \in SUBSET Nat
  BY <1>2, <1>6
<1>8. k \in stops /\ \A j \in stops : k <= j
  BY <1>7, FirstIndex
<1> HIDE DEF k
<1>9. k \in L!Steps /\ k \in Nat /\ k <= Len(q)
  BY <1>2, <1>7, <1>8
<1>10. f = [xact |-> IF at[k] = head THEN NULL ELSE at[k], ends |-> TRUE]
  BY <1>5, <1>7
<1>11. CASE at[k] = head
  <2>1. k = Len(q)
    <3>1. k + 1 \notin 1 .. Len(q)
      BY <1>1, <1>3, <1>9, <1>11, NodeAtIs
    <3>2. QED
      BY <1>2, <1>9, <3>1
  <2>2. ASSUME NEW s \in ToSet(q) PROVE p.xact[s].transactionId # id
    <3>1. PICK i \in 1 .. Len(q) : q[i] = s
      BY SeqAsSet
    <3>2. i - 1 \in L!Steps /\ (i - 1) + 1 = i /\ ~(k <= i - 1)
      <4>1. i - 1 \in 0 .. Len(q) /\ (i - 1) + 1 = i /\ ~(k <= i - 1)
        BY <1>2, <2>1
      <4>2. QED
        BY <1>2, <4>1, StepsBelow
    <3>3. at[i - 1] = s
      BY <1>3, <3>1, <3>2 DEF NodeAt
    <3>4. i - 1 \notin stops
      BY <1>8, <3>2
    <3>5. s \in Slot
      BY SeqAsSet
    <3>6. QED
      BY <3>2, <3>3, <3>4, <3>5 DEF HasId
  <2>3. QED
    BY <1>10, <1>11, <2>2 DEF f
<1>12. CASE at[k] # head
  <2>1. k + 1 \in 1 .. Len(q) /\ at[k] = q[k + 1]
    BY <1>2, <1>3, <1>9, <1>12 DEF NodeAt
  <2>2. at[k] \in ToSet(q) /\ HasId(p.xact[at[k]], type, id)
    BY <1>8, <1>12, <2>1, SeqAsSet
  <2>3. f.xact = at[k] /\ f.ends
    BY <1>10, <1>12
  <2>4. QED
    BY <2>2, <2>3 DEF HasId, f
<1>13. QED
  BY <1>11, <1>12
-----------------------------------------------------------------------------
(* The slots. *)

(* Who is in use after one transaction has changed. *)
Sets(x, z, s, y) == z[s] = y /\ \A r \in Slot \ {s} : z[r] = x[r]

(* One transaction changes.                                                *)
LEMMA SetsOne ==
  ASSUME NEW x \in [Slot -> Xact], NEW s \in Slot, NEW y \in Xact
  PROVE  [x EXCEPT ![s] = y] \in [Slot -> Xact] /\ Sets(x, [x EXCEPT ![s] = y], s, y)
  BY DEF Sets

(* A transaction that ends is no longer in use.                            *)
LEMMA UseShrinks ==
  ASSUME NEW x, NEW z, NEW s \in Slot, NEW y, Sets(x, z, s, y), y.step = 0
  PROVE  /\ UseOf(z) = UseOf(x) \ {s}
         /\ RemoteOf(z) = RemoteOf(x) \ {s} /\ LocalOf(z) = LocalOf(x) \ {s}
  BY DEF Sets, UseOf, RemoteOf, LocalOf

(* A transaction with a message is in use.                                 *)
LEMMA UseGrows ==
  ASSUME NEW x, NEW z, NEW s \in Slot, NEW y, Sets(x, z, s, y), y.step > 0
  PROVE  /\ UseOf(z) = UseOf(x) \cup {s}
         /\ y.origin = "remote" => /\ RemoteOf(z) = RemoteOf(x) \cup {s}
                                   /\ LocalOf(z) = LocalOf(x) \ {s}
         /\ y.origin = "local" => /\ RemoteOf(z) = RemoteOf(x) \ {s}
                                  /\ LocalOf(z) = LocalOf(x) \cup {s}
<1>1. UseOf(z) = UseOf(x) \cup {s}
  BY DEF Sets, UseOf
<1>2. ASSUME y.origin = "remote"
      PROVE  RemoteOf(z) = RemoteOf(x) \cup {s} /\ LocalOf(z) = LocalOf(x) \ {s}
  BY <1>2 DEF Sets, UseOf, RemoteOf, LocalOf
<1>3. ASSUME y.origin = "local"
      PROVE  RemoteOf(z) = RemoteOf(x) \ {s} /\ LocalOf(z) = LocalOf(x) \cup {s}
  BY <1>3 DEF Sets, UseOf, RemoteOf, LocalOf
<1>4. QED
  BY <1>1, <1>2, <1>3

(* A transaction is of one origin. *)
LEMMA OneOrigin ==
  ASSUME NEW x \in [Slot -> Xact]
  PROVE  /\ UseOf(x) = RemoteOf(x) \cup LocalOf(x) /\ RemoteOf(x) \cap LocalOf(x) = {}
         /\ UseOf(x) \subseteq Slot /\ RemoteOf(x) \in SUBSET Slot /\ LocalOf(x) \in SUBSET Slot
<1>1. \A s \in Slot : x[s].origin \in {"local", "remote"}
  BY DEF Xact
<1>2. QED
  BY <1>1 DEF UseOf, RemoteOf, LocalOf

(* IndexFree for a slot in use: the free queue has room for it. *)
LEMMA SlotsFree ==
  ASSUME NEW x, NEW z, NEW avail \in Seq(Slot), SlotsOf(x, avail), NEW s \in Slot,
         s \in UseOf(x), UseOf(z) = UseOf(x) \ {s}
  PROVE  /\ Len(avail) < Cardinality(Slot)
         /\ Append(avail, s) \in Seq(Slot) /\ SlotsOf(z, Append(avail, s))
<1>1. IsInjective(avail) /\ ToSet(avail) = Slot \ UseOf(x) /\ Len(avail) \in Nat
  BY LenProperties DEF SlotsOf
<1>2. Len(avail) < Cardinality(Slot)
  <2>1. Cardinality(ToSet(avail)) = Len(avail)
    BY <1>1, InjectiveLength
  <2>2. ToSet(avail) \in SUBSET Slot /\ ToSet(avail) # Slot
    BY <1>1
  <2>3. Cardinality(ToSet(avail)) <= Cardinality(Slot) /\ Cardinality(ToSet(avail)) # Cardinality(Slot)
    BY <2>2, SlotAssumption, FS_Subset
  <2>4. Cardinality(Slot) \in Nat
    BY SlotAssumption, FS_CardinalityType
  <2>5. QED
    BY <1>1, <2>1, <2>3, <2>4
<1>3. /\ Append(avail, s) \in Seq(Slot) /\ ToSet(Append(avail, s)) = ToSet(avail) \cup {s}
      /\ IsInjective(Append(avail, s))
  BY <1>1, AppendSet
<1>4. ToSet(Append(avail, s)) = Slot \ UseOf(z)
  BY <1>1, <1>3 DEF UseOf
<1>5. QED
  BY <1>2, <1>3, <1>4 DEF SlotsOf

(* IndexAlloc: the slot was not in use, and there was one. *)
LEMMA SlotsTake ==
  ASSUME NEW x, NEW z, NEW avail \in Seq(Slot), SlotsOf(x, avail), avail # << >>,
         UseOf(z) = UseOf(x) \cup {Head(avail)}
  PROVE  /\ Head(avail) \in Slot \ UseOf(x)
         /\ Tail(avail) \in Seq(Slot) /\ SlotsOf(z, Tail(avail))
<1>1. IsInjective(avail) /\ ToSet(avail) = Slot \ UseOf(x)
  BY DEF SlotsOf
<1>2. /\ Head(avail) \in ToSet(avail) /\ Tail(avail) \in Seq(Slot) /\ IsInjective(Tail(avail))
      /\ ToSet(avail) = ToSet(Tail(avail)) \cup {Head(avail)} /\ Head(avail) \notin ToSet(Tail(avail))
  BY <1>1, HeadTailSet
<1>3. ToSet(Tail(avail)) = Slot \ UseOf(z)
  BY <1>1, <1>2
<1>4. QED
  BY <1>1, <1>2, <1>3 DEF SlotsOf
-----------------------------------------------------------------------------
(* The timers. *)

(* The timers of different transactions are different ones. *)
LEMMA OwnTimers ==
  ASSUME NEW x, NEW t, TimersOf(x, t), NEW r \in RemoteOf(x), NEW s \in RemoteOf(x)
  PROVE  /\ x[r].timerResponse # x[s].timerHolding
         /\ x[r].timerResponse = x[s].timerResponse => r = s
         /\ x[r].timerHolding = x[s].timerHolding => r = s
<1>1. /\ t.blk[x[r].timerResponse].param = [type |-> "T3_RESPONSE", index |-> r]
      /\ t.blk[x[s].timerResponse].param = [type |-> "T3_RESPONSE", index |-> s]
      /\ t.blk[x[r].timerHolding].param = [type |-> "T3_HOLDING", index |-> r]
      /\ t.blk[x[s].timerHolding].param = [type |-> "T3_HOLDING", index |-> s]
  BY DEF TimersOf, T3
<1>2. /\ [type |-> "T3_RESPONSE", index |-> r] # [type |-> "T3_HOLDING", index |-> s]
      /\ [type |-> "T3_RESPONSE", index |-> r] = [type |-> "T3_RESPONSE", index |-> s] => r = s
      /\ [type |-> "T3_HOLDING", index |-> r] = [type |-> "T3_HOLDING", index |-> s] => r = s
  <2>1. [type |-> "T3_RESPONSE", index |-> r].type # [type |-> "T3_HOLDING", index |-> s].type
    OBVIOUS
  <2>2. /\ [type |-> "T3_RESPONSE", index |-> r].index = r
        /\ [type |-> "T3_RESPONSE", index |-> s].index = s
        /\ [type |-> "T3_HOLDING", index |-> r].index = r
        /\ [type |-> "T3_HOLDING", index |-> s].index = s
    OBVIOUS
  <2>3. QED
    BY <2>1, <2>2
<1>3. QED
  BY <1>1, <1>2

(* Transactions may change in what is not about timers. *)
LEMMA TimersKeep ==
  ASSUME NEW x, NEW z, NEW t, TimersOf(x, t), RemoteOf(z) = RemoteOf(x),
         \A s \in RemoteOf(x) : /\ z[s].timerResponse = x[s].timerResponse
                                /\ z[s].timerHolding = x[s].timerHolding
  PROVE  TimersOf(z, t)
  BY DEF TimersOf

(* A holding timer is started, or stops. *)
LEMMA TimersRetime ==
  ASSUME NEW x, NEW t, NEW u, TimersOf(x, t), NEW s \in RemoteOf(x),
         Sound(u, Param), Placed(u) = Placed(t), u.avail = t.avail,
         KeepsSettings(t, u, x[s].timerHolding)
  PROVE  TimersOf(x, u) /\ \A r \in RemoteOf(x) \ {s} : u.blk[x[r].timerHolding] = t.blk[x[r].timerHolding]
<1> DEFINE b == x[s].timerHolding
<1>1. /\ \A a \in Placed(t) \ {b} : u.blk[a] = t.blk[a]
      /\ u.blk[b].type = t.blk[b].type /\ u.blk[b].param = t.blk[b].param
  BY PlacedInBlk DEF TimersOf, Accounted, Sound, KeepsSettings, OnlyBlk
<1>2. \A r \in RemoteOf(x) : x[r].timerResponse # b /\ (x[r].timerHolding = b => r = s)
  BY OwnTimers
<1>3. \A a \in Placed(t) : u.blk[a].type = t.blk[a].type /\ u.blk[a].param = t.blk[a].param
  BY <1>1
<1>4. \A r \in RemoteOf(x) : x[r].timerResponse \in Placed(t) \ {b}
  BY <1>2 DEF TimersOf
<1>5. Accounted(u, Param)
  BY DEF TimersOf, Accounted
<1>6. TimersOf(x, u)
  BY <1>1, <1>3, <1>4, <1>5 DEF TimersOf
<1>7. \A r \in RemoteOf(x) \ {s} : x[r].timerHolding \in Placed(t) \ {b}
  BY <1>2 DEF TimersOf
<1>8. QED
  BY <1>1, <1>6, <1>7

(* The count of remote transactions. *)
LEMMA CountRemote ==
  ASSUME NEW x \in [Slot -> Xact]
  PROVE  /\ IsFiniteSet(RemoteOf(x)) /\ Cardinality(RemoteOf(x)) \in Nat
         /\ \A s \in Slot : Cardinality(RemoteOf(x) \cup {s}) =
              IF s \in RemoteOf(x) THEN Cardinality(RemoteOf(x)) ELSE Cardinality(RemoteOf(x)) + 1
         /\ \A s \in RemoteOf(x) : Cardinality(RemoteOf(x) \ {s}) = Cardinality(RemoteOf(x)) - 1
<1>1. IsFiniteSet(RemoteOf(x)) /\ Cardinality(RemoteOf(x)) \in Nat
  BY SlotAssumption, OneOrigin, FS_Subset, FS_CardinalityType
<1>2. QED
  BY <1>1, FS_AddElement, FS_RemoveElement

(* Both timers of a transaction that ends are deleted. *)
LEMMA TimersDelete ==
  ASSUME NEW x \in [Slot -> Xact], NEW z, NEW t, TimersOf(x, t), NEW s \in RemoteOf(x),
         RemoteOf(z) = RemoteOf(x) \ {s}, \A r \in RemoteOf(z) : z[r] = x[r]
  PROVE  LET u == TimerDelete(TimerDelete(t, x[s].timerResponse), x[s].timerHolding)
         IN  TimersOf(z, u) /\ u.blk = t.blk
<1> DEFINE a == x[s].timerResponse
           b == x[s].timerHolding
           v == TimerDelete(t, a)
           u == TimerDelete(v, b)
<1>1. a \in Placed(t) /\ b \in Placed(t) /\ a # b /\ Accounted(t, Param)
  BY OwnTimers DEF TimersOf
<1>2. /\ Accounted(v, Param) /\ Placed(v) = Placed(t) \ {a} /\ v.blk = t.blk
      /\ Cardinality(Placed(v)) = Cardinality(Placed(t)) - 1
  BY <1>1, DeleteAccounted
<1> HIDE DEF v
<1>3. b \in Placed(v)
  BY <1>1, <1>2
<1>4. /\ Accounted(u, Param) /\ Placed(u) = Placed(v) \ {b} /\ u.blk = v.blk
      /\ Cardinality(Placed(u)) = Cardinality(Placed(v)) - 1
  BY <1>2, <1>3, DeleteAccounted
<1> HIDE DEF u
<1>5. Placed(u) = Placed(t) \ {a, b} /\ u.blk = t.blk
  BY <1>2, <1>4
<1>6. \A r \in RemoteOf(z) : x[r].timerResponse \notin {a, b} /\ x[r].timerHolding \notin {a, b}
  BY OwnTimers
<1>7. Cardinality(Placed(u)) = 2 * Cardinality(RemoteOf(z))
  <2>1. /\ Cardinality(Placed(t)) = 2 * Cardinality(RemoteOf(x)) /\ Cardinality(RemoteOf(x)) \in Nat
        /\ Cardinality(RemoteOf(z)) = Cardinality(RemoteOf(x)) - 1
    BY CountRemote DEF TimersOf
  <2>2. QED
    BY <1>2, <1>4, <2>1
<1>8. \A c \in Placed(u) :
        /\ u.blk[c].type = "ONCE"
        /\ \E r \in RemoteOf(z) : c \in {z[r].timerResponse, z[r].timerHolding}
  BY <1>5 DEF TimersOf
<1>9. \A r \in RemoteOf(z) :
        /\ z[r].timerResponse \in Placed(u) /\ z[r].timerHolding \in Placed(u)
        /\ u.blk[z[r].timerResponse].param = T3("T3_RESPONSE", r)
        /\ u.blk[z[r].timerHolding].param = T3("T3_HOLDING", r)
        /\ ~u.blk[z[r].timerResponse].isRunning
  BY <1>5, <1>6 DEF TimersOf
<1>10. QED
  BY <1>4, <1>5, <1>7, <1>8, <1>9 DEF TimersOf, u, v

(* There are two timers for each slot: the code has 1024 for 256. *)
RoomForTimers == Cardinality(Blk) >= 2 * Cardinality(Slot)

(* A new remote transaction gets two timers. *)
LEMMA TimersCreate ==
  ASSUME RoomForTimers,
         NEW x \in [Slot -> Xact], NEW t, TimersOf(x, t), NEW s \in Slot, s \notin UseOf(x)
  PROVE  LET a == TimerAlloc(t)
             v == EventTimerCreate(t, "T3_RESPONSE", s)
             b == TimerAlloc(v)
             u == EventTimerCreate(v, "T3_HOLDING", s)
         IN  /\ a \in Blk /\ a # NULL /\ b \in Blk /\ b # NULL
             /\ \A c \in Placed(t) : u.blk[c] = t.blk[c]
             /\ \A z : /\ RemoteOf(z) = RemoteOf(x) \cup {s}
                       /\ \A r \in RemoteOf(x) : z[r] = x[r]
                       /\ z[s].timerResponse = a /\ z[s].timerHolding = b
                       => TimersOf(z, u)
<1> DEFINE a == TimerAlloc(t)
           v == EventTimerCreate(t, "T3_RESPONSE", s)
           b == TimerAlloc(v)
           u == EventTimerCreate(v, "T3_HOLDING", s)
           n == Cardinality(RemoteOf(x))
           P1 == T3("T3_RESPONSE", s)
           P2 == T3("T3_HOLDING", s)
<1>1. /\ n \in Nat /\ Cardinality(RemoteOf(x) \cup {s}) = n + 1 /\ s \notin RemoteOf(x)
      /\ RemoteOf(x) \cup {s} \in SUBSET Slot
  BY CountRemote, OneOrigin DEF RemoteOf
<1>2. n + 1 <= Cardinality(Slot) /\ Cardinality(Slot) \in Nat /\ Cardinality(Blk) \in Nat
  BY <1>1, SlotAssumption, BlkAssumption, FS_Subset, FS_CardinalityType
<1>3. Accounted(t, Param) /\ Cardinality(Placed(t)) = 2 * n
  BY DEF TimersOf
<1>4. "ONCE" \in TimerType /\ PFCP_T3_RESPONSE_DURATION \in Nat /\ P1 \in Param /\ P2 \in Param
  BY CountAssumption DEF TimerType, Param, T3, Timer
<1> HIDE DEF n, P1, P2
<1>5. Cardinality(Placed(t)) < Cardinality(Blk)
  BY <1>1, <1>2, <1>3 DEF RoomForTimers
<1>6. v = TimerCreate(t, "ONCE", PFCP_T3_RESPONSE_DURATION, P1)
  BY DEF EventTimerCreate, P1
<1> HIDE DEF v
<1>7. /\ Accounted(v, Param) /\ Placed(v) = Placed(t) \cup {a}
      /\ Cardinality(Placed(v)) = Cardinality(Placed(t)) + 1
      /\ a \in Blk /\ a # NULL /\ a \notin Placed(t) /\ OnlyBlk(t, v, a)
      /\ v.blk[a].param = P1 /\ v.blk[a].type = "ONCE" /\ ~v.blk[a].isRunning
  BY <1>3, <1>4, <1>5, <1>6, CreateAccounted
<1>8. Cardinality(Placed(v)) < Cardinality(Blk)
  BY <1>1, <1>2, <1>3, <1>7 DEF RoomForTimers
<1>9. u = TimerCreate(v, "ONCE", PFCP_T3_RESPONSE_DURATION, P2)
  BY DEF EventTimerCreate, P2
<1> HIDE DEF u
<1>10. /\ Accounted(u, Param) /\ Placed(u) = Placed(v) \cup {b}
       /\ Cardinality(Placed(u)) = Cardinality(Placed(v)) + 1
       /\ b \in Blk /\ b # NULL /\ b \notin Placed(v) /\ OnlyBlk(v, u, b)
       /\ u.blk[b].param = P2 /\ u.blk[b].type = "ONCE" /\ ~u.blk[b].isRunning
  BY SMTT(60), <1>4, <1>7, <1>8, <1>9, CreateAccounted
<1> HIDE DEF a, b
<1>11. Placed(t) \subseteq Blk
  BY PlacedInBlk DEF TimersOf, Accounted, Sound
<1>12. \A c \in Placed(t) : u.blk[c] = t.blk[c]
  BY <1>7, <1>10, <1>11 DEF OnlyBlk
<1>13. u.blk[a] = v.blk[a] /\ a # b
  BY <1>7, <1>10 DEF OnlyBlk
<1>14. ASSUME NEW z, RemoteOf(z) = RemoteOf(x) \cup {s}, \A r \in RemoteOf(x) : z[r] = x[r],
              z[s].timerResponse = a, z[s].timerHolding = b
       PROVE  TimersOf(z, u)
  <2>1. Cardinality(Placed(u)) = 2 * Cardinality(RemoteOf(z))
    BY <1>1, <1>3, <1>7, <1>10, <1>14
  <2>2. ASSUME NEW c \in Placed(u)
        PROVE  /\ u.blk[c].type = "ONCE"
               /\ \E r \in RemoteOf(z) : c \in {z[r].timerResponse, z[r].timerHolding}
    <3>1. CASE c \in Placed(t)
      BY <1>12, <1>14, <3>1 DEF TimersOf
    <3>2. CASE c = a
      BY <1>7, <1>13, <1>14, <3>2
    <3>3. CASE c = b
      BY <1>10, <1>14, <3>3
    <3>4. QED
      BY <1>7, <1>10, <3>1, <3>2, <3>3
  <2>3. ASSUME NEW r \in RemoteOf(z)
        PROVE  /\ z[r].timerResponse \in Placed(u) /\ z[r].timerHolding \in Placed(u)
               /\ u.blk[z[r].timerResponse].param = T3("T3_RESPONSE", r)
               /\ u.blk[z[r].timerHolding].param = T3("T3_HOLDING", r)
               /\ ~u.blk[z[r].timerResponse].isRunning
    <3>1. CASE r \in RemoteOf(x)
      BY <1>7, <1>10, <1>12, <1>14, <3>1 DEF TimersOf
    <3>2. CASE r = s
      BY <1>7, <1>10, <1>13, <1>14, <3>2 DEF P1, P2
    <3>3. QED
      BY <1>14, <3>1, <3>2
  <2>4. QED
    BY <1>10, <2>1, <2>2, <2>3 DEF TimersOf
<1>15. QED
  BY <1>7, <1>10, <1>12, <1>14 DEF a, b, u, v
-----------------------------------------------------------------------------
(* The lists. *)

(* A new slot's node is cleared and inserted after localList. *)
LEMMA ListsAddLocal ==
  ASSUME NEW x \in [Slot -> Xact], NEW h \in L!Heap, ListsOf(x, h), NEW s \in Slot, s \notin UseOf(x),
         NEW z, LocalOf(z) = LocalOf(x) \cup {s}, RemoteOf(z) = RemoteOf(x)
  PROVE  LET g == L!ListInsert(L!ZeroNode(h, s), s, localList)
         IN  g \in L!Heap /\ ListsOf(z, g)
<1> DEFINE m == L!ZeroNode(h, s)
           g == L!ListInsert(m, s, localList)
<1>1. /\ LocalOf(x) \in SUBSET Slot /\ RemoteOf(x) \in SUBSET Slot
      /\ s \notin LocalOf(x) /\ s \notin RemoteOf(x) /\ LocalOf(x) \cap RemoteOf(x) = {}
  BY OneOrigin
<1>2. m \in L!Heap /\ \A n \in Nodes \ {s} : m.next[n] = h.next[n] /\ m.prev[n] = h.prev[n]
  BY DEF L!Heap, L!Pointer, L!ZeroNode, Nodes
<1> HIDE DEF m
<1>3. LocalOf(x) \subseteq Nodes \ {s} /\ RemoteOf(x) \subseteq Nodes \ {s} /\ Heads \subseteq Nodes \ {s}
  BY <1>1, HeadsAssumption DEF Nodes
<1>4. /\ localList \in Heads /\ remoteList \in Heads /\ localList # remoteList
      /\ localList \notin Slot /\ remoteList \notin Slot
  BY HeadsAssumption DEF Heads
<1>5. RemoteLinked(m, RemoteOf(x))
  <2>1. RemoteLinked(h, RemoteOf(x))
    BY DEF ListsOf
  <2>2. \A n \in RemoteOf(x) \cup {remoteList} : m.next[n] = h.next[n] /\ m.prev[n] = h.prev[n]
    BY <1>2, <1>3, <1>4
  <2>3. QED
    BY <1>1, <2>1, <2>2, RemoteFrame
<1>6. LocalLinked(m, LocalOf(x))
  <2>1. LocalLinked(h, LocalOf(x))
    BY DEF ListsOf
  <2>2. \A n \in LocalOf(x) \cup {localList} : m.next[n] = h.next[n] /\ m.prev[n] = h.prev[n]
    BY <1>2, <1>3, <1>4
  <2>3. QED
    BY <1>1, <2>1, <2>2, LocalFrame
<1>7. PICK q \in Seq(Slot) : IsInjective(q) /\ ToSet(q) = LocalOf(x) /\ LinkedAs(m, localList, q)
  BY <1>6 DEF LocalLinked
<1>8. s \notin ToSet(q)
  BY <1>1, <1>7
<1>9. /\ g \in L!Heap /\ LinkedAs(g, localList, InsertAt(q, 1, s))
      /\ \A n \in Nodes \ (ToSet(q) \cup {localList, s}) : g.next[n] = m.next[n] /\ g.prev[n] = m.prev[n]
  BY <1>2, <1>4, <1>7, <1>8, InsertLinked
<1> HIDE DEF g
<1>10. LocalLinked(g, LocalOf(z))
  <2>1. 1 \in 1 .. Len(q) + 1
    BY LenProperties
  <2>2. InsertAt(q, 1, s) \in Seq(Slot)
    BY <2>1, InsertAtElements
  <2>3. ToSet(InsertAt(q, 1, s)) = ToSet(q) \cup {s} /\ IsInjective(InsertAt(q, 1, s))
    BY <1>7, <1>8, <2>1, InsertAtSet
  <2>4. QED
    BY <1>7, <1>9, <2>2, <2>3 DEF LocalLinked
<1>11. RemoteLinked(g, RemoteOf(z))
  <2>1. \A n \in RemoteOf(x) \cup {remoteList} : n \in Nodes \ (ToSet(q) \cup {localList, s})
    BY <1>1, <1>3, <1>4, <1>7
  <2>2. \A n \in RemoteOf(x) \cup {remoteList} : g.next[n] = m.next[n] /\ g.prev[n] = m.prev[n]
    BY <1>9, <2>1
  <2>3. QED
    BY <1>1, <1>5, <2>2, RemoteFrame
<1>12. QED
  BY <1>9, <1>10, <1>11 DEF ListsOf, g, m

(* A local transaction leaves its list. *)
LEMMA ListsDropLocal ==
  ASSUME NEW x \in [Slot -> Xact], NEW h \in L!Heap, ListsOf(x, h), NEW s \in LocalOf(x),
         NEW z, LocalOf(z) = LocalOf(x) \ {s}, RemoteOf(z) = RemoteOf(x)
  PROVE  L!ListRemove(h, s) \in L!Heap /\ ListsOf(z, L!ListRemove(h, s))
<1> DEFINE g == L!ListRemove(h, s)
<1>1. /\ LocalOf(x) \in SUBSET Slot /\ RemoteOf(x) \in SUBSET Slot
      /\ LocalOf(x) \cap RemoteOf(x) = {}
  BY OneOrigin
<1>2. /\ localList \in Heads /\ remoteList \in Heads /\ localList # remoteList
      /\ localList \notin Slot /\ remoteList \notin Slot
  BY HeadsAssumption DEF Heads
<1>3. PICK q \in Seq(Slot) : IsInjective(q) /\ ToSet(q) = LocalOf(x) /\ LinkedAs(h, localList, q)
  BY DEF ListsOf, LocalLinked
<1>4. PICK j \in 1 .. Len(q) : q[j] = s
  BY <1>3, SeqAsSet
<1>5. /\ L!ListRemove(h, q[j]) \in L!Heap /\ LinkedAs(L!ListRemove(h, q[j]), localList, RemoveAt(q, j))
      /\ \A n \in Nodes \ (ToSet(q) \cup {localList}) :
           L!ListRemove(h, q[j]).next[n] = h.next[n] /\ L!ListRemove(h, q[j]).prev[n] = h.prev[n]
  BY <1>2, <1>3, RemoveLinked
<1>6. g = L!ListRemove(h, q[j])
  BY <1>4
<1> HIDE DEF g
<1>7. LocalLinked(g, LocalOf(z))
  <2>1. RemoveAt(q, j) \in Seq(Slot)
    BY RemoveAtElements
  <2>2. ToSet(RemoveAt(q, j)) = ToSet(q) \ {q[j]} /\ IsInjective(RemoveAt(q, j))
    BY <1>3, RemoveAtSet
  <2>3. QED
    BY <1>3, <1>4, <1>5, <1>6, <2>1, <2>2 DEF LocalLinked
<1>8. RemoteLinked(g, RemoteOf(z))
  <2>1. \A n \in RemoteOf(x) \cup {remoteList} : n \in Nodes \ (ToSet(q) \cup {localList})
    BY <1>1, <1>2, <1>3 DEF Nodes
  <2>2. \A n \in RemoteOf(x) \cup {remoteList} : g.next[n] = h.next[n] /\ g.prev[n] = h.prev[n]
    BY <1>5, <1>6, <2>1
  <2>3. RemoteLinked(h, RemoteOf(x))
    BY DEF ListsOf
  <2>4. QED
    BY <1>1, <2>2, <2>3, RemoteFrame
<1>9. QED
  BY <1>5, <1>6, <1>7, <1>8 DEF ListsOf, g

(* A new remote transaction: remoteList is initialised again before it is  *)
(* inserted, which forgets the one it knew.                                *)
LEMMA ListsAddRemote ==
  ASSUME NEW x \in [Slot -> Xact], NEW h \in L!Heap, ListsOf(x, h), NEW s \in Slot, s \notin UseOf(x),
         NEW z, LocalOf(z) = LocalOf(x), RemoteOf(z) = RemoteOf(x) \cup {s}
  PROVE  LET g == L!ListInsert(L!ListHeadInit(L!ZeroNode(h, s), remoteList), s, remoteList)
         IN  g \in L!Heap /\ ListsOf(z, g)
<1> DEFINE l == L!ZeroNode(h, s)
           m == L!ListHeadInit(l, remoteList)
           g == L!ListInsert(m, s, remoteList)
<1>1. /\ LocalOf(x) \in SUBSET Slot /\ RemoteOf(x) \in SUBSET Slot
      /\ s \notin LocalOf(x) /\ s \notin RemoteOf(x) /\ LocalOf(x) \cap RemoteOf(x) = {}
  BY OneOrigin
<1>2. /\ localList \in Nodes /\ remoteList \in Nodes /\ s \in Nodes /\ localList # remoteList
      /\ localList \notin Slot /\ remoteList \notin Slot /\ Slot \subseteq Nodes
  BY HeadsAssumption DEF Heads, Nodes
<1>3. l \in L!Heap /\ \A n \in Nodes \ {s} : l.next[n] = h.next[n] /\ l.prev[n] = h.prev[n]
  BY DEF L!Heap, L!Pointer, L!ZeroNode, Nodes
<1> HIDE DEF l
<1>4. /\ m \in L!Heap /\ m.next[remoteList] = remoteList /\ m.prev[remoteList] = remoteList
      /\ \A n \in Nodes \ {remoteList} : m.next[n] = l.next[n] /\ m.prev[n] = l.prev[n]
  BY <1>2, <1>3 DEF L!Heap, L!Pointer, L!ListHeadInit, Nodes
<1> HIDE DEF m
<1>5. /\ g \in L!Heap
      /\ \A n \in Nodes :
           /\ g.next[n] = IF n = remoteList THEN s ELSE IF n = s THEN remoteList ELSE m.next[n]
           /\ g.prev[n] = IF n = s THEN remoteList ELSE IF n = remoteList THEN s ELSE m.prev[n]
  <2>1. s # remoteList /\ m.next[remoteList] \in Nodes
    BY <1>2, <1>4
  <2>2. g = LinkBetween(m, s, remoteList, remoteList) /\ m \in Heaps(Nodes, NULL)
    BY <1>4, HeapIs DEF g
  <2>3. LinkBetween(m, s, remoteList, remoteList) \in Heaps(Nodes, NULL)
        /\ Between(m, LinkBetween(m, s, remoteList, remoteList), Nodes, s, remoteList, remoteList)
    BY <1>2, <2>1, <2>2, LinkPointers
  <2>4. QED
    BY <2>2, <2>3, HeapIs DEF Between
<1> HIDE DEF g
<1>6. \A n \in Nodes \ {s, remoteList} : g.next[n] = h.next[n] /\ g.prev[n] = h.prev[n]
  BY <1>3, <1>4, <1>5
<1>7. LocalLinked(g, LocalOf(z))
  <2>1. LocalLinked(h, LocalOf(x))
    BY DEF ListsOf
  <2>2. \A n \in LocalOf(x) \cup {localList} : g.next[n] = h.next[n] /\ g.prev[n] = h.prev[n]
    BY <1>1, <1>2, <1>6
  <2>3. QED
    BY <1>1, <2>1, <2>2, LocalFrame
<1>8. RemoteLinked(g, RemoteOf(z))
  <2>1. g.next[remoteList] = s /\ g.prev[remoteList] = s
    BY <1>2, <1>5
  <2>2. g.next[s] = remoteList /\ g.prev[s] = remoteList
    BY <1>2, <1>5
  <2>3. ASSUME NEW r \in RemoteOf(x) PROVE g.next[r] = remoteList /\ g.prev[r] = remoteList
    <3>1. r \in Nodes \ {s, remoteList}
      BY <1>1, <1>2
    <3>2. h.next[r] = remoteList /\ h.prev[r] = remoteList
      BY DEF ListsOf, RemoteLinked
    <3>3. QED
      BY <1>6, <3>1, <3>2
  <2>4. QED
    BY <2>1, <2>2, <2>3 DEF RemoteLinked
<1>9. QED
  BY <1>5, <1>7, <1>8 DEF ListsOf, g, m, l

(* A remote transaction is unlinked, whether or not the head knows it. *)
LEMMA ListsDropRemote ==
  ASSUME NEW x \in [Slot -> Xact], NEW h \in L!Heap, ListsOf(x, h), NEW s \in RemoteOf(x),
         NEW z, LocalOf(z) = LocalOf(x), RemoteOf(z) = RemoteOf(x) \ {s}
  PROVE  L!ListRemove(h, s) \in L!Heap /\ ListsOf(z, L!ListRemove(h, s))
<1> DEFINE g == L!ListRemove(h, s)
<1>1. /\ LocalOf(x) \in SUBSET Slot /\ RemoteOf(x) \in SUBSET Slot
      /\ LocalOf(x) \cap RemoteOf(x) = {}
  BY OneOrigin
<1>2. /\ localList \in Nodes /\ remoteList \in Nodes /\ s \in Nodes /\ localList # remoteList
      /\ localList \notin Slot /\ remoteList \notin Slot /\ Slot \subseteq Nodes
  BY <1>1, HeadsAssumption DEF Heads, Nodes
<1>3. /\ h.next[s] = remoteList /\ h.prev[s] = remoteList /\ h.next[remoteList] = h.prev[remoteList]
      /\ h.next[remoteList] \in {remoteList} \cup RemoteOf(x)
  BY DEF ListsOf, RemoteLinked
<1>4. /\ g \in L!Heap
      /\ \A n \in Nodes :
           /\ g.next[n] = IF n = s THEN s ELSE IF n = remoteList THEN remoteList ELSE h.next[n]
           /\ g.prev[n] = IF n = s THEN s ELSE IF n = remoteList THEN remoteList ELSE h.prev[n]
  <2>1. g = Unlink(h, s) /\ h \in Heaps(Nodes, NULL)
    BY HeapIs
  <2> HIDE DEF g
  <2>2. /\ g \in Heaps(Nodes, NULL)
        /\ \A n \in Nodes :
             /\ g.next[n] = IF n = s THEN s ELSE IF n = h.prev[s] THEN h.next[s] ELSE h.next[n]
             /\ g.prev[n] = IF n = s THEN s ELSE IF n = h.next[s] THEN h.prev[s] ELSE h.prev[n]
    BY <1>2, <1>3, <2>1, UnlinkPointers
  <2>3. QED
    BY <1>3, <2>2, HeapIs
<1> HIDE DEF g
<1>5. LocalLinked(g, LocalOf(z))
  <2>1. LocalLinked(h, LocalOf(x))
    BY DEF ListsOf
  <2>2. \A n \in LocalOf(x) \cup {localList} : g.next[n] = h.next[n] /\ g.prev[n] = h.prev[n]
    BY <1>1, <1>2, <1>4
  <2>3. QED
    BY <1>1, <2>1, <2>2, LocalFrame
<1>6. RemoteLinked(g, RemoteOf(z))
  <2>1. g.next[remoteList] = remoteList /\ g.prev[remoteList] = remoteList
    BY <1>1, <1>2, <1>4
  <2>2. ASSUME NEW r \in RemoteOf(z) PROVE g.next[r] = remoteList /\ g.prev[r] = remoteList
    <3>1. r \in Nodes /\ r # s /\ r # remoteList
      BY <1>1, <1>2
    <3>2. h.next[r] = remoteList /\ h.prev[r] = remoteList
      BY DEF ListsOf, RemoteLinked
    <3>3. QED
      BY <1>4, <3>1, <3>2
  <2>3. QED
    BY <2>1, <2>2 DEF RemoteLinked
<1>7. QED
  BY <1>4, <1>5, <1>6 DEF ListsOf, g
-----------------------------------------------------------------------------
(* The functions of the library. *)

(* Only the transaction in one slot changes. *)
Only(p, u, s) == \A r \in Slot \ {s} : u.xact[r] = p.xact[r]

(* The members of a library. *)
LEMMA LibMembers ==
  ASSUME NEW p \in Lib
  PROVE  /\ p.xact \in [Slot -> Xact] /\ p.avail \in Seq(Slot) /\ p.links \in L!Heap
         /\ p.tl \in TimerLists(Param) /\ p.globalXactId \in 1 .. PFCP_MAX_XACT_ID /\ p.fault = NULL
         /\ p = [xact |-> p.xact, avail |-> p.avail, links |-> p.links, tl |-> p.tl,
                 globalXactId |-> p.globalXactId, fault |-> NULL]
  BY DEF Lib

(* What PfcpXactDelete comes to. *)
LEMMA DeleteForm ==
  ASSUME NEW p, LibInv(p), NEW s \in UseOf(p.xact)
  PROVE  LET x == p.xact[s]
         IN  \E y \in Xact :
               /\ y.step = 0
               /\ PfcpXactDelete(p, s) =
                    [xact |-> [p.xact EXCEPT ![s] = y], avail |-> Append(p.avail, s),
                     links |-> L!ListRemove(p.links, s),
                     tl |-> IF x.origin = "local" THEN p.tl
                            ELSE TimerDelete(TimerDelete(p.tl, x.timerResponse), x.timerHolding),
                     globalXactId |-> p.globalXactId, fault |-> NULL]
<1> DEFINE x == p.xact[s]
           y == [x EXCEPT !.origin = "local", !.transactionId = 0, !.step = 0,
                          !.type = [i \in 0 .. 2 |-> NULL]]
           h == L!ListRemove(p.links, s)
           removed == [p EXCEPT !.links = L!ListRemove(@, s), !.xact[s] = y]
           z == [p.xact EXCEPT ![s] = y]
           f(t) == [xact |-> z, avail |-> p.avail, links |-> h, tl |-> t,
                    globalXactId |-> p.globalXactId, fault |-> NULL]
           t1 == TimerDelete(p.tl, x.timerResponse)
           t2 == TimerDelete(t1, x.timerHolding)
<1>1. /\ p \in Lib /\ s \in Slot /\ x \in Xact
      /\ p.xact \in [Slot -> Xact] /\ p.avail \in Seq(Slot)
      /\ p = [xact |-> p.xact, avail |-> p.avail, links |-> p.links, tl |-> p.tl,
              globalXactId |-> p.globalXactId, fault |-> NULL]
  BY LibMembers DEF LibInv, UseOf
<1>2. y \in Xact /\ y.step = 0
  <2>1. 0 \in Ids /\ 0 \in 0 .. 3
    BY CountAssumption DEF Ids
  <2>2. [i \in 0 .. 2 |-> NULL] \in [0 .. 2 -> Types \cup {NULL}]
    OBVIOUS
  <2> DEFINE none == [i \in 0 .. 2 |-> NULL]
  <2> HIDE DEF x, none
  <2>3. y = [x EXCEPT !.origin = "local", !.transactionId = 0, !.step = 0, !.type = none]
    BY DEF none
  <2> HIDE DEF y
  <2>4. QED
    BY ZenonT(60), <1>1, <2>1, <2>2, <2>3 DEF Xact, none
<1> HIDE DEF y
<1>3. removed = f(p.tl)
  <2>1. PICK X, A, H, T, G :
          /\ p = [xact |-> X, avail |-> A, links |-> H, tl |-> T, globalXactId |-> G, fault |-> NULL]
          /\ X \in [Slot -> Xact]
    BY <1>1
  <2>2. removed = [p EXCEPT !.links = h, !.xact[s] = y]
    OBVIOUS
  <2> HIDE DEF h, removed, x
  <2>3. removed = [xact |-> [X EXCEPT ![s] = y], avail |-> A, links |-> h, tl |-> T,
                   globalXactId |-> G, fault |-> NULL]
    BY <2>1, <2>2
  <2>4. p.xact = X /\ p.avail = A /\ p.tl = T /\ p.globalXactId = G
    BY <2>1
  <2>5. QED
    BY <2>3, <2>4
<1>4. x.gnode
  BY <1>1, OneOrigin DEF LibInv, ShapedOf
<1>5. Len(p.avail) < Cardinality(Slot)
  <2>1. Sets(p.xact, z, s, y)
    BY <1>1, <1>2, SetsOne
  <2> HIDE DEF x, z
  <2>2. UseOf(z) = UseOf(p.xact) \ {s}
    BY <1>1, <1>2, <2>1, UseShrinks
  <2>3. QED
    BY <1>1, <2>2, SlotsFree DEF LibInv
<1>6. PfcpXactDelete(p, s) = XactFree(DeleteTimer(DeleteTimer(removed, x.timerResponse), x.timerHolding), s)
  BY <1>4 DEF PfcpXactDelete, y
<1> HIDE DEF x, h, removed, z
<1>7. \A t : XactFree(f(t), s) = [xact |-> z, avail |-> Append(p.avail, s), links |-> h, tl |-> t,
                                  globalXactId |-> p.globalXactId, fault |-> NULL]
  <2> TAKE t
  <2>1. Len(f(t).avail) < Cardinality(Slot)
    BY <1>5
  <2>2. PICK v : v = Append(p.avail, s)
    OBVIOUS
  <2>3. XactFree(f(t), s) = [f(t) EXCEPT !.avail = Append(f(t).avail, s)]
    BY <2>1 DEF XactFree
  <2>4. Append(f(t).avail, s) = v
    BY <2>2
  <2>5. [f(t) EXCEPT !.avail = v] = [xact |-> z, avail |-> v, links |-> h, tl |-> t,
                                     globalXactId |-> p.globalXactId, fault |-> NULL]
    OBVIOUS
  <2>6. QED
    BY <2>2, <2>3, <2>4, <2>5
<1>8. CASE x.origin = "local"
  <2>1. x.timerResponse = NULL /\ x.timerHolding = NULL
    BY <1>8 DEF LibInv, ShapedOf, LocalOf, x
  <2>2. PfcpXactDelete(p, s) = XactFree(f(p.tl), s)
    BY <1>3, <1>6, <2>1 DEF DeleteTimer
  <2>3. QED
    BY <1>2, <1>7, <1>8, <2>2 DEF x, z, h
<1>9. CASE x.origin # "local"
  <2>1. s \in RemoteOf(p.xact)
    BY <1>1, <1>9 DEF x, RemoteOf, Xact
  <2>2. x.timerResponse \in Blk /\ x.timerHolding \in Blk
    BY <2>1, PlacedInBlk DEF LibInv, TimersOf, Accounted, Sound, x
  <2>3. x.timerResponse # NULL /\ x.timerHolding # NULL
    BY <2>2, BlkAssumption
  <2>4. \A t, b : b # NULL => DeleteTimer(f(t), b) = f(TimerDelete(t, b))
    <3> TAKE t, b
    <3> HAVE b # NULL
    <3>1. PICK v : v = TimerDelete(t, b)
      OBVIOUS
    <3>2. DeleteTimer(f(t), b) = [f(t) EXCEPT !.tl = TimerDelete(f(t).tl, b)]
      BY DEF DeleteTimer
    <3>3. f(t).tl = t
      OBVIOUS
    <3>4. [f(t) EXCEPT !.tl = v] = f(v)
      OBVIOUS
    <3>5. QED
      BY <3>1, <3>2, <3>3, <3>4
  <2>5. DeleteTimer(DeleteTimer(removed, x.timerResponse), x.timerHolding) = f(t2)
    BY <1>3, <2>3, <2>4
  <2>6. PfcpXactDelete(p, s) = XactFree(f(t2), s)
    BY <1>6, <2>5
  <2>7. QED
    BY <1>2, <1>7, <1>9, <2>6 DEF x, z, h
<1>10. QED
  BY <1>8, <1>9

(* PfcpXactDelete: the transaction is over, its slot, its place in a list  *)
(* and its timers are given back, and nothing else changes.                *)
LEMMA DeleteLib ==
  ASSUME NEW p, LibInv(p), NEW s \in UseOf(p.xact)
  PROVE  LET u == PfcpXactDelete(p, s)
         IN  /\ LibInv(u) /\ Only(p, u, s)
             /\ UseOf(u.xact) = UseOf(p.xact) \ {s}
             /\ RemoteOf(u.xact) = RemoteOf(p.xact) \ {s} /\ LocalOf(u.xact) = LocalOf(p.xact) \ {s}
             /\ u.globalXactId = p.globalXactId /\ u.tl.blk = p.tl.blk
<1> DEFINE x == p.xact[s]
           u == PfcpXactDelete(p, s)
           t == IF x.origin = "local" THEN p.tl
                ELSE TimerDelete(TimerDelete(p.tl, x.timerResponse), x.timerHolding)
           h == L!ListRemove(p.links, s)
           avail == Append(p.avail, s)
<1>1. PICK y \in Xact :
        /\ y.step = 0
        /\ u = [xact |-> [p.xact EXCEPT ![s] = y], avail |-> avail, links |-> h, tl |-> t,
                globalXactId |-> p.globalXactId, fault |-> NULL]
  BY DeleteForm
<1> HIDE DEF u
<1> DEFINE z == [p.xact EXCEPT ![s] = y]
<1>2. /\ s \in Slot /\ p.xact \in [Slot -> Xact] /\ p.avail \in Seq(Slot) /\ p.links \in L!Heap
      /\ p.tl \in TimerLists(Param) /\ p.globalXactId \in 1 .. PFCP_MAX_XACT_ID
      /\ SlotsOf(p.xact, p.avail) /\ ShapedOf(p.xact) /\ TimersOf(p.xact, p.tl) /\ ListsOf(p.xact, p.links)
  BY LibMembers DEF LibInv, UseOf
<1>3. /\ z \in [Slot -> Xact] /\ z[s] = y /\ \A r \in Slot \ {s} : z[r] = p.xact[r]
      /\ UseOf(z) = UseOf(p.xact) \ {s}
      /\ RemoteOf(z) = RemoteOf(p.xact) \ {s} /\ LocalOf(z) = LocalOf(p.xact) \ {s}
  <2>1. z \in [Slot -> Xact] /\ Sets(p.xact, z, s, y)
    BY <1>1, <1>2, SetsOne
  <2> HIDE DEF z
  <2>2. QED
    BY SMTT(60), <1>1, <1>2, <2>1, UseShrinks DEF Sets
<1>4. /\ u.xact = z /\ u.avail = avail /\ u.links = h /\ u.tl = t
      /\ u.globalXactId = p.globalXactId /\ u.fault = NULL
  BY <1>1
<1>5. u = [xact |-> z, avail |-> avail, links |-> h, tl |-> t,
           globalXactId |-> p.globalXactId, fault |-> NULL]
  BY <1>1
<1>6. /\ UseOf(p.xact) = RemoteOf(p.xact) \cup LocalOf(p.xact)
      /\ RemoteOf(p.xact) \cap LocalOf(p.xact) = {}
      /\ RemoteOf(p.xact) \in SUBSET Slot /\ LocalOf(p.xact) \in SUBSET Slot
  BY <1>2, OneOrigin
<1> HIDE DEF z, avail, h, t
<1>7. avail \in Seq(Slot) /\ SlotsOf(z, avail)
  BY <1>2, <1>3, SlotsFree DEF avail
<1>8. ShapedOf(z)
  BY <1>2, <1>3, <1>6 DEF ShapedOf
<1>9. h \in L!Heap /\ ListsOf(z, h)
  <2>1. CASE s \in LocalOf(p.xact)
    <3>1. RemoteOf(z) = RemoteOf(p.xact)
      BY <1>3, <1>6, <2>1
    <3>2. QED
      BY <1>2, <1>3, <2>1, <3>1, ListsDropLocal DEF h
  <2>2. CASE s \in RemoteOf(p.xact)
    <3>1. LocalOf(z) = LocalOf(p.xact)
      BY <1>3, <1>6, <2>2
    <3>2. QED
      BY <1>2, <1>3, <2>2, <3>1, ListsDropRemote DEF h
  <2>3. QED
    BY <1>6, <2>1, <2>2
<1>10. TimersOf(z, t) /\ t.blk = p.tl.blk
  <2>1. CASE s \in LocalOf(p.xact)
    <3>1. t = p.tl
      BY <2>1 DEF LocalOf, t
    <3>2. RemoteOf(z) = RemoteOf(p.xact) /\ \A r \in RemoteOf(p.xact) : z[r] = p.xact[r]
      BY <1>3, <1>6, <2>1
    <3>3. TimersOf(z, p.tl)
      BY <1>2, <3>2, TimersKeep
    <3>4. QED
      BY <3>1, <3>3
  <2>2. CASE s \in RemoteOf(p.xact)
    <3>1. t = TimerDelete(TimerDelete(p.tl, p.xact[s].timerResponse), p.xact[s].timerHolding)
      BY <2>2 DEF RemoteOf, t
    <3>2. RemoteOf(z) = RemoteOf(p.xact) \ {s} /\ \A r \in RemoteOf(z) : z[r] = p.xact[r]
      BY <1>3, <1>6
    <3>3. PICK X, T : X = p.xact /\ T = p.tl
      OBVIOUS
    <3>4. /\ X \in [Slot -> Xact] /\ TimersOf(X, T) /\ s \in RemoteOf(X)
          /\ RemoteOf(z) = RemoteOf(X) \ {s} /\ \A r \in RemoteOf(z) : z[r] = X[r]
          /\ t = TimerDelete(TimerDelete(T, X[s].timerResponse), X[s].timerHolding)
      BY <1>2, <2>2, <3>1, <3>2, <3>3
    <3>5. TimersOf(z, t) /\ t.blk = T.blk
      BY SMTT(60), <3>4, TimersDelete
    <3>6. QED
      BY <3>3, <3>5
  <2>3. QED
    BY <1>6, <2>1, <2>2
<1>11. t \in TimerLists(Param)
  BY <1>10 DEF TimersOf, Accounted, Sound
<1>12. u \in Lib
  BY <1>2, <1>3, <1>5, <1>7, <1>9, <1>11 DEF Lib
<1>13. LibInv(u)
  BY <1>4, <1>7, <1>8, <1>9, <1>10, <1>12 DEF LibInv
<1>14. QED
  BY <1>3, <1>4, <1>10, <1>13 DEF Only, u

(* A transaction in use changes in its messages, its count, or its step.   *)
Touched(p, u, s, y) ==
  /\ u = [p EXCEPT !.xact = [p.xact EXCEPT ![s] = y]]
  /\ y.origin = p.xact[s].origin /\ y.transactionId = p.xact[s].transactionId
  /\ y.gnode = p.xact[s].gnode
  /\ y.timerResponse = p.xact[s].timerResponse /\ y.timerHolding = p.xact[s].timerHolding
  /\ y.step > 0 /\ (y.origin = "remote" => y.step < 3)

(* Such a change keeps the library sound.                                  *)
LEMMA TouchLib ==
  ASSUME NEW p, LibInv(p), NEW s \in UseOf(p.xact), NEW y \in Xact, NEW u, Touched(p, u, s, y)
  PROVE  /\ LibInv(u) /\ Only(p, u, s) /\ u.xact[s] = y
         /\ UseOf(u.xact) = UseOf(p.xact)
         /\ RemoteOf(u.xact) = RemoteOf(p.xact) /\ LocalOf(u.xact) = LocalOf(p.xact)
         /\ u.globalXactId = p.globalXactId /\ u.tl = p.tl
<1> DEFINE z == [p.xact EXCEPT ![s] = y]
<1>0. /\ u = [p EXCEPT !.xact = z]
      /\ y.origin = p.xact[s].origin /\ y.transactionId = p.xact[s].transactionId
      /\ y.gnode = p.xact[s].gnode
      /\ y.timerResponse = p.xact[s].timerResponse /\ y.timerHolding = p.xact[s].timerHolding
      /\ y.step > 0 /\ (y.origin = "remote" => y.step < 3)
  BY DEF Touched
<1>1. /\ s \in Slot /\ p.xact \in [Slot -> Xact] /\ p.avail \in Seq(Slot) /\ p.links \in L!Heap
      /\ p.tl \in TimerLists(Param) /\ p.globalXactId \in 1 .. PFCP_MAX_XACT_ID /\ p \in Lib
      /\ SlotsOf(p.xact, p.avail) /\ ShapedOf(p.xact) /\ TimersOf(p.xact, p.tl) /\ ListsOf(p.xact, p.links)
  BY LibMembers DEF LibInv, UseOf
<1>2. /\ UseOf(p.xact) = RemoteOf(p.xact) \cup LocalOf(p.xact)
      /\ RemoteOf(p.xact) \cap LocalOf(p.xact) = {}
      /\ RemoteOf(p.xact) \in SUBSET Slot /\ LocalOf(p.xact) \in SUBSET Slot
  BY <1>0, <1>1, OneOrigin
<1>3. /\ z \in [Slot -> Xact] /\ z[s] = y /\ \A r \in Slot \ {s} : z[r] = p.xact[r]
      /\ UseOf(z) = UseOf(p.xact) \cup {s}
      /\ y.origin = "remote" => /\ RemoteOf(z) = RemoteOf(p.xact) \cup {s}
                                /\ LocalOf(z) = LocalOf(p.xact) \ {s}
      /\ y.origin = "local" => /\ RemoteOf(z) = RemoteOf(p.xact) \ {s}
                               /\ LocalOf(z) = LocalOf(p.xact) \cup {s}
  <2>1. z \in [Slot -> Xact] /\ Sets(p.xact, z, s, y)
    BY <1>0, <1>1, SetsOne
  <2> HIDE DEF z
  <2>2. QED
    BY <1>0, <1>1, <2>1, UseGrows DEF Sets
<1>4. /\ UseOf(z) = UseOf(p.xact)
      /\ RemoteOf(z) = RemoteOf(p.xact) /\ LocalOf(z) = LocalOf(p.xact)
  <2> HIDE DEF z
  <2>1. CASE y.origin = "remote"
    <3>1. s \in RemoteOf(p.xact) /\ s \notin LocalOf(p.xact)
      BY <1>0, <1>2, <2>1 DEF RemoteOf
    <3>2. QED
      BY <1>0, <1>3, <2>1, <3>1
  <2>2. CASE y.origin = "local"
    <3>1. s \in LocalOf(p.xact) /\ s \notin RemoteOf(p.xact)
      BY <1>0, <1>2, <2>2 DEF LocalOf
    <3>2. QED
      BY <1>3, <2>2, <3>1
  <2>3. QED
    BY <1>0, <1>3, <2>1, <2>2 DEF Xact
<1>5. /\ u.xact = z /\ u.avail = p.avail /\ u.links = p.links /\ u.tl = p.tl
      /\ u.globalXactId = p.globalXactId /\ u \in Lib
  BY <1>0, <1>1, <1>3 DEF Lib
<1> HIDE DEF z
<1>6. SlotsOf(z, p.avail)
  BY <1>0, <1>1, <1>4 DEF SlotsOf
<1>7. ShapedOf(z)
  <2>1. ASSUME NEW r \in RemoteOf(z) PROVE z[r].gnode /\ z[r].step < 3
    <3>1. CASE r = s
      BY <1>0, <1>1, <1>3, <1>4, <2>1, <3>1 DEF ShapedOf, RemoteOf
    <3>2. CASE r # s
      BY <1>0, <1>1, <1>2, <1>3, <1>4, <2>1, <3>2 DEF ShapedOf
    <3>3. QED
      BY <3>1, <3>2
  <2>2. ASSUME NEW r \in LocalOf(z)
        PROVE  /\ z[r].gnode /\ z[r].transactionId \in 1 .. PFCP_MAX_XACT_ID - 1
               /\ z[r].timerResponse = NULL /\ z[r].timerHolding = NULL
    <3>1. CASE r = s
      BY <1>0, <1>1, <1>3, <1>4, <2>2, <3>1 DEF ShapedOf
    <3>2. CASE r # s
      BY <1>0, <1>1, <1>2, <1>3, <1>4, <2>2, <3>2 DEF ShapedOf
    <3>3. QED
      BY <3>1, <3>2
  <2>3. QED
    BY <2>1, <2>2 DEF ShapedOf
<1>8. TimersOf(z, p.tl)
  <2>1. \A r \in RemoteOf(p.xact) : /\ z[r].timerResponse = p.xact[r].timerResponse
                                    /\ z[r].timerHolding = p.xact[r].timerHolding
    BY <1>0, <1>2, <1>3
  <2>2. QED
    BY <1>0, <1>1, <1>4, <2>1, TimersKeep
<1>9. ListsOf(z, p.links)
  BY <1>0, <1>1, <1>4 DEF ListsOf
<1>10. LibInv(u)
  BY <1>5, <1>6, <1>7, <1>8, <1>9 DEF LibInv
<1>11. QED
  BY <1>3, <1>4, <1>5, <1>10 DEF Only

(* A holding timer is started, or stops. *)
LEMMA RetimeLib ==
  ASSUME NEW p, LibInv(p), NEW s \in RemoteOf(p.xact), NEW t, NEW u, u = [p EXCEPT !.tl = t],
         Sound(t, Param), Placed(t) = Placed(p.tl), t.avail = p.tl.avail,
         KeepsSettings(p.tl, t, p.xact[s].timerHolding)
  PROVE  /\ LibInv(u) /\ u.xact = p.xact /\ u.globalXactId = p.globalXactId /\ u.tl = t
         /\ \A r \in RemoteOf(p.xact) \ {s} :
              t.blk[p.xact[r].timerHolding] = p.tl.blk[p.xact[r].timerHolding]
<1>1. p \in Lib /\ TimersOf(p.xact, p.tl) /\ t \in TimerLists(Param)
  BY DEF LibInv, Sound
<1>2. /\ TimersOf(p.xact, t)
      /\ \A r \in RemoteOf(p.xact) \ {s} :
           t.blk[p.xact[r].timerHolding] = p.tl.blk[p.xact[r].timerHolding]
  BY <1>1, TimersRetime
<1>3. /\ u \in Lib /\ u.xact = p.xact /\ u.avail = p.avail /\ u.links = p.links /\ u.tl = t
      /\ u.globalXactId = p.globalXactId
  BY <1>1 DEF Lib
<1>4. LibInv(u)
  BY <1>2, <1>3 DEF LibInv
<1>5. QED
  BY <1>2, <1>3, <1>4

(* IndexAlloc when there is a slot. *)
LEMMA TakeForm ==
  ASSUME NEW p \in Lib, NEW s \in Slot
  PROVE  XactTake(p, s) =
           [xact |-> [p.xact EXCEPT ![s] = ZeroXact], avail |-> Tail(p.avail),
            links |-> L!ZeroNode(p.links, s), tl |-> p.tl,
            globalXactId |-> p.globalXactId, fault |-> NULL]
<1>1. PICK X, A, H, T, G :
        /\ p = [xact |-> X, avail |-> A, links |-> H, tl |-> T, globalXactId |-> G, fault |-> NULL]
        /\ X \in [Slot -> Xact]
  BY LibMembers
<1>2. PICK a, h, v : a = Tail(A) /\ h = L!ZeroNode(H, s) /\ v = ZeroXact
  OBVIOUS
<1>3. p.xact = X /\ p.avail = A /\ p.links = H /\ p.tl = T /\ p.globalXactId = G
  BY <1>1
<1>4. XactTake(p, s) = [p EXCEPT !.avail = a, !.xact[s] = v, !.links = h]
  BY <1>2, <1>3 DEF XactTake
<1>5. [p EXCEPT !.avail = a, !.xact[s] = v, !.links = h]
        = [xact |-> [X EXCEPT ![s] = v], avail |-> a, links |-> h, tl |-> T,
           globalXactId |-> G, fault |-> NULL]
  <2> DEFINE p1 == [p EXCEPT !.avail = a]
             p2 == [p1 EXCEPT !.xact[s] = v]
  <2>1. p1 = [xact |-> X, avail |-> a, links |-> H, tl |-> T, globalXactId |-> G, fault |-> NULL]
    BY <1>1
  <2> HIDE DEF p1
  <2>2. p2 = [xact |-> [X EXCEPT ![s] = v], avail |-> a, links |-> H, tl |-> T,
              globalXactId |-> G, fault |-> NULL]
    BY <1>1, <2>1
  <2> HIDE DEF p2
  <2>3. [p2 EXCEPT !.links = h] = [xact |-> [X EXCEPT ![s] = v], avail |-> a, links |-> h, tl |-> T,
                                   globalXactId |-> G, fault |-> NULL]
    BY <2>2
  <2>4. QED
    BY <2>3 DEF p1, p2
<1>6. QED
  BY <1>2, <1>3, <1>4, <1>5

(* The next local id is in range, and is the one that was ahead. *)
LEMMA NextIdRange ==
  ASSUME NEW g \in 1 .. PFCP_MAX_XACT_ID
  PROVE  /\ NextXactId(g) \in 1 .. PFCP_MAX_XACT_ID - 1
         /\ NextXactId(g) + 1 \in 1 .. PFCP_MAX_XACT_ID
  BY CountAssumption DEF NextXactId, PFCP_MIN_XACT_ID

(* The globals of the library by their members, while the thread runs. *)
Globals(x, a, h, t, g) ==
  [xact |-> x, avail |-> a, links |-> h, tl |-> t, globalXactId |-> g, fault |-> NULL]

(* A transaction gets its next message, with or without a buffer. *)
Advances(x, y, type) ==
  /\ y.origin = x.origin /\ y.transactionId = x.transactionId /\ y.gnode = x.gnode
  /\ y.timerResponse = x.timerResponse /\ y.timerHolding = x.timerHolding
  /\ y.step = x.step + 1 /\ y.type[x.step] = type

Sent(p, s, n, type) ==
  [p EXCEPT !.xact[s].type[n] = type, !.xact[s].buf[n] = TRUE, !.xact[s].step = @ + 1]
Received(p, s, n, type) == [p EXCEPT !.xact[s].type[n] = type, !.xact[s].step = @ + 1]

CanAdvance(x, a, h, t, g, s, type) ==
  \E y, z \in Xact :
    /\ Advances(x[s], y, type) /\ Advances(x[s], z, type)
    /\ Sent(Globals(x, a, h, t, g), s, x[s].step, type) = Globals([x EXCEPT ![s] = y], a, h, t, g)
    /\ Received(Globals(x, a, h, t, g), s, x[s].step, type) = Globals([x EXCEPT ![s] = z], a, h, t, g)

(* The assignments of an update come to one new transaction.               *)
LEMMA AdvanceForm ==
  ASSUME NEW x \in [Slot -> Xact], NEW a, NEW h, NEW t, NEW g,
         NEW s \in Slot, x[s].step < 3, NEW type \in Types
  PROVE  CanAdvance(x, a, h, t, g, s, type)
<1> DEFINE v == x[s]
           o == v.origin
           id == v.transactionId
           gn == v.gnode
           n == v.step
           ty == v.type
           bu == v.buf
           tr == v.timerResponse
           rc == v.responseReCount
           th == v.timerHolding
           hc == v.holdingReCount
<1>1. /\ v = [origin |-> o, transactionId |-> id, gnode |-> gn, step |-> n, type |-> ty, buf |-> bu,
              timerResponse |-> tr, responseReCount |-> rc, timerHolding |-> th,
              holdingReCount |-> hc]
      /\ o \in {"local", "remote"} /\ id \in Ids /\ gn \in BOOLEAN /\ n \in 0 .. 3
      /\ ty \in [0 .. 2 -> Types \cup {NULL}] /\ bu \in [0 .. 2 -> BOOLEAN]
      /\ tr \in Blk \cup {NULL} /\ rc \in 0 .. 255 /\ th \in Blk \cup {NULL} /\ hc \in 0 .. 255
  <2>1. v \in Xact
    OBVIOUS
  <2> HIDE DEF v
  <2>2. QED
    BY <2>1 DEF Xact
<1>2. n \in 0 .. 2 /\ x[s].step = n /\ x[s] = v
  BY <1>1
<1> HIDE DEF o, id, gn, n, ty, bu, tr, rc, th, hc
<1> DEFINE ty1 == [ty EXCEPT ![n] = type]
           bu1 == [bu EXCEPT ![n] = TRUE]
           X(e, b, m) == [origin |-> o, transactionId |-> id, gnode |-> gn, step |-> m, type |-> e,
                          buf |-> b, timerResponse |-> tr, responseReCount |-> rc,
                          timerHolding |-> th, holdingReCount |-> hc]
           P(y) == [xact |-> [x EXCEPT ![s] = y], avail |-> a, links |-> h, tl |-> t,
                    globalXactId |-> g, fault |-> NULL]
           p == [xact |-> x, avail |-> a, links |-> h, tl |-> t, globalXactId |-> g, fault |-> NULL]
           p1 == [p EXCEPT !.xact[s].type[n] = type]
           p2 == [p1 EXCEPT !.xact[s].buf[n] = TRUE]
<1>3. ty1 \in [0 .. 2 -> Types \cup {NULL}] /\ ty1[n] = type /\ bu1 \in [0 .. 2 -> BOOLEAN]
  BY <1>1, <1>2
<1>4. p1 = P(X(ty1, bu, n))
  <2> HIDE DEF v
  <2>1. p1 = P([v EXCEPT !.type[n] = type])
    BY <1>2
  <2>2. [v EXCEPT !.type[n] = type] = [v EXCEPT !.type = ty1]
    BY DEF ty
  <2> HIDE DEF ty1
  <2>3. [v EXCEPT !.type = ty1] = X(ty1, bu, n)
    BY <1>1
  <2>4. QED
    BY <2>1, <2>2, <2>3
<1> HIDE DEF ty1, bu1, p1
<1>5. p2 = P(X(ty1, bu1, n))
  <2>1. PICK y1 : y1 = X(ty1, bu, n)
    OBVIOUS
  <2>2. p1 = P(y1)
    BY <1>4, <2>1
  <2>3. PICK x1 : x1 = [x EXCEPT ![s] = y1]
    OBVIOUS
  <2>4. x1[s] = y1 /\ \A w : [x1 EXCEPT ![s] = w] = [x EXCEPT ![s] = w]
    BY <2>3
  <2>5. [y1 EXCEPT !.buf[n] = TRUE] = [y1 EXCEPT !.buf = bu1]
    BY <2>1 DEF bu1
  <2>6. [y1 EXCEPT !.buf = bu1] = X(ty1, bu1, n)
    BY <2>1
  <2>7. p1 = [xact |-> x1, avail |-> a, links |-> h, tl |-> t, globalXactId |-> g, fault |-> NULL]
    BY <2>2, <2>3
  <2>8. p2 = [xact |-> [x1 EXCEPT ![s] = [y1 EXCEPT !.buf[n] = TRUE]], avail |-> a, links |-> h,
              tl |-> t, globalXactId |-> g, fault |-> NULL]
    <3>1. p1.xact = x1 /\ p1.xact[s] = y1
      BY <2>4, <2>7
    <3>2. p2 = [p1 EXCEPT !.xact = [x1 EXCEPT ![s] = [y1 EXCEPT !.buf[n] = TRUE]]]
      BY <3>1 DEF p2
    <3>3. PICK w : w = [x1 EXCEPT ![s] = [y1 EXCEPT !.buf[n] = TRUE]]
      OBVIOUS
    <3>4. [p1 EXCEPT !.xact = w] = [xact |-> w, avail |-> a, links |-> h, tl |-> t,
                                    globalXactId |-> g, fault |-> NULL]
      BY <2>7
    <3>5. QED
      BY <3>2, <3>3, <3>4
  <2>9. QED
    BY ZenonT(60), <2>4, <2>5, <2>6, <2>8
<1> HIDE DEF p2
<1>6. [p2 EXCEPT !.xact[s].step = n + 1] = P(X(ty1, bu1, n + 1))
  <2>1. PICK y1 : y1 = X(ty1, bu1, n)
    OBVIOUS
  <2>2. p2 = P(y1)
    BY <1>5, <2>1
  <2>3. [p2 EXCEPT !.xact[s].step = n + 1] = P([y1 EXCEPT !.step = n + 1])
    BY <2>2
  <2>4. [y1 EXCEPT !.step = n + 1] = X(ty1, bu1, n + 1)
    BY <2>1
  <2>5. QED
    BY <2>3, <2>4
<1>7. [p1 EXCEPT !.xact[s].step = n + 1] = P(X(ty1, bu, n + 1))
  <2>1. PICK y1 : y1 = X(ty1, bu, n)
    OBVIOUS
  <2>2. p1 = P(y1)
    BY <1>4, <2>1
  <2>3. [p1 EXCEPT !.xact[s].step = n + 1] = P([y1 EXCEPT !.step = n + 1])
    BY <2>2
  <2>4. [y1 EXCEPT !.step = n + 1] = X(ty1, bu, n + 1)
    BY <2>1
  <2>5. QED
    BY <2>3, <2>4
<1> DEFINE y == X(ty1, bu1, n + 1)
           z == X(ty1, bu, n + 1)
<1>8. y \in Xact /\ z \in Xact
  BY <1>1, <1>2, <1>3 DEF Xact
<1>9. Advances(v, y, type) /\ Advances(v, z, type)
  <2> HIDE DEF v
  <2>1. QED
    BY <1>1, <1>3 DEF Advances, o, id, gn, tr, th, n
<1>10. /\ Sent(Globals(x, a, h, t, g), s, n, type) = Globals([x EXCEPT ![s] = y], a, h, t, g)
       /\ Received(Globals(x, a, h, t, g), s, n, type) = Globals([x EXCEPT ![s] = z], a, h, t, g)
  <2> HIDE DEF X
  <2>1. p = Globals(x, a, h, t, g) /\ P(y) = Globals([x EXCEPT ![s] = y], a, h, t, g)
        /\ P(z) = Globals([x EXCEPT ![s] = z], a, h, t, g)
    BY DEF Globals
  <2>2. p.xact[s].step = n
    BY <1>2 DEF p
  <2> HIDE DEF p, P
  <2>3. Sent(p, s, n, type) = P(y) /\ Received(p, s, n, type) = P(z)
    BY <1>6, <1>7, <2>2 DEF p1, p2, Sent, Received
  <2>4. QED
    BY <2>1, <2>3
<1> HIDE DEF y, z
<1>11. QED
  BY <1>2, <1>8, <1>9, <1>10 DEF CanAdvance

TxAdvances(x, a, h, t, g, s, type) ==
  \E y \in Xact :
    /\ Advances(x[s], y, type)
    /\ PfcpXactUpdateTx(Globals(x, a, h, t, g), s, type, TRUE) =
         [ret |-> "OK", pf |-> Globals([x EXCEPT ![s] = y], a, h, t, g)]
RxAdvances(x, a, h, t, g, s, type, now, u) ==
  \E y \in Xact :
    /\ Advances(x[s], y, type)
    /\ PfcpXactUpdateRx(Globals(x, a, h, t, g), s, type, now) =
         [ret |-> "OK", pf |-> Globals([x EXCEPT ![s] = y], a, h, u, g)]

(* PfcpXactUpdateTx of a message that fits and finds a buffer. *)
LEMMA UpdateTxForm ==
  ASSUME NEW x \in [Slot -> Xact], NEW a, NEW h, NEW t, NEW g,
         NEW s \in Slot, NEW type \in Types, x[s].gnode, TxFits(x[s], type)
  PROVE  TxAdvances(x, a, h, t, g, s, type)
<1> DEFINE p == Globals(x, a, h, t, g)
<1>1. x[s].step < 3
  BY DEF TxFits
<1>2. PICK y \in Xact :
        /\ Advances(x[s], y, type)
        /\ Sent(p, s, x[s].step, type) = Globals([x EXCEPT ![s] = y], a, h, t, g)
  <2>1. CanAdvance(x, a, h, t, g, s, type)
    BY <1>1, AdvanceForm
  <2>2. QED
    BY <2>1 DEF CanAdvance
<1>3. p.xact[s] = x[s]
  BY DEF Globals
<1> HIDE DEF p
<1>4. PfcpXactUpdateTx(p, s, type, TRUE) =
        [ret |-> "OK", pf |-> Sent(p, s, x[s].step, type)]
  BY <1>3 DEF PfcpXactUpdateTx, Sent
<1>5. QED
  BY <1>2, <1>4 DEF p, TxAdvances

(* PfcpXactUpdateRx of a message that fits, for a transaction whose        *)
(* response timer does not run: u are the timers after it.                 *)
LEMMA UpdateRxForm ==
  ASSUME NEW x \in [Slot -> Xact], NEW a, NEW h, NEW t, NEW g,
         NEW s \in Slot, NEW type \in Types, RxFits(x[s], type), NEW now, NEW u,
         \/ x[s].origin = "local" /\ u = t
         \/ /\ x[s].origin = "remote" /\ type \in Requests /\ x[s].timerHolding # NULL
            /\ u = TimerStart(t, x[s].timerHolding, now),
         x[s].timerResponse # NULL => ~u.blk[x[s].timerResponse].isRunning
  PROVE  RxAdvances(x, a, h, t, g, s, type, now, u)
<1> DEFINE p == Globals(x, a, h, t, g)
           held == IF x[s].origin = "remote" /\ PfcpXactGetStage(type) = "INITIAL"
                   THEN StartTimer(p, x[s].timerHolding, now) ELSE p
           stopped == StopTimer(held, x[s].timerResponse)
<1>1. x[s].step < 3
  BY DEF RxFits
<1>2. PICK y \in Xact :
        /\ Advances(x[s], y, type)
        /\ Received(Globals(x, a, h, u, g), s, x[s].step, type) = Globals([x EXCEPT ![s] = y], a, h, u, g)
  <2>1. CanAdvance(x, a, h, u, g, s, type)
    BY <1>1, AdvanceForm
  <2>2. QED
    BY <2>1 DEF CanAdvance
<1>3. p.xact[s] = x[s]
  BY DEF Globals
<1>4. held = Globals(x, a, h, u, g)
  <2>1. CASE x[s].origin = "local" /\ u = t
    BY <2>1
  <2>2. CASE /\ x[s].origin = "remote" /\ type \in Requests /\ x[s].timerHolding # NULL
             /\ u = TimerStart(t, x[s].timerHolding, now)
    <3>1. PfcpXactGetStage(type) = "INITIAL"
      BY <2>2 DEF PfcpXactGetStage
    <3>2. p.tl = t
      BY DEF Globals
    <3>3. [p EXCEPT !.tl = u] = Globals(x, a, h, u, g)
      BY DEF Globals
    <3> HIDE DEF p
    <3>4. StartTimer(p, x[s].timerHolding, now) = [p EXCEPT !.tl = u]
      BY <2>2, <3>2 DEF StartTimer
    <3>5. QED
      BY <2>2, <3>1, <3>3, <3>4
  <2>3. QED
    BY <2>1, <2>2
<1>5. stopped = Globals(x, a, h, u, g)
  <2>1. CASE x[s].timerResponse = NULL
    BY <1>4, <2>1 DEF StopTimer
  <2>2. CASE x[s].timerResponse # NULL
    <3>1. PICK q : q = Globals(x, a, h, u, g)
      OBVIOUS
    <3>2. q.tl = u /\ [q EXCEPT !.tl = u] = q
      BY <3>1 DEF Globals
    <3>3. TimerStop(u, x[s].timerResponse) = u
      BY <2>2 DEF TimerStop
    <3>4. StopTimer(q, x[s].timerResponse) = q
      BY <2>2, <3>2, <3>3 DEF StopTimer
    <3>5. QED
      BY <1>4, <3>1, <3>4
  <2>3. QED
    BY <2>1, <2>2
<1>6. ~IsDuplicate(x[s], type)
  BY DEF IsDuplicate, RxFits
<1> HIDE DEF p
<1>7. PfcpXactUpdateRx(p, s, type, now) =
        [ret |-> "OK", pf |-> Received(stopped, s, x[s].step, type)]
  BY <1>3, <1>6 DEF PfcpXactUpdateRx, Received
<1>8. QED
  BY <1>2, <1>5, <1>7 DEF p, RxAdvances

(* What HandleReport makes of the globals. *)
Report(p, now) ==
  LET made == PfcpXactLocalCreate(p, "SESSION_REPORT_REQUEST", TRUE)
  IN  IF made.xact = NULL THEN made.pf ELSE PfcpXactCommit(made.pf, made.xact, now)

(* The transaction of a report that was sent. *)
IsReport(y, id) ==
  /\ y.origin = "local" /\ y.transactionId = id /\ y.gnode /\ y.step = 1
  /\ y.timerResponse = NULL /\ y.timerHolding = NULL

(* PfcpXactLocalCreate with a slot left, and PfcpXactCommit. *)
LEMMA ReportForm ==
  ASSUME NEW p \in Lib, p.avail # << >>, NEW now
  PROVE  LET s == Head(p.avail)
             id == NextXactId(p.globalXactId)
         IN  \E y \in Xact :
               /\ IsReport(y, id)
               /\ Report(p, now) = Globals([p.xact EXCEPT ![s] = y], Tail(p.avail),
                                           L!ListInsert(L!ZeroNode(p.links, s), s, localList),
                                           p.tl, id + 1)
<1> DEFINE type == "SESSION_REPORT_REQUEST"
           s == Head(p.avail)
           id == NextXactId(p.globalXactId)
           h == L!ListInsert(L!ZeroNode(p.links, s), s, localList)
           none == [i \in 0 .. 2 |-> NULL]
           no == [i \in 0 .. 2 |-> FALSE]
           x == [origin |-> "local", transactionId |-> id, gnode |-> TRUE, step |-> 0,
                 type |-> none, buf |-> no,
                 timerResponse |-> NULL, responseReCount |-> 0, timerHolding |-> NULL,
                 holdingReCount |-> 0]
           X == [p.xact EXCEPT ![s] = x]
           taken == XactTake(p, s)
           made == [taken EXCEPT !.xact[s] = [@ EXCEPT !.transactionId = id, !.gnode = TRUE],
                                 !.globalXactId = id + 1,
                                 !.links = L!ListInsert(@, s, localList)]
           tx == PfcpXactUpdateTx(made, s, type, TRUE)
           m == PfcpXactLocalCreate(p, type, TRUE)
<1>1. /\ p.xact \in [Slot -> Xact] /\ p.avail \in Seq(Slot) /\ s \in Slot
      /\ p.globalXactId \in 1 .. PFCP_MAX_XACT_ID
  BY LibMembers, HeadTailSet
<1>2. s # NULL /\ XactAlloc(p) = s
  BY <1>1, HeadsAssumption DEF XactAlloc
<1>3. id \in 1 .. PFCP_MAX_XACT_ID - 1
  BY <1>1, NextIdRange
<1>4. m = IF tx.ret = "OK" THEN [xact |-> s, pf |-> tx.pf] ELSE [xact |-> NULL, pf |-> XactFree(tx.pf, s)]
  BY <1>2 DEF PfcpXactLocalCreate
<1> HIDE DEF s, id, m
<1>5. made = Globals(X, Tail(p.avail), h, p.tl, id + 1)
  <2>1. PICK Z, A, H, T, G : Z = p.xact /\ A = Tail(p.avail) /\ H = L!ZeroNode(p.links, s) /\ T = p.tl
                             /\ G = p.globalXactId
    OBVIOUS
  <2>2. taken = [xact |-> [Z EXCEPT ![s] = ZeroXact], avail |-> A, links |-> H, tl |-> T,
                 globalXactId |-> G, fault |-> NULL]
    BY <1>1, <2>1, TakeForm
  <2>3. L!ListInsert(taken.links, s, localList) = h /\ taken.xact[s] = ZeroXact
    BY <1>1, <2>1, <2>2
  <2>4. x = [ZeroXact EXCEPT !.transactionId = id, !.gnode = TRUE]
    BY SMTT(60) DEF ZeroXact
  <2>5. made = [taken EXCEPT !.xact[s] = x, !.globalXactId = id + 1, !.links = h]
    BY <2>3, <2>4
  <2> HIDE DEF taken, made, h, x
  <2>6. made = [xact |-> [Z EXCEPT ![s] = x], avail |-> A, links |-> h, tl |-> T,
                globalXactId |-> id + 1, fault |-> NULL]
    BY <1>1, <2>1, <2>2, <2>5
  <2>7. QED
    BY <2>1, <2>6 DEF Globals
<1> HIDE DEF made
<1>6. /\ type \in Requests /\ type \in Types
      /\ PfcpXactGetStage(type) = "INITIAL"
  BY DEF Requests, PfcpXactGetStage, Types
<1>7. x \in Xact
  <2>1. id \in Ids /\ 1 \in 0 .. 3 /\ 0 \in 0 .. 255
    BY <1>3, CountAssumption DEF Ids
  <2>2. none \in [0 .. 2 -> Types \cup {NULL}] /\ no \in [0 .. 2 -> BOOLEAN]
    OBVIOUS
  <2> HIDE DEF none, no
  <2>3. QED
    BY <2>1, <2>2 DEF Xact
<1>8. /\ x.origin = "local" /\ x.transactionId = id /\ x.gnode /\ x.step = 0
      /\ x.timerResponse = NULL /\ x.timerHolding = NULL
  OBVIOUS
<1> HIDE DEF x, h, type
<1>9. X \in [Slot -> Xact] /\ X[s] = x /\ TxFits(x, type)
  BY <1>1, <1>6, <1>7, <1>8 DEF TxFits
<1>10. \A y : [X EXCEPT ![s] = y] = [p.xact EXCEPT ![s] = y]
  BY <1>1
<1> HIDE DEF X
<1>11. PICK y \in Xact :
         /\ Advances(x, y, type)
         /\ tx = [ret |-> "OK", pf |-> Globals([X EXCEPT ![s] = y], Tail(p.avail), h, p.tl, id + 1)]
  <2>1. X[s].gnode /\ TxFits(X[s], type)
    BY <1>8, <1>9
  <2>2. TxAdvances(X, Tail(p.avail), h, p.tl, id + 1, s, type)
    BY <1>1, <1>6, <1>9, <2>1, UpdateTxForm
  <2>3. QED
    BY <1>5, <1>9, <2>2 DEF TxAdvances
<1> HIDE DEF tx
<1>12. PICK u : u = Globals([p.xact EXCEPT ![s] = y], Tail(p.avail), h, p.tl, id + 1)
  OBVIOUS
<1>13. m.xact = s /\ m.pf = u
  BY <1>4, <1>10, <1>11, <1>12
<1>14. IsReport(y, id) /\ y.type[y.step - 1] = type
  BY <1>8, <1>11 DEF Advances, IsReport
<1>15. u.xact[s] = y
  BY <1>1, <1>12 DEF Globals
<1>16. PfcpXactCommit(u, s, now) = u
  BY <1>6, <1>14, <1>15 DEF PfcpXactCommit, StartTimer, CommitEnds, IsReport
<1>17. Report(p, now) = u
  <2>1. Report(p, now) = IF m.xact = NULL THEN m.pf ELSE PfcpXactCommit(m.pf, m.xact, now)
    BY DEF Report, m, type
  <2>2. QED
    BY <1>2, <1>13, <1>16, <2>1
<1>18. QED
  BY <1>12, <1>14, <1>17 DEF s, id, h

(* Without a slot nothing happens. *)
LEMMA NoReport == ASSUME NEW p, p.avail = << >>, NEW now PROVE Report(p, now) = p
  BY DEF Report, PfcpXactLocalCreate, XactAlloc

(* A report takes a free slot and the next id, and changes nothing else.   *)
LEMMA ReportLib ==
  ASSUME NEW p, LibInv(p), p.avail # << >>, NEW now
  PROVE  LET s == Head(p.avail)
             id == NextXactId(p.globalXactId)
             u == Report(p, now)
         IN  /\ LibInv(u) /\ Only(p, u, s) /\ s \in Slot \ UseOf(p.xact)
             /\ IsReport(u.xact[s], id)
             /\ RemoteOf(u.xact) = RemoteOf(p.xact) /\ LocalOf(u.xact) = LocalOf(p.xact) \cup {s}
             /\ u.globalXactId = id + 1 /\ u.tl = p.tl
<1> DEFINE s == Head(p.avail)
           id == NextXactId(p.globalXactId)
           u == Report(p, now)
           h == L!ListInsert(L!ZeroNode(p.links, s), s, localList)
<1>1. /\ p.xact \in [Slot -> Xact] /\ p.avail \in Seq(Slot) /\ p.links \in L!Heap
      /\ p.tl \in TimerLists(Param) /\ p.globalXactId \in 1 .. PFCP_MAX_XACT_ID /\ p \in Lib
      /\ SlotsOf(p.xact, p.avail) /\ ShapedOf(p.xact) /\ TimersOf(p.xact, p.tl) /\ ListsOf(p.xact, p.links)
  BY LibMembers DEF LibInv
<1>2. PICK y \in Xact :
        IsReport(y, id) /\ u = Globals([p.xact EXCEPT ![s] = y], Tail(p.avail), h, p.tl, id + 1)
  BY <1>1, ReportForm
<1> DEFINE z == [p.xact EXCEPT ![s] = y]
<1>3. s \in Slot
  BY <1>1, HeadTailSet
<1>4. id \in 1 .. PFCP_MAX_XACT_ID - 1 /\ id + 1 \in 1 .. PFCP_MAX_XACT_ID
  BY <1>1, NextIdRange
<1> HIDE DEF u, id
<1>5. u.xact = z /\ u.avail = Tail(p.avail) /\ u.links = h /\ u.tl = p.tl /\ u.globalXactId = id + 1
  BY <1>2 DEF Globals
<1> HIDE DEF s
<1>6. z \in [Slot -> Xact] /\ Sets(p.xact, z, s, y)
  BY <1>1, <1>3, SetsOne
<1> HIDE DEF z
<1>7. /\ UseOf(z) = UseOf(p.xact) \cup {s}
      /\ RemoteOf(z) = RemoteOf(p.xact) \ {s} /\ LocalOf(z) = LocalOf(p.xact) \cup {s}
  <2>1. y.step > 0 /\ y.origin = "local"
    BY <1>2 DEF IsReport
  <2>2. QED
    BY <1>3, <1>6, <2>1, UseGrows
<1>8. /\ s \in Slot \ UseOf(p.xact) /\ Tail(p.avail) \in Seq(Slot) /\ SlotsOf(z, Tail(p.avail))
  BY <1>1, <1>7, SlotsTake DEF s
<1>9. RemoteOf(z) = RemoteOf(p.xact)
  BY <1>7, <1>8 DEF RemoteOf
<1>10. h \in L!Heap /\ ListsOf(z, h)
  BY <1>1, <1>7, <1>8, <1>9, ListsAddLocal
<1>11. TimersOf(z, p.tl)
  <2>1. \A r \in RemoteOf(p.xact) : /\ z[r].timerResponse = p.xact[r].timerResponse
                                    /\ z[r].timerHolding = p.xact[r].timerHolding
    BY <1>6, <1>8 DEF Sets, RemoteOf, UseOf
  <2>2. QED
    BY <1>1, <1>9, <2>1, TimersKeep
<1>12. ShapedOf(z)
  <2>1. ASSUME NEW r \in RemoteOf(z) PROVE z[r].gnode /\ z[r].step < 3
    BY <1>1, <1>6, <1>8, <1>9 DEF ShapedOf, Sets, RemoteOf, UseOf
  <2>2. ASSUME NEW r \in LocalOf(z)
        PROVE  /\ z[r].gnode /\ z[r].transactionId \in 1 .. PFCP_MAX_XACT_ID - 1
               /\ z[r].timerResponse = NULL /\ z[r].timerHolding = NULL
    <3>1. CASE r = s
      BY <1>2, <1>4, <1>6, <3>1 DEF IsReport, Sets
    <3>2. CASE r # s
      BY <1>1, <1>6, <1>7, <3>2 DEF ShapedOf, Sets, LocalOf, UseOf
    <3>3. QED
      BY <3>1, <3>2
  <2>3. QED
    BY <2>1, <2>2 DEF ShapedOf
<1> HIDE DEF h
<1>13. u \in Lib
  BY <1>1, <1>2, <1>4, <1>6, <1>8, <1>10 DEF Lib, Globals, z
<1>14. LibInv(u)
  BY <1>5, <1>8, <1>10, <1>11, <1>12, <1>13 DEF LibInv
<1>15. Only(p, u, s) /\ IsReport(u.xact[s], id)
  BY <1>2, <1>5, <1>6 DEF Only, Sets
<1>16. QED
  BY <1>5, <1>7, <1>8, <1>9, <1>14, <1>15 DEF u, id, s

(* A remote transaction as PfcpXactRemoteCreate makes it, with its timers. *)
IsRemote(y, id, a, b) ==
  /\ y.origin = "remote" /\ y.transactionId = id /\ y.gnode
  /\ y.timerResponse = a /\ y.timerHolding = b
FirstTimer(p) == TimerAlloc(p.tl)
OneTimer(p, s) == EventTimerCreate(p.tl, "T3_RESPONSE", s)
SecondTimer(p, s) == TimerAlloc(OneTimer(p, s))
TwoTimers(p, s) == EventTimerCreate(OneTimer(p, s), "T3_HOLDING", s)
LinkRemote(h, s) == L!ListInsert(L!ListHeadInit(L!ZeroNode(h, s), remoteList), s, remoteList)

(* The members of a transaction. *)
Members(o, i, g, n, ty, bu, tr, rc, th, hc) ==
  [origin |-> o, transactionId |-> i, gnode |-> g, step |-> n, type |-> ty, buf |-> bu,
   timerResponse |-> tr, responseReCount |-> rc, timerHolding |-> th, holdingReCount |-> hc]

(* PfcpXactRemoteCreate with a slot and two timers left. *)
LEMMA RemoteForm ==
  ASSUME NEW p \in Lib, p.avail # << >>, NEW id \in Ids, NEW s, s = Head(p.avail),
         FirstTimer(p) \in Blk, SecondTimer(p, s) \in Blk
  PROVE  \E y \in Xact :
           /\ IsRemote(y, id, FirstTimer(p), SecondTimer(p, s)) /\ y.step = 0 /\ y.type[0] = NULL
           /\ PfcpXactRemoteCreate(p, id) =
                [xact |-> s,
                 pf |-> Globals([p.xact EXCEPT ![s] = y], Tail(p.avail), LinkRemote(p.links, s),
                                TwoTimers(p, s), p.globalXactId)]
<1> DEFINE h == LinkRemote(p.links, s)
           a == FirstTimer(p)
           b == SecondTimer(p, s)
           u == TwoTimers(p, s)
           R == PFCP_T3_RESPONSE_RETRY_COUNT
           D == PFCP_T3_DUPLICATED_RETRY_COUNT
           x == [ZeroXact EXCEPT !.origin = "remote", !.transactionId = id, !.gnode = TRUE,
                                 !.timerResponse = a, !.timerHolding = b,
                                 !.responseReCount = R, !.holdingReCount = D]
           taken == XactTake(p, s)
           made == [taken EXCEPT
                      !.xact[s] = [@ EXCEPT !.origin = "remote", !.transactionId = id, !.gnode = TRUE,
                                            !.timerResponse = a, !.timerHolding = b,
                                            !.responseReCount = R, !.holdingReCount = D],
                      !.tl = u,
                      !.links = L!ListInsert(L!ListHeadInit(@, remoteList), s, remoteList)]
<1>1. /\ p.xact \in [Slot -> Xact] /\ p.avail \in Seq(Slot) /\ s \in Slot
      /\ p.globalXactId \in 1 .. PFCP_MAX_XACT_ID
  BY LibMembers, HeadTailSet
<1>2. s # NULL /\ XactAlloc(p) = s
  BY <1>1, HeadsAssumption DEF XactAlloc
<1>3. a # NULL /\ b # NULL
  BY BlkAssumption
<1>4. PfcpXactRemoteCreate(p, id) = [xact |-> s, pf |-> made]
  BY <1>2, <1>3 DEF PfcpXactRemoteCreate, FirstTimer, SecondTimer, OneTimer, TwoTimers
<1> HIDE DEF a, b, u, R, D
<1>5. made = Globals([p.xact EXCEPT ![s] = x], Tail(p.avail), h, u, p.globalXactId)
  <2>1. PICK Z, A, H, T, G : Z = p.xact /\ A = Tail(p.avail) /\ H = L!ZeroNode(p.links, s) /\ T = p.tl
                             /\ G = p.globalXactId
    OBVIOUS
  <2>2. taken = [xact |-> [Z EXCEPT ![s] = ZeroXact], avail |-> A, links |-> H, tl |-> T,
                 globalXactId |-> G, fault |-> NULL]
    BY <1>1, <2>1, TakeForm
  <2>3. /\ L!ListInsert(L!ListHeadInit(taken.links, remoteList), s, remoteList) = h
        /\ taken.xact[s] = ZeroXact
    BY <1>1, <2>1, <2>2 DEF LinkRemote
  <2>5. made = [taken EXCEPT !.xact[s] = x, !.tl = u, !.links = h]
    BY <2>3
  <2> HIDE DEF taken, made, h, x
  <2>6. made = [xact |-> [Z EXCEPT ![s] = x], avail |-> A, links |-> h, tl |-> u,
                globalXactId |-> G, fault |-> NULL]
    BY <1>1, <2>1, <2>2, <2>5
  <2>7. QED
    BY <2>1, <2>6 DEF Globals
<1>6. PICK none \in [0 .. 2 -> Types \cup {NULL}], no \in [0 .. 2 -> BOOLEAN] :
        /\ none[0] = NULL
        /\ ZeroXact = Members("local", 0, FALSE, 0, none, no, NULL, 0, NULL, 0)
  <2> DEFINE ty == [i \in 0 .. 2 |-> NULL]
             bu == [i \in 0 .. 2 |-> FALSE]
  <2>1. ty \in [0 .. 2 -> Types \cup {NULL}] /\ ty[0] = NULL /\ bu \in [0 .. 2 -> BOOLEAN]
    OBVIOUS
  <2>2. ZeroXact = Members("local", 0, FALSE, 0, ty, bu, NULL, 0, NULL, 0)
    BY DEF ZeroXact, Members
  <2> HIDE DEF ty, bu
  <2>3. QED
    BY <2>1, <2>2
<1>7. /\ x \in Xact /\ IsRemote(x, id, a, b) /\ x.step = 0 /\ x.type[0] = NULL
  <2>1. R \in 0 .. 255 /\ D \in 0 .. 255 /\ a \in Blk /\ b \in Blk
    BY CountAssumption DEF a, b, R, D
  <2>2. x = Members("remote", id, TRUE, 0, none, no, a, R, b, D)
    <3>1. PICK o, l, z, f, t : o = "remote" /\ l = "local" /\ z = 0 /\ f = FALSE /\ t = TRUE
      OBVIOUS
    <3> DEFINE x0 == Members(l, z, f, z, none, no, NULL, z, NULL, z)
               x4 == [x0 EXCEPT !.origin = o, !.transactionId = id, !.gnode = t, !.timerResponse = a]
               x7 == [x4 EXCEPT !.timerHolding = b, !.responseReCount = R, !.holdingReCount = D]
    <3>2. x4 = Members(o, id, t, z, none, no, a, z, NULL, z)
      <4>1. [x0 EXCEPT !.origin = o] = Members(o, z, f, z, none, no, NULL, z, NULL, z)
        BY DEF Members
      <4>2. [Members(o, z, f, z, none, no, NULL, z, NULL, z) EXCEPT !.transactionId = id]
              = Members(o, id, f, z, none, no, NULL, z, NULL, z)
        BY DEF Members
      <4>3. [Members(o, id, f, z, none, no, NULL, z, NULL, z) EXCEPT !.gnode = t]
              = Members(o, id, t, z, none, no, NULL, z, NULL, z)
        BY DEF Members
      <4>4. [Members(o, id, t, z, none, no, NULL, z, NULL, z) EXCEPT !.timerResponse = a]
              = Members(o, id, t, z, none, no, a, z, NULL, z)
        BY DEF Members
      <4>5. QED
        BY <4>1, <4>2, <4>3, <4>4
    <3> HIDE DEF x4
    <3>3. x7 = Members(o, id, t, z, none, no, a, R, b, D)
      <4>1. [x4 EXCEPT !.timerHolding = b] = Members(o, id, t, z, none, no, a, z, b, z)
        BY <3>2 DEF Members
      <4>2. [Members(o, id, t, z, none, no, a, z, b, z) EXCEPT !.responseReCount = R]
              = Members(o, id, t, z, none, no, a, R, b, z)
        BY DEF Members
      <4>3. [Members(o, id, t, z, none, no, a, R, b, z) EXCEPT !.holdingReCount = D]
              = Members(o, id, t, z, none, no, a, R, b, D)
        BY DEF Members
      <4>4. QED
        BY <4>1, <4>2, <4>3
    <3> HIDE DEF x0
    <3>4. x0 = ZeroXact
      BY <1>6, <3>1 DEF x0
    <3>5. x = x7
      BY <3>1, <3>4 DEF x4
    <3> HIDE DEF x, x7
    <3>6. QED
      BY <3>1, <3>3, <3>5
  <2> HIDE DEF x
  <2>3. x \in Xact
    BY <1>6, <2>1, <2>2 DEF Xact, Members
  <2>4. QED
    BY <1>6, <2>2, <2>3 DEF IsRemote, Members
<1> HIDE DEF x, made
<1>8. QED
  BY <1>4, <1>5, <1>7 DEF a, b, u, h

(* A request of an id that no remote transaction has gets a new one. *)
LEMMA FindNone ==
  ASSUME NEW p, LibInv(p), NEW type \in Requests, NEW id,
         \A s \in RemoteOf(p.xact) : p.xact[s].transactionId # id
  PROVE  LET f == PfcpXactFindByTransactionId(p, type, id) IN f.ends /\ f.xact = NULL
<1>1. ListOf(type, id) = remoteList /\ type \in Types
  BY DEF ListOf, PfcpXactGetStage, Types
<1>2. /\ RemoteLinked(p.links, RemoteOf(p.xact)) /\ RemoteOf(p.xact) \in SUBSET Slot
  BY DEF LibInv, ListsOf, RemoteOf, UseOf
<1>3. PICK q \in Seq(Slot) :
        IsInjective(q) /\ ToSet(q) \subseteq RemoteOf(p.xact) /\ LinkedAs(p.links, remoteList, q)
  BY <1>2, RemoteSeq
<1> DEFINE f == PfcpXactFindByTransactionId(p, type, id)
<1>4. LinkedAs(p.links, ListOf(type, id), q)
  BY <1>1, <1>3
<1>5. /\ f.ends
      /\ \/ f.xact = NULL /\ \A s \in ToSet(q) : p.xact[s].transactionId # id
         \/ f.xact \in ToSet(q) /\ p.xact[f.xact].transactionId = id
  BY ZenonT(60), <1>1, <1>3, <1>4, FindLinked
<1> HIDE DEF f
<1>6. f.ends /\ f.xact = NULL
  BY <1>3, <1>5
<1>7. QED
  BY <1>6 DEF f

(* A request takes a free slot and two timers, and changes nothing else.   *)
LEMMA ReceiveLib ==
  ASSUME RoomForTimers, NEW p, LibInv(p), p.avail # << >>,
         NEW type \in Requests, NEW id \in Ids, NEW now \in Nat,
         \A s \in RemoteOf(p.xact) : p.xact[s].transactionId # id
  PROVE  LET s == Head(p.avail)
             rx == PfcpXactReceive(p, type, id, now)
             u == rx.pf
         IN  /\ rx.xact = s /\ s \in Slot \ UseOf(p.xact)
             /\ LibInv(u) /\ Only(p, u, s)
             /\ u.xact[s].transactionId = id /\ u.xact[s].step = 1 /\ u.xact[s].origin = "remote"
             /\ RemoteOf(u.xact) = RemoteOf(p.xact) \cup {s} /\ LocalOf(u.xact) = LocalOf(p.xact)
             /\ u.globalXactId = p.globalXactId
             /\ \A r \in RemoteOf(p.xact) :
                  u.tl.blk[p.xact[r].timerHolding] = p.tl.blk[p.xact[r].timerHolding]
<1> DEFINE s == Head(p.avail)
           a == FirstTimer(p)
           b == SecondTimer(p, s)
           t == TwoTimers(p, s)
           v == TimerStart(t, b, now)
           h == LinkRemote(p.links, s)
           q == Tail(p.avail)
           g == p.globalXactId
           rx == PfcpXactReceive(p, type, id, now)
           u == rx.pf
<1>1. /\ p.xact \in [Slot -> Xact] /\ p.avail \in Seq(Slot) /\ p.links \in L!Heap
      /\ p.tl \in TimerLists(Param) /\ p.globalXactId \in 1 .. PFCP_MAX_XACT_ID /\ p \in Lib
      /\ SlotsOf(p.xact, p.avail) /\ ShapedOf(p.xact) /\ TimersOf(p.xact, p.tl) /\ ListsOf(p.xact, p.links)
  BY LibMembers DEF LibInv
<1>2. s \in Slot \ UseOf(p.xact)
  BY <1>1, HeadTailSet DEF SlotsOf
<1>3. /\ a \in Blk /\ a # NULL /\ b \in Blk /\ b # NULL
      /\ \A c \in Placed(p.tl) : t.blk[c] = p.tl.blk[c]
      /\ \A z : /\ RemoteOf(z) = RemoteOf(p.xact) \cup {s}
                /\ \A r \in RemoteOf(p.xact) : z[r] = p.xact[r]
                /\ z[s].timerResponse = a /\ z[s].timerHolding = b
                => TimersOf(z, t)
  <2>1. PICK x, l, n : x = p.xact /\ l = p.tl /\ n = s
    OBVIOUS
  <2>2. x \in [Slot -> Xact] /\ TimersOf(x, l) /\ n \in Slot /\ n \notin UseOf(x)
    BY <1>1, <1>2, <2>1
  <2>3. /\ TimerAlloc(l) = a /\ EventTimerCreate(l, "T3_RESPONSE", n) = OneTimer(p, s)
        /\ TimerAlloc(OneTimer(p, s)) = b /\ EventTimerCreate(OneTimer(p, s), "T3_HOLDING", n) = t
    BY <2>1 DEF FirstTimer, OneTimer, SecondTimer, TwoTimers
  <2>4. /\ a \in Blk /\ a # NULL /\ b \in Blk /\ b # NULL
        /\ \A c \in Placed(l) : t.blk[c] = l.blk[c]
        /\ \A z : /\ RemoteOf(z) = RemoteOf(x) \cup {n}
                  /\ \A r \in RemoteOf(x) : z[r] = x[r]
                  /\ z[n].timerResponse = a /\ z[n].timerHolding = b
                  => TimersOf(z, t)
    <3> HIDE DEF s, a, b, t
    <3>1. QED
      BY <2>2, <2>3, TimersCreate
  <2>5. QED
    BY <2>1, <2>4
<1>4. PICK x \in Xact :
        /\ IsRemote(x, id, a, b) /\ x.step = 0 /\ x.type[0] = NULL
        /\ PfcpXactRemoteCreate(p, id) =
             [xact |-> s, pf |-> Globals([p.xact EXCEPT ![s] = x], q, h, t, g)]
  BY ZenonT(60), <1>1, <1>3, RemoteForm
<1> DEFINE X == [p.xact EXCEPT ![s] = x]
           Z(y) == [p.xact EXCEPT ![s] = y]
<1> HIDE DEF s, a, b, t, h, q, g
<1>5. s # NULL
  BY <1>2, HeadsAssumption
<1>6. ASSUME NEW y \in Xact, IsRemote(y, id, a, b), y.step = 1
      PROVE  /\ Z(y) \in [Slot -> Xact] /\ Z(y)[s] = y /\ \A r \in Slot \ {s} : Z(y)[r] = p.xact[r]
             /\ UseOf(Z(y)) = UseOf(p.xact) \cup {s}
             /\ RemoteOf(Z(y)) = RemoteOf(p.xact) \cup {s} /\ LocalOf(Z(y)) = LocalOf(p.xact)
             /\ TimersOf(Z(y), t)
  <2>1. Z(y) \in [Slot -> Xact] /\ Sets(p.xact, Z(y), s, y)
    BY <1>1, <1>2, SetsOne
  <2>2. PICK z : z = Z(y)
    OBVIOUS
  <2> HIDE DEF Z
  <2>3. z \in [Slot -> Xact] /\ z[s] = y /\ (\A r \in Slot \ {s} : z[r] = p.xact[r])
        /\ Sets(p.xact, z, s, y)
    BY <2>1, <2>2 DEF Sets
  <2>4. y.step > 0 /\ y.origin = "remote" /\ y.timerResponse = a /\ y.timerHolding = b
    BY <1>6 DEF IsRemote
  <2>5. /\ UseOf(z) = UseOf(p.xact) \cup {s}
        /\ RemoteOf(z) = RemoteOf(p.xact) \cup {s} /\ LocalOf(z) = LocalOf(p.xact) \ {s}
    <3>1. PICK x0 : x0 = p.xact
      OBVIOUS
    <3>2. s \in Slot /\ Sets(x0, z, s, y) /\ y.step > 0
      BY <1>2, <2>3, <2>4, <3>1
    <3>3. /\ UseOf(z) = UseOf(x0) \cup {s}
          /\ y.origin = "remote" => /\ RemoteOf(z) = RemoteOf(x0) \cup {s}
                                    /\ LocalOf(z) = LocalOf(x0) \ {s}
      BY <3>2, UseGrows
    <3>4. QED
      BY <2>4, <3>1, <3>3
  <2>6. LocalOf(z) = LocalOf(p.xact)
    BY <1>2, <2>5 DEF LocalOf
  <2>7. \A r \in RemoteOf(p.xact) : z[r] = p.xact[r]
    BY <1>2, <2>3 DEF RemoteOf, UseOf
  <2>8. TimersOf(z, t)
    BY <1>3, <2>3, <2>4, <2>5, <2>7
  <2>9. QED
    BY <2>2, <2>3, <2>5, <2>6, <2>8
<1>7. X \in [Slot -> Xact] /\ X[s] = x
  BY <1>1, <1>2
<1>8. b \in Placed(t) /\ a # b /\ ~t.blk[a].isRunning /\ Sound(t, Param)
  <2>1. PICK y \in Xact : IsRemote(y, id, a, b) /\ y.step = 1
    <3>1. X[s].step < 3 /\ type \in Types /\ s \in Slot
      BY <1>2, <1>4, <1>7 DEF Types
    <3> HIDE DEF X
    <3>2. CanAdvance(X, q, h, t, g, s, type)
      BY <1>7, <3>1, AdvanceForm
    <3>3. PICK y \in Xact : Advances(x, y, type)
      BY <1>7, <3>2 DEF CanAdvance
    <3>4. IsRemote(y, id, a, b) /\ y.step = 1
      BY <1>4, <3>3 DEF Advances, IsRemote
    <3>5. QED
      BY <3>4
  <2>2. PICK z : z = Z(y)
    OBVIOUS
  <2> HIDE DEF Z
  <2>3. TimersOf(z, t) /\ s \in RemoteOf(z) /\ z[s].timerResponse = a /\ z[s].timerHolding = b
    BY <1>6, <2>1, <2>2 DEF IsRemote
  <2>4. QED
    BY <2>3, OwnTimers DEF TimersOf, Accounted
<1>9. /\ Sound(v, Param) /\ Placed(v) = Placed(t) /\ v.avail = t.avail /\ KeepsSettings(t, v, b)
      /\ v.blk[a] = t.blk[a]
  <2>1. /\ Sound(v, Param) /\ Placed(v) = Placed(t) /\ v.avail = t.avail /\ KeepsSettings(t, v, b)
    BY <1>8, StartSound
  <2> HIDE DEF v
  <2>2. QED
    BY <1>3, <1>8, <2>1 DEF KeepsSettings, OnlyBlk
<1>10. PICK y \in Xact :
         /\ Advances(x, y, type)
         /\ PfcpXactUpdateRx(Globals(X, q, h, t, g), s, type, now) =
              [ret |-> "OK", pf |-> Globals([X EXCEPT ![s] = y], q, h, v, g)]
  <2>1. RxFits(x, type) /\ type \in Types
    BY <1>4, NoTypeAssumption DEF RxFits, IsRemote, PfcpXactGetStage, Types
  <2>2. x.origin = "remote" /\ x.timerHolding = b /\ x.timerResponse = a
    BY <1>4 DEF IsRemote
  <2>3. ~v.blk[a].isRunning
    BY <1>8, <1>9
  <2>4. /\ RxFits(X[s], type) /\ X[s].origin = "remote" /\ X[s].timerHolding # NULL
        /\ v = TimerStart(t, X[s].timerHolding, now)
        /\ ~v.blk[X[s].timerResponse].isRunning
    BY <1>3, <1>7, <2>1, <2>2, <2>3
  <2> HIDE DEF X, v
  <2>5. RxAdvances(X, q, h, t, g, s, type, now, v)
    BY <1>2, <1>7, <2>1, <2>4, UpdateRxForm
  <2>6. QED
    BY <1>7, <2>5 DEF RxAdvances
<1>11. IsRemote(y, id, a, b) /\ y.step = 1
  BY <1>4, <1>10 DEF IsRemote, Advances
<1>12. [X EXCEPT ![s] = y] = Z(y)
  BY <1>1, <1>2
<1> DEFINE w == Globals(Z(y), q, h, t, g)
<1>13. rx.xact = s /\ u = Globals(Z(y), q, h, v, g)
  <2> DEFINE f == PfcpXactFindByTransactionId(p, type, id)
             got == PfcpXactRemoteCreate(p, id)
             r == PfcpXactUpdateRx(got.pf, got.xact, type, now)
  <2>1. f.ends /\ f.xact = NULL
    BY FindNone
  <2>2. PICK k, e : k = Globals(X, q, h, t, g) /\ e = Globals(Z(y), q, h, v, g)
    OBVIOUS
  <2> HIDE DEF f, X, Z, v
  <2>3. got.xact = s /\ got.pf = k
    BY <1>4, <2>2 DEF X
  <2> HIDE DEF got
  <2>4. r.ret = "OK" /\ r.pf = e
    <3>1. PfcpXactUpdateRx(k, s, type, now) = [ret |-> "OK", pf |-> e]
      BY <1>10, <1>12, <2>2
    <3>2. r = PfcpXactUpdateRx(k, s, type, now)
      BY <2>3
    <3>3. QED
      BY <3>1, <3>2
  <2> HIDE DEF r
  <2>5. rx = [xact |-> s, pf |-> e]
    BY <1>5, <2>1, <2>3, <2>4 DEF PfcpXactReceive, f, got, r
  <2> HIDE DEF rx
  <2>6. QED
    BY <2>2, <2>5
<1> HIDE DEF X, rx
<1>14. PICK z : z = Z(y)
  OBVIOUS
<1>15. /\ z \in [Slot -> Xact] /\ z[s] = y /\ \A r \in Slot \ {s} : z[r] = p.xact[r]
       /\ UseOf(z) = UseOf(p.xact) \cup {s}
       /\ RemoteOf(z) = RemoteOf(p.xact) \cup {s} /\ LocalOf(z) = LocalOf(p.xact)
       /\ TimersOf(z, t)
  BY <1>6, <1>11, <1>14
<1> HIDE DEF Z, v
<1>16. /\ w.xact = z /\ w.avail = q /\ w.links = h /\ w.tl = t /\ w.globalXactId = g
       /\ w = Globals(z, q, h, t, g) /\ u = [w EXCEPT !.tl = v]
  BY <1>13, <1>14 DEF Globals
<1> HIDE DEF w, u
<1>17. q \in Seq(Slot) /\ SlotsOf(z, q)
  BY <1>1, <1>15, SlotsTake DEF q, s
<1>18. h \in L!Heap /\ ListsOf(z, h)
  BY <1>1, <1>2, <1>15, ListsAddRemote DEF h, LinkRemote
<1>19. ShapedOf(z)
  <2>1. ASSUME NEW r \in RemoteOf(z) PROVE z[r].gnode /\ z[r].step < 3
    <3>1. CASE r = s
      BY <1>11, <1>15, <3>1 DEF IsRemote
    <3>2. CASE r # s
      BY <1>1, <1>15, <3>2 DEF ShapedOf, RemoteOf, UseOf
    <3>3. QED
      BY <3>1, <3>2
  <2>2. ASSUME NEW r \in LocalOf(z)
        PROVE  /\ z[r].gnode /\ z[r].transactionId \in 1 .. PFCP_MAX_XACT_ID - 1
               /\ z[r].timerResponse = NULL /\ z[r].timerHolding = NULL
    <3>1. r \in LocalOf(p.xact) /\ r \in Slot /\ r # s
      BY <1>2, <1>15 DEF LocalOf, UseOf
    <3>2. z[r] = p.xact[r]
      BY <1>15, <3>1
    <3>3. QED
      BY <1>1, <3>1, <3>2 DEF ShapedOf
  <2>3. QED
    BY <2>1, <2>2 DEF ShapedOf
<1>20. LibInv(w)
  <2>1. t \in TimerLists(Param) /\ g \in 1 .. PFCP_MAX_XACT_ID
    BY <1>1, <1>8 DEF Sound, g
  <2>2. w \in Lib
    BY <1>15, <1>16, <1>17, <1>18, <2>1 DEF Lib, Globals
  <2>3. QED
    BY <1>15, <1>16, <1>17, <1>18, <1>19, <2>2 DEF LibInv
<1>21. s \in RemoteOf(w.xact) /\ w.xact[s].timerHolding = b
  BY <1>11, <1>15, <1>16 DEF IsRemote
<1>22. /\ LibInv(u) /\ u.xact = z /\ u.globalXactId = g /\ u.tl = v
       /\ \A r \in RemoteOf(z) \ {s} : v.blk[z[r].timerHolding] = t.blk[z[r].timerHolding]
  <2>1. Sound(v, Param) /\ Placed(v) = Placed(w.tl) /\ v.avail = w.tl.avail
        /\ KeepsSettings(w.tl, v, w.xact[s].timerHolding)
    BY <1>9, <1>16, <1>21
  <2>2. /\ LibInv(u) /\ u.xact = w.xact /\ u.globalXactId = w.globalXactId /\ u.tl = v
        /\ \A r \in RemoteOf(w.xact) \ {s} :
             v.blk[w.xact[r].timerHolding] = w.tl.blk[w.xact[r].timerHolding]
    BY <1>16, <1>20, <1>21, <2>1, RetimeLib
  <2>3. QED
    BY <1>16, <2>2
<1>23. \A r \in RemoteOf(p.xact) :
         u.tl.blk[p.xact[r].timerHolding] = p.tl.blk[p.xact[r].timerHolding]
  <2> TAKE r \in RemoteOf(p.xact)
  <2>1. r \in RemoteOf(z) \ {s} /\ z[r] = p.xact[r]
    BY <1>2, <1>15 DEF RemoteOf, UseOf
  <2>2. p.xact[r].timerHolding \in Placed(p.tl)
    BY <1>1 DEF TimersOf
  <2>3. QED
    BY <1>3, <1>22, <2>1, <2>2
<1>24. /\ u.xact[s].transactionId = id /\ u.xact[s].step = 1 /\ u.xact[s].origin = "remote"
       /\ Only(p, u, s)
  BY <1>11, <1>15, <1>22 DEF IsRemote, Only
<1>25. QED
  BY <1>2, <1>13, <1>15, <1>22, <1>23, <1>24 DEF u, rx, s, g

(* The handler of a message answers it, or does nothing: the transaction   *)
(* stays in use.                                                           *)
LEMMA AnswerLib ==
  ASSUME NEW p, LibInv(p), NEW s \in UseOf(p.xact), NEW type \in Types, NEW done \in BOOLEAN,
         ~(type = "SESSION_REPORT_RESPONSE" /\ done)
  PROVE  LET u == Handle(p, s, type, done)
         IN  /\ LibInv(u) /\ Only(p, u, s)
             /\ u.xact[s].origin = p.xact[s].origin
             /\ u.xact[s].transactionId = p.xact[s].transactionId
             /\ UseOf(u.xact) = UseOf(p.xact)
             /\ RemoteOf(u.xact) = RemoteOf(p.xact) /\ LocalOf(u.xact) = LocalOf(p.xact)
             /\ u.globalXactId = p.globalXactId /\ u.tl = p.tl
<1> DEFINE u == Handle(p, s, type, done)
           answer == Answers[type]
           tx == PfcpXactUpdateTx(p, s, answer, done)
<1>1. /\ s \in Slot /\ p.xact \in [Slot -> Xact] /\ p \in Lib
      /\ p = Globals(p.xact, p.avail, p.links, p.tl, p.globalXactId)
  BY LibMembers DEF LibInv, UseOf, Globals
<1>2. p.xact[s].gnode
  BY OneOrigin, <1>1 DEF LibInv, ShapedOf
<1>3. u = IF type \in DOMAIN Answers /\ tx.ret = "OK" THEN PfcpXactCommit(tx.pf, s, CurTime) ELSE p
  BY DEF Handle
<1>4. \A a \in DOMAIN Answers : Answers[a] \in Responses
  BY DEF Answers, Responses
<1>5. CASE ~(type \in DOMAIN Answers /\ tx.ret = "OK")
  <2>1. u = p
    BY <1>3, <1>5
  <2>2. QED
    BY <2>1 DEF Only
<1>6. CASE type \in DOMAIN Answers /\ tx.ret = "OK"
  <2> HIDE DEF u
  <2>1. answer \in Responses /\ answer \in Types /\ PfcpXactGetStage(answer) = "FINAL"
    <3>1. \A a \in Responses : a \notin Requests
      BY DEF Responses, Requests
    <3>2. answer \in Responses
      BY <1>4, <1>6
    <3>3. QED
      BY <3>1, <3>2 DEF Types, PfcpXactGetStage
  <2> HIDE DEF answer
  <2>2. TxFits(p.xact[s], answer) /\ done
    BY <1>6 DEF PfcpXactUpdateTx
  <2> DEFINE x == p.xact
             v == p.xact[s]
  <2>3. PICK y \in Xact :
          /\ Advances(v, y, answer)
          /\ tx = [ret |-> "OK", pf |-> Globals([x EXCEPT ![s] = y], p.avail, p.links, p.tl, p.globalXactId)]
    <3>1. PICK a, h, t, g : a = p.avail /\ h = p.links /\ t = p.tl /\ g = p.globalXactId
      OBVIOUS
    <3>2. p = Globals(x, a, h, t, g)
      BY <1>1, <3>1
    <3>3. TxAdvances(x, a, h, t, g, s, answer)
      BY <1>1, <1>2, <2>1, <2>2, UpdateTxForm
    <3>4. done = TRUE
      BY <2>2
    <3>5. QED
      BY <3>1, <3>2, <3>3, <3>4 DEF TxAdvances
  <2> HIDE DEF tx
  <2>4. PICK w : w = tx.pf
    OBVIOUS
  <2>5. w = [p EXCEPT !.xact = [p.xact EXCEPT ![s] = y]]
    <3>1. PICK X, a, h, t, g : X = [x EXCEPT ![s] = y] /\ a = p.avail /\ h = p.links /\ t = p.tl /\ g = p.globalXactId
      OBVIOUS
    <3>2. p = Globals(x, a, h, t, g) /\ w = Globals(X, a, h, t, g)
      BY <1>1, <2>3, <2>4, <3>1
    <3>3. [Globals(x, a, h, t, g) EXCEPT !.xact = X] = Globals(X, a, h, t, g)
      BY DEF Globals
    <3>4. QED
      BY <3>1, <3>2, <3>3
  <2>6. /\ y.origin = v.origin /\ y.transactionId = v.transactionId /\ y.gnode = v.gnode
        /\ y.timerResponse = v.timerResponse /\ y.timerHolding = v.timerHolding
    BY <2>3 DEF Advances
  <2>7. /\ y.origin \in {"local", "remote"} /\ y.gnode /\ y.type[y.step - 1] = answer
        /\ y.origin = "remote" => y.step = 2
        /\ y.origin = "local" => y.step = 3
        /\ y.step > 0
    <3>1. v.step > 0 /\ v.origin \in {"local", "remote"} /\ v.step \in 0 .. 3
      BY <1>1 DEF UseOf, Xact
    <3>2. v.step = IF v.origin = "remote" THEN 1 ELSE 2
      BY <2>1, <2>2, <3>1 DEF TxFits
    <3>3. y.step = v.step + 1 /\ y.type[v.step] = answer
      BY <2>3 DEF Advances
    <3>4. QED
      BY <1>2, <2>6, <3>1, <3>2, <3>3
  <2>8. /\ LibInv(w) /\ Only(p, w, s) /\ w.xact[s] = y
        /\ UseOf(w.xact) = UseOf(p.xact)
        /\ RemoteOf(w.xact) = RemoteOf(p.xact) /\ LocalOf(w.xact) = LocalOf(p.xact)
        /\ w.globalXactId = p.globalXactId /\ w.tl = p.tl
    <3>1. Touched(p, w, s, y)
      BY <2>5, <2>6, <2>7 DEF Touched
    <3>2. QED
      BY <3>1, TouchLib
  <2>9. PfcpXactCommit(w, s, CurTime) = w
    BY <2>1, <2>7, <2>8 DEF PfcpXactCommit, CommitEnds
  <2>10. u = w
    BY <1>3, <1>6, <2>4, <2>9
  <2>11. QED
    BY <2>6, <2>8, <2>10 DEF u
<1>7. QED
  BY <1>5, <1>6

(* PfcpXactReceive and the handler of the message: HandleMessage. *)
Handled(p, type, id, done) ==
  LET rx == PfcpXactReceive(p, type, id, CurTime)
  IN  IF rx.xact = NULL THEN rx.pf ELSE Handle(rx.pf, rx.xact, type, done)

(* A request begins a transaction in a free slot. *)
Began(p, u, s, id) ==
  /\ LibInv(u) /\ Only(p, u, s) /\ u.xact[s].transactionId = id
  /\ RemoteOf(u.xact) = RemoteOf(p.xact) \cup {s} /\ LocalOf(u.xact) = LocalOf(p.xact)
  /\ u.globalXactId = p.globalXactId
  /\ \A r \in RemoteOf(p.xact) :
       u.tl.blk[p.xact[r].timerHolding] = p.tl.blk[p.xact[r].timerHolding]

(* A request begins a transaction, or finds no slot and is dropped.        *)
LEMMA RequestLib ==
  ASSUME RoomForTimers, clock \in Nat, NEW p, LibInv(p), NEW type \in Requests, NEW id \in Ids,
         NEW done \in BOOLEAN, \A s \in RemoteOf(p.xact) : p.xact[s].transactionId # id
  PROVE  LET u == Handled(p, type, id, done)
         IN  u = p \/ \E s \in Slot \ UseOf(p.xact) : Began(p, u, s, id)
<1> DEFINE u == Handled(p, type, id, done)
           rx == PfcpXactReceive(p, type, id, CurTime)
<1>1. u = IF rx.xact = NULL THEN rx.pf ELSE Handle(rx.pf, rx.xact, type, done)
  BY DEF Handled
<1> HIDE DEF u
<1>2. type \in Types /\ type # "SESSION_REPORT_RESPONSE" /\ CurTime \in Nat
  <2>1. type \in Types /\ type # "SESSION_REPORT_RESPONSE"
    BY DEF Types, Requests
  <2>2. CurTime \in Nat
    BY TimeModAssumption DEF CurTime
  <2>3. QED
    BY <2>1, <2>2
<1>3. CASE p.avail = << >>
  <2> DEFINE f == PfcpXactFindByTransactionId(p, type, id)
             got == PfcpXactRemoteCreate(p, id)
  <2>1. f.ends /\ f.xact = NULL
    BY FindNone
  <2>2. got = [xact |-> NULL, pf |-> p]
    BY <1>3 DEF PfcpXactRemoteCreate, XactAlloc
  <2> HIDE DEF f, got
  <2>3. rx = got
    BY <2>1, <2>2 DEF PfcpXactReceive, f, got
  <2> HIDE DEF rx
  <2>4. u = p
    BY <1>1, <2>2, <2>3
  <2>5. QED
    BY <2>4 DEF u
<1>4. CASE p.avail # << >>
  <2>1. PICK s, w : s = Head(p.avail) /\ w = rx.pf
    OBVIOUS
  <2>2. /\ rx.xact = s /\ s \in Slot \ UseOf(p.xact)
        /\ LibInv(w) /\ Only(p, w, s)
        /\ w.xact[s].transactionId = id /\ w.xact[s].step = 1 /\ w.xact[s].origin = "remote"
        /\ RemoteOf(w.xact) = RemoteOf(p.xact) \cup {s} /\ LocalOf(w.xact) = LocalOf(p.xact)
        /\ w.globalXactId = p.globalXactId
        /\ \A r \in RemoteOf(p.xact) :
             w.tl.blk[p.xact[r].timerHolding] = p.tl.blk[p.xact[r].timerHolding]
    BY <1>2, <1>4, <2>1, ReceiveLib
  <2> HIDE DEF rx
  <2>3. u = Handle(w, s, type, done)
    BY <1>1, <2>1, <2>2, HeadsAssumption
  <2>4. s \in UseOf(w.xact) /\ ~(type = "SESSION_REPORT_RESPONSE" /\ done)
    BY <1>2, <2>2 DEF UseOf
  <2>5. /\ LibInv(u) /\ Only(w, u, s)
        /\ u.xact[s].transactionId = w.xact[s].transactionId
        /\ RemoteOf(u.xact) = RemoteOf(w.xact) /\ LocalOf(u.xact) = LocalOf(w.xact)
        /\ u.globalXactId = w.globalXactId /\ u.tl = w.tl
    <3> HIDE DEF u
    <3>1. QED
      BY <1>2, <2>2, <2>3, <2>4, AnswerLib
  <2>6. Began(p, u, s, id)
    BY <2>2, <2>5 DEF Began, Only
  <2>7. QED
    BY <2>2, <2>6 DEF u
<1>5. QED
  BY <1>3, <1>4

(* A response reaches the report it is for, and a response to a session    *)
(* report, once its handler is done, ends it.                              *)
Answered(p, u, l, type) ==
  /\ LibInv(u) /\ Only(p, u, l) /\ RemoteOf(u.xact) = RemoteOf(p.xact)
  /\ u.globalXactId = p.globalXactId /\ u.tl.blk = p.tl.blk
  /\ \/ LocalOf(u.xact) = LocalOf(p.xact) /\ u.xact[l].transactionId = p.xact[l].transactionId
     \/ type = "SESSION_REPORT_RESPONSE" /\ LocalOf(u.xact) = LocalOf(p.xact) \ {l}

(* A response finds the report it is for.                                  *)
LEMMA FindLocal ==
  ASSUME NEW p, LibInv(p), NEW type \in Responses, NEW l \in LocalOf(p.xact),
         \A s \in LocalOf(p.xact) : p.xact[s].transactionId = p.xact[l].transactionId => s = l
  PROVE  LET f == PfcpXactFindByTransactionId(p, type, p.xact[l].transactionId)
         IN  f.ends /\ f.xact = l
<1> DEFINE id == p.xact[l].transactionId
           f == PfcpXactFindByTransactionId(p, type, id)
<1>1. PfcpXactGetStage(type) = "FINAL" /\ type \in Types
  <2>1. type \notin Requests
    BY DEF Responses, Requests
  <2>2. QED
    BY <2>1 DEF PfcpXactGetStage, Types
<1>2. id \in 1 .. PFCP_MAX_XACT_ID - 1
  BY DEF LibInv, ShapedOf
<1>3. ListOf(type, id) = localList
  BY <1>1, <1>2, CountAssumption DEF ListOf
<1>4. PICK q \in Seq(Slot) :
        IsInjective(q) /\ ToSet(q) = LocalOf(p.xact) /\ LinkedAs(p.links, localList, q)
  BY DEF LibInv, ListsOf, LocalLinked
<1>5. LinkedAs(p.links, ListOf(type, id), q)
  BY <1>3, <1>4
<1> HIDE DEF id
<1>6. /\ f.ends
      /\ \/ f.xact = NULL /\ \A s \in ToSet(q) : p.xact[s].transactionId # id
         \/ f.xact \in ToSet(q) /\ p.xact[f.xact].transactionId = id
  BY <1>1, <1>4, <1>5, FindLinked
<1> HIDE DEF f
<1>7. f.ends /\ f.xact = l
  BY <1>4, <1>6 DEF id
<1>8. QED
  BY <1>7 DEF f, id

(* A response changes or ends its report, and nothing else.                *)
LEMMA ResponseLib ==
  ASSUME NEW p, LibInv(p), NEW type \in Responses, NEW l \in LocalOf(p.xact),
         NEW done \in BOOLEAN, p.xact[l].step = 1,
         \A s \in LocalOf(p.xact) : p.xact[s].transactionId = p.xact[l].transactionId => s = l
  PROVE  Answered(p, Handled(p, type, p.xact[l].transactionId, done), l, type)
<1> DEFINE id == p.xact[l].transactionId
           u == Handled(p, type, id, done)
           rx == PfcpXactReceive(p, type, id, CurTime)
           f == PfcpXactFindByTransactionId(p, type, id)
           r == PfcpXactUpdateRx(p, l, type, CurTime)
<1>1. /\ p.xact \in [Slot -> Xact] /\ p \in Lib /\ l \in Slot /\ l \in UseOf(p.xact)
      /\ p = Globals(p.xact, p.avail, p.links, p.tl, p.globalXactId) /\ l # NULL
  BY LibMembers, HeadsAssumption DEF LibInv, LocalOf, UseOf, Globals
<1>2. /\ p.xact[l].origin = "local" /\ p.xact[l].gnode
      /\ p.xact[l].timerResponse = NULL /\ p.xact[l].timerHolding = NULL
  BY DEF LibInv, ShapedOf, LocalOf
<1>3. PfcpXactGetStage(type) = "FINAL" /\ type \in Types
  <2>1. type \notin Requests
    BY SMTT(60) DEF Responses, Requests
  <2>2. QED
    BY <2>1 DEF PfcpXactGetStage, Types
<1>4. PICK y \in Xact :
        /\ Advances(p.xact[l], y, type)
        /\ r = [ret |-> "OK", pf |-> Globals([p.xact EXCEPT ![l] = y], p.avail, p.links, p.tl, p.globalXactId)]
  <2>1. PICK x, a, h, t, g : x = p.xact /\ a = p.avail /\ h = p.links /\ t = p.tl /\ g = p.globalXactId
    OBVIOUS
  <2>2. p = Globals(x, a, h, t, g) /\ x \in [Slot -> Xact]
    BY <1>1, <2>1
  <2>3. RxFits(x[l], type) /\ x[l].origin = "local" /\ x[l].timerResponse = NULL
    BY <1>2, <1>3, <2>1 DEF RxFits
  <2>4. RxAdvances(x, a, h, t, g, l, type, CurTime, t)
    BY <1>1, <1>3, <2>2, <2>3, UpdateRxForm
  <2>5. QED
    BY <2>1, <2>2, <2>4 DEF RxAdvances
<1> HIDE DEF r
<1>5. PICK w : w = r.pf
  BY SMTT(60)
<1>6. w = [p EXCEPT !.xact = [p.xact EXCEPT ![l] = y]]
  <2>1. PICK x, X, a, h, t, g : /\ x = p.xact /\ X = [p.xact EXCEPT ![l] = y] /\ a = p.avail
                                /\ h = p.links /\ t = p.tl /\ g = p.globalXactId
    OBVIOUS
  <2>2. p = Globals(x, a, h, t, g) /\ w = Globals(X, a, h, t, g)
    BY <1>1, <1>4, <1>5, <2>1
  <2>3. [Globals(x, a, h, t, g) EXCEPT !.xact = X] = Globals(X, a, h, t, g)
    BY DEF Globals
  <2>4. QED
    BY <2>1, <2>2, <2>3
<1>7. /\ y.origin = "local" /\ y.gnode /\ y.step = 2 /\ y.type[y.step - 1] = type
      /\ y.transactionId = id /\ Touched(p, w, l, y)
  BY <1>2, <1>4, <1>6 DEF Advances, Touched
<1>8. /\ LibInv(w) /\ Only(p, w, l) /\ w.xact[l] = y
      /\ UseOf(w.xact) = UseOf(p.xact)
      /\ RemoteOf(w.xact) = RemoteOf(p.xact) /\ LocalOf(w.xact) = LocalOf(p.xact)
      /\ w.globalXactId = p.globalXactId /\ w.tl = p.tl
  BY <1>1, <1>7, TouchLib
<1>9. rx = [xact |-> l, pf |-> w]
  <2>1. f.ends /\ f.xact = l
    BY FindLocal
  <2> HIDE DEF f, id
  <2>2. r.ret = "OK"
    BY <1>4
  <2>3. QED
    BY <1>1, <1>5, <2>1, <2>2 DEF PfcpXactReceive, f, r
<1>10. u = Handle(w, l, type, done)
  <2>1. u = IF rx.xact = NULL THEN rx.pf ELSE Handle(rx.pf, rx.xact, type, done)
    BY DEF Handled
  <2> HIDE DEF u, rx
  <2>2. QED
    BY <1>1, <1>9, <2>1
<1>11. l \in UseOf(w.xact)
  BY <1>1, <1>8
<1> HIDE DEF u
<1>12. CASE type = "SESSION_REPORT_RESPONSE" /\ done
  <2>1. u = PfcpXactCommit(w, l, CurTime)
    BY <1>10, <1>12 DEF Handle
  <2>2. PfcpXactCommit(w, l, CurTime) = PfcpXactDelete(w, l)
    BY <1>3, <1>7, <1>8 DEF PfcpXactCommit, CommitEnds
  <2>3. /\ LibInv(u) /\ Only(w, u, l)
        /\ RemoteOf(u.xact) = RemoteOf(w.xact) \ {l} /\ LocalOf(u.xact) = LocalOf(w.xact) \ {l}
        /\ u.globalXactId = w.globalXactId /\ u.tl.blk = w.tl.blk
    BY <1>8, <1>11, <2>1, <2>2, DeleteLib
  <2>4. RemoteOf(w.xact) \ {l} = RemoteOf(w.xact)
    BY <1>7, <1>8 DEF RemoteOf
  <2>5. QED
    BY <1>8, <1>12, <2>3, <2>4 DEF Answered, Only, u
<1>13. CASE ~(type = "SESSION_REPORT_RESPONSE" /\ done)
  <2>1. /\ LibInv(u) /\ Only(w, u, l)
        /\ u.xact[l].transactionId = w.xact[l].transactionId
        /\ RemoteOf(u.xact) = RemoteOf(w.xact) /\ LocalOf(u.xact) = LocalOf(w.xact)
        /\ u.globalXactId = w.globalXactId /\ u.tl = w.tl
    BY <1>3, <1>8, <1>10, <1>11, <1>13, AnswerLib
  <2>2. QED
    BY <1>7, <1>8, <2>1 DEF Answered, Only, u
<1>14. QED
  BY <1>12, <1>13

(* A timeout is counted. *)
Counted(p, s) == [p EXCEPT !.xact[s].holdingReCount = Decrement(@)]

(* A counted timeout changes the count only.                               *)
LEMMA CountForm ==
  ASSUME NEW p \in Lib, NEW s \in UseOf(p.xact), p.xact[s].origin = "remote" => p.xact[s].step < 3
  PROVE  \E y \in Xact : Touched(p, Counted(p, s), s, y)
<1> DEFINE v == p.xact[s]
           o == v.origin
           id == v.transactionId
           gn == v.gnode
           n == v.step
           ty == v.type
           bu == v.buf
           tr == v.timerResponse
           rc == v.responseReCount
           th == v.timerHolding
           hc == v.holdingReCount
           d == Decrement(hc)
           y == [v EXCEPT !.holdingReCount = d]
<1>1. s \in Slot /\ p.xact \in [Slot -> Xact] /\ v \in Xact /\ v.step > 0
  BY LibMembers DEF UseOf
<1>2. Counted(p, s) = [p EXCEPT !.xact = [p.xact EXCEPT ![s] = y]]
  BY DEF Counted
<1> HIDE DEF v
<1>3. /\ v = Members(o, id, gn, n, ty, bu, tr, rc, th, hc)
      /\ o \in {"local", "remote"} /\ id \in Ids /\ gn \in BOOLEAN /\ n \in 0 .. 3
      /\ ty \in [0 .. 2 -> Types \cup {NULL}] /\ bu \in [0 .. 2 -> BOOLEAN]
      /\ tr \in Blk \cup {NULL} /\ rc \in 0 .. 255 /\ th \in Blk \cup {NULL} /\ hc \in 0 .. 255
  BY <1>1 DEF Xact, Members
<1> HIDE DEF o, id, gn, n, ty, bu, tr, rc, th, hc
<1>4. d \in 0 .. 255
  BY <1>3 DEF Decrement
<1> HIDE DEF d
<1>5. y = Members(o, id, gn, n, ty, bu, tr, rc, th, d)
  BY <1>3 DEF Members
<1> HIDE DEF y
<1>6. y \in Xact
  BY <1>3, <1>4, <1>5 DEF Xact, Members
<1>7. /\ y.origin = v.origin /\ y.transactionId = v.transactionId /\ y.gnode = v.gnode
      /\ y.timerResponse = v.timerResponse /\ y.timerHolding = v.timerHolding /\ y.step = v.step
  BY <1>3, <1>5 DEF Members
<1>8. Touched(p, Counted(p, s), s, y)
  BY <1>1, <1>2, <1>7 DEF Touched, v
<1>9. QED
  BY <1>6, <1>8

(* The holding timeout of a transaction: its timer is started again, or it *)
(* is over.                                                                *)
Elapsed(p, u, s) ==
  /\ LibInv(u) /\ Only(p, u, s) /\ LocalOf(u.xact) = LocalOf(p.xact)
  /\ u.globalXactId = p.globalXactId
  /\ \A r \in RemoteOf(p.xact) \ {s} :
       u.tl.blk[p.xact[r].timerHolding] = p.tl.blk[p.xact[r].timerHolding]
  /\ \/ RemoteOf(u.xact) = RemoteOf(p.xact) /\ u.xact[s].transactionId = p.xact[s].transactionId
     \/ RemoteOf(u.xact) = RemoteOf(p.xact) \ {s}

(* A timeout restarts the timer of its transaction or ends it.             *)
LEMMA TimeoutLib ==
  ASSUME NEW p, LibInv(p), NEW s \in RemoteOf(p.xact), NEW sent, NEW now \in Nat
  PROVE  Elapsed(p, PfcpXactTimeout(p, s, "T3_HOLDING", sent, now), s)
<1> DEFINE u == PfcpXactTimeout(p, s, "T3_HOLDING", sent, now)
           tm == p.xact[s].timerHolding
           left == Decrement(p.xact[s].holdingReCount)
<1>1. /\ s \in Slot /\ s \in UseOf(p.xact) /\ p \in Lib /\ p.xact[s].origin = "remote"
      /\ p.xact[s].gnode /\ p.xact[s].step < 3 /\ tm \in Placed(p.tl) /\ tm # NULL
      /\ TimersOf(p.xact, p.tl) /\ RemoteOf(p.xact) \cap LocalOf(p.xact) = {}
  <2>1. s \in Slot /\ s \in UseOf(p.xact) /\ p \in Lib /\ p.xact[s].origin = "remote"
    BY SMTT(60) DEF LibInv, RemoteOf, UseOf
  <2>2. p.xact[s].gnode /\ p.xact[s].step < 3 /\ tm \in Placed(p.tl) /\ TimersOf(p.xact, p.tl)
    BY SMTT(60) DEF LibInv, ShapedOf, TimersOf
  <2>3. tm \in Blk
    <3>1. p.tl \in TimerLists(Param)
      BY <2>2 DEF TimersOf, Accounted, Sound
    <3>2. QED
      BY <2>2, <3>1, PlacedInBlk
  <2>4. QED
    BY <2>1, <2>2, <2>3, BlkAssumption DEF RemoteOf, LocalOf
<1>2. PICK w, y : w = Counted(p, s) /\ y \in Xact /\ Touched(p, w, s, y)
  BY <1>1, CountForm
<1>3. u = IF left = 0 THEN PfcpXactDelete(w, s) ELSE StartTimer(w, tm, now)
  BY <1>1, <1>2 DEF PfcpXactTimeout, Counted
<1> HIDE DEF u, left
<1>4. /\ LibInv(w) /\ Only(p, w, s) /\ w.xact[s] = y /\ UseOf(w.xact) = UseOf(p.xact)
      /\ RemoteOf(w.xact) = RemoteOf(p.xact) /\ LocalOf(w.xact) = LocalOf(p.xact)
      /\ w.globalXactId = p.globalXactId /\ w.tl = p.tl
  BY <1>1, <1>2, TouchLib
<1>5. y.timerHolding = tm /\ y.transactionId = p.xact[s].transactionId
  BY <1>2 DEF Touched
<1>6. CASE left = 0
  <2>1. u = PfcpXactDelete(w, s)
    BY <1>3, <1>6
  <2>2. /\ LibInv(u) /\ Only(w, u, s)
        /\ RemoteOf(u.xact) = RemoteOf(w.xact) \ {s} /\ LocalOf(u.xact) = LocalOf(w.xact) \ {s}
        /\ u.globalXactId = w.globalXactId /\ u.tl.blk = w.tl.blk
    BY <1>1, <1>4, <2>1, DeleteLib
  <2>3. LocalOf(w.xact) \ {s} = LocalOf(w.xact)
    BY <1>1, <1>4
  <2>4. QED
    BY <1>4, <2>2, <2>3 DEF Elapsed, Only, u
<1>7. CASE left # 0
  <2> DEFINE t == TimerStart(w.tl, tm, now)
  <2>1. u = [w EXCEPT !.tl = t]
    BY <1>1, <1>3, <1>7 DEF StartTimer
  <2>2. Sound(w.tl, Param) /\ tm \in Placed(w.tl) /\ w.xact[s].timerHolding = tm
    BY <1>1, <1>4, <1>5 DEF TimersOf, Accounted
  <2>3. /\ Sound(t, Param) /\ Placed(t) = Placed(w.tl) /\ t.avail = w.tl.avail
        /\ KeepsSettings(w.tl, t, tm)
    BY <2>2, StartSound
  <2> HIDE DEF t, tm
  <2>4. /\ LibInv(u) /\ u.xact = w.xact /\ u.globalXactId = w.globalXactId /\ u.tl = t
        /\ \A r \in RemoteOf(w.xact) \ {s} :
             t.blk[w.xact[r].timerHolding] = w.tl.blk[w.xact[r].timerHolding]
    BY <1>1, <1>4, <2>1, <2>2, <2>3, RetimeLib
  <2>5. \A r \in RemoteOf(p.xact) \ {s} : w.xact[r] = p.xact[r]
    BY <1>4 DEF Only, RemoteOf, UseOf
  <2>6. QED
    BY SMTT(60), <1>4, <1>5, <2>4, <2>5 DEF Elapsed, Only, u
<1>8. QED
  BY <1>6, <1>7

(* TimerExpireCheck finds a due timer: it is the holding timer of one      *)
(* transaction, and stops.                                                 *)
Expired(p, u, s, now) ==
  /\ LibInv(u) /\ u.xact = p.xact /\ u.globalXactId = p.globalXactId
  /\ \A r \in RemoteOf(p.xact) \ {s} :
       u.tl.blk[p.xact[r].timerHolding] = p.tl.blk[p.xact[r].timerHolding]
  /\ p.tl.blk[p.xact[s].timerHolding].isRunning
  /\ ~u.tl.blk[p.xact[s].timerHolding].isRunning
  /\ u.tl.blk[p.xact[s].timerHolding].expireTime < now

(* The timer at the head of the active list, when it is due.               *)
LEMMA ExpireLib ==
  ASSUME NEW p, LibInv(p), NEW now \in Nat, IsDue(p.tl, now)
  PROVE  \E s \in RemoteOf(p.xact) :
           /\ p.tl.blk[Head(p.tl.active)].param = T3("T3_HOLDING", s)
           /\ Expired(p, [p EXCEPT !.tl = ExpireHead(@, now)], s, now)
<1> DEFINE tm == Head(p.tl.active)
           t == ExpireHead(p.tl, now)
           u == [p EXCEPT !.tl = ExpireHead(@, now)]
<1>1. /\ p \in Lib /\ TimersOf(p.xact, p.tl) /\ Sound(p.tl, Param)
      /\ p.tl.active # << >> /\ p.tl.blk[tm].expireTime < now
  BY DEF LibInv, TimersOf, Accounted, IsDue
<1>2. tm \in Placed(p.tl) /\ tm \in Blk /\ p.tl.blk[tm].isRunning
  BY SMTT(60), <1>1, HeadRuns
<1>3. PICK s \in RemoteOf(p.xact) : tm \in {p.xact[s].timerResponse, p.xact[s].timerHolding}
  BY SMTT(60), <1>1, <1>2 DEF TimersOf
<1>4. tm = p.xact[s].timerHolding /\ p.tl.blk[tm].param = T3("T3_HOLDING", s)
      /\ p.tl.blk[tm].type = "ONCE"
  BY <1>1, <1>2, <1>3 DEF TimersOf
<1>5. /\ Sound(t, Param) /\ Placed(t) = Placed(p.tl) /\ t.avail = p.tl.avail
      /\ KeepsSettings(p.tl, t, tm)
      /\ ~t.blk[tm].isRunning /\ t.blk[tm].expireTime = p.tl.blk[tm].expireTime
  BY SMTT(60), <1>1, <1>4, ExpireSound
<1>6. u = [p EXCEPT !.tl = t]
  OBVIOUS
<1> HIDE DEF t, u
<1>7. /\ LibInv(u) /\ u.xact = p.xact /\ u.globalXactId = p.globalXactId /\ u.tl = t
      /\ \A r \in RemoteOf(p.xact) \ {s} :
           t.blk[p.xact[r].timerHolding] = p.tl.blk[p.xact[r].timerHolding]
  <2> HIDE DEF tm
  <2>1. LibInv(p) /\ KeepsSettings(p.tl, t, p.xact[s].timerHolding)
    BY ZenonT(60), <1>4, <1>5
  <2>2. QED
    BY SMTT(60), <1>5, <1>6, <2>1, RetimeLib
<1>8. Expired(p, u, s, now)
  BY <1>1, <1>2, <1>4, <1>5, <1>7 DEF Expired
<1>9. QED
  BY SMTT(60), <1>4, <1>8 DEF u
-----------------------------------------------------------------------------
(* Transaction ids. *)

(* Ids are given out in turn, from the smallest again after the largest. *)
LEMMA AheadCases ==
  ASSUME NEW g \in 1 .. PFCP_MAX_XACT_ID, NEW k \in 0 .. PFCP_MAX_XACT_ID - 2
  PROVE  Ahead(g, k) = IF g + k < PFCP_MAX_XACT_ID THEN g + k ELSE g + k - (PFCP_MAX_XACT_ID - 1)
<1>1. PICK m \in Nat \ {0} : m = PFCP_MAX_XACT_ID - 1
  BY CountAssumption
<1>2. g \in Int /\ k \in Int /\ g - 1 + k \in 0 .. 2 * m - 1 /\ PFCP_MAX_XACT_ID = m + 1
  <2>1. PFCP_MAX_XACT_ID = m + 1
    BY <1>1, CountAssumption
  <2>2. g \in 1 .. m + 1 /\ k \in 0 .. m - 1
    BY <1>1, <2>1
  <2>3. QED
    BY <2>1, <2>2
<1>3. Ahead(g, k) = ((g - 1 + k) % m) + 1
  BY <1>1 DEF Ahead
<1>4. CASE g + k < PFCP_MAX_XACT_ID
  <2>1. g - 1 + k \in 0 .. m - 1
    BY <1>2, <1>4
  <2>2. (g - 1 + k) % m = g - 1 + k
    BY <1>1, <2>1, SMT
  <2>3. QED
    BY <1>2, <1>3, <1>4, <2>2
<1>5. CASE ~(g + k < PFCP_MAX_XACT_ID)
  <2>1. g - 1 + k \in m .. 2 * m - 1
    BY <1>2, <1>5
  <2>2. (g - 1 + k) % m = g - 1 + k - m
    BY <1>1, <2>1, SMT
  <2>3. QED
    BY <1>1, <1>2, <1>3, <1>5, <2>2
<1>6. QED
  BY <1>4, <1>5

(* The next id is the one ahead, and those after it follow. *)
LEMMA AheadNext ==
  ASSUME NEW g \in 1 .. PFCP_MAX_XACT_ID
  PROVE  /\ NextXactId(g) = Ahead(g, 0)
         /\ \A k \in 0 .. PFCP_MAX_XACT_ID - 3 : /\ Ahead(NextXactId(g) + 1, k) = Ahead(g, k + 1)
                                                 /\ Ahead(g, k + 1) # Ahead(g, 0)
<1>1. PFCP_MAX_XACT_ID \in Nat /\ PFCP_MAX_XACT_ID > 1
  BY CountAssumption
<1>2. NextXactId(g) = IF g = PFCP_MAX_XACT_ID THEN 1 ELSE g
  BY <1>1 DEF NextXactId, PFCP_MIN_XACT_ID
<1>3. Ahead(g, 0) = IF g < PFCP_MAX_XACT_ID THEN g ELSE g - (PFCP_MAX_XACT_ID - 1)
  BY <1>1, AheadCases
<1>4. NextXactId(g) = Ahead(g, 0)
  BY <1>1, <1>2, <1>3
<1>5. ASSUME NEW k \in 0 .. PFCP_MAX_XACT_ID - 3
      PROVE  /\ Ahead(NextXactId(g) + 1, k) = Ahead(g, k + 1)
             /\ Ahead(g, k + 1) # Ahead(g, 0)
  <2>1. /\ k \in 0 .. PFCP_MAX_XACT_ID - 2 /\ k + 1 \in 0 .. PFCP_MAX_XACT_ID - 2
        /\ NextXactId(g) + 1 \in 1 .. PFCP_MAX_XACT_ID
    BY <1>1, <1>2
  <2>2. Ahead(g, k + 1) = IF g + (k + 1) < PFCP_MAX_XACT_ID THEN g + (k + 1)
                          ELSE g + (k + 1) - (PFCP_MAX_XACT_ID - 1)
    BY <2>1, AheadCases
  <2>3. Ahead(NextXactId(g) + 1, k) =
          IF (NextXactId(g) + 1) + k < PFCP_MAX_XACT_ID THEN (NextXactId(g) + 1) + k
          ELSE (NextXactId(g) + 1) + k - (PFCP_MAX_XACT_ID - 1)
    BY <2>1, AheadCases
  <2>4. CASE g = PFCP_MAX_XACT_ID
    BY <1>1, <1>2, <1>3, <2>1, <2>2, <2>3, <2>4
  <2>5. CASE g # PFCP_MAX_XACT_ID
    BY <1>1, <1>2, <1>3, <2>1, <2>2, <2>3, <2>5
  <2>6. QED
    BY <2>4, <2>5
<1>6. QED
  BY <1>4, <1>5

-----------------------------------------------------------------------------
(* The queue. *)

(* What the next event leaves. *)
LEMMA PopSeq ==
  ASSUME NEW S, NEW q \in Seq(S), q # << >>
  PROVE  /\ Tail(q) \in Seq(S) /\ Len(Tail(q)) = Len(q) - 1 /\ Len(q) \in Nat \ {0}
         /\ Head(q) = q[1] /\ Head(q) \in S
         /\ \A i \in 1 .. Len(Tail(q)) : i + 1 \in 1 .. Len(q) /\ i # i + 1 /\ Tail(q)[i] = q[i + 1]
<1>1. Tail(q) \in Seq(S) /\ Len(Tail(q)) = Len(q) - 1 /\ Len(q) \in Nat \ {0} /\ Head(q) \in S
  BY HeadTailProperties, EmptySeq, LenProperties
<1>2. Head(q) = q[1]
  OBVIOUS
<1>3. ASSUME NEW i \in 1 .. Len(Tail(q)) PROVE i + 1 \in 1 .. Len(q) /\ i # i + 1 /\ Tail(q)[i] = q[i + 1]
  <2>1. i + 1 \in 1 .. Len(q) /\ i # i + 1 /\ i \in 1 .. Len(q) - 1
    BY <1>1
  <2>2. QED
    BY <1>1, <2>1, HeadTailProperties
<1>4. QED
  BY <1>1, <1>2, <1>3

(* What handling the event e leaves alone. *)
Spares(p, u, e) ==
  /\ \A s \in RemoteOf(u.xact) :
       \/ s \in RemoteOf(p.xact) /\ u.xact[s].transactionId = p.xact[s].transactionId
       \/ IsMessage(e) /\ e.msg \in Requests /\ u.xact[s].transactionId = e.id
  /\ \A s \in LocalOf(p.xact) :
       \/ /\ s \in LocalOf(u.xact) /\ u.xact[s].transactionId = p.xact[s].transactionId
          /\ u.xact[s].step = p.xact[s].step
       \/ IsMessage(e) /\ e.msg \notin Requests /\ p.xact[s].transactionId = e.id
  /\ \A s \in RemoteOf(p.xact) :
       \/ /\ s \in RemoteOf(u.xact)
          /\ u.tl.blk[u.xact[s].timerHolding] = p.tl.blk[p.xact[s].timerHolding]
       \/ IsTimeout(e) /\ e.index = s

(* The rest of the queue stays sound when its first event is handled.      *)
LEMMA PopKeeps ==
  ASSUME NEW p, NEW u, NEW q, NEW c, EventInv(p, q, c), q # << >>, Spares(p, u, Head(q)),
         LocalIds(u.xact, u.globalXactId, Tail(q))
  PROVE  EventInv(u, Tail(q), c)
<1> DEFINE r == Tail(q)
           e == Head(q)
<1>1. /\ q \in Seq(Event) /\ Len(q) <= QCap /\ c \in 0 .. MaxTime
      /\ Messages(p.xact, q) /\ Timeouts(p.xact, p.tl, q, c)
  BY DEF EventInv
<1>2. /\ r \in Seq(Event) /\ Len(r) = Len(q) - 1 /\ Len(q) \in Nat \ {0} /\ e = q[1] /\ 1 \in 1 .. Len(q)
      /\ \A i \in 1 .. Len(r) : i + 1 \in 1 .. Len(q) /\ i + 1 # 1 /\ r[i] = q[i + 1]
  BY <1>1, PopSeq
<1>3. Len(r) <= QCap
  BY <1>1, <1>2, N4Assumption
<1> HIDE DEF r, e
<1>4. Messages(u.xact, r)
  <2>1. ASSUME NEW i \in 1 .. Len(r), IsMessage(r[i])
        PROVE  IF r[i].msg \in Requests THEN Fresh(u.xact, r[i]) ELSE Awaited(u.xact, r[i])
    <3>1. PICK f, n : f = r[i] /\ n = i + 1 /\ n \in 1 .. Len(q) /\ n # 1 /\ f = q[n] /\ IsMessage(f)
      BY <1>2, <2>1
    <3>2. IsMessage(e) /\ e.id = f.id => ~SameStage(e, f)
      BY <1>1, <1>2, <3>1 DEF Messages
    <3>3. CASE f.msg \in Requests
      <4>1. Fresh(p.xact, f)
        BY <1>1, <3>1, <3>3 DEF Messages
      <4>2. Fresh(u.xact, f)
        BY <3>2, <3>3, <4>1 DEF Fresh, Spares, SameStage, e
      <4>3. QED
        BY <3>1, <3>3, <4>2
    <3>4. CASE f.msg \notin Requests
      <4>1. PICK s \in LocalOf(p.xact) : p.xact[s].transactionId = f.id /\ p.xact[s].step = 1
        BY <1>1, <3>1, <3>4 DEF Messages, Awaited
      <4>2. /\ s \in LocalOf(u.xact) /\ u.xact[s].transactionId = p.xact[s].transactionId
            /\ u.xact[s].step = p.xact[s].step
        BY <3>2, <3>4, <4>1 DEF Spares, SameStage, e
      <4>3. QED
        BY <3>1, <3>4, <4>1, <4>2 DEF Awaited
    <3>5. QED
      BY <3>3, <3>4
  <2>2. ASSUME NEW i \in 1 .. Len(r), NEW j \in 1 .. Len(r),
               IsMessage(r[i]), IsMessage(r[j]), r[i].id = r[j].id, SameStage(r[i], r[j])
        PROVE  i = j
    <3>1. i + 1 = j + 1
      BY <1>1, <1>2, <2>2 DEF Messages
    <3>2. QED
      BY <1>2, <3>1
  <2>3. QED
    BY <2>1, <2>2 DEF Messages
<1>5. Timeouts(u.xact, u.tl, r, c)
  <2>1. ASSUME NEW i \in 1 .. Len(r), IsTimeout(r[i]) PROVE Stopped(u.xact, u.tl, r[i].index, c)
    <3>1. PICK s, n : s = r[i].index /\ n = i + 1 /\ n \in 1 .. Len(q) /\ n # 1 /\ r[i] = q[n]
      BY <1>2
    <3>2. Stopped(p.xact, p.tl, s, c)
      BY <1>1, <2>1, <3>1 DEF Timeouts
    <3>3. ~(IsTimeout(e) /\ e.index = s)
      BY <1>1, <1>2, <2>1, <3>1 DEF Timeouts
    <3>4. /\ s \in RemoteOf(u.xact)
          /\ u.tl.blk[u.xact[s].timerHolding] = p.tl.blk[p.xact[s].timerHolding]
      BY <3>2, <3>3 DEF Stopped, Spares, e
    <3>5. Stopped(u.xact, u.tl, s, c)
      BY <3>2, <3>4, Zenon DEF Stopped
    <3>6. QED
      BY <3>1, <3>5, Zenon
  <2>2. ASSUME NEW i \in 1 .. Len(r), NEW j \in 1 .. Len(r),
               IsTimeout(r[i]), IsTimeout(r[j]), r[i].index = r[j].index
        PROVE  i = j
    <3>1. i + 1 = j + 1
      BY <1>1, <1>2, <2>2 DEF Timeouts
    <3>2. QED
      BY <1>2, <3>1
  <2>3. QED
    BY <2>1, <2>2 DEF Timeouts
<1>6. QED
  BY <1>1, <1>2, <1>3, <1>4, <1>5 DEF EventInv, r

(* No report is added: those there and those asked for keep their ids.     *)
LEMMA IdsKept ==
  ASSUME NEW x, NEW z, NEW g, NEW S, NEW q \in Seq(S), q # << >>, LocalIds(x, g, q),
         \A s \in LocalOf(z) : s \in LocalOf(x) /\ z[s].transactionId = x[s].transactionId
  PROVE  LocalIds(z, g, Tail(q))
<1> DEFINE r == Tail(q)
<1>1. \A i \in 1 .. Len(r) : i + 1 \in 1 .. Len(q) /\ r[i] = q[i + 1]
  BY PopSeq
<1> HIDE DEF r
<1>2. ASSUME NEW i \in 1 .. Len(r), r[i] = SessionReport, NEW s \in LocalOf(z), NEW k \in 0 .. i - 1
      PROVE  z[s].transactionId # Ahead(g, k)
  <2>1. PICK n : n = i + 1 /\ n \in 1 .. Len(q) /\ q[n] = SessionReport /\ k \in 0 .. n - 1
    BY <1>1, <1>2
  <2>2. x[s].transactionId # Ahead(g, k)
    BY <2>1 DEF LocalIds
  <2>3. QED
    BY <2>2
<1>3. \A s, t \in LocalOf(z) : z[s].transactionId = z[t].transactionId => s = t
  BY DEF LocalIds
<1>4. QED
  BY <1>2, <1>3 DEF LocalIds, r

(* A report that was asked for takes its id.                               *)
LEMMA IdsTaken ==
  ASSUME NEW x, NEW z, NEW g \in 1 .. PFCP_MAX_XACT_ID, NEW S, NEW q \in Seq(S), q # << >>,
         Len(q) <= QCap, Head(q) = SessionReport, LocalIds(x, g, q), NEW s,
         LocalOf(z) = LocalOf(x) \cup {s}, z[s].transactionId = NextXactId(g),
         \A r \in LocalOf(x) : z[r].transactionId = x[r].transactionId
  PROVE  LocalIds(z, NextXactId(g) + 1, Tail(q))
<1> DEFINE r == Tail(q)
           h == NextXactId(g) + 1
<1>1. /\ \A i \in 1 .. Len(r) : i + 1 \in 1 .. Len(q) /\ r[i] = q[i + 1]
      /\ q[1] = SessionReport /\ 1 \in 1 .. Len(q) /\ Len(q) \in Nat /\ Len(r) = Len(q) - 1
  BY PopSeq
<1>2. /\ NextXactId(g) = Ahead(g, 0)
      /\ \A k \in 0 .. PFCP_MAX_XACT_ID - 3 : /\ Ahead(h, k) = Ahead(g, k + 1)
                                              /\ Ahead(g, k + 1) # Ahead(g, 0)
  BY AheadNext
<1> HIDE DEF r, h
<1>3. \A l \in LocalOf(x) : x[l].transactionId # Ahead(g, 0)
  <2>1. 0 \in 0 .. 1 - 1
    OBVIOUS
  <2>2. QED
    BY <1>1, <2>1 DEF LocalIds
<1>4. ASSUME NEW i \in 1 .. Len(r), r[i] = SessionReport, NEW l \in LocalOf(z), NEW k \in 0 .. i - 1
      PROVE  z[l].transactionId # Ahead(h, k)
  <2>1. PICK n : n = i + 1 /\ n \in 1 .. Len(q) /\ q[n] = SessionReport
    BY <1>1, <1>4
  <2>2. k + 1 \in 0 .. n - 1 /\ k \in 0 .. PFCP_MAX_XACT_ID - 3
    <3>1. i \in 1 .. Len(q) - 1 /\ k \in 0 .. i - 1
      BY <1>1
    <3>2. QCap \in Nat /\ QCap < PFCP_MAX_XACT_ID /\ PFCP_MAX_XACT_ID \in Nat /\ Len(q) \in Nat
      BY <1>1, N4Assumption, CountAssumption
    <3>3. QED
      BY <2>1, <3>1, <3>2
  <2>3. Ahead(h, k) = Ahead(g, k + 1) /\ Ahead(g, k + 1) # Ahead(g, 0)
    BY <1>2, <2>2
  <2>4. CASE l = s
    BY <1>2, <2>3, <2>4
  <2>5. CASE l # s
    <3>1. l \in LocalOf(x) /\ z[l].transactionId = x[l].transactionId
      BY <2>5
    <3>2. x[l].transactionId # Ahead(g, k + 1)
      BY <2>1, <2>2, <3>1 DEF LocalIds
    <3>3. QED
      BY <2>3, <3>1, <3>2
  <2>6. QED
    BY <2>4, <2>5
<1>5. ASSUME NEW l \in LocalOf(z), NEW m \in LocalOf(z), z[l].transactionId = z[m].transactionId
      PROVE  l = m
  <2>1. \A l1 \in LocalOf(z) \ {s} : l1 \in LocalOf(x) /\ z[l1].transactionId = x[l1].transactionId
    OBVIOUS
  <2>2. CASE l = s \/ m = s
    BY <1>2, <1>3, <1>5, <2>1, <2>2
  <2>3. CASE l # s /\ m # s
    BY <1>5, <2>1, <2>3 DEF LocalIds
  <2>4. QED
    BY <2>2, <2>3
<1>6. QED
  BY <1>4, <1>5 DEF LocalIds, r, h

(* What may be sent to the queue. *)
Accepts(p, q, e, c) ==
  /\ e = SessionReport =>
       \A s \in LocalOf(p.xact), k \in 0 .. Len(q) : p.xact[s].transactionId # Ahead(p.globalXactId, k)
  /\ IsMessage(e) =>
       /\ IF e.msg \in Requests THEN Fresh(p.xact, e) ELSE Awaited(p.xact, e)
       /\ \A i \in 1 .. Len(q) : IsMessage(q[i]) /\ SameStage(q[i], e) => q[i].id # e.id
  /\ IsTimeout(e) =>
       /\ Stopped(p.xact, p.tl, e.index, c)
       /\ \A i \in 1 .. Len(q) : IsTimeout(q[i]) => q[i].index # e.index

(* A queue that gets an event, or is full and loses it, stays sound.       *)
LEMMA PushKeeps ==
  ASSUME NEW p, NEW q, NEW c, EventInv(p, q, c), NEW e \in Event, Accepts(p, q, e, c)
  PROVE  EventInv(p, IF Len(q) < QCap THEN Append(q, e) ELSE q, c)
<1> DEFINE r == Append(q, e)
<1>1. /\ q \in Seq(Event) /\ Len(q) <= QCap /\ Len(q) \in Nat /\ c \in 0 .. MaxTime
      /\ LocalIds(p.xact, p.globalXactId, q) /\ Messages(p.xact, q) /\ Timeouts(p.xact, p.tl, q, c)
  BY LenProperties DEF EventInv
<1>2. /\ r \in Seq(Event) /\ Len(r) = Len(q) + 1
      /\ \A i \in 1 .. Len(q) : r[i] = q[i]
      /\ r[Len(r)] = e
      /\ \A i \in 1 .. Len(r) : i \in 1 .. Len(q) \/ (i = Len(q) + 1 /\ r[i] = e)
  <2>1. r \in Seq(Event) /\ Len(r) = Len(q) + 1
    BY <1>1, AppendProperties
  <2>2. \A i \in 1 .. Len(q) : r[i] = q[i]
    BY <1>1, AppendProperties
  <2>3. r[Len(r)] = e
    BY <1>1, <2>1, AppendProperties
  <2>4. QED
    BY <1>1, <2>1, <2>2, <2>3
<1> HIDE DEF r
<1>3. LocalIds(p.xact, p.globalXactId, r)
  <2>1. ASSUME NEW i \in 1 .. Len(r), r[i] = SessionReport, NEW s \in LocalOf(p.xact), NEW k \in 0 .. i - 1
        PROVE  p.xact[s].transactionId # Ahead(p.globalXactId, k)
    <3>1. CASE i \in 1 .. Len(q)
      BY <1>1, <1>2, <2>1, <3>1 DEF LocalIds
    <3>2. CASE i = Len(q) + 1 /\ r[i] = e
      <4>1. k \in 0 .. Len(q)
        BY <1>1, <3>2
      <4>2. QED
        BY <2>1, <3>2, <4>1 DEF Accepts
    <3>3. QED
      BY <1>2, <3>1, <3>2
  <2>2. QED
    BY <1>1, <2>1 DEF LocalIds
<1>4. Messages(p.xact, r)
  <2>1. ASSUME NEW i \in 1 .. Len(r), IsMessage(r[i])
        PROVE  IF r[i].msg \in Requests THEN Fresh(p.xact, r[i]) ELSE Awaited(p.xact, r[i])
    <3>1. CASE i \in 1 .. Len(q)
      BY <1>1, <1>2, <2>1, <3>1 DEF Messages
    <3>2. CASE r[i] = e
      BY <2>1, <3>2 DEF Accepts
    <3>3. QED
      BY <1>2, <3>1, <3>2
  <2>2. ASSUME NEW i \in 1 .. Len(r), NEW j \in 1 .. Len(r),
               IsMessage(r[i]), IsMessage(r[j]), r[i].id = r[j].id, SameStage(r[i], r[j])
        PROVE  i = j
    <3>1. CASE i \in 1 .. Len(q) /\ j \in 1 .. Len(q)
      BY <1>1, <1>2, <2>2, <3>1 DEF Messages
    <3>2. ASSUME NEW n \in 1 .. Len(q), IsMessage(q[n]), IsMessage(e), SameStage(q[n], e), q[n].id = e.id
          PROVE  FALSE
      BY <3>2 DEF Accepts
    <3>3. CASE i \in 1 .. Len(q) /\ j \notin 1 .. Len(q)
      BY <1>2, <2>2, <3>2, <3>3
    <3>4. CASE i \notin 1 .. Len(q) /\ j \in 1 .. Len(q)
      <4>1. SameStage(r[j], r[i])
        BY <2>2 DEF SameStage
      <4>2. QED
        BY <1>2, <2>2, <3>2, <3>4, <4>1
    <3>5. CASE i \notin 1 .. Len(q) /\ j \notin 1 .. Len(q)
      BY <1>2, <3>5
    <3>6. QED
      BY <3>1, <3>3, <3>4, <3>5
  <2>3. QED
    BY <2>1, <2>2 DEF Messages
<1>5. Timeouts(p.xact, p.tl, r, c)
  <2>1. ASSUME NEW i \in 1 .. Len(r), IsTimeout(r[i]) PROVE Stopped(p.xact, p.tl, r[i].index, c)
    <3>1. CASE i \in 1 .. Len(q)
      BY <1>1, <1>2, <2>1, <3>1 DEF Timeouts
    <3>2. CASE r[i] = e
      BY <2>1, <3>2 DEF Accepts
    <3>3. QED
      BY <1>2, <3>1, <3>2
  <2>2. ASSUME NEW i \in 1 .. Len(r), NEW j \in 1 .. Len(r),
               IsTimeout(r[i]), IsTimeout(r[j]), r[i].index = r[j].index
        PROVE  i = j
    <3>1. CASE i \in 1 .. Len(q) /\ j \in 1 .. Len(q)
      BY <1>1, <1>2, <2>2, <3>1 DEF Timeouts
    <3>2. ASSUME NEW n \in 1 .. Len(q), IsTimeout(q[n]), IsTimeout(e), q[n].index = e.index
          PROVE  FALSE
      BY <3>2 DEF Accepts
    <3>3. CASE ~(i \in 1 .. Len(q) /\ j \in 1 .. Len(q))
      BY <1>2, <2>2, <3>2, <3>3
    <3>4. QED
      BY <3>1, <3>3
  <2>3. QED
    BY <2>1, <2>2 DEF Timeouts
<1>6. Len(q) < QCap => Len(r) <= QCap
  BY <1>1, <1>2, N4Assumption
<1>7. Len(q) < QCap => EventInv(p, r, c)
  BY <1>1, <1>2, <1>3, <1>4, <1>5, <1>6 DEF EventInv
<1>8. QED
  BY <1>7 DEF r

(* The timer of a transaction that expires had no timeout in the queue.    *)
LEMMA ExpireKeeps ==
  ASSUME NEW p, NEW u, NEW q, NEW c, EventInv(p, q, c), NEW s \in RemoteOf(p.xact),
         Expired(p, u, s, c % TimeMod)
  PROVE  EventInv(u, q, c) /\ \A i \in 1 .. Len(q) : IsTimeout(q[i]) => q[i].index # s
<1>1. \A i \in 1 .. Len(q) : IsTimeout(q[i]) => q[i].index # s
  <2> SUFFICES ASSUME NEW i \in 1 .. Len(q), IsTimeout(q[i]), q[i].index = s PROVE FALSE
    OBVIOUS
  <2>1. Stopped(p.xact, p.tl, s, c)
    BY DEF EventInv, Timeouts
  <2>2. QED
    BY <2>1 DEF Stopped, Expired
<1>2. u.xact = p.xact /\ u.globalXactId = p.globalXactId
  BY DEF Expired
<1>3. Timeouts(u.xact, u.tl, q, c)
  <2>1. ASSUME NEW i \in 1 .. Len(q), IsTimeout(q[i]) PROVE Stopped(u.xact, u.tl, q[i].index, c)
    <3>1. PICK n : n = q[i].index
      OBVIOUS
    <3>2. Stopped(p.xact, p.tl, n, c) /\ n # s
      BY <1>1, <2>1, <3>1 DEF EventInv, Timeouts
    <3>3. n \in RemoteOf(p.xact)
      BY <3>2 DEF Stopped
    <3>4. u.tl.blk[p.xact[n].timerHolding] = p.tl.blk[p.xact[n].timerHolding]
      BY <3>2, <3>3, Zenon DEF Expired
    <3>5. Stopped(u.xact, u.tl, n, c)
      BY <1>2, <3>2, <3>4, Zenon DEF Stopped
    <3>6. QED
      BY <3>1, <3>5, Zenon
  <2>2. QED
    BY <2>1 DEF EventInv, Timeouts
<1>4. EventInv(u, q, c)
  BY <1>2, <1>3 DEF EventInv
<1>5. QED
  BY SMTT(60), <1>1, <1>4
-----------------------------------------------------------------------------
(* The steps. *)

(* The transactions that a step leaves in use. *)
Lasting(p, u) == UseOf(p.xact) \subseteq UseOf(u.xact)

(* An event by its type. *)
LEMMA EventCases ==
  ASSUME NEW e \in Event
  PROVE  /\ IsMessage(e) <=> e \in MessageEvent
         /\ e.type = "SESSION_REPORT" <=> e = SessionReport
         /\ IsTimeout(e) <=> e \in TimeoutEvent
         /\ e.type # "T3_RESPONSE" /\ SessionReport.type = "SESSION_REPORT"
  BY DEF Event, MessageEvent, TimeoutEvent, SessionReport, IsMessage, IsTimeout

(* The truncated time is a natural number.                                 *)
LEMMA NowIsNat == ASSUME clock \in Nat PROVE CurTime \in Nat /\ CurTime = clock % TimeMod
  BY TimeModAssumption DEF CurTime

(* An event is handled and changes nothing. *)
LEMMA DropKeeps ==
  ASSUME Inv, eventQ # << >>, pf' = pf, eventQ' = Tail(eventQ), clock' = clock
  PROVE  Inv' /\ Lasting(pf, pf')
<1>1. LibInv(pf) /\ EventInv(pf, eventQ, clock)
  BY DEF Inv
<1>2. Spares(pf, pf, Head(eventQ))
  BY DEF Spares
<1>3. LocalIds(pf.xact, pf.globalXactId, Tail(eventQ))
  <2>1. eventQ \in Seq(Event) /\ LocalIds(pf.xact, pf.globalXactId, eventQ)
    BY <1>1 DEF EventInv
  <2>2. \A s \in LocalOf(pf.xact) : s \in LocalOf(pf.xact) /\ pf.xact[s].transactionId = pf.xact[s].transactionId
    OBVIOUS
  <2>3. QED
    BY <2>1, <2>2, IdsKept
<1>4. EventInv(pf, Tail(eventQ), clock)
  BY <1>1, <1>2, <1>3, PopKeeps
<1>5. LibInv(pf') /\ EventInv(pf', eventQ', clock')
  BY <1>1, <1>4
<1>6. QED
  BY <1>5 DEF Inv, Lasting

(* A request. *)
LEMMA RequestStep ==
  ASSUME RoomForTimers, Inv, eventQ # << >>, NEW e, e = Head(eventQ), IsMessage(e),
         e.msg \in Requests, NEW done \in BOOLEAN,
         pf' = Handled(pf, e.msg, e.id, done), eventQ' = Tail(eventQ), clock' = clock
  PROVE  Inv' /\ Lasting(pf, pf')
<1>1. /\ LibInv(pf) /\ EventInv(pf, eventQ, clock) /\ eventQ \in Seq(Event)
      /\ LocalIds(pf.xact, pf.globalXactId, eventQ) /\ clock \in Nat
      /\ RemoteOf(pf.xact) \subseteq UseOf(pf.xact) /\ LocalOf(pf.xact) \subseteq UseOf(pf.xact)
      /\ UseOf(pf.xact) \subseteq Slot
  BY N4Assumption DEF Inv, EventInv, RemoteOf, LocalOf, UseOf
<1>2. e = eventQ[1] /\ 1 \in 1 .. Len(eventQ) /\ e \in Event
  BY <1>1, PopSeq
<1>3. e.id \in Ids
  BY <1>2, EventCases DEF MessageEvent
<1>4. \A s \in RemoteOf(pf.xact) : pf.xact[s].transactionId # e.id
  BY <1>1, <1>2 DEF EventInv, Messages, Fresh
<1>5. pf' = pf \/ \E s \in Slot \ UseOf(pf.xact) : Began(pf, pf', s, e.id)
  BY <1>1, <1>3, <1>4, RequestLib
<1>6. CASE pf' = pf
  BY <1>6, DropKeeps
<1>7. ASSUME NEW s \in Slot \ UseOf(pf.xact), Began(pf, pf', s, e.id) PROVE Inv' /\ Lasting(pf, pf')
  <2>1. PICK u : u = pf'
    BY SMTT(60)
  <2>2. /\ LibInv(u) /\ (\A r \in Slot \ {s} : u.xact[r] = pf.xact[r]) /\ u.xact[s].transactionId = e.id
        /\ RemoteOf(u.xact) = RemoteOf(pf.xact) \cup {s} /\ LocalOf(u.xact) = LocalOf(pf.xact)
        /\ u.globalXactId = pf.globalXactId
        /\ \A r \in RemoteOf(pf.xact) :
             u.tl.blk[pf.xact[r].timerHolding] = pf.tl.blk[pf.xact[r].timerHolding]
    BY <1>7, <2>1 DEF Began, Only
  <2>3. \A r \in UseOf(pf.xact) : u.xact[r] = pf.xact[r]
    BY <1>1, <2>2
  <2>4. Spares(pf, u, e)
    <3>1. \A r \in RemoteOf(u.xact) : \/ /\ r \in RemoteOf(pf.xact)
                                         /\ u.xact[r].transactionId = pf.xact[r].transactionId
                                      \/ u.xact[r].transactionId = e.id
      BY <1>1, <2>2, <2>3
    <3>2. \A r \in LocalOf(pf.xact) : /\ r \in LocalOf(u.xact)
                                      /\ u.xact[r].transactionId = pf.xact[r].transactionId
                                      /\ u.xact[r].step = pf.xact[r].step
      BY <1>1, <2>2, <2>3
    <3>3. \A r \in RemoteOf(pf.xact) :
            /\ r \in RemoteOf(u.xact)
            /\ u.tl.blk[u.xact[r].timerHolding] = pf.tl.blk[pf.xact[r].timerHolding]
      BY <1>1, <2>2, <2>3
    <3>4. QED
      BY <3>1, <3>2, <3>3 DEF Spares
  <2>5. LocalIds(u.xact, u.globalXactId, Tail(eventQ))
    <3>1. \A r \in LocalOf(u.xact) : r \in LocalOf(pf.xact) /\ u.xact[r].transactionId = pf.xact[r].transactionId
      BY <1>1, <2>2, <2>3
    <3>2. PICK x, z, g : x = pf.xact /\ z = u.xact /\ g = pf.globalXactId
      OBVIOUS
    <3>3. LocalIds(x, g, eventQ) /\ \A r \in LocalOf(z) : r \in LocalOf(x) /\ z[r].transactionId = x[r].transactionId
      BY <1>1, <3>1, <3>2
    <3>4. LocalIds(z, g, Tail(eventQ))
      BY <1>1, <3>3, IdsKept
    <3>5. QED
      BY <2>2, <3>2, <3>4
  <2>6. EventInv(u, Tail(eventQ), clock)
    BY SMTT(60), <1>1, <2>4, <2>5, PopKeeps
  <2>7. LibInv(pf') /\ EventInv(pf', eventQ', clock')
    BY <2>1, <2>2, <2>6
  <2>8. s \in UseOf(u.xact) /\ UseOf(pf.xact) \subseteq UseOf(u.xact)
    BY <1>1, <2>2, <2>3 DEF UseOf, RemoteOf
  <2>9. QED
    BY <2>1, <2>7, <2>8 DEF Inv, Lasting
<1>8. QED
  BY <1>5, <1>6, <1>7

(* A message event is made of its type and its id.                         *)
LEMMA MessageForm == ASSUME NEW e \in MessageEvent PROVE e = Message(e.msg, e.id)
  BY DEF MessageEvent, Message

(* A response. *)
LEMMA ResponseStep ==
  ASSUME Inv, eventQ # << >>, NEW e, e = Head(eventQ), IsMessage(e),
         e.msg \notin Requests, NEW done \in BOOLEAN,
         pf' = Handled(pf, e.msg, e.id, done), eventQ' = Tail(eventQ), clock' = clock
  PROVE  /\ Inv' /\ RemoteOf(pf.xact) \subseteq UseOf(pf'.xact)
         /\ \A s \in LocalOf(pf.xact) :
              s \in UseOf(pf'.xact)
                \/ e = Message("SESSION_REPORT_RESPONSE", pf.xact[s].transactionId)
<1>1. /\ LibInv(pf) /\ EventInv(pf, eventQ, clock) /\ eventQ \in Seq(Event)
      /\ LocalIds(pf.xact, pf.globalXactId, eventQ)
      /\ RemoteOf(pf.xact) \subseteq UseOf(pf.xact) /\ LocalOf(pf.xact) \subseteq UseOf(pf.xact)
      /\ UseOf(pf.xact) \subseteq Slot
      /\ \A s \in RemoteOf(pf.xact) : s \notin LocalOf(pf.xact)
  BY DEF Inv, EventInv, RemoteOf, LocalOf, UseOf
<1>2. e = eventQ[1] /\ 1 \in 1 .. Len(eventQ) /\ e \in Event
  BY <1>1, PopSeq
<1>3. e.msg \in Responses /\ e = Message(e.msg, e.id)
  <2>1. e \in MessageEvent
    BY <1>2, EventCases
  <2>2. e.msg \in Types
    BY <2>1 DEF MessageEvent
  <2>3. QED
    BY <2>1, <2>2, MessageForm DEF Types
<1>4. PICK l \in LocalOf(pf.xact) : pf.xact[l].transactionId = e.id /\ pf.xact[l].step = 1
  BY <1>1, <1>2 DEF EventInv, Messages, Awaited
<1>5. \A s \in LocalOf(pf.xact) : pf.xact[s].transactionId = pf.xact[l].transactionId => s = l
  BY <1>1 DEF LocalIds
<1>6. PICK u : u = pf'
  OBVIOUS
<1>7. Answered(pf, u, l, e.msg)
  BY <1>1, <1>3, <1>4, <1>5, <1>6, ResponseLib
<1>8. /\ LibInv(u) /\ (\A r \in Slot \ {l} : u.xact[r] = pf.xact[r]) /\ RemoteOf(u.xact) = RemoteOf(pf.xact)
      /\ u.globalXactId = pf.globalXactId /\ u.tl.blk = pf.tl.blk
      /\ LocalOf(pf.xact) \ {l} \subseteq LocalOf(u.xact)
      /\ LocalOf(u.xact) \subseteq LocalOf(pf.xact)
      /\ \/ l \in LocalOf(u.xact) /\ u.xact[l].transactionId = pf.xact[l].transactionId
         \/ e.msg = "SESSION_REPORT_RESPONSE" /\ l \notin LocalOf(u.xact)
  BY <1>7 DEF Answered, Only
<1>9. \A r \in UseOf(pf.xact) \ {l} : u.xact[r] = pf.xact[r]
  BY <1>1, <1>8
<1>10. \A r \in RemoteOf(pf.xact) : r \in RemoteOf(u.xact) /\ u.xact[r] = pf.xact[r]
  BY <1>1, <1>4, <1>8, <1>9
<1>11. Spares(pf, u, e)
  <2>1. \A r \in LocalOf(pf.xact) :
          \/ /\ r \in LocalOf(u.xact) /\ u.xact[r].transactionId = pf.xact[r].transactionId
             /\ u.xact[r].step = pf.xact[r].step
          \/ pf.xact[r].transactionId = e.id
    BY <1>1, <1>4, <1>8, <1>9
  <2>2. \A r \in RemoteOf(u.xact) : /\ r \in RemoteOf(pf.xact)
                                    /\ u.xact[r].transactionId = pf.xact[r].transactionId
    BY <1>8, <1>10
  <2>3. \A r \in RemoteOf(pf.xact) :
          /\ r \in RemoteOf(u.xact)
          /\ u.tl.blk[u.xact[r].timerHolding] = pf.tl.blk[pf.xact[r].timerHolding]
    BY <1>8, <1>10
  <2>4. QED
    BY <2>1, <2>2, <2>3 DEF Spares
<1>12. LocalIds(u.xact, u.globalXactId, Tail(eventQ))
  <2>1. \A r \in LocalOf(u.xact) : r \in LocalOf(pf.xact) /\ u.xact[r].transactionId = pf.xact[r].transactionId
    BY <1>1, <1>8, <1>9
  <2>2. PICK x, z, g : x = pf.xact /\ z = u.xact /\ g = pf.globalXactId
    OBVIOUS
  <2>3. LocalIds(x, g, eventQ) /\ \A r \in LocalOf(z) : r \in LocalOf(x) /\ z[r].transactionId = x[r].transactionId
    BY <1>1, <2>1, <2>2
  <2>4. LocalIds(z, g, Tail(eventQ))
    BY <1>1, <2>3, IdsKept
  <2>5. QED
    BY <1>8, <2>2, <2>4
<1>13. EventInv(u, Tail(eventQ), clock)
  BY <1>1, <1>11, <1>12, PopKeeps
<1>14. LibInv(pf') /\ EventInv(pf', eventQ', clock')
  BY <1>6, <1>8, <1>13
<1>15. RemoteOf(pf.xact) \subseteq UseOf(u.xact)
  BY <1>8 DEF RemoteOf
<1>16. \A s \in LocalOf(pf.xact) :
         s \in UseOf(u.xact) \/ e = Message("SESSION_REPORT_RESPONSE", pf.xact[s].transactionId)
  <2>1. LocalOf(u.xact) \subseteq UseOf(u.xact)
    BY DEF LocalOf
  <2>2. QED
    BY <1>3, <1>4, <1>8, <2>1
<1>17. QED
  BY <1>6, <1>14, <1>15, <1>16 DEF Inv

(* A report that was asked for. *)
LEMMA ReportStep ==
  ASSUME Inv, eventQ # << >>, Head(eventQ) = SessionReport,
         pf' = Report(pf, CurTime), eventQ' = Tail(eventQ), clock' = clock
  PROVE  Inv' /\ Lasting(pf, pf')
<1>1. /\ LibInv(pf) /\ EventInv(pf, eventQ, clock) /\ eventQ \in Seq(Event)
      /\ LocalIds(pf.xact, pf.globalXactId, eventQ) /\ Len(eventQ) <= QCap
      /\ RemoteOf(pf.xact) \subseteq UseOf(pf.xact) /\ LocalOf(pf.xact) \subseteq UseOf(pf.xact)
      /\ UseOf(pf.xact) \subseteq Slot /\ pf.globalXactId \in 1 .. PFCP_MAX_XACT_ID
  BY LibMembers DEF Inv, LibInv, EventInv, RemoteOf, LocalOf, UseOf
<1>2. CASE pf.avail = << >>
  <2>1. pf' = pf
    BY <1>2, NoReport
  <2>2. QED
    BY <2>1, DropKeeps
<1>3. CASE pf.avail # << >>
  <2>1. PICK u, s, g, z, x : /\ u = pf' /\ s = Head(pf.avail) /\ g = pf.globalXactId
                             /\ z = u.xact /\ x = pf.xact
    OBVIOUS
  <2>2. /\ LibInv(u) /\ (\A r \in Slot \ {s} : z[r] = x[r]) /\ s \in Slot \ UseOf(x)
        /\ IsReport(z[s], NextXactId(g))
        /\ RemoteOf(z) = RemoteOf(x) /\ LocalOf(z) = LocalOf(x) \cup {s}
        /\ u.globalXactId = NextXactId(g) + 1 /\ u.tl = pf.tl
    BY ZenonT(60), <1>1, <1>3, <2>1, ReportLib DEF Only
  <2>3. \A r \in UseOf(x) : z[r] = x[r]
    BY <1>1, <2>1, <2>2
  <2>4. Spares(pf, u, Head(eventQ))
    <3>1. \A r \in RemoteOf(z) : r \in RemoteOf(x) /\ z[r].transactionId = x[r].transactionId
      BY <1>1, <2>1, <2>2, <2>3
    <3>2. \A r \in LocalOf(x) : /\ r \in LocalOf(z) /\ z[r].transactionId = x[r].transactionId
                                /\ z[r].step = x[r].step
      BY <1>1, <2>1, <2>2, <2>3
    <3>3. \A r \in RemoteOf(x) :
            r \in RemoteOf(z) /\ u.tl.blk[z[r].timerHolding] = pf.tl.blk[x[r].timerHolding]
      BY <1>1, <2>1, <2>2, <2>3
    <3>4. QED
      BY <2>1, <3>1, <3>2, <3>3 DEF Spares
  <2>5. LocalIds(z, NextXactId(g) + 1, Tail(eventQ))
    <3>1. z[s].transactionId = NextXactId(g) /\ g \in 1 .. PFCP_MAX_XACT_ID /\ LocalIds(x, g, eventQ)
      BY <1>1, <2>1, <2>2 DEF IsReport
    <3>2. \A r \in LocalOf(x) : z[r].transactionId = x[r].transactionId
      BY <1>1, <2>1, <2>3
    <3>3. QED
      BY <1>1, <2>2, <3>1, <3>2, IdsTaken
  <2>6. EventInv(u, Tail(eventQ), clock)
    BY <1>1, <2>1, <2>2, <2>4, <2>5, PopKeeps
  <2>7. LibInv(pf') /\ EventInv(pf', eventQ', clock')
    BY <2>1, <2>2, <2>6
  <2>8. UseOf(pf.xact) \subseteq UseOf(pf'.xact)
    BY <1>1, <2>1, <2>3 DEF UseOf
  <2>9. QED
    BY <2>7, <2>8 DEF Inv, Lasting
<1>4. QED
  BY <1>2, <1>3

(* A timeout. *)
LEMMA TimeoutStep ==
  ASSUME Inv, eventQ # << >>, NEW e, e = Head(eventQ), IsTimeout(e), NEW sent,
         pf' = PfcpXactTimeout(pf, e.index, "T3_HOLDING", sent, CurTime),
         eventQ' = Tail(eventQ), clock' = clock
  PROVE  /\ Inv' /\ LocalOf(pf.xact) \subseteq UseOf(pf'.xact)
         /\ MaxTime < TimeMod =>
              \A s \in RemoteOf(pf.xact) :
                s \in UseOf(pf'.xact) \/ pf.tl.blk[pf.xact[s].timerHolding].expireTime < CurTime
<1>1. /\ LibInv(pf) /\ EventInv(pf, eventQ, clock) /\ eventQ \in Seq(Event)
      /\ LocalIds(pf.xact, pf.globalXactId, eventQ) /\ clock \in Nat
      /\ RemoteOf(pf.xact) \subseteq UseOf(pf.xact) /\ LocalOf(pf.xact) \subseteq UseOf(pf.xact)
      /\ UseOf(pf.xact) \subseteq Slot
      /\ \A s \in RemoteOf(pf.xact) : s \notin LocalOf(pf.xact)
  BY N4Assumption DEF Inv, EventInv, RemoteOf, LocalOf, UseOf
<1>2. e = eventQ[1] /\ 1 \in 1 .. Len(eventQ)
  BY <1>1, PopSeq
<1>3. PICK s, m : s = e.index /\ m = clock % TimeMod
  OBVIOUS
<1>4. Stopped(pf.xact, pf.tl, s, clock)
  BY <1>1, <1>2, <1>3 DEF EventInv, Timeouts
<1>5. /\ s \in RemoteOf(pf.xact)
      /\ MaxTime < TimeMod => pf.tl.blk[pf.xact[s].timerHolding].expireTime < m
  BY <1>3, <1>4, Zenon DEF Stopped
<1>6. PICK u, x, z : u = pf' /\ x = pf.xact /\ z = u.xact
  OBVIOUS
<1>7. CurTime \in Nat /\ CurTime = m
  BY SMTT(60), <1>1, <1>3, NowIsNat
<1>8. /\ LibInv(u) /\ (\A r \in Slot \ {s} : z[r] = x[r]) /\ LocalOf(z) = LocalOf(x)
      /\ u.globalXactId = pf.globalXactId
      /\ \A r \in RemoteOf(x) \ {s} :
           u.tl.blk[x[r].timerHolding] = pf.tl.blk[x[r].timerHolding]
      /\ \/ RemoteOf(z) = RemoteOf(x) /\ z[s].transactionId = x[s].transactionId
         \/ RemoteOf(z) = RemoteOf(x) \ {s}
  <2>1. Elapsed(pf, u, s)
    BY SMTT(60), <1>1, <1>3, <1>5, <1>6, <1>7, TimeoutLib
  <2>2. QED
    BY <1>6, <2>1 DEF Elapsed, Only
<1>9. \A r \in UseOf(x) \ {s} : z[r] = x[r]
  BY SMTT(60), <1>1, <1>6, <1>8
<1>10. Spares(pf, u, e)
  <2>1. \A r \in RemoteOf(z) : r \in RemoteOf(x) /\ z[r].transactionId = x[r].transactionId
    BY <1>1, <1>6, <1>8, <1>9
  <2>2. \A r \in LocalOf(x) : /\ r \in LocalOf(z) /\ z[r].transactionId = x[r].transactionId
                              /\ z[r].step = x[r].step
    BY <1>1, <1>5, <1>6, <1>8, <1>9
  <2>3. \A r \in RemoteOf(x) :
          \/ r \in RemoteOf(z) /\ u.tl.blk[z[r].timerHolding] = pf.tl.blk[x[r].timerHolding]
          \/ r = s
    <3>1. TAKE r \in RemoteOf(x)
    <3>2. CASE r # s
      <4>1. z[r] = x[r] /\ r \in RemoteOf(z)
        BY Zenon, <1>1, <1>6, <1>8, <1>9, <3>2
      <4>2. u.tl.blk[x[r].timerHolding] = pf.tl.blk[x[r].timerHolding]
        BY Zenon, <1>8, <3>2
      <4>3. QED
        BY Zenon, <4>1, <4>2
    <3>3. QED
      BY <3>2
  <2>4. QED
    BY <1>3, <1>6, <2>1, <2>2, <2>3 DEF Spares
<1>11. LocalIds(z, u.globalXactId, Tail(eventQ))
  <2>1. \A r \in LocalOf(z) : r \in LocalOf(x) /\ z[r].transactionId = x[r].transactionId
    BY <1>1, <1>5, <1>6, <1>8, <1>9
  <2>2. LocalIds(x, u.globalXactId, eventQ)
    BY <1>1, <1>6, <1>8
  <2>3. QED
    BY SMTT(60), <1>1, <2>1, <2>2, IdsKept
<1>12. EventInv(u, Tail(eventQ), clock)
  BY SMTT(60), <1>1, <1>6, <1>10, <1>11, PopKeeps
<1>13. LibInv(pf') /\ EventInv(pf', eventQ', clock')
  BY <1>6, <1>8, <1>12
<1>14. LocalOf(x) \subseteq UseOf(z) /\ RemoteOf(x) \ {s} \subseteq UseOf(z)
  BY <1>8 DEF LocalOf, RemoteOf
<1>15. QED
  BY <1>5, <1>6, <1>7, <1>13, <1>14 DEF Inv

(* An event is sent by a step that changes none of the globals. *)
LEMMA SendStep ==
  ASSUME Inv, NEW e \in Event, Accepts(pf, eventQ, e, clock),
         pf' = pf, eventQ' = EventSend(e), clock' = clock
  PROVE  Inv'
<1>1. LibInv(pf) /\ EventInv(pf, eventQ, clock)
  BY DEF Inv
<1>2. EventInv(pf, EventSend(e), clock)
  BY <1>1, PushKeeps DEF EventSend
<1>3. QED
  BY <1>1, <1>2 DEF Inv

(* The events that are sent. *)
LEMMA SentEvents ==
  /\ \A type \in Types \cap PeerTypes, id \in Ids :
       /\ Message(type, id) \in Event /\ Message(type, id).msg = type /\ Message(type, id).id = id
       /\ IsMessage(Message(type, id)) /\ ~IsTimeout(Message(type, id))
       /\ Message(type, id) # SessionReport
  /\ SessionReport \in Event /\ ~IsMessage(SessionReport) /\ ~IsTimeout(SessionReport)
  /\ \A s \in Slot :
       LET e == T3("T3_HOLDING", s)
       IN  /\ e \in Event /\ e.index = s /\ IsTimeout(e) /\ ~IsMessage(e) /\ e # SessionReport
<1>1. ASSUME NEW type \in Types \cap PeerTypes, NEW id \in Ids
      PROVE  /\ Message(type, id) \in MessageEvent
             /\ Message(type, id).type = "N4_MESSAGE"
             /\ Message(type, id).msg = type /\ Message(type, id).id = id
  BY DEF Message, MessageEvent
<1>2. SessionReport.type = "SESSION_REPORT"
  BY DEF SessionReport
<1>3. ASSUME NEW s \in Slot
      PROVE  /\ T3("T3_HOLDING", s) \in TimeoutEvent /\ T3("T3_HOLDING", s).index = s
             /\ T3("T3_HOLDING", s).type = "T3_HOLDING"
  BY DEF T3, TimeoutEvent
<1>4. \A e \in MessageEvent \cup TimeoutEvent : e \in Event
  BY DEF Event
<1>5. SessionReport \in Event
  BY DEF Event
<1>6. ASSUME NEW type \in Types \cap PeerTypes, NEW id \in Ids
      PROVE  /\ Message(type, id) \in Event /\ Message(type, id).msg = type /\ Message(type, id).id = id
             /\ IsMessage(Message(type, id)) /\ ~IsTimeout(Message(type, id))
             /\ Message(type, id) # SessionReport
  BY <1>1, <1>2, <1>4 DEF IsMessage, IsTimeout
<1>7. ASSUME NEW s \in Slot
      PROVE  LET e == T3("T3_HOLDING", s)
             IN  /\ e \in Event /\ e.index = s /\ IsTimeout(e) /\ ~IsMessage(e) /\ e # SessionReport
  BY <1>2, <1>3, <1>4 DEF IsMessage, IsTimeout
<1>8. ~IsMessage(SessionReport) /\ ~IsTimeout(SessionReport)
  BY <1>2 DEF IsMessage, IsTimeout
<1>9. QED
  BY <1>5, <1>6, <1>7, <1>8

(* _pfcpReceiveCB keeps the invariant.                                     *)
LEMMA ReceiveStep ==
  ASSUME ~Repeats, Inv, NEW type \in PeerTypes, NEW id \in AnyId, Receive(type, id)
  PROVE  Inv'
<1> DEFINE e == Message(type, id)
<1>1. /\ EventInv(pf, eventQ, clock) /\ eventQ \in Seq(Event) /\ id \in Ids
      /\ type \in Types \cap PeerTypes
  BY CountAssumption DEF Inv, EventInv, AnyId, Ids, Receive, PeerMaySend, Types
<1>2. /\ e \in Event /\ e.msg = type /\ e.id = id
      /\ IsMessage(e) /\ ~IsTimeout(e) /\ e # SessionReport
  BY <1>1, SentEvents
<1>3. ASSUME NEW i \in 1 .. Len(eventQ), IsMessage(eventQ[i]), eventQ[i].id = id
      PROVE  eventQ[i].msg \in PeerTypes /\ eventQ[i].msg \in Types /\ Queued(Message(eventQ[i].msg, id))
  <2>1. eventQ[i] \in Event
    BY <1>1, ElementOfSeq
  <2>2. eventQ[i] \in MessageEvent
    BY <1>3, <2>1, EventCases
  <2>3. eventQ[i] = Message(eventQ[i].msg, id)
    BY <1>3, <2>2, MessageForm
  <2>4. eventQ[i].msg \in PeerTypes /\ eventQ[i].msg \in Types
    BY <2>2 DEF MessageEvent
  <2>5. QED
    BY <2>3, <2>4 DEF Queued, Contains
<1> HIDE DEF e
<1>4. CASE type \in Requests
  <2>1. /\ \A s \in Remote : pf.xact[s].transactionId # id
        /\ \A t \in PeerTypes : ~Queued(Message(t, id))
    <3>1. type \notin Responses
      BY <1>4 DEF Requests, Responses
    <3>2. QED
      BY <3>1 DEF Receive, PeerMaySend
  <2>2. Fresh(pf.xact, e)
    BY <1>2, <2>1 DEF Fresh, RemoteOf, UseOf, Remote, InUse
  <2>3. \A i \in 1 .. Len(eventQ) : IsMessage(eventQ[i]) => eventQ[i].id # e.id
    BY <1>2, <1>3, <2>1
  <2>4. Accepts(pf, eventQ, e, clock)
    BY <1>2, <1>4, <2>2, <2>3 DEF Accepts
  <2>5. QED
    BY <1>2, <2>4, SendStep DEF Receive, e
<1>5. CASE type \notin Requests
  <2>1. /\ \E s \in Local : pf.xact[s].transactionId = id /\ pf.xact[s].step = 1
        /\ \A t \in PeerTypes \cap Responses : ~Queued(Message(t, id))
    BY <1>5 DEF Receive, PeerMaySend
  <2>2. Awaited(pf.xact, e)
    BY <1>2, <2>1 DEF Awaited, LocalOf, UseOf, Local, InUse
  <2>3. \A i \in 1 .. Len(eventQ) :
          IsMessage(eventQ[i]) /\ SameStage(eventQ[i], e) => eventQ[i].id # e.id
    <3> SUFFICES ASSUME NEW i \in 1 .. Len(eventQ), IsMessage(eventQ[i]),
                        SameStage(eventQ[i], e), eventQ[i].id = e.id
                 PROVE  FALSE
      OBVIOUS
    <3>1. eventQ[i].msg \notin Requests
      BY <1>2, <1>5 DEF SameStage
    <3>2. QED
      BY <1>2, <1>3, <2>1, <3>1 DEF Types
  <2>4. Accepts(pf, eventQ, e, clock)
    BY <1>2, <1>5, <2>2, <2>3 DEF Accepts
  <2>5. QED
    BY <1>2, <2>4, SendStep DEF Receive, e
<1>6. QED
  BY <1>4, <1>5

(* PacketInBufferHandle keeps the invariant.                               *)
LEMMA AskStep == ASSUME Inv, AskReport PROVE Inv'
<1>1. SessionReport \in Event /\ ~IsMessage(SessionReport) /\ ~IsTimeout(SessionReport)
  BY SentEvents
<1>2. \A s \in LocalOf(pf.xact), k \in 0 .. Len(eventQ) :
        pf.xact[s].transactionId # Ahead(pf.globalXactId, k)
  BY DEF AskReport, IdsAreFar, IdAhead, Ahead, LocalOf, UseOf, Local, InUse
<1>3. Accepts(pf, eventQ, SessionReport, clock)
  BY <1>1, <1>2 DEF Accepts
<1>4. QED
  BY <1>1, <1>3, SendStep DEF AskReport

(* TimerExpireCheck keeps the invariant.                                   *)
LEMMA ExpireStep == ASSUME Inv, TimerExpire PROVE Inv' /\ Lasting(pf, pf')
<1>1. LibInv(pf) /\ EventInv(pf, eventQ, clock) /\ clock \in Nat
  BY N4Assumption DEF Inv, EventInv
<1>2. PICK m : m = CurTime /\ m = clock % TimeMod /\ m \in Nat
  BY <1>1, NowIsNat
<1>3. PICK u, e : u = pf' /\ e = pf.tl.blk[Head(pf.tl.active)].param
  OBVIOUS
<1>4. PICK s \in RemoteOf(pf.xact) : e = T3("T3_HOLDING", s) /\ Expired(pf, u, s, m)
  <2>1. IsDue(pf.tl, m) /\ u = [pf EXCEPT !.tl = ExpireHead(@, m)]
    BY <1>2, <1>3 DEF TimerExpire
  <2>2. QED
    BY <1>1, <1>2, <1>3, <2>1, ExpireLib
<1>5. /\ EventInv(u, eventQ, clock)
      /\ \A i \in 1 .. Len(eventQ) : IsTimeout(eventQ[i]) => eventQ[i].index # s
  BY <1>1, <1>2, <1>4, ExpireKeeps
<1>6. e \in Event /\ e.index = s /\ IsTimeout(e) /\ ~IsMessage(e) /\ e # SessionReport
  BY <1>4, SentEvents DEF RemoteOf, UseOf
<1>7. LibInv(u) /\ u.xact = pf.xact
  BY <1>4 DEF Expired
<1>8. Stopped(u.xact, u.tl, s, clock)
  <2>1. ~u.tl.blk[u.xact[s].timerHolding].isRunning /\ u.tl.blk[u.xact[s].timerHolding].expireTime < m
    BY <1>4, <1>7 DEF Expired
  <2>2. u.tl.blk[u.xact[s].timerHolding].expireTime < clock % TimeMod
    BY <1>2, <2>1, Zenon
  <2>3. s \in RemoteOf(u.xact)
    BY <1>7
  <2>4. QED
    BY ZenonT(60), <2>1, <2>2, <2>3, Zenon DEF Stopped
<1>9. Accepts(u, eventQ, e, clock)
  BY <1>5, <1>6, <1>8, Zenon DEF Accepts
<1>10. EventInv(u, EventSend(e), clock)
  BY <1>5, <1>6, <1>9, PushKeeps DEF EventSend
<1>11. eventQ' = EventSend(e) /\ clock' = clock
  BY SMTT(60), <1>3 DEF TimerExpire
<1>12. LibInv(pf') /\ EventInv(pf', eventQ', clock')
  BY <1>3, <1>7, <1>10, <1>11
<1>13. QED
  BY <1>3, <1>7, <1>12 DEF Inv, Lasting

(* Time passes: what was over is still over while the clock does not       *)
(* wrap.                                                                   *)
LEMMA TickStep == ASSUME Inv, Tick PROVE Inv'
<1>1. /\ LibInv(pf) /\ EventInv(pf, eventQ, clock) /\ clock \in Nat /\ clock < MaxTime /\ MaxTime \in Nat
      /\ pf' = pf /\ eventQ' = eventQ /\ clock' = clock + 1
  BY N4Assumption DEF Inv, EventInv, Tick
<1>2. MaxTime < TimeMod => clock % TimeMod = clock /\ (clock + 1) % TimeMod = clock + 1
  BY <1>1, TimeModAssumption, SMT
<1>3. PICK m, n : m = clock % TimeMod /\ n = (clock + 1) % TimeMod
  OBVIOUS
<1>4. ASSUME NEW s, Stopped(pf.xact, pf.tl, s, clock) PROVE Stopped(pf.xact, pf.tl, s, clock + 1)
  <2>1. PICK b : b = pf.tl.blk[pf.xact[s].timerHolding]
    OBVIOUS
  <2>2. s \in RemoteOf(pf.xact) /\ ~b.isRunning /\ (MaxTime < TimeMod => b.expireTime < m)
    BY <1>3, <1>4, <2>1, Zenon DEF Stopped
  <2>3. b.expireTime \in Nat
    <3>1. LibInv(pf) /\ s \in RemoteOf(pf.xact)
      BY SMTT(60), <1>1, <2>2
    <3>2. pf.tl \in TimerLists(Param) /\ pf.xact[s].timerHolding \in Placed(pf.tl)
      BY <3>1 DEF LibInv, TimersOf, Accounted, Sound
    <3>3. pf.xact[s].timerHolding \in Blk
      BY <3>2, PlacedInBlk
    <3>4. b \in TimerBlk(Param)
      BY <2>1, <3>2, <3>3 DEF TimerLists
    <3>5. QED
      BY <3>4 DEF TimerBlk
  <2>4. MaxTime < TimeMod => b.expireTime < n
    <3>1. MaxTime < TimeMod => m = clock /\ n = clock + 1
      BY <1>2, <1>3
    <3>2. QED
      BY <1>1, <2>2, <2>3, <3>1
  <2>5. QED
    BY <1>3, <2>1, <2>2, <2>4, Zenon DEF Stopped
<1>5. Timeouts(pf.xact, pf.tl, eventQ, clock + 1)
  <2>1. Timeouts(pf.xact, pf.tl, eventQ, clock)
    BY <1>1 DEF EventInv
  <2>2. QED
    BY <1>4, <2>1 DEF Timeouts
<1>6. clock + 1 \in 0 .. MaxTime
  BY <1>1
<1>7. EventInv(pf, eventQ, clock + 1)
  BY <1>1, <1>5, <1>6 DEF EventInv
<1>8. QED
  BY <1>1, <1>7 DEF Inv
-----------------------------------------------------------------------------
(* The invariant holds at first. *)

(* ListHeadInit on pointers that agree.                                    *)
LEMMA HeadInitForm ==
  ASSUME NEW v, NEW n
  PROVE  L!ListHeadInit([next |-> v, prev |-> v], n)
           = [next |-> [v EXCEPT ![n] = n], prev |-> [v EXCEPT ![n] = n]]
<1>1. PICK w, h : w = [v EXCEPT ![n] = n] /\ h = [next |-> v, prev |-> v]
  OBVIOUS
<1>2. h.next = v /\ h.prev = v
  BY <1>1
<1>3. PICK k : k = [next |-> w, prev |-> v]
  OBVIOUS
<1>4. k = [h EXCEPT !.next = w] /\ k.prev = v
  BY <1>1, <1>3
<1>5. [k EXCEPT !.prev = w] = [next |-> w, prev |-> w]
  BY <1>3
<1>6. L!ListHeadInit(h, n) = [k EXCEPT !.prev = w]
  BY <1>1, <1>2, <1>3, <1>4 DEF L!ListHeadInit
<1>7. QED
  BY <1>1, <1>5, <1>6

(* At first both lists are empty.                                          *)
LEMMA InitLinks ==
  LET links == PfcpXactInit.links
  IN  links \in L!Heap /\ LocalLinked(links, {}) /\ RemoteLinked(links, {})
<1> DEFINE none == [n \in Nodes |-> NULL]
           h0 == [next |-> none, prev |-> none]
           h1 == L!ListHeadInit(h0, localList)
           h2 == L!ListHeadInit(h1, remoteList)
           a == [none EXCEPT ![localList] = localList]
           b == [a EXCEPT ![remoteList] = remoteList]
<1>1. PfcpXactInit.links = h2
  BY DEF PfcpXactInit, Nodes
<1>2. localList \in Nodes /\ remoteList \in Nodes /\ localList # remoteList /\ NULL \notin Nodes
  BY HeadsAssumption DEF Nodes, Heads
<1>3. h1 = [next |-> a, prev |-> a]
  BY HeadInitForm
<1> HIDE DEF h1, a
<1>4. h2 = [next |-> b, prev |-> b]
  BY <1>3, HeadInitForm
<1>5. /\ b \in [Nodes -> Nodes \cup {NULL}] /\ b[localList] = localList /\ b[remoteList] = remoteList
  BY <1>2 DEF a
<1> HIDE DEF h2, b
<1>6. h2 \in L!Heap
  BY <1>4, <1>5 DEF L!Heap, L!Pointer, Nodes
<1>7. RemoteLinked(h2, {})
  BY <1>4, <1>5 DEF RemoteLinked
<1>8. LocalLinked(h2, {})
  <2> DEFINE q == << >>
  <2>1. q \in Seq(Slot) /\ IsInjective(q) /\ ToSet(q) = {} /\ Len(q) = 0
    BY DEF IsInjective, ToSet
  <2>2. LinkedAs(h2, localList, q)
    <3>1. \A i \in Int : NodeAt(q, localList, i) = localList
      BY <2>1 DEF NodeAt
    <3>2. QED
      BY <1>4, <1>5, <2>1, <3>1 DEF LinkedAs
  <2> HIDE DEF q
  <2>3. QED
    BY <2>1, <2>2 DEF LocalLinked
<1>9. QED
  BY <1>1, <1>6, <1>7, <1>8

(* At first all slots and timers are free.                                 *)
LEMMA InitLib == LibInv(PfcpXactInit)
<1> DEFINE p == PfcpXactInit
           n == Cardinality(Slot)
           avail == [i \in 1 .. n |-> i - 1]
           x == [s \in Slot |-> ZeroXact]
<1>1. n \in Nat /\ Slot = 0 .. n - 1
  BY SlotAssumption, FS_CardinalityType
<1>2. /\ p.xact = x /\ p.avail = avail /\ p.tl = TimerListInit /\ p.globalXactId = 1
      /\ p = [xact |-> x, avail |-> avail, links |-> p.links, tl |-> TimerListInit,
              globalXactId |-> 1, fault |-> NULL]
  BY DEF PfcpXactInit
<1>3. ZeroXact \in Xact /\ ZeroXact.step = 0
  <2> DEFINE ty == [i \in 0 .. 2 |-> NULL]
             bu == [i \in 0 .. 2 |-> FALSE]
  <2>1. ty \in [0 .. 2 -> Types \cup {NULL}] /\ bu \in [0 .. 2 -> BOOLEAN]
    OBVIOUS
  <2>2. ZeroXact = Members("local", 0, FALSE, 0, ty, bu, NULL, 0, NULL, 0)
    BY DEF ZeroXact, Members
  <2> HIDE DEF ty, bu
  <2>3. 0 \in Ids
    BY CountAssumption DEF Ids
  <2>4. QED
    BY <2>1, <2>2, <2>3 DEF Xact, Members
<1> HIDE DEF n
<1>4. avail \in Seq(Slot) /\ Len(avail) = n
  BY <1>1
<1>5. IsInjective(avail)
  <2>1. \A i \in 1 .. n : avail[i] = i - 1
    OBVIOUS
  <2>2. DOMAIN avail = 1 .. n
    OBVIOUS
  <2> HIDE DEF avail
  <2>3. QED
    BY <1>1, <2>1, <2>2 DEF IsInjective
<1>6. ToSet(avail) = Slot
  <2>1. ASSUME NEW s \in Slot PROVE s \in ToSet(avail)
    <3>1. s + 1 \in 1 .. n /\ avail[s + 1] = s
      BY <1>1
    <3> HIDE DEF avail
    <3>2. QED
      BY <1>4, <3>1, SeqAsSet
  <2> HIDE DEF avail
  <2>2. QED
    BY <1>4, <2>1, SeqAsSet
<1> HIDE DEF avail, p
<1>7. x \in [Slot -> Xact] /\ \A s \in Slot : x[s].step = 0
  BY <1>3
<1> HIDE DEF x
<1>8. UseOf(x) = {} /\ RemoteOf(x) = {} /\ LocalOf(x) = {}
  BY <1>7 DEF UseOf, RemoteOf, LocalOf
<1>9. SlotsOf(x, avail) /\ ShapedOf(x)
  BY <1>5, <1>6, <1>8 DEF SlotsOf, ShapedOf
<1>10. Sound(TimerListInit, Param) /\ Placed(TimerListInit) = {} /\ TimerListInit \in TimerLists(Param)
  BY InitSound DEF Sound
<1>11. ToSet(TimerListInit.avail) = Blk
  <2> DEFINE m == Cardinality(Blk)
             q == [i \in 1 .. m |-> i]
  <2>1. m \in Nat /\ Blk = 1 .. m
    BY BlkAssumption, FS_CardinalityType
  <2>2. TimerListInit.avail = q
    BY DEF TimerListInit
  <2> HIDE DEF m
  <2>3. q \in Seq(Blk) /\ Len(q) = m /\ \A i \in 1 .. m : q[i] = i
    BY <2>1
  <2> HIDE DEF q
  <2>4. QED
    BY <2>1, <2>2, <2>3, SeqAsSet
<1>12. TimersOf(x, TimerListInit)
  <2>1. Cardinality(Placed(TimerListInit)) = 2 * Cardinality(RemoteOf(x))
    BY <1>8, <1>10, FS_EmptySet
  <2>2. QED
    BY <1>8, <1>10, <1>11, <2>1 DEF TimersOf, Accounted
<1>13. p.links \in L!Heap /\ ListsOf(x, p.links)
  BY <1>8, InitLinks DEF ListsOf, p
<1>14. 1 \in 1 .. PFCP_MAX_XACT_ID
  BY CountAssumption
<1>15. p \in Lib
  BY <1>2, <1>4, <1>7, <1>10, <1>13, <1>14 DEF Lib
<1>16. QED
  BY <1>2, <1>9, <1>12, <1>13, <1>15 DEF LibInv, p

(* The initial states satisfy the invariant.                               *)
LEMMA InitInv == Init => Inv
<1> SUFFICES ASSUME Init PROVE Inv
  OBVIOUS
<1>1. pf = PfcpXactInit /\ eventQ = << >> /\ clock = 0 /\ LibInv(pf)
  BY InitLib DEF Init
<1>2. /\ eventQ \in Seq(Event) /\ Len(eventQ) = 0 /\ 0 <= QCap /\ clock \in 0 .. MaxTime
  BY <1>1, N4Assumption
<1>3. LocalOf(pf.xact) = {}
  BY <1>1 DEF LocalOf, UseOf, PfcpXactInit, ZeroXact
<1>4. /\ LocalIds(pf.xact, pf.globalXactId, eventQ) /\ Messages(pf.xact, eventQ)
      /\ Timeouts(pf.xact, pf.tl, eventQ, clock)
  BY <1>2, <1>3 DEF LocalIds, Messages, Timeouts
<1>5. EventInv(pf, eventQ, clock)
  BY <1>2, <1>4 DEF EventInv
<1>6. QED
  BY <1>1, <1>5 DEF Inv
-----------------------------------------------------------------------------
(* The theorems.  The peer does not repeat a request the UPF still holds,  *)
(* and there are two timers for every slot.                                *)

(* UPF_EVENT_N4_MESSAGE keeps the invariant; only a response ends a        *)
(* report.                                                                 *)
LEMMA MessageStep ==
  ASSUME RoomForTimers, Inv, NEW done \in BOOLEAN, HandleMessage(done)
  PROVE  /\ Inv' /\ RemoteOf(pf.xact) \subseteq UseOf(pf'.xact)
         /\ \A s \in LocalOf(pf.xact) :
              s \in UseOf(pf'.xact)
                \/ Head(eventQ) = Message("SESSION_REPORT_RESPONSE", pf.xact[s].transactionId)
<1>1. PICK e : e = Head(eventQ)
  OBVIOUS
<1>2. /\ eventQ # << >> /\ IsMessage(e) /\ eventQ' = Tail(eventQ) /\ clock' = clock
      /\ pf' = Handled(pf, e.msg, e.id, done)
  BY <1>1 DEF HandleMessage, Takes, EventRecv, IsMessage, Handled
<1>3. RemoteOf(pf.xact) \subseteq UseOf(pf.xact) /\ LocalOf(pf.xact) \subseteq UseOf(pf.xact)
  BY DEF RemoteOf, LocalOf
<1>4. CASE e.msg \in Requests
  <2>1. Inv' /\ Lasting(pf, pf')
    BY <1>1, <1>2, <1>4, RequestStep
  <2>2. QED
    BY <1>3, <2>1 DEF Lasting
<1>5. CASE e.msg \notin Requests
  BY <1>1, <1>2, <1>5, ResponseStep
<1>6. QED
  BY <1>4, <1>5

(* UPF_EVENT_SESSION_REPORT keeps the invariant and ends nothing.          *)
LEMMA HandleReportStep == ASSUME Inv, HandleReport PROVE Inv' /\ Lasting(pf, pf')
<1>1. /\ eventQ # << >> /\ Head(eventQ).type = "SESSION_REPORT"
      /\ eventQ' = Tail(eventQ) /\ clock' = clock /\ pf' = Report(pf, CurTime)
  BY DEF HandleReport, Takes, EventRecv, Report
<1>2. Head(eventQ) \in Event
  BY <1>1, PopSeq DEF Inv, EventInv
<1>3. QED
  BY <1>1, <1>2, EventCases, ReportStep

(* UPF_EVENT_N4_T3_HOLDING keeps the invariant and ends no report.         *)
LEMMA HandleTimeoutStep ==
  ASSUME Inv, NEW sent \in BOOLEAN, HandleTimeout(sent)
  PROVE  /\ Inv' /\ LocalOf(pf.xact) \subseteq UseOf(pf'.xact)
         /\ MaxTime < TimeMod =>
              \A s \in RemoteOf(pf.xact) :
                s \in UseOf(pf'.xact) \/ pf.tl.blk[pf.xact[s].timerHolding].expireTime < CurTime
<1>1. PICK e : e = Head(eventQ)
  OBVIOUS
<1>2. eventQ # << >>
  BY DEF HandleTimeout
<1>3. e.type # "T3_RESPONSE"
  BY <1>1, <1>2, PopSeq, EventCases DEF Inv, EventInv
<1>4. /\ IsTimeout(e) /\ eventQ' = Tail(eventQ) /\ clock' = clock
      /\ pf' = PfcpXactTimeout(pf, e.index, "T3_HOLDING", sent, CurTime)
  BY <1>1, <1>3 DEF HandleTimeout, Takes, EventRecv, IsTimeout
<1>5. QED
  BY <1>1, <1>2, <1>4, TimeoutStep

(* Every step keeps the invariant.                                         *)
LEMMA NextInv ==
  ASSUME ~Repeats, RoomForTimers, Inv, [Next]_vars
  PROVE  Inv'
<1>1. ASSUME NEW done \in BOOLEAN, HandleMessage(done) PROVE Inv'
  BY <1>1, MessageStep
<1>2. ASSUME NEW type \in PeerTypes, NEW id \in AnyId, Receive(type, id) PROVE Inv'
  BY <1>2, ReceiveStep
<1>3. CASE TimerExpire
  BY <1>3, ExpireStep
<1>4. CASE AskReport
  BY <1>4, AskStep
<1>5. CASE RejectMessage \/ RejectReport
  BY <1>5, DropKeeps DEF RejectMessage, RejectReport, Takes, EventRecv
<1>6. CASE HandleReport
  BY <1>6, HandleReportStep
<1>7. ASSUME NEW sent \in BOOLEAN, HandleTimeout(sent) PROVE Inv'
  BY <1>7, HandleTimeoutStep
<1>8. CASE Tick
  BY <1>8, TickStep
<1>9. CASE UNCHANGED vars
  <2>1. pf' = pf /\ eventQ' = eventQ /\ clock' = clock
    BY <1>9 DEF vars
  <2>2. QED
    BY <2>1 DEF Inv
<1>10. QED
  BY <1>1, <1>2, <1>3, <1>4, <1>5, <1>6, <1>7, <1>8, <1>9 DEF Next

(* The library and the queue stay sound: the inductive invariant of the N4 *)
(* side holds in every state.                                              *)
THEOREM N4Sound == ASSUME ~Repeats, RoomForTimers PROVE Spec => []Inv
<1>1. Inv /\ [Next]_vars => Inv'
  BY NextInv
<1>2. QED
  BY <1>1, InitInv, PTL DEF Spec

(* The sets of the model are those of the invariant.                       *)
LEMMA InvUses ==
  ASSUME Inv
  PROVE  InUse = UseOf(pf.xact) /\ Remote = RemoteOf(pf.xact) /\ Local = LocalOf(pf.xact)
  BY DEF InUse, Remote, Local, UseOf, RemoteOf, LocalOf

(* Every slot of pfcpXactPool is in use or free, once, between events:     *)
(* no transaction is freed twice, freed while alive, or lost.              *)
THEOREM SlotsAreAccounted == ASSUME ~Repeats, RoomForTimers PROVE Spec => []SlotsAccounted
<1>1. Inv => SlotsAccounted
  BY InvUses DEF Inv, LibInv, SlotsOf, SlotsAccounted
<1>2. QED
  BY <1>1, N4Sound, PTL

(* The timers out of timerPool are those of the remote transactions in     *)
(* use, two each, and the main thread never finds the pool of timers empty *)
(* and never walks a list without end (no fault, TypeOK).                  *)
THEOREM TimersAreAccounted == ASSUME ~Repeats, RoomForTimers PROVE Spec => []TimersAccounted
<1> DEFINE x == pf.xact
           t == pf.tl
<1>1. ASSUME Inv PROVE TypeOK
  <2>1. /\ pf.avail \in Seq(Slot) /\ pf.links \in L!Heap /\ pf.globalXactId \in 1 .. PFCP_MAX_XACT_ID
        /\ pf.fault = NULL /\ x \in [Slot -> Xact]
    BY <1>1, LibMembers DEF Inv, LibInv
  <2>2. clock \in 0 .. MaxTime /\ Len(eventQ) <= QCap
    BY SMTT(60), <1>1 DEF Inv, EventInv
  <2>3. ASSUME NEW s \in Slot
        PROVE  /\ x[s].origin \in {"local", "remote"} /\ x[s].transactionId \in Ids /\ x[s].step \in 0 .. 3
               /\ x[s].timerResponse \in Blk \cup {NULL} /\ x[s].timerHolding \in Blk \cup {NULL}
               /\ x[s].responseReCount \in 0 .. 255 /\ x[s].holdingReCount \in 0 .. 255
    BY SMTT(60), <2>1 DEF Xact
  <2>4. QED
    BY ZenonT(60), <2>1, <2>2, <2>3 DEF TypeOK
<1>2. ASSUME Inv PROVE TimersAccounted
  <2>1. TimersOf(x, t) /\ Remote = RemoteOf(x)
    BY SMTT(60), <1>2, InvUses DEF Inv, LibInv
  <2>2. /\ IsInjective(t.avail) /\ ToSet(t.avail) = Blk \ Placed(t) /\ Placed(t) \subseteq Blk
    BY <2>1, PlacedInBlk DEF TimersOf, Accounted, Sound
  <2>3. Blk \ ToSet(t.avail) = Placed(t)
    BY <2>2
  <2>4. Placed(t) = UNION {{x[s].timerResponse, x[s].timerHolding} : s \in RemoteOf(x)}
    BY <2>1 DEF TimersOf
  <2>5. Cardinality(Placed(t)) = 2 * Cardinality(Remote)
    BY <2>1 DEF TimersOf
  <2>6. QED
    BY <1>1, <1>2, <2>1, <2>2, <2>3, <2>4, <2>5 DEF TimersAccounted
<1>3. QED
  BY <1>2, N4Sound, PTL

(* A timeout in the queue is for the transaction that is in its slot now,  *)
(* whose timer has stopped: PfcpXactTimeout, which has only the index of   *)
(* the slot, never counts or deletes another transaction.                  *)
THEOREM TimeoutsStayCurrent == ASSUME ~Repeats, RoomForTimers PROVE Spec => []TimeoutsAreCurrent
<1>1. ASSUME Inv PROVE TimeoutsAreCurrent
  <2>1. /\ eventQ \in Seq(Event) /\ Timeouts(pf.xact, pf.tl, eventQ, clock)
        /\ Remote = RemoteOf(pf.xact)
    BY <1>1, InvUses DEF Inv, EventInv
  <2>2. DOMAIN eventQ = 1 .. Len(eventQ)
    BY <2>1, LenProperties
  <2>3. ASSUME NEW i \in DOMAIN eventQ, eventQ[i].type \in Timer
        PROVE  /\ eventQ[i].type = "T3_HOLDING"
               /\ eventQ[i].index \in Remote
               /\ ~pf.tl.blk[pf.xact[eventQ[i].index].timerHolding].isRunning
               /\ \A j \in DOMAIN eventQ : eventQ[j] = eventQ[i] => j = i
    <3>1. eventQ[i] \in Event
      BY <2>1, <2>2, ElementOfSeq
    <3>2. IsTimeout(eventQ[i]) /\ eventQ[i].type = "T3_HOLDING"
      BY <2>3, <3>1, EventCases DEF Timer, IsTimeout
    <3>3. Stopped(pf.xact, pf.tl, eventQ[i].index, clock)
      BY <2>1, <2>2, <3>2 DEF Timeouts
    <3>4. /\ eventQ[i].index \in RemoteOf(pf.xact)
          /\ ~pf.tl.blk[pf.xact[eventQ[i].index].timerHolding].isRunning
      BY <3>3, Zenon DEF Stopped
    <3>5. \A j \in DOMAIN eventQ : eventQ[j] = eventQ[i] => j = i
      BY <2>1, <2>2, <3>2 DEF Timeouts
    <3>6. QED
      BY <2>1, <3>2, <3>4, <3>5
  <2>4. QED
    BY <2>3 DEF TimeoutsAreCurrent
<1>2. QED
  BY <1>1, N4Sound, PTL

(* Every walk of the node's lists ends; localList holds the local          *)
(* transactions in use and remoteList only remote ones in use.             *)
THEOREM ListsStaySound == ASSUME ~Repeats, RoomForTimers PROVE Spec => []ListsAreSound
<1>1. ASSUME Inv PROVE ListsAreSound
  <2> DEFINE h == pf.links
             x == pf.xact
  <2>1. /\ LocalLinked(h, LocalOf(x)) /\ RemoteLinked(h, RemoteOf(x)) /\ RemoteOf(x) \in SUBSET Slot
        /\ Remote = RemoteOf(x) /\ Local = LocalOf(x)
    BY <1>1, InvUses DEF Inv, LibInv, ListsOf, RemoteOf, UseOf
  <2>2. localList \in Heads /\ remoteList \in Heads /\ Heads = {localList, remoteList}
    BY DEF Heads
  <2>3. L!WalkEnds(h, localList) /\ L!Members(h, localList) = LocalOf(x)
    <3>1. PICK q \in Seq(Slot) : IsInjective(q) /\ ToSet(q) = LocalOf(x) /\ LinkedAs(h, localList, q)
      BY <2>1 DEF LocalLinked
    <3>2. QED
      BY <2>2, <3>1, LinkedMembers
  <2>4. L!WalkEnds(h, remoteList) /\ L!Members(h, remoteList) \subseteq RemoteOf(x)
    <3>1. PICK q \in Seq(Slot) :
            IsInjective(q) /\ ToSet(q) \subseteq RemoteOf(x) /\ LinkedAs(h, remoteList, q)
      BY <2>1, RemoteSeq
    <3>2. QED
      BY <2>2, <3>1, LinkedMembers
  <2>5. QED
    BY <2>1, <2>2, <2>3, <2>4 DEF ListsAreSound
<1>2. QED
  BY <1>1, N4Sound, PTL

(* The other steps leave every transaction in use. *)
LEMMA OtherSteps ==
  ASSUME Inv, [Next]_vars, ~\E done \in BOOLEAN : HandleMessage(done),
         ~\E sent \in BOOLEAN : HandleTimeout(sent)
  PROVE  Lasting(pf, pf')
<1>1. CASE \E type \in PeerTypes, id \in AnyId : Receive(type, id)
  BY <1>1 DEF Receive, Lasting
<1>2. CASE TimerExpire
  BY <1>2, ExpireStep
<1>3. CASE AskReport \/ RejectMessage \/ RejectReport \/ Tick \/ UNCHANGED vars
  BY <1>3 DEF AskReport, RejectMessage, RejectReport, Tick, vars, Lasting
<1>4. CASE HandleReport
  BY <1>4, HandleReportStep
<1>5. QED
  BY <1>1, <1>2, <1>3, <1>4 DEF Next

(* A session report ends only when the peer's response to it is handled:   *)
(* neither a timeout nor an error of another transaction frees its slot.   *)
THEOREM ReportsLast == ASSUME ~Repeats, RoomForTimers PROVE Spec => ReportsEndByResponse
<1>1. ASSUME Inv, [Next]_vars, NEW s \in Local, s \notin InUse'
      PROVE  /\ Head(eventQ) = Message("SESSION_REPORT_RESPONSE", pf.xact[s].transactionId)
             /\ eventQ' = Tail(eventQ)
  <2>1. s \in LocalOf(pf.xact) /\ s \in UseOf(pf.xact) /\ s \notin UseOf(pf'.xact)
    BY <1>1 DEF Local, InUse, LocalOf, UseOf
  <2>2. CASE \E done \in BOOLEAN : HandleMessage(done)
    BY <1>1, <2>1, <2>2, MessageStep DEF HandleMessage, Takes, EventRecv
  <2>3. CASE \E sent \in BOOLEAN : HandleTimeout(sent)
    BY <1>1, <2>1, <2>3, HandleTimeoutStep
  <2>4. QED
    BY <1>1, <2>1, <2>2, <2>3, OtherSteps DEF Lasting
<1>2. Inv /\ [Next]_vars =>
        [\A s \in Local : s \notin InUse' =>
           /\ Head(eventQ) = Message("SESSION_REPORT_RESPONSE", pf.xact[s].transactionId)
           /\ eventQ' = Tail(eventQ)]_vars
  BY <1>1
<1>3. QED
  BY <1>2, N4Sound, PTL DEF Spec, ReportsEndByResponse

(* A remote transaction, with its response, is kept for duplicates until   *)
(* its holding time is over, as long as the 32-bit time does not wrap.     *)
THEOREM HeldAreKept ==
  ASSUME ~Repeats, RoomForTimers, MaxTime < TimeMod PROVE Spec => KeptWhileHeld
<1>1. ASSUME Inv, [Next]_vars, NEW s \in Remote, s \notin InUse' PROVE HoldUntil(s) < CurTime
  <2>1. s \in RemoteOf(pf.xact) /\ s \in UseOf(pf.xact) /\ s \notin UseOf(pf'.xact)
    BY <1>1 DEF Remote, InUse, RemoteOf, UseOf
  <2>2. CASE \E done \in BOOLEAN : HandleMessage(done)
    BY <1>1, <2>1, <2>2, MessageStep
  <2>3. CASE \E sent \in BOOLEAN : HandleTimeout(sent)
    BY <1>1, <2>1, <2>3, HandleTimeoutStep DEF HoldUntil
  <2>4. QED
    BY <1>1, <2>1, <2>2, <2>3, OtherSteps DEF Lasting
<1>2. Inv /\ [Next]_vars => [\A s \in Remote : s \notin InUse' => HoldUntil(s) < CurTime]_vars
  BY <1>1
<1>3. QED
  BY <1>2, N4Sound, PTL DEF Spec, KeptWhileHeld
=============================================================================

--------------------------- MODULE BufferingProofs ---------------------------
(***************************************************************************)
(* Proofs about the rules and the buffered packets (Buffering), for any    *)
(* sessions, rules, addresses and numbers of packets.                      *)
(***************************************************************************)
EXTENDS Buffering, SequenceLemmas

(* Where each thread is, and what it has in hand there. *)
MainStates ==
  /\ main.pc \in {"idle", "register", "store", "deregister", "discard", "drop",
                  "send", "flush", "clear"}
  /\ main.pc = "register" =>
       main \in [pc : {"register"}, pdr : Pdrs, new : BOOLEAN, sess : Sessions]
  /\ main.pc = "store" => main \in [pc : {"store"}, pdr : Pdrs, sess : Sessions]
  /\ main.pc = "deregister" =>
       main \in [pc : {"deregister"}, todo : Seq(Pdrs), ending : Sessions \cup {Null}]
  /\ main.pc = "discard" => main \in [pc : {"discard"}, todo : Seq(Pdrs), ending : Sessions]
  /\ main.pc = "drop" => main \in [pc : {"drop"}, todo : Seq(Pdrs)]
  /\ main.pc \in {"send", "flush", "clear"} =>
       main \in [pc : {"send", "flush", "clear"}, todo : Seq(Pdrs), far : Fars]

UpStates ==
  /\ up.pc \in {"idle", "lookup", "decide", "find", "alloc", "append", "report"}
  /\ up.pc = "lookup" => up \in [pc : {"lookup"}, pdr : Pdrs, far : Fars \cup {Null}]
  /\ up.pc \in {"decide", "find"} =>
       up \in [pc : {"decide", "find"}, pdr : Pdrs,
               action : SUBSET {"DROP", "FORW", "BUFF", "NOCP"}]
  /\ up.pc \in {"alloc", "append", "report"} =>
       up \in [pc : {"alloc", "append", "report"}, pdr : Pdrs, st : Stores, report : BOOLEAN]

RulesTyped == /\ pdrList \in [Sessions -> Seq(Pdrs) \cup {Null}]
              /\ pdr \in [Pdrs -> PdrRule \cup {Null}]
              /\ far \in [Fars -> FarRule \cup {Null}]
              /\ kernel \subseteq Pdrs \cup Fars

Typed == /\ RulesTyped
         /\ bufPacketHash \in [Pdrs -> Stores \cup {Null}]
         /\ store \in [Stores -> UpfBufPacket \cup {Null}]
         /\ buffLock \in BOOLEAN /\ FARHashLock \in BOOLEAN
         /\ packets \in 0 .. MaxPackets
         /\ sent \in [Pdrs -> Seq([packet : 1 .. MaxPackets, far : Fars])]
         /\ fault \in {"none", "freed", "no buffer", "no storage"}

(* A PDR of the context is listed once, by one session. *)
Lists(s, p) == Live(s) /\ p \in ToSet(pdrList[s])

Listed ==
  /\ \A p \in Pdrs : pdr[p] # Null => \E s \in Sessions : Lists(s, p)
  /\ \A s \in Sessions, p \in Pdrs : Lists(s, p) => pdr[p] # Null
  /\ \A s, t \in Sessions, p \in Pdrs : Lists(s, p) /\ Lists(t, p) => s = t
  /\ \A s \in Sessions : Live(s) => IsInjective(pdrList[s])
  /\ matchList \subseteq {p \in Pdrs : pdr[p] # Null}

(* Storage belongs to a PDR of the context, and to its session. *)
Stored ==
  /\ \A a \in Stores : store[a] # Null =>
       \E p \in Pdrs : bufPacketHash[p] = a /\ Lists(store[a].sess, p)
  /\ \A p \in Pdrs : bufPacketHash[p] # Null =>
       store[bufPacketHash[p]] # Null /\ pdr[p] # Null
  /\ \A p, q \in Pdrs :
       bufPacketHash[p] # Null /\ bufPacketHash[p] = bufPacketHash[q] => p = q

(* The kernel has every rule but the one a handler is about to remove. *)
InKernel ==
  /\ \A p \in Pdrs : pdr[p] # Null =>
       \/ p \in kernel
       \/ main.pc = "deregister" /\ main.ending = Null /\ p \in ToSet(main.todo)
  /\ \A f \in Fars : far[f] # Null => f \in kernel

(* What the main thread relies on in the middle of a handler. *)
Handling ==
  /\ main.pc = "register" =>
       /\ pdr[main.pdr] # Null
       /\ main.new => bufPacketHash[main.pdr] = Null /\ Lists(main.sess, main.pdr)
  /\ main.pc = "store" => bufPacketHash[main.pdr] = Null /\ Lists(main.sess, main.pdr)
  /\ main.pc = "deregister" =>
       /\ \A p \in ToSet(main.todo) : bufPacketHash[p] = Null
       /\ main.ending = Null => Len(main.todo) = 1
       /\ main.ending # Null => Live(main.ending) /\ main.todo = pdrList[main.ending]
  /\ main.pc = "discard" =>
       /\ Live(main.ending)
       /\ \A p \in ToSet(pdrList[main.ending]) :
            bufPacketHash[p] # Null => p \in ToSet(main.todo)
  /\ main.pc \in {"send", "flush", "clear"} => far[main.far] # Null
  /\ main.pc \in {"flush", "clear"} =>
       main.todo # << >> /\ bufPacketHash[Head(main.todo)] # Null
  /\ main.pc = "flush" => store[bufPacketHash[Head(main.todo)]].packetBuffer # Null

(* Packets are numbered as they come, and each is at one place. *)
Out(p) == ToSet(SentPackets(p)) \cup ToSet(Buffered(p))
Increasing(s) == \A i, j \in 1 .. Len(s) : i < j => s[i] < s[j]

Numbered ==
  /\ accepted \subseteq 1 .. packets /\ discarded \subseteq accepted
  /\ up.pc \in {"lookup", "decide", "find", "alloc", "append"} =>
       packets \in 1 .. MaxPackets /\ packets \notin accepted

InOrder(p) == Increasing(SentPackets(p) \o Buffered(p))

Placed ==
  /\ \A p \in Pdrs : Out(p) \subseteq accepted \ discarded
  /\ \A p, q \in Pdrs : p # q => Out(p) \cap Out(q) = {}
  /\ \A p \in Pdrs : InOrder(p)

Inv == /\ MainStates /\ UpStates /\ Typed /\ Listed /\ Stored /\ InKernel
       /\ Handling /\ Numbered /\ Placed
-----------------------------------------------------------------------------
(* Increasing sequences. *)

Number == 1 .. MaxPackets

LEMMA NumberIsInt == \A n \in Number : n \in Int
  BY BufferingAssumption DEF Number

(* The store of a rule that has one, and that no other rule has it. *)
LEMMA HasStore ==
  ASSUME Inv, NEW p \in Pdrs, bufPacketHash[p] # Null
  PROVE  /\ bufPacketHash[p] \in Stores /\ store[bufPacketHash[p]] # Null
         /\ \A q \in Pdrs : q # p /\ bufPacketHash[q] # Null =>
              bufPacketHash[q] \in Stores \ {bufPacketHash[p]}
<1>1. \A q \in Pdrs : bufPacketHash[q] # Null => bufPacketHash[q] \in Stores
  <2>1. bufPacketHash \in [Pdrs -> Stores \cup {Null}]
    BY DEF Inv, Typed
  <2>2. QED
    BY <2>1
<1>2. store[bufPacketHash[p]] # Null
  BY DEF Inv, Stored
<1>3. \A q \in Pdrs : q # p /\ bufPacketHash[q] # Null => bufPacketHash[q] # bufPacketHash[p]
  BY Zenon DEF Inv, Stored
<1>4. QED
  BY Zenon, <1>1, <1>2, <1>3

LEMMA IncreasingParts ==
  ASSUME NEW s \in Seq(Number), NEW t \in Seq(Number), Increasing(s \o t)
  PROVE  Increasing(s) /\ ToSet(s) \cap ToSet(t) = {}
<1>1. /\ Len(s) \in Nat /\ Len(t) \in Nat /\ Len(s \o t) = Len(s) + Len(t)
      /\ \A i \in 1 .. Len(s) + Len(t) : (s \o t)[i] = IF i <= Len(s) THEN s[i] ELSE t[i - Len(s)]
  BY ConcatProperties, LenProperties
<1>2. Increasing(s)
  BY <1>1 DEF Increasing
<1>3. ASSUME NEW x, x \in ToSet(s), x \in ToSet(t) PROVE FALSE
  <2>1. PICK i \in 1 .. Len(s) : s[i] = x
    BY <1>3, SeqAsSet
  <2>2. PICK j \in 1 .. Len(t) : t[j] = x
    BY <1>3, SeqAsSet
  <2>3. /\ i \in 1 .. Len(s \o t) /\ Len(s) + j \in 1 .. Len(s \o t) /\ i < Len(s) + j
        /\ (s \o t)[i] = x /\ (s \o t)[Len(s) + j] = x
    BY <1>1, <2>1, <2>2
  <2>4. x < x
    BY <2>3 DEF Increasing
  <2>5. x \in Int
    BY <1>3, SeqAsSet, NumberIsInt
  <2>6. QED
    BY <2>4, <2>5
<1>4. QED
  BY <1>2, <1>3

LEMMA ConcatElements ==
  ASSUME NEW A, NEW s \in Seq(A), NEW t \in Seq(A)
  PROVE  /\ s \o t \in Seq(A) /\ Len(s) \in Nat /\ Len(t) \in Nat
         /\ Len(s \o t) = Len(s) + Len(t)
         /\ \A i \in 1 .. Len(s) : (s \o t)[i] = s[i]
         /\ \A i \in 1 .. Len(t) : (s \o t)[Len(s) + i] = t[i]
<1>1. /\ s \o t \in Seq(A) /\ Len(s) \in Nat /\ Len(t) \in Nat
      /\ Len(s \o t) = Len(s) + Len(t)
      /\ \A i \in 1 .. Len(s) + Len(t) :
           (s \o t)[i] = IF i <= Len(s) THEN s[i] ELSE t[i - Len(s)]
  BY ConcatProperties, LenProperties
<1>2. ASSUME NEW i \in 1 .. Len(s) PROVE (s \o t)[i] = s[i]
  BY <1>1
<1>3. ASSUME NEW i \in 1 .. Len(t) PROVE (s \o t)[Len(s) + i] = t[i]
  <2>1. Len(s) + i \in 1 .. Len(s) + Len(t) /\ ~(Len(s) + i <= Len(s)) /\ (Len(s) + i) - Len(s) = i
    BY <1>1
  <2>2. QED
    BY <1>1, <2>1
<1>4. QED
  BY <1>1, <1>2, <1>3

LEMMA ConcatEqual ==
  ASSUME NEW A, NEW s \in Seq(A), NEW t \in Seq(A), NEW r \in Seq(A),
         Len(r) = Len(s) + Len(t),
         \A i \in 1 .. Len(s) : r[i] = s[i],
         \A i \in 1 .. Len(t) : r[Len(s) + i] = t[i]
  PROVE  r = s \o t
<1>1. PICK c \in Seq(A) : c = s \o t
  BY ConcatElements
<1>2. /\ Len(s) \in Nat /\ Len(t) \in Nat /\ Len(c) = Len(s) + Len(t)
      /\ \A i \in 1 .. Len(s) : c[i] = s[i]
      /\ \A i \in 1 .. Len(t) : c[Len(s) + i] = t[i]
  BY <1>1, ConcatElements
<1>3. ASSUME NEW i \in 1 .. Len(r) PROVE r[i] = c[i]
  <2>1. CASE i \in 1 .. Len(s)
    BY <1>2, <2>1
  <2>2. CASE i \notin 1 .. Len(s)
    <3>1. i - Len(s) \in 1 .. Len(t) /\ i = Len(s) + (i - Len(s))
      BY <1>2, <2>2
    <3>2. PICK j \in 1 .. Len(t) : i = Len(s) + j
      BY <3>1
    <3>3. QED
      BY <1>2, <3>2
  <2>3. QED
    BY <2>1, <2>2
<1>4. r = c
  BY <1>2, <1>3, SeqEqual
<1>5. QED
  BY <1>1, <1>4

LEMMA AppendIncreasing ==
  ASSUME NEW s \in Seq(Number), NEW e \in Number, Increasing(s), \A x \in ToSet(s) : x < e
  PROVE  Increasing(Append(s, e))
<1>1. PICK u \in Seq(Number) : u = Append(s, e)
  BY AppendProperties
<1>2. /\ Len(s) \in Nat /\ Len(u) = Len(s) + 1 /\ u[Len(s) + 1] = e
      /\ \A i \in 1 .. Len(s) : u[i] = s[i]
  BY <1>1, AppendProperties, LenProperties
<1>3. \A i \in 1 .. Len(s) : s[i] < e
  BY SeqAsSet
<1>4. ASSUME NEW i \in 1 .. Len(u), NEW j \in 1 .. Len(u), i < j PROVE u[i] < u[j]
  <2>1. i \in 1 .. Len(s)
    BY <1>2, <1>4
  <2>2. CASE j \in 1 .. Len(s)
    <3>1. s[i] < s[j]
      BY <1>4, <2>1, <2>2 DEF Increasing
    <3>2. QED
      BY <1>2, <2>1, <2>2, <3>1
  <2>3. CASE j = Len(s) + 1
    BY <1>2, <1>3, <2>1, <2>3
  <2>4. QED
    BY <1>2, <2>2, <2>3
<1>5. QED
  BY <1>1, <1>4 DEF Increasing

LEMMA ConcatAppend ==
  ASSUME NEW A, NEW s \in Seq(A), NEW t \in Seq(A), NEW e \in A
  PROVE  s \o Append(t, e) = Append(s \o t, e)
<1>1. PICK u \in Seq(A) : u = Append(t, e)
  BY AppendProperties
<1>2. Len(t) \in Nat /\ Len(u) = Len(t) + 1 /\ u[Len(t) + 1] = e /\ \A i \in 1 .. Len(t) : u[i] = t[i]
  BY <1>1, AppendProperties, LenProperties
<1>3. PICK c \in Seq(A) : c = s \o t
  BY ConcatElements
<1>4. /\ Len(s) \in Nat /\ Len(c) = Len(s) + Len(t) /\ \A i \in 1 .. Len(s) : c[i] = s[i]
      /\ \A i \in 1 .. Len(t) : c[Len(s) + i] = t[i]
  BY <1>3, ConcatElements
<1>5. PICK r \in Seq(A) : r = Append(c, e)
  BY AppendProperties
<1>6. Len(r) = Len(c) + 1 /\ r[Len(c) + 1] = e /\ \A i \in 1 .. Len(c) : r[i] = c[i]
  BY <1>5, AppendProperties
<1>7. Len(r) = Len(s) + Len(u)
  BY <1>2, <1>4, <1>6
<1>8. ASSUME NEW i \in 1 .. Len(s) PROVE r[i] = s[i]
  BY <1>2, <1>4, <1>6
<1>9. ASSUME NEW i \in 1 .. Len(u) PROVE r[Len(s) + i] = u[i]
  <2>1. CASE i \in 1 .. Len(t)
    <3>1. Len(s) + i \in 1 .. Len(c)
      BY <1>2, <1>4, <2>1
    <3>2. QED
      BY <1>2, <1>4, <1>6, <2>1, <3>1
  <2>2. CASE i = Len(t) + 1
    <3>1. Len(s) + i = Len(c) + 1
      BY <1>2, <1>4, <2>2
    <3>2. QED
      BY <1>2, <1>6, <2>2, <3>1
  <2>3. QED
    BY <1>2, <2>1, <2>2
<1>10. r = s \o u
  BY <1>7, <1>8, <1>9, ConcatEqual
<1>11. QED
  BY <1>1, <1>3, <1>5, <1>10

LEMMA IncreasingAppend ==
  ASSUME NEW s \in Seq(Number), NEW t \in Seq(Number), NEW e \in Number, Increasing(s \o t),
         \A x \in ToSet(s) \cup ToSet(t) : x < e
  PROVE  Increasing(s \o Append(t, e))
<1>1. PICK c \in Seq(Number) : c = s \o t
  BY ConcatElements
<1>2. ToSet(c) = ToSet(s) \cup ToSet(t)
  BY <1>1, ConcatSet
<1>3. Increasing(c) /\ \A x \in ToSet(c) : x < e
  BY <1>1, <1>2
<1>4. Increasing(Append(c, e))
  BY <1>3, AppendIncreasing
<1>5. s \o Append(t, e) = Append(c, e)
  BY <1>1, ConcatAppend
<1>6. QED
  BY <1>4, <1>5

-----------------------------------------------------------------------------
(* The packets of a PDR. *)

Sending == [packet : Number, far : Fars]
PacketsOf(s) == [i \in 1 .. Len(s) |-> s[i].packet]

LEMMA PacketsOfSeq ==
  ASSUME NEW s \in Seq(Sending)
  PROVE  /\ PacketsOf(s) \in Seq(Number) /\ Len(PacketsOf(s)) = Len(s) /\ Len(s) \in Nat
         /\ \A i \in 1 .. Len(s) : PacketsOf(s)[i] = s[i].packet
<1>1. Len(s) \in Nat /\ \A i \in 1 .. Len(s) : s[i] \in Sending
  BY LenProperties, ElementOfSeq
<1>2. \A i \in 1 .. Len(s) : s[i].packet \in Number
  BY <1>1 DEF Sending
<1>3. QED
  BY <1>1, <1>2 DEF PacketsOf

LEMMA ViaSeq ==
  ASSUME NEW f \in Fars, NEW b \in Seq(Number)
  PROVE  /\ Via(f, b) \in Seq(Sending) /\ Len(Via(f, b)) = Len(b)
         /\ \A i \in 1 .. Len(b) : Via(f, b)[i].packet = b[i]
<1>1. Len(b) \in Nat /\ \A i \in 1 .. Len(b) : b[i] \in Number
  BY LenProperties, ElementOfSeq
<1>2. \A i \in 1 .. Len(b) : [packet |-> b[i], far |-> f] \in Sending
  BY <1>1 DEF Sending
<1>3. QED
  BY <1>1, <1>2 DEF Via

LEMMA PacketsOfVia ==
  ASSUME NEW s \in Seq(Sending), NEW f \in Fars, NEW b \in Seq(Number)
  PROVE  /\ s \o Via(f, b) \in Seq(Sending)
         /\ PacketsOf(s \o Via(f, b)) = PacketsOf(s) \o b
<1>1. PICK v \in Seq(Sending) : v = Via(f, b)
  BY ViaSeq
<1>2. Len(v) = Len(b) /\ \A i \in 1 .. Len(b) : v[i].packet = b[i]
  BY <1>1, ViaSeq
<1>3. PICK n \in Seq(Sending) : n = s \o v
  BY ConcatElements
<1>4. /\ Len(s) \in Nat /\ Len(v) \in Nat /\ Len(n) = Len(s) + Len(v)
      /\ \A i \in 1 .. Len(s) : n[i] = s[i]
      /\ \A i \in 1 .. Len(v) : n[Len(s) + i] = v[i]
  BY <1>3, ConcatElements
<1>5. PICK m \in Seq(Number) : m = PacketsOf(n)
  BY PacketsOfSeq
<1>6. Len(m) = Len(n) /\ \A i \in 1 .. Len(n) : m[i] = n[i].packet
  BY <1>5, PacketsOfSeq
<1>7. PICK k \in Seq(Number) : k = PacketsOf(s)
  BY PacketsOfSeq
<1>8. Len(k) = Len(s) /\ \A i \in 1 .. Len(s) : k[i] = s[i].packet
  BY <1>7, PacketsOfSeq
<1>9. Len(m) = Len(k) + Len(b)
  BY <1>2, <1>4, <1>6, <1>8
<1>10. ASSUME NEW i \in 1 .. Len(k) PROVE m[i] = k[i]
  <2>1. i \in 1 .. Len(n) /\ i \in 1 .. Len(s)
    BY <1>4, <1>8
  <2>2. QED
    BY <1>4, <1>6, <1>8, <2>1
<1>11. ASSUME NEW i \in 1 .. Len(b) PROVE m[Len(k) + i] = b[i]
  <2>1. Len(s) + i \in 1 .. Len(n) /\ i \in 1 .. Len(v)
    BY <1>2, <1>4
  <2>2. m[Len(s) + i] = v[i].packet
    BY <1>4, <1>6, <2>1
  <2>3. QED
    BY <1>2, <1>8, <2>2
<1>12. m = k \o b
  BY <1>9, <1>10, <1>11, ConcatEqual
<1>13. QED
  BY <1>1, <1>3, <1>5, <1>7, <1>12

LEMMA Kept ==
  ASSUME Typed, Stored, NEW p \in Pdrs
  PROVE  /\ sent[p] \in Seq(Sending) /\ SentPackets(p) = PacketsOf(sent[p])
         /\ SentPackets(p) \in Seq(Number) /\ Buffered(p) \in Seq(Number)
<1>1. sent[p] \in Seq(Sending)
  BY DEF Typed, Number, Sending
<1>2. SentPackets(p) = PacketsOf(sent[p])
  BY DEF SentPackets, PacketsOf
<1>3. SentPackets(p) \in Seq(Number)
  BY <1>1, <1>2, PacketsOfSeq
<1>4. Buffered(p) \in Seq(Number)
  <2>1. << >> \in Seq(Number)
    OBVIOUS
  <2>2. CASE bufPacketHash[p] # Null
    <3>1. bufPacketHash[p] \in Stores /\ store[bufPacketHash[p]] # Null
      BY <2>2 DEF Typed, Stored
    <3>2. store[bufPacketHash[p]] \in UpfBufPacket
      BY <3>1 DEF Typed
    <3>3. store[bufPacketHash[p]].packetBuffer \in Seq(Number) \cup {Null}
      BY <3>2 DEF UpfBufPacket, Number
    <3>4. QED
      BY <2>1, <2>2, <3>3 DEF Buffered
  <2>3. QED
    BY <2>1, <2>2 DEF Buffered
<1>5. QED
  BY <1>1, <1>2, <1>3, <1>4

(* The packets of p, and of no other PDR, are now those of b. *)
BufferedAs(p, b) == \A q \in Pdrs : Buffered(q)' = IF q = p THEN b ELSE Buffered(q)

LEMMA SentSame == ASSUME sent' = sent PROVE \A q : SentPackets(q)' = SentPackets(q)
  BY DEF SentPackets

LEMMA AsBefore ==
  ASSUME Placed, sent' = sent, accepted' = accepted, discarded' = discarded,
         \A q \in Pdrs : Buffered(q)' = Buffered(q)
  PROVE  Placed'
<1>1. \A q \in Pdrs : SentPackets(q)' = SentPackets(q)
  BY SentSame
<1>2. QED
  BY <1>1 DEF Placed, Out, InOrder

LEMMA EmptiedPlaced ==
  ASSUME Typed, Stored, Placed, sent' = sent, accepted' = accepted,
         NEW p \in Pdrs, BufferedAs(p, << >>),
         discarded' = discarded \/ discarded' = discarded \cup ToSet(Buffered(p))
  PROVE  /\ Placed' /\ Out(p)' = Out(p) \ ToSet(Buffered(p))
         /\ \A q \in Pdrs : q # p => Out(q)' = Out(q)
<1>1. \A q \in Pdrs : SentPackets(q)' = SentPackets(q)
  BY SentSame
<1>2. SentPackets(p) \in Seq(Number) /\ Buffered(p) \in Seq(Number)
  BY Kept
<1>3. Increasing(SentPackets(p)) /\ ToSet(SentPackets(p)) \cap ToSet(Buffered(p)) = {}
  BY <1>2, IncreasingParts DEF Placed, InOrder
<1>4. Buffered(p)' = << >> /\ \A q \in Pdrs : q # p => Buffered(q)' = Buffered(q)
  BY DEF BufferedAs
<1>5. ToSet(<< >>) = {}
  BY DEF ToSet
<1>6. Out(p)' = ToSet(SentPackets(p)) /\ \A q \in Pdrs : q # p => Out(q)' = Out(q)
  BY <1>1, <1>4, <1>5 DEF Out
<1>7. Out(p)' \subseteq Out(p) /\ Out(p)' \cap ToSet(Buffered(p)) = {} /\ ToSet(Buffered(p)) \subseteq Out(p)
  BY <1>3, <1>6 DEF Out
<1>8. \A q \in Pdrs : Out(q)' \subseteq accepted' \ discarded'
  BY <1>6, <1>7 DEF Placed
<1>9. \A q, r \in Pdrs : q # r => Out(q)' \cap Out(r)' = {}
  BY <1>6, <1>7 DEF Placed
<1>10. \A q \in Pdrs : InOrder(q)'
  <2>1. SentPackets(p) \o << >> = SentPackets(p)
    BY <1>2
  <2>2. InOrder(p)'
    BY <1>1, <1>3, <1>4, <2>1 DEF InOrder
  <2>3. \A q \in Pdrs : q # p => InOrder(q)'
    BY <1>1, <1>4 DEF InOrder, Placed
  <2>4. QED
    BY <2>2, <2>3
<1>11. Out(p)' = Out(p) \ ToSet(Buffered(p))
  BY <1>3, <1>6 DEF Out
<1>12. QED
  BY <1>6, <1>8, <1>9, <1>10, <1>11 DEF Placed

LEMMA AddedPlaced ==
  ASSUME Typed, Stored, Placed, sent' = sent, discarded' = discarded, Numbered,
         packets \in Number, packets \notin accepted, accepted' = accepted \cup {packets},
         NEW p \in Pdrs, BufferedAs(p, Append(Buffered(p), packets))
  PROVE  /\ Placed' /\ Out(p)' = Out(p) \cup {packets}
         /\ \A q \in Pdrs : q # p => Out(q)' = Out(q)
<1>1. \A q \in Pdrs : SentPackets(q)' = SentPackets(q)
  BY SentSame
<1>2. SentPackets(p) \in Seq(Number) /\ Buffered(p) \in Seq(Number)
  BY Kept
<1>3. Buffered(p)' = Append(Buffered(p), packets) /\ \A q \in Pdrs : q # p => Buffered(q)' = Buffered(q)
  BY DEF BufferedAs
<1>4. ToSet(Append(Buffered(p), packets)) = ToSet(Buffered(p)) \cup {packets}
  BY <1>2, AppendSet
<1>5. Out(p)' = Out(p) \cup {packets} /\ \A q \in Pdrs : q # p => Out(q)' = Out(q)
  BY <1>1, <1>3, <1>4 DEF Out
<1>6. packets \notin discarded
  BY DEF Numbered
<1>7. \A q \in Pdrs : Out(q)' \subseteq accepted' \ discarded'
  BY <1>5, <1>6 DEF Placed
<1>8. \A q, r \in Pdrs : q # r => Out(q)' \cap Out(r)' = {}
  BY <1>5 DEF Placed
<1>9. \A x \in Out(p) : x < packets
  <2> SUFFICES ASSUME NEW x \in Out(p) PROVE x < packets
    OBVIOUS
  <2>1. x \in accepted /\ x \in 1 .. packets /\ x # packets
    BY DEF Placed, Numbered
  <2>2. packets \in Int
    BY NumberIsInt
  <2>3. QED
    BY <2>1, <2>2
<1>10. \A q \in Pdrs : InOrder(q)'
  <2>1. Increasing(SentPackets(p) \o Append(Buffered(p), packets))
    BY <1>2, <1>9, IncreasingAppend DEF Placed, InOrder, Out
  <2>2. InOrder(p)'
    BY <1>1, <1>3, <2>1 DEF InOrder
  <2>3. \A q \in Pdrs : q # p => InOrder(q)'
    BY <1>1, <1>3 DEF InOrder, Placed
  <2>4. QED
    BY <2>2, <2>3
<1>11. QED
  BY <1>5, <1>7, <1>8, <1>10 DEF Placed

LEMMA FlushedPlaced ==
  ASSUME Typed, Stored, Placed, accepted' = accepted, discarded' = discarded,
         NEW p \in Pdrs, NEW f \in Fars, BufferedAs(p, << >>),
         sent' = [sent EXCEPT ![p] = @ \o Via(f, Buffered(p))]
  PROVE  /\ Placed' /\ sent' \in [Pdrs -> Seq(Sending)]
         /\ \A q \in Pdrs : Out(q)' = Out(q)
<1>1. /\ sent[p] \in Seq(Sending) /\ SentPackets(p) = PacketsOf(sent[p])
      /\ SentPackets(p) \in Seq(Number) /\ Buffered(p) \in Seq(Number)
  BY Kept
<1>2. PICK s, b, n : s = sent[p] /\ b = Buffered(p) /\ n = s \o Via(f, b)
  OBVIOUS
<1>3. n \in Seq(Sending) /\ PacketsOf(n) = SentPackets(p) \o Buffered(p)
  <2>1. s \in Seq(Sending) /\ b \in Seq(Number)
    BY <1>1, <1>2
  <2>2. n \in Seq(Sending) /\ PacketsOf(n) = PacketsOf(s) \o b
    BY Zenon, <1>2, <2>1, PacketsOfVia
  <2>3. QED
    BY Zenon, <1>1, <1>2, <2>2
<1>4. sent' = [sent EXCEPT ![p] = n]
  BY <1>2
<1>5. sent'[p] = n /\ \A q \in Pdrs : q # p => sent'[q] = sent[q]
  BY <1>4 DEF Typed
<1>6. sent' \in [Pdrs -> Seq(Sending)]
  BY <1>3, <1>4 DEF Typed, Number, Sending
<1>7. SentPackets(p)' = SentPackets(p) \o Buffered(p)
  BY <1>3, <1>5 DEF SentPackets, PacketsOf
<1>8. \A q \in Pdrs : q # p => SentPackets(q)' = SentPackets(q)
  BY <1>5 DEF SentPackets
<1>9. Buffered(p)' = << >> /\ \A q \in Pdrs : q # p => Buffered(q)' = Buffered(q)
  BY DEF BufferedAs
<1>10. ToSet(SentPackets(p) \o Buffered(p)) = ToSet(SentPackets(p)) \cup ToSet(Buffered(p))
  BY <1>1, ConcatSet
<1>11. ToSet(<< >>) = {}
  BY DEF ToSet
<1>12. \A q \in Pdrs : Out(q)' = Out(q)
  BY <1>7, <1>8, <1>9, <1>10, <1>11 DEF Out
<1>13. (SentPackets(p) \o Buffered(p)) \o << >> = SentPackets(p) \o Buffered(p)
  <2>1. PICK c \in Seq(Number) : c = SentPackets(p) \o Buffered(p)
    BY <1>1, ConcatElements
  <2>2. QED
    BY <2>1
<1>14. \A q \in Pdrs : InOrder(q)'
  BY <1>7, <1>8, <1>9, <1>13 DEF InOrder, Placed
<1>15. QED
  BY <1>6, <1>12, <1>14 DEF Placed

-----------------------------------------------------------------------------
(* What a step leaves alone. *)

LEMMA LostSame ==
  ASSUME accepted' = accepted, discarded' = discarded, \A p \in Pdrs : Out(p)' = Out(p)
  PROVE  Lost' = Lost
<1>1. Lost = accepted \ (discarded \cup UNION {Out(p) : p \in Pdrs})
  BY DEF Lost, Out
<1>2. Lost' = accepted' \ (discarded' \cup UNION {Out(p)' : p \in Pdrs})
  BY DEF Lost, Out
<1>3. {Out(p)' : p \in Pdrs} = {Out(p) : p \in Pdrs}
  OBVIOUS
<1>4. QED
  BY <1>1, <1>2, <1>3

LEMMA BuffersSame ==
  ASSUME Placed, UNCHANGED <<buffers, accepted>>
  PROVE  Placed' /\ Lost' = Lost
<1>1. \A p : SentPackets(p)' = SentPackets(p) /\ Buffered(p)' = Buffered(p)
  BY DEF buffers, SentPackets, Buffered
<1>2. \A p : Out(p)' = Out(p)
  BY <1>1 DEF Out
<1>3. Placed'
  BY <1>1, AsBefore DEF buffers
<1>4. QED
  BY <1>2, <1>3, LostSame DEF buffers

LEMMA StoredSame ==
  ASSUME Typed, Stored, bufPacketHash' = bufPacketHash, store' = store,
         \A p \in Pdrs : bufPacketHash[p] # Null =>
           /\ \A s \in Sessions : Lists(s, p) => Lists(s, p)'
           /\ pdr[p] # Null => pdr'[p] # Null
  PROVE  Stored'
<1>1. ASSUME NEW a \in Stores, store[a] # Null
      PROVE  \E p \in Pdrs : /\ bufPacketHash[p] = a
                              /\ pdrList'[store[a].sess] # Null
                              /\ p \in ToSet(pdrList'[store[a].sess])
  <2>1. PICK s \in Sessions : s = store[a].sess
    BY <1>1 DEF Typed, UpfBufPacket
  <2>2. PICK p \in Pdrs : bufPacketHash[p] = a /\ Lists(s, p)
    BY <1>1, <2>1 DEF Stored
  <2>3. a # Null
    BY BufferingAssumption
  <2>4. Lists(s, p)'
    BY <2>2, <2>3
  <2>5. QED
    BY <2>1, <2>2, <2>4 DEF Lists, Live
<1>2. QED
  BY <1>1 DEF Stored, Lists, Live

(* A step of the main thread that leaves the buffers alone. *)
LEMMA MainOnly ==
  ASSUME Inv, UNCHANGED <<buffers, receiver>>,
         fault' \in {"none", "freed", "no buffer", "no storage"},
         RulesTyped', MainStates', Listed', Stored', InKernel', Handling'
  PROVE  Inv' /\ Lost' = Lost
<1>1. UpStates'
  BY DEF Inv, UpStates, receiver
<1>2. Typed'
  BY DEF Inv, Typed, buffers, receiver
<1>3. Numbered'
  BY DEF Inv, Numbered, buffers, receiver
<1>4. Placed' /\ Lost' = Lost
  BY BuffersSame DEF Inv, receiver
<1>5. QED
  BY <1>1, <1>2, <1>3, <1>4 DEF Inv

LEMMA RulesSame ==
  ASSUME Inv, UNCHANGED rules
  PROVE  /\ RulesTyped' /\ Listed'
         /\ \A s, p : Lists(s, p)' = Lists(s, p)
<1>1. \A s, p : Lists(s, p)' = Lists(s, p)
  BY DEF rules, Lists, Live
<1>2. Listed'
  BY <1>1 DEF Inv, Listed, rules, Live
<1>3. QED
  BY <1>1, <1>2 DEF Inv, Typed, RulesTyped, rules

LEMMA RulesBuffersSame ==
  ASSUME Inv, UNCHANGED <<rules, buffers>>
  PROVE  RulesTyped' /\ Listed' /\ Stored'
<1>1. RulesTyped' /\ Listed' /\ \A s, p : Lists(s, p)' = Lists(s, p)
  BY RulesSame
<1>2. QED
  BY <1>1, StoredSame DEF Inv, rules, buffers

(* A step of the packet receiver that touches no buffer. *)
LEMMA ReceiverOnly ==
  ASSUME Inv, UNCHANGED <<rules, buffers, main, accepted>>,
         fault' \in {"none", "freed", "no buffer", "no storage"},
         UpStates', Numbered', buffLock' \in BOOLEAN, FARHashLock' \in BOOLEAN,
         packets' \in 0 .. MaxPackets
  PROVE  Inv' /\ Lost' = Lost
<1>1. RulesTyped' /\ Listed' /\ Stored'
  BY RulesBuffersSame
<1>2. Typed'
  BY <1>1 DEF Inv, Typed, buffers
<1>3. MainStates' /\ InKernel'
  BY DEF Inv, MainStates, InKernel, rules
<1>4. \A s, p : Lists(s, p)' = Lists(s, p)
  BY RulesSame
<1>5. Handling'
  BY <1>4 DEF Inv, Handling, rules, buffers, Live
<1>6. Placed' /\ Lost' = Lost
  BY BuffersSame DEF Inv
<1>7. QED
  BY <1>1, <1>2, <1>3, <1>5, <1>6 DEF Inv

-----------------------------------------------------------------------------
(* Requests that leave the buffers alone. *)

Flags == {"DROP", "FORW", "BUFF", "NOCP"}

LEMMA Converted ==
  /\ \A ie \in PdrIEs : ConvertCreatePDRTlvToRule(ie) \in PdrRule
  /\ \A ie \in PdrIEs, r \in PdrRule : ConvertUpdatePDRTlvToRule(r, ie) \in PdrRule
  /\ \A s \in Sessions, ie \in CreateFarIEs : ConvertCreateFARTlvToRule(s, ie) \in FarRule
  /\ \A ie \in UpdateFarIEs, r \in FarRule : ConvertUpdateFARTlvToRule(r, ie) \in FarRule
<1>1. ApplyActions \subseteq SUBSET Flags
  BY BufferingAssumption DEF Flags
<1>2. \A ie \in PdrIEs : ConvertCreatePDRTlvToRule(ie) \in PdrRule
  BY DEF PdrIEs, PdrRule, ConvertCreatePDRTlvToRule
<1>3. \A ie \in PdrIEs, r \in PdrRule : ConvertUpdatePDRTlvToRule(r, ie) \in PdrRule
  BY DEF PdrIEs, PdrRule, ConvertUpdatePDRTlvToRule
<1>4. \A s \in Sessions, ie \in CreateFarIEs : ConvertCreateFARTlvToRule(s, ie) \in FarRule
  BY <1>1 DEF CreateFarIEs, FarRule, ConvertCreateFARTlvToRule, Flags
<1>5. ASSUME NEW ie \in UpdateFarIEs, NEW r \in FarRule
      PROVE  ConvertUpdateFARTlvToRule(r, ie) \in FarRule
  <2>1. /\ ie.action \in (SUBSET Flags) \cup {Null} /\ ie.tunnel \in BOOLEAN
        /\ r.action \in SUBSET Flags /\ r.tunnel \in BOOLEAN
    BY <1>1 DEF UpdateFarIEs, FarRule, Flags
  <2>2. (IF ie.action = Null THEN r.action ELSE ie.action) \in SUBSET Flags
    BY <2>1
  <2>3. (r.tunnel \/ ie.tunnel) \in BOOLEAN
    OBVIOUS
  <2>4. QED
    BY <2>2, <2>3 DEF FarRule, ConvertUpdateFARTlvToRule, Flags
<1>6. QED
  BY <1>2, <1>3, <1>4, <1>5

LEMMA EmptyList ==
  << >> \in Seq(Pdrs) /\ << >> # Null /\ IsInjective(<< >>) /\ ToSet(<< >>) = {}
<1>1. << >> \in Seq(Pdrs)
  OBVIOUS
<1>2. << >> # Null
  BY <1>1, NullAssumption
<1>3. IsInjective(<< >>)
  BY DEF IsInjective
<1>4. ToSet(<< >>) = {}
  BY DEF ToSet
<1>5. QED
  BY <1>1, <1>2, <1>3, <1>4

LEMMA UpfSessionAddInv ==
  ASSUME Inv, NEW s \in Sessions, UpfSessionAdd(s)
  PROVE  Inv' /\ Lost' = Lost
<1> USE DEF UpfSessionAdd
<1>1. /\ main.pc = "idle" /\ pdrList[s] = Null
      /\ pdrList' = [pdrList EXCEPT ![s] = << >>]
      /\ UNCHANGED <<pdr, matchList, far, kernel, buffers, receiver, main, fault>>
  BY DEF MainIdle, Live
<1>2. << >> \in Seq(Pdrs) /\ << >> # Null /\ IsInjective(<< >>) /\ ToSet(<< >>) = {}
  BY EmptyList
<1>3. pdrList'[s] = << >> /\ \A t \in Sessions : t # s => pdrList'[t] = pdrList[t]
  BY <1>1 DEF Inv, Typed, RulesTyped
<1>4. \A t \in Sessions, p \in Pdrs : Lists(t, p)' = Lists(t, p)
  BY <1>1, <1>2, <1>3 DEF Lists, Live
<1>5. RulesTyped'
  BY <1>1, <1>2 DEF Inv, Typed, RulesTyped
<1>6. \A t \in Sessions : Live(t)' => IsInjective(pdrList'[t])
  BY <1>2, <1>3 DEF Inv, Listed, Live
<1>7. Listed'
  BY <1>1, <1>4, <1>6 DEF Inv, Listed
<1>8. Stored'
  BY <1>1, <1>4, StoredSame DEF Inv, buffers
<1>9. MainStates' /\ InKernel' /\ Handling'
  BY <1>1 DEF Inv, MainStates, InKernel, Handling
<1>10. fault' \in {"none", "freed", "no buffer", "no storage"}
  BY <1>1 DEF Inv, Typed
<1>11. QED
  BY <1>1, <1>5, <1>7, <1>8, <1>9, <1>10, MainOnly

(* A request that changes the FARs and their rules in the kernel. *)
LEMMA FarsOnly ==
  ASSUME Inv, main.pc = "idle",
         UNCHANGED <<pdrList, pdr, matchList, buffers, receiver, fault>>,
         far' \in [Fars -> FarRule \cup {Null}], kernel' \subseteq Pdrs \cup Fars,
         \A p \in Pdrs : p \in kernel => p \in kernel',
         \A f \in Fars : far'[f] # Null => f \in kernel',
         MainStates', Handling'
  PROVE  Inv' /\ Lost' = Lost
<1>1. \A s, p : Lists(s, p)' = Lists(s, p)
  BY DEF Lists, Live
<1>2. Listed'
  BY <1>1 DEF Inv, Listed, Live
<1>3. Stored'
  BY <1>1, StoredSame DEF Inv, buffers
<1>4. InKernel'
  BY DEF Inv, InKernel
<1>5. RulesTyped' /\ fault' \in {"none", "freed", "no buffer", "no storage"}
  BY DEF Inv, Typed, RulesTyped
<1>6. QED
  BY <1>2, <1>3, <1>4, <1>5, MainOnly

LEMMA UpfN4HandleCreateFarInv ==
  ASSUME Inv, NEW s \in Sessions, NEW f \in Fars, NEW ie \in CreateFarIEs,
         UpfN4HandleCreateFar(s, f, ie)
  PROVE  Inv' /\ Lost' = Lost
<1>1. PICK r \in FarRule : r = ConvertCreateFARTlvToRule(s, ie)
  BY Converted
<1>2. /\ main.pc = "idle" /\ main' = main
      /\ kernel' = kernel \cup {f} /\ far' = [far EXCEPT ![f] = r]
      /\ UNCHANGED <<pdrList, pdr, matchList, buffers, receiver, fault>>
  BY <1>1 DEF UpfN4HandleCreateFar, MainIdle
<1>3. far' \in [Fars -> FarRule \cup {Null}] /\ kernel' \subseteq Pdrs \cup Fars
  BY <1>2 DEF Inv, Typed, RulesTyped
<1>4. \A g \in Fars : far'[g] # Null => g \in kernel'
  BY <1>2 DEF Inv, Typed, RulesTyped, InKernel
<1>5. MainStates' /\ Handling'
  BY <1>2 DEF Inv, MainStates, Handling
<1>6. QED
  BY <1>2, <1>3, <1>4, <1>5, FarsOnly

LEMMA UpfN4HandleRemoveFarInv ==
  ASSUME Inv, NEW s \in Sessions, NEW f \in Fars, UpfN4HandleRemoveFar(s, f)
  PROVE  Inv' /\ Lost' = Lost
<1>1. /\ main.pc = "idle" /\ main' = main
      /\ kernel' = kernel \ {f} /\ far' = [far EXCEPT ![f] = Null]
      /\ UNCHANGED <<pdrList, pdr, matchList, buffers, receiver, fault>>
  BY DEF UpfN4HandleRemoveFar, MainIdle
<1>2. far' \in [Fars -> FarRule \cup {Null}] /\ kernel' \subseteq Pdrs \cup Fars
  BY <1>1 DEF Inv, Typed, RulesTyped
<1>3. \A g \in Fars : far'[g] # Null => g \in kernel'
  BY <1>1 DEF Inv, Typed, RulesTyped, InKernel
<1>4. \A p \in Pdrs : p \in kernel => p \in kernel'
  BY <1>1, BufferingAssumption
<1>5. MainStates' /\ Handling'
  BY <1>1 DEF Inv, MainStates, Handling
<1>6. QED
  BY <1>1, <1>2, <1>3, <1>4, <1>5, FarsOnly

LEMMA UpfN4HandleUpdateFarInv ==
  ASSUME Inv, NEW s \in Sessions, NEW f \in Fars, NEW ie \in UpdateFarIEs,
         UpfN4HandleUpdateFar(s, f, ie)
  PROVE  Inv' /\ Lost' = Lost
<1>1. /\ main.pc = "idle" /\ pdrList[s] # Null /\ far[f] # Null
      /\ far' = [far EXCEPT ![f] = ConvertUpdateFARTlvToRule(@, ie)]
      /\ UNCHANGED <<pdrList, pdr, matchList, kernel, buffers, receiver, fault>>
  BY DEF UpfN4HandleUpdateFar, MainIdle, Live
<1>2. far[f] \in FarRule /\ pdrList[s] \in Seq(Pdrs)
  BY <1>1 DEF Inv, Typed, RulesTyped
<1>3. PICK r \in FarRule : r = ConvertUpdateFARTlvToRule(far[f], ie)
  BY <1>2, Converted
<1>4. far' = [far EXCEPT ![f] = r]
  BY <1>1, <1>3
<1>5. far' \in [Fars -> FarRule \cup {Null}] /\ kernel' \subseteq Pdrs \cup Fars
  BY <1>1, <1>4 DEF Inv, Typed, RulesTyped
<1>6. far'[f] # Null /\ \A g \in Fars : g # f => far'[g] = far[g]
  BY <1>4, NullAssumption DEF Inv, Typed, RulesTyped
<1>7. \A g \in Fars : far'[g] # Null => g \in kernel'
  BY <1>1, <1>6 DEF Inv, InKernel
<1>8. \/ main' = Idle
      \/ main' = [pc |-> "drop", todo |-> pdrList[s]]
      \/ main' = [pc |-> "send", todo |-> pdrList[s], far |-> f]
  BY DEF UpfN4HandleUpdateFar
<1>9. MainStates' /\ Handling'
  BY <1>2, <1>6, <1>8 DEF MainStates, Handling, Idle
<1>10. QED
  BY <1>1, <1>5, <1>7, <1>9, FarsOnly

LEMMA UpfN4HandleCreatePdrInv ==
  ASSUME Inv, NEW s \in Sessions, NEW p \in Pdrs, NEW ie \in PdrIEs,
         UpfN4HandleCreatePdr(s, p, ie)
  PROVE  Inv' /\ Lost' = Lost
<1>1. PICK r \in PdrRule : r = ConvertCreatePDRTlvToRule(ie)
  BY Converted
<1>2. /\ main.pc = "idle" /\ pdrList[s] # Null /\ pdr[p] = Null
      /\ kernel' = kernel \cup {p}
      /\ pdrList' = [pdrList EXCEPT ![s] = <<p>> \o @]
      /\ pdr' = [pdr EXCEPT ![p] = r]
      /\ main' = [pc |-> "register", pdr |-> p, new |-> TRUE, sess |-> s]
      /\ UNCHANGED <<matchList, far, buffers, receiver, fault>>
  BY <1>1 DEF UpfN4HandleCreatePdr, MainIdle, Live
<1>3. pdrList[s] \in Seq(Pdrs)
  BY <1>2 DEF Inv, Typed, RulesTyped
<1>4. PICK one \in Seq(Pdrs) : one = <<p>>
  <2>1. <<p>> \in Seq(Pdrs)
    OBVIOUS
  <2>2. QED
    BY <2>1
<1>5. ToSet(one) = {p} /\ IsInjective(one)
  <2>1. Len(one) = 1 /\ one[1] = p
    BY <1>4
  <2>2. QED
    BY <2>1, SeqAsSet
<1>6. PICK l \in Seq(Pdrs) : l = one \o pdrList[s]
  BY <1>3, ConcatElements
<1>7. p \notin ToSet(pdrList[s]) /\ \A t \in Sessions : ~Lists(t, p)
  BY <1>2 DEF Inv, Listed, Lists, Live
<1>8. ToSet(l) = {p} \cup ToSet(pdrList[s]) /\ IsInjective(l)
  BY <1>2, <1>3, <1>5, <1>6, <1>7, ConcatSet DEF Inv, Listed, Live
<1>9. /\ pdrList' = [pdrList EXCEPT ![s] = l] /\ l # Null
      /\ pdrList'[s] = l /\ \A t \in Sessions : t # s => pdrList'[t] = pdrList[t]
  BY <1>2, <1>4, <1>6, NullAssumption DEF Inv, Typed, RulesTyped
<1>10. pdr'[p] # Null /\ \A q \in Pdrs : q # p => pdr'[q] = pdr[q]
  BY <1>2, NullAssumption DEF Inv, Typed, RulesTyped
<1>11. /\ Lists(s, p)' /\ \A t \in Sessions : Lists(t, p)' => t = s
       /\ \A t \in Sessions, q \in Pdrs : q # p => Lists(t, q)' = Lists(t, q)
  BY <1>2, <1>7, <1>8, <1>9 DEF Lists, Live
<1>12. RulesTyped'
  BY <1>2, <1>9 DEF Inv, Typed, RulesTyped
<1>13. Listed'
  <2>1. \A t \in Sessions : Live(t)' => IsInjective(pdrList'[t])
    BY <1>8, <1>9 DEF Inv, Listed, Live
  <2>2. matchList' \subseteq {q \in Pdrs : pdr'[q] # Null}
    BY <1>2, <1>10 DEF Inv, Listed
  <2>3. \A q \in Pdrs : pdr'[q] # Null => \E t \in Sessions : Lists(t, q)'
    BY <1>10, <1>11 DEF Inv, Listed
  <2>4. \A t \in Sessions, q \in Pdrs : Lists(t, q)' => pdr'[q] # Null
    BY <1>10, <1>11 DEF Inv, Listed
  <2>5. \A t, u \in Sessions, q \in Pdrs : Lists(t, q)' /\ Lists(u, q)' => t = u
    BY <1>11 DEF Inv, Listed
  <2>6. QED
    BY <2>1, <2>2, <2>3, <2>4, <2>5 DEF Listed
<1>14. bufPacketHash[p] = Null
  BY <1>2 DEF Inv, Stored
<1>15. Stored'
  BY <1>2, <1>10, <1>11, <1>14, StoredSame DEF Inv, buffers
<1>16. InKernel'
  BY <1>2, <1>10 DEF Inv, InKernel
<1>17. MainStates'
  BY <1>2 DEF MainStates
<1>18. Handling'
  BY <1>2, <1>10, <1>11, <1>14 DEF Handling, buffers
<1>19. fault' \in {"none", "freed", "no buffer", "no storage"}
  BY <1>2 DEF Inv, Typed
<1>20. QED
  BY <1>2, <1>12, <1>13, <1>15, <1>16, <1>17, <1>18, <1>19, MainOnly

(* A step of the main thread that changes no list and neither adds nor      *)
(* removes a PDR.                                                           *)
LEMMA PdrsStay ==
  ASSUME Inv, UNCHANGED <<pdrList, far, kernel, buffers, receiver>>,
         fault' \in {"none", "freed", "no buffer", "no storage"},
         pdr' \in [Pdrs -> PdrRule \cup {Null}],
         \A p \in Pdrs : pdr[p] = Null <=> pdr'[p] = Null,
         matchList' \subseteq {p \in Pdrs : pdr[p] # Null},
         main.pc = "deregister" => main' = main,
         MainStates', Handling'
  PROVE  Inv' /\ Lost' = Lost
<1>1. \A s, p : Lists(s, p)' = Lists(s, p)
  BY DEF Lists, Live
<1>2. Listed'
  BY <1>1 DEF Inv, Listed, Live
<1>3. Stored'
  BY <1>1, StoredSame DEF Inv, buffers
<1>4. InKernel'
  BY DEF Inv, InKernel
<1>5. RulesTyped'
  BY DEF Inv, Typed, RulesTyped
<1>6. QED
  BY <1>2, <1>3, <1>4, <1>5, MainOnly

LEMMA UpfN4HandleUpdatePdrInv ==
  ASSUME Inv, NEW s \in Sessions, NEW p \in Pdrs, NEW ie \in PdrIEs,
         UpfN4HandleUpdatePdr(s, p, ie)
  PROVE  Inv' /\ Lost' = Lost
<1>1. /\ main.pc = "idle" /\ pdr[p] # Null
      /\ pdr' = [pdr EXCEPT ![p] = ConvertUpdatePDRTlvToRule(@, ie)]
      /\ matchList' = matchList \ {p}
      /\ main' = [pc |-> "register", pdr |-> p, new |-> FALSE, sess |-> s]
      /\ UNCHANGED <<pdrList, far, kernel, buffers, receiver, fault>>
  BY DEF UpfN4HandleUpdatePdr, MainIdle
<1>2. pdr[p] \in PdrRule
  BY <1>1 DEF Inv, Typed, RulesTyped
<1>3. PICK r \in PdrRule : r = ConvertUpdatePDRTlvToRule(pdr[p], ie)
  BY <1>2, Converted
<1>4. pdr' = [pdr EXCEPT ![p] = r]
  BY <1>1, <1>3
<1>5. /\ pdr' \in [Pdrs -> PdrRule \cup {Null}] /\ pdr'[p] # Null
      /\ \A q \in Pdrs : q # p => pdr'[q] = pdr[q]
  BY <1>4, NullAssumption DEF Inv, Typed, RulesTyped
<1>6. \A q \in Pdrs : pdr[q] = Null <=> pdr'[q] = Null
  BY <1>1, <1>5
<1>7. matchList' \subseteq {q \in Pdrs : pdr[q] # Null}
  BY <1>1 DEF Inv, Listed
<1>8. MainStates' /\ Handling'
  BY <1>1, <1>5 DEF MainStates, Handling
<1>9. fault' \in {"none", "freed", "no buffer", "no storage"}
  BY <1>1 DEF Inv, Typed
<1>10. QED
  BY <1>1, <1>5, <1>6, <1>7, <1>8, <1>9, PdrsStay

LEMMA MatchRuleRegisterInv ==
  ASSUME Inv, MatchRuleRegister
  PROVE  Inv' /\ Lost' = Lost
<1>1. /\ main.pc = "register" /\ matchList' = matchList \cup {main.pdr}
      /\ UNCHANGED <<pdrList, pdr, far, kernel, buffers, receiver, fault>>
  BY DEF MatchRuleRegister
<1>2. /\ main.pdr \in Pdrs /\ main.sess \in Sessions /\ main.new \in BOOLEAN
      /\ pdr[main.pdr] # Null
      /\ main.new => bufPacketHash[main.pdr] = Null /\ Lists(main.sess, main.pdr)
  BY <1>1 DEF Inv, MainStates, Handling
<1>3. \/ main' = Idle
      \/ main.new /\ main' = [pc |-> "store", pdr |-> main.pdr, sess |-> main.sess]
  BY DEF MatchRuleRegister
<1>4. MainStates'
  BY <1>2, <1>3 DEF MainStates, Idle
<1>5. Handling'
  <2>1. CASE main' = Idle
    BY <2>1 DEF Handling, Idle
  <2>2. CASE main.new /\ main' = [pc |-> "store", pdr |-> main.pdr, sess |-> main.sess]
    <3>1. /\ main'.pc = "store" /\ main'.pdr = main.pdr /\ main'.sess = main.sess
          /\ bufPacketHash' = bufPacketHash /\ pdrList' = pdrList
      BY <1>1, <2>2 DEF buffers
    <3>2. bufPacketHash'[main'.pdr] = Null /\ Lists(main.sess, main.pdr)
      BY <1>2, <2>2, <3>1
    <3>3. QED
      BY <3>1, <3>2 DEF Handling, Lists, Live
  <2>3. QED
    BY <1>3, <2>1, <2>2
<1>6. matchList' \subseteq {q \in Pdrs : pdr[q] # Null}
  BY <1>1, <1>2 DEF Inv, Listed
<1>7. pdr' \in [Pdrs -> PdrRule \cup {Null}] /\ fault' \in {"none", "freed", "no buffer", "no storage"}
  BY <1>1 DEF Inv, Typed, RulesTyped
<1>8. QED
  BY <1>1, <1>4, <1>5, <1>6, <1>7, PdrsStay

LEMMA UpfSessionRemoveInv ==
  ASSUME Inv, NEW s \in Sessions, UpfSessionRemove(s)
  PROVE  Inv' /\ Lost' = Lost
<1>1. /\ main.pc = "idle" /\ pdrList[s] # Null
      /\ main' = [pc |-> "discard", todo |-> pdrList[s], ending |-> s]
      /\ UNCHANGED <<rules, buffers, receiver, fault>>
  BY DEF UpfSessionRemove, MainIdle, Live
<1>2. pdrList[s] \in Seq(Pdrs)
  BY <1>1 DEF Inv, Typed, RulesTyped
<1>3. MainStates' /\ Handling'
  BY <1>1, <1>2 DEF MainStates, Handling, rules, Live
<1>4. /\ pdr' \in [Pdrs -> PdrRule \cup {Null}] /\ matchList' \subseteq {q \in Pdrs : pdr[q] # Null}
      /\ fault' \in {"none", "freed", "no buffer", "no storage"}
  BY <1>1 DEF Inv, Typed, RulesTyped, Listed, rules
<1>5. QED
  BY <1>1, <1>3, <1>4, PdrsStay DEF rules

LEMMA UpSendPacketByPdrFarInv ==
  ASSUME Inv, UpSendPacketByPdrFar
  PROVE  Inv' /\ Lost' = Lost
<1>1. main.pc = "send" /\ UNCHANGED <<rules, buffers, receiver>>
  BY DEF UpSendPacketByPdrFar
<1>2. PICK t \in Seq(Pdrs), f \in Fars :
        main = [pc |-> "send", todo |-> t, far |-> f] /\ far[f] # Null
  BY <1>1 DEF Inv, MainStates, Handling
<1>3. \/ main' = Idle /\ fault' = fault
      \/ t # << >> /\ main' = [main EXCEPT !.todo = Tail(@)] /\ fault' = fault
      \/ main' = main /\ fault' = "no storage"
      \/ /\ t # << >> /\ bufPacketHash[Head(t)] # Null /\ fault' = fault
         /\ main' = [main EXCEPT !.pc = "clear"]
      \/ /\ t # << >> /\ bufPacketHash[Head(t)] # Null /\ fault' = fault
         /\ store[bufPacketHash[Head(t)]].packetBuffer # Null
         /\ main' = [main EXCEPT !.pc = "flush"]
  BY <1>2 DEF UpSendPacketByPdrFar
<1>4. t # << >> => Tail(t) \in Seq(Pdrs)
  BY HeadTailSet
<1>5. /\ [main EXCEPT !.todo = Tail(@)] = [pc |-> "send", todo |-> Tail(t), far |-> f]
      /\ [main EXCEPT !.pc = "clear"] = [pc |-> "clear", todo |-> t, far |-> f]
      /\ [main EXCEPT !.pc = "flush"] = [pc |-> "flush", todo |-> t, far |-> f]
  <2>1. [main EXCEPT !.todo = Tail(@)] = [pc |-> "send", todo |-> Tail(t), far |-> f]
    <3>1. PICK u : u = Tail(t)
      OBVIOUS
    <3>2. [main EXCEPT !.todo = u] = [pc |-> "send", todo |-> u, far |-> f]
      BY <1>2
    <3>3. Tail(main.todo) = u
      BY <1>2, <3>1
    <3>4. QED
      BY <3>1, <3>2, <3>3, Zenon
  <2>2. [main EXCEPT !.pc = "clear"] = [pc |-> "clear", todo |-> t, far |-> f]
    BY <1>2
  <2>3. [main EXCEPT !.pc = "flush"] = [pc |-> "flush", todo |-> t, far |-> f]
    BY <1>2
  <2>4. QED
    BY <2>1, <2>2, <2>3
<1>6. MainStates' /\ Handling'
  <2>1. CASE main' = Idle
    BY <2>1 DEF MainStates, Handling, Idle
  <2>2. CASE t # << >> /\ main' = [pc |-> "send", todo |-> Tail(t), far |-> f]
    BY <1>1, <1>2, <1>4, <2>2 DEF MainStates, Handling, rules
  <2>3. CASE main' = main
    BY <1>1, <1>2, <2>3 DEF MainStates, Handling, rules
  <2>4. CASE /\ t # << >> /\ bufPacketHash[Head(t)] # Null
             /\ main' = [pc |-> "clear", todo |-> t, far |-> f]
    BY <1>1, <1>2, <2>4 DEF MainStates, Handling, rules, buffers
  <2>5. CASE /\ t # << >> /\ bufPacketHash[Head(t)] # Null
             /\ store[bufPacketHash[Head(t)]].packetBuffer # Null
             /\ main' = [pc |-> "flush", todo |-> t, far |-> f]
    BY <1>1, <1>2, <2>5 DEF MainStates, Handling, rules, buffers
  <2>6. QED
    BY <1>3, <1>5, <2>1, <2>2, <2>3, <2>4, <2>5
<1>10. fault' \in {"none", "freed", "no buffer", "no storage"}
  BY <1>3 DEF Inv, Typed
<1>11. /\ pdr' \in [Pdrs -> PdrRule \cup {Null}] /\ matchList' \subseteq {q \in Pdrs : pdr[q] # Null}
  BY <1>1 DEF Inv, Typed, RulesTyped, Listed, rules
<1>12. QED
  BY <1>1, <1>2, <1>6, <1>10, <1>11, PdrsStay DEF rules

LEMMA UpfFARListDeletionInv ==
  ASSUME Inv, UpfFARListDeletion
  PROVE  Inv' /\ Lost' = Lost
<1>1. /\ main.pc = "deregister" /\ main.todo = << >> /\ main.ending # Null
      /\ UNCHANGED <<pdr, matchList, buffers, receiver, fault>>
  BY DEF UpfFARListDeletion
<1>2. PICK s \in Sessions : /\ main = [pc |-> "deregister", todo |-> << >>, ending |-> s]
                            /\ pdrList[s] = << >>
  BY <1>1 DEF Inv, MainStates, Handling
<1>3. fault' \in {"none", "freed", "no buffer", "no storage"}
  BY <1>1 DEF Inv, Typed
<1>4. \A p \in Pdrs : pdr[p] # Null => p \in kernel
  BY <1>1 DEF Inv, InKernel
<1>5. CASE \E f \in Fars : /\ far' = [far EXCEPT ![f] = Null]
                            /\ kernel' \in {kernel, kernel \ {f}}
                            /\ main' = main /\ pdrList' = pdrList
  <2>1. PICK f \in Fars : /\ far' = [far EXCEPT ![f] = Null]
                          /\ kernel' \in {kernel, kernel \ {f}}
                          /\ main' = main /\ pdrList' = pdrList
    BY <1>5
  <2>2. \A s_1, p : Lists(s_1, p)' = Lists(s_1, p)
    BY <2>1 DEF Lists, Live
  <2>3. Listed'
    BY <1>1, <2>1, <2>2 DEF Inv, Listed, Live
  <2>4. Stored'
    BY <1>1, <2>2, StoredSame DEF Inv, buffers
  <2>5. RulesTyped'
    BY <1>1, <2>1 DEF Inv, Typed, RulesTyped
  <2>6. /\ \A g \in Fars : far'[g] # Null => g # f /\ far[g] # Null
        /\ \A p \in Pdrs : p # f
    <3>1. DOMAIN far = Fars
      BY DEF Inv, Typed, RulesTyped
    <3>2. far'[f] = Null /\ \A g \in Fars : g # f => far'[g] = far[g]
      BY <2>1, <3>1
    <3>3. \A p \in Pdrs : p # f
      BY BufferingAssumption
    <3>4. QED
      BY <3>2, <3>3
  <2>7. InKernel'
    BY <1>1, <1>4, <2>1, <2>6 DEF Inv, InKernel
  <2>8. MainStates'
    BY <2>1 DEF Inv, MainStates
  <2>9. Handling'
    BY <1>1, <1>2, <2>1 DEF Inv, Handling, buffers, Live
  <2>10. QED
    BY <1>1, <1>3, <2>3, <2>4, <2>5, <2>7, <2>8, <2>9, MainOnly
<1>6. CASE /\ pdrList' = [pdrList EXCEPT ![main.ending] = Null] /\ main' = Idle
           /\ far' = far /\ kernel' = kernel
  <2>1. pdrList'[s] = Null /\ \A t \in Sessions : t # s => pdrList'[t] = pdrList[t]
    BY <1>2, <1>6 DEF Inv, Typed, RulesTyped
  <2>2. \A t \in Sessions, p \in Pdrs : Lists(t, p)' = Lists(t, p)
    BY <1>2, <2>1, EmptyList DEF Lists, Live
  <2>3. \A t \in Sessions : Live(t)' => IsInjective(pdrList'[t])
    BY <2>1 DEF Inv, Listed, Live
  <2>4. Listed'
    BY <1>1, <2>2, <2>3 DEF Inv, Listed
  <2>5. Stored'
    BY <1>1, <2>2, StoredSame DEF Inv, buffers
  <2>6. RulesTyped'
    BY <1>1, <1>2, <1>6 DEF Inv, Typed, RulesTyped
  <2>7. MainStates' /\ InKernel' /\ Handling'
    BY <1>1, <1>4, <1>6 DEF Inv, MainStates, InKernel, Handling, Idle
  <2>8. QED
    BY <1>1, <1>3, <2>4, <2>5, <2>6, <2>7, MainOnly
<1>7. CASE FarsOf(main.ending) # {}
  <2>1. PICK f \in FarsOf(main.ending) : /\ far' = [far EXCEPT ![f] = Null]
                                         /\ kernel' \in {kernel, kernel \ {f}}
                                         /\ UNCHANGED <<main, pdrList>>
    BY <1>7 DEF UpfFARListDeletion
  <2>2. f \in Fars /\ main' = main /\ pdrList' = pdrList
    BY <2>1 DEF FarsOf
  <2>3. QED
    BY <1>5, <2>1, <2>2
<1>8. CASE FarsOf(main.ending) = {}
  BY <1>6, <1>8 DEF UpfFARListDeletion
<1>9. QED
  BY <1>7, <1>8

LEMMA RemoveFirstHead ==
  ASSUME NEW A, NEW s \in Seq(A), s # << >>, IsInjective(s)
  PROVE  RemoveFirst(s, Head(s)) = Tail(s)
<1>1. /\ Head(s) = s[1] /\ Head(s) \in ToSet(s) /\ Tail(s) \in Seq(A)
  BY HeadTailSet
<1>2. Len(s) \in Nat /\ Len(s) >= 1
  BY LenProperties, EmptySeq
<1>3. PICK i \in 1 .. Len(s) : s[i] = Head(s) /\ RemoveFirst(s, Head(s)) = RemoveAt(s, i)
  BY <1>1, RemoveFirstCases
<1>4. i = 1
  BY <1>1, <1>2, <1>3, SeqAsSet
<1>5. PICK r \in Seq(A) : r = RemoveAt(s, 1)
  BY <1>3, <1>4, RemoveAtElements
<1>6. Len(r) = Len(s) - 1 /\ \A k \in 1 .. Len(s) - 1 : r[k] = s[k + 1]
  <2>1. /\ Len(r) = Len(s) - 1
        /\ \A k \in 1 .. Len(s) - 1 : r[k] = IF k < 1 THEN s[k] ELSE s[k + 1]
    BY <1>3, <1>4, <1>5, RemoveAtElements
  <2>2. \A k \in 1 .. Len(s) - 1 : ~(k < 1)
    BY <1>2
  <2>3. QED
    BY <2>1, <2>2
<1>7. PICK t \in Seq(A) : t = Tail(s)
  BY <1>1
<1>8. Len(t) = Len(s) - 1 /\ \A k \in 1 .. Len(s) - 1 : t[k] = s[k + 1]
  BY <1>7, HeadTailProperties
<1>9. r = t
  BY <1>6, <1>8, SeqEqual
<1>10. QED
  BY <1>3, <1>4, <1>5, <1>7, <1>9

LEMMA UpfPDRDeregisterToSessionInv ==
  ASSUME Inv, UpfPDRDeregisterToSession
  PROVE  Inv' /\ Lost' = Lost
<1>1. main.pc = "deregister" /\ main.todo # << >> /\ UNCHANGED <<far, buffers, receiver, fault>>
  BY DEF UpfPDRDeregisterToSession
<1>2. PICK t \in Seq(Pdrs), e \in Sessions \cup {Null} :
        main = [pc |-> "deregister", todo |-> t, ending |-> e]
  BY <1>1 DEF Inv, MainStates
<1>3. PICK p : p = Head(t)
  OBVIOUS
<1>4. PICK u : u = Tail(t)
  OBVIOUS
<1>5. t # << >> /\ main.todo = t /\ main.ending = e
  BY <1>1, <1>2
<1>6. p \in Pdrs /\ p \in ToSet(t) /\ u \in Seq(Pdrs)
  BY <1>3, <1>4, <1>5, HeadTailSet
<1>7. /\ \A q \in ToSet(t) : bufPacketHash[q] = Null
      /\ e = Null => Len(t) = 1
      /\ e # Null => Live(e) /\ t = pdrList[e]
  BY <1>1, <1>5 DEF Inv, Handling
<1>8. /\ matchList' = matchList \ {p} /\ pdr' = [pdr EXCEPT ![p] = Null]
      /\ pdrList' = [s \in Sessions |-> IF Live(s) THEN RemoveFirst(pdrList[s], p) ELSE Null]
  BY <1>3, <1>5 DEF UpfPDRDeregisterToSession, Deregister
<1>9. \/ main' = Idle
      \/ e # Null /\ main' = [pc |-> "deregister", todo |-> u, ending |-> e]
  <2>1. IF Len(t) = 1 /\ e = Null THEN main' = Idle ELSE main' = [main EXCEPT !.todo = Tail(@)]
    BY <1>5 DEF UpfPDRDeregisterToSession
  <2>2. [main EXCEPT !.todo = u] = [pc |-> "deregister", todo |-> u, ending |-> e]
    BY <1>2
  <2>3. Tail(main.todo) = u
    BY <1>4, <1>5
  <2>4. [main EXCEPT !.todo = Tail(@)] = [main EXCEPT !.todo = u]
    BY <2>3, Zenon
  <2>5. QED
    BY <1>7, <2>1, <2>2, <2>4, Zenon
<1>10. (kernel' = kernel \ {p}) \/ (e # Null /\ kernel' = kernel)
  BY <1>3, <1>5 DEF UpfPDRDeregisterToSession
<1>11. ASSUME NEW s \in Sessions, Live(s)
       PROVE  /\ pdrList'[s] \in Seq(Pdrs) /\ pdrList'[s] # Null
              /\ ToSet(pdrList'[s]) = ToSet(pdrList[s]) \ {p}
              /\ IsInjective(pdrList'[s])
  <2>1. pdrList[s] \in Seq(Pdrs) /\ IsInjective(pdrList[s])
    BY <1>11 DEF Inv, Typed, RulesTyped, Listed, Live
  <2>2. pdrList'[s] = RemoveFirst(pdrList[s], p)
    BY <1>8, <1>11
  <2>3. /\ RemoveFirst(pdrList[s], p) \in Seq(Pdrs)
        /\ ToSet(RemoveFirst(pdrList[s], p)) = ToSet(pdrList[s]) \ {p}
        /\ IsInjective(RemoveFirst(pdrList[s], p))
    BY <2>1, RemoveFirstSet
  <2>4. QED
    BY <2>2, <2>3, NullAssumption
<1>12. \A s \in Sessions : ~Live(s) => pdrList'[s] = Null
  BY <1>8
<1>13. \A s \in Sessions : Live(s)' <=> Live(s)
  BY <1>11, <1>12 DEF Live
<1>14. \A s \in Sessions, q \in Pdrs : Lists(s, q)' <=> Lists(s, q) /\ q # p
  BY <1>11, <1>13 DEF Lists
<1>15. pdr'[p] = Null /\ \A q \in Pdrs : q # p => pdr'[q] = pdr[q]
  BY <1>6, <1>8 DEF Inv, Typed, RulesTyped
<1>16. RulesTyped'
  <2>1. \A s \in Sessions : pdrList'[s] \in Seq(Pdrs) \cup {Null}
    BY <1>11, <1>12
  <2>2. pdrList' \in [Sessions -> Seq(Pdrs) \cup {Null}]
    BY <1>8, <2>1
  <2>3. QED
    BY <1>1, <1>6, <1>8, <1>10, <2>2 DEF Inv, Typed, RulesTyped
<1>17. Listed'
  <2>1. matchList' \subseteq {q \in Pdrs : pdr'[q] # Null}
    BY <1>8, <1>15 DEF Inv, Listed
  <2>2. \A q \in Pdrs : pdr'[q] # Null => \E s \in Sessions : Lists(s, q)'
    BY <1>14, <1>15 DEF Inv, Listed
  <2>3. \A s \in Sessions, q \in Pdrs : Lists(s, q)' => pdr'[q] # Null
    BY <1>14, <1>15 DEF Inv, Listed
  <2>4. \A s, s_1 \in Sessions, q \in Pdrs : Lists(s, q)' /\ Lists(s_1, q)' => s = s_1
    BY <1>14 DEF Inv, Listed
  <2>5. \A s \in Sessions : Live(s)' => IsInjective(pdrList'[s])
    BY <1>11, <1>13
  <2>6. QED
    BY <2>1, <2>2, <2>3, <2>4, <2>5 DEF Listed
<1>18. Stored'
  BY <1>1, <1>6, <1>7, <1>14, <1>15, StoredSame DEF Inv, buffers
<1>19. InKernel'
  <2>1. ASSUME NEW q \in Pdrs, pdr'[q] # Null PROVE q \in kernel'
    <3>1. q # p /\ pdr[q] # Null
      BY <1>15, <2>1
    <3>2. q \in kernel \/ (e = Null /\ q \in ToSet(t))
      BY <1>5, <3>1 DEF Inv, InKernel
    <3>3. e = Null => q \notin ToSet(t)
      <4>1. SUFFICES ASSUME e = Null, q \in ToSet(t) PROVE FALSE
        OBVIOUS
      <4>2. PICK k \in 1 .. Len(t) : t[k] = q
        BY <4>1, SeqAsSet
      <4>3. Len(t) = 1 /\ p = t[1]
        BY <1>3, <1>5, <1>7, <4>1, HeadTailSet
      <4>4. k = 1
        BY <4>2, <4>3
      <4>5. QED
        BY <3>1, <4>2, <4>3, <4>4
    <3>4. QED
      BY <1>10, <3>1, <3>2, <3>3
  <2>2. \A f \in Fars : f # p
    BY <1>6, BufferingAssumption
  <2>3. \A f \in Fars : far'[f] # Null => f \in kernel'
    BY <1>1, <1>10, <2>2 DEF Inv, InKernel
  <2>4. QED
    BY <2>1, <2>3 DEF InKernel
<1>20. MainStates'
  BY <1>6, <1>9 DEF MainStates, Idle
<1>21. Handling'
  <2>1. CASE main' = Idle
    BY <2>1 DEF Handling, Idle
  <2>2. CASE e # Null /\ main' = [pc |-> "deregister", todo |-> u, ending |-> e]
    <3>1. e \in Sessions /\ Live(e) /\ pdrList[e] = t
      BY <1>7, <2>2
    <3>2. IsInjective(t)
      BY <3>1 DEF Inv, Listed
    <3>3. RemoveFirst(t, p) = u
      BY <1>3, <1>4, <1>5, <3>2, RemoveFirstHead
    <3>4. pdrList'[e] = u
      BY <1>8, <3>1, <3>3
    <3>5. ToSet(u) \subseteq ToSet(t)
      BY <1>4, <1>5, HeadTailSet
    <3>6. \A q \in ToSet(u) : bufPacketHash'[q] = Null
      BY <1>1, <1>7, <3>5 DEF buffers
    <3>7. Live(e)'
      BY <1>13, <3>1
    <3>8. /\ main'.pc = "deregister" /\ main'.todo = u /\ main'.ending = e
      BY <2>2
    <3>9. QED
      BY <2>2, <3>4, <3>6, <3>7, <3>8 DEF Handling, Live
  <2>3. QED
    BY <1>9, <2>1, <2>2
<1>22. fault' \in {"none", "freed", "no buffer", "no storage"}
  BY <1>1 DEF Inv, Typed
<1>23. QED
  BY <1>1, <1>16, <1>17, <1>18, <1>19, <1>20, <1>21, <1>22, MainOnly

-----------------------------------------------------------------------------
(* Steps that free storage. *)

BuffersTyped == /\ bufPacketHash \in [Pdrs -> Stores \cup {Null}]
                /\ store \in [Stores -> UpfBufPacket \cup {Null}]
                /\ sent \in [Pdrs -> Seq([packet : 1 .. MaxPackets, far : Fars])]

(* UpfBufPacketRemove leaves p without storage and the rest as it was. *)
LEMMA StorageRemoved ==
  ASSUME Inv, NEW p \in Pdrs, UpfBufPacketRemove(p),
         UNCHANGED <<pdrList, pdr, up, packets, accepted>>
  PROVE  /\ bufPacketHash' = [bufPacketHash EXCEPT ![p] = Null]
         /\ BuffersTyped' /\ Stored' /\ Numbered' /\ Placed' /\ Lost' = Lost
<1>1. \A s, q : Lists(s, q)' = Lists(s, q)
  BY DEF Lists, Live
<1>2. CASE bufPacketHash[p] = Null
  <2>1. UNCHANGED buffers
    BY <1>2 DEF UpfBufPacketRemove
  <2>2. bufPacketHash' = [bufPacketHash EXCEPT ![p] = Null] /\ BuffersTyped'
    BY <1>2, <2>1 DEF buffers, Inv, Typed, BuffersTyped
  <2>3. Stored'
    BY <1>1, <2>1, StoredSame DEF Inv, buffers
  <2>4. Numbered'
    BY <2>1 DEF Inv, Numbered, buffers
  <2>5. QED
    BY <2>1, <2>2, <2>3, <2>4, BuffersSame DEF Inv
<1>3. CASE bufPacketHash[p] # Null
  <2>1. PICK a \in Stores : a = bufPacketHash[p] /\ store[a] # Null
    BY Zenon, <1>3, HasStore
  <2>2. PICK b \in Seq(Number) \cup {Null} : b = store[a].packetBuffer
    BY <2>1 DEF Inv, Typed, UpfBufPacket, Number
  <2>3. /\ discarded' = discarded \cup PacketsIn(b) /\ sent' = sent
        /\ bufPacketHash' = [bufPacketHash EXCEPT ![p] = Null]
        /\ store' = [store EXCEPT ![a] = Null]
    BY <1>3, <2>1, <2>2 DEF UpfBufPacketRemove
  <2>4. BuffersTyped'
    BY <2>3 DEF Inv, Typed, BuffersTyped
  <2>5. /\ bufPacketHash'[p] = Null /\ \A q \in Pdrs : q # p => bufPacketHash'[q] = bufPacketHash[q]
        /\ store'[a] = Null /\ \A c \in Stores : c # a => store'[c] = store[c]
    BY <2>3 DEF Inv, Typed
  <2>6. \A q \in Pdrs : q # p /\ bufPacketHash[q] # Null => bufPacketHash[q] \in Stores \ {a}
    BY Zenon, <1>3, <2>1, HasStore
  <2>7. Stored'
    <3>1. ASSUME NEW c \in Stores, store'[c] # Null
          PROVE  \E q \in Pdrs : /\ bufPacketHash'[q] = c
                                  /\ pdrList'[store'[c].sess] # Null
                                  /\ q \in ToSet(pdrList'[store'[c].sess])
      <4>1. c # a /\ store'[c] = store[c]
        BY <2>5, <3>1
      <4>2. PICK q \in Pdrs : /\ bufPacketHash[q] = c /\ pdrList[store[c].sess] # Null
                              /\ q \in ToSet(pdrList[store[c].sess])
        BY <3>1, <4>1 DEF Inv, Stored, Lists, Live
      <4>3. q # p
        BY <2>1, <4>1, <4>2
      <4>4. QED
        BY <2>5, <4>1, <4>2, <4>3
    <3>2. \A q \in Pdrs : bufPacketHash'[q] # Null =>
            store'[bufPacketHash'[q]] # Null /\ pdr'[q] # Null
      BY <2>5, <2>6 DEF Inv, Stored
    <3>3. \A q, r \in Pdrs :
            bufPacketHash'[q] # Null /\ bufPacketHash'[q] = bufPacketHash'[r] => q = r
      BY <2>5 DEF Inv, Stored
    <3>4. QED
      BY <3>1, <3>2, <3>3 DEF Stored, Lists, Live
  <2>8. ToSet(<< >>) = {}
    BY DEF ToSet
  <2>9. PacketsIn(b) = ToSet(Buffered(p))
    BY <2>1, <2>2, <2>8, <1>3 DEF PacketsIn, Buffered
  <2>10. BufferedAs(p, << >>)
    BY <2>5, <2>6 DEF BufferedAs, Buffered
  <2>11. Placed'
    BY <2>3, <2>9, <2>10, EmptiedPlaced DEF Inv
  <2>12. ToSet(Buffered(p)) \subseteq accepted /\ ToSet(Buffered(p)) \subseteq Out(p)
    BY DEF Inv, Placed, Out
  <2>13. Numbered'
    BY <2>3, <2>9, <2>12 DEF Inv, Numbered
  <2>14. \A q \in Pdrs : SentPackets(q)' = SentPackets(q)
    BY <2>3, SentSame
  <2>15. /\ \A q \in Pdrs : q # p => Out(q)' = Out(q)
         /\ Out(p)' \cup ToSet(Buffered(p)) = Out(p)
    BY <2>8, <2>10, <2>14 DEF Out, BufferedAs
  <2>16. Lost' = Lost
    <3>1. Lost = accepted \ (discarded \cup UNION {Out(q) : q \in Pdrs})
      BY DEF Lost, Out
    <3>2. Lost' = accepted' \ (discarded' \cup UNION {Out(q)' : q \in Pdrs})
      BY DEF Lost, Out
    <3>3. \A x : x \in discarded' \/ (\E q \in Pdrs : x \in Out(q)') <=>
               x \in discarded \/ (\E q \in Pdrs : x \in Out(q))
      BY <2>3, <2>9, <2>15
    <3>4. QED
      BY <3>1, <3>2, <3>3
  <2>17. QED
    BY <2>3, <2>4, <2>7, <2>11, <2>13, <2>16
<1>4. QED
  BY <1>2, <1>3

(* A step of the main thread that frees the storage of p. *)
LEMMA RemovingInv ==
  ASSUME Inv, NEW p \in Pdrs, UpfBufPacketRemove(p),
         UNCHANGED <<pdrList, pdr, matchList, far, receiver, fault>>,
         kernel' \subseteq Pdrs \cup Fars, MainStates', InKernel', Handling'
  PROVE  Inv' /\ Lost' = Lost
<1>1. UNCHANGED <<pdrList, pdr, up, packets, accepted>>
  BY DEF receiver
<1>2. BuffersTyped' /\ Stored' /\ Numbered' /\ Placed' /\ Lost' = Lost
  BY <1>1, StorageRemoved
<1>3. Typed'
  BY <1>2 DEF Inv, Typed, RulesTyped, BuffersTyped, receiver
<1>4. \A s, q : Lists(s, q)' = Lists(s, q)
  BY DEF Lists, Live
<1>5. Listed'
  BY <1>4 DEF Inv, Listed, Live
<1>6. UpStates'
  BY DEF Inv, UpStates, receiver
<1>7. QED
  BY <1>2, <1>3, <1>5, <1>6 DEF Inv

LEMMA UpfN4HandleRemovePdrInv ==
  ASSUME Inv, NEW s \in Sessions, NEW p \in Pdrs, UpfN4HandleRemovePdr(s, p)
  PROVE  Inv' /\ Lost' = Lost
<1>1. /\ main.pc = "idle" /\ kernel' = kernel \ {p} /\ UpfBufPacketRemove(p)
      /\ UNCHANGED <<pdrList, pdr, matchList, far, receiver, fault>>
  BY DEF UpfN4HandleRemovePdr, MainIdle
<1>2. PICK one : one = <<p>>
  OBVIOUS
<1>3. main' = [pc |-> "deregister", todo |-> one, ending |-> Null]
  BY <1>2 DEF UpfN4HandleRemovePdr
<1>4. one \in Seq(Pdrs) /\ Len(one) = 1 /\ one[1] = p
  BY <1>2
<1>5. ToSet(one) = {p}
  BY <1>4, SeqAsSet
<1>6. bufPacketHash' = [bufPacketHash EXCEPT ![p] = Null]
  BY <1>1, StorageRemoved DEF receiver
<1>7. bufPacketHash'[p] = Null
  BY <1>6 DEF Inv, Typed
<1>8. MainStates'
  BY <1>3, <1>4 DEF MainStates
<1>9. Handling'
  BY <1>3, <1>4, <1>5, <1>7 DEF Handling
<1>10. InKernel'
  <2>1. \A f \in Fars : f # p
    BY BufferingAssumption
  <2>2. /\ main'.pc = "deregister" /\ main'.ending = Null /\ p \in ToSet(main'.todo)
    BY <1>3, <1>5
  <2>3. QED
    BY <1>1, <2>1, <2>2 DEF Inv, InKernel
<1>11. kernel' \subseteq Pdrs \cup Fars
  BY <1>1 DEF Inv, Typed, RulesTyped
<1>12. QED
  BY <1>1, <1>8, <1>9, <1>10, <1>11, RemovingInv

LEMMA DiscardBuffersInv ==
  ASSUME Inv, DiscardBuffers
  PROVE  Inv' /\ Lost' = Lost
<1>1. main.pc = "discard" /\ UNCHANGED <<rules, receiver, fault>>
  BY DEF DiscardBuffers
<1>2. PICK t \in Seq(Pdrs), s \in Sessions : main = [pc |-> "discard", todo |-> t, ending |-> s]
  BY <1>1 DEF Inv, MainStates
<1>3. main.todo = t /\ main.ending = s
  BY <1>2
<1>4. Live(s) /\ \A q \in ToSet(pdrList[s]) : bufPacketHash[q] # Null => q \in ToSet(t)
  BY <1>1, <1>3 DEF Inv, Handling
<1>5. \A q \in Pdrs : pdr[q] # Null => q \in kernel
  BY <1>1 DEF Inv, InKernel
<1>6. InKernel'
  BY <1>1, <1>5 DEF Inv, InKernel, rules
<1>7. pdrList[s] \in Seq(Pdrs)
  BY <1>4 DEF Inv, Typed, RulesTyped, Live
<1>8. CASE t = << >>
  <2>1. main' = [pc |-> "deregister", todo |-> pdrList[s], ending |-> s] /\ UNCHANGED buffers
    BY <1>3, <1>8 DEF DiscardBuffers
  <2>2. MainStates'
    BY <1>7, <2>1 DEF MainStates
  <2>3. \A q \in ToSet(pdrList[s]) : bufPacketHash[q] = Null
    BY <1>4, <1>8, EmptyList
  <2>4. s # Null
    BY BufferingAssumption
  <2>5. Handling'
    BY <1>1, <1>4, <2>1, <2>3, <2>4 DEF Handling, rules, buffers, Live
  <2>6. /\ RulesTyped' /\ Listed' /\ Stored'
        /\ fault' \in {"none", "freed", "no buffer", "no storage"}
    BY <1>1, <2>1, RulesBuffersSame DEF Inv, Typed
  <2>7. QED
    BY <1>1, <1>6, <2>1, <2>2, <2>5, <2>6, MainOnly
<1>9. CASE t # << >>
  <2>1. PICK p : p = Head(t)
    OBVIOUS
  <2>2. PICK u : u = Tail(t)
    OBVIOUS
  <2>3. UpfBufPacketRemove(p) /\ main' = [main EXCEPT !.todo = Tail(@)]
    BY <1>3, <1>9, <2>1 DEF DiscardBuffers
  <2>4. p \in Pdrs /\ u \in Seq(Pdrs) /\ ToSet(t) = ToSet(u) \cup {p}
    BY <1>9, <2>1, <2>2, HeadTailSet
  <2>5. main' = [pc |-> "discard", todo |-> u, ending |-> s]
    <3>1. [main EXCEPT !.todo = u] = [pc |-> "discard", todo |-> u, ending |-> s]
      BY <1>2
    <3>2. Tail(main.todo) = u
      BY <1>3, <2>2
    <3>3. QED
      BY <2>3, <3>1, <3>2, Zenon
  <2>6. bufPacketHash' = [bufPacketHash EXCEPT ![p] = Null]
    BY <1>1, <2>3, <2>4, StorageRemoved DEF rules, receiver
  <2>7. \A q \in ToSet(pdrList[s]) : q \in Pdrs
    BY <1>7, SeqAsSet
  <2>8. \A q \in ToSet(pdrList[s]) : bufPacketHash'[q] # Null => q \in ToSet(u)
    BY <1>4, <2>4, <2>6, <2>7 DEF Inv, Typed
  <2>9. MainStates'
    BY <2>4, <2>5 DEF MainStates
  <2>10. Handling'
    BY <1>1, <1>4, <2>5, <2>8 DEF Handling, rules, Live
  <2>11. kernel' \subseteq Pdrs \cup Fars /\ UNCHANGED <<pdrList, pdr, matchList, far, receiver, fault>>
    BY <1>1 DEF Inv, Typed, RulesTyped, rules
  <2>12. QED
    BY <1>6, <2>3, <2>4, <2>9, <2>10, <2>11, RemovingInv
<1>10. QED
  BY <1>8, <1>9

LEMMA DropBufferedInv ==
  ASSUME Inv, DropBuffered
  PROVE  Inv' /\ Lost' = Lost
<1>1. main.pc = "drop" /\ UNCHANGED <<rules, receiver, fault>>
  BY DEF DropBuffered
<1>2. PICK t \in Seq(Pdrs) : main = [pc |-> "drop", todo |-> t]
  BY <1>1 DEF Inv, MainStates
<1>3. main.todo = t
  BY <1>2
<1>4. InKernel'
  BY <1>1 DEF Inv, InKernel, rules
<1>5. CASE t = << >>
  <2>1. main' = Idle /\ UNCHANGED buffers
    BY <1>3, <1>5 DEF DropBuffered
  <2>2. MainStates' /\ Handling'
    BY <2>1 DEF MainStates, Handling, Idle
  <2>3. /\ RulesTyped' /\ Listed' /\ Stored'
        /\ fault' \in {"none", "freed", "no buffer", "no storage"}
    BY <1>1, <2>1, RulesBuffersSame DEF Inv, Typed
  <2>4. QED
    BY <1>1, <1>4, <2>1, <2>2, <2>3, MainOnly
<1>6. CASE t # << >>
  <2>1. PICK p : p = Head(t)
    OBVIOUS
  <2>2. PICK u : u = Tail(t)
    OBVIOUS
  <2>3. UpfBufPacketRemove(p) /\ main' = [main EXCEPT !.todo = Tail(@)]
    BY <1>3, <1>6, <2>1 DEF DropBuffered
  <2>4. p \in Pdrs /\ u \in Seq(Pdrs)
    BY <1>6, <2>1, <2>2, HeadTailSet
  <2>5. main' = [pc |-> "drop", todo |-> u]
    <3>1. [main EXCEPT !.todo = u] = [pc |-> "drop", todo |-> u]
      BY <1>2
    <3>2. Tail(main.todo) = u
      BY <1>3, <2>2
    <3>3. QED
      BY <2>3, <3>1, <3>2, Zenon
  <2>6. MainStates' /\ Handling'
    BY <2>4, <2>5 DEF MainStates, Handling
  <2>7. kernel' \subseteq Pdrs \cup Fars /\ UNCHANGED <<pdrList, pdr, matchList, far, receiver, fault>>
    BY <1>1 DEF Inv, Typed, RulesTyped, rules
  <2>8. QED
    BY <1>4, <2>3, <2>4, <2>6, <2>7, RemovingInv
<1>7. QED
  BY <1>5, <1>6

-----------------------------------------------------------------------------
(* Steps that change what is in a buffer. *)

Rebuffers(p, a, b) ==
  /\ a = bufPacketHash[p] /\ store[a] # Null
  /\ store' = [store EXCEPT ![a].packetBuffer = b]
  /\ UNCHANGED <<rules, bufPacketHash>>

LEMMA Rebuffered ==
  ASSUME Inv, NEW p \in Pdrs, NEW a \in Stores, NEW b \in Seq(Number) \cup {Null},
         Rebuffers(p, a, b)
  PROVE  /\ store' \in [Stores -> UpfBufPacket \cup {Null}] /\ Stored'
         /\ b = Null => BufferedAs(p, << >>)
         /\ b # Null => BufferedAs(p, b)
         /\ store'[a].packetBuffer = b /\ \A c \in Stores : c # a => store'[c] = store[c]
<1> USE DEF Rebuffers
<1>0. store \in [Stores -> UpfBufPacket \cup {Null}] /\ bufPacketHash \in [Pdrs -> Stores \cup {Null}]
  BY DEF Inv, Typed
<1>1. PICK r \in UpfBufPacket : r = store[a]
  BY <1>0
<1>2. PICK n : n = [r EXCEPT !.packetBuffer = b]
  OBVIOUS
<1>3. n \in UpfBufPacket /\ n.sess = r.sess /\ n.packetBuffer = b
  BY <1>2 DEF UpfBufPacket, Number
<1>4. n # Null
  BY <1>3, NullAssumption
<1>5. store' = [store EXCEPT ![a] = n]
  BY <1>1, <1>2
<1>6. /\ store' \in [Stores -> UpfBufPacket \cup {Null}] /\ store'[a] = n
      /\ \A c \in Stores : c # a => store'[c] = store[c]
  BY <1>0, <1>3, <1>5
<1>7. \A c \in Stores : store'[c] # Null => store[c] # Null /\ store'[c].sess = store[c].sess
  BY <1>1, <1>3, <1>6
<1>8. \A c \in Stores : store[c] # Null => store'[c] # Null
  BY <1>4, <1>6
<1>9. Stored'
  <2>1. ASSUME NEW c \in Stores, store'[c] # Null
        PROVE  \E q \in Pdrs : /\ bufPacketHash'[q] = c
                                /\ pdrList'[store'[c].sess] # Null
                                /\ q \in ToSet(pdrList'[store'[c].sess])
    BY <1>7, <2>1 DEF Inv, Stored, Lists, Live, rules
  <2>2. \A q \in Pdrs : bufPacketHash[q] # Null => bufPacketHash[q] \in Stores
    BY DEF Inv, Typed
  <2>3. \A q \in Pdrs : bufPacketHash'[q] # Null =>
          store'[bufPacketHash'[q]] # Null /\ pdr'[q] # Null
    BY <1>8, <2>2 DEF Inv, Stored, rules
  <2>4. QED
    BY <2>1, <2>3 DEF Inv, Stored, Lists, Live
<1>10. a # Null
  BY BufferingAssumption
<1>11. \A q \in Pdrs : q # p /\ bufPacketHash[q] # Null => bufPacketHash[q] \in Stores \ {a}
  BY Zenon, <1>10, HasStore
<1>12. /\ b = Null => BufferedAs(p, << >>)
       /\ b # Null => BufferedAs(p, b)
  BY <1>3, <1>6, <1>10, <1>11 DEF BufferedAs, Buffered
<1>13. QED
  BY <1>3, <1>6, <1>9, <1>12

LEMMA BufferStep ==
  ASSUME Inv, UNCHANGED <<rules, bufPacketHash>>,
         store' \in [Stores -> UpfBufPacket \cup {Null}], sent' \in [Pdrs -> Seq(Sending)],
         UNCHANGED <<FARHashLock, packets>>, buffLock' \in BOOLEAN, fault' = fault,
         main' = main \/ main.pc # "deregister",
         MainStates', UpStates', Stored', Handling', Numbered', Placed'
  PROVE  Inv'
<1>1. RulesTyped' /\ Listed'
  BY RulesSame
<1>2. Typed'
  BY <1>1 DEF Inv, Typed, Sending, Number
<1>3. InKernel'
  BY DEF Inv, InKernel, rules
<1>4. QED
  BY <1>1, <1>2, <1>3 DEF Inv

LEMMA FlushBufferedInv ==
  ASSUME Inv, FlushBuffered
  PROVE  Inv' /\ Lost' = Lost
<1>1. main.pc = "flush" /\ UNCHANGED <<rules, bufPacketHash, discarded, receiver, fault>>
  BY DEF FlushBuffered
<1>2. PICK t \in Seq(Pdrs), f \in Fars : main = [pc |-> "flush", todo |-> t, far |-> f]
  BY <1>1 DEF Inv, MainStates
<1>3. main.todo = t /\ main.far = f
  BY <1>2
<1>4. /\ far[f] # Null /\ t # << >> /\ bufPacketHash[Head(t)] # Null
      /\ store[bufPacketHash[Head(t)]].packetBuffer # Null
  BY <1>1, <1>3 DEF Inv, Handling
<1>5. PICK p \in Pdrs : p = Head(t)
  BY <1>4, HeadTailSet
<1>6. PICK a \in Stores : a = bufPacketHash[p] /\ store[a] # Null
  BY Zenon, <1>4, <1>5, HasStore
<1>7. Buffered(p) = store[a].packetBuffer
  BY <1>4, <1>5, <1>6 DEF Buffered
<1>8. /\ sent' = [sent EXCEPT ![p] = @ \o Via(f, Buffered(p))]
      /\ store' = [store EXCEPT ![a].packetBuffer = Null]
      /\ main' = [main EXCEPT !.pc = "clear"]
  BY <1>3, <1>5, <1>6, <1>7 DEF FlushBuffered
<1>9. /\ store' \in [Stores -> UpfBufPacket \cup {Null}] /\ Stored'
      /\ BufferedAs(p, << >>)
  <2>1. Rebuffers(p, a, Null)
    BY <1>1, <1>6, <1>8 DEF Rebuffers
  <2>2. QED
    BY Zenon, <2>1, Rebuffered
<1>10. BufferedAs(p, << >>)
  BY <1>9
<1>11. accepted' = accepted
  BY <1>1 DEF receiver
<1>12. /\ Placed' /\ sent' \in [Pdrs -> Seq(Sending)] /\ \A q \in Pdrs : Out(q)' = Out(q)
  BY <1>1, <1>8, <1>10, <1>11, FlushedPlaced DEF Inv
<1>13. main' = [pc |-> "clear", todo |-> t, far |-> f]
  BY <1>2, <1>8
<1>14. MainStates'
  BY <1>13 DEF MainStates
<1>15. Handling'
  BY <1>1, <1>4, <1>13 DEF Handling, rules
<1>16. UpStates' /\ Numbered'
  BY <1>1 DEF Inv, UpStates, Numbered, receiver
<1>17. UNCHANGED <<FARHashLock, packets>> /\ buffLock' \in BOOLEAN
  BY <1>1 DEF Inv, Typed, receiver
<1>18. QED
  BY <1>1, <1>9, <1>11, <1>12, <1>14, <1>15, <1>16, <1>17, BufferStep, LostSame

(* The only step that loses packets, and which. *)
LEMMA ClearBufferInv ==
  ASSUME Inv, ClearBuffer
  PROVE  Inv' /\ Lost' = Lost \cup ToSet(Buffered(Head(main.todo)))
<1>1. main.pc = "clear" /\ UNCHANGED <<rules, bufPacketHash, discarded, sent, receiver, fault>>
  BY DEF ClearBuffer
<1>2. PICK t \in Seq(Pdrs), f \in Fars : main = [pc |-> "clear", todo |-> t, far |-> f]
  BY <1>1 DEF Inv, MainStates
<1>3. main.todo = t /\ main.far = f
  BY <1>2
<1>4. far[f] # Null /\ t # << >> /\ bufPacketHash[Head(t)] # Null
  BY <1>1, <1>3 DEF Inv, Handling
<1>5. PICK p \in Pdrs : p = Head(t)
  BY <1>4, HeadTailSet
<1>6. PICK a \in Stores : a = bufPacketHash[p] /\ store[a] # Null
  BY Zenon, <1>4, <1>5, HasStore
<1>7. /\ store' = [store EXCEPT ![a].packetBuffer = Null]
      /\ main' = [main EXCEPT !.pc = "send", !.todo = Tail(@)]
  BY <1>3, <1>5, <1>6 DEF ClearBuffer
<1>8. /\ store' \in [Stores -> UpfBufPacket \cup {Null}] /\ Stored'
      /\ BufferedAs(p, << >>)
  <2>1. Rebuffers(p, a, Null)
    BY <1>1, <1>6, <1>7 DEF Rebuffers
  <2>2. QED
    BY Zenon, <2>1, Rebuffered
<1>9. BufferedAs(p, << >>)
  BY <1>8
<1>10. accepted' = accepted
  BY <1>1 DEF receiver
<1>11. /\ Placed' /\ Out(p)' = Out(p) \ ToSet(Buffered(p))
       /\ \A q \in Pdrs : q # p => Out(q)' = Out(q)
  BY <1>1, <1>9, <1>10, EmptiedPlaced DEF Inv
<1>12. PICK u : u = Tail(t)
  OBVIOUS
<1>13. main' = [pc |-> "send", todo |-> u, far |-> f] /\ u \in Seq(Pdrs)
  <2>1. [main EXCEPT !.pc = "send", !.todo = u] = [pc |-> "send", todo |-> u, far |-> f]
    <3>1. PICK m : m = [main EXCEPT !.pc = "send"]
      OBVIOUS
    <3>2. m = [pc |-> "send", todo |-> t, far |-> f]
      BY <1>2, <3>1
    <3>3. [m EXCEPT !.todo = u] = [pc |-> "send", todo |-> u, far |-> f]
      BY <3>2
    <3>4. [main EXCEPT !.pc = "send", !.todo = u] = [m EXCEPT !.todo = u]
      BY <3>1, <3>2, <1>2
    <3>5. QED
      BY <3>3, <3>4
  <2>2. Tail(main.todo) = u
    BY <1>3, <1>12
  <2>3. main' = [main EXCEPT !.pc = "send", !.todo = Tail(main.todo)]
    BY <1>3, <1>7
  <2>4. u \in Seq(Pdrs)
    BY <1>4, <1>12, HeadTailSet
  <2>5. QED
    BY <2>1, <2>2, <2>3, <2>4, Zenon
<1>14. MainStates'
  BY <1>13 DEF MainStates
<1>15. Handling'
  BY <1>1, <1>4, <1>13 DEF Handling, rules
<1>16. UpStates' /\ Numbered'
  BY <1>1 DEF Inv, UpStates, Numbered, receiver
<1>17. /\ UNCHANGED <<FARHashLock, packets>> /\ buffLock' \in BOOLEAN
       /\ sent' \in [Pdrs -> Seq(Sending)]
  BY <1>1 DEF Inv, Typed, receiver, Sending, Number
<1>18. Inv'
  BY <1>1, <1>8, <1>11, <1>14, <1>15, <1>16, <1>17, BufferStep
<1>19. Lost' = Lost \cup ToSet(Buffered(p))
  <2>1. Lost = accepted \ (discarded \cup UNION {Out(q) : q \in Pdrs})
    BY DEF Lost, Out
  <2>2. Lost' = accepted' \ (discarded' \cup UNION {Out(q)' : q \in Pdrs})
    BY DEF Lost, Out
  <2>3. ToSet(Buffered(p)) \subseteq Out(p)
    BY DEF Out
  <2>4. \A x : (\E q \in Pdrs : x \in Out(q)') <=>
             (\E q \in Pdrs : x \in Out(q)) /\ x \notin ToSet(Buffered(p))
    BY <1>11, <2>3 DEF Inv, Placed
  <2>5. ToSet(Buffered(p)) \subseteq accepted \ discarded
    BY <2>3 DEF Inv, Placed
  <2>6. QED
    BY <1>1, <1>10, <2>1, <2>2, <2>4, <2>5
<1>20. QED
  BY <1>3, <1>5, <1>18, <1>19

LEMMA AddStorageInv ==
  ASSUME Inv, AddStorage
  PROVE  Inv' /\ Lost' = Lost
<1>1. /\ main.pc = "store" /\ main' = Idle /\ UpfBufPacketAdd(main.sess, main.pdr)
      /\ UNCHANGED <<rules, receiver, fault>>
  BY DEF AddStorage
<1>2. PICK p \in Pdrs, s \in Sessions : p = main.pdr /\ s = main.sess
  BY <1>1 DEF Inv, MainStates
<1>3. bufPacketHash[p] = Null /\ Lists(s, p)
  BY <1>1, <1>2 DEF Inv, Handling
<1>4. MainStates' /\ Handling' /\ InKernel'
  BY <1>1 DEF Inv, MainStates, Handling, InKernel, Idle, rules
<1>5. fault' \in {"none", "freed", "no buffer", "no storage"}
  BY <1>1 DEF Inv, Typed
<1>6. CASE UNCHANGED buffers
  <2>1. RulesTyped' /\ Listed' /\ Stored'
    BY <1>1, <1>6, RulesBuffersSame
  <2>2. QED
    BY <1>1, <1>4, <1>5, <1>6, <2>1, MainOnly
<1>7. CASE /\ Unused # {}
           /\ LET a == CHOOSE a \in Unused : TRUE
              IN /\ bufPacketHash' = [bufPacketHash EXCEPT ![p] = a]
                 /\ store' = [store EXCEPT ![a] = [sess |-> s, packetBuffer |-> Null]]
           /\ UNCHANGED <<discarded, sent>>
  <2>1. PICK a \in Unused : /\ bufPacketHash' = [bufPacketHash EXCEPT ![p] = a]
                            /\ store' = [store EXCEPT ![a] = [sess |-> s, packetBuffer |-> Null]]
    BY <1>7
  <2>2. a \in Stores /\ store[a] = Null /\ a # Null
    BY BufferingAssumption DEF Unused
  <2>3. PICK n \in UpfBufPacket : n = [sess |-> s, packetBuffer |-> Null]
    BY DEF UpfBufPacket
  <2>4. n # Null /\ n.sess = s /\ n.packetBuffer = Null
    BY <2>3, NullAssumption
  <2>5. /\ bufPacketHash' \in [Pdrs -> Stores \cup {Null}]
        /\ store' \in [Stores -> UpfBufPacket \cup {Null}]
        /\ bufPacketHash'[p] = a /\ store'[a] = n
        /\ \A q \in Pdrs : q # p => bufPacketHash'[q] = bufPacketHash[q]
        /\ \A c \in Stores : c # a => store'[c] = store[c]
    BY <2>1, <2>2, <2>3 DEF Inv, Typed
  <2>6. \A q \in Pdrs : bufPacketHash[q] # Null => bufPacketHash[q] \in Stores \ {a}
    BY Zenon, <2>2, HasStore
  <2>7. pdr[p] # Null /\ p \in ToSet(pdrList[s]) /\ pdrList[s] # Null
    BY <1>3 DEF Inv, Listed, Lists, Live
  <2>8. Stored'
    <3>1. ASSUME NEW c \in Stores, store'[c] # Null
          PROVE  \E q \in Pdrs : /\ bufPacketHash'[q] = c
                                  /\ pdrList'[store'[c].sess] # Null
                                  /\ q \in ToSet(pdrList'[store'[c].sess])
      <4>1. CASE c = a
        BY <1>1, <2>4, <2>5, <2>7, <4>1 DEF rules
      <4>2. CASE c # a
        <5>1. PICK q \in Pdrs : /\ bufPacketHash[q] = c /\ pdrList[store[c].sess] # Null
                                /\ q \in ToSet(pdrList[store[c].sess])
          BY <2>5, <3>1, <4>2 DEF Inv, Stored, Lists, Live
        <5>2. q # p
          BY <1>3, <5>1, BufferingAssumption
        <5>3. QED
          BY <1>1, <2>5, <4>2, <5>1, <5>2 DEF rules
      <4>3. QED
        BY <4>1, <4>2
    <3>2. \A q \in Pdrs : bufPacketHash'[q] # Null =>
            store'[bufPacketHash'[q]] # Null /\ pdr'[q] # Null
      BY <1>1, <2>4, <2>5, <2>6, <2>7 DEF Inv, Stored, rules
    <3>3. \A q, r \in Pdrs :
            bufPacketHash'[q] # Null /\ bufPacketHash'[q] = bufPacketHash'[r] => q = r
      BY <2>2, <2>5, <2>6 DEF Inv, Stored
    <3>4. QED
      BY <3>1, <3>2, <3>3 DEF Stored, Lists, Live
  <2>9. \A q \in Pdrs : Buffered(q)' = Buffered(q)
    BY <1>3, <2>2, <2>4, <2>5, <2>6 DEF Buffered
  <2>10. sent' = sent /\ accepted' = accepted /\ discarded' = discarded
    BY <1>1, <1>7 DEF receiver
  <2>11. Placed' /\ Lost' = Lost
    <3>1. \A q \in Pdrs : Out(q)' = Out(q)
      BY <2>9, <2>10, SentSame DEF Out
    <3>2. QED
      BY <2>9, <2>10, <3>1, AsBefore, LostSame DEF Inv
  <2>12. RulesTyped' /\ Listed'
    BY <1>1, RulesSame
  <2>13. Typed'
    BY <1>1, <2>5, <2>10, <2>12 DEF Inv, Typed, receiver
  <2>14. UpStates' /\ Numbered'
    BY <1>1, <2>10 DEF Inv, UpStates, Numbered, receiver
  <2>15. QED
    BY <1>4, <2>8, <2>11, <2>12, <2>13, <2>14 DEF Inv
<1>8. QED
  BY <1>1, <1>2, <1>6, <1>7 DEF UpfBufPacketAdd

-----------------------------------------------------------------------------
(* The packet receiver. *)

(* A step of the receiver in which it changes a buffer, but not to Null. *)
LEMMA BufferedHandling ==
  ASSUME Inv, UNCHANGED <<rules, bufPacketHash, main>>, NEW a \in Stores,
         store'[a].packetBuffer # Null, \A c \in Stores : c # a => store'[c] = store[c]
  PROVE  MainStates' /\ Handling'
<1>1. MainStates'
  BY DEF Inv, MainStates
<1>2. \A s, p : Lists(s, p)' = Lists(s, p)
  BY DEF rules, Lists, Live
<1>3. ASSUME main.pc = "flush" PROVE store'[bufPacketHash[Head(main.todo)]].packetBuffer # Null
  <2>1. /\ main.todo \in Seq(Pdrs) /\ main.todo # << >> /\ bufPacketHash[Head(main.todo)] # Null
        /\ store[bufPacketHash[Head(main.todo)]].packetBuffer # Null
    BY <1>3 DEF Inv, MainStates, Handling
  <2>2. PICK p \in Pdrs : p = Head(main.todo)
    BY <2>1, HeadTailSet
  <2>3. bufPacketHash[p] \in Stores
    BY <2>1, <2>2 DEF Inv, Typed
  <2>4. QED
    BY <2>1, <2>2, <2>3
<1>4. Handling'
  BY <1>2, <1>3 DEF Inv, Handling, rules, Live
<1>5. QED
  BY <1>1, <1>4

LEMMA AllocBufferInv ==
  ASSUME Inv, AllocBuffer
  PROVE  Inv' /\ Lost' = Lost
<1>1. /\ up.pc = "alloc"
      /\ UNCHANGED <<rules, bufPacketHash, discarded, sent, main, FARHashLock, packets, accepted>>
  BY DEF AllocBuffer
<1>2. PICK a \in Stores, q \in Pdrs, r \in BOOLEAN :
        up = [pc |-> "alloc", pdr |-> q, st |-> a, report |-> r]
  BY <1>1 DEF Inv, UpStates
<1>3. up.st = a
  BY <1>2
<1>4. /\ packets' \in 0 .. MaxPackets /\ FARHashLock' \in BOOLEAN /\ buffLock \in BOOLEAN
      /\ fault \in {"none", "freed", "no buffer", "no storage"}
  BY <1>1 DEF Inv, Typed
<1>5. CASE fault' = "freed" /\ UNCHANGED <<store, up, buffLock>>
  <2>1. UNCHANGED <<rules, buffers, main, accepted>> /\ UpStates' /\ Numbered'
    BY <1>1, <1>5 DEF buffers, Inv, UpStates, Numbered
  <2>2. QED
    BY <1>4, <1>5, <2>1, ReceiverOnly
<1>6. CASE up' = Idle /\ UNCHANGED <<store, buffLock, fault>>
  <2>1. UNCHANGED <<rules, buffers, main, accepted>> /\ UpStates' /\ Numbered'
    BY <1>1, <1>6 DEF buffers, Inv, UpStates, Numbered, Idle
  <2>2. QED
    BY <1>4, <1>6, <2>1, ReceiverOnly
<1>7. CASE /\ store[a] # Null /\ fault' = fault /\ buffLock' = TRUE
           /\ store' = [store EXCEPT ![a].packetBuffer = IF @ = Null THEN << >> ELSE @]
           /\ up' = [up EXCEPT !.pc = "append"]
  <2>1. PICK p \in Pdrs : bufPacketHash[p] = a
    BY <1>7 DEF Inv, Stored
  <2>2. PICK c \in Seq(Number) \cup {Null} : c = store[a].packetBuffer
    BY <1>7 DEF Inv, Typed, UpfBufPacket, Number
  <2>3. PICK b \in Seq(Number) : b = IF c = Null THEN << >> ELSE c
    <3>1. << >> \in Seq(Number)
      OBVIOUS
    <3>2. (IF c = Null THEN << >> ELSE c) \in Seq(Number)
      BY <2>2, <3>1
    <3>3. QED
      BY <3>2
  <2>4. store' = [store EXCEPT ![a].packetBuffer = b]
    BY <1>7, <2>2, <2>3
  <2>5. b # Null
    BY NullAssumption DEF Number
  <2>6. /\ store' \in [Stores -> UpfBufPacket \cup {Null}] /\ Stored'
        /\ BufferedAs(p, b)
        /\ store'[a].packetBuffer = b /\ \A d \in Stores : d # a => store'[d] = store[d]
    <3>1. b \in Seq(Number) \cup {Null}
      OBVIOUS
    <3>2. store[a] # Null /\ UNCHANGED <<rules, bufPacketHash>>
      BY <1>1, <1>7
    <3>3. Rebuffers(p, a, b)
      BY <2>1, <2>4, <3>2 DEF Rebuffers
    <3>4. QED
      BY Zenon, <2>5, <3>1, <3>3, Rebuffered
  <2>7. a # Null
    BY BufferingAssumption
  <2>8. Buffered(p) = b
    BY <2>1, <2>2, <2>3, <2>7 DEF Buffered
  <2>9. \A d \in Pdrs : Buffered(d)' = Buffered(d)
    BY <2>5, <2>6, <2>8 DEF BufferedAs
  <2>10. Placed' /\ Lost' = Lost
    <3>1. \A d \in Pdrs : Out(d)' = Out(d)
      BY <1>1, <2>9, SentSame DEF Out
    <3>2. QED
      BY <1>1, <2>9, <3>1, AsBefore, LostSame DEF Inv
  <2>11. MainStates' /\ Handling'
    BY <1>1, <2>5, <2>6, BufferedHandling
  <2>12. up' = [pc |-> "append", pdr |-> q, st |-> a, report |-> r]
    BY <1>2, <1>7
  <2>13. UpStates'
    BY <2>12 DEF UpStates
  <2>14. Numbered'
    BY <1>1, <2>12 DEF Inv, Numbered
  <2>15. sent' \in [Pdrs -> Seq(Sending)] /\ buffLock' \in BOOLEAN
    BY <1>1, <1>7 DEF Inv, Typed, Sending, Number
  <2>16. QED
    BY <1>1, <1>7, <2>6, <2>10, <2>11, <2>13, <2>14, <2>15, BufferStep
<1>8. QED
  BY <1>3, <1>5, <1>6, <1>7 DEF AllocBuffer

LEMMA AppendPacketInv ==
  ASSUME Inv, AppendPacket
  PROVE  Inv' /\ Lost' = Lost
<1>1. /\ up.pc = "append"
      /\ UNCHANGED <<rules, bufPacketHash, discarded, sent, main, FARHashLock, packets>>
  BY DEF AppendPacket
<1>2. PICK a \in Stores, q \in Pdrs, r \in BOOLEAN :
        up = [pc |-> "append", pdr |-> q, st |-> a, report |-> r]
  BY <1>1 DEF Inv, UpStates
<1>3. up.st = a /\ up.report = r
  BY <1>2
<1>4. /\ packets' \in 0 .. MaxPackets /\ FARHashLock' \in BOOLEAN /\ buffLock \in BOOLEAN
      /\ fault \in {"none", "freed", "no buffer", "no storage"}
  BY <1>1 DEF Inv, Typed
<1>5. CASE fault' \in {"freed", "no buffer"} /\ UNCHANGED <<store, up, buffLock, accepted>>
  <2>1. UNCHANGED <<rules, buffers, main, accepted>> /\ UpStates' /\ Numbered'
    BY <1>1, <1>5 DEF buffers, Inv, UpStates, Numbered
  <2>2. QED
    BY <1>4, <1>5, <2>1, ReceiverOnly
<1>6. CASE up' = Idle /\ buffLock' = FALSE /\ UNCHANGED <<store, accepted, fault>>
  <2>1. UNCHANGED <<rules, buffers, main, accepted>> /\ UpStates' /\ Numbered'
    BY <1>1, <1>6 DEF buffers, Inv, UpStates, Numbered, Idle
  <2>2. QED
    BY <1>4, <1>6, <2>1, ReceiverOnly
<1>7. CASE /\ store[a] # Null /\ store[a].packetBuffer # Null
           /\ fault' = fault /\ buffLock' = FALSE
           /\ store' = [store EXCEPT ![a].packetBuffer = Append(@, packets)]
           /\ accepted' = accepted \cup {packets}
           /\ up' = IF r THEN [up EXCEPT !.pc = "report"] ELSE Idle
  <2>1. PICK p \in Pdrs : bufPacketHash[p] = a
    BY <1>7 DEF Inv, Stored
  <2>2. PICK c \in Seq(Number) : c = store[a].packetBuffer
    BY <1>7 DEF Inv, Typed, UpfBufPacket, Number
  <2>3. packets \in Number /\ packets \notin accepted
    BY <1>1 DEF Inv, Numbered, Number
  <2>4. PICK b \in Seq(Number) : b = Append(c, packets)
    BY <2>3, AppendProperties
  <2>5. store' = [store EXCEPT ![a].packetBuffer = b]
    BY <1>7, <2>2, <2>4
  <2>6. b # Null
    BY NullAssumption DEF Number
  <2>7. /\ store' \in [Stores -> UpfBufPacket \cup {Null}] /\ Stored'
        /\ BufferedAs(p, b)
        /\ store'[a].packetBuffer = b /\ \A d \in Stores : d # a => store'[d] = store[d]
    <3>1. b \in Seq(Number) \cup {Null}
      OBVIOUS
    <3>2. store[a] # Null /\ UNCHANGED <<rules, bufPacketHash>>
      BY <1>1, <1>7
    <3>3. Rebuffers(p, a, b)
      BY <2>1, <2>5, <3>2 DEF Rebuffers
    <3>4. QED
      BY Zenon, <2>6, <3>1, <3>3, Rebuffered
  <2>8. a # Null
    BY BufferingAssumption
  <2>9. Buffered(p) = c
    BY <1>7, <2>1, <2>2, <2>8 DEF Buffered
  <2>10. BufferedAs(p, Append(Buffered(p), packets))
    BY <2>4, <2>6, <2>7, <2>9
  <2>11. /\ Placed' /\ Out(p)' = Out(p) \cup {packets}
         /\ \A d \in Pdrs : d # p => Out(d)' = Out(d)
    BY <1>1, <1>7, <2>3, <2>10, AddedPlaced DEF Inv
  <2>12. Lost' = Lost
    <3>1. Lost = accepted \ (discarded \cup UNION {Out(d) : d \in Pdrs})
      BY DEF Lost, Out
    <3>2. Lost' = accepted' \ (discarded' \cup UNION {Out(d)' : d \in Pdrs})
      BY DEF Lost, Out
    <3>3. \A x : (\E d \in Pdrs : x \in Out(d)') <=>
               (\E d \in Pdrs : x \in Out(d)) \/ x = packets
      BY <2>11
    <3>4. QED
      BY <1>1, <1>7, <2>3, <3>1, <3>2, <3>3
  <2>13. MainStates' /\ Handling'
    BY <1>1, <2>6, <2>7, BufferedHandling
  <2>14. up' = Idle \/ up' = [pc |-> "report", pdr |-> q, st |-> a, report |-> r]
    BY <1>2, <1>7
  <2>15. UpStates'
    BY <2>14 DEF UpStates, Idle
  <2>16. Numbered'
    <3>1. packets \in 1 .. packets /\ up'.pc \in {"idle", "report"}
      BY <2>3, <2>14, NumberIsInt DEF Idle, Number
    <3>2. QED
      BY <1>1, <1>7, <3>1 DEF Inv, Numbered
  <2>17. sent' \in [Pdrs -> Seq(Sending)] /\ buffLock' \in BOOLEAN
    BY <1>1, <1>7 DEF Inv, Typed, Sending, Number
  <2>18. QED
    BY <1>1, <1>7, <2>7, <2>11, <2>12, <2>13, <2>15, <2>16, <2>17, BufferStep
<1>8. QED
  BY <1>3, <1>5, <1>6, <1>7 DEF AppendPacket

LEMMA FindPDRInv ==
  ASSUME Inv, NEW p \in Pdrs, FindPDR(p)
  PROVE  Inv' /\ Lost' = Lost
<1>1. /\ packets < MaxPackets /\ p \in matchList /\ packets' = packets + 1
      /\ up' = [pc |-> "lookup", pdr |-> p, far |-> pdr[p].farId]
      /\ UNCHANGED <<rules, buffers, main, buffLock, FARHashLock, accepted, fault>>
  BY DEF FindPDR
<1>2. pdr[p] \in PdrRule
  BY <1>1 DEF Inv, Typed, RulesTyped, Listed
<1>3. UpStates'
  BY <1>1, <1>2 DEF UpStates, PdrRule
<1>4. packets \in Nat /\ MaxPackets \in Nat
  <2>1. MaxPackets \in Nat
    BY BufferingAssumption
  <2>2. packets \in 0 .. MaxPackets
    BY DEF Inv, Typed
  <2>3. QED
    BY <2>1, <2>2
<1>5. packets' \in 0 .. MaxPackets /\ packets' \in 1 .. MaxPackets
  BY <1>1, <1>4
<1>6. Numbered'
  <2>1. accepted \subseteq 1 .. packets /\ discarded \subseteq accepted
    BY DEF Inv, Numbered
  <2>2. /\ accepted' \subseteq 1 .. packets' /\ packets' \notin accepted' /\ discarded' \subseteq accepted'
    BY <1>1, <1>4, <2>1 DEF buffers
  <2>3. QED
    BY <1>5, <2>2 DEF Numbered
<1>7. /\ buffLock' \in BOOLEAN /\ FARHashLock' \in BOOLEAN
      /\ fault' \in {"none", "freed", "no buffer", "no storage"}
  BY <1>1 DEF Inv, Typed
<1>8. QED
  BY <1>1, <1>3, <1>5, <1>6, <1>7, ReceiverOnly

(* A step of the receiver from a packet not yet taken to another such, or   *)
(* to the end.                                                              *)
LEMMA ReceiverLooks ==
  ASSUME Inv, UNCHANGED <<rules, buffers, main, packets, accepted, buffLock>>,
         FARHashLock' \in BOOLEAN, fault' \in {"none", "freed", "no buffer", "no storage"},
         UpStates',
         up'.pc \in {"idle", "report"} \/ up.pc \in {"lookup", "decide", "find", "alloc", "append"}
  PROVE  Inv' /\ Lost' = Lost
<1>1. packets' \in 0 .. MaxPackets /\ buffLock' \in BOOLEAN
  BY DEF Inv, Typed
<1>2. Numbered'
  BY DEF Inv, Numbered, buffers
<1>3. QED
  BY <1>1, <1>2, ReceiverOnly

LEMMA LookUpFarInv ==
  ASSUME Inv, LookUpFar
  PROVE  Inv' /\ Lost' = Lost
<1>1. /\ up.pc = "lookup"
      /\ UNCHANGED <<rules, buffers, main, buffLock, packets, accepted, fault>>
  BY DEF LookUpFar
<1>2. up.pdr \in Pdrs /\ up.far \in Fars \cup {Null}
  BY <1>1 DEF Inv, UpStates
<1>3. \/ up' = Idle /\ FARHashLock' = FARHashLock
      \/ /\ up.far # Null /\ far[up.far] # Null /\ FARHashLock' = TRUE
         /\ up' = [pc |-> "decide", pdr |-> up.pdr, action |-> far[up.far].action]
  BY DEF LookUpFar
<1>4. UpStates'
  <2>1. CASE up' = Idle
    BY <2>1 DEF UpStates, Idle
  <2>2. CASE /\ up.far # Null /\ far[up.far] # Null
             /\ up' = [pc |-> "decide", pdr |-> up.pdr, action |-> far[up.far].action]
    <3>1. far[up.far] \in FarRule
      BY <1>2, <2>2 DEF Inv, Typed, RulesTyped
    <3>2. QED
      BY <1>2, <2>2, <3>1 DEF UpStates, FarRule
  <2>3. QED
    BY <1>3, <2>1, <2>2
<1>5. FARHashLock' \in BOOLEAN /\ fault' \in {"none", "freed", "no buffer", "no storage"}
  BY <1>1, <1>3 DEF Inv, Typed
<1>6. QED
  BY <1>1, <1>4, <1>5, ReceiverLooks

LEMMA HowToHandleThisPacketInv ==
  ASSUME Inv, HowToHandleThisPacket
  PROVE  Inv' /\ Lost' = Lost
<1>1. /\ up.pc = "decide" /\ FARHashLock' = FALSE
      /\ up' = IF "BUFF" \in up.action THEN [up EXCEPT !.pc = "find"] ELSE Idle
      /\ UNCHANGED <<rules, buffers, main, buffLock, packets, accepted, fault>>
  BY DEF HowToHandleThisPacket
<1>2. PICK p \in Pdrs, act \in SUBSET {"DROP", "FORW", "BUFF", "NOCP"} :
        up = [pc |-> "decide", pdr |-> p, action |-> act]
  BY <1>1 DEF Inv, UpStates
<1>3. up' = Idle \/ up' = [pc |-> "find", pdr |-> p, action |-> act]
  BY <1>1, <1>2
<1>4. UpStates'
  BY <1>3 DEF UpStates, Idle
<1>5. FARHashLock' \in BOOLEAN /\ fault' \in {"none", "freed", "no buffer", "no storage"}
  BY <1>1 DEF Inv, Typed
<1>6. QED
  BY <1>1, <1>4, <1>5, ReceiverLooks

LEMMA FindStorageInv ==
  ASSUME Inv, FindStorage
  PROVE  Inv' /\ Lost' = Lost
<1>1. /\ up.pc = "find"
      /\ UNCHANGED <<rules, buffers, main, buffLock, FARHashLock, packets, accepted, fault>>
  BY DEF FindStorage
<1>2. up.pdr \in Pdrs
  BY <1>1 DEF Inv, UpStates
<1>3. \/ up' = Idle
      \/ /\ bufPacketHash[up.pdr] # Null
         /\ up' = [pc |-> "alloc", pdr |-> up.pdr, st |-> bufPacketHash[up.pdr],
                   report |-> "NOCP" \in up.action]
  BY DEF FindStorage
<1>4. UpStates'
  <2>1. CASE up' = Idle
    BY <2>1 DEF UpStates, Idle
  <2>2. CASE /\ bufPacketHash[up.pdr] # Null
             /\ up' = [pc |-> "alloc", pdr |-> up.pdr, st |-> bufPacketHash[up.pdr],
                       report |-> "NOCP" \in up.action]
    <3>1. bufPacketHash[up.pdr] \in Stores
      BY <1>2, <2>2 DEF Inv, Typed
    <3>2. ("NOCP" \in up.action) \in BOOLEAN
      OBVIOUS
    <3>3. QED
      BY <1>2, <2>2, <3>1, <3>2 DEF UpStates
  <2>3. QED
    BY <1>3, <2>1, <2>2
<1>5. FARHashLock' \in BOOLEAN /\ fault' \in {"none", "freed", "no buffer", "no storage"}
  BY <1>1 DEF Inv, Typed
<1>6. QED
  BY <1>1, <1>4, <1>5, ReceiverLooks

LEMMA ReportDownlinkDataInv ==
  ASSUME Inv, ReportDownlinkData
  PROVE  Inv' /\ Lost' = Lost
<1>1. /\ up.pc = "report" /\ up' \in {up, Idle}
      /\ fault' \in {fault, "freed"}
      /\ UNCHANGED <<rules, buffers, main, buffLock, FARHashLock, packets, accepted>>
  BY DEF ReportDownlinkData
<1>2. UpStates' /\ up'.pc \in {"idle", "report"}
  BY <1>1 DEF Inv, UpStates, Idle
<1>3. FARHashLock' \in BOOLEAN /\ fault' \in {"none", "freed", "no buffer", "no storage"}
  BY <1>1 DEF Inv, Typed
<1>4. QED
  BY <1>1, <1>2, <1>3, ReceiverLooks

-----------------------------------------------------------------------------
(* The specification. *)

LEMMA InitInv == Init => Inv
<1> SUFFICES ASSUME Init PROVE Inv
  OBVIOUS
<1> USE DEF Init
<1>1. MainStates /\ UpStates /\ Handling
  BY DEF MainStates, UpStates, Handling, Idle
<1>2. PICK empty : empty = << >>
  OBVIOUS
<1>3. empty \in Seq([packet : 1 .. MaxPackets, far : Fars]) /\ ToSet(empty) = {}
  BY <1>2 DEF ToSet
<1>4. 0 \in 0 .. MaxPackets
  BY BufferingAssumption
<1>5. Typed
  BY <1>2, <1>3, <1>4 DEF Typed, RulesTyped
<1>6. Listed /\ Stored /\ InKernel
  BY DEF Listed, Lists, Live, Stored, InKernel
<1>7. Numbered
  BY DEF Numbered, Idle
<1>8. \A p \in Pdrs : SentPackets(p) = << >> /\ Buffered(p) = << >>
  <2>1. ASSUME NEW p \in Pdrs PROVE SentPackets(p) = << >>
    <3>1. sent[p] = << >> /\ Len(<< >>) = 0
      OBVIOUS
    <3>2. PacketsOf(<< >>) \in Seq(Number) /\ Len(PacketsOf(<< >>)) = 0
      <4>1. PICK none \in Seq(Sending) : none = << >>
        BY EmptySeq
      <4>2. PacketsOf(none) \in Seq(Number) /\ Len(PacketsOf(none)) = Len(none)
        BY PacketsOfSeq
      <4>3. QED
        BY <3>1, <4>1, <4>2
    <3>3. PacketsOf(<< >>) = << >>
      BY <3>2, EmptySeq
    <3>4. QED
      BY <3>1, <3>3 DEF SentPackets, PacketsOf
  <2>2. QED
    BY <2>1 DEF Buffered
<1>9. Placed
  <2>1. \A p \in Pdrs : Out(p) = {}
    BY <1>8 DEF Out, ToSet
  <2>2. Increasing(<< >> \o << >>)
    <3>1. << >> \o << >> = << >> /\ Len(<< >>) = 0
      OBVIOUS
    <3>2. QED
      BY <3>1 DEF Increasing
  <2>3. \A p \in Pdrs : InOrder(p)
    BY <1>8, <2>2 DEF InOrder
  <2>4. QED
    BY <2>1, <2>3 DEF Placed
<1>10. QED
  BY <1>1, <1>5, <1>6, <1>7, <1>9 DEF Inv

(* Only ClearBuffer loses packets. *)
LosesBehindFlush == Lost' # Lost => /\ main.pc = "clear"
                                    /\ Lost' = Lost \cup ToSet(Buffered(Head(main.todo)))

LEMMA NextInv == ASSUME Inv, [Next]_vars PROVE Inv' /\ LosesBehindFlush
<1>1. CASE Request
  <2>1. CASE \E s \in Sessions : UpfSessionAdd(s) \/ UpfSessionRemove(s)
    BY <2>1, UpfSessionAddInv, UpfSessionRemoveInv DEF LosesBehindFlush
  <2>2. CASE \E s \in Sessions, f \in Fars : UpfN4HandleRemoveFar(s, f)
    BY <2>2, UpfN4HandleRemoveFarInv DEF LosesBehindFlush
  <2>3. CASE \E s \in Sessions, f \in Fars : \E ie \in CreateFarIEs : UpfN4HandleCreateFar(s, f, ie)
    BY <2>3, UpfN4HandleCreateFarInv DEF LosesBehindFlush
  <2>4. CASE \E s \in Sessions, f \in Fars : \E ie \in UpdateFarIEs : UpfN4HandleUpdateFar(s, f, ie)
    BY <2>4, UpfN4HandleUpdateFarInv DEF LosesBehindFlush
  <2>5. CASE \E s \in Sessions, p \in Pdrs : UpfN4HandleRemovePdr(s, p)
    BY <2>5, UpfN4HandleRemovePdrInv DEF LosesBehindFlush
  <2>6. CASE \E s \in Sessions, p \in Pdrs : \E ie \in PdrIEs : UpfN4HandleCreatePdr(s, p, ie)
    BY <2>6, UpfN4HandleCreatePdrInv DEF LosesBehindFlush
  <2>7. CASE \E s \in Sessions, p \in Pdrs : \E ie \in PdrIEs : UpfN4HandleUpdatePdr(s, p, ie)
    BY <2>7, UpfN4HandleUpdatePdrInv DEF LosesBehindFlush
  <2>8. QED
    BY <1>1, <2>1, <2>2, <2>3, <2>4, <2>5, <2>6, <2>7, Zenon DEF Request
<1>2. CASE MainStep
  <2>1. CASE MatchRuleRegister
    BY <2>1, MatchRuleRegisterInv DEF LosesBehindFlush
  <2>2. CASE AddStorage
    BY <2>2, AddStorageInv DEF LosesBehindFlush
  <2>3. CASE UpfPDRDeregisterToSession
    BY <2>3, UpfPDRDeregisterToSessionInv DEF LosesBehindFlush
  <2>4. CASE DiscardBuffers
    BY <2>4, DiscardBuffersInv DEF LosesBehindFlush
  <2>5. CASE UpfFARListDeletion
    BY <2>5, UpfFARListDeletionInv DEF LosesBehindFlush
  <2>6. CASE DropBuffered
    BY <2>6, DropBufferedInv DEF LosesBehindFlush
  <2>7. CASE UpSendPacketByPdrFar
    BY <2>7, UpSendPacketByPdrFarInv DEF LosesBehindFlush
  <2>8. CASE FlushBuffered
    BY <2>8, FlushBufferedInv DEF LosesBehindFlush
  <2>9. CASE ClearBuffer
    <3>1. main.pc = "clear"
      BY <2>9 DEF ClearBuffer
    <3>2. QED
      BY <2>9, <3>1, ClearBufferInv DEF LosesBehindFlush
  <2>10. QED
    BY <1>2, <2>1, <2>2, <2>3, <2>4, <2>5, <2>6, <2>7, <2>8, <2>9 DEF MainStep
<1>3. CASE ReceiverStep
  <2>1. CASE LookUpFar
    BY <2>1, LookUpFarInv DEF LosesBehindFlush
  <2>2. CASE HowToHandleThisPacket
    BY <2>2, HowToHandleThisPacketInv DEF LosesBehindFlush
  <2>3. CASE FindStorage
    BY <2>3, FindStorageInv DEF LosesBehindFlush
  <2>4. CASE AllocBuffer
    BY <2>4, AllocBufferInv DEF LosesBehindFlush
  <2>5. CASE AppendPacket
    BY <2>5, AppendPacketInv DEF LosesBehindFlush
  <2>6. CASE ReportDownlinkData
    BY <2>6, ReportDownlinkDataInv DEF LosesBehindFlush
  <2>7. QED
    BY <1>3, <2>1, <2>2, <2>3, <2>4, <2>5, <2>6 DEF ReceiverStep
<1>4. CASE \E p \in Pdrs : FindPDR(p)
  BY <1>4, FindPDRInv DEF LosesBehindFlush
<1>5. CASE UNCHANGED vars
  <2>1. UNCHANGED <<rules, buffers, main, packets, accepted, buffLock>> /\ up' = up
    BY <1>5 DEF vars, receiver
  <2>2. FARHashLock' \in BOOLEAN /\ fault' \in {"none", "freed", "no buffer", "no storage"}
    BY <1>5 DEF vars, receiver, Inv, Typed
  <2>3. packets' \in 0 .. MaxPackets /\ buffLock' \in BOOLEAN
    BY <2>1 DEF Inv, Typed
  <2>4. UpStates' /\ Numbered'
    BY <2>1 DEF Inv, UpStates, Numbered, buffers
  <2>5. QED
    BY <2>1, <2>2, <2>3, <2>4, ReceiverOnly DEF LosesBehindFlush
<1>6. QED
  BY <1>1, <1>2, <1>3, <1>4, <1>5 DEF Next

(* The inductive invariant: who lists a PDR, whose its storage is, what the  *)
(* kernel has, what each thread relies on in the middle of a handler, and    *)
(* where every packet is (all of the rule handlers and PacketInBufferHandle).*)
THEOREM BufferingSound == Spec => []Inv
<1>1. Init => Inv
  BY InitInv
<1>2. Inv /\ [Next]_vars => Inv'
  BY NextInv
<1>3. QED
  BY <1>1, <1>2, PTL DEF Spec

(* Between two handlers storage is the storage of one PDR of the context,   *)
(* and names the session that lists that PDR (UpfN4HandleCreatePdr,         *)
(* UpfN4HandleRemovePdr, UpfSessionRemove).                                 *)
THEOREM StorageAlwaysFollowsPdr == Spec => []StorageFollowsPdr
<1>1. Inv => StorageFollowsPdr
  <2> SUFFICES ASSUME Inv PROVE StorageFollowsPdr
    OBVIOUS
  <2>1. ASSUME NEW a \in Stores, store[a] # Null
        PROVE  \E p \in Pdrs : bufPacketHash[p] = a /\ Owners(p) = {store[a].sess}
    <3>1. PICK s \in Sessions : s = store[a].sess
      BY <2>1 DEF Inv, Typed, UpfBufPacket
    <3>2. PICK p \in Pdrs : bufPacketHash[p] = a /\ Lists(s, p)
      BY <2>1, <3>1 DEF Inv, Stored
    <3>3. \A t \in Sessions : Lists(t, p) <=> t = s
      BY <3>2 DEF Inv, Listed
    <3>4. Owners(p) = {s}
      BY <3>3 DEF Owners, Lists
    <3>5. QED
      BY <3>1, <3>2, <3>4
  <2>2. \A p, q \in Pdrs :
          bufPacketHash[p] # Null =>
            /\ store[bufPacketHash[p]] # Null /\ pdr[p] # Null
            /\ bufPacketHash[p] = bufPacketHash[q] => p = q
    BY DEF Inv, Stored
  <2>3. QED
    BY <2>1, <2>2 DEF StorageFollowsPdr
<1>2. QED
  BY <1>1, BufferingSound, PTL

(* A PDR is in the table exactly when one live session lists it, once, and  *)
(* between two handlers the kernel has every rule the context has           *)
(* (UpfPDRRegisterToSession, UpfPDRDeregisterToSessionByNodeNoSafe).        *)
THEOREM AlwaysOneOwner == Spec => []OneOwner
<1>1. Inv => OneOwner
  <2> SUFFICES ASSUME Inv PROVE OneOwner
    OBVIOUS
  <2>1. TypeOK
    <3>1. accepted \subseteq 1 .. packets /\ discarded \subseteq accepted
      BY DEF Inv, Numbered
    <3>2. matchList \subseteq {p \in Pdrs : pdr[p] # Null}
      BY DEF Inv, Listed
    <3>3. QED
      BY <3>1, <3>2 DEF Inv, Typed, RulesTyped, TypeOK
  <2>2. KernelHasRules
    BY DEF KernelHasRules, MainIdle, Inv, InKernel
  <2>3. \A s \in Sessions, p \in Pdrs : s \in Owners(p) <=> Lists(s, p)
    BY DEF Owners, Lists
  <2>4. \A p \in Pdrs : Owners(p) \subseteq Sessions
    BY DEF Owners
  <2>5. ASSUME NEW p \in Pdrs
        PROVE  /\ (pdr[p] # Null) = (Owners(p) # {})
               /\ \A s, t \in Owners(p) : s = t
    <3>1. pdr[p] # Null => Owners(p) # {}
      BY <2>3 DEF Inv, Listed
    <3>2. Owners(p) # {} => pdr[p] # Null
      BY <2>3, <2>4 DEF Inv, Listed
    <3>3. \A s, t \in Owners(p) : s = t
      BY <2>3, <2>4 DEF Inv, Listed
    <3>4. QED
      BY <3>1, <3>2, <3>3
  <2>6. \A s \in Sessions : Live(s) => IsInjective(pdrList[s])
    BY DEF Inv, Listed
  <2>7. QED
    BY <2>1, <2>2, <2>5, <2>6 DEF OneOwner
<1>2. QED
  BY <1>1, BufferingSound, PTL

(* A PDR's packets leave in the order they came, none twice, and none that  *)
(* was discarded (UpSendPacketByPdrFar against PacketInBufferHandle).       *)
THEOREM AlwaysSentOnceInOrder == Spec => []SentOnceInOrder
<1>1. Inv => SentOnceInOrder
  <2> SUFFICES ASSUME Inv, NEW p \in Pdrs
               PROVE  LET out == SentPackets(p) \o Buffered(p)
                      IN /\ \A i, j \in 1..Len(out) : i < j => out[i] < out[j]
                         /\ discarded \cap ToSet(out) = {}
    BY DEF SentOnceInOrder
  <2>1. SentPackets(p) \in Seq(Number) /\ Buffered(p) \in Seq(Number)
    BY Kept DEF Inv
  <2>2. ToSet(SentPackets(p) \o Buffered(p)) = ToSet(SentPackets(p)) \cup ToSet(Buffered(p))
    BY <2>1, ConcatSet
  <2>3. discarded \cap ToSet(SentPackets(p) \o Buffered(p)) = {}
    BY <2>2 DEF Inv, Placed, Out
  <2>4. InOrder(p)
    BY DEF Inv, Placed
  <2>5. QED
    BY <2>3, <2>4 DEF InOrder, Increasing
<1>2. QED
  BY <1>1, BufferingSound, PTL

(* A packet taken for buffering is lost only by the second write to         *)
(* packetBuffer in UpSendPacketByPdrFar, and only with the PDR it flushed.  *)
THEOREM OnlyLostBehindFlush == Spec => LostOnlyBehindFlush
<1>1. Inv /\ [Next]_vars => [LosesBehindFlush]_vars
  BY NextInv
<1>2. Spec => [][LosesBehindFlush]_vars
  BY <1>1, BufferingSound, PTL DEF Spec
<1>3. QED
  BY <1>2 DEF LostOnlyBehindFlush, LosesBehindFlush

=============================================================================

---------------------------- MODULE PfcpPathProofs ----------------------------
(***************************************************************************)
(* Proofs about the way of a PFCP message and the buffers it takes, for    *)
(* any peers, size classes, pools and queue.                               *)
(***************************************************************************)
EXTENDS PfcpPath, SequenceLemmas

-----------------------------------------------------------------------------
(* Counting the buffers of a class in a sequence of blocks. *)

InClass(s, c) == {i \in DOMAIN s : s[i].buf = c}
CountOf(s, c) == Cardinality(InClass(s, c))

LEMMA CountFinite ==
  ASSUME NEW A, NEW s \in Seq(A), NEW c
  PROVE  IsFiniteSet(InClass(s, c)) /\ CountOf(s, c) \in Nat
<1>1. Len(s) \in Nat /\ InClass(s, c) \in SUBSET (1 .. Len(s))
  BY LenProperties DEF InClass
<1>2. IsFiniteSet(1 .. Len(s))
  BY <1>1, FS_Interval
<1>3. IsFiniteSet(InClass(s, c))
  BY <1>1, <1>2, FS_Subset
<1>4. QED
  BY <1>3, FS_CardinalityType DEF CountOf

LEMMA CountEmpty == \A c : CountOf(<< >>, c) = 0
  BY FS_EmptySet DEF CountOf, InClass

LEMMA CountOne == \A b, c : CountOf(<<b>>, c) = IF b.buf = c THEN 1 ELSE 0
<1> SUFFICES ASSUME NEW b, NEW c PROVE CountOf(<<b>>, c) = IF b.buf = c THEN 1 ELSE 0
  OBVIOUS
<1>1. InClass(<<b>>, c) = IF b.buf = c THEN {1} ELSE {}
  BY DEF InClass
<1>2. QED
  BY <1>1, FS_EmptySet, FS_Singleton DEF CountOf

LEMMA CountConcat ==
  ASSUME NEW A, NEW s \in Seq(A), NEW t \in Seq(A), NEW c
  PROVE  CountOf(s \o t, c) = CountOf(s, c) + CountOf(t, c)
<1> DEFINE U == InClass(s, c)
           V == InClass(t, c)
           W == {i \in Len(s) + 1 .. Len(s) + Len(t) : t[i - Len(s)].buf = c}
           f == [i \in V |-> i + Len(s)]
<1>1. /\ Len(s) \in Nat /\ Len(t) \in Nat /\ s \o t \in Seq(A)
      /\ DOMAIN s = 1 .. Len(s) /\ DOMAIN t = 1 .. Len(t)
      /\ DOMAIN (s \o t) = 1 .. Len(s) + Len(t)
      /\ \A k \in 1 .. Len(s) + Len(t) :
           (s \o t)[k] = IF k <= Len(s) THEN s[k] ELSE t[k - Len(s)]
  BY LenProperties, ConcatProperties
<1>2. InClass(s \o t, c) = U \cup W /\ U \cap W = {}
  BY <1>1 DEF InClass
<1>3. IsFiniteSet(W) /\ Cardinality(W) = Cardinality(V)
  <2>1. f \in Bijection(V, W)
    <3>1. \A i \in V : f[i] \in W
      BY <1>1 DEF InClass
    <3>2. \A i, j \in V : f[i] = f[j] => i = j
      BY <1>1 DEF InClass
    <3>3. \A w \in W : w - Len(s) \in V /\ f[w - Len(s)] = w
      BY <1>1 DEF InClass
    <3>4. QED
      BY <3>1, <3>2, <3>3 DEF Bijection, Injection, Surjection, IsInjective
  <2>2. ExistsBijection(V, W)
    BY <2>1 DEF ExistsBijection
  <2>3. QED
    BY <2>2, CountFinite, FS_Bijection
<1>4. QED
  <2>1. IsFiniteSet(U) /\ IsFiniteSet(V) /\ Cardinality(U) \in Nat /\ Cardinality(V) \in Nat
    BY CountFinite DEF CountOf
  <2>2. Cardinality(U \cup W) = Cardinality(U) + Cardinality(W) - Cardinality(U \cap W)
    BY <1>3, <2>1, FS_Union
  <2>3. Cardinality(U \cap W) = 0
    BY <1>2, FS_EmptySet
  <2> HIDE DEF U, V, W
  <2>4. Cardinality(U \cup W) = Cardinality(U) + Cardinality(V)
    BY <1>3, <2>1, <2>2, <2>3
  <2>5. QED
    BY <1>2, <2>4 DEF CountOf, U, V

-----------------------------------------------------------------------------
(* What the operations of utlt_buff.c do to the pools. *)

Pools == [blk : Int, buf : [Classes -> Nat]]

\* A block with its buffer: what it holds fits.
Block == {b \in [buf : Classes, size : Classes, len : Nat] : b.size = b.buf /\ b.len <= b.buf}

\* A buffer with the size by which it is freed: it selects the pool it is from.
Buffer == {b \in [buf : Classes, size : Nat, len : Nat] : SelectClass(b.size) = {b.buf}}

One(b, c) == IF b.buf = c THEN 1 ELSE 0

Took(m, n, b) == n \in Pools /\ \A c \in Classes : n.buf[c] = m.buf[c] - One(b, c)
Gave(m, n, b) == n \in Pools /\ \A c \in Classes : n.buf[c] = m.buf[c] + One(b, c)

\* An allocation of this size fails for want of a buffer or, with a header, of
\* a header; or it takes the buffer of a block b.
Refused(m, size, had) ==
  had = Failed(m) /\ \A c \in SelectClass(size) : ~(m.buf[c] > 0)
Supplied(m, size, had) ==
  /\ had.ok = TRUE /\ SelectClass(size) = {had.blk.buf} /\ size <= had.blk.buf
  /\ Took(m, had.mem, had.blk)
NewBlock(b) == b \in Block /\ b.len = 0

\* A block is as it was, or holds more, in its own or in a bigger buffer.
NotGrown(m, b, g) == g.ok = FALSE /\ g.mem = m /\ g.blk = b
Grown(m, b, size, g) ==
  /\ g.ok = TRUE /\ g.blk \in Block /\ g.blk.len = b.len + size
  /\ g.mem \in Pools /\ g.mem.blk = m.blk
  /\ \A c \in Classes : g.mem.buf[c] = m.buf[c] + One(b, c) - One(g.blk, c)

LEMMA Outcome ==
  \A m, size, had :
    /\ had = Failed(m) => had.ok = FALSE /\ had.mem = m
    /\ Refused(m, size, had) => had.ok = FALSE /\ had.mem = m
    /\ Supplied(m, size, had) => had.ok = TRUE /\ had.mem \in Pools
  BY DEF Refused, Failed, Supplied, Took

LEMMA OneType == \A b, c : One(b, c) \in Nat
  BY DEF One

(* SelectBufblkOption: at most one class, and for a class itself. *)
LEMMA SelectOne ==
  /\ \A size \in Nat : \A c, d \in SelectClass(size) : c = d
  /\ \A c \in Classes : SelectClass(c) = {c}
<1>1. \A c \in Classes : c \in Nat
  BY BufblkAssumption
<1>2. ASSUME NEW size \in Nat, NEW c \in SelectClass(size), NEW d \in SelectClass(size)
      PROVE  c = d
  <2>1. c \in Nat /\ d \in Nat /\ c <= d /\ d <= c
    BY <1>1 DEF SelectClass
  <2>2. QED
    BY <2>1
<1>3. ASSUME NEW c \in Classes PROVE SelectClass(c) = {c}
  <2>1. c \in SelectClass(c)
    BY <1>1 DEF SelectClass
  <2>2. QED
    BY <1>1, <1>2, <2>1
<1>4. QED
  BY <1>2, <1>3

LEMMA BlockIsBuffer == Block \subseteq Buffer
  BY SelectOne, BufblkAssumption DEF Block, Buffer

(* A buffer is taken from the one pool that fits, or nothing changes. *)
LEMMA BufAllocEffect ==
  ASSUME NEW m \in Pools, NEW size \in Nat
  PROVE  LET had == BufAlloc(m, size)
         IN  \/ Refused(m, size, had)
             \/ Supplied(m, size, had) /\ had.mem.blk = m.blk /\ NewBlock(had.blk)
<1>0. PICK had : had = BufAlloc(m, size)
  OBVIOUS
<1> DEFINE from == {c \in SelectClass(size) : m.buf[c] > 0}
           c == CHOOSE d \in from : TRUE
<1>1. CASE from = {}
  BY <1>1 DEF BufAlloc, Refused
<1>2. CASE from # {}
  <2>1. c \in from
    BY <1>2
  <2>2. had = [ok |-> TRUE, mem |-> [m EXCEPT !.buf[c] = @ - 1],
               blk |-> [buf |-> c, size |-> c, len |-> 0]]
    BY <1>0, <1>2 DEF BufAlloc
  <2> HIDE DEF c
  <2>3. c \in Classes /\ c \in Nat /\ size <= c /\ m.buf[c] > 0 /\ c \in SelectClass(size)
    BY <2>1, BufblkAssumption DEF SelectClass
  <2>4. SelectClass(size) = {c}
    <3>1. \A d \in SelectClass(size) : d = c
      BY <2>3, SelectOne
    <3>2. QED
      BY <2>3, <3>1
  <2>5. had.blk \in Block /\ had.blk.len = 0 /\ had.blk.buf = c /\ had.ok = TRUE
    BY <2>2, <2>3 DEF Block
  <2>6. Took(m, had.mem, had.blk) /\ had.mem.blk = m.blk
    BY <2>2, <2>3 DEF Took, Pools, One
  <2>7. QED
    BY <1>0, <2>3, <2>4, <2>5, <2>6 DEF Supplied, NewBlock
<1>3. QED
  BY <1>1, <1>2

(* BufFree gives a buffer back to the pool it is from, BufblkFree the header *)
(* as well.                                                                  *)
LEMMA FreeEffect ==
  ASSUME NEW m \in Pools, NEW b \in Buffer
  PROVE  /\ Gave(m, BufFree(m, b), b) /\ BufFree(m, b).blk = m.blk
         /\ Gave(m, BufblkFree(m, b), b) /\ BufblkFree(m, b).blk = m.blk + 1
<1>1. SelectClass(b.size) = {b.buf} /\ b.buf \in Classes
  BY DEF Buffer
<1>2. BufFree(m, b) = [blk |-> m.blk, buf |-> [c \in Classes |-> m.buf[c] + One(b, c)]]
  BY <1>1 DEF BufFree, Pools, One
<1>3. BufblkFree(m, b) = [blk |-> m.blk + 1, buf |-> [c \in Classes |-> m.buf[c] + One(b, c)]]
  BY <1>2 DEF BufblkFree, Pools
<1>4. [c \in Classes |-> m.buf[c] + One(b, c)] \in [Classes -> Nat]
  BY OneType DEF Pools
<1>5. QED
  BY <1>2, <1>3, <1>4 DEF Gave, Pools

LEMMA BlockAllocEffect ==
  ASSUME NEW m \in Pools, NEW size \in Nat
  PROVE  LET had == BufblkAlloc(m, size)
         IN  \/ had = Failed(m)
             \/ /\ Supplied(m, size, had) /\ NewBlock(had.blk)
                /\ had.mem.blk = m.blk - 1 /\ m.blk # 0
<1> DEFINE n == [m EXCEPT !.blk = @ - 1]
<1>1. n \in Pools /\ n.blk = m.blk - 1 /\ n.buf = m.buf
  BY DEF Pools
<1>2. PICK got : got = BufAlloc(n, size)
  OBVIOUS
<1>3. BufblkAlloc(m, size) = IF m.blk = 0 \/ ~got.ok THEN Failed(m) ELSE got
  BY <1>2 DEF BufblkAlloc
<1> HIDE DEF n
<1>4. CASE m.blk = 0 \/ ~got.ok
  BY <1>3, <1>4
<1>5. CASE m.blk # 0 /\ got.ok
  <2>1. \/ Refused(n, size, got)
        \/ Supplied(n, size, got) /\ got.mem.blk = n.blk /\ NewBlock(got.blk)
    BY <1>1, <1>2, BufAllocEffect
  <2>2. ~Refused(n, size, got)
    BY <1>5 DEF Refused, Failed
  <2>3. Supplied(m, size, got)
    BY <1>1, <2>1, <2>2 DEF Supplied, Took
  <2>4. QED
    BY <1>1, <1>3, <1>5, <2>1, <2>2, <2>3
<1>6. QED
  BY <1>4, <1>5

(* BufblkBytes: the block holds more, in its own or in a bigger buffer, and  *)
(* the old one is given back; or nothing changes.                            *)
LEMMA BytesEffect ==
  ASSUME NEW m \in Pools, NEW b \in Block, NEW size \in Nat
  PROVE  LET g == BufblkBytes(m, b, size)
         IN  NotGrown(m, b, g) \/ Grown(m, b, size, g)
<1>0. PICK g : g = BufblkBytes(m, b, size)
  OBVIOUS
<1>1. /\ b.buf \in Nat /\ b.size = b.buf /\ b.len \in Nat /\ b.len <= b.buf
      /\ b.buf \in Classes /\ b = [buf |-> b.buf, size |-> b.buf, len |-> b.len]
      /\ m \in [blk : Int, buf : [Classes -> Nat]]
  BY BufblkAssumption DEF Block, Pools
<1>2. CASE ~BufIsNotEnough(b, size)
  <2>1. g = [ok |-> TRUE, mem |-> m, blk |-> [b EXCEPT !.len = @ + size]]
    BY <1>0, <1>2 DEF BufblkBytes
  <2>2. b.len + size <= b.buf
    BY <1>1, <1>2 DEF BufIsNotEnough
  <2>3. g.blk = [buf |-> b.buf, size |-> b.buf, len |-> b.len + size] /\ g.mem = m /\ g.ok = TRUE
    BY <1>1, <2>1
  <2>4. g.blk \in Block /\ g.blk.buf = b.buf
    BY <1>1, <2>2, <2>3 DEF Block
  <2>5. \A c \in Classes : One(g.blk, c) = One(b, c) /\ One(b, c) \in Nat /\ m.buf[c] \in Nat
    BY <1>1, <2>4 DEF One
  <2>6. \A c \in Classes : m.buf[c] = m.buf[c] + One(b, c) - One(g.blk, c)
    BY <2>5
  <2>7. QED
    BY <1>0, <1>1, <2>3, <2>4, <2>6 DEF Grown, Pools
<1>3. CASE BufIsNotEnough(b, size)
  <2>1. PICK new : new = BufAlloc(m, b.size + size)
    OBVIOUS
  <2>2. PICK r : r = BufblkResize(m, b, b.size + size)
    OBVIOUS
  <2>3. g = IF r.ok THEN [r EXCEPT !.blk.len = @ + size] ELSE r
    BY <1>0, <1>3, <2>2 DEF BufblkBytes
  <2>4. CASE ~new.ok
    <3>1. r = [ok |-> FALSE, mem |-> m, blk |-> b]
      BY <2>1, <2>2, <2>4 DEF BufblkResize
    <3>2. QED
      BY <1>0, <2>3, <3>1 DEF NotGrown
  <2>5. CASE new.ok
    <3>1. /\ new.blk \in Block /\ b.buf + size <= new.blk.buf
          /\ Took(m, new.mem, new.blk) /\ new.mem.blk = m.blk
      <4>1. b.size + size \in Nat
        BY <1>1
      <4>2. \/ Refused(m, b.size + size, new)
            \/ Supplied(m, b.size + size, new) /\ new.mem.blk = m.blk /\ NewBlock(new.blk)
        BY <2>1, <4>1, BufAllocEffect
      <4>3. ~Refused(m, b.size + size, new)
        BY <2>5 DEF Refused, Failed
      <4>4. QED
        BY <1>1, <4>2, <4>3 DEF Supplied, NewBlock
    <3>2. /\ new.blk.buf \in Nat /\ new.blk.buf \in Classes /\ new.blk.size = new.blk.buf
          /\ new.blk = [buf |-> new.blk.buf, size |-> new.blk.buf, len |-> new.blk.len]
      BY <3>1, BufblkAssumption DEF Block
    <3>3. PICK k : k = IF b.len < new.blk.size THEN b.len ELSE new.blk.size
      OBVIOUS
    <3>4. k = b.len
      BY <1>1, <3>1, <3>2, <3>3
    <3>5. r = [ok |-> TRUE, mem |-> BufFree(new.mem, b), blk |-> [new.blk EXCEPT !.len = k]]
      BY <2>1, <2>2, <2>5, <3>3 DEF BufblkResize
    <3>6. r.blk = [buf |-> new.blk.buf, size |-> new.blk.buf, len |-> b.len]
      BY <3>2, <3>4, <3>5
    <3>7. g = [ok |-> TRUE, mem |-> BufFree(new.mem, b), blk |-> [r.blk EXCEPT !.len = @ + size]]
      BY <2>3, <3>5
    <3>8. g.blk = [buf |-> new.blk.buf, size |-> new.blk.buf, len |-> b.len + size]
      BY <3>6, <3>7
    <3>9. g.blk \in Block /\ g.blk.buf = new.blk.buf /\ g.blk.len = b.len + size
      BY <1>1, <3>1, <3>2, <3>8 DEF Block
    <3>10. new.mem \in Pools /\ \A c \in Classes : new.mem.buf[c] = m.buf[c] - One(new.blk, c)
      BY <3>1 DEF Took
    <3>11. /\ g.mem \in Pools /\ g.mem.blk = m.blk
           /\ \A c \in Classes : g.mem.buf[c] = new.mem.buf[c] + One(b, c)
      <4>1. b \in Buffer
        BY BlockIsBuffer
      <4>2. Gave(new.mem, BufFree(new.mem, b), b) /\ BufFree(new.mem, b).blk = new.mem.blk
        BY <3>10, <4>1, FreeEffect
      <4>3. QED
        BY <3>1, <3>7, <4>2 DEF Gave
    <3>12. \A c \in Classes : One(g.blk, c) = One(new.blk, c)
      BY <3>9 DEF One
    <3>13. \A c \in Classes : g.mem.buf[c] = m.buf[c] + One(b, c) - One(g.blk, c)
      <4>1. \A c \in Classes : m.buf[c] \in Int /\ One(b, c) \in Int /\ One(new.blk, c) \in Int
        BY <1>1, OneType
      <4>2. QED
        BY <3>10, <3>11, <3>12, <4>1
    <3>14. QED
      BY <1>0, <3>7, <3>9, <3>11, <3>13 DEF Grown
  <2>6. QED
    BY <2>4, <2>5
<1>4. QED
  BY <1>2, <1>3

(* UTLT_Malloc takes a buffer that UTLT_Free will find the pool of. *)
LEMMA MallocEffect ==
  ASSUME NEW m \in Pools
  PROVE  LET had == UTLT_Malloc(m, ValueSize)
         IN  \/ Refused(m, ValueSize + Word, had)
             \/ /\ Supplied(m, ValueSize + Word, had)
                /\ had.mem.blk = m.blk /\ had.blk \in Buffer
<1>1. ValueSize + Word \in Nat
  BY BufblkAssumption, PfcpPathAssumption
<1>2. PICK got : got = BufAlloc(m, ValueSize + Word)
  OBVIOUS
<1>3. PICK had : had = UTLT_Malloc(m, ValueSize)
  OBVIOUS
<1>4. had = IF got.ok THEN [got EXCEPT !.blk.size = ValueSize + Word] ELSE got
  BY <1>2, <1>3 DEF UTLT_Malloc
<1>5. CASE ~got.ok
  <2>1. Refused(m, ValueSize + Word, got)
    BY <1>1, <1>2, <1>5, BufAllocEffect DEF Supplied
  <2>2. QED
    BY <1>3, <1>4, <1>5, <2>1
<1>6. CASE got.ok
  <2>1. ~Refused(m, ValueSize + Word, got)
    BY <1>6 DEF Refused, Failed
  <2>2. Supplied(m, ValueSize + Word, got) /\ got.mem.blk = m.blk /\ NewBlock(got.blk)
    BY <1>1, <1>2, <2>1, BufAllocEffect
  <2>3. /\ had.ok = TRUE /\ had.mem = got.mem
        /\ had.blk = [buf |-> got.blk.buf, size |-> ValueSize + Word, len |-> 0]
    <3>1. got = [ok |-> TRUE, mem |-> got.mem, blk |-> got.blk]
      BY <1>2, <1>6 DEF BufAlloc, Failed
    <3>2. had.ok = TRUE /\ had.mem = got.mem /\ had.blk = [got.blk EXCEPT !.size = ValueSize + Word]
      BY <1>4, <1>6, <3>1
    <3>3. QED
      BY <2>2, <3>2 DEF NewBlock, Block
  <2>4. had.blk \in Buffer /\ had.blk.buf = got.blk.buf
    BY <1>1, <2>2, <2>3 DEF NewBlock, Block, Buffer, Supplied
  <2>5. Supplied(m, ValueSize + Word, had)
    BY <2>2, <2>3, <2>4 DEF Supplied, Took, One
  <2>6. QED
    BY <1>3, <2>2, <2>3, <2>4, <2>5
<1>7. QED
  BY <1>5, <1>6

(* PfcpAddNodeWithSeid takes one buffer, whatever it took on the way.        *)
(* Without memory it may keep one, and only if there was just one.           *)
LEMMA AddNodeEffect ==
  ASSUME mem \in Pools
  PROVE  LET new == PfcpAddNodeWithSeid
         IN  /\ new.mem \in Pools /\ new.mem.blk = mem.blk
             /\ \/ new.ok = TRUE /\ new.blk \in Buffer /\ Took(mem, new.mem, new.blk)
                \/ /\ new.ok = FALSE
                   /\ (\A c \in SelectClass(ValueSize + Word) : mem.buf[c] >= 2) => new.mem = mem
<1> DEFINE size == ValueSize + Word
           Effect(m, had) == \/ Refused(m, size, had)
                             \/ Supplied(m, size, had) /\ had.mem.blk = m.blk /\ had.blk \in Buffer
<1>1. PICK new : new = PfcpAddNodeWithSeid
  OBVIOUS
<1>2. PICK addr : addr = UTLT_Malloc(mem, ValueSize)
  OBVIOUS
<1>3. PICK addr6 : addr6 = UTLT_Malloc(addr.mem, ValueSize)
  OBVIOUS
<1>4. PICK back : back = UTLT_Free(addr6.mem, addr6.blk)
  OBVIOUS
<1>5. PICK copy : copy = UTLT_Malloc(back, ValueSize)
  OBVIOUS
<1>6. new = IF ~addr.ok \/ ~addr6.ok THEN [ok |-> FALSE, mem |-> addr6.mem, blk |-> addr6.blk]
            ELSE [copy EXCEPT !.mem = UTLT_Free(copy.mem, addr.blk)]
  BY <1>1, <1>2, <1>3, <1>4, <1>5 DEF PfcpAddNodeWithSeid
<1>7. Effect(mem, addr)
  BY <1>2, MallocEffect
<1>8. addr.mem \in Pools /\ addr.mem.blk = mem.blk /\ addr.ok \in BOOLEAN
  BY <1>7, Outcome
<1>9. Effect(addr.mem, addr6)
  BY <1>3, <1>8, MallocEffect
<1>10. addr6.mem \in Pools /\ addr6.mem.blk = mem.blk /\ addr6.ok \in BOOLEAN
  <2>1. CASE Refused(addr.mem, size, addr6)
    <3>1. addr6.ok = FALSE /\ addr6.mem = addr.mem
      BY Zenon, <2>1, Outcome
    <3>2. QED
      BY Zenon, <1>8, <3>1
  <2>2. CASE Supplied(addr.mem, size, addr6) /\ addr6.mem.blk = addr.mem.blk
    BY <1>8, <2>2, Outcome
  <2>3. QED
    BY <1>9, <2>1, <2>2
<1>11. CASE ~addr.ok
  <2>1. addr.mem = mem /\ Refused(mem, size, addr)
    BY <1>7, <1>11 DEF Refused, Failed, Supplied
  <2>2. Refused(mem, size, addr6)
    <3>1. ASSUME Supplied(mem, size, addr6) PROVE FALSE
      <4>1. addr6.blk.buf \in SelectClass(size) /\ SelectClass(size) \subseteq Classes
        BY <3>1 DEF Supplied, SelectClass
      <4>2. /\ addr6.blk.buf \in Classes /\ mem.buf[addr6.blk.buf] \in Nat
            /\ ~(mem.buf[addr6.blk.buf] > 0)
        BY <2>1, <4>1 DEF Refused, Pools
      <4>3. addr6.mem.buf[addr6.blk.buf] = mem.buf[addr6.blk.buf] - 1
        BY <3>1, <4>1 DEF Supplied, Took, One
      <4>4. addr6.mem.buf[addr6.blk.buf] \in Nat
        BY <1>10, <4>1 DEF Pools
      <4>5. QED
        BY <4>2, <4>3, <4>4
    <3>2. QED
      BY <1>9, <2>1, <3>1
  <2>3. new = [ok |-> FALSE, mem |-> mem, blk |-> addr6.blk]
    BY <1>6, <1>11, <2>2 DEF Refused, Failed
  <2>4. QED
    BY <1>1, <2>3
<1>12. CASE addr.ok /\ ~addr6.ok
  <2>1. new.ok = FALSE /\ new.mem = addr6.mem
    BY <1>6, <1>12
  <2>2. Supplied(mem, size, addr) /\ Refused(addr.mem, size, addr6)
    BY <1>7, <1>9, <1>12 DEF Refused, Failed, Supplied
  <2>3. addr.blk.buf \in SelectClass(size) /\ SelectClass(size) \subseteq Classes
    BY <2>2 DEF Supplied, SelectClass
  <2>4. addr.mem.buf[addr.blk.buf] = mem.buf[addr.blk.buf] - 1
    BY <2>2, <2>3 DEF Supplied, Took, One
  <2>5. mem.buf[addr.blk.buf] \in Nat /\ ~(addr.mem.buf[addr.blk.buf] > 0)
    BY <2>2, <2>3 DEF Refused, Pools
  <2>6. ~(mem.buf[addr.blk.buf] >= 2)
    BY <2>4, <2>5
  <2>7. QED
    BY <1>1, <1>10, <2>1, <2>3, <2>6
<1>13. CASE addr.ok /\ addr6.ok
  <2>1. /\ Supplied(mem, size, addr) /\ addr.blk \in Buffer
        /\ Supplied(addr.mem, size, addr6) /\ addr6.blk \in Buffer
    BY <1>7, <1>9, <1>13 DEF Refused, Failed
  <2>2. /\ back \in Pools /\ back.blk = mem.blk
        /\ \A c \in Classes : back.buf[c] = addr6.mem.buf[c] + One(addr6.blk, c)
    BY <1>4, <1>10, <2>1, FreeEffect DEF UTLT_Free, Gave
  <2>3. \A c \in Classes : back.buf[c] = addr.mem.buf[c]
    <3>1. \A c \in Classes : /\ addr6.mem.buf[c] = addr.mem.buf[c] - One(addr6.blk, c)
                             /\ addr.mem.buf[c] \in Int /\ One(addr6.blk, c) \in Int
      BY <1>8, <2>1, OneType DEF Supplied, Took, Pools
    <3>2. QED
      BY <2>2, <3>1
  <2>4. Effect(back, copy)
    BY <1>5, <2>2, MallocEffect
  <2>5. copy.ok = TRUE
    <3>1. addr6.blk.buf \in SelectClass(size) /\ SelectClass(size) \subseteq Classes
      BY <2>1 DEF Supplied, SelectClass
    <3>2. addr.mem.buf[addr6.blk.buf] = addr6.mem.buf[addr6.blk.buf] + 1
      <4>1. addr6.mem.buf[addr6.blk.buf] = addr.mem.buf[addr6.blk.buf] - 1
        BY <2>1, <3>1 DEF Supplied, Took, One
      <4>2. addr.mem.buf[addr6.blk.buf] \in Nat
        BY <1>8, <3>1 DEF Pools
      <4>3. QED
        BY <4>1, <4>2
    <3>3. addr6.mem.buf[addr6.blk.buf] \in Nat
      BY <1>10, <3>1 DEF Pools
    <3>4. back.buf[addr6.blk.buf] > 0
      BY <2>3, <3>1, <3>2, <3>3
    <3>5. ~Refused(back, size, copy)
      BY Zenon, <3>1, <3>4 DEF Refused
    <3>6. QED
      BY Zenon, <2>4, <3>5 DEF Supplied
  <2>6. /\ Supplied(back, size, copy) /\ copy.blk \in Buffer
        /\ copy.mem \in Pools /\ copy.mem.blk = mem.blk
    BY <2>2, <2>4, <2>5 DEF Refused, Failed, Supplied, Took
  <2>7. new.ok = TRUE /\ new.blk = copy.blk /\ new.mem = UTLT_Free(copy.mem, addr.blk)
    <3>1. copy = [ok |-> TRUE, mem |-> copy.mem, blk |-> copy.blk]
      <4>1. PICK h, n : h = BufAlloc(back, ValueSize + Word) /\ n = ValueSize + Word
        OBVIOUS
      <4>2. h = [ok |-> h.ok, mem |-> h.mem, blk |-> h.blk]
        BY ZenonT(60), <4>1 DEF BufAlloc, Failed
      <4>3. PICK o, m, b : h = [ok |-> o, mem |-> m, blk |-> b]
        BY Zenon, <4>2
      <4>4. copy = IF h.ok THEN [h EXCEPT !.blk.size = n] ELSE h
        BY Zenon, <1>5, <4>1 DEF UTLT_Malloc
      <4>5. [h EXCEPT !.blk.size = n] = [ok |-> o, mem |-> m, blk |-> [b EXCEPT !.size = n]]
        BY <4>3
      <4>6. PICK o1, m1, b1 : copy = [ok |-> o1, mem |-> m1, blk |-> b1]
        BY Zenon, <4>3, <4>4, <4>5
      <4>7. copy.ok = o1 /\ copy.mem = m1 /\ copy.blk = b1
        BY <4>6
      <4>8. QED
        BY Zenon, <2>5, <4>6, <4>7
    <3>2. new = [copy EXCEPT !.mem = UTLT_Free(copy.mem, addr.blk)]
      BY Zenon, <1>6, <1>13
    <3>3. PICK yes, had, freed, got :
            /\ yes = TRUE /\ had = copy.mem /\ freed = UTLT_Free(copy.mem, addr.blk) /\ got = copy.blk
      OBVIOUS
    <3>4. PICK c : c = [ok |-> yes, mem |-> had, blk |-> got]
      OBVIOUS
    <3>5. new = [c EXCEPT !.mem = freed]
      BY Zenon, <3>1, <3>2, <3>3, <3>4
    <3>6. new.ok = yes /\ new.blk = got /\ new.mem = freed
      BY <3>4, <3>5
    <3>7. new.ok = TRUE
      BY Zenon, <3>3, <3>6
    <3>8. new.blk = copy.blk
      BY Zenon, <3>3, <3>6
    <3>9. new.mem = UTLT_Free(copy.mem, addr.blk)
      BY Zenon, <3>3, <3>6
    <3>10. QED
      BY ZenonT(60), <3>7, <3>8, <3>9
  <2>8. /\ new.mem \in Pools /\ new.mem.blk = mem.blk
        /\ \A c \in Classes : new.mem.buf[c] = copy.mem.buf[c] + One(addr.blk, c)
    <3>1. /\ Gave(copy.mem, BufFree(copy.mem, addr.blk), addr.blk)
          /\ BufFree(copy.mem, addr.blk).blk = copy.mem.blk
      BY <2>1, <2>6, FreeEffect
    <3>2. QED
      BY <2>6, <2>7, <3>1 DEF UTLT_Free, Gave
  <2>9. Took(mem, new.mem, new.blk)
    <3>1. \A c \in Classes :
            /\ copy.mem.buf[c] = back.buf[c] - One(copy.blk, c)
            /\ addr.mem.buf[c] = mem.buf[c] - One(addr.blk, c)
            /\ mem.buf[c] \in Int /\ One(addr.blk, c) \in Int /\ One(copy.blk, c) \in Int
      BY <2>1, <2>6, OneType DEF Supplied, Took, Pools
    <3>2. \A c \in Classes : new.mem.buf[c] = mem.buf[c] - One(copy.blk, c)
      BY <2>3, <2>8, <3>1
    <3>3. QED
      BY <2>7, <2>8, <3>2 DEF Took
  <2>10. QED
    BY <1>1, <2>6, <2>7, <2>8, <2>9
<1>14. QED
  BY <1>8, <1>10, <1>11, <1>12, <1>13

-----------------------------------------------------------------------------
(* The inductive invariant. *)

AtMostOne(S) == {<< >>} \cup {<<b>> : b \in S}

Event == [recv : Block, upf : Peers \cup {"head"}, asker : Peers, overtaken : BOOLEAN]
Node == [addr : Peers, saList : Buffer]

TypedReceiver ==
  receiver \in [pc : {"idle", "recv", "find", "send"}, blk : AtMostOne(Block),
                from : Peers \cup {Null}, version : 1 .. 2,
                upf : Peers \cup {"head", Null}]

TypedMain ==
  main \in [pc : {"idle", "parse", "handle", "build", "commit", "free"},
            event : AtMostOne(Event), msg : AtMostOne(Block), values : AtMostOne(Buffer),
            body : AtMostOne(Block), packet : AtMostOne(Block)]

Typed ==
  /\ mem \in Pools /\ mem.blk >= 0
  /\ remoteAddr \in Peers \cup {Null}
  /\ upfN4List \in AtMostOne(Node)
  /\ queue \in Seq(Event) /\ Len(queue) <= QueueMax
  /\ held \in Seq(Block)
  /\ fault \in {Null, "no value", "no node", "freed body"}

\* What each thread has in hand, by where it is.
ShapedReceiver ==
  /\ receiver.pc = "idle" => receiver.blk = << >>
  /\ receiver.pc = "recv" => receiver.blk = << >> \/ SduLen <= receiver.blk[1].buf
  /\ receiver.pc \in {"find", "send"} => receiver.blk # << >> /\ receiver.from \in Peers
  /\ receiver.blk # << >> => receiver.blk[1].buf \in SelectClass(SduLen)

ShapedMain ==
  /\ main.pc = "idle" <=> main.event = << >>
  /\ main.pc = "idle" => main.msg = << >>
  /\ main.pc \in {"idle", "parse"} => main.values = << >>
  /\ main.pc = "build" <=> main.body # << >>
  /\ main.pc = "commit" <=> main.packet # << >>

\* What a peer's messages are handled with, once there is a node.
NodeOf(peer) == IF peer = upfN4List[1].addr THEN peer ELSE "head"

Known ==
  /\ upfN4List = << >> => queue = << >> /\ main.event = << >> /\ held = << >>
  /\ \A i \in 1 .. Len(queue) : queue[i].upf = NodeOf(queue[i].asker)
  /\ main.event # << >> => main.event[1].upf = NodeOf(main.event[1].asker)
  /\ receiver.pc = "send" => upfN4List # << >> /\ receiver.upf = NodeOf(receiver.from)

\* Who asked and who sent the last datagram.
Addressed ==
  /\ receiver.pc \in {"find", "send"} => receiver.from = remoteAddr
  /\ \A i \in 1 .. Len(queue) : queue[i].asker = remoteAddr \/ queue[i].overtaken
  /\ main.event # << >> => main.event[1].asker = remoteAddr \/ main.event[1].overtaken
  /\ AstrayOnlyIfOvertaken

Inv == /\ Typed /\ TypedReceiver /\ TypedMain
       /\ ShapedReceiver /\ ShapedMain /\ Known /\ Addressed

LEMMA InitInv == Init => Inv
<1> SUFFICES ASSUME Init PROVE Inv
  OBVIOUS
<1>1. Typed
  BY BufblkAssumption, PfcpPathAssumption
     DEF Init, Typed, BufblkPoolInit, Pools, AtMostOne
<1>2. TypedReceiver /\ TypedMain
  BY DEF Init, TypedReceiver, TypedMain, Resting, Waiting, AtMostOne
<1>3. ShapedReceiver /\ ShapedMain
  BY DEF Init, ShapedReceiver, ShapedMain, Resting, Waiting
<1>4. Known /\ Addressed
  BY DEF Init, Known, Addressed, AstrayOnlyIfOvertaken, Resting, Waiting
<1>5. QED
  BY <1>1, <1>2, <1>3, <1>4 DEF Inv

(* A place that is not empty holds one thing of its kind. *)
LEMMA Held ==
  ASSUME NEW S, NEW place \in AtMostOne(S)
  PROVE  /\ place \in Seq(S)
         /\ \/ place = << >> /\ Len(place) = 0
            \/ Len(place) = 1 /\ place[1] \in S /\ place = <<place[1]>> /\ place # << >>
<1>1. CASE place = << >>
  BY <1>1
<1>2. CASE place # << >>
  <2>1. PICK b \in S : place = <<b>>
    BY <1>2 DEF AtMostOne
  <2>2. QED
    BY <2>1
<1>3. QED
  BY <1>1, <1>2

LEMMA ReceiveAllocInv == Inv /\ ReceiveAlloc => Inv'
<1> SUFFICES ASSUME Inv, ReceiveAlloc PROVE Inv'
  OBVIOUS
<1>1. PICK had : had = BufblkAlloc(mem, SduLen)
  OBVIOUS
<1>2. mem \in Pools /\ mem.blk >= 0 /\ SduLen \in Nat
  BY PfcpPathAssumption DEF Inv, Typed
<1>3. had = Failed(mem) \/ (/\ Supplied(mem, SduLen, had) /\ NewBlock(had.blk)
                            /\ had.mem.blk = mem.blk - 1 /\ mem.blk # 0)
  BY <1>1, <1>2, BlockAllocEffect
<1>4. /\ mem' = had.mem
      /\ receiver' = [pc |-> "recv", blk |-> IF had.ok THEN <<had.blk>> ELSE << >>,
                      from |-> Null, version |-> 1, upf |-> Null]
      /\ UNCHANGED <<remoteAddr, upfN4List, queue, main, held, answer, datagrams, fault>>
  BY <1>1 DEF ReceiveAlloc, Resting
<1>5. /\ mem' \in Pools /\ mem'.blk >= 0
      /\ had.ok \in BOOLEAN
      /\ had.ok => /\ had.blk \in Block /\ SduLen <= had.blk.buf
                   /\ had.blk.buf \in SelectClass(SduLen)
  <2>1. CASE had = Failed(mem)
    BY <1>2, <1>4, <2>1, Outcome
  <2>2. CASE Supplied(mem, SduLen, had) /\ NewBlock(had.blk) /\ had.mem.blk = mem.blk - 1 /\ mem.blk # 0
    <3>1. had.ok = TRUE /\ had.mem \in Pools
      BY <2>2, Outcome
    <3>2. mem.blk - 1 >= 0
      BY <1>2, <2>2 DEF Pools
    <3>3. QED
      BY <1>4, <2>2, <3>1, <3>2 DEF Supplied, NewBlock
  <2>3. QED
    BY <1>3, <2>1, <2>2
<1>6. Typed' /\ TypedMain' /\ ShapedMain'
  BY ZenonT(60), <1>4, <1>5 DEF Inv, Typed, TypedMain, ShapedMain
<1>7. TypedReceiver' /\ ShapedReceiver'
  BY <1>4, <1>5 DEF TypedReceiver, ShapedReceiver, AtMostOne
<1>8. Known' /\ Addressed'
  BY <1>4 DEF Inv, Known, Addressed, AstrayOnlyIfOvertaken, NodeOf
<1>9. QED
  BY <1>6, <1>7, <1>8 DEF Inv

(* Overtaking changes who is overtaken, and nothing else. *)
LEMMA OvertakeEffect ==
  ASSUME NEW q \in Seq(Event), NEW p
  PROVE  /\ Overtake(q, p) \in Seq(Event) /\ Len(Overtake(q, p)) = Len(q)
         /\ \A i \in 1 .. Len(q) :
              /\ Overtake(q, p)[i].recv = q[i].recv /\ Overtake(q, p)[i].upf = q[i].upf
              /\ Overtake(q, p)[i].asker = q[i].asker
              /\ Overtake(q, p)[i].overtaken = (q[i].overtaken \/ q[i].asker # p)
<1> DEFINE F(i) == [q[i] EXCEPT !.overtaken = q[i].overtaken \/ q[i].asker # p]
<1>1. DOMAIN q = 1 .. Len(q) /\ Len(q) \in Nat /\ \A i \in 1 .. Len(q) : q[i] \in Event
  BY LenProperties, ElementOfSeq
<1>2. \A i \in 1 .. Len(q) :
        /\ F(i) \in Event /\ F(i).recv = q[i].recv /\ F(i).upf = q[i].upf
        /\ F(i).asker = q[i].asker /\ F(i).overtaken = (q[i].overtaken \/ q[i].asker # p)
  BY <1>1 DEF Event
<1>3. Overtake(q, p) = [i \in 1 .. Len(q) |-> F(i)]
  BY <1>1 DEF Overtake
<1> HIDE DEF F
<1>4. [i \in 1 .. Len(q) |-> F(i)] \in Seq(Event) /\ Len([i \in 1 .. Len(q) |-> F(i)]) = Len(q)
  BY <1>1, <1>2
<1>5. QED
  BY <1>2, <1>3, <1>4

LEMMA OvertakeOne ==
  ASSUME NEW e \in AtMostOne(Event), NEW p
  PROVE  /\ Overtake(e, p) \in AtMostOne(Event)
         /\ e = << >> <=> Overtake(e, p) = << >>
<1>1. CASE e = << >>
  BY <1>1 DEF Overtake, AtMostOne
<1>2. CASE e # << >>
  <2>1. e \in Seq(Event) /\ Len(e) = 1
    BY <1>2, Held
  <2>2. Overtake(e, p) \in Seq(Event) /\ Len(Overtake(e, p)) = 1
    BY <2>1, OvertakeEffect
  <2>3. PICK o \in Seq(Event) : o = Overtake(e, p) /\ Len(o) = 1
    BY <2>2
  <2>4. o[1] \in Event /\ o = <<o[1]>>
    BY <2>3
  <2>5. QED
    BY <1>2, <2>3, <2>4 DEF AtMostOne
<1>3. QED
  BY <1>1, <1>2

LEMMA RecvFromInv == ASSUME NEW p \in Peers, Inv, RecvFrom(p) PROVE Inv'
<1>1. /\ remoteAddr' = p /\ queue' = Overtake(queue, p)
      /\ main' = [main EXCEPT !.event = Overtake(main.event, p)]
      /\ UNCHANGED <<mem, upfN4List, held, answer, fault>> /\ receiver.pc = "recv"
  BY DEF RecvFrom, Overtaken
<1>2. /\ Typed /\ TypedMain /\ ShapedMain /\ TypedReceiver /\ ShapedReceiver
      /\ queue \in Seq(Event) /\ main.event \in AtMostOne(Event) /\ main.event \in Seq(Event)
  BY Held DEF Inv, Typed, TypedMain
<1>3. /\ main'.event = Overtake(main.event, p) /\ main'.pc = main.pc /\ main'.msg = main.msg
      /\ main'.values = main.values /\ main'.body = main.body /\ main'.packet = main.packet
  BY <1>1, <1>2 DEF TypedMain
<1>4. main'.event \in AtMostOne(Event) /\ (main.event = << >> <=> main'.event = << >>)
  BY <1>2, <1>3, OvertakeOne
<1>5. /\ queue' \in Seq(Event) /\ Len(queue') = Len(queue)
      /\ \A i \in 1 .. Len(queue) :
           /\ queue'[i].upf = queue[i].upf /\ queue'[i].asker = queue[i].asker
           /\ queue'[i].overtaken = (queue[i].overtaken \/ queue[i].asker # p)
  BY <1>1, <1>2, OvertakeEffect
<1>6. main.event # << >> =>
           /\ main'.event[1].upf = main.event[1].upf
           /\ main'.event[1].asker = main.event[1].asker
           /\ main'.event[1].overtaken = (main.event[1].overtaken \/ main.event[1].asker # p)
  <2> SUFFICES ASSUME main.event # << >>
               PROVE  /\ main'.event[1].upf = main.event[1].upf
                      /\ main'.event[1].asker = main.event[1].asker
                      /\ main'.event[1].overtaken = (main.event[1].overtaken \/ main.event[1].asker # p)
    OBVIOUS
  <2>1. 1 \in 1 .. Len(main.event)
    BY <1>2, Held
  <2>2. QED
    BY <1>2, <1>3, <2>1, OvertakeEffect
<1>7. /\ TypedReceiver' /\ ShapedReceiver' /\ receiver'.pc \in {"idle", "find"}
      /\ receiver'.pc = "find" => receiver'.from = p
  <2>1. CASE receiver.blk = << >>
    <3>1. receiver' = Resting
      BY <2>1 DEF RecvFrom
    <3>2. QED
      BY <3>1 DEF TypedReceiver, ShapedReceiver, Resting, AtMostOne
  <2>2. CASE receiver.blk # << >>
    <3>1. PICK b \in Block : receiver.blk = <<b>>
      BY <1>2, <2>2 DEF TypedReceiver, AtMostOne
    <3>2. PICK version \in 1 .. 2 :
            receiver' = [receiver EXCEPT !.pc = "find", !.from = p, !.version = version,
                                         !.blk = <<[b EXCEPT !.len = SduLen]>>]
      BY <2>2, <3>1 DEF RecvFrom
    <3>3. SduLen \in Nat /\ SduLen <= b.buf /\ b.buf \in SelectClass(SduLen)
      BY <1>1, <1>2, <3>1, PfcpPathAssumption DEF ShapedReceiver
    <3>4. PICK n \in Block : n = [b EXCEPT !.len = SduLen] /\ n.buf = b.buf
      <4>1. [b EXCEPT !.len = SduLen] \in Block /\ [b EXCEPT !.len = SduLen].buf = b.buf
        BY <3>3 DEF Block
      <4>2. QED
        BY <4>1
    <3>5. /\ receiver'.pc = "find" /\ receiver'.blk = <<n>> /\ receiver'.from = p
          /\ receiver' \in [pc : {"find"}, blk : {<<n>>}, from : {p}, version : 1 .. 2,
                            upf : Peers \cup {"head", Null}]
      BY <1>2, <3>2, <3>4 DEF TypedReceiver
    <3>6. TypedReceiver'
      BY <3>5 DEF TypedReceiver, AtMostOne
    <3>7. ShapedReceiver'
      <4>1. receiver'.blk # << >> /\ receiver'.blk[1].buf = b.buf
        <5>1. receiver'.blk = <<n>> /\ n.buf = b.buf
          BY <3>4, <3>5
        <5>2. QED
          BY <5>1
      <4>2. QED
        BY <3>3, <3>5, <4>1 DEF ShapedReceiver
    <3>8. QED
      BY <3>5, <3>6, <3>7
  <2>3. QED
    BY <2>1, <2>2
<1>8. Typed'
  BY <1>1, <1>2, <1>5 DEF Typed
<1>9. TypedMain' /\ ShapedMain'
  <2>1. TypedMain'
    BY <1>1, <1>2, <1>3, <1>4 DEF TypedMain
  <2>2. QED
    BY <1>2, <1>3, <1>4, <2>1 DEF ShapedMain
<1>10. Known'
  <2>1. upfN4List' = << >> => queue' = << >> /\ main'.event = << >> /\ held' = << >>
    BY <1>1, <1>2, <1>4, <1>5 DEF Inv, Known
  <2>2. QED
    BY <1>1, <1>4, <1>5, <1>6, <1>7, <2>1 DEF Inv, Known, NodeOf
<1>11. Addressed'
  <2>1. receiver'.pc \in {"find", "send"} => receiver'.from = remoteAddr'
    <3>1. PICK x : x = receiver'.pc
      OBVIOUS
    <3>2. (x = "idle" \/ x = "find") /\ (x = "find" => receiver'.from = p)
      BY Zenon, <1>7, <3>1
    <3>3. x \in {"find", "send"} => x = "find"
      BY Zenon, <3>2
    <3>4. QED
      BY Zenon, <1>1, <3>1, <3>2, <3>3
  <2>2. \A i \in 1 .. Len(queue') : queue'[i].asker = remoteAddr' \/ queue'[i].overtaken
    BY <1>1, <1>4, <1>5 DEF Inv, Addressed
  <2>3. /\ main'.event # << >> => (main'.event)[1].asker = remoteAddr' \/ (main'.event)[1].overtaken
        /\ AstrayOnlyIfOvertaken'
    BY <1>1, <1>4, <1>6 DEF Inv, Addressed, AstrayOnlyIfOvertaken
  <2>4. QED
    BY <2>1, <2>2, <2>3 DEF Addressed
<1>12. QED
  BY <1>7, <1>8, <1>9, <1>10, <1>11 DEF Inv

LEMMA RecvNothingInv == Inv /\ RecvNothing => Inv'
<1> SUFFICES ASSUME Inv, RecvNothing PROVE Inv'
  OBVIOUS
<1>1. /\ receiver' = Resting /\ mem' = BufblkFreeIfAny(mem, receiver.blk)
      /\ UNCHANGED <<remoteAddr, upfN4List, queue, main, held, answer, datagrams, fault>>
  BY DEF RecvNothing
<1>2. mem' \in Pools /\ mem'.blk >= 0
  <2>1. mem \in Pools /\ mem.blk >= 0 /\ mem.blk \in Int /\ receiver.blk \in AtMostOne(Block)
    BY DEF Inv, Typed, TypedReceiver, Pools
  <2>2. CASE receiver.blk = << >>
    BY <1>1, <2>1, <2>2 DEF BufblkFreeIfAny
  <2>3. CASE receiver.blk # << >>
    <3>1. receiver.blk[1] \in Buffer
      BY <2>1, <2>3, Held, BlockIsBuffer
    <3>2. mem' = BufblkFree(mem, receiver.blk[1])
      BY <1>1, <2>3 DEF BufblkFreeIfAny
    <3>3. mem' \in Pools /\ mem'.blk = mem.blk + 1
      BY <2>1, <3>1, <3>2, FreeEffect DEF Gave
    <3>4. QED
      BY <2>1, <3>3
  <2>4. QED
    BY <2>2, <2>3
<1>3. Typed' /\ TypedMain' /\ ShapedMain'
  BY <1>1, <1>2 DEF Inv, Typed, TypedMain, ShapedMain
<1>4. TypedReceiver' /\ ShapedReceiver'
  BY <1>1 DEF TypedReceiver, ShapedReceiver, AtMostOne, Resting
<1>5. Known' /\ Addressed'
  BY <1>1 DEF Inv, Known, Addressed, AstrayOnlyIfOvertaken, NodeOf, Resting
<1>6. QED
  BY <1>3, <1>4, <1>5 DEF Inv

LEMMA VersionNotSupportedInv == Inv /\ VersionNotSupported => Inv'
<1> SUFFICES ASSUME Inv, VersionNotSupported PROVE Inv'
  OBVIOUS
<1>1. /\ receiver' = Resting /\ mem' = BufblkFree(mem, receiver.blk[1])
      /\ answer' = [asker |-> receiver.from, to |-> remoteAddr, overtaken |-> FALSE]
      /\ receiver.pc = "find"
      /\ UNCHANGED <<remoteAddr, upfN4List, queue, main, held, datagrams, fault>>
  BY DEF VersionNotSupported
<1>2. receiver.blk[1] \in Buffer /\ receiver.from = remoteAddr
  BY <1>1, Held, BlockIsBuffer DEF Inv, TypedReceiver, ShapedReceiver, Addressed
<1>3. mem' \in Pools /\ mem'.blk >= 0
  <2>1. mem \in Pools /\ mem.blk >= 0 /\ mem.blk \in Int
    BY DEF Inv, Typed, Pools
  <2>2. mem' \in Pools /\ mem'.blk = mem.blk + 1
    BY <1>1, <1>2, <2>1, FreeEffect DEF Gave
  <2>3. QED
    BY <2>1, <2>2
<1>4. Typed' /\ TypedMain' /\ ShapedMain'
  BY <1>1, <1>3 DEF Inv, Typed, TypedMain, ShapedMain
<1>5. TypedReceiver' /\ ShapedReceiver'
  BY <1>1 DEF TypedReceiver, ShapedReceiver, AtMostOne, Resting
<1>6. Known' /\ Addressed'
  BY <1>1, <1>2 DEF Inv, Known, Addressed, AstrayOnlyIfOvertaken, NodeOf, Resting
<1>7. QED
  BY <1>4, <1>5, <1>6 DEF Inv

LEMMA FindNodeInv == Inv /\ FindNode => Inv'
<1> SUFFICES ASSUME Inv, FindNode PROVE Inv'
  OBVIOUS
<1>1. /\ receiver.pc = "find" /\ receiver.version = 1
      /\ UNCHANGED <<remoteAddr, queue, main, held, answer, datagrams, fault>>
  BY DEF FindNode
<1>2. PICK found : found = PfcpFindNodeSockAddr(receiver.from)
  OBVIOUS
<1>3. PICK new : new = PfcpAddNodeWithSeid
  OBVIOUS
<1>4. /\ mem \in Pools /\ mem.blk >= 0 /\ mem.blk \in Int
      /\ receiver.blk # << >> /\ receiver.from \in Peers /\ receiver.from = remoteAddr
      /\ upfN4List \in AtMostOne(Node) /\ TypedReceiver /\ ShapedReceiver /\ Known /\ Addressed
  BY <1>1 DEF Inv, Typed, ShapedReceiver, Addressed, Pools
<1>5. /\ new.mem \in Pools /\ new.mem.blk = mem.blk
      /\ \/ new.ok = TRUE /\ new.blk \in Buffer
         \/ new.ok = FALSE
  BY <1>3, <1>4, AddNodeEffect
<1>6. /\ upfN4List = << >> => found = Null
      /\ upfN4List # << >> => found = NodeOf(receiver.from) /\ found # Null
  <2>1. CASE upfN4List = << >>
    BY <1>2, <2>1 DEF PfcpFindNodeSockAddr
  <2>2. CASE upfN4List # << >>
    <3>1. DOMAIN upfN4List = {1}
      BY <1>4, <2>2 DEF AtMostOne
    <3>2. found = NodeOf(receiver.from)
      BY <1>2, <2>2, <3>1 DEF PfcpFindNodeSockAddr, NodeOf
    <3>3. QED
      BY <1>4, <2>2, <3>2, PfcpPathAssumption DEF NodeOf
  <2>3. QED
    BY <2>1, <2>2
<1>7. CASE found # Null
  <2>1. /\ receiver' = [receiver EXCEPT !.pc = "send", !.upf = found]
        /\ UNCHANGED <<mem, upfN4List>>
    BY <1>2, <1>7 DEF FindNode
  <2>2. upfN4List # << >> /\ found = NodeOf(receiver.from) /\ found \in Peers \cup {"head"}
    BY <1>4, <1>6, <1>7 DEF NodeOf
  <2>3. /\ receiver'.pc = "send" /\ receiver'.upf = found /\ receiver'.blk = receiver.blk
        /\ receiver'.from = receiver.from
    BY <1>4, <2>1 DEF TypedReceiver
  <2>4. TypedReceiver' /\ ShapedReceiver'
    <3>1. TypedReceiver'
      BY <1>4, <2>1, <2>2 DEF TypedReceiver
    <3>2. QED
      BY <1>4, <2>3, <3>1 DEF ShapedReceiver
  <2>5. Typed' /\ TypedMain' /\ ShapedMain'
    BY <1>1, <2>1 DEF Inv, Typed, TypedMain, ShapedMain
  <2>6. Known' /\ Addressed'
    BY <1>1, <1>4, <2>1, <2>2, <2>3 DEF Known, Addressed, AstrayOnlyIfOvertaken, NodeOf
  <2>7. QED
    BY <2>4, <2>5, <2>6 DEF Inv
<1>8. CASE found = Null /\ new.ok
  <2>1. /\ mem' = new.mem
        /\ upfN4List' = <<[addr |-> receiver.from, saList |-> new.blk]>>
        /\ receiver' = [receiver EXCEPT !.pc = "send", !.upf = receiver.from]
    BY <1>2, <1>3, <1>8 DEF FindNode
  <2>2. upfN4List = << >> /\ queue = << >> /\ main.event = << >>
    BY <1>4, <1>6, <1>8 DEF Known
  <2>3. PICK node \in Node : upfN4List' = <<node>> /\ node.addr = receiver.from
    BY <1>4, <1>5, <1>8, <2>1 DEF Node
  <2>4. /\ receiver'.pc = "send" /\ receiver'.upf = receiver.from /\ receiver'.blk = receiver.blk
        /\ receiver'.from = receiver.from
    BY <1>4, <2>1 DEF TypedReceiver
  <2>5. TypedReceiver' /\ ShapedReceiver'
    <3>1. TypedReceiver'
      BY <1>4, <2>1 DEF TypedReceiver
    <3>2. QED
      BY <1>4, <2>4, <3>1 DEF ShapedReceiver
  <2>6. Typed' /\ TypedMain' /\ ShapedMain'
    <3>1. upfN4List' \in AtMostOne(Node)
      BY <2>3 DEF AtMostOne
    <3>2. QED
      BY <1>1, <1>4, <1>5, <2>1, <3>1 DEF Inv, Typed, TypedMain, ShapedMain
  <2>7. Known'
    BY <1>1, <2>2, <2>3, <2>4 DEF Known, NodeOf
  <2>8. Addressed'
    BY <1>1, <1>4, <2>2, <2>4 DEF Addressed, AstrayOnlyIfOvertaken
  <2>9. QED
    BY <2>5, <2>6, <2>7, <2>8 DEF Inv
<1>9. CASE found = Null /\ ~new.ok
  <2>1. /\ mem' = BufblkFree(new.mem, receiver.blk[1]) /\ receiver' = Resting
        /\ UNCHANGED upfN4List
    BY <1>2, <1>3, <1>9 DEF FindNode
  <2>2. receiver.blk[1] \in Buffer
    BY <1>4, Held, BlockIsBuffer DEF TypedReceiver
  <2>3. mem' \in Pools /\ mem'.blk = mem.blk + 1
    BY <1>5, <2>1, <2>2, FreeEffect DEF Gave
  <2>4. mem'.blk >= 0
    BY <1>4, <2>3
  <2>5. Typed' /\ TypedMain' /\ ShapedMain'
    BY <1>1, <2>1, <2>3, <2>4 DEF Inv, Typed, TypedMain, ShapedMain
  <2>6. TypedReceiver' /\ ShapedReceiver'
    BY <2>1 DEF TypedReceiver, ShapedReceiver, AtMostOne, Resting
  <2>7. Known' /\ Addressed'
    BY <1>1, <1>4, <2>1 DEF Known, Addressed, AstrayOnlyIfOvertaken, NodeOf, Resting
  <2>8. QED
    BY <2>5, <2>6, <2>7 DEF Inv
<1>10. QED
  BY <1>5, <1>7, <1>8, <1>9

LEMMA EventSendInv == Inv /\ EventSend => Inv'
<1> SUFFICES ASSUME Inv, EventSend PROVE Inv'
  OBVIOUS
<1>1. /\ receiver.pc = "send" /\ receiver' = Resting
      /\ UNCHANGED <<remoteAddr, upfN4List, main, held, answer, datagrams, fault>>
  BY DEF EventSend
<1>2. /\ mem \in Pools /\ mem.blk >= 0 /\ mem.blk \in Int
      /\ receiver.blk # << >> /\ receiver.from \in Peers /\ receiver.from = remoteAddr
      /\ receiver.upf = NodeOf(receiver.from) /\ upfN4List # << >>
      /\ receiver.blk \in AtMostOne(Block)
      /\ queue \in Seq(Event) /\ Len(queue) \in Nat /\ Len(queue) <= QueueMax
      /\ Known /\ Addressed
  BY <1>1, LenProperties DEF Inv, Typed, TypedReceiver, ShapedReceiver, Addressed, Known, Pools
<1>3. receiver.blk[1] \in Block /\ receiver.blk[1] \in Buffer
  BY <1>2, Held, BlockIsBuffer
<1>4. TypedReceiver' /\ ShapedReceiver' /\ receiver'.pc = "idle"
  BY <1>1 DEF TypedReceiver, ShapedReceiver, AtMostOne, Resting
<1>5. TypedMain' /\ ShapedMain'
  BY <1>1 DEF Inv, TypedMain, ShapedMain
<1>6. CASE Len(queue) < QueueMax
  <2>1. PICK e \in Event :
          /\ e = [recv |-> receiver.blk[1], upf |-> receiver.upf,
                  asker |-> receiver.from, overtaken |-> FALSE]
          /\ e.upf = NodeOf(e.asker) /\ e.asker = remoteAddr
    <3>1. receiver.upf \in Peers \cup {"head"}
      BY <1>2 DEF NodeOf
    <3>2. PICK e : e = [recv |-> receiver.blk[1], upf |-> receiver.upf,
                        asker |-> receiver.from, overtaken |-> FALSE]
      OBVIOUS
    <3>3. e \in Event
      BY <1>2, <1>3, <3>1, <3>2 DEF Event
    <3>4. e.upf = receiver.upf /\ e.asker = receiver.from
      BY <3>2
    <3>5. QED
      BY <1>2, <3>2, <3>3, <3>4
  <2>2. queue' = Append(queue, e) /\ mem' = mem
    BY <1>6, <2>1 DEF EventSend
  <2>3. /\ queue' \in Seq(Event) /\ Len(queue') = Len(queue) + 1
        /\ \A i \in 1 .. Len(queue) : queue'[i] = queue[i]
        /\ queue'[Len(queue) + 1] = e
    BY <1>2, <2>1, <2>2, AppendProperties
  <2>4. Len(queue') <= QueueMax
    BY <1>2, <1>6, <2>3, PfcpPathAssumption
  <2>5. Typed'
    BY <1>1, <2>2, <2>3, <2>4 DEF Inv, Typed
  <2>6. \A i \in 1 .. Len(queue') : i \in 1 .. Len(queue) \/ i = Len(queue) + 1
    BY <1>2, <2>3
  <2>7. Known'
    BY <1>1, <1>2, <1>4, <2>1, <2>3, <2>6 DEF Known, NodeOf
  <2>8. Addressed'
    BY <1>1, <1>2, <1>4, <2>1, <2>3, <2>6 DEF Addressed, AstrayOnlyIfOvertaken
  <2>9. QED
    BY <1>4, <1>5, <2>5, <2>7, <2>8 DEF Inv
<1>7. CASE ~(Len(queue) < QueueMax)
  <2>1. mem' = BufblkFree(mem, receiver.blk[1]) /\ queue' = queue
    BY <1>7 DEF EventSend
  <2>2. mem' \in Pools /\ mem'.blk = mem.blk + 1
    BY <1>2, <1>3, <2>1, FreeEffect DEF Gave
  <2>3. mem'.blk >= 0
    BY <1>2, <2>2
  <2>4. Typed'
    BY <1>1, <2>1, <2>2, <2>3 DEF Inv, Typed
  <2>5. Known' /\ Addressed'
    BY <1>1, <1>2, <1>4, <2>1 DEF Known, Addressed, AstrayOnlyIfOvertaken, NodeOf
  <2>6. QED
    BY <1>4, <1>5, <2>4, <2>5 DEF Inv
<1>8. QED
  BY <1>6, <1>7

(* A step of the main thread that keeps the message it is at. *)
SameEvent ==
  /\ MainOnly /\ UNCHANGED <<queue, held, answer>> /\ main'.event = main.event
  /\ mem' \in Pools /\ mem'.blk >= 0
  /\ fault' \in {Null, "no value", "no node", "freed body"}

LEMMA SameEventInv == Inv /\ SameEvent /\ TypedMain' /\ ShapedMain' => Inv'
<1> SUFFICES ASSUME Inv, SameEvent, TypedMain', ShapedMain' PROVE Inv'
  OBVIOUS
<1>1. Typed'
  BY DEF Inv, SameEvent, MainOnly, Typed
<1>2. TypedReceiver' /\ ShapedReceiver'
  BY DEF Inv, SameEvent, MainOnly, TypedReceiver, ShapedReceiver
<1>3. Known' /\ Addressed'
  BY DEF Inv, SameEvent, MainOnly, Known, Addressed, AstrayOnlyIfOvertaken, NodeOf
<1>4. QED
  BY <1>1, <1>2, <1>3 DEF Inv

LEMMA DispatchInv == Inv /\ Dispatch => Inv'
<1> SUFFICES ASSUME Inv, Dispatch PROVE Inv'
  OBVIOUS
<1>1. PICK had : had = BufblkAlloc(mem, MessageSize)
  OBVIOUS
<1>2. /\ mem \in Pools /\ mem.blk >= 0 /\ mem.blk \in Int /\ MessageSize \in Nat
      /\ queue \in Seq(Event) /\ queue # << >> /\ Len(queue) <= QueueMax /\ Known /\ Addressed
  BY PfcpPathAssumption DEF Inv, Typed, Pools, Dispatch
<1>3. /\ mem' = had.mem /\ queue' = Tail(queue)
      /\ main' = [pc |-> IF had.ok THEN "parse" ELSE "free", event |-> <<Head(queue)>>,
                  msg |-> IF had.ok THEN <<had.blk>> ELSE << >>, values |-> << >>,
                  body |-> << >>, packet |-> << >>]
      /\ UNCHANGED <<held, answer, fault, remoteAddr, upfN4List, receiver, datagrams>>
  BY <1>1 DEF Dispatch, Waiting, MainOnly
<1>4. mem' \in Pools /\ mem'.blk >= 0 /\ had.ok \in BOOLEAN /\ (had.ok => had.blk \in Block)
  <2>1. CASE had = Failed(mem)
    BY <1>2, <1>3, <2>1, Outcome
  <2>2. CASE Supplied(mem, MessageSize, had) /\ NewBlock(had.blk) /\ had.mem.blk = mem.blk - 1 /\ mem.blk # 0
    <3>1. had.ok = TRUE /\ had.mem \in Pools
      BY <2>2, Outcome
    <3>2. mem.blk - 1 >= 0
      BY <1>2, <2>2
    <3>3. QED
      BY <1>3, <2>2, <3>1, <3>2 DEF NewBlock
  <2>3. QED
    BY <1>1, <1>2, <2>1, <2>2, BlockAllocEffect
<1>5. /\ Head(queue) = queue[1] /\ queue[1] \in Event
      /\ Len(queue) \in Nat /\ 1 \in 1 .. Len(queue)
      /\ queue' \in Seq(Event) /\ Len(queue') = Len(queue) - 1
      /\ \A i \in 1 .. Len(queue') : i + 1 \in 1 .. Len(queue) /\ queue'[i] = queue[i + 1]
  BY <1>2, <1>3, HeadTailProperties, ElementOfSeq, LenProperties
<1>6. main'.event = <<queue[1]>>
  BY <1>3, <1>5
<1>7. Typed'
  <2>1. Len(queue') <= QueueMax
    BY <1>2, <1>5, PfcpPathAssumption
  <2>2. QED
    BY <1>3, <1>4, <1>5, <2>1 DEF Inv, Typed
<1>8. TypedMain' /\ ShapedMain'
  <2>1. <<queue[1]>> \in AtMostOne(Event)
    BY <1>5 DEF AtMostOne
  <2>2. (IF had.ok THEN <<had.blk>> ELSE << >>) \in AtMostOne(Block)
    BY <1>4 DEF AtMostOne
  <2>3. << >> \in AtMostOne(Block) /\ << >> \in AtMostOne(Buffer)
    BY DEF AtMostOne
  <2>4. TypedMain'
    BY <1>3, <1>5, <2>1, <2>2, <2>3 DEF TypedMain
  <2>5. ShapedMain'
    BY <1>3 DEF ShapedMain
  <2>6. QED
    BY <2>4, <2>5
<1>9. TypedReceiver' /\ ShapedReceiver'
  BY <1>3 DEF Inv, TypedReceiver, ShapedReceiver
<1>10. Known'
  <2>1. upfN4List # << >>
    BY <1>2 DEF Known
  <2>2. QED
    BY <1>2, <1>3, <1>5, <1>6, <2>1 DEF Known, NodeOf
<1>11. Addressed'
  BY <1>2, <1>3, <1>5, <1>6 DEF Addressed, AstrayOnlyIfOvertaken
<1>12. QED
  BY <1>7, <1>8, <1>9, <1>10, <1>11 DEF Inv

LEMMA ParseMessageInv == Inv /\ ParseMessage => Inv'
<1> SUFFICES ASSUME Inv, ParseMessage PROVE Inv'
  OBVIOUS
<1>1. /\ TypedMain /\ ShapedMain /\ mem \in Pools /\ mem.blk >= 0
      /\ main.pc = "parse" /\ fault = Null
  BY DEF Inv, Typed, ParseMessage, Alive
<1>2. MainOnly /\ UNCHANGED <<queue, held, answer>>
  BY DEF ParseMessage
<1>3. CASE main' = [main EXCEPT !.pc = "handle"] /\ UNCHANGED <<mem, fault>>
  <2>1. SameEvent
    BY <1>1, <1>2, <1>3 DEF SameEvent, TypedMain
  <2>2. TypedMain' /\ ShapedMain'
    BY <1>1, <1>3 DEF TypedMain, ShapedMain
  <2>3. QED
    BY <2>1, <2>2, SameEventInv
<1>4. PICK value : value = UTLT_Malloc(mem, ValueSize)
  OBVIOUS
<1>5. CASE /\ value.ok /\ mem' = value.mem /\ fault' = fault
           /\ main' = [main EXCEPT !.pc = "handle", !.values = <<value.blk>>]
  <2>1. ~Refused(mem, ValueSize + Word, value)
    BY <1>5, Outcome
  <2>2. /\ value.mem \in Pools /\ value.mem.blk = mem.blk /\ value.blk \in Buffer
    BY <1>1, <1>4, <2>1, MallocEffect, Outcome
  <2>3. SameEvent
    BY <1>1, <1>2, <1>5, <2>2 DEF SameEvent, TypedMain
  <2>4. <<value.blk>> \in AtMostOne(Buffer)
    BY <2>2 DEF AtMostOne
  <2>5. TypedMain' /\ ShapedMain'
    BY <1>1, <1>5, <2>4 DEF TypedMain, ShapedMain
  <2>6. QED
    BY <2>3, <2>5, SameEventInv
<1>6. CASE fault' = "no value" /\ UNCHANGED <<mem, main>>
  <2>1. SameEvent /\ TypedMain' /\ ShapedMain'
    BY <1>1, <1>2, <1>6 DEF SameEvent, TypedMain, ShapedMain
  <2>2. QED
    BY <2>1, SameEventInv
<1>7. QED
  BY <1>3, <1>4, <1>5, <1>6 DEF ParseMessage

LEMMA NotAnsweredInv == Inv /\ NotAnswered => Inv'
<1> SUFFICES ASSUME Inv, NotAnswered PROVE Inv'
  OBVIOUS
<1>1. SameEvent
  BY DEF Inv, Typed, TypedMain, NotAnswered, SameEvent
<1>2. TypedMain' /\ ShapedMain'
  BY DEF Inv, TypedMain, ShapedMain, NotAnswered
<1>3. QED
  BY <1>1, <1>2, SameEventInv

LEMMA HandleWithoutNodeInv == Inv /\ HandleWithoutNode => Inv'
<1> SUFFICES ASSUME Inv, HandleWithoutNode PROVE Inv'
  OBVIOUS
<1>1. SameEvent /\ TypedMain' /\ ShapedMain'
  BY DEF Inv, Typed, TypedMain, ShapedMain, HandleWithoutNode, SameEvent
<1>2. QED
  BY <1>1, SameEventInv

LEMMA BuildBodyInv == Inv /\ BuildBody => Inv'
<1> SUFFICES ASSUME Inv, BuildBody PROVE Inv'
  OBVIOUS
<1>1. PICK had : had = BufblkAlloc(mem, 0)
  OBVIOUS
<1>2. /\ TypedMain /\ ShapedMain /\ mem \in Pools /\ mem.blk >= 0 /\ mem.blk \in Int
      /\ main.pc = "handle" /\ fault' \in {Null, "no value", "no node", "freed body"}
  BY DEF Inv, Typed, BuildBody, Pools
<1>3. /\ MainOnly /\ UNCHANGED <<queue, held, answer>> /\ mem' = had.mem
      /\ main' = IF had.ok THEN [main EXCEPT !.pc = "build", !.body = <<had.blk>>]
                 ELSE [main EXCEPT !.pc = "free"]
  BY <1>1 DEF BuildBody
<1>4. CASE had = Failed(mem)
  <2>1. mem' = mem /\ main' = [main EXCEPT !.pc = "free"]
    BY <1>3, <1>4, Outcome
  <2>2. SameEvent
    BY <1>2, <1>3, <2>1 DEF SameEvent, TypedMain
  <2>3. TypedMain' /\ ShapedMain'
    BY <1>2, <2>1 DEF TypedMain, ShapedMain
  <2>4. QED
    BY <2>2, <2>3, SameEventInv
<1>5. CASE Supplied(mem, 0, had) /\ NewBlock(had.blk) /\ had.mem.blk = mem.blk - 1 /\ mem.blk # 0
  <2>1. had.ok = TRUE /\ had.mem \in Pools /\ had.mem.blk >= 0
    <3>1. mem.blk - 1 >= 0
      <4>1. mem.blk \in Int /\ mem.blk >= 0 /\ mem.blk # 0
        BY <1>2, <1>5
      <4>2. QED
        BY <4>1
    <3>2. QED
      BY <1>5, <3>1, Outcome
  <2>2. main' = [main EXCEPT !.pc = "build", !.body = <<had.blk>>]
    BY <1>3, <2>1
  <2>3. SameEvent
    BY <1>2, <1>3, <2>1, <2>2 DEF SameEvent, TypedMain
  <2>4. <<had.blk>> \in AtMostOne(Block) /\ <<had.blk>> # << >>
    BY <1>5 DEF AtMostOne, NewBlock
  <2>5. TypedMain' /\ ShapedMain'
    BY <1>2, <2>2, <2>4 DEF TypedMain, ShapedMain
  <2>6. QED
    BY <2>3, <2>5, SameEventInv
<1>6. QED
  BY <1>1, <1>2, <1>4, <1>5, BlockAllocEffect

\* A block for an IE, and the body that has grown by it.
IeAppended(ie, grown) ==
  /\ Supplied(mem, 1, ie) /\ NewBlock(ie.blk) /\ ie.mem.blk = mem.blk - 1
  /\ Grown(ie.mem, main.body[1], 1, grown)
  /\ Gave(grown.mem, mem', ie.blk) /\ mem'.blk = grown.mem.blk + 1
  /\ main' = [main EXCEPT !.body = <<grown.blk>>] /\ UNCHANGED fault

LEMMA AppendIeEffect ==
  ASSUME Inv, AppendIe
  PROVE  \/ \E ie, grown : IeAppended(ie, grown)
         \/ fault' = "freed body" /\ UNCHANGED <<mem, main>>
<1>1. PICK ie : ie = BufblkAlloc(mem, 1)
  OBVIOUS
<1>2. PICK grown : grown = BufblkBytes(ie.mem, main.body[1], 1)
  OBVIOUS
<1>3. mem \in Pools /\ main.body[1] \in Block
  <2>1. main.body # << >> /\ main.body \in AtMostOne(Block)
    BY DEF Inv, ShapedMain, TypedMain, AppendIe
  <2>2. QED
    BY <2>1, Held DEF Inv, Typed
<1>4. /\ ie.ok
      /\ \/ /\ grown.ok /\ mem' = BufblkFree(grown.mem, ie.blk)
            /\ main' = [main EXCEPT !.body = <<grown.blk>>] /\ UNCHANGED fault
         \/ fault' = "freed body" /\ UNCHANGED <<mem, main>>
  BY <1>1, <1>2 DEF AppendIe
<1>5. Supplied(mem, 1, ie) /\ NewBlock(ie.blk) /\ ie.mem.blk = mem.blk - 1
  <2>1. ie # Failed(mem)
    BY <1>4, Outcome
  <2>2. QED
    BY <1>1, <1>3, <2>1, BlockAllocEffect
<1>6. ie.mem \in Pools
  BY <1>5, Outcome
<1>7. CASE grown.ok /\ mem' = BufblkFree(grown.mem, ie.blk)
           /\ main' = [main EXCEPT !.body = <<grown.blk>>] /\ UNCHANGED fault
  <2>1. Grown(ie.mem, main.body[1], 1, grown)
    <3>1. NotGrown(ie.mem, main.body[1], grown) \/ Grown(ie.mem, main.body[1], 1, grown)
      BY <1>2, <1>3, <1>6, BytesEffect
    <3>2. QED
      BY <1>7, <3>1 DEF NotGrown
  <2>2. Gave(grown.mem, mem', ie.blk) /\ mem'.blk = grown.mem.blk + 1
    <3>1. ie.blk \in Buffer
      BY <1>5, BlockIsBuffer DEF NewBlock
    <3>2. grown.mem \in Pools
      BY <2>1 DEF Grown
    <3>3. QED
      BY <1>7, <3>1, <3>2, FreeEffect
  <2>3. IeAppended(ie, grown)
    BY <1>5, <1>7, <2>1, <2>2 DEF IeAppended
  <2>4. QED
    BY <2>3
<1>8. QED
  BY <1>4, <1>7

LEMMA AppendIeInv == Inv /\ AppendIe => Inv'
<1> SUFFICES ASSUME Inv, AppendIe PROVE Inv'
  OBVIOUS
<1>1. /\ TypedMain /\ ShapedMain /\ mem \in Pools /\ mem.blk >= 0 /\ mem.blk \in Int
      /\ main.pc = "build" /\ fault \in {Null, "no value", "no node", "freed body"}
      /\ MainOnly /\ UNCHANGED <<queue, held, answer>>
  BY DEF Inv, Typed, AppendIe, Pools
<1>2. ASSUME NEW ie, NEW grown, IeAppended(ie, grown) PROVE Inv'
  <2>1. mem' \in Pools /\ mem'.blk = mem.blk
    <3>1. mem' \in Pools /\ mem'.blk = (mem.blk - 1) + 1
      BY <1>2 DEF IeAppended, Gave, Grown
    <3>2. mem.blk \in Int
      BY <1>1
    <3>3. QED
      BY <3>1, <3>2
  <2>2. main' = [main EXCEPT !.body = <<grown.blk>>] /\ fault' = fault
    BY <1>2 DEF IeAppended
  <2>3. SameEvent
    BY <1>1, <2>1, <2>2 DEF SameEvent, TypedMain
  <2>4. <<grown.blk>> \in AtMostOne(Block) /\ <<grown.blk>> # << >>
    BY <1>2 DEF AtMostOne, IeAppended, Grown
  <2>5. TypedMain' /\ ShapedMain'
    BY <1>1, <2>2, <2>4 DEF TypedMain, ShapedMain
  <2>6. QED
    BY <2>3, <2>5, SameEventInv
<1>3. CASE fault' = "freed body" /\ UNCHANGED <<mem, main>>
  <2>1. SameEvent /\ TypedMain' /\ ShapedMain'
    BY <1>1, <1>3 DEF SameEvent, TypedMain, ShapedMain
  <2>2. QED
    BY <2>1, SameEventInv
<1>4. QED
  BY <1>2, <1>3, AppendIeEffect

\* The packet is full and the body is freed, or only the body is freed.
Packed(blk) ==
  /\ blk \in Block /\ mem' \in Pools /\ mem'.blk = mem.blk
  /\ \A c \in Classes : mem'.buf[c] = mem.buf[c] + One(main.body[1], c) - One(blk, c)
  /\ main' = [main EXCEPT !.pc = "commit", !.body = << >>, !.packet = <<blk>>]

NotPacked ==
  /\ Gave(mem, mem', main.body[1]) /\ mem'.blk = mem.blk + 1
  /\ main' = [main EXCEPT !.pc = "free", !.body = << >>]

LEMMA UpdateTxEffect ==
  ASSUME Inv, PfcpXactUpdateTx
  PROVE  NotPacked \/ \E blk : Packed(blk)
<1>1. PICK had : had = BufblkAlloc(mem, HeaderLen)
  OBVIOUS
<1>2. PICK start : start = [had.blk EXCEPT !.len = HeaderLen]
  OBVIOUS
<1>3. PICK full : full = BufblkBytes(had.mem, start, main.body[1].len)
  OBVIOUS
<1>4. /\ mem \in Pools /\ mem.blk \in Int /\ main.body[1] \in Block /\ HeaderLen \in Nat
      /\ main.body[1] \in Buffer /\ main.body[1].len \in Nat
  <2>1. main.body # << >> /\ main.body \in AtMostOne(Block)
    BY DEF Inv, ShapedMain, TypedMain, PfcpXactUpdateTx
  <2>2. main.body[1] \in Block
    BY <2>1, Held
  <2>3. QED
    BY <2>2, BlockIsBuffer, PfcpPathAssumption DEF Inv, Typed, Pools, Block
<1>5. IF had.ok /\ full.ok
      THEN /\ mem' = BufblkFree(full.mem, main.body[1])
           /\ main' = [main EXCEPT !.pc = "commit", !.body = << >>, !.packet = <<full.blk>>]
      ELSE /\ mem' = BufblkFree(IF had.ok THEN BufblkFree(full.mem, full.blk) ELSE mem,
                                main.body[1])
           /\ main' = [main EXCEPT !.pc = "free", !.body = << >>]
  BY <1>1, <1>2, <1>3 DEF PfcpXactUpdateTx
<1>6. CASE ~had.ok
  <2>1. mem' = BufblkFree(mem, main.body[1]) /\ main' = [main EXCEPT !.pc = "free", !.body = << >>]
    BY <1>5, <1>6
  <2>2. QED
    BY <1>4, <2>1, FreeEffect DEF NotPacked
<1>7. CASE had.ok
  <2>1. /\ Supplied(mem, HeaderLen, had) /\ NewBlock(had.blk) /\ had.mem.blk = mem.blk - 1
    <3>1. had # Failed(mem)
      BY <1>7, Outcome
    <3>2. QED
      BY <1>1, <1>4, <3>1, BlockAllocEffect
  <2>2. had.mem \in Pools /\ had.mem.blk = mem.blk - 1
    BY <2>1, Outcome
  <2>3. start \in Block /\ start.buf = had.blk.buf /\ start \in Buffer
    <3>1. start \in Block /\ start.buf = had.blk.buf
      BY <1>2, <1>4, <2>1 DEF Supplied, NewBlock, Block
    <3>2. QED
      BY <3>1, BlockIsBuffer
  <2>4. \A c \in Classes : had.mem.buf[c] = mem.buf[c] - One(start, c)
    BY <2>1, <2>3 DEF Supplied, Took, One
  <2>5. \A c \in Classes : /\ mem.buf[c] \in Int /\ One(start, c) \in Int
                           /\ One(main.body[1], c) \in Int /\ One(full.blk, c) \in Int
    BY <1>4, OneType DEF Pools
  <2>6. \/ NotGrown(had.mem, start, full)
        \/ Grown(had.mem, start, main.body[1].len, full)
    BY <1>3, <1>4, <2>2, <2>3, BytesEffect
  <2>7. CASE full.ok
    <3>1. /\ full.blk \in Block /\ full.mem \in Pools /\ full.mem.blk = mem.blk - 1
          /\ \A c \in Classes : full.mem.buf[c] = mem.buf[c] - One(full.blk, c)
      <4>1. Grown(had.mem, start, main.body[1].len, full)
        BY <2>6, <2>7 DEF NotGrown
      <4>2. QED
        BY <2>2, <2>4, <2>5, <4>1 DEF Grown
    <3>2. /\ mem' = BufblkFree(full.mem, main.body[1])
          /\ main' = [main EXCEPT !.pc = "commit", !.body = << >>, !.packet = <<full.blk>>]
      BY <1>5, <1>7, <2>7
    <3>3. Gave(full.mem, mem', main.body[1]) /\ mem'.blk = full.mem.blk + 1
      BY <1>4, <3>1, <3>2, FreeEffect
    <3>4. mem'.blk = mem.blk
      BY <1>4, <3>1, <3>3
    <3>5. \A c \in Classes : mem'.buf[c] = mem.buf[c] + One(main.body[1], c) - One(full.blk, c)
      BY <2>5, <3>1, <3>3 DEF Gave
    <3>6. Packed(full.blk)
      BY <3>1, <3>2, <3>3, <3>4, <3>5 DEF Packed, Gave
    <3>7. QED
      BY <3>6
  <2>8. CASE ~full.ok
    <3>1. full.mem = had.mem /\ full.blk = start
      BY <2>6, <2>8 DEF NotGrown, Grown
    <3>2. PICK back : back = BufblkFree(had.mem, start)
      OBVIOUS
    <3>3. Gave(had.mem, back, start) /\ back.blk = had.mem.blk + 1
      BY <2>2, <2>3, <3>2, FreeEffect
    <3>4. /\ back \in Pools /\ back.blk = mem.blk
          /\ \A c \in Classes : back.buf[c] = mem.buf[c]
      BY <1>4, <2>2, <2>4, <2>5, <3>3 DEF Gave
    <3>5. /\ mem' = BufblkFree(back, main.body[1])
          /\ main' = [main EXCEPT !.pc = "free", !.body = << >>]
      BY <1>5, <1>7, <2>8, <3>1, <3>2
    <3>6. Gave(back, mem', main.body[1]) /\ mem'.blk = back.blk + 1
      BY <1>4, <3>4, <3>5, FreeEffect
    <3>7. NotPacked
      BY <3>4, <3>5, <3>6 DEF NotPacked, Gave
    <3>8. QED
      BY <3>7
  <2>9. QED
    BY <2>7, <2>8
<1>8. QED
  BY <1>6, <1>7

LEMMA UpdateTxInv == Inv /\ PfcpXactUpdateTx => Inv'
<1> SUFFICES ASSUME Inv, PfcpXactUpdateTx PROVE Inv'
  OBVIOUS
<1>1. /\ TypedMain /\ ShapedMain /\ mem \in Pools /\ mem.blk >= 0 /\ mem.blk \in Int
      /\ main.pc = "build" /\ fault' \in {Null, "no value", "no node", "freed body"}
      /\ MainOnly /\ UNCHANGED <<queue, held, answer>>
  BY DEF Inv, Typed, PfcpXactUpdateTx, Pools
<1>2. CASE NotPacked
  <2>1. mem' \in Pools /\ mem'.blk >= 0 /\ main' = [main EXCEPT !.pc = "free", !.body = << >>]
    <3>1. mem' \in Pools /\ mem'.blk = mem.blk + 1
      BY <1>2 DEF NotPacked, Gave
    <3>2. mem'.blk >= 0
      <4>1. mem.blk \in Int /\ mem.blk >= 0
        BY <1>1
      <4>2. QED
        BY <3>1, <4>1
    <3>3. QED
      BY <1>2, <3>1, <3>2 DEF NotPacked
  <2>2. SameEvent
    BY <1>1, <2>1 DEF SameEvent, TypedMain
  <2>3. TypedMain' /\ ShapedMain'
    BY <1>1, <2>1 DEF TypedMain, ShapedMain, AtMostOne
  <2>4. QED
    BY <2>2, <2>3, SameEventInv
<1>3. ASSUME NEW blk, Packed(blk) PROVE Inv'
  <2>1. /\ mem' \in Pools /\ mem'.blk >= 0
        /\ main' = [main EXCEPT !.pc = "commit", !.body = << >>, !.packet = <<blk>>]
    BY <1>1, <1>3 DEF Packed
  <2>2. SameEvent
    BY <1>1, <2>1 DEF SameEvent, TypedMain
  <2>3. <<blk>> \in AtMostOne(Block) /\ <<blk>> # << >> /\ << >> \in AtMostOne(Block)
    BY <1>3 DEF AtMostOne, Packed
  <2>4. TypedMain' /\ ShapedMain'
    BY <1>1, <2>1, <2>3 DEF TypedMain, ShapedMain
  <2>5. QED
    BY <2>2, <2>4, SameEventInv
<1>4. QED
  BY <1>2, <1>3, UpdateTxEffect

LEMMA PfcpSendInv == Inv /\ PfcpSend => Inv'
<1> SUFFICES ASSUME Inv, PfcpSend PROVE Inv'
  OBVIOUS
<1>1. /\ answer' = [asker |-> main.event[1].asker, to |-> remoteAddr,
                    overtaken |-> main.event[1].overtaken]
      /\ held' = Append(held, main.packet[1])
      /\ main' = [main EXCEPT !.pc = "free", !.packet = << >>]
      /\ UNCHANGED <<mem, queue, fault, remoteAddr, upfN4List, receiver, datagrams>>
      /\ main.pc = "commit"
  BY DEF PfcpSend, MainOnly
<1>2. /\ TypedMain /\ ShapedMain /\ Known /\ Addressed /\ held \in Seq(Block)
      /\ main.packet # << >> /\ main.event # << >> /\ main.packet \in AtMostOne(Block)
  BY <1>1 DEF Inv, Typed, TypedMain, ShapedMain
<1>3. held' \in Seq(Block)
  <2>1. main.packet[1] \in Block
    BY <1>2, Held
  <2>2. QED
    BY <1>1, <1>2, <2>1, AppendProperties
<1>4. Typed'
  BY <1>1, <1>3 DEF Inv, Typed
<1>5. TypedMain' /\ ShapedMain' /\ main'.event = main.event
  BY <1>1, <1>2 DEF TypedMain, ShapedMain, AtMostOne
<1>6. TypedReceiver' /\ ShapedReceiver'
  BY <1>1 DEF Inv, TypedReceiver, ShapedReceiver
<1>7. Known'
  <2>1. upfN4List # << >>
    BY <1>2 DEF Known
  <2>2. QED
    BY <1>1, <1>2, <1>5, <2>1 DEF Known, NodeOf
<1>8. Addressed'
  BY <1>1, <1>2, <1>5 DEF Addressed, AstrayOnlyIfOvertaken
<1>9. QED
  BY <1>4, <1>5, <1>6, <1>7, <1>8 DEF Inv

\* PfcpStructFree, then both blocks.
Freed(noValues, noMessage) ==
  /\ IF main.values = << >> THEN noValues = mem
     ELSE Gave(mem, noValues, main.values[1]) /\ noValues.blk = mem.blk
  /\ IF main.msg = << >> THEN noMessage = noValues
     ELSE Gave(noValues, noMessage, main.msg[1]) /\ noMessage.blk = noValues.blk + 1
  /\ Gave(noMessage, mem', main.event[1].recv) /\ mem'.blk = noMessage.blk + 1
  /\ noValues \in Pools /\ noMessage \in Pools

LEMMA FreeMessageEffect == ASSUME Inv, FreeMessage
                           PROVE  \E noValues, noMessage : Freed(noValues, noMessage)
<1>1. PICK noValues : noValues = IF main.values = << >> THEN mem ELSE UTLT_Free(mem, main.values[1])
  OBVIOUS
<1>2. PICK noMessage : noMessage = BufblkFreeIfAny(noValues, main.msg)
  OBVIOUS
<1>3. mem' = BufblkFree(noMessage, main.event[1].recv)
  BY <1>1, <1>2 DEF FreeMessage
<1>4. /\ mem \in Pools /\ main.values \in AtMostOne(Buffer) /\ main.msg \in AtMostOne(Block)
      /\ main.event \in AtMostOne(Event) /\ main.event # << >>
  BY DEF Inv, Typed, TypedMain, ShapedMain, FreeMessage
<1>5. /\ noValues \in Pools
      /\ IF main.values = << >> THEN noValues = mem
         ELSE Gave(mem, noValues, main.values[1]) /\ noValues.blk = mem.blk
  <2>1. CASE main.values = << >>
    BY <1>1, <1>4, <2>1
  <2>2. CASE main.values # << >>
    <3>1. main.values[1] \in Buffer
      BY <1>4, <2>2, Held
    <3>2. Gave(mem, noValues, main.values[1]) /\ noValues.blk = mem.blk
      BY <1>1, <1>4, <2>2, <3>1, FreeEffect DEF UTLT_Free
    <3>3. QED
      BY <2>2, <3>2 DEF Gave
  <2>3. QED
    BY <2>1, <2>2
<1>6. /\ noMessage \in Pools
      /\ IF main.msg = << >> THEN noMessage = noValues
         ELSE Gave(noValues, noMessage, main.msg[1]) /\ noMessage.blk = noValues.blk + 1
  <2>1. CASE main.msg = << >>
    BY <1>2, <1>5, <2>1 DEF BufblkFreeIfAny
  <2>2. CASE main.msg # << >>
    <3>1. main.msg[1] \in Buffer
      BY <1>4, <2>2, Held, BlockIsBuffer
    <3>2. Gave(noValues, noMessage, main.msg[1]) /\ noMessage.blk = noValues.blk + 1
      BY <1>2, <1>5, <2>2, <3>1, FreeEffect DEF BufblkFreeIfAny
    <3>3. QED
      BY <2>2, <3>2 DEF Gave
  <2>3. QED
    BY <2>1, <2>2
<1>7. Gave(noMessage, mem', main.event[1].recv) /\ mem'.blk = noMessage.blk + 1
  <2>1. main.event[1].recv \in Buffer
    <3>1. main.event[1] \in Event
      BY <1>4, Held
    <3>2. QED
      BY <3>1, BlockIsBuffer DEF Event
  <2>2. QED
    BY <1>3, <1>6, <2>1, FreeEffect
<1>8. Freed(noValues, noMessage)
  BY <1>5, <1>6, <1>7 DEF Freed
<1>9. QED
  BY <1>8

LEMMA FreeMessageInv == Inv /\ FreeMessage => Inv'
<1> SUFFICES ASSUME Inv, FreeMessage PROVE Inv'
  OBVIOUS
<1>1. /\ main' = Waiting
      /\ UNCHANGED <<queue, held, answer, fault, remoteAddr, upfN4List, receiver, datagrams>>
  BY DEF FreeMessage, MainOnly
<1>2. mem' \in Pools /\ mem'.blk >= 0
  <2>1. PICK noValues, noMessage : Freed(noValues, noMessage)
    BY FreeMessageEffect
  <2>2. mem.blk \in Int /\ mem.blk >= 0
    BY DEF Inv, Typed, Pools
  <2>3. noValues.blk = mem.blk
    BY <2>1 DEF Freed
  <2>4. noMessage.blk = noValues.blk \/ noMessage.blk = noValues.blk + 1
    BY <2>1 DEF Freed
  <2>5. mem'.blk = noMessage.blk + 1 /\ mem' \in Pools
    BY <2>1 DEF Freed, Gave
  <2>6. QED
    BY <2>2, <2>3, <2>4, <2>5
<1>3. Typed'
  BY <1>1, <1>2 DEF Inv, Typed
<1>4. TypedMain' /\ ShapedMain' /\ main'.event = << >>
  BY <1>1 DEF TypedMain, ShapedMain, Waiting, AtMostOne
<1>5. TypedReceiver' /\ ShapedReceiver'
  BY <1>1 DEF Inv, TypedReceiver, ShapedReceiver
<1>6. Known' /\ Addressed'
  BY <1>1, <1>4 DEF Inv, Known, Addressed, AstrayOnlyIfOvertaken, NodeOf
<1>7. QED
  BY <1>3, <1>4, <1>5, <1>6 DEF Inv

LEMMA XactEndsInv == Inv /\ XactEnds => Inv'
<1> SUFFICES ASSUME Inv, XactEnds PROVE Inv'
  OBVIOUS
<1>1. /\ mem' = BufblkFree(mem, Head(held)) /\ held' = Tail(held) /\ held # << >>
      /\ UNCHANGED <<queue, main, answer, fault, remoteAddr, upfN4List, receiver, datagrams>>
  BY DEF XactEnds, MainOnly
<1>2. mem \in Pools /\ held \in Seq(Block)
  BY DEF Inv, Typed
<1>3. Head(held) \in Buffer /\ held' \in Seq(Block)
  BY <1>1, <1>2, HeadTailProperties, BlockIsBuffer
<1>4. mem' \in Pools /\ mem'.blk >= 0
  <2>1. mem.blk \in Int /\ mem.blk >= 0
    BY DEF Inv, Typed, Pools
  <2>2. mem' \in Pools /\ mem'.blk = mem.blk + 1
    BY <1>1, <1>2, <1>3, FreeEffect DEF Gave
  <2>3. QED
    BY <2>1, <2>2
<1>5. Typed'
  BY <1>1, <1>3, <1>4 DEF Inv, Typed
<1>6. TypedMain' /\ ShapedMain' /\ TypedReceiver' /\ ShapedReceiver'
  BY <1>1 DEF Inv, TypedMain, ShapedMain, TypedReceiver, ShapedReceiver
<1>7. upfN4List # << >>
  BY <1>1 DEF Inv, Known
<1>8. Known' /\ Addressed'
  BY <1>1, <1>7 DEF Inv, Known, Addressed, AstrayOnlyIfOvertaken, NodeOf
<1>9. QED
  BY <1>5, <1>6, <1>8 DEF Inv

LEMMA UnchangedInv == Inv /\ UNCHANGED vars => Inv'
<1> SUFFICES ASSUME Inv, UNCHANGED vars PROVE Inv'
  OBVIOUS
<1>1. Typed'
  BY DEF Inv, vars, Typed
<1>2. TypedMain' /\ ShapedMain'
  BY DEF Inv, vars, TypedMain, ShapedMain
<1>3. TypedReceiver' /\ ShapedReceiver'
  BY DEF Inv, vars, TypedReceiver, ShapedReceiver
<1>4. Known' /\ Addressed'
  BY DEF Inv, vars, Known, Addressed, AstrayOnlyIfOvertaken, NodeOf
<1>5. QED
  BY <1>1, <1>2, <1>3, <1>4 DEF Inv

LEMMA NextInv == Inv /\ [Next]_vars => Inv'
<1> SUFFICES ASSUME Inv, [Next]_vars PROVE Inv'
  OBVIOUS
<1>1. CASE Receiver
  BY <1>1, ReceiveAllocInv, RecvNothingInv, VersionNotSupportedInv, FindNodeInv, EventSendInv,
     RecvFromInv DEF Receiver
<1>2. CASE Main
  BY <1>2, DispatchInv, ParseMessageInv, NotAnsweredInv, HandleWithoutNodeInv, BuildBodyInv,
     AppendIeInv, UpdateTxInv, PfcpSendInv, FreeMessageInv, XactEndsInv DEF Main
<1>3. CASE UNCHANGED vars
  BY <1>3, UnchangedInv
<1>4. QED
  BY <1>1, <1>2, <1>3 DEF Next

(***************************************************************************)
(* The invariant holds in every run: what each thread has in hand fits the *)
(* place in the code where it is, every block what it holds.               *)
(***************************************************************************)
THEOREM PathSound == Spec => []Inv
<1>1. Inv /\ [Next]_vars => Inv'
  BY NextInv
<1>2. QED
  BY <1>1, InitInv, PTL DEF Spec

-----------------------------------------------------------------------------
(* The blocks that are held. *)

Recvs(q) == [i \in DOMAIN q |-> q[i].recv]
SaLists == [i \in DOMAIN upfN4List |-> upfN4List[i].saList]

LEMMA RecvsSeq ==
  ASSUME NEW q \in Seq(Event)
  PROVE  /\ Recvs(q) \in Seq(Block) /\ Len(Recvs(q)) = Len(q)
         /\ \A i \in 1 .. Len(q) : Recvs(q)[i] = q[i].recv
<1>1. DOMAIN q = 1 .. Len(q) /\ Len(q) \in Nat /\ \A i \in 1 .. Len(q) : q[i] \in Event
  BY LenProperties, ElementOfSeq
<1>2. \A i \in 1 .. Len(q) : q[i].recv \in Block
  BY <1>1 DEF Event
<1>3. QED
  BY <1>1, <1>2 DEF Recvs

LEMMA Places ==
  ASSUME Inv
  PROVE  /\ receiver.blk \in Seq(Block) /\ queue \in Seq(Event) /\ Recvs(queue) \in Seq(Block)
         /\ main.event \in Seq(Event) /\ Recvs(main.event) \in Seq(Block)
         /\ main.msg \in Seq(Block) /\ main.body \in Seq(Block) /\ main.packet \in Seq(Block)
         /\ held \in Seq(Block) /\ main.values \in Seq(Buffer) /\ SaLists \in Seq(Buffer)
<1>1. /\ receiver.blk \in AtMostOne(Block) /\ main.event \in AtMostOne(Event)
      /\ main.msg \in AtMostOne(Block) /\ main.body \in AtMostOne(Block)
      /\ main.packet \in AtMostOne(Block) /\ main.values \in AtMostOne(Buffer)
      /\ upfN4List \in AtMostOne(Node) /\ queue \in Seq(Event) /\ held \in Seq(Block)
  BY DEF Inv, Typed, TypedReceiver, TypedMain
<1>2. /\ receiver.blk \in Seq(Block) /\ main.event \in Seq(Event) /\ main.msg \in Seq(Block)
      /\ main.body \in Seq(Block) /\ main.packet \in Seq(Block) /\ main.values \in Seq(Buffer)
  BY <1>1, Held
<1>3. Recvs(queue) \in Seq(Block) /\ Recvs(main.event) \in Seq(Block)
  BY <1>1, <1>2, RecvsSeq
<1>4. SaLists \in Seq(Buffer)
  <2>1. CASE upfN4List = << >>
    BY <2>1 DEF SaLists
  <2>2. CASE upfN4List # << >>
    <3>1. PICK node \in Node : upfN4List = <<node>>
      BY <1>1, <2>2 DEF AtMostOne
    <3>2. SaLists = <<node.saList>> /\ node.saList \in Buffer
      BY <3>1 DEF SaLists, Node
    <3>3. QED
      BY <3>2
  <2>3. QED
    BY <2>1, <2>2
<1>5. QED
  BY <1>1, <1>2, <1>3, <1>4

LEMMA HeldBlocksSeq == Inv => HeldBlocks \in Seq(Block)
<1> SUFFICES ASSUME Inv PROVE HeldBlocks \in Seq(Block)
  OBVIOUS
<1>1. HeldBlocks = receiver.blk \o Recvs(queue) \o Recvs(main.event)
                   \o main.msg \o main.body \o main.packet \o held
  BY DEF HeldBlocks, Recvs
<1>2. QED
  BY <1>1, Places, ConcatProperties

(***************************************************************************)
(* No write runs over the end of a buffer, in any run: the receive buffer, *)
(* the message, the body that grows with every IE and the packet fit.      *)
(***************************************************************************)
THEOREM BlocksAlwaysFit == Spec => []BlocksFit
<1>1. Inv => BlocksFit
  <2> SUFFICES ASSUME Inv, NEW i \in DOMAIN HeldBlocks
               PROVE  HeldBlocks[i].len <= HeldBlocks[i].buf
    BY DEF BlocksFit
  <2>1. HeldBlocks[i] \in Block
    BY HeldBlocksSeq, ElementOfSeq, LenProperties
  <2>2. QED
    BY <2>1 DEF Block
<1>2. QED
  BY <1>1, PathSound, PTL

(***************************************************************************)
(* There is never a second node: the first peer's messages find the first  *)
(* peer's node, those of every other peer the head of the list.            *)
(***************************************************************************)
THEOREM FirstPeerAlwaysKeepsNode == Spec => []FirstPeerKeepsNode
<1>1. Inv => FirstPeerKeepsNode
  <2> SUFFICES ASSUME Inv, NEW i \in DOMAIN (queue \o main.event)
               PROVE  LET e == (queue \o main.event)[i]
                      IN /\ upfN4List # << >>
                         /\ e.upf = IF e.asker = upfN4List[1].addr THEN e.asker ELSE "head"
    BY DEF FirstPeerKeepsNode
  <2>1. PICK e : e = (queue \o main.event)[i]
    OBVIOUS
  <2>2. queue \in Seq(Event) /\ main.event \in Seq(Event) /\ main.event \in AtMostOne(Event) /\ Known
    BY Places DEF Inv, TypedMain
  <2>3. /\ Len(queue) \in Nat /\ Len(main.event) \in Nat
        /\ i \in 1 .. Len(queue) + Len(main.event)
        /\ e = IF i <= Len(queue) THEN queue[i] ELSE main.event[i - Len(queue)]
    BY <2>1, <2>2, ConcatProperties, LenProperties
  <2>4. CASE i <= Len(queue)
    <3>1. i \in 1 .. Len(queue) /\ e = queue[i] /\ queue # << >>
      BY <2>2, <2>3, <2>4
    <3>2. QED
      BY <2>1, <2>2, <3>1 DEF Known, NodeOf
  <2>5. CASE ~(i <= Len(queue))
    <3>1. Len(main.event) # 0 /\ main.event # << >>
      BY <2>2, <2>3, <2>5
    <3>2. Len(main.event) = 1
      BY <2>2, <3>1, Held
    <3>3. i - Len(queue) = 1
      BY <2>3, <2>5, <3>2
    <3>4. e = main.event[1]
      BY <2>3, <2>5, <3>3
    <3>5. QED
      BY <2>1, <2>2, <3>1, <3>4 DEF Known, NodeOf
  <2>6. QED
    BY <2>4, <2>5
<1>2. QED
  BY <1>1, PathSound, PTL

(***************************************************************************)
(* An answer goes to the peer that asked unless a datagram of another peer *)
(* was read between the question and the answer.                           *)
(***************************************************************************)
THEOREM AstrayAlwaysOvertaken == Spec => []AstrayOnlyIfOvertaken
<1>1. Inv => AstrayOnlyIfOvertaken
  BY DEF Inv, Addressed
<1>2. QED
  BY <1>1, PathSound, PTL

-----------------------------------------------------------------------------
(* Counting what is held. *)

LEMMA CountIsOne == \A b, c : CountOf(<<b>>, c) = One(b, c)
  BY CountOne DEF One

LEMMA CountAppend ==
  ASSUME NEW A, NEW s \in Seq(A), NEW e \in A, NEW c
  PROVE  CountOf(Append(s, e), c) = CountOf(s, c) + One(e, c)
<1>1. Append(s, e) = s \o <<e>> /\ <<e>> \in Seq(A)
  OBVIOUS
<1>2. PICK u \in Seq(A) : u = <<e>>
  BY <1>1
<1>3. CountOf(s \o u, c) = CountOf(s, c) + CountOf(u, c)
  BY CountConcat
<1>4. CountOf(u, c) = One(e, c)
  BY <1>2, CountIsOne
<1>5. QED
  BY <1>1, <1>2, <1>3, <1>4

LEMMA CountTail ==
  ASSUME NEW A, NEW s \in Seq(A), s # << >>, NEW c
  PROVE  CountOf(s, c) = One(Head(s), c) + CountOf(Tail(s), c)
<1>1. /\ Head(s) \in A /\ Tail(s) \in Seq(A) /\ Len(s) \in Nat \ {0}
      /\ Head(s) = s[1] /\ Len(Tail(s)) = Len(s) - 1
      /\ \A i \in 1 .. Len(s) - 1 : Tail(s)[i] = s[i + 1]
  BY HeadTailProperties, EmptySeq, LenProperties
<1>2. <<Head(s)>> \in Seq(A) /\ s = <<Head(s)>> \o Tail(s)
  <2>1. <<Head(s)>> \in Seq(A) /\ Len(<<Head(s)>>) = 1 /\ <<Head(s)>>[1] = Head(s)
    BY <1>1
  <2>2. PICK t \in Seq(A) : t = <<Head(s)>> \o Tail(s)
    BY <1>1, <2>1, ConcatProperties
  <2>3. /\ Len(t) = Len(s)
        /\ \A i \in 1 .. Len(s) : t[i] = IF i <= 1 THEN <<Head(s)>>[i] ELSE Tail(s)[i - 1]
    BY <1>1, <2>1, <2>2, ConcatProperties
  <2>4. \A i \in 1 .. Len(s) : t[i] = s[i]
    BY <1>1, <2>1, <2>3
  <2>5. s = t
    BY <2>3, <2>4, SeqEqual
  <2>6. QED
    BY <2>1, <2>2, <2>5
<1>3. PICK u \in Seq(A) : u = <<Head(s)>>
  BY <1>2
<1>4. PICK t \in Seq(A) : t = Tail(s)
  BY <1>1
<1>5. CountOf(u \o t, c) = CountOf(u, c) + CountOf(t, c)
  BY CountConcat
<1>6. CountOf(u, c) = One(Head(s), c)
  BY <1>3, CountIsOne
<1>7. QED
  BY <1>2, <1>3, <1>4, <1>5, <1>6

LEMMA CountPlace ==
  ASSUME NEW S, NEW place \in AtMostOne(S), NEW c
  PROVE  /\ place = << >> => Len(place) = 0 /\ CountOf(place, c) = 0
         /\ place # << >> => Len(place) = 1 /\ CountOf(place, c) = One(place[1], c)
<1>1. CASE place = << >>
  BY <1>1, CountEmpty
<1>2. CASE place # << >>
  BY <1>2, Held, CountIsOne
<1>3. QED
  BY <1>1, <1>2

(* The buffers of events. *)
LEMMA RecvsEmpty == Recvs(<< >>) = << >>
  BY DEF Recvs

LEMMA RecvsOne == \A e : Recvs(<<e>>) = <<e.recv>>
  BY DEF Recvs

LEMMA RecvsAppend ==
  ASSUME NEW q \in Seq(Event), NEW e \in Event, NEW c
  PROVE  CountOf(Recvs(Append(q, e)), c) = CountOf(Recvs(q), c) + One(e.recv, c)
<1>1. /\ Append(q, e) \in Seq(Event) /\ Len(Append(q, e)) = Len(q) + 1 /\ Len(q) \in Nat
      /\ \A i \in 1 .. Len(q) : Append(q, e)[i] = q[i]
      /\ Append(q, e)[Len(q) + 1] = e
  BY AppendProperties, LenProperties
<1>2. /\ Recvs(q) \in Seq(Block) /\ Len(Recvs(q)) = Len(q) /\ e.recv \in Block
      /\ \A i \in 1 .. Len(q) : Recvs(q)[i] = q[i].recv
  BY RecvsSeq DEF Event
<1>3. PICK t \in Seq(Block) : t = Append(Recvs(q), e.recv)
  BY <1>2, AppendProperties
<1>4. /\ Len(t) = Len(q) + 1 /\ t[Len(q) + 1] = e.recv
      /\ \A i \in 1 .. Len(q) : t[i] = q[i].recv
  BY <1>2, <1>3, AppendProperties
<1>5. PICK r \in Seq(Block) : r = Recvs(Append(q, e))
  BY <1>1, RecvsSeq
<1>6. Len(r) = Len(q) + 1 /\ \A i \in 1 .. Len(q) + 1 : r[i] = Append(q, e)[i].recv
  BY <1>1, <1>5, RecvsSeq
<1>7. \A i \in 1 .. Len(q) + 1 : r[i] = t[i]
  BY <1>1, <1>4, <1>6
<1>8. r = t
  BY <1>4, <1>6, <1>7, SeqEqual
<1>9. QED
  BY <1>2, <1>3, <1>5, <1>8, CountAppend

LEMMA RecvsTail ==
  ASSUME NEW q \in Seq(Event), q # << >>, NEW c
  PROVE  CountOf(Recvs(q), c) = One(Head(q).recv, c) + CountOf(Recvs(Tail(q)), c)
<1>1. /\ Len(q) \in Nat \ {0} /\ Head(q) = q[1]
      /\ Tail(q) \in Seq(Event) /\ Len(Tail(q)) = Len(q) - 1
      /\ \A i \in 1 .. Len(q) - 1 : Tail(q)[i] = q[i + 1]
  BY HeadTailProperties, EmptySeq, LenProperties
<1>2. PICK s \in Seq(Block) : s = Recvs(q)
  BY RecvsSeq
<1>3. Len(s) = Len(q) /\ \A i \in 1 .. Len(q) : s[i] = q[i].recv
  BY <1>2, RecvsSeq
<1>4. s # << >>
  BY <1>1, <1>3
<1>5. /\ Tail(s) \in Seq(Block) /\ Len(Tail(s)) = Len(q) - 1 /\ Head(s) = Head(q).recv
      /\ \A i \in 1 .. Len(q) - 1 : Tail(s)[i] = s[i + 1]
  BY <1>1, <1>3, <1>4, HeadTailProperties
<1>6. PICK t \in Seq(Block) : t = Recvs(Tail(q))
  BY <1>1, RecvsSeq
<1>7. Len(t) = Len(q) - 1 /\ \A i \in 1 .. Len(q) - 1 : t[i] = Tail(q)[i].recv
  BY <1>1, <1>6, RecvsSeq
<1>8. \A i \in 1 .. Len(q) - 1 : t[i] = Tail(s)[i]
  BY <1>1, <1>3, <1>5, <1>7
<1>9. t = Tail(s)
  BY <1>5, <1>7, <1>8, SeqEqual
<1>10. QED
  BY ZenonT(60), <1>2, <1>4, <1>5, <1>6, <1>9, CountTail

LEMMA RecvsOvertake ==
  ASSUME NEW q \in Seq(Event), NEW p
  PROVE  Recvs(Overtake(q, p)) = Recvs(q)
<1>1. PICK o \in Seq(Event) : o = Overtake(q, p)
  BY OvertakeEffect
<1>2. Len(o) = Len(q) /\ \A i \in 1 .. Len(q) : o[i].recv = q[i].recv
  BY <1>1, OvertakeEffect
<1>3. PICK s \in Seq(Block), t \in Seq(Block) : s = Recvs(o) /\ t = Recvs(q)
  BY RecvsSeq
<1>4. /\ Len(s) = Len(q) /\ Len(t) = Len(q)
      /\ \A i \in 1 .. Len(q) : s[i] = o[i].recv /\ t[i] = q[i].recv
  BY <1>2, <1>3, RecvsSeq
<1>5. s = t
  BY <1>2, <1>4, SeqEqual
<1>6. QED
  BY <1>1, <1>3, <1>5

-----------------------------------------------------------------------------
(* The balance of the pools: what is free and what is held make up what the  *)
(* pools had, header by header and, in each class, buffer by buffer.         *)

MainHeaders(m) == Len(m.event) + Len(m.msg) + Len(m.body) + Len(m.packet)
MainBuffers(m, c) == CountOf(Recvs(m.event), c) + CountOf(m.msg, c) + CountOf(m.body, c)
                     + CountOf(m.packet, c) + CountOf(m.values, c)

BalancedHeaders ==
  mem.blk + Len(receiver.blk) + Len(queue) + MainHeaders(main) + Len(held) = Blocks

BalancedBuffers(c) ==
  mem.buf[c] + CountOf(receiver.blk, c) + CountOf(Recvs(queue), c) + MainBuffers(main, c)
    + CountOf(held, c) + CountOf(SaLists, c) = PerClass

Balance == BalancedHeaders /\ \A c \in Classes : BalancedBuffers(c)

(* Every number of the balance is one. *)
LEMMA Numbers ==
  ASSUME Inv
  PROVE  /\ mem.blk \in Int /\ Len(receiver.blk) \in Int /\ Len(queue) \in Int
         /\ Len(held) \in Int /\ MainHeaders(main) \in Int
         /\ \A c \in Classes :
              /\ mem.buf[c] \in Nat /\ CountOf(receiver.blk, c) \in Nat
              /\ CountOf(Recvs(queue), c) \in Nat /\ MainBuffers(main, c) \in Nat
              /\ CountOf(held, c) \in Nat /\ CountOf(SaLists, c) \in Nat
<1>1. /\ mem \in Pools /\ mem.blk \in Int /\ \A c \in Classes : mem.buf[c] \in Nat
  BY DEF Inv, Typed, Pools
<1>2. /\ Len(receiver.blk) \in Int /\ Len(queue) \in Int /\ Len(held) \in Int
      /\ Len(main.event) \in Int /\ Len(main.msg) \in Int /\ Len(main.body) \in Int
      /\ Len(main.packet) \in Int
  BY Places, LenProperties
<1>3. \A c \in Classes :
        /\ CountOf(receiver.blk, c) \in Nat /\ CountOf(Recvs(queue), c) \in Nat
        /\ CountOf(held, c) \in Nat /\ CountOf(SaLists, c) \in Nat
        /\ CountOf(Recvs(main.event), c) \in Nat /\ CountOf(main.msg, c) \in Nat
        /\ CountOf(main.body, c) \in Nat /\ CountOf(main.packet, c) \in Nat
        /\ CountOf(main.values, c) \in Nat
  BY Places, CountFinite
<1>4. MainHeaders(main) \in Int
  BY <1>2 DEF MainHeaders
<1>5. \A c \in Classes : MainBuffers(main, c) \in Nat
  BY <1>3 DEF MainBuffers
<1>6. QED
  BY <1>1, <1>2, <1>3, <1>4, <1>5

LEMMA InitBalance == Init => Balance
<1> SUFFICES ASSUME Init PROVE Balance
  OBVIOUS
<1>1. /\ mem.blk = Blocks /\ receiver.blk = << >> /\ queue = << >> /\ held = << >>
      /\ upfN4List = << >>
      /\ main.event = << >> /\ main.msg = << >> /\ main.body = << >> /\ main.packet = << >>
      /\ main.values = << >> /\ \A c \in Classes : mem.buf[c] = PerClass
  BY DEF Init, BufblkPoolInit, Resting, Waiting
<1>2. BalancedHeaders
  BY <1>1, BufblkAssumption DEF BalancedHeaders, MainHeaders
<1>3. ASSUME NEW c \in Classes PROVE BalancedBuffers(c)
  <2>1. SaLists = << >> /\ CountOf(<< >>, c) = 0
    BY <1>1, CountEmpty DEF SaLists
  <2>2. QED
    BY <1>1, <2>1, RecvsEmpty, BufblkAssumption DEF BalancedBuffers, MainBuffers
<1>4. QED
  BY <1>2, <1>3 DEF Balance

LEMMA ReceiveAllocBalance == ASSUME Inv, Balance, ReceiveAlloc PROVE Balance'
<1>1. PICK had : had = BufblkAlloc(mem, SduLen)
  OBVIOUS
<1>2. mem \in Pools /\ SduLen \in Nat /\ receiver.blk = << >>
  BY PfcpPathAssumption DEF Inv, Typed, ShapedReceiver, ReceiveAlloc
<1>3. /\ mem' = had.mem /\ receiver'.blk = IF had.ok THEN <<had.blk>> ELSE << >>
      /\ queue' = queue /\ main' = main /\ held' = held /\ upfN4List' = upfN4List
  BY <1>1 DEF ReceiveAlloc, Resting
<1>4. SaLists' = SaLists
  BY <1>3 DEF SaLists
<1>5. CASE had = Failed(mem)
  <2>1. mem' = mem /\ receiver'.blk = receiver.blk
    BY <1>2, <1>3, <1>5, Outcome
  <2>2. QED
    BY <1>3, <1>4, <2>1 DEF Balance, BalancedHeaders, BalancedBuffers
<1>6. CASE Supplied(mem, SduLen, had) /\ had.mem.blk = mem.blk - 1
  <2>1. receiver'.blk = <<had.blk>>
    BY <1>3, <1>6, Outcome
  <2>2. BalancedHeaders'
    <3>1. Len(receiver'.blk) = 1 /\ Len(receiver.blk) = 0 /\ mem'.blk = mem.blk - 1
      BY <1>2, <1>3, <1>6, <2>1
    <3>2. QED
      BY <1>3, <3>1, Numbers DEF Balance, BalancedHeaders
  <2>3. ASSUME NEW c \in Classes PROVE BalancedBuffers(c)'
    <3>1. /\ CountOf(receiver'.blk, c) = One(had.blk, c) /\ CountOf(receiver.blk, c) = 0
          /\ mem'.buf[c] = mem.buf[c] - One(had.blk, c) /\ One(had.blk, c) \in Nat
      BY <1>2, <1>3, <1>6, <2>1, CountIsOne, CountEmpty, OneType DEF Supplied, Took
    <3>2. QED
      BY <1>3, <1>4, <3>1, Numbers DEF Balance, BalancedBuffers
  <2>4. QED
    BY <2>2, <2>3 DEF Balance
<1>7. QED
  BY <1>1, <1>2, <1>5, <1>6, BlockAllocEffect

LEMMA SameBalance ==
  ASSUME Balance, mem' = mem, receiver'.blk = receiver.blk,
         UNCHANGED <<queue, main, held, upfN4List>>
  PROVE  Balance'
<1>1. SaLists' = SaLists
  BY DEF SaLists
<1>2. QED
  BY <1>1 DEF Balance, BalancedHeaders, BalancedBuffers

\* The receiver gives its block back.
ReceiverFrees ==
  /\ receiver.blk # << >> /\ mem' = BufblkFree(mem, receiver.blk[1]) /\ receiver' = Resting
  /\ UNCHANGED <<queue, main, held, upfN4List>>

LEMMA ReceiverFreesBalance == ASSUME Inv, Balance, ReceiverFrees PROVE Balance'
<1>1. /\ receiver.blk # << >> /\ mem' = BufblkFree(mem, receiver.blk[1]) /\ receiver'.blk = << >>
      /\ queue' = queue /\ main' = main /\ held' = held /\ upfN4List' = upfN4List
  BY DEF ReceiverFrees, Resting
<1>2. mem \in Pools /\ receiver.blk \in AtMostOne(Block) /\ receiver.blk[1] \in Buffer
  BY <1>1, Held, BlockIsBuffer DEF Inv, Typed, TypedReceiver
<1>3. SaLists' = SaLists
  BY <1>1 DEF SaLists
<1>4. Gave(mem, mem', receiver.blk[1]) /\ mem'.blk = mem.blk + 1
  BY <1>1, <1>2, FreeEffect
<1>5. BalancedHeaders'
  <2>1. Len(receiver'.blk) = 0 /\ Len(receiver.blk) = 1
    BY <1>1, <1>2, Held
  <2>2. QED
    BY <1>1, <1>4, <2>1, Numbers DEF Balance, BalancedHeaders
<1>6. ASSUME NEW c \in Classes PROVE BalancedBuffers(c)'
  <2>1. /\ CountOf(receiver'.blk, c) = 0 /\ CountOf(receiver.blk, c) = One(receiver.blk[1], c)
        /\ mem'.buf[c] = mem.buf[c] + One(receiver.blk[1], c) /\ One(receiver.blk[1], c) \in Nat
    BY <1>1, <1>2, <1>4, CountPlace, CountEmpty, OneType DEF Gave
  <2>2. QED
    BY <1>1, <1>3, <2>1, Numbers DEF Balance, BalancedBuffers
<1>7. QED
  BY <1>5, <1>6 DEF Balance

LEMMA RecvFromBalance == ASSUME NEW p \in Peers, Inv, Balance, RecvFrom(p) PROVE Balance'
<1>1. /\ queue' = Overtake(queue, p) /\ main' = [main EXCEPT !.event = Overtake(main.event, p)]
      /\ mem' = mem /\ held' = held /\ upfN4List' = upfN4List
  BY DEF RecvFrom, Overtaken
<1>2. /\ queue \in Seq(Event) /\ main.event \in Seq(Event) /\ TypedMain /\ TypedReceiver
      /\ receiver.pc = "recv"
  BY Places DEF Inv, RecvFrom
<1>3. /\ main'.event = Overtake(main.event, p) /\ main'.msg = main.msg
      /\ main'.values = main.values /\ main'.body = main.body /\ main'.packet = main.packet
  BY <1>1, <1>2 DEF TypedMain
<1>4. Len(queue') = Len(queue) /\ Recvs(queue') = Recvs(queue)
  BY <1>1, <1>2, OvertakeEffect, RecvsOvertake
<1>5. Len(main'.event) = Len(main.event) /\ Recvs(main'.event) = Recvs(main.event)
  BY <1>2, <1>3, OvertakeEffect, RecvsOvertake
<1>6. Len(receiver'.blk) = Len(receiver.blk) /\ \A c : CountOf(receiver'.blk, c) = CountOf(receiver.blk, c)
  <2>1. CASE receiver.blk = << >>
    <3>1. receiver'.blk = << >>
      BY <2>1 DEF RecvFrom, Resting
    <3>2. QED
      BY <2>1, <3>1
  <2>2. CASE receiver.blk # << >>
    <3>1. PICK b \in Block : receiver.blk = <<b>>
      BY <1>2, <2>2 DEF TypedReceiver, AtMostOne
    <3>2. PICK version \in 1 .. 2 :
            receiver' = [receiver EXCEPT !.pc = "find", !.from = p, !.version = version,
                                         !.blk = <<[b EXCEPT !.len = SduLen]>>]
      BY <2>2, <3>1 DEF RecvFrom
    <3>3. PICK n : n = [b EXCEPT !.len = SduLen]
      OBVIOUS
    <3>4. n.buf = b.buf
      BY <3>3 DEF Block
    <3>5. receiver'.blk = <<n>>
      BY <1>2, <3>2, <3>3 DEF TypedReceiver
    <3>6. \A c : One(n, c) = One(b, c)
      BY <3>4 DEF One
    <3>7. \A c : CountOf(<<n>>, c) = CountOf(<<b>>, c)
      BY <3>6, CountIsOne
    <3>8. QED
      BY <3>1, <3>5, <3>7
  <2>3. QED
    BY <2>1, <2>2
<1>7. SaLists' = SaLists
  BY <1>1 DEF SaLists
<1>8. MainHeaders(main') = MainHeaders(main) /\ \A c : MainBuffers(main', c) = MainBuffers(main, c)
  BY <1>3, <1>5 DEF MainHeaders, MainBuffers
<1>9. QED
  BY <1>1, <1>4, <1>6, <1>7, <1>8 DEF Balance, BalancedHeaders, BalancedBuffers

LEMMA RecvNothingBalance == ASSUME Inv, Balance, RecvNothing PROVE Balance'
<1>1. /\ receiver' = Resting /\ mem' = BufblkFreeIfAny(mem, receiver.blk)
      /\ UNCHANGED <<queue, main, held, upfN4List>>
  BY DEF RecvNothing
<1>2. CASE receiver.blk = << >>
  <2>1. mem' = mem /\ receiver'.blk = receiver.blk
    BY <1>1, <1>2 DEF BufblkFreeIfAny, Resting
  <2>2. QED
    BY <1>1, <2>1, SameBalance
<1>3. CASE receiver.blk # << >>
  <2>1. ReceiverFrees
    BY <1>1, <1>3 DEF BufblkFreeIfAny, ReceiverFrees
  <2>2. QED
    BY <2>1, ReceiverFreesBalance
<1>4. QED
  BY <1>2, <1>3

LEMMA VersionNotSupportedBalance == ASSUME Inv, Balance, VersionNotSupported PROVE Balance'
<1>1. ReceiverFrees
  BY DEF Inv, ShapedReceiver, VersionNotSupported, ReceiverFrees
<1>2. QED
  BY <1>1, ReceiverFreesBalance

\* There is memory for a node: two addresses besides the receiver's buffer.
RoomForNode ==
  \/ PerClass >= 3
  \/ PerClass >= 2 /\ SelectClass(SduLen) \cap SelectClass(ValueSize + Word) = {}

LEMMA FindNodeBalance == ASSUME RoomForNode, Inv, Balance, FindNode PROVE Balance'
<1>1. /\ receiver.pc = "find" /\ receiver.version = 1
      /\ queue' = queue /\ main' = main /\ held' = held
  BY DEF FindNode
<1>2. PICK found : found = PfcpFindNodeSockAddr(receiver.from)
  OBVIOUS
<1>3. PICK new : new = PfcpAddNodeWithSeid
  OBVIOUS
<1>4. /\ mem \in Pools /\ receiver.blk # << >> /\ receiver.from \in Peers
      /\ receiver.blk \in AtMostOne(Block) /\ receiver.blk[1].buf \in SelectClass(SduLen)
      /\ upfN4List \in AtMostOne(Node) /\ TypedReceiver /\ Known /\ ShapedMain
  BY <1>1 DEF Inv, Typed, TypedReceiver, ShapedReceiver
<1>5. CASE found # Null
  <2>1. /\ receiver' = [receiver EXCEPT !.pc = "send", !.upf = found]
        /\ UNCHANGED <<mem, upfN4List>>
    BY <1>2, <1>5 DEF FindNode
  <2>2. receiver'.blk = receiver.blk
    BY <1>4, <2>1 DEF TypedReceiver
  <2>3. QED
    BY <1>1, <2>1, <2>2, SameBalance
<1>6. ASSUME found = Null PROVE upfN4List = << >>
  <2>1. CASE upfN4List # << >>
    <3>1. found \in Peers \cup {"head"}
      BY <1>2, <1>4, <2>1 DEF PfcpFindNodeSockAddr
    <3>2. QED
      BY <1>6, <3>1, PfcpPathAssumption
  <2>2. QED
    BY <2>1
<1>7. CASE found = Null /\ new.ok
  <2>1. /\ mem' = new.mem
        /\ upfN4List' = <<[addr |-> receiver.from, saList |-> new.blk]>>
        /\ receiver' = [receiver EXCEPT !.pc = "send", !.upf = receiver.from]
    BY <1>2, <1>3, <1>7 DEF FindNode
  <2>2. receiver'.blk = receiver.blk
    BY <1>4, <2>1 DEF TypedReceiver
  <2>3. Took(mem, new.mem, new.blk) /\ new.mem.blk = mem.blk
    BY <1>3, <1>4, <1>7, AddNodeEffect
  <2>4. SaLists' = <<new.blk>> /\ SaLists = << >>
    BY <1>6, <1>7, <2>1 DEF SaLists
  <2>5. BalancedHeaders'
    BY <1>1, <2>1, <2>2, <2>3 DEF Balance, BalancedHeaders
  <2>6. ASSUME NEW c \in Classes PROVE BalancedBuffers(c)'
    <3>1. /\ CountOf(SaLists', c) = One(new.blk, c) /\ CountOf(SaLists, c) = 0
          /\ mem'.buf[c] = mem.buf[c] - One(new.blk, c) /\ One(new.blk, c) \in Nat
      BY <2>1, <2>3, <2>4, CountIsOne, CountEmpty, OneType DEF Took
    <3>2. QED
      BY <1>1, <2>2, <3>1, Numbers DEF Balance, BalancedBuffers
  <2>7. QED
    BY <2>5, <2>6 DEF Balance
<1>8. CASE found = Null /\ ~new.ok
  <2>1. /\ mem' = BufblkFree(new.mem, receiver.blk[1]) /\ receiver' = Resting
        /\ upfN4List' = upfN4List
    BY <1>2, <1>3, <1>8 DEF FindNode
  <2>2. ASSUME NEW c \in SelectClass(ValueSize + Word) PROVE mem.buf[c] >= 2
    <3>1. c \in Classes
      BY DEF SelectClass
    <3>2. /\ upfN4List = << >> /\ queue = << >> /\ main.event = << >> /\ held = << >>
          /\ main.msg = << >> /\ main.values = << >> /\ main.body = << >> /\ main.packet = << >>
      BY <1>4, <1>6, <1>8 DEF Known, ShapedMain
    <3>3. /\ CountOf(Recvs(queue), c) = 0 /\ CountOf(held, c) = 0 /\ CountOf(SaLists, c) = 0
          /\ MainBuffers(main, c) = 0
      BY <3>2, CountEmpty, RecvsEmpty DEF MainBuffers, SaLists
    <3>4. mem.buf[c] \in Nat /\ CountOf(receiver.blk, c) = One(receiver.blk[1], c)
      BY <1>4, <3>1, CountPlace DEF Pools
    <3>5. mem.buf[c] + One(receiver.blk[1], c) = PerClass
      BY <3>1, <3>3, <3>4, OneType DEF Balance, BalancedBuffers
    <3>6. CASE receiver.blk[1].buf = c
      <4>1. PerClass >= 3
        BY <1>4, <3>6 DEF RoomForNode
      <4>2. QED
        BY <3>4, <3>5, <3>6, <4>1, BufblkAssumption DEF One
    <3>7. CASE receiver.blk[1].buf # c
      <4>1. PerClass >= 2
        BY BufblkAssumption DEF RoomForNode
      <4>2. QED
        BY <3>4, <3>5, <3>7, <4>1, BufblkAssumption DEF One
    <3>8. QED
      BY <3>6, <3>7
  <2>3. new.mem = mem
    BY <1>3, <1>4, <1>8, <2>2, AddNodeEffect
  <2>4. ReceiverFrees
    BY <1>1, <1>4, <2>1, <2>3 DEF ReceiverFrees
  <2>5. QED
    BY <2>4, ReceiverFreesBalance
<1>9. QED
  BY <1>5, <1>7, <1>8

LEMMA EventSendBalance == ASSUME Inv, Balance, EventSend PROVE Balance'
<1>1. /\ receiver.pc = "send" /\ receiver' = Resting
      /\ main' = main /\ held' = held /\ upfN4List' = upfN4List
  BY DEF EventSend
<1>2. /\ receiver.blk # << >> /\ receiver.blk \in AtMostOne(Block) /\ receiver.from \in Peers
      /\ receiver.upf \in Peers \cup {"head"} /\ queue \in Seq(Event)
  BY <1>1 DEF Inv, Typed, TypedReceiver, ShapedReceiver, Known, NodeOf
<1>3. CASE Len(queue) < QueueMax
  <2>1. PICK e : e = [recv |-> receiver.blk[1], upf |-> receiver.upf,
                      asker |-> receiver.from, overtaken |-> FALSE]
    OBVIOUS
  <2>2. queue' = Append(queue, e) /\ mem' = mem
    BY <1>3, <2>1 DEF EventSend
  <2>3. e \in Event /\ e.recv = receiver.blk[1]
    <3>1. receiver.blk[1] \in Block
      BY <1>2, Held
    <3>2. QED
      BY <1>2, <2>1, <3>1 DEF Event
  <2>4. /\ receiver'.blk = << >> /\ SaLists' = SaLists
    BY <1>1 DEF Resting, SaLists
  <2>5. BalancedHeaders'
    <3>1. Len(receiver'.blk) = 0 /\ Len(receiver.blk) = 1 /\ Len(queue') = Len(queue) + 1
      BY <1>2, <2>2, <2>3, <2>4, Held, AppendProperties
    <3>2. mem' = mem /\ main' = main /\ held' = held
      BY <1>1, <2>2
    <3>3. /\ mem.blk + Len(receiver.blk) + Len(queue) + MainHeaders(main) + Len(held) = Blocks
          /\ mem.blk \in Int /\ Len(queue) \in Int /\ Len(held) \in Int /\ MainHeaders(main) \in Int
      BY Numbers DEF Balance, BalancedHeaders
    <3>4. QED
      BY SMTT(60), <3>1, <3>2, <3>3 DEF BalancedHeaders
  <2>6. ASSUME NEW c \in Classes PROVE BalancedBuffers(c)'
    <3>1. /\ CountOf(receiver'.blk, c) = 0 /\ CountOf(receiver.blk, c) = One(e.recv, c)
          /\ CountOf(Recvs(queue'), c) = CountOf(Recvs(queue), c) + One(e.recv, c)
          /\ One(e.recv, c) \in Nat
      BY <1>2, <2>2, <2>3, <2>4, CountPlace, CountEmpty, RecvsAppend, OneType
    <3>2. QED
      BY <1>1, <2>2, <2>4, <3>1, Numbers DEF Balance, BalancedBuffers
  <2>7. QED
    BY <2>5, <2>6 DEF Balance
<1>4. CASE ~(Len(queue) < QueueMax)
  <2>1. ReceiverFrees
    BY <1>1, <1>2, <1>4 DEF EventSend, ReceiverFrees
  <2>2. QED
    BY <2>1, ReceiverFreesBalance
<1>5. QED
  BY <1>3, <1>4

(* The main thread.  Its places, and what they count for. *)
LEMMA MainNumbers ==
  ASSUME Inv
  PROVE  /\ Len(main.event) \in Int /\ Len(main.msg) \in Int /\ Len(main.body) \in Int
         /\ Len(main.packet) \in Int
         /\ \A c : /\ CountOf(Recvs(main.event), c) \in Nat /\ CountOf(main.msg, c) \in Nat
                   /\ CountOf(main.body, c) \in Nat /\ CountOf(main.packet, c) \in Nat
                   /\ CountOf(main.values, c) \in Nat
<1>1. /\ Len(main.event) \in Int /\ Len(main.msg) \in Int /\ Len(main.body) \in Int
      /\ Len(main.packet) \in Int
  BY Places, LenProperties
<1>2. /\ Recvs(main.event) \in Seq(Block) /\ main.msg \in Seq(Block) /\ main.body \in Seq(Block)
      /\ main.packet \in Seq(Block) /\ main.values \in Seq(Buffer)
  BY Zenon, Places
<1>3. ASSUME NEW c
      PROVE  /\ CountOf(Recvs(main.event), c) \in Nat /\ CountOf(main.msg, c) \in Nat
             /\ CountOf(main.body, c) \in Nat /\ CountOf(main.packet, c) \in Nat
             /\ CountOf(main.values, c) \in Nat
  BY Zenon, <1>2, CountFinite
<1>4. QED
  BY Zenon, <1>1, <1>3

\* A step of the main thread on its own places only.
OwnPlaces == UNCHANGED <<receiver, queue, held, upfN4List>>

OwnHeaders ==
  /\ mem'.blk \in Int /\ MainHeaders(main') \in Int
  /\ mem'.blk + MainHeaders(main') = mem.blk + MainHeaders(main)

OwnBuffers(c) ==
  /\ mem'.buf[c] \in Int /\ MainBuffers(main', c) \in Int
  /\ mem'.buf[c] + MainBuffers(main', c) = mem.buf[c] + MainBuffers(main, c)

LEMMA OwnBalance ==
  ASSUME Inv, Balance, OwnPlaces, OwnHeaders, \A c \in Classes : OwnBuffers(c)
  PROVE  Balance'
<1>1. receiver' = receiver /\ queue' = queue /\ held' = held /\ SaLists' = SaLists
  BY DEF OwnPlaces, SaLists
<1>2. BalancedHeaders'
  <2>1. /\ mem.blk + Len(receiver.blk) + Len(queue) + MainHeaders(main) + Len(held) = Blocks
        /\ mem.blk \in Int /\ Len(receiver.blk) \in Int /\ Len(queue) \in Int
        /\ MainHeaders(main) \in Int /\ Len(held) \in Int
    BY Numbers DEF Balance, BalancedHeaders
  <2>2. /\ mem'.blk \in Int /\ MainHeaders(main') \in Int
        /\ mem'.blk + MainHeaders(main') = mem.blk + MainHeaders(main)
    BY DEF OwnHeaders
  <2>3. PICK r \in Int, q \in Int, h \in Int : r = Len(receiver.blk) /\ q = Len(queue) /\ h = Len(held)
    BY <2>1
  <2>4. mem.blk + r + q + MainHeaders(main) + h = Blocks
    BY <2>1, <2>3
  <2>5. mem.blk \in Int /\ MainHeaders(main) \in Int
    BY <2>1
  <2>6. mem'.blk + r + q + MainHeaders(main') + h = Blocks
    BY ONLY <2>2, <2>4, <2>5, r \in Int, q \in Int, h \in Int
  <2>7. QED
    BY <1>1, <2>3, <2>6 DEF BalancedHeaders
<1>3. ASSUME NEW c \in Classes PROVE BalancedBuffers(c)'
  <2>1. /\ mem.buf[c] + CountOf(receiver.blk, c) + CountOf(Recvs(queue), c) + MainBuffers(main, c)
             + CountOf(held, c) + CountOf(SaLists, c) = PerClass
        /\ mem.buf[c] \in Nat /\ CountOf(receiver.blk, c) \in Nat
        /\ CountOf(Recvs(queue), c) \in Nat /\ MainBuffers(main, c) \in Nat
        /\ CountOf(held, c) \in Nat /\ CountOf(SaLists, c) \in Nat
    BY Numbers DEF Balance, BalancedBuffers
  <2>2. /\ mem'.buf[c] \in Int /\ MainBuffers(main', c) \in Int
        /\ mem'.buf[c] + MainBuffers(main', c) = mem.buf[c] + MainBuffers(main, c)
    BY DEF OwnBuffers
  <2>3. mem'.buf[c] + CountOf(receiver.blk, c) + CountOf(Recvs(queue), c) + MainBuffers(main', c)
          + CountOf(held, c) + CountOf(SaLists, c) = PerClass
    BY ONLY <2>1, <2>2
  <2>4. QED
    BY <1>1, <2>3 DEF BalancedBuffers
<1>4. QED
  BY <1>2, <1>3 DEF Balance

\* The places that hold what was allocated are as they were.
SamePlaces(m, n) ==
  /\ n.event = m.event /\ n.msg = m.msg /\ n.values = m.values /\ n.body = m.body
  /\ n.packet = m.packet

LEMMA SamePlacesBalance ==
  ASSUME Inv, Balance, OwnPlaces, mem' = mem, SamePlaces(main, main')
  PROVE  Balance'
<1>1. MainHeaders(main') = MainHeaders(main) /\ \A c : MainBuffers(main', c) = MainBuffers(main, c)
  BY DEF SamePlaces, MainHeaders, MainBuffers
<1>2. OwnHeaders
  BY <1>1, Numbers DEF OwnHeaders
<1>3. ASSUME NEW c \in Classes PROVE OwnBuffers(c)
  BY <1>1, Numbers DEF OwnBuffers
<1>4. QED
  BY <1>2, <1>3, OwnBalance

LEMMA DispatchBalance == ASSUME Inv, Balance, Dispatch PROVE Balance'
<1>1. PICK had : had = BufblkAlloc(mem, MessageSize)
  OBVIOUS
<1>2. /\ mem \in Pools /\ MessageSize \in Nat /\ queue \in Seq(Event) /\ queue # << >>
      /\ main.event = << >> /\ main.msg = << >> /\ main.values = << >>
      /\ main.body = << >> /\ main.packet = << >>
  BY PfcpPathAssumption DEF Inv, Typed, ShapedMain, Dispatch
<1>3. /\ mem' = had.mem /\ queue' = Tail(queue)
      /\ main'.event = <<Head(queue)>> /\ main'.msg = (IF had.ok THEN <<had.blk>> ELSE << >>)
      /\ main'.values = << >> /\ main'.body = << >> /\ main'.packet = << >>
      /\ receiver' = receiver /\ held' = held /\ upfN4List' = upfN4List
  BY <1>1 DEF Dispatch, Waiting, MainOnly
<1>4. SaLists' = SaLists
  BY <1>3 DEF SaLists
<1>5. \/ mem' = mem /\ main'.msg = << >>
      \/ Took(mem, mem', had.blk) /\ mem'.blk = mem.blk - 1 /\ main'.msg = <<had.blk>>
  <2>1. CASE had = Failed(mem)
    BY <1>3, <2>1, Outcome
  <2>2. CASE Supplied(mem, MessageSize, had) /\ had.mem.blk = mem.blk - 1
    BY <1>3, <2>2, Outcome DEF Supplied
  <2>3. QED
    BY <1>1, <1>2, <2>1, <2>2, BlockAllocEffect
<1>6. BalancedHeaders'
  <2>1. Len(queue) = Len(queue') + 1 /\ Len(queue') \in Int
    BY <1>2, <1>3, HeadTailProperties, LenProperties, EmptySeq
  <2>2. MainHeaders(main) = 0 /\ MainHeaders(main') = 1 + Len(main'.msg)
    <3>1. Len(main'.msg) \in Int /\ Len(main'.event) = 1
      BY <1>3, <1>5
    <3>2. QED
      BY <1>2, <1>3, <3>1 DEF MainHeaders
  <2>3. mem'.blk = mem.blk - Len(main'.msg) /\ Len(main'.msg) \in Int
    <3>1. mem.blk \in Int
      BY Numbers
    <3>2. CASE mem' = mem /\ main'.msg = << >>
      BY <3>1, <3>2
    <3>3. CASE mem'.blk = mem.blk - 1 /\ main'.msg = <<had.blk>>
      <4>1. Len(main'.msg) = 1
        BY <3>3
      <4>2. QED
        BY <3>1, <3>3, <4>1
    <3>4. QED
      BY <1>5, <3>2, <3>3
  <2>4. /\ mem.blk + Len(receiver.blk) + Len(queue) + MainHeaders(main) + Len(held) = Blocks
        /\ mem.blk \in Int /\ Len(receiver.blk) \in Int /\ Len(held) \in Int
    BY Numbers DEF Balance, BalancedHeaders
  <2>5. receiver' = receiver /\ held' = held
    BY <1>3
  <2>6. PICK r \in Int, q \in Int, h \in Int, m \in Int :
          r = Len(receiver.blk) /\ q = Len(queue') /\ h = Len(held) /\ m = Len(main'.msg)
    BY <2>1, <2>3, <2>4
  <2>7. mem.blk + r + (q + 1) + 0 + h = Blocks /\ mem.blk \in Int
    BY <2>1, <2>2, <2>4, <2>6
  <2>8. mem'.blk = mem.blk - m /\ MainHeaders(main') = 1 + m
    BY <2>2, <2>3, <2>6
  <2>9. mem'.blk + r + q + MainHeaders(main') + h = Blocks
    BY ONLY <2>7, <2>8, r \in Int, q \in Int, h \in Int, m \in Int
  <2>10. QED
    BY <2>5, <2>6, <2>9 DEF BalancedHeaders
<1>7. ASSUME NEW c \in Classes PROVE BalancedBuffers(c)'
  <2>1. /\ CountOf(Recvs(queue), c) = One(Head(queue).recv, c) + CountOf(Recvs(queue'), c)
        /\ CountOf(Recvs(queue'), c) \in Nat
    <3>1. queue' \in Seq(Event)
      BY <1>2, <1>3, HeadTailProperties
    <3>2. Recvs(queue') \in Seq(Block)
      BY <3>1, RecvsSeq
    <3>3. QED
      BY <1>2, <1>3, <3>2, RecvsTail, CountFinite
  <2>2. CountOf(main'.msg, c) \in Nat /\ mem'.buf[c] = mem.buf[c] - CountOf(main'.msg, c)
    <3>1. CASE mem' = mem /\ main'.msg = << >>
      BY <3>1, CountEmpty, Numbers
    <3>2. CASE Took(mem, mem', had.blk) /\ main'.msg = <<had.blk>>
      BY <3>2, CountIsOne, OneType DEF Took
    <3>3. QED
      BY <1>5, <3>1, <3>2
  <2>3. MainBuffers(main, c) = 0
    BY <1>2, CountEmpty, RecvsEmpty DEF MainBuffers
  <2>4. MainBuffers(main', c) = One(Head(queue).recv, c) + CountOf(main'.msg, c)
    <3>1. /\ CountOf(Recvs(main'.event), c) = One(Head(queue).recv, c)
          /\ CountOf(main'.values, c) = 0 /\ CountOf(main'.body, c) = 0 /\ CountOf(main'.packet, c) = 0
      BY <1>3, CountEmpty, CountIsOne, RecvsOne
    <3>2. QED
      BY <2>2, <3>1, OneType DEF MainBuffers
  <2>5. /\ mem.buf[c] + CountOf(receiver.blk, c) + CountOf(Recvs(queue), c) + MainBuffers(main, c)
             + CountOf(held, c) + CountOf(SaLists, c) = PerClass
        /\ mem.buf[c] \in Nat /\ CountOf(receiver.blk, c) \in Nat /\ CountOf(held, c) \in Nat
        /\ CountOf(SaLists, c) \in Nat /\ One(Head(queue).recv, c) \in Nat
    BY Numbers, OneType DEF Balance, BalancedBuffers
  <2>6. receiver' = receiver /\ held' = held
    BY <1>3
  <2>7. QED
    BY <1>4, <2>1, <2>2, <2>3, <2>4, <2>5, <2>6 DEF BalancedBuffers
<1>8. QED
  BY <1>6, <1>7 DEF Balance

LEMMA ParseMessageBalance == ASSUME Inv, Balance, ParseMessage PROVE Balance'
<1>1. TypedMain /\ mem \in Pools /\ main.values = << >> /\ OwnPlaces
  BY DEF Inv, Typed, ShapedMain, ParseMessage, MainOnly, OwnPlaces
<1>2. PICK value : value = UTLT_Malloc(mem, ValueSize)
  OBVIOUS
<1>3. \/ mem' = mem /\ SamePlaces(main, main')
      \/ /\ value.ok /\ mem' = value.mem /\ main'.event = main.event /\ main'.msg = main.msg
         /\ main'.values = <<value.blk>> /\ main'.body = main.body /\ main'.packet = main.packet
  BY <1>1, <1>2 DEF ParseMessage, TypedMain, SamePlaces
<1>4. CASE mem' = mem /\ SamePlaces(main, main')
  BY <1>1, <1>4, SamePlacesBalance
<1>5. CASE value.ok /\ mem' = value.mem /\ main'.event = main.event /\ main'.msg = main.msg
           /\ main'.values = <<value.blk>> /\ main'.body = main.body /\ main'.packet = main.packet
  <2>1. ~Refused(mem, ValueSize + Word, value)
    BY <1>5, Outcome
  <2>2. Took(mem, mem', value.blk) /\ mem'.blk = mem.blk
    BY <1>1, <1>2, <1>5, <2>1, MallocEffect DEF Supplied
  <2>3. OwnHeaders
    <3>1. MainHeaders(main') = MainHeaders(main)
      BY <1>5 DEF MainHeaders
    <3>2. QED
      BY <2>2, <3>1, Numbers DEF OwnHeaders
  <2>4. ASSUME NEW c \in Classes PROVE OwnBuffers(c)
    <3>1. /\ CountOf(main'.values, c) = One(value.blk, c) /\ CountOf(main.values, c) = 0
          /\ mem'.buf[c] = mem.buf[c] - One(value.blk, c) /\ One(value.blk, c) \in Int
          /\ mem.buf[c] \in Int
      BY <1>1, <1>5, <2>2, CountIsOne, CountEmpty, OneType, Numbers DEF Took
    <3>2. MainBuffers(main', c) = MainBuffers(main, c) + One(value.blk, c)
      BY <1>5, <3>1, MainNumbers DEF MainBuffers
    <3>3. QED
      BY <3>1, <3>2, Numbers DEF OwnBuffers
  <2>5. QED
    BY <1>1, <2>3, <2>4, OwnBalance
<1>6. QED
  BY <1>3, <1>4, <1>5

LEMMA NotAnsweredBalance == ASSUME Inv, Balance, NotAnswered PROVE Balance'
<1>1. OwnPlaces /\ mem' = mem /\ SamePlaces(main, main')
  BY DEF NotAnswered, MainOnly, OwnPlaces, SamePlaces, Inv, TypedMain
<1>2. QED
  BY <1>1, SamePlacesBalance

LEMMA HandleWithoutNodeBalance == ASSUME Inv, Balance, HandleWithoutNode PROVE Balance'
<1>1. OwnPlaces /\ mem' = mem /\ SamePlaces(main, main')
  BY DEF HandleWithoutNode, MainOnly, OwnPlaces, SamePlaces
<1>2. QED
  BY <1>1, SamePlacesBalance

LEMMA BuildBodyBalance == ASSUME Inv, Balance, BuildBody PROVE Balance'
<1>1. PICK had : had = BufblkAlloc(mem, 0)
  OBVIOUS
<1>2. TypedMain /\ mem \in Pools /\ main.body = << >> /\ OwnPlaces
  BY DEF Inv, Typed, ShapedMain, BuildBody, MainOnly, OwnPlaces
<1>3. /\ mem' = had.mem
      /\ main' = IF had.ok THEN [main EXCEPT !.pc = "build", !.body = <<had.blk>>]
                 ELSE [main EXCEPT !.pc = "free"]
  BY <1>1 DEF BuildBody
<1>4. CASE had = Failed(mem)
  <2>1. mem' = mem /\ main' = [main EXCEPT !.pc = "free"]
    BY <1>3, <1>4, Outcome
  <2>2. SamePlaces(main, main')
    BY <1>2, <2>1 DEF SamePlaces, TypedMain
  <2>3. QED
    BY <1>2, <2>1, <2>2, SamePlacesBalance
<1>5. CASE Supplied(mem, 0, had) /\ had.mem.blk = mem.blk - 1
  <2>1. main' = [main EXCEPT !.pc = "build", !.body = <<had.blk>>]
    BY <1>3, <1>5, Outcome
  <2>2. /\ main'.body = <<had.blk>> /\ main'.event = main.event /\ main'.msg = main.msg
        /\ main'.values = main.values /\ main'.packet = main.packet
    BY <1>2, <2>1 DEF TypedMain
  <2>3. Took(mem, mem', had.blk) /\ mem'.blk = mem.blk - 1
    BY <1>3, <1>5 DEF Supplied
  <2>4. OwnHeaders
    <3>1. Len(main'.body) = 1 /\ Len(main.body) = 0
      BY <1>2, <2>2
    <3>2. PICK e \in Int, m \in Int, p \in Int :
            e = Len(main.event) /\ m = Len(main.msg) /\ p = Len(main.packet)
      BY MainNumbers
    <3>3. MainHeaders(main) = e + m + 0 + p /\ MainHeaders(main') = e + m + 1 + p
      BY <2>2, <3>1, <3>2 DEF MainHeaders
    <3>4. MainHeaders(main') = MainHeaders(main) + 1
      BY ONLY <3>3, e \in Int, m \in Int, p \in Int
    <3>5. QED
      BY <2>3, <3>4, Numbers DEF OwnHeaders
  <2>5. ASSUME NEW c \in Classes PROVE OwnBuffers(c)
    <3>1. /\ CountOf(main'.body, c) = One(had.blk, c) /\ CountOf(main.body, c) = 0
          /\ mem'.buf[c] = mem.buf[c] - One(had.blk, c) /\ One(had.blk, c) \in Int
          /\ mem.buf[c] \in Int
      BY <1>2, <2>2, <2>3, CountIsOne, CountEmpty, OneType, Numbers DEF Took
    <3>2. MainBuffers(main', c) = MainBuffers(main, c) + One(had.blk, c)
      BY <2>2, <3>1, MainNumbers DEF MainBuffers
    <3>3. QED
      BY <3>1, <3>2, Numbers DEF OwnBuffers
  <2>6. QED
    BY <1>2, <2>4, <2>5, OwnBalance
<1>6. QED
  BY <1>1, <1>2, <1>4, <1>5, BlockAllocEffect

LEMMA AppendIeBalance == ASSUME Inv, Balance, AppendIe PROVE Balance'
<1>1. /\ TypedMain /\ main.body # << >> /\ main.body \in AtMostOne(Block) /\ OwnPlaces
  BY DEF Inv, ShapedMain, TypedMain, AppendIe, MainOnly, OwnPlaces
<1>2. CASE UNCHANGED <<mem, main>>
  BY <1>1, <1>2, SamePlacesBalance DEF SamePlaces
<1>3. ASSUME NEW ie, NEW grown, IeAppended(ie, grown) PROVE Balance'
  <2>1. /\ main'.body = <<grown.blk>> /\ main'.event = main.event /\ main'.msg = main.msg
        /\ main'.values = main.values /\ main'.packet = main.packet
    BY <1>1, <1>3 DEF TypedMain, IeAppended
  <2>2. OwnHeaders
    <3>1. Len(main'.body) = 1 /\ Len(main.body) = 1
      BY <1>1, <2>1, Held
    <3>2. MainHeaders(main') = MainHeaders(main)
      BY <2>1, <3>1 DEF MainHeaders
    <3>3. mem'.blk = mem.blk
      BY <1>3, Numbers DEF IeAppended, Grown
    <3>4. QED
      BY <3>2, <3>3, Numbers DEF OwnHeaders
  <2>3. ASSUME NEW c \in Classes PROVE OwnBuffers(c)
    <3>1. /\ CountOf(main'.body, c) = One(grown.blk, c) /\ CountOf(main.body, c) = One(main.body[1], c)
          /\ One(ie.blk, c) \in Int /\ One(grown.blk, c) \in Int /\ One(main.body[1], c) \in Int
          /\ mem.buf[c] \in Int
      BY <1>1, <2>1, CountIsOne, CountPlace, OneType, Numbers
    <3>2. /\ ie.mem.buf[c] = mem.buf[c] - One(ie.blk, c)
          /\ grown.mem.buf[c] = ie.mem.buf[c] + One(main.body[1], c) - One(grown.blk, c)
          /\ mem'.buf[c] = grown.mem.buf[c] + One(ie.blk, c)
      BY <1>3 DEF IeAppended, Supplied, Took, Grown, Gave
    <3>3. mem'.buf[c] = mem.buf[c] + One(main.body[1], c) - One(grown.blk, c)
      BY <3>1, <3>2
    <3>4. MainBuffers(main', c) = MainBuffers(main, c) - One(main.body[1], c) + One(grown.blk, c)
      BY <2>1, <3>1, MainNumbers DEF MainBuffers
    <3>5. QED
      BY <3>1, <3>3, <3>4, Numbers DEF OwnBuffers
  <2>4. QED
    BY <1>1, <2>2, <2>3, OwnBalance
<1>4. QED
  BY <1>2, <1>3, AppendIeEffect

LEMMA UpdateTxBalance == ASSUME Inv, Balance, PfcpXactUpdateTx PROVE Balance'
<1>1. /\ TypedMain /\ main.body # << >> /\ main.body \in AtMostOne(Block) /\ OwnPlaces
      /\ main.packet = << >>
  BY DEF Inv, ShapedMain, TypedMain, PfcpXactUpdateTx, MainOnly, OwnPlaces
<1>2. Len(main.body) = 1 /\ Len(main.packet) = 0
  BY <1>1, Held
<1>3. \A c \in Classes : CountOf(main.body, c) = One(main.body[1], c) /\ CountOf(main.packet, c) = 0
  BY <1>1, CountPlace, CountEmpty
<1>4. CASE NotPacked
  <2>1. /\ main'.body = << >> /\ main'.event = main.event /\ main'.msg = main.msg
        /\ main'.values = main.values /\ main'.packet = main.packet
    BY <1>1, <1>4 DEF TypedMain, NotPacked
  <2>2. OwnHeaders
    <3>1. PICK e \in Int, m \in Int : e = Len(main.event) /\ m = Len(main.msg)
      BY MainNumbers
    <3>2. MainHeaders(main) = e + m + 1 + 0 /\ MainHeaders(main') = e + m + 0 + 0
      <4>1. Len(main'.body) = 0
        BY <2>1
      <4>2. QED
        BY <1>2, <2>1, <3>1, <4>1 DEF MainHeaders
    <3>3. MainHeaders(main') = MainHeaders(main) - 1
      BY ONLY <3>2, e \in Int, m \in Int
    <3>4. QED
      BY <1>4, <3>3, Numbers DEF OwnHeaders, NotPacked
  <2>3. ASSUME NEW c \in Classes PROVE OwnBuffers(c)
    <3>1. /\ CountOf(main'.body, c) = 0 /\ CountOf(main.body, c) = One(main.body[1], c)
          /\ One(main.body[1], c) \in Int /\ mem.buf[c] \in Int
          /\ mem'.buf[c] = mem.buf[c] + One(main.body[1], c)
      BY <1>3, <1>4, <2>1, CountEmpty, OneType, Numbers DEF NotPacked, Gave
    <3>2. MainBuffers(main', c) = MainBuffers(main, c) - One(main.body[1], c)
      BY <2>1, <3>1, MainNumbers DEF MainBuffers
    <3>3. QED
      BY <3>1, <3>2, Numbers DEF OwnBuffers
  <2>4. QED
    BY <1>1, <2>2, <2>3, OwnBalance
<1>5. ASSUME NEW blk, Packed(blk) PROVE Balance'
  <2>1. /\ main'.body = << >> /\ main'.event = main.event /\ main'.msg = main.msg
        /\ main'.values = main.values /\ main'.packet = <<blk>>
    BY <1>1, <1>5 DEF TypedMain, Packed
  <2>2. OwnHeaders
    <3>1. Len(main'.packet) = 1 /\ Len(main'.body) = 0
      BY <2>1
    <3>2. MainHeaders(main') = MainHeaders(main)
      BY <1>2, <2>1, <3>1, MainNumbers DEF MainHeaders
    <3>3. QED
      BY <1>5, <3>2, Numbers DEF OwnHeaders, Packed
  <2>3. ASSUME NEW c \in Classes PROVE OwnBuffers(c)
    <3>1. /\ CountOf(main'.body, c) = 0 /\ CountOf(main.body, c) = One(main.body[1], c)
          /\ CountOf(main'.packet, c) = One(blk, c) /\ CountOf(main.packet, c) = 0
          /\ One(main.body[1], c) \in Int /\ One(blk, c) \in Int /\ mem.buf[c] \in Int
          /\ mem'.buf[c] = mem.buf[c] + One(main.body[1], c) - One(blk, c)
      BY <1>3, <1>5, <2>1, CountEmpty, CountIsOne, OneType, Numbers DEF Packed
    <3>2. MainBuffers(main', c) = MainBuffers(main, c) - One(main.body[1], c) + One(blk, c)
      BY SMTT(60), <2>1, <3>1, MainNumbers DEF MainBuffers
    <3>3. QED
      BY <3>1, <3>2, Numbers DEF OwnBuffers
  <2>4. QED
    BY <1>1, <2>2, <2>3, OwnBalance
<1>6. QED
  BY <1>4, <1>5, UpdateTxEffect

LEMMA PfcpSendBalance == ASSUME Inv, Balance, PfcpSend PROVE Balance'
<1>1. /\ held' = Append(held, main.packet[1])
      /\ main' = [main EXCEPT !.pc = "free", !.packet = << >>]
      /\ mem' = mem /\ queue' = queue /\ receiver' = receiver /\ upfN4List' = upfN4List
  BY DEF PfcpSend, MainOnly
<1>2. /\ TypedMain /\ main.packet # << >> /\ main.packet \in AtMostOne(Block) /\ held \in Seq(Block)
  BY DEF Inv, Typed, TypedMain, ShapedMain, PfcpSend
<1>3. /\ main'.packet = << >> /\ main'.event = main.event /\ main'.msg = main.msg
      /\ main'.values = main.values /\ main'.body = main.body
  BY <1>1, <1>2 DEF TypedMain
<1>4. main.packet[1] \in Block /\ Len(main.packet) = 1
  BY <1>2, Held
<1>5. SaLists' = SaLists
  BY <1>1 DEF SaLists
<1>6. BalancedHeaders'
  <2>1. PICK e \in Int, m \in Int, b \in Int, r \in Int, q \in Int, h \in Int :
          /\ e = Len(main.event) /\ m = Len(main.msg) /\ b = Len(main.body)
          /\ r = Len(receiver.blk) /\ q = Len(queue) /\ h = Len(held)
    BY MainNumbers, Numbers
  <2>2. MainHeaders(main) = e + m + b + 1 /\ MainHeaders(main') = e + m + b + 0
    <3>1. Len(main'.packet) = 0
      BY <1>3
    <3>2. QED
      BY <1>3, <1>4, <2>1, <3>1 DEF MainHeaders
  <2>3. Len(held') = h + 1
    BY <1>1, <1>2, <1>4, <2>1, AppendProperties
  <2>4. mem.blk + r + q + MainHeaders(main) + h = Blocks /\ mem.blk \in Int
    BY <2>1, Numbers DEF Balance, BalancedHeaders
  <2>5. mem.blk + r + q + MainHeaders(main') + (h + 1) = Blocks
    BY ONLY <2>2, <2>4, e \in Int, m \in Int, b \in Int, r \in Int, q \in Int, h \in Int
  <2>6. QED
    BY <1>1, <2>1, <2>3, <2>5 DEF BalancedHeaders
<1>7. ASSUME NEW c \in Classes PROVE BalancedBuffers(c)'
  <2>1. /\ CountOf(main.packet, c) = One(main.packet[1], c) /\ CountOf(main'.packet, c) = 0
        /\ CountOf(held', c) = CountOf(held, c) + One(main.packet[1], c)
        /\ One(main.packet[1], c) \in Int
    BY <1>1, <1>2, <1>3, <1>4, CountPlace, CountEmpty, CountAppend, OneType
  <2>2. MainBuffers(main', c) = MainBuffers(main, c) - One(main.packet[1], c)
    BY <1>3, <2>1, MainNumbers DEF MainBuffers
  <2>3. /\ mem.buf[c] + CountOf(receiver.blk, c) + CountOf(Recvs(queue), c) + MainBuffers(main, c)
             + CountOf(held, c) + CountOf(SaLists, c) = PerClass
        /\ mem.buf[c] \in Nat /\ CountOf(receiver.blk, c) \in Nat
        /\ CountOf(Recvs(queue), c) \in Nat /\ MainBuffers(main, c) \in Nat
        /\ CountOf(held, c) \in Nat /\ CountOf(SaLists, c) \in Nat
    BY Numbers DEF Balance, BalancedBuffers
  <2>4. mem.buf[c] + CountOf(receiver.blk, c) + CountOf(Recvs(queue), c) + MainBuffers(main', c)
          + CountOf(held', c) + CountOf(SaLists, c) = PerClass
    BY ONLY <2>1, <2>2, <2>3
  <2>5. QED
    BY <1>1, <1>5, <2>4 DEF BalancedBuffers
<1>8. QED
  BY <1>6, <1>7 DEF Balance

LEMMA FreeMessageBalance == ASSUME Inv, Balance, FreeMessage PROVE Balance'
<1>1. PICK noValues, noMessage : Freed(noValues, noMessage)
  BY FreeMessageEffect
<1>2. /\ TypedMain /\ OwnPlaces /\ main.event # << >> /\ main.body = << >> /\ main.packet = << >>
      /\ main.event \in AtMostOne(Event) /\ main.msg \in AtMostOne(Block)
      /\ main.values \in AtMostOne(Buffer)
      /\ main'.event = << >> /\ main'.msg = << >> /\ main'.values = << >>
      /\ main'.body = << >> /\ main'.packet = << >>
  BY DEF Inv, TypedMain, ShapedMain, FreeMessage, MainOnly, OwnPlaces, Waiting
<1>3. OwnHeaders
  <2>1. MainHeaders(main') = 0
    BY <1>2 DEF MainHeaders
  <2>2. PICK m \in Int : m = Len(main.msg)
    BY MainNumbers
  <2>3. MainHeaders(main) = 1 + m + 0 + 0
    <3>1. Len(main.event) = 1 /\ Len(main.body) = 0 /\ Len(main.packet) = 0
      BY <1>2, Held
    <3>2. QED
      BY <2>2, <3>1 DEF MainHeaders
  <2>4. mem.blk \in Int
    BY Numbers
  <2>5. noValues.blk = mem.blk
    BY <1>1 DEF Freed
  <2>6. noMessage.blk = mem.blk + m
    <3>1. CASE main.msg = << >>
      <4>1. m = 0
        BY <2>2, <3>1
      <4>2. noMessage = noValues
        BY <1>1, <3>1 DEF Freed
      <4>3. QED
        BY <2>4, <2>5, <4>1, <4>2
    <3>2. CASE main.msg # << >>
      <4>1. m = 1
        BY <1>2, <2>2, <3>2, Held
      <4>2. noMessage.blk = noValues.blk + 1
        BY <1>1, <3>2 DEF Freed
      <4>3. QED
        BY <2>4, <2>5, <4>1, <4>2
    <3>3. QED
      BY <3>1, <3>2
  <2>7. mem'.blk = noMessage.blk + 1
    BY <1>1 DEF Freed
  <2>8. QED
    BY <2>1, <2>3, <2>4, <2>6, <2>7 DEF OwnHeaders
<1>4. ASSUME NEW c \in Classes PROVE OwnBuffers(c)
  <2>1. MainBuffers(main', c) = 0
    BY <1>2, CountEmpty, RecvsEmpty DEF MainBuffers
  <2>2. PICK v \in Int, m \in Int, e \in Int :
          /\ v = CountOf(main.values, c) /\ m = CountOf(main.msg, c)
          /\ e = CountOf(Recvs(main.event), c)
    BY MainNumbers
  <2>3. MainBuffers(main, c) = e + m + v
    <3>1. CountOf(main.body, c) = 0 /\ CountOf(main.packet, c) = 0
      BY <1>2, CountEmpty
    <3>2. QED
      BY <2>2, <3>1 DEF MainBuffers
  <2>4. mem.buf[c] \in Int
    BY Numbers
  <2>5. noValues.buf[c] = mem.buf[c] + v
    <3>1. CASE main.values = << >>
      BY <1>1, <2>2, <2>4, <3>1, CountEmpty DEF Freed
    <3>2. CASE main.values # << >>
      <4>1. v = One(main.values[1], c)
        BY <1>2, <2>2, <3>2, CountPlace
      <4>2. QED
        BY <1>1, <3>2, <4>1 DEF Freed, Gave
    <3>3. QED
      BY <3>1, <3>2
  <2>6. noMessage.buf[c] = noValues.buf[c] + m
    <3>1. CASE main.msg = << >>
      BY <1>1, <2>2, <2>4, <2>5, <3>1, CountEmpty DEF Freed
    <3>2. CASE main.msg # << >>
      <4>1. m = One(main.msg[1], c)
        BY <1>2, <2>2, <3>2, CountPlace
      <4>2. QED
        BY <1>1, <3>2, <4>1 DEF Freed, Gave
    <3>3. QED
      BY <3>1, <3>2
  <2>7. mem'.buf[c] = noMessage.buf[c] + e
    <3>1. PICK event \in Event : main.event = <<event>>
      BY <1>2 DEF AtMostOne
    <3>2. e = One(event.recv, c) /\ main.event[1].recv = event.recv
      BY <2>2, <3>1, RecvsOne, CountIsOne
    <3>3. QED
      BY <1>1, <3>2 DEF Freed, Gave
  <2>8. QED
    BY <2>1, <2>3, <2>4, <2>5, <2>6, <2>7 DEF OwnBuffers
<1>5. QED
  BY <1>2, <1>3, <1>4, OwnBalance

LEMMA XactEndsBalance == ASSUME Inv, Balance, XactEnds PROVE Balance'
<1>1. /\ mem' = BufblkFree(mem, Head(held)) /\ held' = Tail(held) /\ held # << >>
      /\ queue' = queue /\ main' = main /\ upfN4List' = upfN4List /\ receiver' = receiver
  BY DEF XactEnds, MainOnly
<1>2. mem \in Pools /\ held \in Seq(Block)
  BY DEF Inv, Typed
<1>3. Head(held) \in Buffer
  BY <1>1, <1>2, HeadTailProperties, BlockIsBuffer
<1>4. Gave(mem, mem', Head(held)) /\ mem'.blk = mem.blk + 1
  BY <1>1, <1>2, <1>3, FreeEffect
<1>5. SaLists' = SaLists
  BY <1>1 DEF SaLists
<1>6. BalancedHeaders'
  <2>1. PICK r \in Int, q \in Int, h \in Int :
          r = Len(receiver.blk) /\ q = Len(queue) /\ h = Len(held)
    BY Numbers
  <2>2. Len(held') = h - 1
    BY <1>1, <1>2, <2>1, HeadTailProperties
  <2>3. mem.blk + r + q + MainHeaders(main) + h = Blocks /\ mem.blk \in Int /\ MainHeaders(main) \in Int
    BY <2>1, Numbers DEF Balance, BalancedHeaders
  <2>4. (mem.blk + 1) + r + q + MainHeaders(main) + (h - 1) = Blocks
    BY ONLY <2>3, r \in Int, q \in Int, h \in Int
  <2>5. QED
    BY <1>1, <1>4, <2>1, <2>2, <2>4 DEF BalancedHeaders
<1>7. ASSUME NEW c \in Classes PROVE BalancedBuffers(c)'
  <2>1. held' \in Seq(Block)
    BY <1>1, <1>2, HeadTailProperties
  <2>2. /\ CountOf(held, c) = One(Head(held), c) + CountOf(held', c)
        /\ One(Head(held), c) \in Int /\ CountOf(held', c) \in Int
        /\ mem'.buf[c] = mem.buf[c] + One(Head(held), c)
    <3>1. CountOf(held, c) = One(Head(held), c) + CountOf(held', c)
      BY <1>1, <1>2, CountTail
    <3>2. CountOf(held', c) \in Int
      BY <2>1, CountFinite
    <3>3. mem'.buf[c] = mem.buf[c] + One(Head(held), c)
      BY <1>4 DEF Gave
    <3>4. QED
      BY <3>1, <3>2, <3>3, OneType
  <2>3. /\ mem.buf[c] + CountOf(receiver.blk, c) + CountOf(Recvs(queue), c) + MainBuffers(main, c)
             + CountOf(held, c) + CountOf(SaLists, c) = PerClass
        /\ mem.buf[c] \in Nat /\ CountOf(receiver.blk, c) \in Nat
        /\ CountOf(Recvs(queue), c) \in Nat /\ MainBuffers(main, c) \in Nat
        /\ CountOf(SaLists, c) \in Nat
    BY Numbers DEF Balance, BalancedBuffers
  <2>4. mem'.buf[c] + CountOf(receiver.blk, c) + CountOf(Recvs(queue), c) + MainBuffers(main, c)
          + CountOf(held', c) + CountOf(SaLists, c) = PerClass
    BY ONLY <2>2, <2>3
  <2>5. QED
    BY <1>1, <1>5, <2>4 DEF BalancedBuffers
<1>8. QED
  BY <1>6, <1>7 DEF Balance

LEMMA NextBalance == ASSUME RoomForNode, Inv, Balance, [Next]_vars PROVE Balance'
<1>1. CASE Receiver
  BY <1>1, ReceiveAllocBalance, RecvNothingBalance, VersionNotSupportedBalance, FindNodeBalance,
     EventSendBalance, RecvFromBalance DEF Receiver
<1>2. CASE Main
  BY <1>2, DispatchBalance, ParseMessageBalance, NotAnsweredBalance, HandleWithoutNodeBalance,
     BuildBodyBalance, AppendIeBalance, UpdateTxBalance, PfcpSendBalance, FreeMessageBalance,
     XactEndsBalance DEF Main
<1>3. CASE UNCHANGED vars
  BY <1>3, SameBalance DEF vars
<1>4. QED
  BY <1>1, <1>2, <1>3 DEF Next

\* A place more, with its headers and its buffers.
LEMMA OnePlaceMore ==
  ASSUME NEW s \in Seq(Buffer), NEW t \in Seq(Buffer)
  PROVE  /\ s \o t \in Seq(Buffer) /\ Len(s \o t) = Len(s) + Len(t)
         /\ \A c : CountOf(s \o t, c) = CountOf(s, c) + CountOf(t, c)
  BY ConcatProperties, CountConcat

LEMMA BlocksAreBuffers == \A s \in Seq(Block) : s \in Seq(Buffer)
<1> SUFFICES ASSUME NEW s \in Seq(Block) PROVE s \in Seq(Buffer)
  OBVIOUS
<1>1. Len(s) \in Nat /\ DOMAIN s = 1 .. Len(s) /\ \A i \in 1 .. Len(s) : s[i] \in Block
  BY LenProperties, ElementOfSeq
<1>2. s = [i \in 1 .. Len(s) |-> s[i]] /\ \A i \in 1 .. Len(s) : s[i] \in Buffer
  BY <1>1, BlockIsBuffer
<1>3. QED
  BY <1>1, <1>2

\* What is held, counted place by place.
LEMMA HeldCounted ==
  ASSUME Inv
  PROVE  /\ Len(HeldBlocks) = Len(receiver.blk) + Len(queue) + MainHeaders(main) + Len(held)
         /\ \A c \in Classes :
              CountOf(HeldBuffers, c) = CountOf(receiver.blk, c) + CountOf(Recvs(queue), c)
                + MainBuffers(main, c) + CountOf(held, c) + CountOf(SaLists, c)
<1>1. /\ receiver.blk \in Seq(Buffer) /\ Recvs(queue) \in Seq(Buffer)
      /\ Recvs(main.event) \in Seq(Buffer) /\ main.msg \in Seq(Buffer)
      /\ main.body \in Seq(Buffer) /\ main.packet \in Seq(Buffer) /\ held \in Seq(Buffer)
      /\ main.values \in Seq(Buffer) /\ SaLists \in Seq(Buffer)
  BY Places, BlocksAreBuffers
<1>2. PICK s1 \in Seq(Buffer) : s1 = receiver.blk \o Recvs(queue)
  BY <1>1, OnePlaceMore
<1>3. PICK s2 \in Seq(Buffer) : s2 = s1 \o Recvs(main.event)
  BY <1>1, OnePlaceMore
<1>4. PICK s3 \in Seq(Buffer) : s3 = s2 \o main.msg
  BY <1>1, OnePlaceMore
<1>5. PICK s4 \in Seq(Buffer) : s4 = s3 \o main.body
  BY <1>1, OnePlaceMore
<1>6. PICK s5 \in Seq(Buffer) : s5 = s4 \o main.packet
  BY <1>1, OnePlaceMore
<1>7. PICK s6 \in Seq(Buffer) : s6 = s5 \o held
  BY <1>1, OnePlaceMore
<1>8. PICK s7 \in Seq(Buffer) : s7 = s6 \o main.values
  BY <1>1, OnePlaceMore
<1>9. PICK s8 \in Seq(Buffer) : s8 = s7 \o SaLists
  BY <1>1, OnePlaceMore
<1>10. HeldBlocks = s6
  BY <1>2, <1>3, <1>4, <1>5, <1>6, <1>7 DEF HeldBlocks, Recvs
<1>11. HeldBuffers = s8
  BY <1>8, <1>9, <1>10 DEF HeldBuffers, SaLists
<1>12. Len(HeldBlocks) = Len(receiver.blk) + Len(queue) + MainHeaders(main) + Len(held)
  <2>1. PICK r \in Int, q \in Int, h \in Int, e \in Int, m \in Int, b \in Int, p \in Int :
          /\ r = Len(receiver.blk) /\ q = Len(queue) /\ h = Len(held) /\ e = Len(main.event)
          /\ m = Len(main.msg) /\ b = Len(main.body) /\ p = Len(main.packet)
    BY Numbers, MainNumbers
  <2>2. q = Len(Recvs(queue)) /\ e = Len(Recvs(main.event))
    BY <2>1, Places, RecvsSeq
  <2>3. /\ Len(s1) = Len(receiver.blk) + Len(Recvs(queue))
        /\ Len(s2) = Len(s1) + Len(Recvs(main.event))
        /\ Len(s3) = Len(s2) + Len(main.msg)
        /\ Len(s4) = Len(s3) + Len(main.body)
        /\ Len(s5) = Len(s4) + Len(main.packet)
        /\ Len(s6) = Len(s5) + Len(held)
    <3>1. Len(s1) = Len(receiver.blk) + Len(Recvs(queue))
      BY <1>1, <1>2, OnePlaceMore
    <3>2. Len(s2) = Len(s1) + Len(Recvs(main.event))
      BY <1>1, <1>3, OnePlaceMore
    <3>3. Len(s3) = Len(s2) + Len(main.msg)
      BY <1>1, <1>4, OnePlaceMore
    <3>4. Len(s4) = Len(s3) + Len(main.body)
      BY <1>1, <1>5, OnePlaceMore
    <3>5. Len(s5) = Len(s4) + Len(main.packet)
      BY <1>1, <1>6, OnePlaceMore
    <3>6. Len(s6) = Len(s5) + Len(held)
      BY <1>1, <1>7, OnePlaceMore
    <3>7. QED
      BY <3>1, <3>2, <3>3, <3>4, <3>5, <3>6
  <2>8. Len(s6) = r + q + e + m + b + p + h
    BY <2>1, <2>2, <2>3, Zenon
  <2>9. MainHeaders(main) = e + m + b + p
    BY <2>1 DEF MainHeaders
  <2>10. r + q + e + m + b + p + h = r + q + MainHeaders(main) + h
    BY ONLY <2>9, r \in Int, q \in Int, h \in Int, e \in Int, m \in Int, b \in Int, p \in Int
  <2>11. QED
    BY <1>10, <2>1, <2>8, <2>10
<1>13. ASSUME NEW c \in Classes
       PROVE  CountOf(HeldBuffers, c) = CountOf(receiver.blk, c) + CountOf(Recvs(queue), c)
                + MainBuffers(main, c) + CountOf(held, c) + CountOf(SaLists, c)
  <2>1. CountOf(s1, c) = CountOf(receiver.blk, c) + CountOf(Recvs(queue), c)
    BY SMTT(60), <1>1, <1>2, OnePlaceMore
  <2>2. CountOf(s2, c) = CountOf(s1, c) + CountOf(Recvs(main.event), c)
    BY <1>1, <1>3, OnePlaceMore
  <2>3. CountOf(s3, c) = CountOf(s2, c) + CountOf(main.msg, c)
    BY <1>1, <1>4, OnePlaceMore
  <2>4. CountOf(s4, c) = CountOf(s3, c) + CountOf(main.body, c)
    BY <1>1, <1>5, OnePlaceMore
  <2>5. CountOf(s5, c) = CountOf(s4, c) + CountOf(main.packet, c)
    BY <1>1, <1>6, OnePlaceMore
  <2>6. CountOf(s6, c) = CountOf(s5, c) + CountOf(held, c)
    BY <1>1, <1>7, OnePlaceMore
  <2>7. CountOf(s7, c) = CountOf(s6, c) + CountOf(main.values, c)
    BY <1>1, <1>8, OnePlaceMore
  <2>8. CountOf(s8, c) = CountOf(s7, c) + CountOf(SaLists, c)
    BY <1>1, <1>9, OnePlaceMore
  <2>9. /\ CountOf(receiver.blk, c) \in Nat /\ CountOf(Recvs(queue), c) \in Nat
        /\ CountOf(Recvs(main.event), c) \in Nat /\ CountOf(main.msg, c) \in Nat
        /\ CountOf(main.body, c) \in Nat /\ CountOf(main.packet, c) \in Nat
        /\ CountOf(held, c) \in Nat /\ CountOf(main.values, c) \in Nat
        /\ CountOf(SaLists, c) \in Nat
    BY Numbers, MainNumbers
  <2>10. MainBuffers(main, c) = CountOf(Recvs(main.event), c) + CountOf(main.msg, c)
           + CountOf(main.body, c) + CountOf(main.packet, c) + CountOf(main.values, c)
    BY DEF MainBuffers
  <2>11. CountOf(s8, c) = CountOf(receiver.blk, c) + CountOf(Recvs(queue), c)
           + MainBuffers(main, c) + CountOf(held, c) + CountOf(SaLists, c)
    <3>1. PICK r \in Nat, q \in Nat, h \in Nat, e \in Nat, m \in Nat, b \in Nat, p \in Nat,
               v \in Nat, l \in Nat :
            /\ r = CountOf(receiver.blk, c) /\ q = CountOf(Recvs(queue), c)
            /\ e = CountOf(Recvs(main.event), c) /\ m = CountOf(main.msg, c)
            /\ b = CountOf(main.body, c) /\ p = CountOf(main.packet, c)
            /\ h = CountOf(held, c) /\ v = CountOf(main.values, c) /\ l = CountOf(SaLists, c)
      BY <2>9, Zenon
    <3>2. CountOf(s8, c) = r + q + e + m + b + p + h + v + l
      BY <2>1, <2>2, <2>3, <2>4, <2>5, <2>6, <2>7, <2>8, <3>1, Zenon
    <3>3. MainBuffers(main, c) = e + m + b + p + v
      BY <2>10, <3>1, Zenon
    <3>4. r + q + e + m + b + p + h + v + l = r + q + MainBuffers(main, c) + h + l
      BY ONLY <3>3, r \in Nat, q \in Nat, h \in Nat, e \in Nat, m \in Nat, b \in Nat, p \in Nat,
         v \in Nat, l \in Nat
    <3>5. QED
      BY <3>1, <3>2, <3>4, Zenon
  <2>12. QED
    BY <1>11, <2>11
<1>14. QED
  BY <1>12, <1>13

(***************************************************************************)
(* Where there is memory for a node, every header and every buffer is free *)
(* or held by one place, in every run, whatever the sizes of the pools and *)
(* of the messages and whichever allocation fails.                         *)
(***************************************************************************)
THEOREM BuffersAlwaysConserved == ASSUME RoomForNode PROVE Spec => []BuffersConserved
<1>1. Init => Inv /\ Balance
  BY InitInv, InitBalance
<1>2. (Inv /\ Balance) /\ [Next]_vars => (Inv /\ Balance)'
  BY NextInv, NextBalance
<1>3. Inv /\ Balance => BuffersConserved
  <2> SUFFICES ASSUME Inv, Balance PROVE BuffersConserved
    OBVIOUS
  <2>1. PICK n \in Nat : n = Len(receiver.blk) + Len(queue) + MainHeaders(main) + Len(held)
    <3>1. /\ Len(receiver.blk) \in Nat /\ Len(queue) \in Nat /\ Len(held) \in Nat
          /\ Len(main.event) \in Nat /\ Len(main.msg) \in Nat /\ Len(main.body) \in Nat
          /\ Len(main.packet) \in Nat
      BY Places, LenProperties
    <3>2. MainHeaders(main) \in Nat
      <4>1. PICK e \in Nat, m \in Nat, b \in Nat, p \in Nat :
              /\ e = Len(main.event) /\ m = Len(main.msg) /\ b = Len(main.body)
              /\ p = Len(main.packet)
        BY <3>1
      <4>2. MainHeaders(main) = e + m + b + p
        BY <4>1 DEF MainHeaders
      <4>3. QED
        BY ONLY <4>2, e \in Nat, m \in Nat, b \in Nat, p \in Nat
    <3>3. QED
      BY <3>1, <3>2
  <2>2. mem.blk + n = Blocks /\ mem.blk \in Int /\ mem.blk >= 0
    <3>1. PICK r \in Int, q \in Int, h \in Int :
            r = Len(receiver.blk) /\ q = Len(queue) /\ h = Len(held)
      BY Numbers
    <3>2. mem.blk + r + q + MainHeaders(main) + h = Blocks /\ mem.blk \in Int
          /\ MainHeaders(main) \in Int /\ n = r + q + MainHeaders(main) + h
      BY <2>1, <3>1, Numbers DEF Balance, BalancedHeaders
    <3>3. mem.blk + n = Blocks
      BY ONLY <3>2, r \in Int, q \in Int, h \in Int
    <3>4. QED
      BY <3>2, <3>3 DEF Inv, Typed
  <2>3. ASSUME NEW c \in Classes
        PROVE  /\ mem.buf[c] \in 0 .. PerClass
               /\ mem.buf[c] + CountOf(HeldBuffers, c) = PerClass
    <3>1. /\ mem.buf[c] + CountOf(receiver.blk, c) + CountOf(Recvs(queue), c) + MainBuffers(main, c)
               + CountOf(held, c) + CountOf(SaLists, c) = PerClass
          /\ mem.buf[c] \in Nat /\ CountOf(receiver.blk, c) \in Nat
          /\ CountOf(Recvs(queue), c) \in Nat /\ MainBuffers(main, c) \in Nat
          /\ CountOf(held, c) \in Nat /\ CountOf(SaLists, c) \in Nat
      BY Numbers DEF Balance, BalancedBuffers
    <3>2. CountOf(HeldBuffers, c) = CountOf(receiver.blk, c) + CountOf(Recvs(queue), c)
            + MainBuffers(main, c) + CountOf(held, c) + CountOf(SaLists, c)
      BY HeldCounted
    <3>3. QED
      BY <3>1, <3>2, BufblkAssumption
  <2>4. TypeOK
    <3>1. mem.blk \in 0 .. Blocks
      BY <2>1, <2>2, BufblkAssumption
    <3>2. mem.buf \in [Classes -> 0 .. PerClass]
      BY <2>3 DEF Inv, Typed, Pools
    <3>3. Len(upfN4List) <= 1
      <4>1. upfN4List \in AtMostOne(Node)
        BY DEF Inv, Typed
      <4>2. CASE upfN4List = << >>
        BY <4>2
      <4>3. CASE upfN4List # << >>
        BY <4>1, <4>3, Held
      <4>4. QED
        BY <4>2, <4>3
    <3>4. QED
      BY <3>1, <3>2, <3>3 DEF TypeOK, Inv, Typed, TypedReceiver, TypedMain
  <2>5. mem.blk + Len(HeldBlocks) = Blocks
    BY <2>1, <2>2, HeldCounted
  <2>6. QED
    BY <2>3, <2>4, <2>5 DEF BuffersConserved, CountOf, InClass
<1>4. QED
  BY <1>1, <1>2, <1>3, PTL DEF Spec
=============================================================================

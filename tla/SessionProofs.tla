--------------------------- MODULE SessionProofs ----------------------------
(***************************************************************************)
(* Proofs about the N4 sessions (UpfSession) and the hash table that lists *)
(* them (Hash), for any slots, peers, keys and rules, any first size of    *)
(* the table and any number of sessions.                                   *)
(*                                                                         *)
(* The table is looked at as the set of its entries, each at one place:    *)
(* what HashGet, HashSet and HashDelete do to that set is proved first,    *)
(* growth included.  The session handlers are then maps of contexts that   *)
(* keep SoundContext; the loops over rules and entries are followed step   *)
(* by step along the function their folds recurse on.                      *)
(***************************************************************************)
EXTENDS UpfSession, SequenceLemmas

-----------------------------------------------------------------------------
(* The hash table as a set of entries at places. *)

Entry == [hash : Nat, key : Slots, val : Slots]
Tables == UNION {[array : [0 .. m -> Seq(Entry)], count : Int, max : {m}] : m \in Nat}

\* Where entries are: a chain and a position in it.
Places(ht) == Spots(0 .. ht.max, ht.array)
At(ht, p) == ht.array[p[1]][p[2]]
EntrySet(ht) == {At(ht, p) : p \in Places(ht)}

\* An entry whose hash is of its key, in the chain of its hash.
PlacedAt(he, i, ht, at) ==
  /\ at[he.key] \in Keys
  /\ he.hash = HashfuncDefault(at[he.key])
  /\ i = Chain(he.hash, ht.max)
Placed(ht, at) == \A p \in Places(ht) : PlacedAt(At(ht, p), p[1], ht, at)
Unique(ht, at) ==
  \A p, q \in Places(ht) : at[At(ht, p).key] = at[At(ht, q).key] => p = q
Counted(ht) == IsFiniteSet(Places(ht)) /\ ht.count = Cardinality(Places(ht))

Consistent(ht, at) == ht \in Tables /\ Placed(ht, at) /\ Unique(ht, at) /\ Counted(ht)

\* A table has the fields of its record, and what has them is a table.
LEMMA TableFields ==
  ASSUME NEW ht \in Tables
  PROVE  /\ ht.max \in Nat /\ ht.count \in Int /\ ht.array \in [0 .. ht.max -> Seq(Entry)]
         /\ ht = [array |-> ht.array, count |-> ht.count, max |-> ht.max]
  BY DEF Tables

LEMMA TableOf ==
  ASSUME NEW n, n = [array |-> n.array, count |-> n.count, max |-> n.max],
         n.max \in Nat, n.count \in Int, n.array \in [0 .. n.max -> Seq(Entry)]
  PROVE  n \in Tables
  BY DEF Tables

(* A key hashes to a natural, and a hash has a chain. *)
LEMMA HashRange ==
  ASSUME NEW key \in Nat PROVE HashfuncDefault(key) \in Nat
  BY HashAssumption DEF HashfuncDefault

LEMMA ChainRange ==
  ASSUME NEW h \in Nat, NEW m \in Nat PROVE Chain(h, m) \in 0 .. m
  BY DEF Chain

\* A place is a pair, and an entry stands there.
LEMMA PlaceEntry ==
  ASSUME NEW ht \in Tables, NEW p \in Places(ht)
  PROVE  /\ p = <<p[1], p[2]>> /\ p[1] \in 0 .. ht.max /\ p[2] \in Nat
         /\ p[2] \in 1 .. Len(ht.array[p[1]]) /\ ht.array[p[1]] \in Seq(Entry)
         /\ At(ht, p) \in Entry
<1>1. /\ p = <<p[1], p[2]>> /\ p[1] \in 0 .. ht.max /\ p[2] \in Nat
      /\ p[2] \in 1 .. Len(ht.array[p[1]])
  BY DEF Places, Spots
<1>2. ht.array[p[1]] \in Seq(Entry)
  BY <1>1, TableFields
<1>3. QED
  BY <1>1, <1>2, ElementOfSeq DEF At

(* HashFirst and HashNext meet the entry of each place once. *)
LEMMA EntriesSpell ==
  ASSUME NEW ht \in Tables
  PROVE  Entries(ht) \in Seq(Entry) /\ Spells(Entries(ht), 0 .. ht.max, ht.array)
<1> DEFINE m == ht.max
           a == ht.array
           c == [i \in 1 .. m + 1 |-> a[i - 1]]
           es == FlattenSeq(c)
<1>1. m \in Nat /\ a \in [0 .. m -> Seq(Entry)]
  BY TableFields
<1>2. m + 1 \in Nat \ {0} /\ c \in [1 .. m + 1 -> Seq(Entry)]
  BY <1>1
<1>3. \A i \in 1 .. m + 1 : c[i] = a[i - 1] /\ i - 1 \in 0 .. m
  BY <1>1
<1>4. \A i \in 0 .. m : i + 1 \in 1 .. m + 1 /\ c[i + 1] = a[i]
  BY <1>1
<1>5. Entries(ht) = es
  BY DEF Entries
<1> HIDE DEF c
<1>6. es \in Seq(Entry) /\ Spells(es, 1 .. m + 1, c)
  BY <1>2, FlattenSpells
<1> HIDE DEF es, m, a
<1>7. PICK b : SpelledBy(es, 1 .. m + 1, c, b)
  BY <1>6 DEF Spells
<1> DEFINE d == [x \in 1 .. Len(es) |-> <<b[x][1] - 1, b[x][2]>>]
<1>8. ASSUME NEW x \in 1 .. Len(es)
      PROVE  /\ b[x] = <<b[x][1], b[x][2]>> /\ b[x][1] \in 1 .. m + 1 /\ b[x][2] \in Nat
             /\ b[x][2] \in 1 .. Len(c[b[x][1]]) /\ es[x] = c[b[x][1]][b[x][2]]
  <2>1. b[x] \in Spots(1 .. m + 1, c) /\ es[x] = c[b[x][1]][b[x][2]]
    BY <1>7 DEF SpelledBy
  <2>2. QED
    BY <2>1 DEF Spots
<1>9. \A x \in 1 .. Len(es) : /\ d[x] = <<b[x][1] - 1, b[x][2]>> /\ d[x] \in Spots(0 .. m, a)
                              /\ d[x][1] = b[x][1] - 1 /\ d[x][2] = b[x][2]
  BY <1>3, <1>8 DEF Spots
<1>10. d \in [1 .. Len(es) -> Spots(0 .. m, a)]
  BY <1>9
<1> HIDE DEF d
<1>11. ASSUME NEW x \in 1 .. Len(es), NEW y \in 1 .. Len(es), d[x] = d[y] PROVE x = y
  <2>1. b[x][1] = b[y][1] /\ b[x][2] = b[y][2]
    BY SMTT(60), <1>1, <1>8, <1>9, <1>11
  <2>2. b[x] = b[y]
    BY <1>8, <2>1
  <2>3. QED
    BY <1>7, <2>2 DEF SpelledBy
<1>12. ASSUME NEW p \in Spots(0 .. m, a) PROVE \E x \in 1 .. Len(es) : d[x] = p
  <2>1. p = <<p[1], p[2]>> /\ p[1] \in 0 .. m /\ p[2] \in Nat /\ p[2] \in 1 .. Len(a[p[1]])
    BY DEF Spots
  <2> DEFINE q == <<p[1] + 1, p[2]>>
  <2>2. q \in Spots(1 .. m + 1, c)
    BY <1>4, <2>1 DEF Spots
  <2>3. PICK x \in 1 .. Len(es) : b[x] = q
    BY <1>7, <2>2 DEF SpelledBy
  <2>4. d[x] = <<q[1] - 1, q[2]>>
    BY <1>9, <2>3
  <2>5. d[x] = p
    BY <1>1, <2>1, <2>4
  <2>6. QED
    BY <2>5
<1>13. ASSUME NEW x \in 1 .. Len(es) PROVE es[x] = a[d[x][1]][d[x][2]]
  BY SMTT(60), <1>3, <1>8, <1>9
<1>14. SpelledBy(es, 0 .. m, a, d)
  BY <1>10, <1>11, <1>12, <1>13 DEF SpelledBy
<1>15. QED
  BY <1>5, <1>6, <1>14 DEF Spells, m, a

(* What is spelled has as many elements as there are places, and the same. *)
LEMMA SpelledLength ==
  ASSUME NEW E, NEW es \in Seq(E), NEW I, NEW c, Spells(es, I, c)
  PROVE  /\ IsFiniteSet(Spots(I, c)) /\ Cardinality(Spots(I, c)) = Len(es)
         /\ ToSet(es) = {c[p[1]][p[2]] : p \in Spots(I, c)}
<1>1. PICK b : SpelledBy(es, I, c, b)
  BY DEF Spells
<1>2. Len(es) \in Nat /\ b \in [1 .. Len(es) -> Spots(I, c)]
  BY <1>1, LenProperties DEF SpelledBy
<1>3. b \in Seq(Spots(I, c)) /\ Len(b) = Len(es)
  BY <1>2, LenProperties
<1>4. IsInjective(b) /\ ToSet(b) = Spots(I, c)
  <2>1. \A x, y \in 1 .. Len(b) : b[x] = b[y] => x = y
    BY <1>1, <1>3 DEF SpelledBy
  <2>2. \A p \in Spots(I, c) : \E x \in 1 .. Len(b) : b[x] = p
    BY <1>1, <1>3 DEF SpelledBy
  <2>3. IsInjective(b)
    BY <1>3, <2>1, SeqAsSet
  <2>4. ToSet(b) \subseteq Spots(I, c) /\ \A p \in Spots(I, c) : p \in ToSet(b)
    BY <1>3, <2>2, SeqAsSet
  <2>5. QED
    BY <2>3, <2>4
<1>5. IsFiniteSet(ToSet(b)) /\ Cardinality(ToSet(b)) = Len(b)
  BY <1>3, <1>4, InjectiveLength
<1>6. ToSet(es) = {c[p[1]][p[2]] : p \in Spots(I, c)}
  <2>1. ASSUME NEW e \in ToSet(es) PROVE e \in {c[p[1]][p[2]] : p \in Spots(I, c)}
    <3>1. PICK x \in 1 .. Len(es) : es[x] = e
      BY SeqAsSet
    <3>2. b[x] \in Spots(I, c) /\ e = c[b[x][1]][b[x][2]]
      BY <1>1, <3>1 DEF SpelledBy
    <3>3. QED
      BY <3>2
  <2>2. ASSUME NEW p \in Spots(I, c) PROVE c[p[1]][p[2]] \in ToSet(es)
    <3>1. PICK x \in 1 .. Len(es) : b[x] = p
      BY <1>1 DEF SpelledBy
    <3>2. es[x] = c[p[1]][p[2]]
      BY <1>1, <3>1 DEF SpelledBy
    <3>3. QED
      BY <3>2, SeqAsSet
  <2>3. QED
    BY <2>1, <2>2
<1>7. QED
  BY <1>3, <1>4, <1>5, <1>6

(* A consistent table has the promises of module Hash. *)
LEMMA ConsistentEntries ==
  ASSUME NEW ht, NEW at, Consistent(ht, at)
  PROVE  /\ Entries(ht) \in Seq(Entry) /\ ToSet(Entries(ht)) = EntrySet(ht)
         /\ ht.count = Len(Entries(ht))
         /\ \A i, j \in 1 .. Len(Entries(ht)) :
              at[Entries(ht)[i].key] = at[Entries(ht)[j].key] => i = j
<1> DEFINE es == Entries(ht)
<1>1. ht \in Tables /\ Unique(ht, at) /\ Counted(ht)
  BY DEF Consistent
<1>2. es \in Seq(Entry) /\ Spells(es, 0 .. ht.max, ht.array)
  BY <1>1, EntriesSpell
<1> HIDE DEF es
<1>3. /\ Cardinality(Spots(0 .. ht.max, ht.array)) = Len(es)
      /\ ToSet(es) = {ht.array[p[1]][p[2]] : p \in Spots(0 .. ht.max, ht.array)}
  BY <1>2, SpelledLength
<1>4. ht.count = Len(es) /\ ToSet(es) = EntrySet(ht)
  BY <1>1, <1>3 DEF Counted, Places, EntrySet, At
<1>5. PICK b : SpelledBy(es, 0 .. ht.max, ht.array, b)
  BY <1>2 DEF Spells
<1>6. ASSUME NEW i \in 1 .. Len(es), NEW j \in 1 .. Len(es), at[es[i].key] = at[es[j].key]
      PROVE  i = j
  <2>1. /\ b[i] \in Places(ht) /\ es[i] = At(ht, b[i])
        /\ b[j] \in Places(ht) /\ es[j] = At(ht, b[j])
    BY <1>5 DEF SpelledBy, Places, At
  <2>2. b[i] = b[j]
    BY <1>1, <1>6, <2>1 DEF Unique
  <2>3. QED
    BY <1>5, <2>2 DEF SpelledBy
<1>7. QED
  BY <1>2, <1>4, <1>6 DEF es

LEMMA ConsistentIsSound ==
  ASSUME NEW ht, NEW at, Consistent(ht, at)
  PROVE  HashSound(ht, at)
<1> DEFINE es == Entries(ht)
<1>1. ht \in Tables /\ Placed(ht, at)
  BY DEF Consistent
<1>2. /\ es \in Seq(Entry) /\ ht.count = Len(es)
      /\ \A i, j \in 1 .. Len(es) : at[es[i].key] = at[es[j].key] => i = j
  BY ConsistentEntries
<1> HIDE DEF es
<1>3. DOMAIN es = 1 .. Len(es)
  BY <1>2, LenProperties
<1>4. ASSUME NEW i \in 0 .. ht.max, NEW j \in DOMAIN ht.array[i]
      PROVE  /\ ht.array[i][j].hash = HashfuncDefault(at[ht.array[i][j].key])
             /\ i = Chain(ht.array[i][j].hash, ht.max)
  <2>1. ht.array[i] \in Seq(Entry) /\ DOMAIN ht.array[i] = 1 .. Len(ht.array[i])
    BY <1>1, TableFields, LenProperties
  <2>2. <<i, j>> \in Places(ht) /\ At(ht, <<i, j>>) = ht.array[i][j]
    BY <2>1 DEF Places, Spots, At
  <2>3. PICK p \in Places(ht) : p[1] = i /\ At(ht, p) = ht.array[i][j]
    BY <2>2
  <2>4. QED
    BY <1>1, <2>3 DEF Placed, PlacedAt
<1>5. QED
  BY <1>2, <1>3, <1>4 DEF HashSound, es

(* What a search for a key finds: the place of the one entry with the key. *)
Finds(ht, at, key, i, pos) ==
  /\ i \in 0 .. ht.max /\ pos \in 0 .. Len(ht.array[i])
  /\ pos # 0 => /\ pos \in 1 .. Len(ht.array[i]) /\ <<i, pos>> \in Places(ht)
                /\ at[ht.array[i][pos].key] = key
                /\ ht.array[i][pos] \in EntrySet(ht)
                /\ \A p \in Places(ht) : at[At(ht, p).key] = key => p = <<i, pos>>
  /\ pos = 0 => \A e \in EntrySet(ht) : at[e.key] # key

\* FindEntry finds it.
LEMMA FindsEntry ==
  ASSUME NEW ht, NEW at, Consistent(ht, at), NEW key \in Keys,
         NEW i, i = Chain(HashfuncDefault(key), ht.max),
         NEW pos, pos = FindEntry(ht, at, key)
  PROVE  Finds(ht, at, key, i, pos)
<1> DEFINE c == ht.array[i]
           I == {j \in 1 .. Len(c) : c[j].hash = HashfuncDefault(key) /\ at[c[j].key] = key}
<1>1. /\ ht \in Tables /\ Placed(ht, at) /\ Unique(ht, at)
      /\ ht.max \in Nat /\ key \in Nat
  BY TableFields, UpfSessionAssumption DEF Consistent
<1>2. i \in 0 .. ht.max
  BY <1>1, HashRange, ChainRange
<1>3. c \in Seq(Entry) /\ Len(c) \in Nat
  BY <1>1, <1>2, TableFields, LenProperties
<1>4. pos = IF I # {} THEN Min(I) ELSE 0
  BY Zenon DEF FindEntry, SelectInSeq
<1>5. I # {} => pos \in I
  <2>1. I \in SUBSET Nat
    BY <1>3
  <2>2. QED
    BY ZenonT(60), <1>4, <2>1, MinOfNats
<1>6. ASSUME NEW j \in I
      PROVE  <<i, j>> \in Places(ht) /\ At(ht, <<i, j>>) = c[j] /\ at[c[j].key] = key
  BY <1>2, <1>3 DEF Places, Spots, At
<1>7. ASSUME NEW p \in Places(ht), at[At(ht, p).key] = key
      PROVE  p[1] = i /\ p[2] \in I
  <2>1. /\ At(ht, p).hash = HashfuncDefault(key) /\ p[1] = i
    BY <1>1, <1>7 DEF Placed, PlacedAt
  <2>2. p[2] \in 1 .. Len(c)
    BY <1>1, <2>1, PlaceEntry
  <2>3. QED
    BY <1>7, <2>1, <2>2 DEF At
<1>8. CASE I = {}
  <2>1. pos = 0
    BY <1>4, <1>8
  <2>2. \A p \in Places(ht) : at[At(ht, p).key] # key
    BY <1>7, <1>8
  <2>3. QED
    BY SMTT(60), <1>2, <1>3, <2>1, <2>2 DEF EntrySet, Finds
<1>9. CASE I # {}
  <2>1. pos \in I /\ pos \in 1 .. Len(c) /\ pos # 0 /\ pos \in 0 .. Len(c)
    BY <1>3, <1>5, <1>9
  <2> HIDE DEF I
  <2>2. PICK q \in Places(ht) : q = <<i, pos>> /\ At(ht, q) = c[pos] /\ at[c[pos].key] = key
    BY <1>6, <2>1
  <2>3. \A p \in Places(ht) : at[At(ht, p).key] = key => p = q
    BY <1>1, <2>2 DEF Unique
  <2>4. c[pos] \in EntrySet(ht)
    BY <2>2 DEF EntrySet
  <2>5. QED
    BY <1>2, <2>1, <2>2, <2>3, <2>4 DEF Finds
<1>10. QED
  BY <1>8, <1>9

(* HashGet gives the value of the one entry with the key. *)
LEMMA HashGetIs ==
  ASSUME NEW ht, NEW at, Consistent(ht, at), NEW e \in EntrySet(ht), at[e.key] \in Keys, NEW none
  PROVE  HashGet(ht, at, at[e.key], none) = e.val
<1>1. PICK key \in Keys : key = at[e.key]
  OBVIOUS
<1>2. PICK i : i = Chain(HashfuncDefault(key), ht.max)
  OBVIOUS
<1>3. PICK pos : pos = FindEntry(ht, at, key)
  OBVIOUS
<1>4. /\ pos # 0 => \A p \in Places(ht) : at[At(ht, p).key] = key => p = <<i, pos>>
      /\ pos = 0 => \A f \in EntrySet(ht) : at[f.key] # key
  <2>1. Finds(ht, at, key, i, pos)
    BY <1>2, <1>3, FindsEntry
  <2>2. QED
    BY Zenon, <2>1 DEF Finds
<1>5. PICK p \in Places(ht) : At(ht, p) = e
  BY DEF EntrySet
<1>6. pos # 0 /\ p = <<i, pos>>
  BY <1>1, <1>4, <1>5
<1>7. ht.array[i][pos] = e
  BY <1>5, <1>6 DEF At
<1>8. HashGet(ht, at, at[e.key], none) = IF pos = 0 THEN none ELSE ht.array[i][pos].val
  BY Zenon, <1>1, <1>2, <1>3 DEF HashGet
<1>9. QED
  BY <1>6, <1>7, <1>8

-----------------------------------------------------------------------------
(* One entry more, one entry changed, one entry less. *)

AppendAt(ht, i, e) == [ht EXCEPT !.array[i] = Append(@, e), !.count = @ + 1]
ReplaceValue(ht, i, pos, v) == [ht EXCEPT !.array[i][pos].val = v]
RemovePlace(ht, i, pos) == [ht EXCEPT !.array[i] = RemoveAt(@, pos), !.count = @ - 1]

\* One place more, with the entry.
LEMMA AppendedTable ==
  ASSUME NEW ht \in Tables, NEW i \in 0 .. ht.max, NEW e \in Entry, NEW n,
         n = AppendAt(ht, i, e)
  PROVE  /\ n \in Tables /\ n.max = ht.max /\ n.count = ht.count + 1
         /\ \E q : /\ q[1] = i /\ q \notin Places(ht) /\ Places(n) = Places(ht) \cup {q}
                   /\ At(n, q) = e /\ \A p \in Places(ht) : At(n, p) = At(ht, p)
<1> DEFINE m == ht.max
           a == ht.array
           a2 == [a EXCEPT ![i] = Append(@, e)]
           k == Len(a[i])
           q == <<i, k + 1>>
<1>1. /\ m \in Nat /\ ht.count \in Int /\ a \in [0 .. m -> Seq(Entry)]
      /\ ht = [array |-> a, count |-> ht.count, max |-> m]
  BY TableFields
<1>2. a[i] \in Seq(Entry) /\ k \in Nat
  BY <1>1, LenProperties
<1>3. /\ Append(a[i], e) \in Seq(Entry) /\ Len(Append(a[i], e)) = k + 1
      /\ \A j \in 1 .. k : Append(a[i], e)[j] = a[i][j]
      /\ Append(a[i], e)[k + 1] = e
  BY <1>2, AppendProperties
<1>4. n = [array |-> a2, count |-> ht.count + 1, max |-> m]
  BY <1>1 DEF AppendAt
<1>5. a2 \in [0 .. m -> Seq(Entry)] /\ a2[i] = Append(a[i], e)
      /\ \A j \in 0 .. m : j # i => a2[j] = a[j]
  BY <1>1, <1>3
<1> HIDE DEF a2
<1>6. n.array = a2 /\ n.max = m /\ n.count = ht.count + 1
  BY <1>4
<1>7. n \in Tables
  BY SMTT(60), <1>1, <1>4, <1>5, <1>6, TableOf
<1>8. \A p : p \in Places(ht) => /\ p = <<p[1], p[2]>> /\ p[1] \in 0 .. m /\ p[2] \in Nat
                                 /\ p[2] \in 1 .. Len(a[p[1]])
  BY DEF Places, Spots
<1>9. q \notin Places(ht) /\ q \in Places(n) /\ At(n, q) = e
  <2>1. q \in (0 .. m) \X Nat /\ q[1] = i /\ q[2] = k + 1 /\ k + 1 \notin 1 .. k
        /\ k + 1 \in 1 .. k + 1
    BY <1>1, <1>2
  <2>2. Len(a2[i]) = k + 1 /\ a2[i][k + 1] = e
    BY <1>3, <1>5
  <2> HIDE DEF q
  <2>3. q \notin Places(ht)
    BY <2>1 DEF Places, Spots
  <2>4. q \in Places(n)
    BY <1>6, <2>1, <2>2 DEF Places, Spots
  <2>5. QED
    BY <1>6, <2>1, <2>2, <2>3, <2>4 DEF At
<1>10. ASSUME NEW p \in Places(ht) PROVE p \in Places(n) /\ At(n, p) = At(ht, p)
  <2>1. /\ p = <<p[1], p[2]>> /\ p[1] \in 0 .. m /\ p[2] \in Nat
        /\ p[2] \in 1 .. Len(a[p[1]])
    BY <1>8
  <2>2. CASE p[1] # i
    BY <1>5, <1>6, <2>1, <2>2 DEF Places, Spots, At
  <2>3. CASE p[1] = i
    <3>1. p[2] \in 1 .. k /\ p[2] \in 1 .. k + 1 /\ a2[p[1]] = Append(a[i], e)
      BY <1>2, <1>5, <2>1, <2>3
    <3>2. a2[p[1]][p[2]] = a[p[1]][p[2]]
      BY <1>3, <2>3, <3>1
    <3>3. QED
      BY <1>3, <1>6, <2>1, <3>1, <3>2 DEF Places, Spots, At
  <2>4. QED
    BY <2>2, <2>3
<1>11. \A p : p \in Places(n) => /\ p = <<p[1], p[2]>> /\ p[1] \in 0 .. m /\ p[2] \in Nat
                                /\ p[2] \in 1 .. Len(a2[p[1]])
  BY <1>6 DEF Places, Spots
<1>12. ASSUME NEW p \in Places(n), p \notin Places(ht) PROVE p = q
  <2>1. /\ p = <<p[1], p[2]>> /\ p[1] \in 0 .. m /\ p[2] \in Nat
        /\ p[2] \in 1 .. Len(a2[p[1]])
    BY <1>11
  <2>2. p[1] = i /\ p[2] \notin 1 .. k
    BY <1>5, <1>12, <2>1 DEF Places, Spots
  <2>3. p[2] = k + 1
    BY <1>2, <1>3, <1>5, <2>1, <2>2
  <2>4. QED
    BY <2>1, <2>2, <2>3
<1>13. Places(n) = Places(ht) \cup {q}
  BY <1>9, <1>10, <1>12
<1>14. q[1] = i
  OBVIOUS
<1> HIDE DEF q
<1>15. QED
  BY <1>7, <1>6, <1>9, <1>10, <1>13, <1>14

\* The same places, one with another value.
LEMMA ReplacedTable ==
  ASSUME NEW ht \in Tables, NEW i \in 0 .. ht.max, NEW pos \in 1 .. Len(ht.array[i]),
         NEW v \in Slots, NEW n, n = ReplaceValue(ht, i, pos, v)
  PROVE  /\ n \in Tables /\ n.max = ht.max /\ n.count = ht.count
         /\ Places(n) = Places(ht) /\ <<i, pos>> \in Places(ht)
         /\ At(n, <<i, pos>>) = [At(ht, <<i, pos>>) EXCEPT !.val = v]
         /\ \A p \in Places(ht) : p # <<i, pos>> => At(n, p) = At(ht, p)
<1> DEFINE m == ht.max
           a == ht.array
           e == [a[i][pos] EXCEPT !.val = v]
           c == [a[i] EXCEPT ![pos] = e]
           a2 == [a EXCEPT ![i] = c]
<1>1. /\ m \in Nat /\ ht.count \in Int /\ a \in [0 .. m -> Seq(Entry)]
      /\ ht = [array |-> a, count |-> ht.count, max |-> m]
  BY TableFields
<1>2. a[i] \in Seq(Entry) /\ Len(a[i]) \in Nat
  BY <1>1, LenProperties
<1>3. e \in Entry
  <2>1. a[i][pos] \in Entry
    BY <1>2, ElementOfSeq
  <2>2. QED
    BY <2>1 DEF Entry
<1>4. n = [array |-> a2, count |-> ht.count, max |-> m]
  BY <1>1 DEF ReplaceValue
<1> HIDE DEF e
<1>5. /\ c \in Seq(Entry) /\ Len(c) = Len(a[i]) /\ c[pos] = e
      /\ \A j \in 1 .. Len(a[i]) : j # pos => c[j] = a[i][j]
  BY <1>2, <1>3, ExceptSeq
<1> HIDE DEF c
<1>6. a2 \in [0 .. m -> Seq(Entry)] /\ a2[i] = c
      /\ \A j \in 0 .. m : j # i => a2[j] = a[j]
  BY <1>1, <1>5
<1> HIDE DEF a2
<1>7. n.array = a2 /\ n.max = m /\ n.count = ht.count
  BY <1>4
<1>8. n \in Tables
  BY <1>1, <1>4, <1>6, <1>7, TableOf
<1>9. \A j \in 0 .. m : Len(a2[j]) = Len(a[j])
  BY <1>5, <1>6
<1>10. Places(n) = Places(ht)
  BY <1>7, <1>9 DEF Places, Spots
<1>11. <<i, pos>> \in Places(ht)
  BY <1>2 DEF Places, Spots
<1>12. At(n, <<i, pos>>) = e /\ At(ht, <<i, pos>>) = a[i][pos]
  BY <1>5, <1>6, <1>7 DEF At
<1>13. ASSUME NEW p \in Places(ht), p # <<i, pos>> PROVE At(n, p) = At(ht, p)
  <2>1. /\ p = <<p[1], p[2]>> /\ p[1] \in 0 .. m /\ p[2] \in Nat
        /\ p[2] \in 1 .. Len(a[p[1]])
    BY DEF Places, Spots
  <2>2. CASE p[1] # i
    BY <1>6, <1>7, <2>1, <2>2 DEF At
  <2>3. CASE p[1] = i
    <3>1. p[2] # pos
      BY <1>13, <2>1, <2>3
    <3>2. QED
      BY <1>5, <1>6, <1>7, <2>1, <2>3, <3>1 DEF At
  <2>4. QED
    BY <2>2, <2>3
<1>14. QED
  BY <1>8, <1>7, <1>10, <1>11, <1>12, <1>13 DEF e

(* Where the entries of n stand in ht, which has one more, at gone. *)
Moved(ht, n, gone, f) ==
  /\ f \in [Places(n) -> Places(ht)]
  /\ \A p \in Places(n) : At(n, p) = At(ht, f[p]) /\ f[p][1] = p[1] /\ f[p] # gone
  /\ \A p, q \in Places(n) : f[p] = f[q] => p = q
  /\ \A q \in Places(ht) : q # gone => \E p \in Places(n) : f[p] = q

\* One place less; the entries behind it moved forward.
LEMMA RemovedTable ==
  ASSUME NEW ht \in Tables, NEW i \in 0 .. ht.max, NEW pos \in 1 .. Len(ht.array[i]),
         NEW n, n = RemovePlace(ht, i, pos)
  PROVE  /\ n \in Tables /\ n.max = ht.max /\ n.count = ht.count - 1
         /\ \E q \in Places(ht) : Places(n) = Places(ht) \ {q}
         /\ \E f : Moved(ht, n, <<i, pos>>, f)
<1> DEFINE m == ht.max
           a == ht.array
           c == RemoveAt(a[i], pos)
           k == Len(a[i])
           a2 == [a EXCEPT ![i] = c]
<1>1. /\ m \in Nat /\ ht.count \in Int /\ a \in [0 .. m -> Seq(Entry)]
      /\ ht = [array |-> a, count |-> ht.count, max |-> m]
  BY TableFields
<1>2. a[i] \in Seq(Entry) /\ k \in Nat
  BY <1>1, LenProperties
<1>3. n = [array |-> a2, count |-> ht.count - 1, max |-> m]
  BY <1>1 DEF RemovePlace
<1>4. /\ c \in Seq(Entry) /\ Len(c) = k - 1
      /\ \A j \in 1 .. k - 1 : c[j] = IF j < pos THEN a[i][j] ELSE a[i][j + 1]
  BY <1>2, RemoveAtElements
<1> HIDE DEF c
<1>5. a2 \in [0 .. m -> Seq(Entry)] /\ a2[i] = c
      /\ \A j \in 0 .. m : j # i => a2[j] = a[j]
  BY <1>1, <1>4
<1> HIDE DEF a2
<1>6. n.array = a2 /\ n.max = m /\ n.count = ht.count - 1
  BY <1>3
<1>7. n \in Tables
  BY SMTT(60), <1>1, <1>3, <1>5, <1>6, TableOf
<1>8. \A p : p \in Places(ht) <=> /\ p = <<p[1], p[2]>> /\ p[1] \in 0 .. m /\ p[2] \in Nat
                                  /\ p[2] \in 1 .. Len(a[p[1]])
  BY DEF Places, Spots
<1>9. \A p : p \in Places(n) <=> /\ p = <<p[1], p[2]>> /\ p[1] \in 0 .. m /\ p[2] \in Nat
                                 /\ p[2] \in 1 .. Len(a2[p[1]])
  BY <1>6 DEF Places, Spots
<1>10. \A p : p \in Places(n) <=> p \in Places(ht) /\ p # <<i, k>>
  <2>1. ASSUME NEW p PROVE p \in Places(n) <=> p \in Places(ht) /\ p # <<i, k>>
    <3>1. CASE p[1] = i /\ p = <<p[1], p[2]>>
      <4>1. p # <<i, k>> <=> p[2] # k
        BY <3>1
      <4>2. p[2] \in Nat => (p[2] \in 1 .. k - 1 <=> p[2] \in 1 .. k /\ p[2] # k)
        BY <1>2
      <4>3. QED
        BY <1>4, <1>5, <1>8, <1>9, <3>1, <4>1, <4>2
    <3>2. CASE p[1] # i /\ p = <<p[1], p[2]>>
      BY <1>5, <1>8, <1>9, <3>2
    <3>3. QED
      BY <1>8, <1>9, <3>1, <3>2
  <2>2. QED
    BY <2>1
<1>11. <<i, k>> \in Places(ht)
  BY <1>2 DEF Places, Spots
<1>12. \E q \in Places(ht) : Places(n) = Places(ht) \ {q}
  BY <1>10, <1>11
<1> DEFINE f == [p \in Places(n) |-> IF p[1] = i /\ p[2] >= pos THEN <<i, p[2] + 1>> ELSE p]
<1>13. ASSUME NEW p \in Places(n)
       PROVE  /\ f[p] \in Places(ht) /\ At(n, p) = At(ht, f[p]) /\ f[p][1] = p[1]
              /\ f[p] # <<i, pos>>
  <2>1. /\ p = <<p[1], p[2]>> /\ p[1] \in 0 .. m /\ p[2] \in Nat
        /\ p[2] \in 1 .. Len(a2[p[1]])
    BY <1>9
  <2>2. CASE p[1] # i
    BY <1>5, <1>6, <1>8, <2>1, <2>2 DEF At
  <2>3. CASE p[1] = i /\ p[2] < pos
    <3>1. f[p] = p /\ p[2] \in 1 .. k - 1 /\ p[2] \in 1 .. k /\ p[2] # pos
      BY <1>2, <1>4, <1>5, <2>1, <2>3
    <3>2. a2[p[1]][p[2]] = a[p[1]][p[2]]
      BY <1>4, <1>5, <2>3, <3>1
    <3>3. QED
      BY SMTT(60), <1>6, <1>8, <2>1, <2>3, <3>1, <3>2 DEF At
  <2>4. CASE p[1] = i /\ p[2] >= pos
    <3>1. f[p] = <<i, p[2] + 1>>
      BY <2>4
    <3>2. p[2] \in 1 .. k - 1 /\ p[2] + 1 \in 1 .. k /\ p[2] + 1 # pos /\ ~(p[2] < pos)
          /\ p[2] + 1 \in Nat
      BY SMTT(60), <1>2, <1>4, <1>5, <2>1, <2>4
    <3>3. a2[p[1]][p[2]] = a[i][p[2] + 1]
      BY <1>4, <1>5, <2>4, <3>2
    <3>4. <<i, p[2] + 1>> \in Places(ht)
      BY <3>2 DEF Places, Spots
    <3>5. QED
      BY <1>6, <2>4, <3>1, <3>2, <3>3, <3>4 DEF At
  <2>5. QED
    BY <2>1, <2>2, <2>3, <2>4
<1>14. f \in [Places(n) -> Places(ht)]
  BY <1>13
<1>15. ASSUME NEW p \in Places(n), NEW q \in Places(n), f[p] = f[q] PROVE p = q
  <2>1. /\ p = <<p[1], p[2]>> /\ p[2] \in Nat /\ q = <<q[1], q[2]>> /\ q[2] \in Nat
    BY <1>9
  <2>2. p[1] = q[1]
    BY <1>13, <1>15
  <2>3. CASE p[1] # i
    BY <1>15, <2>2, <2>3
  <2>4. CASE p[1] = i
    <3>1. f[p] = IF p[2] >= pos THEN <<i, p[2] + 1>> ELSE p
      BY <2>4
    <3>2. f[q] = IF q[2] >= pos THEN <<i, q[2] + 1>> ELSE q
      BY <2>2, <2>4
    <3>3. f[p][2] = IF p[2] >= pos THEN p[2] + 1 ELSE p[2]
      BY <3>1
    <3>4. f[q][2] = IF q[2] >= pos THEN q[2] + 1 ELSE q[2]
      BY <3>2
    <3>5. (IF p[2] >= pos THEN p[2] + 1 ELSE p[2]) = (IF q[2] >= pos THEN q[2] + 1 ELSE q[2])
      BY <1>15, <3>3, <3>4
    <3>6. p[2] = q[2]
      BY <1>2, <2>1, <3>5
    <3>7. QED
      BY <2>1, <2>2, <3>6
  <2>5. QED
    BY <2>3, <2>4
<1>16. ASSUME NEW q \in Places(ht), q # <<i, pos>> PROVE \E p \in Places(n) : f[p] = q
  <2>1. /\ q = <<q[1], q[2]>> /\ q[1] \in 0 .. m /\ q[2] \in Nat
        /\ q[2] \in 1 .. Len(a[q[1]])
    BY <1>8
  <2>2. CASE q[1] # i
    <3>1. q \in Places(n)
      BY <1>10, <2>1, <2>2
    <3>2. f[q] = q
      BY <2>2, <3>1
    <3>3. QED
      BY <3>1, <3>2
  <2>3. CASE q[1] = i /\ q[2] < pos
    <3>1. q[2] # k
      BY <1>2, <2>1, <2>3
    <3>2. q \in Places(n)
      BY <1>10, <2>1, <2>3, <3>1
    <3>3. f[q] = q
      BY <1>2, <2>1, <2>3, <3>2
    <3>4. QED
      BY <3>2, <3>3
  <2>4. CASE q[1] = i /\ ~(q[2] < pos)
    <3>1. q[2] # pos
      BY <1>16, <2>1, <2>4
    <3>2. q[2] \in 1 .. k
      BY <2>1, <2>4
    <3> DEFINE p == <<i, q[2] - 1>>
    <3>3. /\ q[2] - 1 \in Nat /\ q[2] - 1 \in 1 .. k - 1 /\ q[2] - 1 >= pos
          /\ q[2] - 1 + 1 = q[2]
      BY <1>2, <2>1, <2>4, <3>1, <3>2
    <3>4. p \in Places(n)
      BY <1>4, <1>5, <1>9, <3>3
    <3>5. f[p] = <<i, q[2] - 1 + 1>>
      BY <3>3, <3>4
    <3>6. f[p] = q
      BY <2>1, <2>4, <3>3, <3>5
    <3>7. QED
      BY <3>4, <3>6
  <2>5. QED
    BY <2>2, <2>3, <2>4
<1> HIDE DEF f
<1>17. Moved(ht, n, <<i, pos>>, f)
  BY <1>13, <1>14, <1>15, <1>16 DEF Moved
<1>18. QED
  BY <1>7, <1>6, <1>12, <1>17

-----------------------------------------------------------------------------
(* A table that is expanded keeps its entries. *)

LinkFront(a, i, e) == [a EXCEPT ![i] = <<e>> \o @]

\* The array a has the first k entries of es, at the places b gives, and each
\* stands in the chain of its hash.
Linked(es, k, m, a, b) ==
  /\ b \in [1 .. k -> Spots(0 .. m, a)]
  /\ \A x, y \in 1 .. k : b[x] = b[y] => x = y
  /\ \A p \in Spots(0 .. m, a) : \E x \in 1 .. k : b[x] = p
  /\ \A x \in 1 .. k : a[b[x][1]][b[x][2]] = es[x] /\ b[x][1] = Chain(es[x].hash, m)

\* One entry linked in front of its chain.
LEMMA LinkStep ==
  ASSUME NEW es \in Seq(Entry), NEW k \in 1 .. Len(es), NEW m \in Nat,
         NEW a \in [0 .. m -> Seq(Entry)], NEW b, Linked(es, k - 1, m, a, b),
         NEW c, c = LinkFront(a, Chain(es[k].hash, m), es[k])
  PROVE  c \in [0 .. m -> Seq(Entry)] /\ \E d : Linked(es, k, m, c, d)
<1> DEFINE e == es[k]
           i == Chain(e.hash, m)
           t == a[i]
<1>1. Len(es) \in Nat /\ k \in Nat /\ e \in Entry /\ e.hash \in Nat
  <2>1. Len(es) \in Nat /\ e \in Entry
    BY LenProperties, ElementOfSeq
  <2>2. QED
    BY <2>1 DEF Entry
<1>2. i \in 0 .. m
  BY <1>1, ChainRange
<1>3. t \in Seq(Entry) /\ Len(t) \in Nat
  BY <1>2, LenProperties
<1> HIDE DEF e, i
<1>4. /\ <<e>> \o t \in Seq(Entry) /\ Len(<<e>> \o t) = Len(t) + 1
      /\ (<<e>> \o t)[1] = e
      /\ \A j \in 1 .. Len(t) : (<<e>> \o t)[j + 1] = t[j]
  <2>1. <<e>> \in Seq(Entry) /\ Len(<<e>>) = 1 /\ <<e>>[1] = e
    BY <1>1
  <2>2. /\ <<e>> \o t \in Seq(Entry) /\ Len(<<e>> \o t) = Len(<<e>>) + Len(t)
        /\ \A j \in 1 .. Len(<<e>>) + Len(t) :
             (<<e>> \o t)[j] = IF j <= Len(<<e>>) THEN <<e>>[j] ELSE t[j - Len(<<e>>)]
    BY <1>3, <2>1, ConcatProperties
  <2>3. QED
    BY <1>3, <2>1, <2>2
<1>5. c = [a EXCEPT ![i] = <<e>> \o t]
  BY Zenon DEF LinkFront, e, i
<1>6. c \in [0 .. m -> Seq(Entry)] /\ c[i] = <<e>> \o t /\ \A j \in 0 .. m : j # i => c[j] = a[j]
  BY <1>2, <1>4, <1>5
<1>7. Len(c[i]) = Len(t) + 1 /\ c[i][1] = e /\ \A j \in 1 .. Len(t) : c[i][j + 1] = t[j]
  BY <1>4, <1>6
<1> DEFINE d == [x \in 1 .. k |-> IF x = k THEN <<i, 1>>
                                  ELSE IF b[x][1] = i THEN <<i, b[x][2] + 1>> ELSE b[x]]
<1>8. ASSUME NEW x \in 1 .. k - 1
      PROVE  /\ b[x] \in Spots(0 .. m, a) /\ b[x] = <<b[x][1], b[x][2]>>
             /\ b[x][1] \in 0 .. m /\ b[x][2] \in Nat /\ b[x][2] \in 1 .. Len(a[b[x][1]])
             /\ a[b[x][1]][b[x][2]] = es[x] /\ b[x][1] = Chain(es[x].hash, m)
  <2>1. b[x] \in Spots(0 .. m, a)
    BY DEF Linked
  <2>2. a[b[x][1]][b[x][2]] = es[x] /\ b[x][1] = Chain(es[x].hash, m)
    BY DEF Linked
  <2>3. QED
    BY SMTT(60), <2>1, <2>2 DEF Spots
<1>9. d[k] = <<i, 1>> /\ d[k] \in Spots(0 .. m, c) /\ c[d[k][1]][d[k][2]] = e /\ d[k][1] = i
  <2>1. d[k] = <<i, 1>>
    BY <1>1
  <2> HIDE DEF d
  <2>2. 1 \in 1 .. Len(c[i])
    BY <1>3, <1>7
  <2>3. QED
    BY SMTT(60), <1>2, <1>7, <2>1, <2>2 DEF Spots
<1>10. ASSUME NEW x \in 1 .. k - 1
       PROVE  /\ x \in 1 .. k /\ d[x] \in Spots(0 .. m, c) /\ c[d[x][1]][d[x][2]] = es[x]
              /\ d[x][1] = b[x][1] /\ d[x][2] = IF b[x][1] = i THEN b[x][2] + 1 ELSE b[x][2]
  <2>1. x \in 1 .. k /\ x # k /\ d[x] = IF b[x][1] = i THEN <<i, b[x][2] + 1>> ELSE b[x]
    BY <1>1
  <2> HIDE DEF d
  <2>2. CASE b[x][1] = i
    <3>1. d[x] = <<i, b[x][2] + 1>> /\ d[x][1] = i /\ d[x][2] = b[x][2] + 1
      BY <2>1, <2>2
    <3>2. b[x][2] \in 1 .. Len(t) /\ b[x][2] \in Nat /\ a[b[x][1]][b[x][2]] = es[x]
      BY <1>8, <2>2
    <3>3. b[x][2] + 1 \in 1 .. Len(c[i]) /\ b[x][2] + 1 \in Nat
      <4>1. \A j \in 1 .. Len(t) : j + 1 \in 1 .. Len(t) + 1 /\ j + 1 \in Nat
        BY <1>3
      <4>2. QED
        BY <1>7, <3>2, <4>1
    <3>4. c[i][b[x][2] + 1] = es[x]
      BY <1>7, <2>2, <3>2
    <3>5. d[x] \in Spots(0 .. m, c)
      BY <1>2, <3>1, <3>3 DEF Spots
    <3>6. QED
      BY <2>1, <2>2, <3>1, <3>4, <3>5
  <2>3. CASE b[x][1] # i
    <3>1. d[x] = b[x] /\ c[b[x][1]] = a[b[x][1]]
      BY <1>6, <1>8, <2>1, <2>3
    <3>2. b[x] \in Spots(0 .. m, c)
      BY <1>8, <3>1 DEF Spots
    <3>3. QED
      BY SMTT(60), <1>8, <2>1, <2>3, <3>1, <3>2
  <2>4. QED
    BY <2>2, <2>3
<1>11. \A x \in 1 .. k : x \in 1 .. k - 1 \/ x = k
  BY <1>1
<1>12. DOMAIN d = 1 .. k /\ d = [x \in DOMAIN d |-> d[x]]
  OBVIOUS
<1> HIDE DEF d
<1>13. d \in [1 .. k -> Spots(0 .. m, c)]
  <2>1. \A x \in 1 .. k : d[x] \in Spots(0 .. m, c)
    BY <1>9, <1>10, <1>11
  <2>2. QED
    BY <1>12, <2>1
<1>14. ASSUME NEW x \in 1 .. k, NEW y \in 1 .. k, d[x] = d[y] PROVE x = y
  <2>1. CASE x \in 1 .. k - 1 /\ y \in 1 .. k - 1
    <3>1. b[x][1] = b[y][1]
      BY ZenonT(60), <1>10, <1>14, <2>1
    <3>2. b[x][2] = b[y][2]
      <4>1. d[x][2] = (IF b[x][1] = i THEN b[x][2] + 1 ELSE b[x][2]) /\ b[x][2] \in Nat
        BY <1>8, <1>10, <2>1
      <4>2. d[y][2] = (IF b[y][1] = i THEN b[y][2] + 1 ELSE b[y][2]) /\ b[y][2] \in Nat
        BY <1>8, <1>10, <2>1
      <4>3. d[x][2] = d[y][2]
        BY <1>14
      <4>4. PICK u \in Nat : u = b[x][2]
        BY <4>1
      <4>5. PICK v \in Nat : v = b[y][2]
        BY <4>2
      <4>6. u = v \/ u + 1 = v + 1
        BY <3>1, <4>1, <4>2, <4>3, <4>4, <4>5
      <4>7. u = v
        BY <4>6
      <4>8. QED
        BY <4>4, <4>5, <4>7
    <3>3. b[x] = b[y]
      BY <1>8, <2>1, <3>1, <3>2
    <3>4. QED
      BY <2>1, <3>3 DEF Linked
  <2>2. ASSUME NEW z \in 1 .. k - 1 PROVE d[z] # d[k]
    <3>1. d[k][1] = i /\ d[k][2] = 1
      BY <1>9
    <3>2. b[z][1] = i => d[z][2] = b[z][2] + 1 /\ b[z][2] \in 1 .. Len(t)
      BY <1>8, <1>10
    <3>3. b[z][1] = i => d[z][2] # 1
      BY SMTT(60), <1>3, <3>2
    <3>4. b[z][1] # i => d[z][1] # i
      BY <1>10
    <3>5. QED
      BY <3>1, <3>3, <3>4
  <2>3. QED
    BY <1>11, <1>14, <2>1, <2>2
<1>15. ASSUME NEW p \in Spots(0 .. m, c) PROVE \E x \in 1 .. k : d[x] = p
  <2>1. p = <<p[1], p[2]>> /\ p[1] \in 0 .. m /\ p[2] \in Nat /\ p[2] \in 1 .. Len(c[p[1]])
    BY DEF Spots
  <2>2. CASE p[1] = i /\ p[2] = 1
    <3>1. k \in 1 .. k /\ p = <<i, 1>>
      BY <1>1, <2>1, <2>2
    <3>2. QED
      BY <1>9, <3>1
  <2>3. CASE p[1] = i /\ p[2] # 1
    <3>1. p[2] - 1 \in 1 .. Len(t) /\ p[2] - 1 \in Nat /\ p[2] - 1 + 1 = p[2]
      BY SMTT(60), <1>3, <1>7, <2>1, <2>3
    <3> DEFINE q == <<i, p[2] - 1>>
    <3>2. q \in Spots(0 .. m, a) /\ q[1] = i /\ q[2] = p[2] - 1
      BY <1>2, <3>1 DEF Spots
    <3> HIDE DEF q
    <3>3. PICK x \in 1 .. k - 1 : b[x] = q
      BY <3>2 DEF Linked
    <3>4. d[x] \in Spots(0 .. m, c) /\ d[x][1] = i /\ d[x][2] = p[2]
      BY <1>10, <3>1, <3>2, <3>3
    <3>5. d[x] = <<d[x][1], d[x][2]>>
      BY SMTT(60), <3>4 DEF Spots
    <3>6. QED
      BY ZenonT(60), <1>10, <2>1, <2>3, <3>4, <3>5
  <2>4. CASE p[1] # i
    <3>1. p \in Spots(0 .. m, a)
      BY <1>6, <2>1, <2>4 DEF Spots
    <3>2. PICK x \in 1 .. k - 1 : b[x] = p
      BY <3>1 DEF Linked
    <3>3. x \in 1 .. k /\ d[x] \in Spots(0 .. m, c) /\ d[x][1] = p[1] /\ d[x][2] = p[2]
      BY <1>10, <2>4, <3>2
    <3>4. d[x] = <<d[x][1], d[x][2]>>
      BY SMTT(60), <3>3 DEF Spots
    <3>5. QED
      BY <2>1, <3>3, <3>4
  <2>5. QED
    BY <2>2, <2>3, <2>4
<1>16. ASSUME NEW x \in 1 .. k
       PROVE  c[d[x][1]][d[x][2]] = es[x] /\ d[x][1] = Chain(es[x].hash, m)
  <2>1. CASE x = k
    BY <1>9, <2>1 DEF e, i
  <2>2. CASE x \in 1 .. k - 1
    BY <1>8, <1>10, <2>2
  <2>3. QED
    BY <1>11, <2>1, <2>2
<1>17. Linked(es, k, m, c, d)
  BY <1>13, <1>14, <1>15, <1>16 DEF Linked
<1>18. QED
  BY <1>6, <1>17

\* Linking all entries, one after the other.
LinkAll(m, es) ==
  LET Link(array, he) == [array EXCEPT ![Chain(he.hash, m)] = <<he>> \o @]
  IN FoldLeft(Link, AllocArray(m), es)

LinkRun(g, m, es) ==
  g = [s \in SUBSET (1 .. Len(es)) |->
         IF s = {} THEN AllocArray(m)
         ELSE LinkFront(g[s \ {Max(s)}], Chain(es[Max(s)].hash, m), es[Max(s)])]

\* The loop of ExpandArray as a function of the entries linked so far.
LEMMA LinkAllRuns ==
  ASSUME NEW m \in Nat, NEW es \in Seq(Entry)
  PROVE  \E g : /\ LinkAll(m, es) = g[1 .. Len(es)] /\ g[1 .. 0] = AllocArray(m)
                /\ \A k \in 1 .. Len(es) :
                     g[1 .. k] = LinkFront(g[1 .. k - 1], Chain(es[k].hash, m), es[k])
<1> DEFINE n == Len(es)
           T == [0 .. m -> Seq(Entry)]
           f == [p \in T \X (1 .. n) |-> LinkFront(p[1], Chain(es[p[2]].hash, m), es[p[2]])]
<1>1. n \in Nat /\ DOMAIN es = 1 .. n
  BY LenProperties
<1>2. AllocArray(m) \in T
  <2>1. << >> \in Seq(Entry)
    OBVIOUS
  <2>2. QED
    BY <2>1 DEF AllocArray
<1>3. ASSUME NEW a \in T, NEW k \in 1 .. n
      PROVE  LinkFront(a, Chain(es[k].hash, m), es[k]) \in T
  <2>1. es[k] \in Entry /\ es[k].hash \in Nat
    <3>1. es[k] \in Entry
      BY ElementOfSeq
    <3>2. QED
      BY <3>1 DEF Entry
  <2>2. PICK i \in 0 .. m : i = Chain(es[k].hash, m)
    BY <2>1, ChainRange
  <2>3. <<es[k]>> \in Seq(Entry) /\ a[i] \in Seq(Entry)
    BY <2>1
  <2>4. <<es[k]>> \o a[i] \in Seq(Entry)
    BY <2>3, ConcatProperties
  <2>5. [a EXCEPT ![i] = <<es[k]>> \o @] \in T
    BY <2>4
  <2>6. QED
    BY <2>2, <2>5 DEF LinkFront
<1>4. f \in [T \X (1 .. n) -> T]
  BY <1>3
<1>5. \A a \in T, k \in 1 .. n : f[<<a, k>>] = LinkFront(a, Chain(es[k].hash, m), es[k])
  OBVIOUS
<1> HIDE DEF f, T
<1>6. PICK G \in [SUBSET (1 .. n) -> T] : Folds(f, AllocArray(m), n, G)
  BY <1>1, <1>2, <1>4, FoldExists
<1>7. ASSUME NEW s \in SUBSET (1 .. n), s # {}
      PROVE  Max(s) \in 1 .. n /\ s \ {Max(s)} \in SUBSET (1 .. n)
  BY <1>1, <1>7, MaxUpTo
<1>8. LinkRun(G, m, es)
  <2>1. ASSUME NEW s \in SUBSET (1 .. n)
        PROVE  G[s] = IF s = {} THEN AllocArray(m)
                      ELSE LinkFront(G[s \ {Max(s)}], Chain(es[Max(s)].hash, m), es[Max(s)])
    <3>1. CASE s = {}
      BY <1>6, <3>1 DEF Folds
    <3>2. CASE s # {}
      <4>1. G[s] = f[<<G[s \ {Max(s)}], Max(s)>>]
        BY <1>6, <3>2 DEF Folds
      <4>2. Max(s) \in 1 .. n /\ G[s \ {Max(s)}] \in T
        BY <1>6, <1>7, <3>2
      <4>3. QED
        BY <1>5, <3>2, <4>1, <4>2
    <3>3. QED
      BY <3>1, <3>2
  <2>2. G = [s \in SUBSET (1 .. n) |-> G[s]]
    BY <1>6
  <2>3. QED
    BY <2>1, <2>2 DEF LinkRun
<1> DEFINE g == CHOOSE h : LinkRun(h, m, es)
<1>9. LinkRun(g, m, es)
  BY <1>8
<1>10. LinkAll(m, es) = g[1 .. n]
  BY <1>1 DEF LinkAll, FoldLeft, MapThenFoldSet, LinkRun, LinkFront
<1> HIDE DEF g
<1>11. g[1 .. 0] = AllocArray(m)
  <2>1. 1 .. 0 = {} /\ {} \in SUBSET (1 .. n)
    OBVIOUS
  <2>2. QED
    BY <1>9, <2>1 DEF LinkRun
<1>12. ASSUME NEW k \in 1 .. n
       PROVE  g[1 .. k] = LinkFront(g[1 .. k - 1], Chain(es[k].hash, m), es[k])
  <2>1. /\ 1 .. k \in SUBSET (1 .. n) /\ 1 .. k # {} /\ Max(1 .. k) = k
        /\ (1 .. k) \ {k} = 1 .. k - 1
    BY <1>1, MaxInterval
  <2>2. g[1 .. k] = LinkFront(g[(1 .. k) \ {Max(1 .. k)}], Chain(es[Max(1 .. k)].hash, m), es[Max(1 .. k)])
    BY <1>9, <2>1 DEF LinkRun
  <2>3. QED
    BY <2>1, <2>2
<1>13. QED
  BY <1>10, <1>11, <1>12

\* The entries the loop of ExpandArray has linked after k steps.
LinkedUp(es, k, m, a) == a \in [0 .. m -> Seq(Entry)] /\ \E b : Linked(es, k, m, a, b)

\* After the loop every entry is linked.
LEMMA AllLinked ==
  ASSUME NEW m \in Nat, NEW es \in Seq(Entry)
  PROVE  LinkedUp(es, Len(es), m, LinkAll(m, es))
<1> DEFINE n == Len(es)
<1>1. n \in Nat
  BY LenProperties
<1>2. PICK g : /\ LinkAll(m, es) = g[1 .. n] /\ g[1 .. 0] = AllocArray(m)
               /\ \A k \in 1 .. n :
                    g[1 .. k] = LinkFront(g[1 .. k - 1], Chain(es[k].hash, m), es[k])
  BY LinkAllRuns
<1> DEFINE P == {k \in 0 .. n : LinkedUp(es, k, m, g[1 .. k])}
<1>3. 0 \in P
  <2> DEFINE b == [x \in 1 .. 0 |-> 0]
  <2>1. PICK a : a = AllocArray(m)
    OBVIOUS
  <2>2. a \in [0 .. m -> Seq(Entry)] /\ \A i \in 0 .. m : a[i] = << >>
    BY <2>1 DEF AllocArray
  <2>3. Spots(0 .. m, a) = {}
    BY <2>2 DEF Spots
  <2>4. \A x : x \notin 1 .. 0
    OBVIOUS
  <2>5. b \in [1 .. 0 -> Spots(0 .. m, a)]
    BY <2>4
  <2> HIDE DEF b
  <2>6. Linked(es, 0, m, a, b)
    BY <2>3, <2>4, <2>5 DEF Linked
  <2>7. LinkedUp(es, 0, m, g[1 .. 0])
    BY <1>2, <2>1, <2>2, <2>6 DEF LinkedUp
  <2>8. 0 \in 0 .. n
    BY <1>1
  <2>9. QED
    BY <2>7, <2>8
<1>4. ASSUME NEW k \in 1 .. n, k - 1 \in P PROVE k \in P
  <2>1. LinkedUp(es, k - 1, m, g[1 .. k - 1])
    BY <1>4
  <2>2. PICK a \in [0 .. m -> Seq(Entry)] : a = g[1 .. k - 1]
    BY <2>1 DEF LinkedUp
  <2>3. PICK b : Linked(es, k - 1, m, a, b)
    BY <2>1, <2>2 DEF LinkedUp
  <2>4. PICK c : c = LinkFront(a, Chain(es[k].hash, m), es[k])
    OBVIOUS
  <2>5. c \in [0 .. m -> Seq(Entry)] /\ \E d : Linked(es, k, m, c, d)
    BY <2>3, <2>4, LinkStep
  <2>6. c = g[1 .. k]
    BY <1>2, <2>2, <2>4
  <2>7. LinkedUp(es, k, m, g[1 .. k])
    BY Zenon, <2>5, <2>6 DEF LinkedUp
  <2>8. k \in 0 .. n
    BY <1>1
  <2>9. QED
    BY <2>7, <2>8
<1> HIDE DEF P
<1>5. 0 .. n \subseteq P
  BY <1>1, <1>3, <1>4, UpTo
<1>6. n \in P
  BY <1>1, <1>5
<1>7. QED
  BY <1>2, <1>6 DEF P

\* ExpandArray is that loop over the entries.
LEMMA ExpandArrayIs ==
  ASSUME NEW ht \in Tables
  PROVE  ExpandArray(ht) = [array |-> LinkAll(2 * ht.max + 1, Entries(ht)),
                            count |-> ht.count, max |-> 2 * ht.max + 1]
<1>1. ht = [array |-> ht.array, count |-> ht.count, max |-> ht.max]
  BY TableFields
<1>2. ExpandArray(ht) = [ht EXCEPT !.array = LinkAll(2 * ht.max + 1, Entries(ht)),
                                   !.max = 2 * ht.max + 1]
  BY DEF ExpandArray, LinkAll
<1> DEFINE a == LinkAll(2 * ht.max + 1, Entries(ht))
           m == 2 * ht.max + 1
<1> HIDE DEF a, m
<1>3. [ht EXCEPT !.array = a, !.max = m] = [array |-> a, count |-> ht.count, max |-> m]
  <2>1. PICK r : r = [ht EXCEPT !.array = a]
    OBVIOUS
  <2>2. r = [array |-> a, count |-> ht.count, max |-> ht.max]
    BY <1>1, <2>1
  <2>3. [r EXCEPT !.max = m] = [array |-> a, count |-> ht.count, max |-> m]
    BY <2>2
  <2>4. QED
    BY Zenon, <2>1, <2>3
<1>4. QED
  BY <1>2, <1>3 DEF a, m

\* So it keeps a table consistent, and its entries.
LEMMA Expanded ==
  ASSUME NEW ht, NEW at, Consistent(ht, at), NEW n, n = ExpandArray(ht)
  PROVE  Consistent(n, at) /\ EntrySet(n) = EntrySet(ht)
<1> DEFINE es == Entries(ht)
           m == 2 * ht.max + 1
           a == LinkAll(m, es)
<1>1. /\ ht \in Tables /\ Placed(ht, at)
      /\ ht.max \in Nat /\ ht.count \in Int
  BY TableFields DEF Consistent
<1>2. m \in Nat
  BY <1>1
<1>3. /\ es \in Seq(Entry) /\ ToSet(es) = EntrySet(ht) /\ ht.count = Len(es)
      /\ \A i, j \in 1 .. Len(es) : at[es[i].key] = at[es[j].key] => i = j
  BY ConsistentEntries
<1>4. n = [array |-> a, count |-> ht.count, max |-> m]
  BY <1>1, ExpandArrayIs
<1> HIDE DEF es, m
<1>5. LinkedUp(es, Len(es), m, a)
  BY <1>2, <1>3, AllLinked
<1> HIDE DEF a
<1>6. n.array = a /\ n.count = ht.count /\ n.max = m
  BY <1>4
<1>7. a \in [0 .. m -> Seq(Entry)]
  BY <1>5 DEF LinkedUp
<1>8. PICK b : Linked(es, Len(es), m, a, b)
  BY <1>5 DEF LinkedUp
<1>9. SpelledBy(es, 0 .. m, a, b)
  <2>1. \A x \in 1 .. Len(es) : es[x] = a[b[x][1]][b[x][2]]
    BY <1>8 DEF Linked
  <2>2. QED
    BY <1>8, <2>1 DEF Linked, SpelledBy
<1>10. Spells(es, 0 .. m, a)
  BY <1>9 DEF Spells
<1>11. n \in Tables
  BY <1>1, <1>2, <1>4, <1>6, <1>7, TableOf
<1>12. Places(n) = Spots(0 .. m, a)
  BY <1>6 DEF Places
<1>13. /\ IsFiniteSet(Spots(0 .. m, a)) /\ Cardinality(Spots(0 .. m, a)) = Len(es)
       /\ ToSet(es) = {a[p[1]][p[2]] : p \in Spots(0 .. m, a)}
  BY <1>3, <1>10, SpelledLength
<1>14. Counted(n)
  BY <1>3, <1>6, <1>12, <1>13 DEF Counted
<1>15. EntrySet(n) = EntrySet(ht)
  <2>1. EntrySet(n) = {a[p[1]][p[2]] : p \in Spots(0 .. m, a)}
    BY Zenon, <1>6, <1>12 DEF EntrySet, At
  <2>2. QED
    BY Zenon, <1>3, <1>13, <2>1
<1>16. ASSUME NEW p \in Places(n)
       PROVE  \E x \in 1 .. Len(es) : b[x] = p /\ At(n, p) = es[x] /\ p[1] = Chain(es[x].hash, m)
  <2>1. PICK x \in 1 .. Len(es) : b[x] = p
    BY <1>8, <1>12 DEF Linked
  <2>2. a[p[1]][p[2]] = es[x] /\ p[1] = Chain(es[x].hash, m)
    BY <1>8, <2>1 DEF Linked
  <2>3. QED
    BY <1>6, <2>1, <2>2 DEF At
<1>17. Placed(n, at)
  <2>1. ASSUME NEW p \in Places(n) PROVE PlacedAt(At(n, p), p[1], n, at)
    <3>1. PICK x \in 1 .. Len(es) : At(n, p) = es[x] /\ p[1] = Chain(es[x].hash, m)
      BY <1>16
    <3>2. es[x] \in EntrySet(ht)
      BY <1>3, SeqAsSet
    <3>3. PICK q \in Places(ht) : At(ht, q) = es[x]
      BY <3>2 DEF EntrySet
    <3>4. PlacedAt(es[x], q[1], ht, at)
      BY <1>1, <3>3 DEF Placed
    <3>5. QED
      BY <1>6, <3>1, <3>4 DEF PlacedAt
  <2>2. QED
    BY <2>1 DEF Placed
<1>18. Unique(n, at)
  <2>1. ASSUME NEW p \in Places(n), NEW q \in Places(n), at[At(n, p).key] = at[At(n, q).key]
        PROVE  p = q
    <3>1. PICK x \in 1 .. Len(es) : b[x] = p /\ At(n, p) = es[x]
      BY <1>16
    <3>2. PICK y \in 1 .. Len(es) : b[y] = q /\ At(n, q) = es[y]
      BY <1>16
    <3>3. x = y
      BY <1>3, <2>1, <3>1, <3>2
    <3>4. QED
      BY <3>1, <3>2, <3>3
  <2>2. QED
    BY <2>1 DEF Unique
<1>19. QED
  BY <1>11, <1>14, <1>15, <1>17, <1>18 DEF Consistent

-----------------------------------------------------------------------------
(* HashDelete and HashSet. *)

\* HashDelete takes the entry with the key away, and no other.
LEMMA HashDeletes ==
  ASSUME NEW ht, NEW at, Consistent(ht, at), NEW ptr, at[ptr] \in Keys,
         NEW n, n = HashDelete(ht, at, ptr)
  PROVE  /\ Consistent(n, at)
         /\ EntrySet(n) = {e \in EntrySet(ht) : at[e.key] # at[ptr]}
<1>1. PICK key \in Keys : key = at[ptr]
  OBVIOUS
<1>2. PICK i : i = Chain(HashfuncDefault(key), ht.max)
  OBVIOUS
<1>3. PICK pos : pos = FindEntry(ht, at, key)
  OBVIOUS
<1>4. Finds(ht, at, key, i, pos)
  BY <1>2, <1>3, FindsEntry
<1>5. n = IF pos = 0 THEN ht ELSE RemovePlace(ht, i, pos)
  BY Zenon, <1>1, <1>2, <1>3 DEF HashDelete, RemovePlace
<1>6. CASE pos = 0
  <2>1. n = ht /\ \A e \in EntrySet(ht) : at[e.key] # key
    BY <1>4, <1>5, <1>6 DEF Finds
  <2>2. QED
    BY <1>1, <2>1
<1>7. CASE pos # 0
  <2>1. /\ ht \in Tables /\ Placed(ht, at) /\ Unique(ht, at) /\ Counted(ht)
        /\ i \in 0 .. ht.max /\ pos \in 1 .. Len(ht.array[i]) /\ <<i, pos>> \in Places(ht)
        /\ at[ht.array[i][pos].key] = key
        /\ \A p \in Places(ht) : at[At(ht, p).key] = key => p = <<i, pos>>
    BY <1>4, <1>7 DEF Consistent, Finds
  <2>2. n = RemovePlace(ht, i, pos)
    BY <1>5, <1>7
  <2>3. PICK gone : gone = <<i, pos>>
    OBVIOUS
  <2>4. /\ n \in Tables /\ n.max = ht.max /\ n.count = ht.count - 1
        /\ \E q \in Places(ht) : Places(n) = Places(ht) \ {q}
        /\ \E f : Moved(ht, n, gone, f)
    BY <2>1, <2>2, <2>3, RemovedTable
  <2>5. PICK f : Moved(ht, n, gone, f)
    BY <2>4
  <2>6. gone \in Places(ht) /\ at[At(ht, gone).key] = key
    BY <2>1, <2>3 DEF At
  <2>7. \A p \in Places(ht) : at[At(ht, p).key] = key => p = gone
    BY <2>1, <2>3
  <2>8. Counted(n)
    <3>1. PICK q \in Places(ht) : Places(n) = Places(ht) \ {q}
      BY <2>4
    <3>2. IsFiniteSet(Places(ht)) /\ ht.count = Cardinality(Places(ht))
      BY <2>1 DEF Counted
    <3>3. IsFiniteSet(Places(n)) /\ Cardinality(Places(n)) = Cardinality(Places(ht)) - 1
      BY <3>1, <3>2, FS_RemoveElement
    <3>4. QED
      BY <2>4, <3>2, <3>3 DEF Counted
  <2>9. \A p \in Places(n) : /\ f[p] \in Places(ht) /\ At(n, p) = At(ht, f[p])
                             /\ f[p][1] = p[1] /\ f[p] # gone
    BY <2>5 DEF Moved
  <2>10. Placed(n, at)
    BY <2>1, <2>4, <2>9 DEF Placed, PlacedAt
  <2>11. Unique(n, at)
    <3>1. ASSUME NEW p \in Places(n), NEW q \in Places(n), at[At(n, p).key] = at[At(n, q).key]
          PROVE  p = q
      <4>1. f[p] = f[q]
        BY <2>1, <2>9, <3>1 DEF Unique
      <4>2. QED
        BY <2>5, <4>1 DEF Moved
    <3>2. QED
      BY <3>1 DEF Unique
  <2>12. ASSUME NEW e \in EntrySet(n) PROVE e \in EntrySet(ht) /\ at[e.key] # key
    <3>1. PICK p \in Places(n) : At(n, p) = e
      BY DEF EntrySet
    <3>2. f[p] \in Places(ht) /\ At(ht, f[p]) = e /\ f[p] # gone
      BY <2>9, <3>1
    <3>3. QED
      BY <2>7, <3>2 DEF EntrySet
  <2>13. ASSUME NEW e \in EntrySet(ht), at[e.key] # key PROVE e \in EntrySet(n)
    <3>1. PICK q \in Places(ht) : At(ht, q) = e
      BY DEF EntrySet
    <3>2. q # gone
      BY <2>6, <2>13, <3>1
    <3>3. PICK p \in Places(n) : f[p] = q
      BY <2>5, <3>2 DEF Moved
    <3>4. At(n, p) = e
      BY <2>9, <3>1, <3>3
    <3>5. QED
      BY <3>4 DEF EntrySet
  <2>14. EntrySet(n) = {e \in EntrySet(ht) : at[e.key] # at[ptr]}
    BY <1>1, <2>12, <2>13
  <2>15. QED
    BY <2>4, <2>8, <2>10, <2>11, <2>14 DEF Consistent
<1>8. QED
  BY <1>6, <1>7

\* Its type, whatever the table holds.
LEMMA HashDeleteTyped ==
  ASSUME NEW ht \in Tables, NEW at, NEW ptr, at[ptr] \in Keys
  PROVE  HashDelete(ht, at, ptr) \in Tables
<1>1. PICK key \in Keys : key = at[ptr]
  OBVIOUS
<1>2. PICK i : i = Chain(HashfuncDefault(key), ht.max)
  OBVIOUS
<1>3. PICK pos : pos = FindEntry(ht, at, key)
  OBVIOUS
<1>4. PICK n : n = HashDelete(ht, at, ptr)
  OBVIOUS
<1>5. n = IF pos = 0 THEN ht ELSE RemovePlace(ht, i, pos)
  BY Zenon, <1>1, <1>2, <1>3, <1>4 DEF HashDelete, RemovePlace
<1>6. i \in 0 .. ht.max /\ ht.array[i] \in Seq(Entry) /\ Len(ht.array[i]) \in Nat
  <2>1. key \in Nat /\ ht.max \in Nat
    BY TableFields, UpfSessionAssumption
  <2>2. i \in 0 .. ht.max
    BY <1>2, <2>1, HashRange, ChainRange
  <2>3. QED
    BY <2>2, TableFields, LenProperties
<1>7. CASE pos # 0
  <2> DEFINE I == {j \in 1 .. Len(ht.array[i]) :
                     ht.array[i][j].hash = HashfuncDefault(key) /\ at[ht.array[i][j].key] = key}
  <2>1. pos = IF I # {} THEN Min(I) ELSE 0
    BY Zenon, <1>2, <1>3 DEF FindEntry, SelectInSeq
  <2>2. I \in SUBSET Nat
    BY <1>6
  <2>3. pos \in I
    BY <1>7, <2>1, <2>2, MinOfNats
  <2>4. pos \in 1 .. Len(ht.array[i]) /\ n = RemovePlace(ht, i, pos)
    BY <1>5, <1>7, <2>3
  <2>5. n \in Tables
    BY <1>6, <2>4, RemovedTable
  <2>6. QED
    BY <1>4, <2>5
<1>8. QED
  BY <1>4, <1>5, <1>7

\* What HashSet makes of a table's entries: the one with the key of ptr has
\* the value, and the key pointer of an entry that was there or ptr.
SetEffect(ht, n, at, ptr, val) ==
  /\ \A e \in EntrySet(n) :
       \/ e \in EntrySet(ht) /\ at[e.key] # at[ptr]
       \/ /\ at[e.key] = at[ptr] /\ e.val = val
          /\ e.key = ptr \/ \E f \in EntrySet(ht) : f.key = e.key
  /\ \A e \in EntrySet(ht) : at[e.key] # at[ptr] => e \in EntrySet(n)
  /\ \E e \in EntrySet(n) : e.val = val /\ at[e.key] = at[ptr]

\* HashSet of a key that no entry has,
LEMMA HashAdds ==
  ASSUME NEW ht, NEW at, Consistent(ht, at), NEW ptr \in Slots, NEW val \in Slots,
         NEW key \in Keys, key = at[ptr],
         \A e \in EntrySet(ht) : at[e.key] # key,
         NEW n, n = AppendAt(ht, Chain(HashfuncDefault(key), ht.max),
                             [hash |-> HashfuncDefault(key), key |-> ptr, val |-> val])
  PROVE  Consistent(n, at) /\ SetEffect(ht, n, at, ptr, val)
<1>1. /\ ht \in Tables /\ Placed(ht, at) /\ Unique(ht, at) /\ Counted(ht)
      /\ ht.max \in Nat /\ key \in Nat
  BY TableFields, UpfSessionAssumption DEF Consistent
<1>2. PICK h \in Nat : h = HashfuncDefault(key)
  BY <1>1, HashRange
<1>3. PICK i \in 0 .. ht.max : i = Chain(h, ht.max)
  BY <1>1, ChainRange
<1>4. PICK e \in Entry : e = [hash |-> h, key |-> ptr, val |-> val]
  BY DEF Entry
<1>5. n = AppendAt(ht, i, e)
  BY <1>2, <1>3, <1>4
<1>6. /\ n \in Tables /\ n.max = ht.max /\ n.count = ht.count + 1
      /\ \E q : /\ q[1] = i /\ q \notin Places(ht) /\ Places(n) = Places(ht) \cup {q}
                /\ At(n, q) = e /\ \A p \in Places(ht) : At(n, p) = At(ht, p)
  BY <1>1, <1>5, AppendedTable
<1>7. PICK q : /\ q[1] = i /\ q \notin Places(ht) /\ Places(n) = Places(ht) \cup {q}
               /\ At(n, q) = e /\ \A p \in Places(ht) : At(n, p) = At(ht, p)
  BY <1>6
<1>8. e.hash = h /\ e.key = ptr /\ e.val = val
  BY <1>4
<1>9. Counted(n)
  <2>1. IsFiniteSet(Places(ht)) /\ ht.count = Cardinality(Places(ht))
    BY <1>1 DEF Counted
  <2>2. IsFiniteSet(Places(n)) /\ Cardinality(Places(n)) = Cardinality(Places(ht)) + 1
    BY <1>7, <2>1, FS_AddElement
  <2>3. QED
    BY <1>6, <2>1, <2>2 DEF Counted
<1>10. Placed(n, at)
  <2>1. ASSUME NEW p \in Places(ht) PROVE PlacedAt(At(n, p), p[1], n, at)
    BY <1>1, <1>6, <1>7 DEF Placed, PlacedAt
  <2>2. PlacedAt(At(n, q), q[1], n, at)
    BY <1>2, <1>3, <1>6, <1>7, <1>8 DEF PlacedAt
  <2>3. QED
    BY <1>7, <2>1, <2>2 DEF Placed
<1>11. \A p \in Places(ht) : at[At(n, p).key] # key /\ At(n, p) \in EntrySet(ht)
  BY <1>7 DEF EntrySet
<1>12. at[At(n, q).key] = key
  BY <1>7, <1>8
<1>13. Unique(n, at)
  <2>1. ASSUME NEW p \in Places(n), NEW r \in Places(n), at[At(n, p).key] = at[At(n, r).key]
        PROVE  p = r
    <3>1. CASE p \in Places(ht) /\ r \in Places(ht)
      BY <1>1, <1>7, <2>1, <3>1 DEF Unique
    <3>2. CASE p = q \/ r = q
      BY <1>7, <1>11, <1>12, <2>1, <3>2
    <3>3. QED
      BY <1>7, <3>1, <3>2
  <2>2. QED
    BY <2>1 DEF Unique
<1>14. Consistent(n, at)
  BY <1>6, <1>9, <1>10, <1>13 DEF Consistent
<1>15. EntrySet(n) = EntrySet(ht) \cup {e}
  <2>1. \A p \in Places(ht) : p \in Places(n) /\ At(n, p) = At(ht, p)
    BY <1>7
  <2>2. q \in Places(n) /\ At(n, q) = e /\ \A p \in Places(n) : p \in Places(ht) \/ p = q
    BY <1>7
  <2>3. QED
    BY <2>1, <2>2 DEF EntrySet
<1>16. SetEffect(ht, n, at, ptr, val)
  BY <1>8, <1>15 DEF SetEffect
<1>17. QED
  BY <1>14, <1>16

\* of a key an entry has,
LEMMA HashReplaces ==
  ASSUME NEW ht, NEW at, Consistent(ht, at), NEW ptr \in Slots, NEW val \in Slots,
         NEW key \in Keys, key = at[ptr], NEW i, NEW pos, pos # 0, Finds(ht, at, key, i, pos),
         NEW n, n = ReplaceValue(ht, i, pos, val)
  PROVE  Consistent(n, at) /\ SetEffect(ht, n, at, ptr, val)
<1>1. /\ ht \in Tables /\ Placed(ht, at) /\ Unique(ht, at) /\ Counted(ht)
  BY DEF Consistent
<1>2. PICK q : q = <<i, pos>>
  OBVIOUS
<1>3. /\ i \in 0 .. ht.max /\ pos \in 1 .. Len(ht.array[i]) /\ q \in Places(ht)
      /\ at[At(ht, q).key] = key
      /\ \A p \in Places(ht) : at[At(ht, p).key] = key => p = q
  BY <1>2 DEF Finds, At
<1>4. /\ n \in Tables /\ n.max = ht.max /\ n.count = ht.count
      /\ Places(n) = Places(ht)
      /\ At(n, q) = [At(ht, q) EXCEPT !.val = val]
      /\ \A p \in Places(ht) : p # q => At(n, p) = At(ht, p)
  BY <1>1, <1>2, <1>3, ReplacedTable
<1>5. At(ht, q) \in Entry
  BY <1>1, <1>3, PlaceEntry
<1>6. At(n, q).hash = At(ht, q).hash /\ At(n, q).key = At(ht, q).key /\ At(n, q).val = val
  BY <1>4, <1>5 DEF Entry
<1>7. \A p \in Places(ht) : At(n, p).hash = At(ht, p).hash /\ At(n, p).key = At(ht, p).key
  BY <1>4, <1>6
<1>8. Counted(n)
  BY <1>1, <1>4 DEF Counted
<1>9. Placed(n, at)
  BY <1>1, <1>4, <1>7 DEF Placed, PlacedAt
<1>10. Unique(n, at)
  BY <1>1, <1>4, <1>7 DEF Unique
<1>11. ASSUME NEW e \in EntrySet(n)
       PROVE  \/ e \in EntrySet(ht) /\ at[e.key] # key
              \/ /\ at[e.key] = key /\ e.val = val
                 /\ \E f \in EntrySet(ht) : f.key = e.key
  <2>1. PICK p \in Places(ht) : At(n, p) = e
    BY <1>4 DEF EntrySet
  <2>2. CASE p = q
    <3>1. At(ht, q) \in EntrySet(ht)
      BY <1>3 DEF EntrySet
    <3>2. QED
      BY <1>3, <1>6, <2>1, <2>2, <3>1
  <2>3. CASE p # q
    <3>1. At(ht, p) = e /\ e \in EntrySet(ht)
      BY <1>4, <2>1, <2>3 DEF EntrySet
    <3>2. QED
      BY <1>3, <2>3, <3>1
  <2>4. QED
    BY <2>2, <2>3
<1>12. ASSUME NEW e \in EntrySet(ht), at[e.key] # key PROVE e \in EntrySet(n)
  <2>1. PICK p \in Places(ht) : At(ht, p) = e
    BY DEF EntrySet
  <2>2. p # q
    BY <1>3, <1>12, <2>1
  <2>3. p \in Places(n) /\ At(n, p) = e
    BY <1>4, <2>1, <2>2
  <2>4. QED
    BY <2>3 DEF EntrySet
<1>13. At(n, q) \in EntrySet(n) /\ at[At(n, q).key] = key
  BY <1>3, <1>4, <1>6 DEF EntrySet
<1>14. SetEffect(ht, n, at, ptr, val)
  BY <1>6, <1>11, <1>12, <1>13 DEF SetEffect
<1>15. QED
  BY <1>4, <1>8, <1>9, <1>10, <1>14 DEF Consistent

\* and of any key, with the growth of the table.
LEMMA HashSets ==
  ASSUME NEW ht, NEW at, Consistent(ht, at), NEW ptr \in Slots, NEW val \in Slots,
         at[ptr] \in Keys, NEW n, n = HashSet(ht, at, ptr, val)
  PROVE  Consistent(n, at) /\ SetEffect(ht, n, at, ptr, val)
<1>1. PICK key \in Keys : key = at[ptr]
  OBVIOUS
<1>2. PICK i : i = Chain(HashfuncDefault(key), ht.max)
  OBVIOUS
<1>3. PICK pos : pos = FindEntry(ht, at, key)
  OBVIOUS
<1>4. Finds(ht, at, key, i, pos)
  BY <1>2, <1>3, FindsEntry
<1>5. PICK set : set = IF pos = 0
                       THEN AppendAt(ht, i, [hash |-> HashfuncDefault(key), key |-> ptr, val |-> val])
                       ELSE ReplaceValue(ht, i, pos, val)
  OBVIOUS
<1>6. n = IF set.count > set.max THEN ExpandArray(set) ELSE set
  BY Zenon, <1>1, <1>2, <1>3, <1>5 DEF HashSet, AppendAt, ReplaceValue
<1>7. Consistent(set, at) /\ SetEffect(ht, set, at, ptr, val)
  <2>1. CASE pos = 0
    <3>1. \A e \in EntrySet(ht) : at[e.key] # key
      BY <1>4, <2>1 DEF Finds
    <3>2. set = AppendAt(ht, Chain(HashfuncDefault(key), ht.max),
                         [hash |-> HashfuncDefault(key), key |-> ptr, val |-> val])
      BY <1>2, <1>5, <2>1
    <3>3. QED
      BY <1>1, <3>1, <3>2, HashAdds
  <2>2. CASE pos # 0
    <3>1. set = ReplaceValue(ht, i, pos, val)
      BY <1>5, <2>2
    <3>2. QED
      BY <1>1, <1>4, <2>2, <3>1, HashReplaces
  <2>3. QED
    BY <2>1, <2>2
<1>8. CASE n = set
  BY <1>7, <1>8
<1>9. CASE n = ExpandArray(set)
  <2>1. Consistent(n, at) /\ EntrySet(n) = EntrySet(set)
    BY <1>7, <1>9, Expanded
  <2>2. QED
    BY <1>7, <2>1 DEF SetEffect
<1>10. QED
  BY <1>6, <1>8, <1>9

(* A table stays consistent while the keys of its entries stay. *)
LEMMA KeysStay ==
  ASSUME NEW ht, NEW at, NEW to, Consistent(ht, at), \A e \in EntrySet(ht) : to[e.key] = at[e.key]
  PROVE  Consistent(ht, to)
<1>1. ht \in Tables /\ Placed(ht, at) /\ Unique(ht, at) /\ Counted(ht)
  BY DEF Consistent
<1>2. \A p \in Places(ht) : to[At(ht, p).key] = at[At(ht, p).key]
  BY DEF EntrySet
<1>3. Placed(ht, to)
  BY <1>1, <1>2 DEF Placed, PlacedAt
<1>4. Unique(ht, to)
  BY <1>1, <1>2 DEF Unique
<1>5. QED
  BY <1>1, <1>3, <1>4 DEF Consistent

\* A new table is empty and consistent.
LEMMA HashMakeConsistent ==
  ASSUME NEW at PROVE Consistent(HashMake, at) /\ EntrySet(HashMake) = {}
<1>1. PICK ht : ht = HashMake
  OBVIOUS
<1>2. InitialMax \in Nat
  BY HashAssumption
<1>3. /\ ht = [array |-> ht.array, count |-> ht.count, max |-> ht.max]
      /\ ht.array = AllocArray(InitialMax) /\ ht.count = 0 /\ ht.max = InitialMax
  BY <1>1 DEF HashMake
<1>4. ht.array \in [0 .. ht.max -> Seq(Entry)] /\ \A i \in 0 .. ht.max : ht.array[i] = << >>
  BY <1>3 DEF AllocArray
<1>5. ht \in Tables
  BY <1>2, <1>3, <1>4, TableOf
<1>6. Places(ht) = {}
  BY <1>4 DEF Places, Spots
<1>7. Counted(ht)
  BY <1>3, <1>6, FS_EmptySet DEF Counted
<1>8. Placed(ht, at) /\ Unique(ht, at) /\ EntrySet(ht) = {}
  BY <1>6 DEF Placed, Unique, EntrySet
<1>9. QED
  BY <1>1, <1>5, <1>7, <1>8 DEF Consistent

-----------------------------------------------------------------------------
(* The context of the session handlers. *)

Session == [hashKey : Keys \cup {Null}, node : Nodes \cup {Null}, smfSeid : 0 .. MaxSessions]
Contexts == [pool : Seq(Slots), session : [Slots -> Session], sessionHash : Tables,
             rule : [Rules -> Slots \cup {Null}], kernel : SUBSET Rules]

Held(ctx) == Slots \ ToSet(ctx.pool)

TableHolds(ctx) ==
  /\ Consistent(ctx.sessionHash, KeyAt(ctx))
  /\ \A e \in EntrySet(ctx.sessionHash) :
       /\ e.key \in Held(ctx) /\ e.val \in Held(ctx)
       /\ ctx.session[e.key].hashKey = ctx.session[e.val].hashKey

HeldHaveKeys(ctx, barred, shared) ==
  \A s \in Held(ctx) \ barred :
    /\ ctx.session[s].hashKey \in Keys
    /\ ctx.session[s].hashKey \notin shared => \E e \in EntrySet(ctx.sessionHash) : e.val = s

BarredAreHeld(ctx, barred) ==
  \A s \in barred : s \in Held(ctx) /\ ctx.session[s].hashKey = Null

RulesOwned(ctx) ==
  \A r \in Rules : ctx.rule[r] # Null => ctx.rule[r] \in Held(ctx) /\ r \in ctx.kernel

SoundContext(ctx, barred, shared) ==
  /\ ctx \in Contexts /\ IsInjective(ctx.pool)
  /\ TableHolds(ctx) /\ HeldHaveKeys(ctx, barred, shared)
  /\ BarredAreHeld(ctx, barred) /\ RulesOwned(ctx)

\* A context has the fields of its record, and what has them is a context.
LEMMA ContextFields ==
  ASSUME NEW ctx \in Contexts
  PROVE  /\ ctx.pool \in Seq(Slots) /\ ctx.session \in [Slots -> Session]
         /\ ctx.sessionHash \in Tables /\ ctx.rule \in [Rules -> Slots \cup {Null}]
         /\ ctx.kernel \in SUBSET Rules
         /\ ctx = [pool |-> ctx.pool, session |-> ctx.session, sessionHash |-> ctx.sessionHash,
                   rule |-> ctx.rule, kernel |-> ctx.kernel]
  BY DEF Contexts

LEMMA ContextOf ==
  ASSUME NEW n,
         n = [pool |-> n.pool, session |-> n.session, sessionHash |-> n.sessionHash,
              rule |-> n.rule, kernel |-> n.kernel],
         n.pool \in Seq(Slots), n.session \in [Slots -> Session], n.sessionHash \in Tables,
         n.rule \in [Rules -> Slots \cup {Null}], n.kernel \in SUBSET Rules
  PROVE  n \in Contexts
  BY DEF Contexts

LEMMA KeyAtIs ==
  ASSUME NEW ctx, NEW s \in Slots PROVE KeyAt(ctx)[s] = ctx.session[s].hashKey
  BY DEF KeyAt

LEMMA SessionFields ==
  ASSUME NEW ctx \in Contexts, NEW s \in Slots
  PROVE  /\ ctx.session[s] \in Session /\ ctx.session[s].hashKey \in Keys \cup {Null}
         /\ ctx.session[s].node \in Nodes \cup {Null}
         /\ ctx.session[s].smfSeid \in 0 .. MaxSessions
<1>1. ctx.session[s] \in Session
  BY ContextFields
<1>2. QED
  BY <1>1 DEF Session

(* Entries with the same key are one entry. *)
LEMMA EntryOfKey ==
  ASSUME NEW ht, NEW at, Consistent(ht, at), NEW e \in EntrySet(ht), NEW f \in EntrySet(ht),
         at[e.key] = at[f.key]
  PROVE  e = f
<1>1. PICK p \in Places(ht) : At(ht, p) = e
  BY DEF EntrySet
<1>2. PICK q \in Places(ht) : At(ht, q) = f
  BY DEF EntrySet
<1>3. p = q
  BY <1>1, <1>2 DEF Consistent, Unique
<1>4. QED
  BY <1>1, <1>2, <1>3

LEMMA EntryFields ==
  ASSUME NEW ht \in Tables, NEW e \in EntrySet(ht)
  PROVE  e \in Entry /\ e.key \in Slots /\ e.val \in Slots
<1>1. PICK p \in Places(ht) : At(ht, p) = e
  BY DEF EntrySet
<1>2. e \in Entry
  BY <1>1, PlaceEntry
<1>3. QED
  BY <1>2 DEF Entry

-----------------------------------------------------------------------------
(* UpfSessionRemove *)

RemovedFields(ctx, s, stuck, n) ==
  /\ n = [pool |-> n.pool, session |-> n.session, sessionHash |-> n.sessionHash,
          rule |-> n.rule, kernel |-> n.kernel]
  /\ n.pool = Append(ctx.pool, s) /\ n.session = ctx.session
  /\ n.sessionHash = HashDelete(ctx.sessionHash, KeyAt(ctx), s)
  /\ n.rule = [r \in Rules |-> IF ctx.rule[r] = s THEN Null ELSE ctx.rule[r]]
  /\ n.kernel = ctx.kernel \ ({r \in Rules : ctx.rule[r] = s} \ stuck)

\* The fields of a context after UpfSessionRemove.
LEMMA RemoveFields ==
  ASSUME NEW ctx \in Contexts, NEW s, NEW stuck, NEW n, n = UpfSessionRemove(ctx, s, stuck)
  PROVE  RemovedFields(ctx, s, stuck, n)
<1>1. PICK t : t = HashDelete(ctx.sessionHash, KeyAt(ctx), s)
  OBVIOUS
<1>2. PICK u : u = [r \in Rules |-> IF ctx.rule[r] = s THEN Null ELSE ctx.rule[r]]
  OBVIOUS
<1>3. PICK v : v = ctx.kernel \ ({r \in Rules : ctx.rule[r] = s} \ stuck)
  OBVIOUS
<1>4. PICK w : w = Append(ctx.pool, s)
  OBVIOUS
<1>5. PICK n1 : n1 = [ctx EXCEPT !.sessionHash = t]
  OBVIOUS
<1>6. PICK n2 : n2 = [n1 EXCEPT !.rule = u]
  OBVIOUS
<1>7. PICK n3 : n3 = [n2 EXCEPT !.kernel = v]
  OBVIOUS
<1>8. n = [n3 EXCEPT !.pool = w]
  BY Zenon, <1>1, <1>2, <1>3, <1>4, <1>5, <1>6, <1>7 DEF UpfSessionRemove
<1>9. n1 = [pool |-> ctx.pool, session |-> ctx.session, sessionHash |-> t,
            rule |-> ctx.rule, kernel |-> ctx.kernel]
  BY <1>5, ContextFields
<1>10. n2 = [pool |-> ctx.pool, session |-> ctx.session, sessionHash |-> t,
             rule |-> u, kernel |-> ctx.kernel]
  BY <1>6, <1>9
<1>11. n3 = [pool |-> ctx.pool, session |-> ctx.session, sessionHash |-> t,
             rule |-> u, kernel |-> v]
  BY <1>7, <1>10
<1>12. n = [pool |-> w, session |-> ctx.session, sessionHash |-> t, rule |-> u, kernel |-> v]
  BY <1>8, <1>11
<1>13. /\ n.pool = w /\ n.session = ctx.session /\ n.sessionHash = t /\ n.rule = u
       /\ n.kernel = v
  BY <1>12
<1>14. QED
  BY Zenon, <1>1, <1>2, <1>3, <1>4, <1>12, <1>13 DEF RemovedFields

\* Its type, for a session with a key.
LEMMA RemoveTyped ==
  ASSUME NEW ctx \in Contexts, NEW s \in Slots, ctx.session[s].hashKey \in Keys, NEW stuck,
         NEW n, n = UpfSessionRemove(ctx, s, stuck)
  PROVE  n \in Contexts
<1>1. PICK at : at = KeyAt(ctx)
  OBVIOUS
<1>2. at[s] \in Keys
  BY <1>1, KeyAtIs
<1>3. HashDelete(ctx.sessionHash, at, s) \in Tables
  BY <1>2, ContextFields, HashDeleteTyped
<1>4. Append(ctx.pool, s) \in Seq(Slots)
  BY ContextFields, AppendSet
<1>5. RemovedFields(ctx, s, stuck, n)
  BY RemoveFields
<1>6. n.rule \in [Rules -> Slots \cup {Null}]
  BY <1>5, ContextFields DEF RemovedFields
<1>7. n.kernel \in SUBSET Rules
  BY <1>5, ContextFields DEF RemovedFields
<1>8. /\ n.pool \in Seq(Slots) /\ n.sessionHash \in Tables
      /\ n.session \in [Slots -> Session]
  BY <1>1, <1>3, <1>4, <1>5, ContextFields DEF RemovedFields
<1>9. n = [pool |-> n.pool, session |-> n.session, sessionHash |-> n.sessionHash,
           rule |-> n.rule, kernel |-> n.kernel]
  BY <1>5 DEF RemovedFields
<1>10. QED
  BY <1>6, <1>7, <1>8, <1>9, ContextOf

Removed(ctx, n, s) ==
  /\ n.session = ctx.session /\ Held(n) = Held(ctx) \ {s}
  /\ EntrySet(n.sessionHash) =
       {e \in EntrySet(ctx.sessionHash) :
          ctx.session[e.key].hashKey # ctx.session[s].hashKey}

\* A session that is removed leaves the pool's holders and the table, with its
\* rules, and nothing else is lost.
LEMMA RemoveKeeps ==
  ASSUME NEW ctx, NEW barred, NEW shared, SoundContext(ctx, barred, shared),
         NEW s \in Held(ctx), s \notin barred, NEW stuck,
         NEW n, n = UpfSessionRemove(ctx, s, stuck)
  PROVE  SoundContext(n, barred, shared) /\ Removed(ctx, n, s)
<1>1. /\ ctx \in Contexts /\ IsInjective(ctx.pool) /\ s \in Slots /\ s \notin ToSet(ctx.pool)
      /\ TableHolds(ctx) /\ HeldHaveKeys(ctx, barred, shared)
      /\ BarredAreHeld(ctx, barred) /\ RulesOwned(ctx)
  BY DEF SoundContext, Held
<1>2. ctx.session[s].hashKey \in Keys
  BY <1>1 DEF HeldHaveKeys
<1>3. n \in Contexts
  BY <1>1, <1>2, RemoveTyped
<1>4. /\ n.pool = Append(ctx.pool, s) /\ n.session = ctx.session
      /\ n.sessionHash = HashDelete(ctx.sessionHash, KeyAt(ctx), s)
      /\ n.rule = [r \in Rules |-> IF ctx.rule[r] = s THEN Null ELSE ctx.rule[r]]
      /\ n.kernel = ctx.kernel \ ({r \in Rules : ctx.rule[r] = s} \ stuck)
  BY <1>1, RemoveFields DEF RemovedFields
<1>5. IsInjective(n.pool) /\ Held(n) = Held(ctx) \ {s}
  <2>1. ctx.pool \in Seq(Slots)
    BY <1>1, ContextFields
  <2>2. ToSet(n.pool) = ToSet(ctx.pool) \cup {s} /\ IsInjective(n.pool)
    BY <1>1, <1>4, <2>1, AppendSet
  <2>3. QED
    BY <2>2 DEF Held
<1>6. PICK at : at = KeyAt(ctx)
  OBVIOUS
<1>7. KeyAt(n) = at /\ \A t \in Slots : at[t] = ctx.session[t].hashKey
  BY <1>4, <1>6 DEF KeyAt
<1>8. PICK ht : ht = ctx.sessionHash
  OBVIOUS
<1>9. PICK h2 : h2 = n.sessionHash
  OBVIOUS
<1>10. /\ Consistent(ht, at) /\ ht \in Tables
       /\ \A e \in EntrySet(ht) : /\ e.key \in Held(ctx) /\ e.val \in Held(ctx)
                                  /\ ctx.session[e.key].hashKey = ctx.session[e.val].hashKey
  BY <1>1, <1>6, <1>8 DEF TableHolds, Consistent
<1>11. Consistent(h2, at) /\ EntrySet(h2) = {e \in EntrySet(ht) : at[e.key] # at[s]}
  <2>1. h2 = HashDelete(ht, at, s) /\ at[s] \in Keys
    BY <1>1, <1>2, <1>4, <1>6, <1>7, <1>8, <1>9
  <2>2. QED
    BY <1>10, <2>1, HashDeletes
<1>12. \A e \in EntrySet(ht) : e.key \in Slots /\ e.val \in Slots /\ at[e.key] = ctx.session[e.key].hashKey
                               /\ at[e.val] = at[e.key]
  BY <1>7, <1>10, EntryFields
<1>13. EntrySet(h2) = {e \in EntrySet(ht) : ctx.session[e.key].hashKey # ctx.session[s].hashKey}
  BY <1>1, <1>7, <1>11, <1>12
<1>14. Removed(ctx, n, s)
  BY <1>4, <1>5, <1>8, <1>9, <1>13 DEF Removed
<1>15. TableHolds(n)
  <2>1. ASSUME NEW e \in EntrySet(h2)
        PROVE  /\ e.key \in Held(n) /\ e.val \in Held(n)
               /\ n.session[e.key].hashKey = n.session[e.val].hashKey
    <3>1. e \in EntrySet(ht) /\ at[e.key] # at[s]
      BY <1>11
    <3>2. e.key # s /\ e.val # s
      BY <1>12, <3>1
    <3>3. QED
      BY <1>4, <1>5, <1>10, <3>1, <3>2
  <2>2. QED
    BY <1>7, <1>9, <1>11, <2>1 DEF TableHolds
<1>16. HeldHaveKeys(n, barred, shared)
  <2>1. ASSUME NEW t \in Held(n) \ barred PROVE n.session[t].hashKey \in Keys
    BY <1>1, <1>4, <1>5 DEF HeldHaveKeys
  <2>2. ASSUME NEW t \in Held(n) \ barred, n.session[t].hashKey \notin shared
        PROVE  \E e \in EntrySet(h2) : e.val = t
    <3>1. t \in Held(ctx) /\ t # s /\ t \notin barred /\ ctx.session[t].hashKey \notin shared
      BY <1>4, <1>5, <2>2
    <3>2. PICK e \in EntrySet(ht) : e.val = t
      BY <1>1, <1>8, <3>1 DEF HeldHaveKeys
    <3>3. ASSUME at[e.key] = at[s] PROVE FALSE
      <4>1. ctx.session[s].hashKey = ctx.session[t].hashKey
        BY <1>1, <1>7, <1>10, <1>12, <3>2, <3>3
      <4>2. PICK f \in EntrySet(ht) : f.val = s
        BY <1>1, <1>8, <3>1, <4>1 DEF HeldHaveKeys
      <4>3. at[f.key] = at[e.key]
        BY <1>12, <3>3, <4>2
      <4>4. f = e
        BY <1>10, <4>3, EntryOfKey
      <4>5. QED
        BY <3>1, <3>2, <4>2, <4>4
    <3>4. QED
      BY <1>11, <3>2, <3>3
  <2>3. QED
    BY <1>9, <2>1, <2>2 DEF HeldHaveKeys
<1>17. BarredAreHeld(n, barred)
  BY <1>1, <1>4, <1>5 DEF BarredAreHeld
<1>18. RulesOwned(n)
  <2>1. ASSUME NEW r \in Rules, n.rule[r] # Null PROVE n.rule[r] \in Held(n) /\ r \in n.kernel
    <3>1. ctx.rule[r] # s /\ n.rule[r] = ctx.rule[r]
      BY <1>4, <2>1
    <3>2. ctx.rule[r] \in Held(ctx) /\ r \in ctx.kernel
      BY <1>1, <2>1, <3>1 DEF RulesOwned
    <3>3. QED
      BY <1>4, <1>5, <3>1, <3>2
  <2>2. QED
    BY <2>1 DEF RulesOwned
<1>19. SoundContext(n, barred, shared)
  BY <1>3, <1>5, <1>15, <1>16, <1>17, <1>18 DEF SoundContext
<1>20. QED
  BY <1>14, <1>19

-----------------------------------------------------------------------------
(* UpfSessionAdd *)

NewSession(key, n) == [hashKey |-> key, node |-> n, smfSeid |-> made + 1]

AllocFieldsAre(ctx, key, new) ==
  /\ new = [pool |-> new.pool, session |-> new.session, sessionHash |-> new.sessionHash,
            rule |-> new.rule, kernel |-> new.kernel]
  /\ new.pool = Tail(ctx.pool)
  /\ new.session = [ctx.session EXCEPT ![Head(ctx.pool)] = NewSession(key, Null)]
  /\ new.sessionHash = ctx.sessionHash /\ new.rule = ctx.rule /\ new.kernel = ctx.kernel

\* The fields of a context after SessionAlloc.
LEMMA AllocFields ==
  ASSUME NEW ctx \in Contexts, NEW key, NEW new, new = SessionAlloc(ctx, key)
  PROVE  AllocFieldsAre(ctx, key, new)
<1>1. PICK w : w = Tail(ctx.pool)
  OBVIOUS
<1>2. PICK v : v = [ctx.session EXCEPT ![Head(ctx.pool)] = NewSession(key, Null)]
  OBVIOUS
<1>3. PICK n1 : n1 = [ctx EXCEPT !.pool = w]
  OBVIOUS
<1>4. n1 = [pool |-> w, session |-> ctx.session, sessionHash |-> ctx.sessionHash,
            rule |-> ctx.rule, kernel |-> ctx.kernel]
  BY <1>3, ContextFields
<1>5. new = [n1 EXCEPT !.session = [ctx.session EXCEPT ![Head(ctx.pool)] = NewSession(key, Null)]]
  <2>1. n1.session = ctx.session
    BY <1>4
  <2>2. new = [n1 EXCEPT !.session[Head(ctx.pool)] = NewSession(key, Null)]
    BY Zenon, <1>1, <1>3 DEF SessionAlloc, NewSession
  <2>3. QED
    BY Zenon, <2>1, <2>2
<1>6. new = [n1 EXCEPT !.session = v]
  BY Zenon, <1>2, <1>5
<1>7. new = [pool |-> w, session |-> v, sessionHash |-> ctx.sessionHash,
             rule |-> ctx.rule, kernel |-> ctx.kernel]
  BY <1>4, <1>6
<1>8. /\ new.pool = w /\ new.session = v /\ new.sessionHash = ctx.sessionHash
      /\ new.rule = ctx.rule /\ new.kernel = ctx.kernel
  BY <1>7
<1>9. QED
  BY Zenon, <1>1, <1>2, <1>7, <1>8 DEF AllocFieldsAre

\* The first half of SessionEstablishment.
Added(ctx, key, n) == [UpfSessionAdd(ctx, key) EXCEPT !.session[Head(ctx.pool)].node = n]

AddedFieldsAre(ctx, key, n, added) ==
  /\ added = [pool |-> added.pool, session |-> added.session,
              sessionHash |-> added.sessionHash, rule |-> added.rule, kernel |-> added.kernel]
  /\ added.pool = Tail(ctx.pool)
  /\ added.session = [ctx.session EXCEPT ![Head(ctx.pool)] = NewSession(key, n)]
  /\ added.sessionHash =
       HashSet(ctx.sessionHash, KeyAt(added), Head(ctx.pool), Head(ctx.pool))
  /\ added.rule = ctx.rule /\ added.kernel = ctx.kernel

\* The fields of a context with a session more.
LEMMA AddedFields ==
  ASSUME NEW ctx \in Contexts, Head(ctx.pool) \in Slots, NEW key, NEW n,
         NEW added, added = Added(ctx, key, n)
  PROVE  AddedFieldsAre(ctx, key, n, added)
<1>1. PICK s \in Slots : s = Head(ctx.pool)
  OBVIOUS
<1>2. PICK new : new = SessionAlloc(ctx, key)
  OBVIOUS
<1>3. AllocFieldsAre(ctx, key, new)
  BY <1>2, AllocFields
<1>4. PICK h : h = HashSet(ctx.sessionHash, KeyAt(new), s, s)
  OBVIOUS
<1>5. PICK n1 : n1 = [new EXCEPT !.sessionHash = h]
  OBVIOUS
<1>6. n1 = UpfSessionAdd(ctx, key)
  BY Zenon, <1>1, <1>2, <1>3, <1>4, <1>5 DEF UpfSessionAdd, AllocFieldsAre
<1>7. n1 = [pool |-> new.pool, session |-> new.session, sessionHash |-> h,
            rule |-> new.rule, kernel |-> new.kernel]
  BY <1>3, <1>5 DEF AllocFieldsAre
<1>8. PICK v : v = [ctx.session EXCEPT ![s] = NewSession(key, n)]
  OBVIOUS
<1>9. ctx.session \in [Slots -> Session] /\ DOMAIN ctx.session = Slots
  BY ContextFields
<1>10. [new.session EXCEPT ![s].node = n] = v
  <2>1. new.session = [ctx.session EXCEPT ![s] = NewSession(key, Null)]
    BY <1>1, <1>3 DEF AllocFieldsAre
  <2>2. new.session[s] = NewSession(key, Null)
    BY <1>9, <2>1
  <2>3. [new.session[s] EXCEPT !.node = n] = NewSession(key, n)
    BY <2>2 DEF NewSession
  <2>4. [new.session EXCEPT ![s].node = n] = [new.session EXCEPT ![s] = NewSession(key, n)]
    BY Zenon, <2>3
  <2>5. [new.session EXCEPT ![s] = NewSession(key, n)] = v
    BY <1>8, <1>9, <2>1
  <2>6. QED
    BY <2>4, <2>5
<1>11. added = [n1 EXCEPT !.session = v]
  <2>1. n1.session = new.session
    BY <1>7
  <2>2. added = [n1 EXCEPT !.session[s].node = n]
    BY Zenon, <1>1, <1>6 DEF Added
  <2>3. [n1 EXCEPT !.session[s].node = n] = [n1 EXCEPT !.session = [new.session EXCEPT ![s].node = n]]
    BY Zenon, <2>1
  <2>4. QED
    BY Zenon, <1>10, <2>2, <2>3
<1>12. added = [pool |-> new.pool, session |-> v, sessionHash |-> h,
                rule |-> new.rule, kernel |-> new.kernel]
  BY <1>7, <1>11
<1>13. /\ added.pool = new.pool /\ added.session = v /\ added.sessionHash = h
       /\ added.rule = new.rule /\ added.kernel = new.kernel
  BY <1>12
<1>14. KeyAt(added) = KeyAt(new)
  <2>1. new.session = [ctx.session EXCEPT ![s] = NewSession(key, Null)]
    BY <1>1, <1>3 DEF AllocFieldsAre
  <2>2. ASSUME NEW t \in Slots PROVE added.session[t].hashKey = new.session[t].hashKey
    <3>1. CASE t = s
      BY <1>8, <1>9, <1>13, <2>1, <3>1 DEF NewSession
    <3>2. CASE t # s
      BY <1>8, <1>9, <1>13, <2>1, <3>2
    <3>3. QED
      BY <3>1, <3>2
  <2>3. QED
    BY <2>2 DEF KeyAt
<1>15. /\ added.pool = Tail(ctx.pool) /\ added.rule = ctx.rule /\ added.kernel = ctx.kernel
  BY <1>3, <1>13 DEF AllocFieldsAre
<1>16. added = [pool |-> added.pool, session |-> added.session,
                sessionHash |-> added.sessionHash, rule |-> added.rule, kernel |-> added.kernel]
  BY Zenon, <1>12, <1>13
<1>17. added.sessionHash = HashSet(ctx.sessionHash, KeyAt(added), s, s)
  BY Zenon, <1>4, <1>13, <1>14
<1>18. added.session = [ctx.session EXCEPT ![s] = NewSession(key, n)]
  BY <1>8, <1>13
<1>19. QED
  BY Zenon, <1>1, <1>15, <1>16, <1>17, <1>18 DEF AddedFieldsAre

\* What the head of the pool is before and after it is taken.
LEMMA TakenSlot ==
  ASSUME NEW ctx \in Contexts, IsInjective(ctx.pool), ctx.pool # << >>,
         NEW new, new.pool = Tail(ctx.pool)
  PROVE  /\ Head(ctx.pool) \in Slots /\ Head(ctx.pool) \notin Held(ctx)
         /\ new.pool \in Seq(Slots) /\ IsInjective(new.pool)
         /\ Held(new) = Held(ctx) \cup {Head(ctx.pool)}
<1>1. ctx.pool \in Seq(Slots)
  BY ContextFields
<1>2. /\ Head(ctx.pool) \in Slots /\ Head(ctx.pool) \in ToSet(ctx.pool)
      /\ new.pool \in Seq(Slots) /\ ToSet(ctx.pool) = ToSet(new.pool) \cup {Head(ctx.pool)}
      /\ IsInjective(new.pool) /\ Head(ctx.pool) \notin ToSet(new.pool)
  BY <1>1, HeadTailSet
<1>3. QED
  BY <1>2 DEF Held

LEMMA NewSessionTyped ==
  ASSUME NEW key \in Keys \cup {Null}, NEW n \in Nodes \cup {Null},
         made \in 0 .. MaxSessions, made < MaxSessions
  PROVE  NewSession(key, n) \in Session
<1>1. made + 1 \in 0 .. MaxSessions
  BY UpfSessionAssumption
<1>2. QED
  BY <1>1 DEF NewSession, Session

(* A session that is added is held and listed, unless its key is shared.   *)
LEMMA AddKeeps ==
  ASSUME NEW ctx, NEW barred, NEW shared, SoundContext(ctx, barred, shared),
         ctx.pool # << >>, made \in 0 .. MaxSessions, made < MaxSessions,
         NEW key \in Keys, NEW n \in Nodes,
         NEW all, shared \subseteq all,
         (\E t \in Held(ctx) \ barred : ctx.session[t].hashKey = key) => key \in all,
         NEW added, added = Added(ctx, key, n)
  PROVE  /\ SoundContext(added, barred, all)
         /\ Held(added) = Held(ctx) \cup {Head(ctx.pool)}
         /\ Head(ctx.pool) \in Slots /\ Head(ctx.pool) \notin Held(ctx) \cup barred
         /\ added.session = [ctx.session EXCEPT ![Head(ctx.pool)] = NewSession(key, n)]
<1>1. /\ ctx \in Contexts /\ IsInjective(ctx.pool)
      /\ TableHolds(ctx) /\ HeldHaveKeys(ctx, barred, shared)
      /\ BarredAreHeld(ctx, barred) /\ RulesOwned(ctx)
  BY DEF SoundContext
<1>2. PICK s : s = Head(ctx.pool)
  OBVIOUS
<1>3. added.pool = Tail(ctx.pool) /\ s \in Slots
  <2>1. PICK new : new = [pool |-> Tail(ctx.pool)]
    OBVIOUS
  <2>2. new.pool = Tail(ctx.pool)
    BY <2>1
  <2>3. s \in Slots
    BY <1>1, <1>2, <2>2, TakenSlot
  <2>4. AddedFieldsAre(ctx, key, n, added)
    BY <1>1, <1>2, <2>3, AddedFields
  <2>5. QED
    BY <2>3, <2>4 DEF AddedFieldsAre
<1>4. /\ s \notin Held(ctx) /\ added.pool \in Seq(Slots) /\ IsInjective(added.pool)
      /\ Held(added) = Held(ctx) \cup {s}
  BY <1>1, <1>2, <1>3, TakenSlot
<1>5. /\ added = [pool |-> added.pool, session |-> added.session,
                  sessionHash |-> added.sessionHash, rule |-> added.rule, kernel |-> added.kernel]
      /\ added.session = [ctx.session EXCEPT ![s] = NewSession(key, n)]
      /\ added.sessionHash = HashSet(ctx.sessionHash, KeyAt(added), s, s)
      /\ added.rule = ctx.rule /\ added.kernel = ctx.kernel
  <2>1. AddedFieldsAre(ctx, key, n, added)
    BY <1>1, <1>2, <1>3, AddedFields
  <2>2. QED
    BY Zenon, <1>2, <2>1 DEF AddedFieldsAre
<1>6. s \notin barred
  BY <1>1, <1>4 DEF BarredAreHeld
<1>7. /\ added.session \in [Slots -> Session]
      /\ added.session[s] = NewSession(key, n) /\ added.session[s].hashKey = key
      /\ \A t \in Slots : t # s => added.session[t] = ctx.session[t]
  <2>1. NewSession(key, n) \in Session /\ NewSession(key, n).hashKey = key
    <3>1. NewSession(key, n) \in Session
      BY NewSessionTyped
    <3>2. QED
      BY <3>1 DEF NewSession
  <2>2. ctx.session \in [Slots -> Session]
    BY <1>1, ContextFields
  <2>3. QED
    BY <1>3, <1>5, <2>1, <2>2
<1>8. PICK at : at = KeyAt(added)
  OBVIOUS
<1>9. at[s] = key /\ \A t \in Slots : at[t] = added.session[t].hashKey
  BY <1>3, <1>7, <1>8 DEF KeyAt
<1>10. PICK ht : ht = ctx.sessionHash
  OBVIOUS
<1>11. PICK h2 : h2 = added.sessionHash
  OBVIOUS
<1>12. ht \in Tables /\ Consistent(ht, KeyAt(ctx))
  BY <1>1, <1>10 DEF TableHolds, Consistent
<1>13. \A e \in EntrySet(ht) : /\ e.key \in Held(ctx) /\ e.val \in Held(ctx)
                               /\ ctx.session[e.key].hashKey = ctx.session[e.val].hashKey
                               /\ e.key \in Slots /\ e.val \in Slots
  BY <1>1, <1>10, <1>12, EntryFields DEF TableHolds
<1>14. \A e \in EntrySet(ht) : /\ at[e.key] = ctx.session[e.key].hashKey
                               /\ e.key # s /\ e.val # s
  BY <1>4, <1>7, <1>9, <1>13
<1>15. Consistent(ht, at)
  <2>1. \A e \in EntrySet(ht) : at[e.key] = KeyAt(ctx)[e.key]
    BY <1>13, <1>14, KeyAtIs
  <2>2. PICK old : old = KeyAt(ctx)
    OBVIOUS
  <2>3. Consistent(ht, old) /\ \A e \in EntrySet(ht) : at[e.key] = old[e.key]
    BY <1>12, <2>1, <2>2
  <2>4. QED
    BY <2>3, KeysStay
<1>16. Consistent(h2, at) /\ SetEffect(ht, h2, at, s, s)
  <2>1. h2 = HashSet(ht, at, s, s) /\ at[s] \in Keys
    BY <1>5, <1>8, <1>9, <1>10, <1>11
  <2>2. QED
    BY <1>3, <1>15, <2>1, HashSets
<1>17. h2 \in Tables
  BY <1>16 DEF Consistent
<1>18. added \in Contexts
  <2>1. /\ added.rule \in [Rules -> Slots \cup {Null}] /\ added.kernel \in SUBSET Rules
    BY <1>1, <1>5, ContextFields
  <2>2. QED
    BY <1>4, <1>5, <1>7, <1>11, <1>17, <2>1, ContextOf
<1>19. ASSUME NEW e \in EntrySet(h2)
       PROVE  /\ e.key \in Held(added) /\ e.val \in Held(added)
              /\ added.session[e.key].hashKey = added.session[e.val].hashKey
  <2>1. CASE e \in EntrySet(ht) /\ at[e.key] # at[s]
    BY <1>4, <1>7, <1>13, <1>14, <2>1
  <2>2. CASE /\ at[e.key] = at[s] /\ e.val = s
             /\ e.key = s \/ \E f \in EntrySet(ht) : f.key = e.key
    <3>1. e.key \in Held(added) /\ e.key \in Slots
      BY <1>3, <1>4, <1>13, <2>2
    <3>2. QED
      BY <1>3, <1>4, <1>9, <2>2, <3>1
  <2>3. QED
    BY <1>16, <2>1, <2>2 DEF SetEffect
<1>20. TableHolds(added)
  BY <1>8, <1>11, <1>16, <1>19 DEF TableHolds
<1>21. HeldHaveKeys(added, barred, all)
  <2>1. ASSUME NEW t \in Held(added) \ barred PROVE added.session[t].hashKey \in Keys
    <3>1. CASE t = s
      BY <1>7, <3>1
    <3>2. CASE t # s
      <4>1. t \in Held(ctx) \ barred /\ t \in Slots
        BY <1>4, <3>2 DEF Held
      <4>2. QED
        BY <1>1, <1>7, <3>2, <4>1 DEF HeldHaveKeys
    <3>3. QED
      BY <3>1, <3>2
  <2>2. ASSUME NEW t \in Held(added) \ barred, added.session[t].hashKey \notin all
        PROVE  \E e \in EntrySet(h2) : e.val = t
    <3>1. CASE t = s
      BY <1>16, <3>1 DEF SetEffect
    <3>2. CASE t # s
      <4>1. t \in Held(ctx) \ barred /\ t \in Slots /\ added.session[t] = ctx.session[t]
        BY <1>4, <1>7, <3>2 DEF Held
      <4>2. ctx.session[t].hashKey \notin shared /\ ctx.session[t].hashKey # key
        BY <2>2, <4>1
      <4>3. PICK e \in EntrySet(ht) : e.val = t
        BY <1>1, <1>10, <4>1, <4>2 DEF HeldHaveKeys
      <4>4. at[e.key] # at[s]
        BY <1>9, <1>13, <1>14, <4>2, <4>3
      <4>5. e \in EntrySet(h2)
        BY <1>16, <4>4 DEF SetEffect
      <4>6. QED
        BY <4>3, <4>5
    <3>3. QED
      BY <3>1, <3>2
  <2>3. QED
    BY <1>11, <2>1, <2>2 DEF HeldHaveKeys
<1>22. BarredAreHeld(added, barred)
  BY <1>1, <1>4, <1>6, <1>7 DEF BarredAreHeld, Held
<1>23. RulesOwned(added)
  BY <1>1, <1>4, <1>5 DEF RulesOwned
<1>24. SoundContext(added, barred, all)
  BY <1>4, <1>18, <1>20, <1>21, <1>22, <1>23 DEF SoundContext
<1>25. QED
  BY <1>2, <1>3, <1>4, <1>5, <1>6, <1>24

(* A session whose PDN type is refused is held, without a key. *)
LEMMA AllocKeeps ==
  ASSUME NEW ctx, NEW barred, NEW shared, SoundContext(ctx, barred, shared),
         ctx.pool # << >>, made \in 0 .. MaxSessions, made < MaxSessions,
         NEW new, new = SessionAlloc(ctx, Null)
  PROVE  /\ SoundContext(new, barred \cup {Head(ctx.pool)}, shared)
         /\ Head(ctx.pool) \in Slots /\ Head(ctx.pool) \notin Held(ctx) \cup barred
         /\ Held(new) = Held(ctx) \cup {Head(ctx.pool)}
         /\ new.session = [ctx.session EXCEPT ![Head(ctx.pool)] = NewSession(Null, Null)]
<1>1. /\ ctx \in Contexts /\ IsInjective(ctx.pool)
      /\ TableHolds(ctx) /\ HeldHaveKeys(ctx, barred, shared)
      /\ BarredAreHeld(ctx, barred) /\ RulesOwned(ctx)
  BY DEF SoundContext
<1>2. PICK s : s = Head(ctx.pool)
  OBVIOUS
<1>3. /\ new = [pool |-> new.pool, session |-> new.session, sessionHash |-> new.sessionHash,
                rule |-> new.rule, kernel |-> new.kernel]
      /\ new.pool = Tail(ctx.pool)
      /\ new.session = [ctx.session EXCEPT ![s] = NewSession(Null, Null)]
      /\ new.sessionHash = ctx.sessionHash /\ new.rule = ctx.rule /\ new.kernel = ctx.kernel
  <2>1. AllocFieldsAre(ctx, Null, new)
    BY <1>1, AllocFields
  <2>2. QED
    BY Zenon, <1>2, <2>1 DEF AllocFieldsAre
<1>4. /\ s \in Slots /\ s \notin Held(ctx) /\ new.pool \in Seq(Slots) /\ IsInjective(new.pool)
      /\ Held(new) = Held(ctx) \cup {s}
  BY <1>1, <1>2, <1>3, TakenSlot
<1>5. s \notin barred
  BY <1>1, <1>4 DEF BarredAreHeld
<1>6. /\ new.session \in [Slots -> Session] /\ new.session[s].hashKey = Null
      /\ \A t \in Slots : t # s => new.session[t] = ctx.session[t]
  <2>1. NewSession(Null, Null) \in Session /\ NewSession(Null, Null).hashKey = Null
    <3>1. NewSession(Null, Null) \in Session
      BY NewSessionTyped
    <3>2. QED
      BY <3>1 DEF NewSession
  <2>2. ctx.session \in [Slots -> Session]
    BY <1>1, ContextFields
  <2>3. QED
    BY <1>3, <1>4, <2>1, <2>2
<1>7. PICK ht : ht = ctx.sessionHash
  OBVIOUS
<1>8. ht \in Tables /\ Consistent(ht, KeyAt(ctx))
  BY <1>1, <1>7 DEF TableHolds, Consistent
<1>9. \A e \in EntrySet(ht) : /\ e.key \in Held(ctx) /\ e.val \in Held(ctx)
                              /\ ctx.session[e.key].hashKey = ctx.session[e.val].hashKey
                              /\ e.key \in Slots /\ e.val \in Slots
  BY <1>1, <1>7, <1>8, EntryFields DEF TableHolds
<1>10. \A e \in EntrySet(ht) : /\ new.session[e.key] = ctx.session[e.key]
                               /\ new.session[e.val] = ctx.session[e.val]
  BY <1>4, <1>6, <1>9
<1>11. Consistent(ht, KeyAt(new))
  <2>1. \A e \in EntrySet(ht) : KeyAt(new)[e.key] = KeyAt(ctx)[e.key]
    BY <1>9, <1>10, KeyAtIs
  <2>2. PICK old, at : old = KeyAt(ctx) /\ at = KeyAt(new)
    OBVIOUS
  <2>3. Consistent(ht, old) /\ \A e \in EntrySet(ht) : at[e.key] = old[e.key]
    BY <1>8, <2>1, <2>2
  <2>4. Consistent(ht, at)
    BY <2>3, KeysStay
  <2>5. QED
    BY <2>2, <2>4
<1>12. TableHolds(new)
  BY <1>3, <1>4, <1>7, <1>9, <1>10, <1>11 DEF TableHolds
<1>13. new \in Contexts
  <2>1. /\ new.rule \in [Rules -> Slots \cup {Null}] /\ new.kernel \in SUBSET Rules
        /\ new.sessionHash \in Tables
    BY <1>1, <1>3, ContextFields
  <2>2. QED
    BY <1>3, <1>4, <1>6, <2>1, ContextOf
<1>14. HeldHaveKeys(new, barred \cup {s}, shared)
  <2>1. \A t \in Held(new) \ (barred \cup {s}) :
          t \in Held(ctx) \ barred /\ new.session[t] = ctx.session[t]
    BY <1>4, <1>6 DEF Held
  <2>2. QED
    BY <1>1, <1>3, <2>1 DEF HeldHaveKeys
<1>15. BarredAreHeld(new, barred \cup {s})
  BY <1>1, <1>4, <1>5, <1>6 DEF BarredAreHeld, Held
<1>16. RulesOwned(new)
  BY <1>1, <1>3, <1>4 DEF RulesOwned
<1>17. SoundContext(new, barred \cup {s}, shared)
  BY <1>4, <1>12, <1>13, <1>14, <1>15, <1>16 DEF SoundContext
<1>18. QED
  BY <1>2, <1>3, <1>4, <1>5, <1>17

-----------------------------------------------------------------------------
(* A session that is addressed; the handlers of the rules. *)

\* Contexts that differ in the peers of sessions, the rules and the kernel.
SameSessions(ctx, n) ==
  /\ n.pool = ctx.pool /\ n.sessionHash = ctx.sessionHash
  /\ \A t \in Slots : n.session[t].hashKey = ctx.session[t].hashKey

\* They are sound alike, if the rules have owners.
LEMMA SameSessionsKeep ==
  ASSUME NEW ctx, NEW barred \in SUBSET Slots, NEW shared, SoundContext(ctx, barred, shared),
         NEW n \in Contexts, SameSessions(ctx, n), RulesOwned(n)
  PROVE  SoundContext(n, barred, shared) /\ Held(n) = Held(ctx)
<1>1. /\ ctx \in Contexts /\ IsInjective(ctx.pool)
      /\ TableHolds(ctx) /\ HeldHaveKeys(ctx, barred, shared)
      /\ BarredAreHeld(ctx, barred)
  BY DEF SoundContext
<1>2. /\ n.pool = ctx.pool /\ n.sessionHash = ctx.sessionHash
      /\ \A t \in Slots : n.session[t].hashKey = ctx.session[t].hashKey
  BY DEF SameSessions
<1>3. Held(n) = Held(ctx) /\ KeyAt(n) = KeyAt(ctx)
  BY <1>2 DEF Held, KeyAt
<1>4. TableHolds(n)
  <2>1. \A e \in EntrySet(ctx.sessionHash) : e.key \in Slots /\ e.val \in Slots
    BY <1>1, EntryFields DEF TableHolds, Consistent
  <2>2. QED
    BY <1>1, <1>2, <1>3, <2>1 DEF TableHolds
<1>5. HeldHaveKeys(n, barred, shared)
  <2>1. \A t \in Held(ctx) : n.session[t].hashKey = ctx.session[t].hashKey
    BY <1>2 DEF Held
  <2>2. QED
    BY <1>1, <1>2, <1>3, <2>1 DEF HeldHaveKeys
<1>6. BarredAreHeld(n, barred)
  BY <1>1, <1>2, <1>3 DEF BarredAreHeld
<1>7. QED
  BY <1>1, <1>2, <1>3, <1>4, <1>5, <1>6 DEF SoundContext

AddressedBy(ctx, s, n) == [ctx EXCEPT !.session[s].node = n]

\* What addressing a session leaves as it was.
OnlyNode(ctx, s, n, new) ==
  /\ new.rule = ctx.rule /\ new.kernel = ctx.kernel
  /\ new.session[s].node = n /\ new.session[s].smfSeid = ctx.session[s].smfSeid
  /\ \A t \in Slots : t # s => new.session[t] = ctx.session[t]

\* The dispatcher's part of a message with a SEID.
LEMMA AddressKeeps ==
  ASSUME NEW ctx, NEW barred \in SUBSET Slots, NEW shared, SoundContext(ctx, barred, shared),
         NEW s \in Slots, NEW n \in Nodes, NEW new, new = AddressedBy(ctx, s, n)
  PROVE  SoundContext(new, barred, shared) /\ Held(new) = Held(ctx) /\ OnlyNode(ctx, s, n, new)
<1>1. ctx \in Contexts /\ RulesOwned(ctx)
  BY DEF SoundContext
<1>2. /\ ctx.session \in [Slots -> Session] /\ DOMAIN ctx.session = Slots
      /\ ctx.session[s] \in Session
  BY <1>1, ContextFields
<1>3. PICK w : w = [ctx.session[s] EXCEPT !.node = n]
  OBVIOUS
<1>4. /\ w \in Session /\ w.node = n /\ w.smfSeid = ctx.session[s].smfSeid
      /\ w.hashKey = ctx.session[s].hashKey
  BY <1>2, <1>3 DEF Session
<1>5. PICK v : v = [ctx.session EXCEPT ![s] = w]
  OBVIOUS
<1>6. v \in [Slots -> Session] /\ v[s] = w /\ \A t \in Slots : t # s => v[t] = ctx.session[t]
  BY <1>2, <1>4, <1>5
<1>7. new = [ctx EXCEPT !.session = v]
  BY Zenon, <1>3, <1>5 DEF AddressedBy
<1>8. new = [pool |-> ctx.pool, session |-> v, sessionHash |-> ctx.sessionHash,
             rule |-> ctx.rule, kernel |-> ctx.kernel]
  BY <1>1, <1>7, ContextFields
<1>9. /\ new.pool = ctx.pool /\ new.session = v /\ new.sessionHash = ctx.sessionHash
      /\ new.rule = ctx.rule /\ new.kernel = ctx.kernel
  BY <1>8
<1>10. new \in Contexts
  BY <1>1, <1>6, <1>8, <1>9, ContextFields, ContextOf
<1>11. SameSessions(ctx, new)
  <2>1. \A t \in Slots : new.session[t].hashKey = ctx.session[t].hashKey
    BY <1>4, <1>6, <1>9
  <2>2. QED
    BY <1>9, <2>1 DEF SameSessions
<1>12. RulesOwned(new)
  BY <1>1, <1>9 DEF RulesOwned, Held
<1>13. SoundContext(new, barred, shared) /\ Held(new) = Held(ctx)
  BY <1>10, <1>11, <1>12, SameSessionsKeep
<1>14. OnlyNode(ctx, s, n, new)
  BY <1>4, <1>6, <1>9 DEF OnlyNode
<1>15. QED
  BY <1>13, <1>14

\* What a handler of a rule does to the rules and the kernel.
Handled(ctx, s, op, new) ==
  /\ new = [pool |-> ctx.pool, session |-> ctx.session, sessionHash |-> ctx.sessionHash,
            rule |-> new.rule, kernel |-> new.kernel]
  /\ \/ new.rule = ctx.rule /\ new.kernel \in {ctx.kernel, ctx.kernel \cup {op.rule}}
        /\ (Succeeds(ctx, op) => op.do = "update")
     \/ /\ op.do = "create" /\ ctx.rule[op.rule] = Null
        /\ new.rule = [ctx.rule EXCEPT ![op.rule] = s]
        /\ new.kernel = ctx.kernel \cup {op.rule}
     \/ /\ op.do = "remove" /\ ctx.rule[op.rule] # Null
        /\ new.rule = [ctx.rule EXCEPT ![op.rule] = Null]
        /\ new.kernel = ctx.kernel \ {op.rule}

LEMMA OperationFields ==
  ASSUME NEW op \in Operations
  PROVE  op.rule \in Rules /\ op.do \in {"create", "update", "remove"}
  BY DEF Operations

\* A handler does one of these.
LEMMA HandleIs ==
  ASSUME NEW ctx \in Contexts, NEW s, NEW op \in Operations, NEW new, new = Handle(ctx, s, op)
  PROVE  Handled(ctx, s, op, new)
<1>1. PICK p, v, h, u, k : /\ p = ctx.pool /\ v = ctx.session /\ h = ctx.sessionHash
                           /\ u = ctx.rule /\ k = ctx.kernel
  OBVIOUS
<1>2. ctx = [pool |-> p, session |-> v, sessionHash |-> h, rule |-> u, kernel |-> k]
  BY <1>1, ContextFields
<1>3. CASE ~Succeeds(ctx, op)
  <2>1. PICK k2 : k2 = IF Found(ctx, op) /\ op.result = "compile" THEN k \cup {op.rule} ELSE k
    OBVIOUS
  <2>2. new = [ctx EXCEPT !.kernel = k2]
    BY Zenon, <1>1, <1>3, <2>1 DEF Handle
  <2>3. new = [pool |-> p, session |-> v, sessionHash |-> h, rule |-> u, kernel |-> k2]
    BY <1>2, <2>2
  <2>4. new.rule = u /\ new.kernel = k2
    BY <2>3
  <2>5. k2 \in {k, k \cup {op.rule}}
    BY <2>1
  <2>6. new = [pool |-> p, session |-> v, sessionHash |-> h, rule |-> new.rule,
               kernel |-> new.kernel]
    BY Zenon, <2>3, <2>4
  <2>7. QED
    BY Zenon, <1>1, <1>3, <2>4, <2>5, <2>6 DEF Handled
<1>4. CASE Succeeds(ctx, op)
  <2>1. CASE op.do = "update"
    <3>1. new = ctx
      BY <1>4, <2>1 DEF Handle
    <3>2. new.rule = u /\ new.kernel = k
      BY <1>2, <3>1
    <3>3. new = [pool |-> p, session |-> v, sessionHash |-> h, rule |-> new.rule,
                 kernel |-> new.kernel]
      BY Zenon, <1>2, <3>1, <3>2
    <3>4. new.kernel \in {k, k \cup {op.rule}}
      BY <3>2
    <3>5. QED
      BY Zenon, <1>1, <2>1, <3>2, <3>3, <3>4 DEF Handled
  <2>2. CASE op.do = "create"
    <3>1. ctx.rule[op.rule] = Null
      BY <1>4, <2>2 DEF Succeeds, Found
    <3>2. PICK u2, k2 : u2 = [u EXCEPT ![op.rule] = s] /\ k2 = k \cup {op.rule}
      OBVIOUS
    <3>3. PICK n1 : n1 = [ctx EXCEPT !.rule = u2]
      OBVIOUS
    <3>4. new = [ctx EXCEPT !.rule[op.rule] = s, !.kernel = @ \cup {op.rule}]
      BY <1>4, <2>2 DEF Handle
    <3>5. n1 = [pool |-> p, session |-> v, sessionHash |-> h, rule |-> u2, kernel |-> k]
      BY <1>2, <3>3
    <3>6. n1.kernel = k
      BY <3>5
    <3>7. new = [n1 EXCEPT !.kernel = k2]
      BY Zenon, <1>1, <3>2, <3>3, <3>4, <3>6
    <3>8. new = [pool |-> p, session |-> v, sessionHash |-> h, rule |-> u2, kernel |-> k2]
      BY <3>5, <3>7
    <3>9. new.rule = u2 /\ new.kernel = k2
      BY <3>8
    <3>10. new = [pool |-> p, session |-> v, sessionHash |-> h, rule |-> new.rule,
                  kernel |-> new.kernel]
      BY Zenon, <3>8, <3>9
    <3>11. QED
      BY Zenon, <1>1, <2>2, <3>1, <3>2, <3>9, <3>10 DEF Handled
  <2>3. CASE op.do = "remove"
    <3>1. ctx.rule[op.rule] # Null
      BY <1>4, <2>3 DEF Succeeds, Found
    <3>2. PICK u2, k2 : u2 = [u EXCEPT ![op.rule] = Null] /\ k2 = k \ {op.rule}
      OBVIOUS
    <3>3. PICK n1 : n1 = [ctx EXCEPT !.rule = u2]
      OBVIOUS
    <3>4. new = [ctx EXCEPT !.rule[op.rule] = Null, !.kernel = @ \ {op.rule}]
      BY <1>4, <2>3 DEF Handle
    <3>5. n1 = [pool |-> p, session |-> v, sessionHash |-> h, rule |-> u2, kernel |-> k]
      BY <1>2, <3>3
    <3>6. n1.kernel = k
      BY <3>5
    <3>7. new = [n1 EXCEPT !.kernel = k2]
      BY Zenon, <1>1, <3>2, <3>3, <3>4, <3>6
    <3>8. new = [pool |-> p, session |-> v, sessionHash |-> h, rule |-> u2, kernel |-> k2]
      BY <3>5, <3>7
    <3>9. new.rule = u2 /\ new.kernel = k2
      BY <3>8
    <3>10. new = [pool |-> p, session |-> v, sessionHash |-> h, rule |-> new.rule,
                  kernel |-> new.kernel]
      BY Zenon, <3>8, <3>9
    <3>11. QED
      BY Zenon, <1>1, <2>3, <3>1, <3>2, <3>9, <3>10 DEF Handled
  <2>4. QED
    BY <2>1, <2>2, <2>3, OperationFields
<1>5. QED
  BY <1>3, <1>4

\* It leaves pool, sessions and table alone,
LEMMA HandleTyped ==
  ASSUME NEW ctx \in Contexts, NEW s \in Slots, NEW op \in Operations,
         NEW new, new = Handle(ctx, s, op)
  PROVE  new \in Contexts /\ new.pool = ctx.pool /\ new.session = ctx.session
         /\ new.sessionHash = ctx.sessionHash
<1>1. Handled(ctx, s, op, new)
  BY HandleIs
<1>2. new = [pool |-> ctx.pool, session |-> ctx.session, sessionHash |-> ctx.sessionHash,
             rule |-> new.rule, kernel |-> new.kernel]
  BY <1>1 DEF Handled
<1>3. new.pool = ctx.pool /\ new.session = ctx.session /\ new.sessionHash = ctx.sessionHash
  BY <1>2
<1>4. op.rule \in Rules /\ ctx.rule \in [Rules -> Slots \cup {Null}] /\ ctx.kernel \in SUBSET Rules
  BY OperationFields, ContextFields
<1>5. new.rule \in [Rules -> Slots \cup {Null}]
  BY <1>1, <1>4 DEF Handled
<1>6. new.kernel \in SUBSET Rules
  BY <1>1, <1>4 DEF Handled
<1>7. new \in Contexts
  BY <1>2, <1>3, <1>5, <1>6, ContextFields, ContextOf
<1>8. QED
  BY <1>3, <1>7

\* and rules with owners.
LEMMA HandleKeeps ==
  ASSUME NEW ctx, NEW barred \in SUBSET Slots, NEW shared, SoundContext(ctx, barred, shared),
         NEW s \in Held(ctx), NEW op \in Operations, NEW new, new = Handle(ctx, s, op)
  PROVE  SoundContext(new, barred, shared) /\ Held(new) = Held(ctx)
<1>1. ctx \in Contexts /\ s \in Slots /\ RulesOwned(ctx)
  BY DEF SoundContext, Held
<1>2. /\ new \in Contexts /\ new.pool = ctx.pool /\ new.session = ctx.session
      /\ new.sessionHash = ctx.sessionHash
  BY <1>1, HandleTyped
<1>3. SameSessions(ctx, new)
  BY <1>2 DEF SameSessions
<1>4. Handled(ctx, s, op, new)
  BY <1>1, HandleIs
<1>5. /\ op.rule \in Rules /\ ctx.rule \in [Rules -> Slots \cup {Null}]
      /\ ctx.kernel \in SUBSET Rules
  BY <1>1, OperationFields, ContextFields
<1>6. RulesOwned(new)
  <2>1. ASSUME NEW r \in Rules, new.rule[r] # Null PROVE new.rule[r] \in Held(ctx) /\ r \in new.kernel
    <3>1. CASE new.rule = ctx.rule /\ new.kernel \in {ctx.kernel, ctx.kernel \cup {op.rule}}
      BY <1>1, <2>1, <3>1 DEF RulesOwned
    <3>2. CASE /\ new.rule = [ctx.rule EXCEPT ![op.rule] = s]
               /\ new.kernel = ctx.kernel \cup {op.rule}
      BY <1>1, <1>5, <2>1, <3>2 DEF RulesOwned
    <3>3. CASE /\ new.rule = [ctx.rule EXCEPT ![op.rule] = Null]
               /\ new.kernel = ctx.kernel \ {op.rule}
      BY <1>1, <1>5, <2>1, <3>3 DEF RulesOwned
    <3>4. QED
      BY <1>4, <3>1, <3>2, <3>3 DEF Handled
  <2>2. QED
    BY <1>2, <2>1 DEF RulesOwned, Held
<1>7. QED
  BY <1>2, <1>3, <1>6, SameSessionsKeep

-----------------------------------------------------------------------------
(* The loops over the rules of a request. *)

Progresses == [ctx : Contexts, ok : BOOLEAN]

EstablishStep(p, s, op) == [ctx |-> Handle(p.ctx, s, op), ok |-> p.ok /\ Succeeds(p.ctx, op)]
ModifyStep(p, s, op) ==
  IF ~p.ok THEN p ELSE [ctx |-> Handle(p.ctx, s, op), ok |-> Succeeds(p.ctx, op)]

\* What both steps do: the operation's handler runs or not, and if the request
\* still stands it ran and succeeded.
StepOf(p, q, s, op) ==
  /\ q \in Progresses
  /\ q.ctx = p.ctx \/ q.ctx = Handle(p.ctx, s, op)
  /\ q.ok => p.ok /\ Succeeds(p.ctx, op) /\ q.ctx = Handle(p.ctx, s, op)

LEMMA ProgressOf ==
  ASSUME NEW c \in Contexts, NEW b \in BOOLEAN, NEW q, q = [ctx |-> c, ok |-> b]
  PROVE  q \in Progresses /\ q.ctx = c /\ q.ok = b
<1>1. q \in Progresses
  BY DEF Progresses
<1>2. q.ctx = c /\ q.ok = b
  BY Zenon
<1>3. QED
  BY <1>1, <1>2

LEMMA ProgressFields ==
  ASSUME NEW p \in Progresses PROVE p.ctx \in Contexts /\ p.ok \in BOOLEAN
  BY Zenon DEF Progresses

\* Both loops take such steps.
LEMMA EstablishSteps ==
  ASSUME NEW p \in Progresses, NEW s \in Slots, NEW op \in Operations,
         NEW q, q = EstablishStep(p, s, op)
  PROVE  StepOf(p, q, s, op)
<1>1. PICK c \in Contexts : c = Handle(p.ctx, s, op)
  BY ProgressFields, HandleTyped
<1>2. PICK b \in BOOLEAN : b <=> p.ok /\ Succeeds(p.ctx, op)
  OBVIOUS
<1>3. b = (p.ok /\ Succeeds(p.ctx, op))
  BY Zenon, <1>2
<1>4. q = [ctx |-> c, ok |-> b]
  BY Zenon, <1>1, <1>3 DEF EstablishStep
<1>5. q \in Progresses /\ q.ctx = c /\ q.ok = b
  BY <1>4, ProgressOf
<1>6. QED
  BY Zenon, <1>1, <1>2, <1>5 DEF StepOf

LEMMA ModifySteps ==
  ASSUME NEW p \in Progresses, NEW s \in Slots, NEW op \in Operations,
         NEW q, q = ModifyStep(p, s, op)
  PROVE  StepOf(p, q, s, op)
<1>1. CASE ~p.ok
  <2>1. q = p
    BY Zenon, <1>1 DEF ModifyStep
  <2>2. QED
    BY Zenon, <1>1, <2>1 DEF StepOf
<1>2. CASE p.ok
  <2>1. PICK c \in Contexts : c = Handle(p.ctx, s, op)
    BY ProgressFields, HandleTyped
  <2>2. PICK b \in BOOLEAN : b <=> Succeeds(p.ctx, op)
    OBVIOUS
  <2>3. b = Succeeds(p.ctx, op)
    BY Zenon, <2>2 DEF Succeeds
  <2>4. q = [ctx |-> c, ok |-> b]
    BY Zenon, <1>2, <2>1, <2>3 DEF ModifyStep
  <2>5. q \in Progresses /\ q.ctx = c /\ q.ok = b
    BY <2>4, ProgressOf
  <2>6. QED
    BY Zenon, <1>2, <2>1, <2>2, <2>5 DEF StepOf
<1>3. QED
  BY <1>1, <1>2

\* A run through the operations, one after the other.
StepsThrough(g, ctx, s, ops) ==
  /\ g[1 .. 0] = Progress(ctx)
  /\ \A k \in 1 .. Len(ops) : StepOf(g[1 .. k - 1], g[1 .. k], s, ops[k])

EstablishRun(g, ctx, s, ops) ==
  g = [t \in SUBSET (1 .. Len(ops)) |->
         IF t = {} THEN Progress(ctx) ELSE EstablishStep(g[t \ {Max(t)}], s, ops[Max(t)])]
ModifyRun(g, ctx, s, ops) ==
  g = [t \in SUBSET (1 .. Len(ops)) |->
         IF t = {} THEN Progress(ctx) ELSE ModifyStep(g[t \ {Max(t)}], s, ops[Max(t)])]

\* UpfN4HandleSessionEstablishmentRequest is a run through the operations.
LEMMA EstablishStepsThrough ==
  ASSUME NEW ctx \in Contexts, NEW s \in Slots, NEW ops \in Seq(Operations)
  PROVE  \E g : Establish(ctx, s, ops) = g[1 .. Len(ops)] /\ StepsThrough(g, ctx, s, ops)
<1> DEFINE n == Len(ops)
           f == [p \in Progresses \X (1 .. n) |-> EstablishStep(p[1], s, ops[p[2]])]
<1>1. n \in Nat /\ DOMAIN ops = 1 .. n
  BY LenProperties
<1>2. PICK b \in Progresses : b = Progress(ctx)
  BY ProgressOf DEF Progress
<1>3. ASSUME NEW p \in Progresses, NEW k \in 1 .. n
      PROVE  /\ StepOf(p, EstablishStep(p, s, ops[k]), s, ops[k])
             /\ EstablishStep(p, s, ops[k]) \in Progresses
  <2>1. ops[k] \in Operations
    BY ElementOfSeq
  <2>2. PICK q : q = EstablishStep(p, s, ops[k])
    OBVIOUS
  <2>3. StepOf(p, q, s, ops[k])
    BY <2>1, <2>2, EstablishSteps
  <2>4. QED
    BY Zenon, <2>2, <2>3 DEF StepOf
<1>4. f \in [Progresses \X (1 .. n) -> Progresses]
  BY Zenon, <1>3
<1>5. \A p \in Progresses, k \in 1 .. n : f[<<p, k>>] = EstablishStep(p, s, ops[k])
  OBVIOUS
<1> HIDE DEF f
<1>6. PICK G \in [SUBSET (1 .. n) -> Progresses] : Folds(f, b, n, G)
  BY <1>1, <1>4, FoldExists
<1>7. ASSUME NEW t \in SUBSET (1 .. n), t # {}
      PROVE  Max(t) \in 1 .. n /\ t \ {Max(t)} \in SUBSET (1 .. n)
  BY <1>1, <1>7, MaxUpTo
<1>8. EstablishRun(G, ctx, s, ops)
  <2>1. ASSUME NEW t \in SUBSET (1 .. n)
        PROVE  G[t] = IF t = {} THEN Progress(ctx)
                      ELSE EstablishStep(G[t \ {Max(t)}], s, ops[Max(t)])
    <3>1. CASE t = {}
      BY <1>2, <1>6, <3>1 DEF Folds
    <3>2. CASE t # {}
      <4>1. G[t] = f[<<G[t \ {Max(t)}], Max(t)>>]
        BY <1>6, <3>2 DEF Folds
      <4>2. Max(t) \in 1 .. n /\ G[t \ {Max(t)}] \in Progresses
        BY <1>6, <1>7, <3>2
      <4>3. QED
        BY <1>5, <3>2, <4>1, <4>2
    <3>3. QED
      BY <3>1, <3>2
  <2>2. G = [t \in SUBSET (1 .. n) |-> G[t]]
    BY <1>6
  <2>3. QED
    BY Zenon, <2>1, <2>2 DEF EstablishRun
<1> DEFINE g == CHOOSE h : EstablishRun(h, ctx, s, ops)
<1>9. EstablishRun(g, ctx, s, ops)
  BY <1>8
<1>10. Establish(ctx, s, ops) = g[1 .. n]
  BY <1>1 DEF Establish, FoldLeft, MapThenFoldSet, EstablishRun, EstablishStep
<1> HIDE DEF g
<1>11. g[1 .. 0] = Progress(ctx)
  <2>1. 1 .. 0 = {} /\ {} \in SUBSET (1 .. n)
    OBVIOUS
  <2>2. QED
    BY <1>9, <2>1 DEF EstablishRun
<1> DEFINE P == {k \in 0 .. n : g[1 .. k] \in Progresses}
<1>12. ASSUME NEW k \in 1 .. n
       PROVE  g[1 .. k] = EstablishStep(g[1 .. k - 1], s, ops[k])
  <2>1. /\ 1 .. k \in SUBSET (1 .. n) /\ 1 .. k # {} /\ Max(1 .. k) = k
        /\ (1 .. k) \ {k} = 1 .. k - 1
    BY <1>1, MaxInterval
  <2>2. g[1 .. k] = EstablishStep(g[(1 .. k) \ {Max(1 .. k)}], s, ops[Max(1 .. k)])
    BY <1>9, <2>1 DEF EstablishRun
  <2>3. QED
    BY <2>1, <2>2
<1>13. 0 \in P
  <2>1. 0 \in 0 .. n /\ g[1 .. 0] \in Progresses
    BY <1>1, <1>2, <1>11
  <2>2. QED
    BY <2>1
<1>14. ASSUME NEW k \in 1 .. n, k - 1 \in P PROVE k \in P
  <2>1. k \in 0 .. n /\ g[1 .. k - 1] \in Progresses
    BY <1>1, <1>14
  <2>2. g[1 .. k] \in Progresses
    BY Zenon, <1>3, <1>12, <2>1
  <2>3. QED
    BY <2>1, <2>2
<1> HIDE DEF P
<1>15. 0 .. n \subseteq P
  BY <1>1, <1>13, <1>14, UpTo
<1>16. ASSUME NEW k \in 1 .. n PROVE StepOf(g[1 .. k - 1], g[1 .. k], s, ops[k])
  <2>1. k - 1 \in P
    BY <1>1, <1>15
  <2>2. g[1 .. k - 1] \in Progresses
    BY <2>1 DEF P
  <2>3. QED
    BY Zenon, <1>3, <1>12, <2>2
<1>17. StepsThrough(g, ctx, s, ops)
  BY Zenon, <1>11, <1>16 DEF StepsThrough
<1>18. QED
  BY <1>10, <1>17

\* So is UpfN4HandleSessionModificationRequest.
LEMMA ModifyStepsThrough ==
  ASSUME NEW ctx \in Contexts, NEW s \in Slots, NEW ops \in Seq(Operations)
  PROVE  \E g : Modify(ctx, s, ops) = g[1 .. Len(ops)] /\ StepsThrough(g, ctx, s, ops)
<1> DEFINE n == Len(ops)
           f == [p \in Progresses \X (1 .. n) |-> ModifyStep(p[1], s, ops[p[2]])]
<1>1. n \in Nat /\ DOMAIN ops = 1 .. n
  BY LenProperties
<1>2. PICK b \in Progresses : b = Progress(ctx)
  BY ProgressOf DEF Progress
<1>3. ASSUME NEW p \in Progresses, NEW k \in 1 .. n
      PROVE  /\ StepOf(p, ModifyStep(p, s, ops[k]), s, ops[k])
             /\ ModifyStep(p, s, ops[k]) \in Progresses
  <2>1. ops[k] \in Operations
    BY ElementOfSeq
  <2>2. PICK q : q = ModifyStep(p, s, ops[k])
    OBVIOUS
  <2>3. StepOf(p, q, s, ops[k])
    BY <2>1, <2>2, ModifySteps
  <2>4. QED
    BY Zenon, <2>2, <2>3 DEF StepOf
<1>4. f \in [Progresses \X (1 .. n) -> Progresses]
  BY Zenon, <1>3
<1>5. \A p \in Progresses, k \in 1 .. n : f[<<p, k>>] = ModifyStep(p, s, ops[k])
  OBVIOUS
<1> HIDE DEF f
<1>6. PICK G \in [SUBSET (1 .. n) -> Progresses] : Folds(f, b, n, G)
  BY <1>1, <1>4, FoldExists
<1>7. ASSUME NEW t \in SUBSET (1 .. n), t # {}
      PROVE  Max(t) \in 1 .. n /\ t \ {Max(t)} \in SUBSET (1 .. n)
  BY <1>1, <1>7, MaxUpTo
<1>8. ModifyRun(G, ctx, s, ops)
  <2>1. ASSUME NEW t \in SUBSET (1 .. n)
        PROVE  G[t] = IF t = {} THEN Progress(ctx)
                      ELSE ModifyStep(G[t \ {Max(t)}], s, ops[Max(t)])
    <3>1. CASE t = {}
      BY <1>2, <1>6, <3>1 DEF Folds
    <3>2. CASE t # {}
      <4>1. G[t] = f[<<G[t \ {Max(t)}], Max(t)>>]
        BY <1>6, <3>2 DEF Folds
      <4>2. Max(t) \in 1 .. n /\ G[t \ {Max(t)}] \in Progresses
        BY <1>6, <1>7, <3>2
      <4>3. QED
        BY <1>5, <3>2, <4>1, <4>2
    <3>3. QED
      BY <3>1, <3>2
  <2>2. G = [t \in SUBSET (1 .. n) |-> G[t]]
    BY <1>6
  <2>3. QED
    BY Zenon, <2>1, <2>2 DEF ModifyRun
<1> DEFINE g == CHOOSE h : ModifyRun(h, ctx, s, ops)
<1>9. ModifyRun(g, ctx, s, ops)
  BY <1>8
<1>10. Modify(ctx, s, ops) = g[1 .. n]
  BY <1>1 DEF Modify, FoldLeft, MapThenFoldSet, ModifyRun, ModifyStep
<1> HIDE DEF g
<1>11. g[1 .. 0] = Progress(ctx)
  <2>1. 1 .. 0 = {} /\ {} \in SUBSET (1 .. n)
    OBVIOUS
  <2>2. QED
    BY <1>9, <2>1 DEF ModifyRun
<1> DEFINE P == {k \in 0 .. n : g[1 .. k] \in Progresses}
<1>12. ASSUME NEW k \in 1 .. n
       PROVE  g[1 .. k] = ModifyStep(g[1 .. k - 1], s, ops[k])
  <2>1. /\ 1 .. k \in SUBSET (1 .. n) /\ 1 .. k # {} /\ Max(1 .. k) = k
        /\ (1 .. k) \ {k} = 1 .. k - 1
    BY <1>1, MaxInterval
  <2>2. g[1 .. k] = ModifyStep(g[(1 .. k) \ {Max(1 .. k)}], s, ops[Max(1 .. k)])
    BY <1>9, <2>1 DEF ModifyRun
  <2>3. QED
    BY <2>1, <2>2
<1>13. 0 \in P
  <2>1. 0 \in 0 .. n /\ g[1 .. 0] \in Progresses
    BY <1>1, <1>2, <1>11
  <2>2. QED
    BY <2>1
<1>14. ASSUME NEW k \in 1 .. n, k - 1 \in P PROVE k \in P
  <2>1. k \in 0 .. n /\ g[1 .. k - 1] \in Progresses
    BY <1>1, <1>14
  <2>2. g[1 .. k] \in Progresses
    BY Zenon, <1>3, <1>12, <2>1
  <2>3. QED
    BY <2>1, <2>2
<1> HIDE DEF P
<1>15. 0 .. n \subseteq P
  BY <1>1, <1>13, <1>14, UpTo
<1>16. ASSUME NEW k \in 1 .. n PROVE StepOf(g[1 .. k - 1], g[1 .. k], s, ops[k])
  <2>1. k - 1 \in P
    BY <1>1, <1>15
  <2>2. g[1 .. k - 1] \in Progresses
    BY <2>1 DEF P
  <2>3. QED
    BY Zenon, <1>3, <1>12, <2>2
<1>17. StepsThrough(g, ctx, s, ops)
  BY Zenon, <1>11, <1>16 DEF StepsThrough
<1>18. QED
  BY <1>10, <1>17

\* Removals come last.
Ordered(ops) ==
  \A i, j \in 1 .. Len(ops) : i < j /\ ops[i].do = "remove" => ops[j].do = "remove"

Asks(ops, k, do, r) == \E i \in 1 .. k : ops[i].do = do /\ ops[i].rule = r

\* What an accepted request has done after k operations.
Done(ops, k, c, s) ==
  \A r \in Rules :
    /\ Asks(ops, k, "remove", r) => c.rule[r] = Null /\ r \notin c.kernel
    /\ Asks(ops, k, "create", r) /\ ~Asks(ops, k, "remove", r) =>
         c.rule[r] = s /\ r \in c.kernel

\* An operation that succeeds does what it is asked for and undoes no earlier one.
LEMMA HandleDoes ==
  ASSUME NEW c \in Contexts, NEW s \in Slots, NEW ops \in Seq(Operations), Ordered(ops),
         NEW k \in 1 .. Len(ops), Done(ops, k - 1, c, s), Succeeds(c, ops[k]),
         NEW d, d = Handle(c, s, ops[k])
  PROVE  Done(ops, k, d, s)
<1>1. PICK op \in Operations : op = ops[k]
  BY ElementOfSeq
<1>2. Handled(c, s, op, d) /\ Succeeds(c, op)
  BY <1>1, HandleIs
<1>3. /\ op.rule \in Rules /\ c.rule \in [Rules -> Slots \cup {Null}]
      /\ c.kernel \in SUBSET Rules
  BY OperationFields, ContextFields
<1>4. k \in Nat /\ Len(ops) \in Nat /\ k <= Len(ops) /\ k - 1 \in Nat
      /\ \A i : i \in 1 .. k <=> (i \in 1 .. k - 1 \/ i = k)
  BY LenProperties
<1>5. \A do, r : Asks(ops, k, do, r) <=> (Asks(ops, k - 1, do, r) \/ (op.do = do /\ op.rule = r))
  BY <1>1, <1>4 DEF Asks
<1>6. \A r \in Rules :
        /\ Asks(ops, k - 1, "remove", r) => c.rule[r] = Null /\ r \notin c.kernel
        /\ Asks(ops, k - 1, "create", r) /\ ~Asks(ops, k - 1, "remove", r) =>
             c.rule[r] = s /\ r \in c.kernel
  BY DEF Done
<1>7. ASSUME op.do # "remove", NEW r PROVE ~Asks(ops, k - 1, "remove", r)
  <2>1. ASSUME NEW i \in 1 .. k - 1 PROVE ops[i].do # "remove"
    <3>1. i \in 1 .. Len(ops) /\ k \in 1 .. Len(ops) /\ i < k
      BY <1>4
    <3>2. QED
      BY <1>1, <1>7, <3>1 DEF Ordered
  <2>2. QED
    BY <2>1 DEF Asks
<1>8. ASSUME NEW r \in Rules
      PROVE  /\ Asks(ops, k, "remove", r) => d.rule[r] = Null /\ r \notin d.kernel
             /\ Asks(ops, k, "create", r) /\ ~Asks(ops, k, "remove", r) =>
                  d.rule[r] = s /\ r \in d.kernel
  <2>1. CASE /\ op.do = "update" /\ d.rule = c.rule
             /\ d.kernel \in {c.kernel, c.kernel \cup {op.rule}}
    <3>1. ~Asks(ops, k, "remove", r)
      BY <1>5, <1>7, <2>1
    <3>2. Asks(ops, k, "create", r) => c.rule[r] = s /\ r \in c.kernel
      BY <1>5, <1>6, <1>7, <2>1
    <3>3. QED
      BY <2>1, <3>1, <3>2
  <2>2. CASE /\ op.do = "create" /\ d.rule = [c.rule EXCEPT ![op.rule] = s]
             /\ d.kernel = c.kernel \cup {op.rule}
    <3>1. ~Asks(ops, k, "remove", r)
      BY <1>5, <1>7, <2>2
    <3>2. Asks(ops, k, "create", r) => r = op.rule \/ (c.rule[r] = s /\ r \in c.kernel)
      BY <1>5, <1>6, <1>7, <2>2
    <3>3. QED
      BY <1>3, <2>2, <3>1, <3>2
  <2>3. CASE /\ op.do = "remove" /\ d.rule = [c.rule EXCEPT ![op.rule] = Null]
             /\ d.kernel = c.kernel \ {op.rule}
    <3>1. Asks(ops, k, "remove", r) => r = op.rule \/ (c.rule[r] = Null /\ r \notin c.kernel)
      BY <1>5, <1>6
    <3>2. Asks(ops, k, "create", r) /\ ~Asks(ops, k, "remove", r) =>
            r # op.rule /\ c.rule[r] = s /\ r \in c.kernel
      BY <1>5, <1>6, <2>3
    <3>3. QED
      BY <1>3, <2>3, <3>1, <3>2
  <2>4. QED
    BY <1>2, <2>1, <2>2, <2>3 DEF Handled
<1>9. QED
  BY <1>8 DEF Done

\* The context after k operations, and what it owes if the request still stands.
AfterSome(g, ctx, barred, shared, s, ops, k) ==
  /\ g[1 .. k] \in Progresses
  /\ SoundContext(g[1 .. k].ctx, barred, shared) /\ Held(g[1 .. k].ctx) = Held(ctx)
  /\ g[1 .. k].ctx.session = ctx.session
  /\ g[1 .. k].ok => Done(ops, k, g[1 .. k].ctx, s)

\* Every run gets there.
LEMMA HandlersKeep ==
  ASSUME NEW ctx, NEW barred \in SUBSET Slots, NEW shared, SoundContext(ctx, barred, shared),
         NEW s \in Held(ctx), NEW ops \in Seq(Operations), Ordered(ops),
         NEW g, StepsThrough(g, ctx, s, ops)
  PROVE  AfterSome(g, ctx, barred, shared, s, ops, Len(ops))
<1> DEFINE n == Len(ops)
           P == {k \in 0 .. n : AfterSome(g, ctx, barred, shared, s, ops, k)}
<1>1. n \in Nat /\ ctx \in Contexts /\ s \in Slots
  BY LenProperties DEF SoundContext, Held
<1>2. 0 \in P
  <2>1. g[1 .. 0] = Progress(ctx)
    BY DEF StepsThrough
  <2>2. g[1 .. 0] \in Progresses /\ g[1 .. 0].ctx = ctx
    <3>1. PICK b \in BOOLEAN : b = TRUE
      OBVIOUS
    <3>2. g[1 .. 0] = [ctx |-> ctx, ok |-> b]
      BY Zenon, <2>1, <3>1 DEF Progress
    <3>3. PICK q : q = g[1 .. 0]
      OBVIOUS
    <3>4. q \in Progresses /\ q.ctx = ctx
      BY <1>1, <3>2, <3>3, ProgressOf
    <3>5. QED
      BY <3>3, <3>4
  <2>3. Done(ops, 0, ctx, s)
    <3>1. \A do, r : ~Asks(ops, 0, do, r)
      BY DEF Asks
    <3>2. QED
      BY <3>1 DEF Done
  <2>4. AfterSome(g, ctx, barred, shared, s, ops, 0)
    BY Zenon, <2>2, <2>3 DEF AfterSome
  <2>5. 0 \in 0 .. n
    BY <1>1
  <2>6. QED
    BY <2>4, <2>5
<1>3. ASSUME NEW k \in 1 .. n, k - 1 \in P PROVE k \in P
  <2>1. AfterSome(g, ctx, barred, shared, s, ops, k - 1)
    BY <1>3
  <2>2. PICK p, c : p = g[1 .. k - 1] /\ c = p.ctx
    OBVIOUS
  <2>3. PICK q, d : q = g[1 .. k] /\ d = q.ctx
    OBVIOUS
  <2>4. /\ p \in Progresses /\ SoundContext(c, barred, shared) /\ Held(c) = Held(ctx)
        /\ c.session = ctx.session /\ (p.ok => Done(ops, k - 1, c, s))
    BY Zenon, <2>1, <2>2 DEF AfterSome
  <2>5. PICK op \in Operations : op = ops[k]
    BY ElementOfSeq
  <2>6. StepOf(p, q, s, op)
    BY Zenon, <2>2, <2>3, <2>5 DEF StepsThrough
  <2>7. /\ q \in Progresses /\ (d = c \/ d = Handle(c, s, op))
        /\ (q.ok => p.ok /\ Succeeds(c, op) /\ d = Handle(c, s, op))
    BY Zenon, <2>2, <2>3, <2>6 DEF StepOf
  <2>8. c \in Contexts
    BY <2>4 DEF SoundContext
  <2>9. SoundContext(d, barred, shared) /\ Held(d) = Held(ctx) /\ d.session = ctx.session
    <3>1. CASE d = c
      BY <2>4, <3>1
    <3>2. CASE d = Handle(c, s, op)
      <4>1. SoundContext(d, barred, shared) /\ Held(d) = Held(c)
        BY <2>4, <3>2, HandleKeeps
      <4>2. d.session = c.session
        BY SMTT(60), <1>1, <2>8, <3>2, HandleTyped
      <4>3. QED
        BY <2>4, <4>1, <4>2
    <3>3. QED
      BY <2>7, <3>1, <3>2
  <2>10. ASSUME q.ok PROVE Done(ops, k, d, s)
    <3>1. Done(ops, k - 1, c, s) /\ Succeeds(c, ops[k]) /\ d = Handle(c, s, ops[k])
      BY Zenon, <2>4, <2>5, <2>7, <2>10
    <3>2. QED
      BY <1>1, <2>8, <3>1, HandleDoes
  <2>11. AfterSome(g, ctx, barred, shared, s, ops, k)
    BY Zenon, <2>3, <2>7, <2>9, <2>10 DEF AfterSome
  <2>12. k \in 0 .. n
    BY <1>1
  <2>13. QED
    BY <2>11, <2>12
<1> HIDE DEF P
<1>4. 0 .. n \subseteq P
  BY <1>1, <1>2, <1>3, UpTo
<1>5. n \in P
  BY <1>1, <1>4
<1>6. QED
  BY <1>5 DEF P

\* A request's operations are done in full if it is accepted, and the sessions
\* are as they were whether it is or not.
RequestDone(p, ctx, barred, shared, s, ops) ==
  /\ p \in Progresses /\ SoundContext(p.ctx, barred, shared) /\ Held(p.ctx) = Held(ctx)
  /\ p.ctx.session = ctx.session
  /\ p.ok => Done(ops, Len(ops), p.ctx, s)

LEMMA RequestsKeep ==
  ASSUME NEW ctx, NEW barred \in SUBSET Slots, NEW shared, SoundContext(ctx, barred, shared),
         NEW s \in Held(ctx), NEW ops \in Seq(Operations), Ordered(ops),
         NEW p, p = Establish(ctx, s, ops) \/ p = Modify(ctx, s, ops)
  PROVE  RequestDone(p, ctx, barred, shared, s, ops)
<1>1. ctx \in Contexts /\ s \in Slots
  BY DEF SoundContext, Held
<1>2. PICK g : p = g[1 .. Len(ops)] /\ StepsThrough(g, ctx, s, ops)
  BY <1>1, EstablishStepsThrough, ModifyStepsThrough
<1>3. AfterSome(g, ctx, barred, shared, s, ops, Len(ops))
  BY <1>2, HandlersKeep
<1>4. QED
  BY Zenon, <1>2, <1>3 DEF AfterSome, RequestDone

-----------------------------------------------------------------------------
(* The requests: sequences of operations, removals last. *)

\* Operations are finitely many, so a set of them has an order.
LEMMA OperationsFinite == IsFiniteSet(Operations)
<1> DEFINE D == {"create", "update", "remove"}
           X == {"ok", "refused", "compile"}
           S == (D \X Rules) \X X
           f == [t \in S |-> [do |-> t[1][1], rule |-> t[1][2], result |-> t[2]]]
<1>1. IsFiniteSet(D)
  <2>1. /\ IsFiniteSet({"create"}) /\ IsFiniteSet({"update"}) /\ IsFiniteSet({"remove"})
    BY FS_Singleton
  <2>2. IsFiniteSet({"create"} \cup {"update"})
    BY <2>1, FS_Union
  <2>3. IsFiniteSet(({"create"} \cup {"update"}) \cup {"remove"})
    BY <2>1, <2>2, FS_Union
  <2>4. D = ({"create"} \cup {"update"}) \cup {"remove"}
    OBVIOUS
  <2>5. QED
    BY <2>3, <2>4
<1>2. IsFiniteSet(X)
  <2>1. /\ IsFiniteSet({"ok"}) /\ IsFiniteSet({"refused"}) /\ IsFiniteSet({"compile"})
    BY FS_Singleton
  <2>2. IsFiniteSet({"ok"} \cup {"refused"})
    BY <2>1, FS_Union
  <2>3. IsFiniteSet(({"ok"} \cup {"refused"}) \cup {"compile"})
    BY <2>1, <2>2, FS_Union
  <2>4. X = ({"ok"} \cup {"refused"}) \cup {"compile"}
    OBVIOUS
  <2>5. QED
    BY <2>3, <2>4
<1>3. IsFiniteSet(S)
  <2>1. IsFiniteSet(Rules)
    BY UpfSessionAssumption, FS_Union DEF Rules
  <2> HIDE DEF D, X
  <2>2. IsFiniteSet(D \X Rules)
    BY <1>1, <2>1, FS_Product
  <2>3. QED
    BY <1>2, <2>2, FS_Product
<1>4. f \in Surjection(S, Operations)
  <2>1. ASSUME NEW t \in S PROVE f[t] \in Operations
    BY DEF Operations
  <2>2. ASSUME NEW op \in Operations PROVE \E t \in S : f[t] = op
    <3>1. PICK d \in D, r \in Rules, x \in X : op = [do |-> d, rule |-> r, result |-> x]
      BY DEF Operations
    <3>2. <<<<d, r>>, x>> \in S
      OBVIOUS
    <3>3. f[<<<<d, r>>, x>>] = op
      BY <3>1, <3>2
    <3>4. QED
      BY <3>2, <3>3
  <2>3. QED
    BY <2>1, <2>2 DEF Surjection
<1> HIDE DEF S, f
<1>5. QED
  BY <1>3, <1>4, FS_Surjection

Doing(ops, do) == {op \in ops : op.do = do}
OfKind(ops, do, kind) == SetToSeq({op \in ops : op.do = do /\ op.rule \in kind})
LoopsOf(ops, do) == OfKind(ops, do, Fars) \o OfKind(ops, do, Qers) \o OfKind(ops, do, Pdrs)

\* A loop of a handler meets operations of one kind.
LEMMA LoopOperations ==
  ASSUME NEW ops \in SUBSET Operations, NEW do
  PROVE  LoopsOf(ops, do) \in Seq(Doing(ops, do))
<1>1. ASSUME NEW kind PROVE OfKind(ops, do, kind) \in Seq(Doing(ops, do))
  <2> DEFINE S == {op \in ops : op.do = do /\ op.rule \in kind}
  <2>1. IsFiniteSet(S)
    <3>1. S \in SUBSET Operations
      OBVIOUS
    <3> HIDE DEF S
    <3>2. QED
      BY <3>1, OperationsFinite, FS_Subset
  <2>2. S \subseteq Doing(ops, do)
    BY DEF Doing
  <2>3. OfKind(ops, do, kind) = SetToSeq(S)
    BY DEF OfKind
  <2> HIDE DEF S
  <2>4. SetToSeq(S) \in Seq(S)
    BY <2>1, SetAsSeq
  <2>5. QED
    BY <2>2, <2>3, <2>4
<1>2. QED
  BY <1>1 DEF LoopsOf

\* Creations and updates come before removals.
LEMMA RequestInOrder ==
  ASSUME NEW ops \in SUBSET Operations
  PROVE  InOrder(ops) \in Seq(Operations) /\ Ordered(InOrder(ops))
<1>1. PICK a, b, c : a = LoopsOf(ops, "create") /\ b = LoopsOf(ops, "update")
                     /\ c = LoopsOf(ops, "remove")
  OBVIOUS
<1>2. InOrder(ops) = (a \o b) \o c
  BY <1>1 DEF InOrder, LoopsOf, OfKind
<1> DEFINE A == {op \in Operations : op.do # "remove"}
           R == {op \in Operations : op.do = "remove"}
<1>3. /\ Doing(ops, "create") \subseteq A /\ Doing(ops, "update") \subseteq A
      /\ Doing(ops, "remove") \subseteq R
  BY DEF Doing
<1>4. a \in Seq(A) /\ b \in Seq(A) /\ c \in Seq(R)
  BY <1>1, <1>3, LoopOperations
<1>5. PICK d \in Seq(A) : d = a \o b
  <2> HIDE DEF A
  <2>1. QED
    BY <1>4, ConcatProperties
<1>6. A \subseteq Operations /\ R \subseteq Operations
  OBVIOUS
<1>7. d \in Seq(Operations) /\ c \in Seq(Operations)
  BY <1>4, <1>6
<1>8. /\ d \o c \in Seq(Operations) /\ Len(d) \in Nat /\ Len(c) \in Nat
      /\ Len(d \o c) = Len(d) + Len(c)
      /\ \A k \in 1 .. Len(d) + Len(c) : (d \o c)[k] = IF k <= Len(d) THEN d[k] ELSE c[k - Len(d)]
  BY <1>7, LenProperties, ConcatProperties
<1>9. ASSUME NEW i \in 1 .. Len(d \o c), NEW j \in 1 .. Len(d \o c), i < j,
             (d \o c)[i].do = "remove"
      PROVE  (d \o c)[j].do = "remove"
  <2>1. ~(i <= Len(d))
    <3>1. ASSUME i <= Len(d) PROVE FALSE
      <4>1. i \in 1 .. Len(d) /\ (d \o c)[i] = d[i]
        BY <1>8, <3>1
      <4>2. d[i] \in A
        BY <4>1, ElementOfSeq
      <4>3. QED
        BY <1>9, <4>1, <4>2
    <3>2. QED
      BY <3>1
  <2>2. j - Len(d) \in 1 .. Len(c) /\ (d \o c)[j] = c[j - Len(d)]
    BY <1>8, <1>9, <2>1
  <2>3. c[j - Len(d)] \in R
    BY <1>4, <2>2, ElementOfSeq
  <2>4. QED
    BY <2>2, <2>3
<1>10. Ordered(d \o c)
  BY <1>9 DEF Ordered
<1>11. QED
  BY <1>2, <1>5, <1>8, <1>10

LEMMA RequestsOfOperations ==
  ASSUME NEW dos, NEW max, NEW o \in Requests(dos, max)
  PROVE  o \in SUBSET Operations
  BY DEF Requests, kSubset

LEMMA RequestsInOrder ==
  ASSUME NEW ops, ops \in EstablishmentRequests \/ ops \in ModificationRequests
  PROVE  ops \in Seq(Operations) /\ Ordered(ops)
<1>1. \E o \in SUBSET Operations : ops = InOrder(o)
  BY RequestsOfOperations DEF EstablishmentRequests, ModificationRequests
<1>2. QED
  BY <1>1, RequestInOrder

-----------------------------------------------------------------------------
(* The loop over the table that removes the sessions of some peers. *)

ReleaseStep(c, he, nodes, stuck) ==
  IF c.session[he.val].node \in nodes THEN UpfSessionRemove(c, he.val, stuck) ELSE c

ReleaseRun(g, ctx, es, nodes, stuck) ==
  g = [t \in SUBSET (1 .. Len(es)) |->
         IF t = {} THEN ctx ELSE ReleaseStep(g[t \ {Max(t)}], es[Max(t)], nodes, stuck)]

\* The loop as a function of the entries it has looked at.
LEMMA ReleaseRuns ==
  ASSUME NEW ctx \in Contexts, NEW nodes, NEW stuck,
         NEW es \in Seq(Entry), es = Entries(ctx.sessionHash),
         \A x \in 1 .. Len(es) : ctx.session[es[x].val].hashKey \in Keys
  PROVE  \E g : /\ RemoveListed(ctx, nodes, stuck) = g[1 .. Len(es)] /\ g[1 .. 0] = ctx
                /\ \A k \in 1 .. Len(es) :
                     g[1 .. k] = ReleaseStep(g[1 .. k - 1], es[k], nodes, stuck)
<1> DEFINE n == Len(es)
           T == {c \in Contexts : c.session = ctx.session}
           f == [p \in T \X (1 .. n) |-> ReleaseStep(p[1], es[p[2]], nodes, stuck)]
<1>1. n \in Nat /\ DOMAIN es = 1 .. n
  BY LenProperties
<1>2. ctx \in T
  OBVIOUS
<1>3. ASSUME NEW c \in T, NEW k \in 1 .. n
      PROVE  ReleaseStep(c, es[k], nodes, stuck) \in T
  <2>1. c \in Contexts /\ c.session = ctx.session
    OBVIOUS
  <2>2. PICK s \in Slots : s = es[k].val
    <3>1. es[k] \in Entry
      BY ElementOfSeq
    <3>2. QED
      BY <3>1 DEF Entry
  <2>3. c.session[s].hashKey \in Keys
    BY <2>1, <2>2
  <2>4. PICK d : d = UpfSessionRemove(c, s, stuck)
    OBVIOUS
  <2>5. d \in Contexts /\ d.session = c.session
    <3>1. d \in Contexts
      BY <2>1, <2>3, <2>4, RemoveTyped
    <3>2. RemovedFields(c, s, stuck, d)
      BY <2>1, <2>4, RemoveFields
    <3>3. QED
      BY <3>1, <3>2 DEF RemovedFields
  <2>6. ReleaseStep(c, es[k], nodes, stuck) \in {c, d}
    BY Zenon, <2>2, <2>4 DEF ReleaseStep
  <2>7. QED
    BY <2>1, <2>5, <2>6
<1>4. f \in [T \X (1 .. n) -> T]
  BY Zenon, <1>3
<1>5. \A c \in T, k \in 1 .. n : f[<<c, k>>] = ReleaseStep(c, es[k], nodes, stuck)
  OBVIOUS
<1> HIDE DEF f, T
<1>6. PICK G \in [SUBSET (1 .. n) -> T] : Folds(f, ctx, n, G)
  BY <1>1, <1>2, <1>4, FoldExists
<1>7. ASSUME NEW t \in SUBSET (1 .. n), t # {}
      PROVE  Max(t) \in 1 .. n /\ t \ {Max(t)} \in SUBSET (1 .. n)
  BY <1>1, <1>7, MaxUpTo
<1>8. ReleaseRun(G, ctx, es, nodes, stuck)
  <2>1. ASSUME NEW t \in SUBSET (1 .. n)
        PROVE  G[t] = IF t = {} THEN ctx
                      ELSE ReleaseStep(G[t \ {Max(t)}], es[Max(t)], nodes, stuck)
    <3>1. CASE t = {}
      BY <1>6, <3>1 DEF Folds
    <3>2. CASE t # {}
      <4>1. G[t] = f[<<G[t \ {Max(t)}], Max(t)>>]
        BY <1>6, <3>2 DEF Folds
      <4>2. Max(t) \in 1 .. n /\ G[t \ {Max(t)}] \in T
        BY <1>6, <1>7, <3>2
      <4>3. QED
        BY <1>5, <3>2, <4>1, <4>2
    <3>3. QED
      BY <3>1, <3>2
  <2>2. G = [t \in SUBSET (1 .. n) |-> G[t]]
    BY <1>6
  <2>3. QED
    BY Zenon, <2>1, <2>2 DEF ReleaseRun
<1> DEFINE g == CHOOSE h : ReleaseRun(h, ctx, es, nodes, stuck)
<1>9. ReleaseRun(g, ctx, es, nodes, stuck)
  BY <1>8
<1>10. RemoveListed(ctx, nodes, stuck) = g[1 .. n]
  BY <1>1 DEF RemoveListed, FoldLeft, MapThenFoldSet, ReleaseRun, ReleaseStep
<1> HIDE DEF g
<1>11. g[1 .. 0] = ctx
  <2>1. 1 .. 0 = {} /\ {} \in SUBSET (1 .. n)
    OBVIOUS
  <2>2. QED
    BY <1>9, <2>1 DEF ReleaseRun
<1>12. ASSUME NEW k \in 1 .. n
       PROVE  g[1 .. k] = ReleaseStep(g[1 .. k - 1], es[k], nodes, stuck)
  <2>1. /\ 1 .. k \in SUBSET (1 .. n) /\ 1 .. k # {} /\ Max(1 .. k) = k
        /\ (1 .. k) \ {k} = 1 .. k - 1
    BY <1>1, MaxInterval
  <2>2. g[1 .. k] = ReleaseStep(g[(1 .. k) \ {Max(1 .. k)}], es[Max(1 .. k)], nodes, stuck)
    BY <1>9, <2>1 DEF ReleaseRun
  <2>3. QED
    BY <2>1, <2>2
<1>13. QED
  BY <1>10, <1>11, <1>12

\* The context c after the first k entries of the table were looked at.
Released(ctx, c, barred, shared, nodes, es, k) ==
  /\ SoundContext(c, barred, shared) /\ c.session = ctx.session /\ Held(c) \subseteq Held(ctx)
  /\ \A x \in 1 .. Len(es) : k < x => es[x] \in EntrySet(c.sessionHash)
  /\ \A t \in Held(ctx) \ Held(c) : ctx.session[t].node \in nodes
  /\ \A x \in 1 .. Len(es) :
       x <= k /\ ctx.session[es[x].val].node \in nodes => es[x].val \notin Held(c)

\* One entry more: if its session is removed, no entry still to come is.
LEMMA ReleaseStepKeeps ==
  ASSUME NEW ctx, NEW barred, NEW shared, NEW nodes, NEW stuck, BarredAreHeld(ctx, barred),
         NEW es \in Seq(Entry), NEW k \in 1 .. Len(es),
         \A x \in 1 .. Len(es) : /\ ctx.session[es[x].val].hashKey \in Keys
                                 /\ ctx.session[es[x].key].hashKey
                                      = ctx.session[es[x].val].hashKey,
         \A x, y \in 1 .. Len(es) :
           ctx.session[es[x].key].hashKey = ctx.session[es[y].key].hashKey => x = y,
         NEW c, Released(ctx, c, barred, shared, nodes, es, k - 1),
         NEW d, d = ReleaseStep(c, es[k], nodes, stuck)
  PROVE  Released(ctx, d, barred, shared, nodes, es, k)
<1>1. k \in Nat /\ Len(es) \in Nat /\ k <= Len(es)
  BY LenProperties
<1>2. \A x \in 1 .. Len(es) : /\ k < x => k - 1 < x /\ x # k
                              /\ x <= k => x = k \/ x <= k - 1
  BY <1>1
<1>3. PICK s : s = es[k].val
  OBVIOUS
<1>4. /\ SoundContext(c, barred, shared) /\ c.session = ctx.session
      /\ Held(c) \subseteq Held(ctx)
      /\ \A x \in 1 .. Len(es) : k - 1 < x => es[x] \in EntrySet(c.sessionHash)
      /\ \A t \in Held(ctx) \ Held(c) : ctx.session[t].node \in nodes
      /\ \A x \in 1 .. Len(es) :
           x <= k - 1 /\ ctx.session[es[x].val].node \in nodes => es[x].val \notin Held(c)
  BY DEF Released
<1>5. CASE ctx.session[s].node \notin nodes
  <2>1. d = c
    BY <1>3, <1>4, <1>5 DEF ReleaseStep
  <2>2. \A x \in 1 .. Len(es) : k < x => es[x] \in EntrySet(d.sessionHash)
    BY <1>2, <1>4, <2>1
  <2>3. \A x \in 1 .. Len(es) :
          x <= k /\ ctx.session[es[x].val].node \in nodes => es[x].val \notin Held(d)
    BY <1>2, <1>3, <1>4, <1>5, <2>1
  <2>4. QED
    BY <1>4, <2>1, <2>2, <2>3 DEF Released
<1>6. CASE ctx.session[s].node \in nodes
  <2>1. d = UpfSessionRemove(c, s, stuck)
    BY <1>3, <1>4, <1>6 DEF ReleaseStep
  <2>2. s \in Held(c)
    <3>1. es[k] \in EntrySet(c.sessionHash)
      BY <1>1, <1>4
    <3>2. TableHolds(c)
      BY <1>4 DEF SoundContext
    <3>3. QED
      BY <1>3, <3>1, <3>2 DEF TableHolds
  <2>3. s \notin barred
    BY SMTT(60), <1>3, UpfSessionAssumption DEF BarredAreHeld
  <2>4. SoundContext(d, barred, shared) /\ Removed(c, d, s)
    BY <1>4, <2>1, <2>2, <2>3, RemoveKeeps
  <2>5. /\ d.session = c.session /\ Held(d) = Held(c) \ {s}
        /\ EntrySet(d.sessionHash) = {e \in EntrySet(c.sessionHash) :
             c.session[e.key].hashKey # c.session[s].hashKey}
    BY <2>4 DEF Removed
  <2>6. ASSUME NEW x \in 1 .. Len(es), k < x PROVE es[x] \in EntrySet(d.sessionHash)
    <3>1. es[x] \in EntrySet(c.sessionHash) /\ x # k
      BY <1>2, <1>4, <2>6
    <3>2. ctx.session[es[x].key].hashKey # ctx.session[s].hashKey
      BY <1>3, <3>1
    <3>3. QED
      BY <1>4, <2>5, <3>1, <3>2
  <2>7. \A x \in 1 .. Len(es) :
          x <= k /\ ctx.session[es[x].val].node \in nodes => es[x].val \notin Held(d)
    BY <1>2, <1>3, <1>4, <2>5
  <2>8. Held(d) \subseteq Held(ctx) /\ \A t \in Held(ctx) \ Held(d) : ctx.session[t].node \in nodes
    BY <1>4, <1>6, <2>5
  <2>9. QED
    BY <1>4, <2>4, <2>5, <2>6, <2>7, <2>8 DEF Released
<1>7. QED
  BY <1>5, <1>6

\* When the loop is over, the listed sessions of the peers are gone and no
\* session of another peer is.
LEMMA ReleaseKeeps ==
  ASSUME NEW ctx, NEW barred, NEW shared, SoundContext(ctx, barred, shared),
         NEW nodes, NEW stuck, NEW c, c = RemoveListed(ctx, nodes, stuck)
  PROVE  /\ SoundContext(c, barred, shared) /\ c.session = ctx.session
         /\ Held(c) \subseteq Held(ctx)
         /\ \A t \in Held(ctx) \ Held(c) : ctx.session[t].node \in nodes
         /\ \A e \in EntrySet(ctx.sessionHash) :
              ctx.session[e.val].node \in nodes => e.val \notin Held(c)
<1>1. ctx \in Contexts /\ TableHolds(ctx) /\ BarredAreHeld(ctx, barred)
  BY DEF SoundContext
<1>2. PICK ht, at : ht = ctx.sessionHash /\ at = KeyAt(ctx)
  OBVIOUS
<1>3. /\ Consistent(ht, at)
      /\ \A e \in EntrySet(ht) : /\ e.key \in Slots /\ e.val \in Slots
                                 /\ ctx.session[e.key].hashKey = ctx.session[e.val].hashKey
                                 /\ ctx.session[e.key].hashKey \in Keys
  <2>1. Consistent(ht, at) /\ ht \in Tables /\ Placed(ht, at)
    BY <1>1, <1>2 DEF TableHolds, Consistent
  <2>2. ASSUME NEW e \in EntrySet(ht)
        PROVE  /\ e.key \in Slots /\ e.val \in Slots
               /\ ctx.session[e.key].hashKey = ctx.session[e.val].hashKey
               /\ ctx.session[e.key].hashKey \in Keys
    <3>1. e.key \in Slots /\ e.val \in Slots
      BY <2>1, EntryFields
    <3>2. ctx.session[e.key].hashKey = ctx.session[e.val].hashKey
      BY <1>1, <1>2 DEF TableHolds
    <3>3. PICK p \in Places(ht) : e = At(ht, p)
      BY DEF EntrySet
    <3>4. at[e.key] \in Keys
      BY <2>1, <3>3 DEF Placed, PlacedAt
    <3>5. QED
      BY <1>2, <3>1, <3>2, <3>4, KeyAtIs
  <2>3. QED
    BY <2>1, <2>2
<1>4. PICK es : es = Entries(ht)
  OBVIOUS
<1>5. /\ es \in Seq(Entry) /\ ToSet(es) = EntrySet(ht)
      /\ \A i, j \in 1 .. Len(es) : at[es[i].key] = at[es[j].key] => i = j
  BY <1>3, <1>4, ConsistentEntries
<1> DEFINE n == Len(es)
<1>6. n \in Nat /\ \A x \in 1 .. n : es[x] \in EntrySet(ht)
  <2>1. \A x \in 1 .. n : es[x] \in ToSet(es)
    BY <1>5, SeqAsSet
  <2>2. QED
    BY <1>5, <2>1, LenProperties
<1>7. \A x \in 1 .. Len(es) : /\ ctx.session[es[x].val].hashKey \in Keys
                              /\ ctx.session[es[x].key].hashKey
                                   = ctx.session[es[x].val].hashKey
  BY <1>3, <1>6
<1>8. \A x, y \in 1 .. Len(es) :
        ctx.session[es[x].key].hashKey = ctx.session[es[y].key].hashKey => x = y
  <2>1. \A x \in 1 .. Len(es) : at[es[x].key] = ctx.session[es[x].key].hashKey
    BY <1>2, <1>3, <1>6, KeyAtIs
  <2>2. QED
    BY <1>5, <2>1
<1>9. PICK g : /\ c = g[1 .. n] /\ g[1 .. 0] = ctx
               /\ \A k \in 1 .. n : g[1 .. k] = ReleaseStep(g[1 .. k - 1], es[k], nodes, stuck)
  BY <1>1, <1>2, <1>4, <1>5, <1>7, ReleaseRuns
<1> DEFINE P == {k \in 0 .. n : Released(ctx, g[1 .. k], barred, shared, nodes, es, k)}
<1>10. 0 \in P
  <2>1. Released(ctx, ctx, barred, shared, nodes, es, 0)
    <3>1. \A x \in 1 .. n : 0 < x /\ ~(x <= 0)
      BY <1>6
    <3>2. QED
      BY <1>2, <1>6, <3>1 DEF Released
  <2>2. Released(ctx, g[1 .. 0], barred, shared, nodes, es, 0)
    BY <1>9, <2>1
  <2>3. 0 \in 0 .. n
    BY <1>6
  <2>4. QED
    BY <2>2, <2>3
<1>11. ASSUME NEW k \in 1 .. n, k - 1 \in P PROVE k \in P
  <2>1. PICK b, d : b = g[1 .. k - 1] /\ d = g[1 .. k]
    OBVIOUS
  <2>2. Released(ctx, b, barred, shared, nodes, es, k - 1)
    BY <1>11, <2>1
  <2>3. d = ReleaseStep(b, es[k], nodes, stuck)
    BY <1>9, <2>1
  <2>4. Released(ctx, d, barred, shared, nodes, es, k)
    BY <1>1, <1>5, <1>7, <1>8, <2>2, <2>3, ReleaseStepKeeps
  <2>5. k \in 0 .. n
    BY <1>6
  <2>6. QED
    BY <2>1, <2>4, <2>5
<1> HIDE DEF P
<1>12. 0 .. n \subseteq P
  BY <1>6, <1>10, <1>11, UpTo
<1>13. n \in P
  BY <1>6, <1>12
<1>14. Released(ctx, c, barred, shared, nodes, es, n)
  BY <1>9, <1>13 DEF P
<1>15. ASSUME NEW e \in EntrySet(ctx.sessionHash), ctx.session[e.val].node \in nodes
       PROVE  e.val \notin Held(c)
  <2>1. PICK x \in 1 .. n : es[x] = e
    BY <1>2, <1>5, SeqAsSet
  <2>2. x <= n
    BY <1>6
  <2>3. QED
    BY <1>14, <1>15, <2>1, <2>2 DEF Released
<1>16. QED
  BY <1>14, <1>15 DEF Released

-----------------------------------------------------------------------------
(* The invariant. *)

Ranges ==
  /\ made \in 0 .. MaxSessions /\ clashed \in SUBSET Keys /\ refused \in SUBSET Slots
  /\ running \in BOOLEAN

\* What the peers were told is so.
ToldTo(ks, ctx, barred) ==
  /\ ks \in SUBSET [node : Nodes, slot : Slots, number : Numbers]
  /\ \A k \in ks : /\ k.slot \in Held(ctx) /\ k.slot \notin barred
                   /\ ctx.session[k.slot].smfSeid = k.number
                   /\ ctx.session[k.slot].node = k.node

TrueReply(r, ctx) ==
  /\ r.seid = r.asked
  /\ r.cause = "accepted" =>
       /\ \A q \in r.created \ r.removed : ctx.rule[q] = r.slot /\ q \in ctx.kernel
       /\ \A q \in r.removed : ctx.rule[q] = Null /\ q \notin ctx.kernel

SessionInv ==
  /\ SoundContext(self, refused, clashed) /\ Ranges /\ ToldTo(known, self, refused)
  /\ RepliesAreTrue

LEMMA ReplyIsTrue ==
  ASSUME reply' = Null \/ TrueReply(reply', self')
  PROVE  RepliesAreTrue'
  BY DEF RepliesAreTrue, TrueReply

\* A response to a request that is done tells the truth.
LEMMA ResponseIsTrue ==
  ASSUME NEW p, NEW c, c = p.ctx, NEW s, NEW ops \in Seq(Operations), NEW asked,
         c.session[s].smfSeid = asked, p.ok => Done(ops, Len(ops), c, s),
         NEW r, r = Response(p, s, ops, asked)
  PROVE  TrueReply(r, c)
<1>1. PICK x, made1, gone : /\ x = IF p.ok THEN "accepted" ELSE "rejected"
                            /\ made1 = {op.rule : op \in {o \in ToSet(ops) : o.do = "create"}}
                            /\ gone = {op.rule : op \in {o \in ToSet(ops) : o.do = "remove"}}
  OBVIOUS
<1>2. r = [cause |-> x, seid |-> asked, asked |-> asked, slot |-> s,
           created |-> made1, removed |-> gone]
  BY Zenon, <1>1 DEF Response
<1>3. /\ r.cause = x /\ r.seid = asked /\ r.asked = asked /\ r.slot = s
      /\ r.created = made1 /\ r.removed = gone
  BY <1>2
<1>4. x = "accepted" => p.ok
  BY <1>1
<1>5. \A o : o \in ToSet(ops) <=> \E i \in 1 .. Len(ops) : ops[i] = o
  BY SeqAsSet
<1>6. \A o \in ToSet(ops) : o.rule \in Rules
  BY <1>5, ElementOfSeq, OperationFields
<1>7. \A q : /\ q \in made1 => q \in Rules /\ Asks(ops, Len(ops), "create", q)
             /\ q \in gone <=> q \in Rules /\ Asks(ops, Len(ops), "remove", q)
  BY <1>1, <1>5, <1>6 DEF Asks
<1>8. ASSUME x = "accepted"
      PROVE  /\ \A q \in made1 \ gone : c.rule[q] = s /\ q \in c.kernel
             /\ \A q \in gone : c.rule[q] = Null /\ q \notin c.kernel
  <2>1. Done(ops, Len(ops), c, s)
    BY <1>4, <1>8
  <2>2. QED
    BY <1>7, <2>1 DEF Done
<1>9. QED
  BY <1>3, <1>8 DEF TrueReply

\* What the peers were told stays so when no session they know changes.
LEMMA ToldStays ==
  ASSUME NEW ks, NEW ctx, NEW barred, ToldTo(ks, ctx, barred), NEW n,
         \A k \in ks : /\ k.slot \in Held(n)
                       /\ n.session[k.slot].smfSeid = ctx.session[k.slot].smfSeid
                       /\ n.session[k.slot].node = ctx.session[k.slot].node
  PROVE  ToldTo(ks, n, barred)
  BY DEF ToldTo

\* Every action keeps the invariant.
LEMMA EstablishmentKeeps ==
  ASSUME SessionInv, NEW n \in Nodes, SessionEstablishment(n)
  PROVE  SessionInv'
<1>1. /\ SoundContext(self, refused, clashed) /\ ToldTo(known, self, refused)
      /\ made \in 0 .. MaxSessions /\ clashed \in SUBSET Keys /\ refused \in SUBSET Slots
      /\ running \in BOOLEAN
  BY DEF SessionInv, Ranges
<1>2. /\ self.pool # << >> /\ made < MaxSessions
      /\ made' = made + 1 /\ refused' = refused /\ running' = running
  BY DEF SessionEstablishment
<1>3. PICK s : s = Head(self.pool)
  OBVIOUS
<1>4. PICK key, added :
        /\ key \in Keys /\ added = Added(self, key, n)
        /\ clashed' = IF \E t \in Held(self) \ refused : self.session[t].hashKey = key
                      THEN clashed \cup {key} ELSE clashed
        /\ \/ self' = added /\ reply' = Null /\ known' = known
           \/ \E ops \in EstablishmentRequests : \E p :
                /\ p = Establish(added, s, ops)
                /\ self' = p.ctx /\ reply' = Response(p, s, ops, made + 1)
                /\ \/ known' = known
                   \/ known' = known \cup {[node |-> n, slot |-> s, number |-> made + 1]}
  BY ZenonT(60), <1>3 DEF SessionEstablishment, Added, Held, Allocated
<1>5. /\ clashed \subseteq clashed' /\ clashed' \in SUBSET Keys
      /\ (\E t \in Held(self) \ refused : self.session[t].hashKey = key) => key \in clashed'
  BY <1>1, <1>4
<1>6. /\ SoundContext(added, refused, clashed') /\ Held(added) = Held(self) \cup {s}
      /\ s \in Slots /\ s \notin Held(self) \cup refused
      /\ added.session = [self.session EXCEPT ![s] = NewSession(key, n)]
  <2>1. PICK all : all = clashed'
    OBVIOUS
  <2>2. /\ SoundContext(added, refused, all) /\ Held(added) = Held(self) \cup {s}
        /\ s \in Slots /\ s \notin Held(self) \cup refused
        /\ added.session = [self.session EXCEPT ![s] = NewSession(key, n)]
    BY <1>1, <1>2, <1>3, <1>4, <1>5, <2>1, AddKeeps
  <2>3. QED
    BY <2>1, <2>2
<1>7. /\ added.session[s].smfSeid = made + 1 /\ added.session[s].node = n
      /\ \A t \in Slots : t # s => added.session[t] = self.session[t]
  <2>1. DOMAIN self.session = Slots
    BY <1>1, ContextFields DEF SoundContext
  <2>2. added.session[s] = NewSession(key, n)
    BY <1>6, <2>1
  <2>3. NewSession(key, n).smfSeid = made + 1 /\ NewSession(key, n).node = n
    BY DEF NewSession
  <2>4. QED
    BY <1>6, <2>1, <2>2, <2>3
<1>8. PICK tell : tell = [node |-> n, slot |-> s, number |-> made + 1]
  OBVIOUS
<1>9. ToldTo(known, added, refused) /\ ToldTo(known \cup {tell}, added, refused)
  <2>1. ASSUME NEW k \in known
        PROVE  k.slot \in Held(added) /\ added.session[k.slot] = self.session[k.slot]
    <3>1. k.slot \in Held(self)
      BY <1>1 DEF ToldTo
    <3>2. k.slot \in Slots /\ k.slot # s
      BY <1>6, <3>1 DEF Held
    <3>3. QED
      BY <1>6, <1>7, <3>1, <3>2
  <2>2. ToldTo(known, added, refused)
    BY <1>1, <2>1, ToldStays
  <2>3. tell \in [node : Nodes, slot : Slots, number : Numbers]
    <3>1. made + 1 \in Numbers
      BY <1>1, <1>2, UpfSessionAssumption DEF Numbers
    <3>2. QED
      BY <1>6, <1>8, <3>1
  <2>4. tell.slot = s /\ tell.number = made + 1 /\ tell.node = n
    BY <1>8
  <2>5. QED
    BY <1>6, <1>7, <2>2, <2>3, <2>4 DEF ToldTo
<1>10. /\ SoundContext(self', refused, clashed')
       /\ ToldTo(known', self', refused)
       /\ reply' = Null \/ TrueReply(reply', self')
  <2>1. CASE self' = added /\ reply' = Null /\ known' = known
    BY <1>6, <1>9, <2>1
  <2>2. CASE \E ops \in EstablishmentRequests : \E p :
                /\ p = Establish(added, s, ops)
                /\ self' = p.ctx /\ reply' = Response(p, s, ops, made + 1)
                /\ \/ known' = known
                   \/ known' = known \cup {[node |-> n, slot |-> s, number |-> made + 1]}
    <3>1. PICK ops, p :
             /\ ops \in EstablishmentRequests /\ p = Establish(added, s, ops)
             /\ self' = p.ctx /\ reply' = Response(p, s, ops, made + 1)
             /\ known' = known \/ known' = known \cup {tell}
      BY Zenon, <1>8, <2>2
    <3>2. ops \in Seq(Operations) /\ Ordered(ops)
      BY <3>1, RequestsInOrder
    <3>3. PICK all : all = clashed'
      OBVIOUS
    <3>4. RequestDone(p, added, refused, all, s, ops)
      BY <1>1, <1>6, <3>1, <3>2, <3>3, RequestsKeep
    <3>5. PICK c, r : c = self' /\ r = reply'
      OBVIOUS
    <3>6. /\ SoundContext(c, refused, all) /\ Held(c) = Held(added)
          /\ c.session = added.session /\ (p.ok => Done(ops, Len(ops), c, s))
      BY Zenon, <3>1, <3>4, <3>5 DEF RequestDone
    <3>7. c.session[s].smfSeid = made + 1
      BY <1>7, <3>6
    <3>8. TrueReply(r, c)
      BY <3>1, <3>2, <3>5, <3>6, <3>7, ResponseIsTrue
    <3>9. ToldTo(known, c, refused) /\ ToldTo(known \cup {tell}, c, refused)
      BY <1>9, <3>6 DEF ToldTo
    <3>10. QED
      BY <3>1, <3>3, <3>5, <3>6, <3>8, <3>9
  <2>3. QED
    BY <1>4, <2>1, <2>2
<1>11. RepliesAreTrue'
  BY <1>10, ReplyIsTrue
<1>12. Ranges'
  BY <1>1, <1>2, <1>5, UpfSessionAssumption DEF Ranges
<1>13. QED
  BY <1>2, <1>10, <1>11, <1>12 DEF SessionInv

LEMMA PdnRefusalKeeps ==
  ASSUME SessionInv, SessionPdnTypeRefused
  PROVE  SessionInv'
<1>1. /\ SoundContext(self, refused, clashed) /\ ToldTo(known, self, refused) /\ Ranges
  BY DEF SessionInv
<1>2. /\ self.pool # << >> /\ made < MaxSessions /\ self' = SessionAlloc(self, Null)
      /\ refused' = refused \cup {Head(self.pool)}
      /\ made' = made + 1 /\ reply' = Null
      /\ known' = known /\ clashed' = clashed /\ running' = running
  BY DEF SessionPdnTypeRefused
<1>3. PICK s, c, all : s = Head(self.pool) /\ c = self' /\ all = refused'
  OBVIOUS
<1>4. /\ SoundContext(c, all, clashed) /\ s \in Slots /\ s \notin Held(self) \cup refused
      /\ Held(c) = Held(self) \cup {s}
      /\ c.session = [self.session EXCEPT ![s] = NewSession(Null, Null)]
  <2>1. made \in 0 .. MaxSessions
    BY <1>1 DEF Ranges
  <2>2. self.pool # << >> /\ made < MaxSessions /\ c = SessionAlloc(self, Null)
    BY <1>2, <1>3
  <2>3. SoundContext(self, refused, clashed)
    BY <1>1
  <2>4. /\ SoundContext(c, refused \cup {Head(self.pool)}, clashed)
        /\ Head(self.pool) \in Slots /\ Head(self.pool) \notin Held(self) \cup refused
        /\ Held(c) = Held(self) \cup {Head(self.pool)}
        /\ c.session = [self.session EXCEPT ![Head(self.pool)] = NewSession(Null, Null)]
    BY <2>1, <2>2, <2>3, AllocKeeps
  <2>5. all = refused \cup {s}
    BY <1>2, <1>3
  <2>6. QED
    BY Zenon, <1>3, <2>4, <2>5
<1>5. ToldTo(known, c, all)
  <2>1. \A k \in known : k.slot \in Held(self) /\ k.slot \in Slots
    BY <1>1 DEF ToldTo, Held
  <2>2. \A k \in known : k.slot # s
    BY <1>4, <2>1
  <2>3. \A k \in known : k.slot \in Held(c) /\ c.session[k.slot] = self.session[k.slot]
    <3>1. DOMAIN self.session = Slots
      BY <1>1, ContextFields DEF SoundContext
    <3>2. QED
      BY <1>4, <2>1, <2>2, <3>1
  <2>4. ToldTo(known, c, refused)
    BY <1>1, <2>3, ToldStays
  <2>5. QED
    BY <1>2, <1>3, <2>2, <2>4 DEF ToldTo
<1>6. Ranges'
  BY <1>1, <1>2, <1>3, <1>4, UpfSessionAssumption DEF Ranges
<1>7. RepliesAreTrue'
  BY <1>2, ReplyIsTrue
<1>8. QED
  BY <1>2, <1>3, <1>4, <1>5, <1>6, <1>7 DEF SessionInv

\* A session a peer knows, addressed by it.
LEMMA KnownIsAddressed ==
  ASSUME SessionInv, NEW k \in known, NEW c, c = Addressed(k)
  PROVE  /\ k.slot \in Held(c) /\ k.slot \in Slots /\ k.slot \notin refused
         /\ c.session[k.slot].smfSeid = k.number
         /\ SoundContext(c, refused, clashed) /\ Held(c) = Held(self)
         /\ c.rule = self.rule /\ ToldTo(known, c, refused)
<1>1. /\ SoundContext(self, refused, clashed) /\ ToldTo(known, self, refused)
      /\ refused \in SUBSET Slots
  BY DEF SessionInv, Ranges
<1>2. PICK s, n : s = k.slot /\ n = k.node
  OBVIOUS
<1>3. /\ s \in Held(self) /\ s \in Slots /\ s \notin refused /\ n \in Nodes
      /\ self.session[s].smfSeid = k.number /\ self.session[s].node = n
  BY <1>1, <1>2 DEF ToldTo, Held
<1>4. c = AddressedBy(self, s, n)
  BY <1>2 DEF AddressedBy, Addressed
<1>5. /\ SoundContext(c, refused, clashed) /\ Held(c) = Held(self)
      /\ c.rule = self.rule /\ c.kernel = self.kernel
      /\ c.session[s].node = n /\ c.session[s].smfSeid = self.session[s].smfSeid
      /\ \A t \in Slots : t # s => c.session[t] = self.session[t]
  <2>1. /\ SoundContext(self, refused, clashed) /\ refused \in SUBSET Slots
        /\ s \in Slots /\ n \in Nodes
    BY <1>1, <1>3
  <2>2. SoundContext(c, refused, clashed) /\ Held(c) = Held(self) /\ OnlyNode(self, s, n, c)
    BY <1>4, <2>1, AddressKeeps
  <2>3. QED
    BY <2>2 DEF OnlyNode
<1>6. ToldTo(known, c, refused)
  <2>1. ASSUME NEW j \in known
        PROVE  /\ j.slot \in Held(c)
               /\ c.session[j.slot].smfSeid = self.session[j.slot].smfSeid
               /\ c.session[j.slot].node = self.session[j.slot].node
    <3>1. j.slot \in Slots /\ j.slot \in Held(self)
      BY <1>1 DEF ToldTo, Held
    <3>2. QED
      BY <1>3, <1>5, <3>1
  <2>2. QED
    BY <1>1, <2>1, ToldStays
<1>7. QED
  BY <1>2, <1>3, <1>5, <1>6

LEMMA ModificationKeeps ==
  ASSUME SessionInv, NEW k \in known, SessionModification(k)
  PROVE  SessionInv'
<1>1. PICK s, c : s = k.slot /\ c = Addressed(k)
  OBVIOUS
<1>2. /\ s \in Held(c) /\ s \in Slots /\ c.session[s].smfSeid = k.number
      /\ SoundContext(c, refused, clashed) /\ ToldTo(known, c, refused)
  BY <1>1, KnownIsAddressed
<1>3. /\ made' = made /\ known' = known /\ clashed' = clashed /\ refused' = refused
      /\ running' = running
      /\ \/ self' = c /\ reply' = Null
         \/ \E ops \in ModificationRequests : \E p :
              /\ p = Modify(c, s, ops) /\ self' = p.ctx
              /\ reply' = IF p.ok THEN Response(p, s, ops, k.number) ELSE Null
  BY Zenon, <1>1 DEF SessionModification
<1>4. refused \in SUBSET Slots /\ Ranges
  BY DEF SessionInv, Ranges
<1>5. /\ SoundContext(self', refused, clashed) /\ ToldTo(known, self', refused)
      /\ reply' = Null \/ TrueReply(reply', self')
  <2>1. CASE self' = c /\ reply' = Null
    BY <1>2, <2>1
  <2>2. CASE \E ops \in ModificationRequests : \E p :
               /\ p = Modify(c, s, ops) /\ self' = p.ctx
               /\ reply' = IF p.ok THEN Response(p, s, ops, k.number) ELSE Null
    <3>1. PICK ops, p :
            /\ ops \in ModificationRequests /\ p = Modify(c, s, ops) /\ self' = p.ctx
            /\ reply' = IF p.ok THEN Response(p, s, ops, k.number) ELSE Null
      BY Zenon, <2>2
    <3>2. ops \in Seq(Operations) /\ Ordered(ops)
      BY <3>1, RequestsInOrder
    <3>3. RequestDone(p, c, refused, clashed, s, ops)
      BY <1>2, <1>4, <3>1, <3>2, RequestsKeep
    <3>4. PICK d, r : d = self' /\ r = reply'
      OBVIOUS
    <3>5. /\ SoundContext(d, refused, clashed) /\ Held(d) = Held(c)
          /\ d.session = c.session /\ (p.ok => Done(ops, Len(ops), d, s))
      BY Zenon, <3>1, <3>3, <3>4 DEF RequestDone
    <3>6. d.session[s].smfSeid = k.number
      BY <1>2, <3>5
    <3>7. r = Null \/ r = Response(p, s, ops, k.number)
      BY <3>1, <3>4
    <3>8. r = Null \/ TrueReply(r, d)
      BY <3>1, <3>2, <3>4, <3>5, <3>6, <3>7, ResponseIsTrue
    <3>9. ToldTo(known, d, refused)
      BY <1>2, <3>5 DEF ToldTo
    <3>10. QED
      BY <3>4, <3>5, <3>8, <3>9
  <2>3. QED
    BY <1>3, <2>1, <2>2
<1>6. RepliesAreTrue'
  BY <1>5, ReplyIsTrue
<1>7. Ranges'
  BY <1>3, <1>4 DEF Ranges
<1>8. QED
  BY <1>3, <1>5, <1>6, <1>7 DEF SessionInv

LEMMA DeletionKeeps ==
  ASSUME SessionInv, NEW k \in known, SessionDeletion(k)
  PROVE  SessionInv'
<1>1. PICK s, c : s = k.slot /\ c = Addressed(k)
  OBVIOUS
<1>2. /\ s \in Held(c) /\ s \in Slots /\ s \notin refused
      /\ c.session[s].smfSeid = k.number
      /\ SoundContext(c, refused, clashed) /\ ToldTo(known, c, refused)
  BY <1>1, KnownIsAddressed
<1>3. /\ made' = made /\ clashed' = clashed /\ refused' = refused /\ running' = running
      /\ \/ self' = c /\ reply' = Null /\ known' = known
         \/ \E stuck, p : /\ self' = UpfSessionRemove(c, s, stuck)
                          /\ p = Progress(self')
                          /\ reply' = Response(p, s, << >>, k.number)
                          /\ known' = known \ {k}
  BY Zenon, <1>1 DEF SessionDeletion
<1>4. Ranges
  BY DEF SessionInv
<1>5. /\ SoundContext(self', refused, clashed) /\ ToldTo(known', self', refused)
      /\ reply' = Null \/ TrueReply(reply', self')
  <2>1. CASE self' = c /\ reply' = Null /\ known' = known
    BY <1>2, <2>1
  <2>2. CASE \E stuck, p : /\ self' = UpfSessionRemove(c, s, stuck)
                           /\ p = Progress(self')
                           /\ reply' = Response(p, s, << >>, k.number)
                           /\ known' = known \ {k}
    <3>1. PICK stuck, p : /\ self' = UpfSessionRemove(c, s, stuck)
                          /\ p = Progress(self')
                          /\ reply' = Response(p, s, << >>, k.number)
                          /\ known' = known \ {k}
      BY <2>2
    <3>2. PICK d, r, ks : d = self' /\ r = reply' /\ ks = known'
      OBVIOUS
    <3>3. SoundContext(d, refused, clashed) /\ Removed(c, d, s)
      BY <1>2, <3>1, <3>2, RemoveKeeps
    <3>4. d.session = c.session /\ Held(d) = Held(c) \ {s}
      BY <3>3 DEF Removed
    <3>5. p.ctx = d
      BY Zenon, <3>1, <3>2 DEF Progress
    <3>6. PICK ops \in Seq(Operations) : ops = << >>
      <4>1. << >> \in Seq(Operations)
        OBVIOUS
      <4>2. QED
        BY <4>1
    <3>7. Done(ops, Len(ops), d, s)
      <4>1. Len(ops) = 0
        BY <3>6
      <4>2. \A do, q : ~Asks(ops, 0, do, q)
        BY DEF Asks
      <4>3. QED
        BY <4>1, <4>2 DEF Done
    <3>8. d.session[s].smfSeid = k.number
      BY <1>2, <3>4
    <3>9. TrueReply(r, d)
      BY <3>1, <3>2, <3>5, <3>6, <3>7, <3>8, ResponseIsTrue
    <3>10. ToldTo(ks, d, refused)
      <4>1. ASSUME NEW j \in known, j # k PROVE j.slot # s
        <5>1. /\ k \in [node : Nodes, slot : Slots, number : Numbers]
              /\ j \in [node : Nodes, slot : Slots, number : Numbers]
          BY <1>2 DEF ToldTo
        <5>2. ASSUME j.slot = s PROVE FALSE
          <6>1. j.number = k.number /\ j.node = k.node /\ j.slot = k.slot
            BY <1>1, <1>2, <5>2 DEF ToldTo
          <6>2. QED
            BY <4>1, <5>1, <6>1
        <5>3. QED
          BY <5>2
      <4>2. QED
        BY <1>2, <3>1, <3>2, <3>4, <4>1 DEF ToldTo
    <3>11. QED
      BY <3>2, <3>3, <3>9, <3>10
  <2>3. QED
    BY <1>3, <2>1, <2>2
<1>6. RepliesAreTrue'
  BY <1>5, ReplyIsTrue
<1>7. Ranges'
  BY <1>3, <1>4 DEF Ranges
<1>8. QED
  BY <1>3, <1>5, <1>6, <1>7 DEF SessionInv

\* Peers that forget their sessions, and sessions of theirs that are removed.
LEMMA ForgettingKeeps ==
  ASSUME SessionInv, NEW nodes, NEW c,
         c = self \/ \E stuck : c = RemoveListed(self, nodes, stuck)
  PROVE  /\ SoundContext(c, refused, clashed)
         /\ \A ks \in SUBSET known : (\A k \in ks : k.node \notin nodes) => ToldTo(ks, c, refused)
<1>1. /\ SoundContext(self, refused, clashed) /\ ToldTo(known, self, refused)
  BY DEF SessionInv
<1>2. /\ SoundContext(c, refused, clashed) /\ c.session = self.session
      /\ \A t \in Held(self) \ Held(c) : self.session[t].node \in nodes
  <2>1. CASE c = self
    BY <1>1, <2>1
  <2>2. CASE \E stuck : c = RemoveListed(self, nodes, stuck)
    BY <1>1, <2>2, ReleaseKeeps
  <2>3. QED
    BY <2>1, <2>2
<1>3. ASSUME NEW ks \in SUBSET known, \A k \in ks : k.node \notin nodes
      PROVE  ToldTo(ks, c, refused)
  <2>1. \A k \in ks : k.slot \in Held(self) /\ self.session[k.slot].node = k.node
    BY <1>1 DEF ToldTo
  <2>2. \A k \in ks : k.slot \in Held(c)
    BY <1>2, <1>3, <2>1
  <2>3. QED
    BY <1>1, <1>2, <2>2 DEF ToldTo
<1>4. QED
  BY <1>2, <1>3

LEMMA ReleaseRequestKeeps ==
  ASSUME SessionInv, NEW n \in Nodes, AssociationReleaseRequest(n)
  PROVE  SessionInv'
<1>1. /\ known' = {k \in known : k.node # n} /\ reply' = Null /\ self' = self
      /\ made' = made /\ clashed' = clashed /\ refused' = refused /\ running' = running
  BY DEF AssociationReleaseRequest
<1>2. SoundContext(self, refused, clashed) /\ ToldTo(known, self, refused) /\ Ranges
  BY DEF SessionInv
<1>3. ToldTo(known', self, refused)
  BY <1>1, <1>2 DEF ToldTo
<1>4. RepliesAreTrue'
  BY <1>1, ReplyIsTrue
<1>5. Ranges'
  BY <1>1, <1>2 DEF Ranges
<1>6. QED
  BY <1>1, <1>2, <1>3, <1>4, <1>5 DEF SessionInv

LEMMA ReleaseResponseKeeps ==
  ASSUME SessionInv, NEW n \in Nodes, AssociationReleaseResponse(n)
  PROVE  SessionInv'
<1>1. /\ known' = {k \in known : k.node # n} /\ reply' = Null
      /\ made' = made /\ clashed' = clashed /\ refused' = refused /\ running' = running
      /\ \E stuck : self' = RemoveListed(self, {n}, stuck)
  BY Zenon DEF AssociationReleaseResponse
<1>2. PICK c, ks : c = self' /\ ks = known'
  OBVIOUS
<1>3. ks \in SUBSET known /\ \A k \in ks : k.node \notin {n}
  BY <1>1, <1>2
<1>4. SoundContext(c, refused, clashed) /\ ToldTo(ks, c, refused)
  BY <1>1, <1>2, <1>3, ForgettingKeeps
<1>5. RepliesAreTrue'
  BY <1>1, ReplyIsTrue
<1>6. Ranges'
  BY <1>1 DEF SessionInv, Ranges
<1>7. QED
  BY <1>1, <1>2, <1>4, <1>5, <1>6 DEF SessionInv

LEMMA TerminationKeeps ==
  ASSUME SessionInv, UpfSessionRemoveAll
  PROVE  SessionInv'
<1>1. /\ known' = {} /\ reply' = Null /\ running' = FALSE
      /\ made' = made /\ clashed' = clashed /\ refused' = refused
      /\ \E stuck : self' = RemoveListed(self, Nodes, stuck)
  BY Zenon DEF UpfSessionRemoveAll
<1>2. PICK c, ks : c = self' /\ ks = known'
  OBVIOUS
<1>3. ks \in SUBSET known /\ \A k \in ks : k.node \notin Nodes
  BY <1>1, <1>2
<1>4. SoundContext(c, refused, clashed) /\ ToldTo(ks, c, refused)
  BY <1>1, <1>2, <1>3, ForgettingKeeps
<1>5. RepliesAreTrue'
  BY <1>1, ReplyIsTrue
<1>6. Ranges'
  BY <1>1 DEF SessionInv, Ranges
<1>7. QED
  BY <1>1, <1>2, <1>4, <1>5, <1>6 DEF SessionInv

LEMMA StutterKeeps ==
  ASSUME SessionInv, UNCHANGED vars
  PROVE  SessionInv'
<1>1. /\ self' = self /\ made' = made /\ known' = known /\ clashed' = clashed
      /\ refused' = refused /\ reply' = reply /\ running' = running
  BY DEF vars
<1>2. SoundContext(self, refused, clashed) /\ ToldTo(known, self, refused) /\ Ranges
      /\ RepliesAreTrue
  BY DEF SessionInv
<1>3. RepliesAreTrue'
  BY <1>1, <1>2 DEF RepliesAreTrue
<1>4. Ranges'
  BY <1>1, <1>2 DEF Ranges
<1>5. QED
  BY <1>1, <1>2, <1>3, <1>4 DEF SessionInv

\* The UPF starts with every slot in the pool and an empty table.
LEMMA InitSound ==
  ASSUME Init
  PROVE  SessionInv
<1>1. PICK pool, v, ht, rule : /\ pool = SetToSeq(Slots) /\ ht = HashMake
                               /\ v = [s \in Slots |-> [hashKey |-> Null, node |-> Null,
                                                        smfSeid |-> 0]]
                               /\ rule = [r \in Rules |-> Null]
  OBVIOUS
<1>2. /\ self = [pool |-> pool, session |-> v, sessionHash |-> ht, rule |-> rule, kernel |-> {}]
      /\ made = 0 /\ known = {} /\ clashed = {} /\ refused = {}
      /\ reply = Null /\ running = TRUE
  BY Zenon, <1>1 DEF Init
<1>3. PICK c : c = self
  OBVIOUS
<1>4. /\ c.pool = pool /\ c.session = v /\ c.sessionHash = ht /\ c.rule = rule /\ c.kernel = {}
  BY <1>2, <1>3
<1>5. pool \in Seq(Slots) /\ IsInjective(pool) /\ ToSet(pool) = Slots
  BY <1>1, UpfSessionAssumption, SetAsSeq
<1>6. Held(c) = {}
  BY <1>4, <1>5 DEF Held
<1>7. /\ Consistent(ht, KeyAt(c)) /\ EntrySet(ht) = {} /\ ht \in Tables
  <2>1. PICK at : at = KeyAt(c)
    OBVIOUS
  <2>2. Consistent(HashMake, at) /\ EntrySet(HashMake) = {}
    BY HashMakeConsistent
  <2>3. QED
    BY <1>1, <2>1, <2>2 DEF Consistent
<1>8. TableHolds(c)
  BY <1>4, <1>7 DEF TableHolds
<1>9. c \in Contexts
  <2>1. v \in [Slots -> Session]
    <3>1. 0 \in 0 .. MaxSessions
      BY UpfSessionAssumption
    <3>2. [hashKey |-> Null, node |-> Null, smfSeid |-> 0] \in Session
      BY <3>1 DEF Session
    <3>3. QED
      BY <1>1, <3>2
  <2>2. rule \in [Rules -> Slots \cup {Null}]
    BY <1>1
  <2>3. c = [pool |-> c.pool, session |-> c.session, sessionHash |-> c.sessionHash,
             rule |-> c.rule, kernel |-> c.kernel]
    BY <1>2, <1>3, <1>4
  <2>4. c.kernel \in SUBSET Rules
    BY <1>4
  <2>5. QED
    BY <1>4, <1>5, <1>7, <2>1, <2>2, <2>3, <2>4, ContextOf
<1>10. /\ HeldHaveKeys(c, {}, {}) /\ BarredAreHeld(c, {}) /\ RulesOwned(c)
  <2>1. \A r \in Rules : c.rule[r] = Null
    BY <1>1, <1>4
  <2>2. QED
    BY <1>6, <2>1 DEF HeldHaveKeys, BarredAreHeld, RulesOwned
<1>11. SoundContext(c, {}, {})
  BY <1>4, <1>5, <1>8, <1>9, <1>10 DEF SoundContext
<1>12. SoundContext(self, refused, clashed)
  BY <1>2, <1>3, <1>11
<1>13. ToldTo(known, self, refused)
  BY <1>2 DEF ToldTo
<1>14. Ranges
  BY <1>2, UpfSessionAssumption DEF Ranges
<1>15. RepliesAreTrue
  BY <1>2 DEF RepliesAreTrue
<1>16. QED
  BY <1>12, <1>13, <1>14, <1>15 DEF SessionInv

LEMMA NextKeeps ==
  ASSUME SessionInv, [Next]_vars
  PROVE  SessionInv'
<1>1. ASSUME NEW n \in Nodes, SessionEstablishment(n) PROVE SessionInv'
  BY <1>1, EstablishmentKeeps
<1>2. ASSUME NEW n \in Nodes, AssociationReleaseRequest(n) PROVE SessionInv'
  BY <1>2, ReleaseRequestKeeps
<1>3. ASSUME NEW n \in Nodes, AssociationReleaseResponse(n) PROVE SessionInv'
  BY <1>3, ReleaseResponseKeeps
<1>4. ASSUME NEW k \in known, SessionModification(k) PROVE SessionInv'
  BY <1>4, ModificationKeeps
<1>5. ASSUME NEW k \in known, SessionDeletion(k) PROVE SessionInv'
  BY <1>5, DeletionKeeps
<1>6. CASE SessionPdnTypeRefused
  BY <1>6, PdnRefusalKeeps
<1>7. CASE UpfSessionRemoveAll
  BY <1>7, TerminationKeeps
<1>8. CASE UNCHANGED vars
  BY <1>8, StutterKeeps
<1>9. QED
  BY <1>1, <1>2, <1>3, <1>4, <1>5, <1>6, <1>7, <1>8 DEF Next

(***************************************************************************)
(* The invariant: in the context of the handlers the table is consistent   *)
(* and lists held sessions under keys they have, a held session is listed  *)
(* unless its key was shared or its PDN type refused, a rule's owner is    *)
(* held and the kernel has the rule; the peers know held sessions only, by *)
(* their numbers; and the last response is true.  Every message keeps all  *)
(* of it, whichever layer below fails.                                     *)
(***************************************************************************)
THEOREM SessionsSound == Spec => []SessionInv
<1>1. Init => SessionInv
  BY InitSound
<1>2. SessionInv /\ [Next]_vars => SessionInv'
  BY NextKeeps
<1>3. QED
  BY <1>1, <1>2, PTL DEF Spec

LEMMA InvAllocated ==
  ASSUME SessionInv
  PROVE  /\ SoundContext(self, refused, clashed) /\ Allocated = Held(self)
         /\ refused \in SUBSET Slots
  BY DEF SessionInv, Ranges, Allocated, Held

\* No slot is in the pool twice, so the pool never outgrows its slots.
LEMMA InvTyped ==
  ASSUME SessionInv
  PROVE  TypeOK
<1>1. PICK c : c = self
  OBVIOUS
<1>2. c \in Contexts /\ IsInjective(c.pool)
  BY <1>1, InvAllocated DEF SoundContext
<1>3. c.pool \in Seq(Slots) /\ Len(c.pool) <= Cardinality(Slots)
  <2>1. c.pool \in Seq(Slots) /\ IsFiniteSet(Slots)
    BY <1>2, ContextFields, UpfSessionAssumption
  <2>2. Cardinality(ToSet(c.pool)) = Len(c.pool)
    BY <1>2, <2>1, InjectiveLength
  <2>3. ToSet(c.pool) \in SUBSET Slots
    BY <2>1, SeqAsSet, ElementOfSeq
  <2>4. Cardinality(ToSet(c.pool)) <= Cardinality(Slots)
    BY <2>1, <2>3, FS_Subset
  <2>5. QED
    BY <2>1, <2>2, <2>4
<1>4. /\ c.session \in [Slots -> [hashKey : Keys \cup {Null}, node : Nodes \cup {Null},
                                  smfSeid : 0 .. MaxSessions]]
      /\ c.rule \in [Rules -> Slots \cup {Null}] /\ c.kernel \subseteq Rules
  BY <1>2, ContextFields DEF Session
<1>5. /\ made \in 0 .. MaxSessions /\ clashed \subseteq Keys /\ refused \subseteq Slots
      /\ running \in BOOLEAN
  BY DEF SessionInv, Ranges
<1>6. known \subseteq [node : Nodes, slot : Slots, number : Numbers]
  BY DEF SessionInv, ToldTo
<1>7. QED
  BY Zenon, <1>1, <1>3, <1>4, <1>5, <1>6 DEF TypeOK

(***************************************************************************)
(* The table keeps its chains, its growth and its count in order through   *)
(* every sequence of messages, its entries point to the keys of allocated  *)
(* sessions, and no slot is freed twice.                                   *)
(***************************************************************************)
THEOREM TableSoundHolds == Spec => []TableSound
<1>1. SessionInv => TableSound
  <2> SUFFICES ASSUME SessionInv PROVE TableSound
    OBVIOUS
  <2>1. PICK ht, at : ht = self.sessionHash /\ at = KeyAt(self)
    OBVIOUS
  <2>2. TableHolds(self) /\ Consistent(ht, at)
    BY <2>1, InvAllocated DEF SoundContext, TableHolds
  <2>3. HashSound(ht, at) /\ ToSet(Entries(ht)) = EntrySet(ht)
    BY <2>2, ConsistentIsSound, ConsistentEntries
  <2>4. KeysOfTheLiving
    BY <2>1, <2>2, <2>3, InvAllocated DEF TableHolds, KeysOfTheLiving
  <2>5. QED
    BY <2>1, <2>3, <2>4, InvTyped DEF TableSound
<1>2. QED
  BY <1>1, SessionsSound, PTL

(***************************************************************************)
(* An allocated session is the one HashGet gives for its key, unless the   *)
(* key was shared meanwhile or its PDN type was refused.                   *)
(***************************************************************************)
THEOREM ListedHolds == Spec => []ListedUnlessClash
<1>1. SessionInv => ListedUnlessClash
  <2> SUFFICES ASSUME SessionInv, NEW s \in Allocated \ refused,
                      self.session[s].hashKey \notin clashed
               PROVE  HashGet(self.sessionHash, KeyAt(self), self.session[s].hashKey, Null) = s
    BY DEF ListedUnlessClash
  <2>1. PICK ht, at : ht = self.sessionHash /\ at = KeyAt(self)
    OBVIOUS
  <2>2. TableHolds(self) /\ HeldHaveKeys(self, refused, clashed) /\ s \in Held(self)
    BY InvAllocated DEF SoundContext
  <2>3. PICK e \in EntrySet(ht) : e.val = s
    BY <2>1, <2>2 DEF HeldHaveKeys
  <2>4. self.session[e.key].hashKey = self.session[s].hashKey /\ e.key \in Slots
    BY <2>1, <2>2, <2>3 DEF TableHolds, Held
  <2>5. at[e.key] = self.session[s].hashKey /\ at[e.key] \in Keys
    BY <2>1, <2>2, <2>4, KeyAtIs DEF HeldHaveKeys
  <2>6. HashGet(ht, at, at[e.key], Null) = e.val
    <3>1. Consistent(ht, at)
      BY <2>1, <2>2 DEF TableHolds
    <3>2. QED
      BY <2>5, <3>1, HashGetIs
  <2>7. QED
    BY <2>1, <2>3, <2>5, <2>6
<1>2. QED
  BY <1>1, SessionsSound, PTL

(***************************************************************************)
(* A rule in the UPF's tables belongs to an allocated session and is in    *)
(* the kernel, whatever request touched it and whatever failed.            *)
(***************************************************************************)
THEOREM OwnersHold == Spec => []RulesHaveOwners
<1>1. SessionInv => RulesHaveOwners
  BY InvAllocated DEF SoundContext, RulesOwned, RulesHaveOwners
<1>2. QED
  BY <1>1, SessionsSound, PTL

(***************************************************************************)
(* A SEID a peer holds names the slot of the session it was given for, and *)
(* the slot is allocated.                                                  *)
(***************************************************************************)
THEOREM SeidsHold == Spec => []SeidsAreCurrent
<1>1. SessionInv => SeidsAreCurrent
  BY InvAllocated DEF SessionInv, ToldTo, SeidsAreCurrent
<1>2. QED
  BY <1>1, SessionsSound, PTL

(***************************************************************************)
(* A response has the SEID of the session that was asked for, and an       *)
(* accepted request has created and removed every rule it was to, in the   *)
(* UPF and in the kernel.                                                  *)
(***************************************************************************)
THEOREM RepliesHold == Spec => []RepliesAreTrue
<1>1. SessionInv => RepliesAreTrue
  BY DEF SessionInv
<1>2. QED
  BY <1>1, SessionsSound, PTL

\* What the loop over the table leaves behind.
LEMMA LoopClears ==
  ASSUME SessionInv, NEW nodes, NEW stuck, NEW c, c = RemoveListed(self, nodes, stuck),
         NEW s \in Held(c) \ refused, c.session[s].node \in nodes
  PROVE  c.session[s].hashKey \in clashed
<1>1. /\ SoundContext(self, refused, clashed) /\ HeldHaveKeys(self, refused, clashed)
  BY InvAllocated DEF SoundContext
<1>2. /\ c.session = self.session /\ Held(c) \subseteq Held(self)
      /\ \A e \in EntrySet(self.sessionHash) :
           self.session[e.val].node \in nodes => e.val \notin Held(c)
  BY <1>1, ReleaseKeeps
<1>3. \A e \in EntrySet(self.sessionHash) : e.val # s
  BY <1>2
<1>4. QED
  BY <1>1, <1>2, <1>3 DEF HeldHaveKeys

(***************************************************************************)
(* The loop of association release and of termination, which removes       *)
(* sessions from the table it iterates over, skips none: what is left of   *)
(* the peers' sessions are those with a shared key or a refused PDN type.  *)
(***************************************************************************)
THEOREM ReleaseClearsHolds == Spec => ReleaseClears
<1>1. ASSUME SessionInv, NEW nodes, \E stuck : self' = RemoveListed(self, nodes, stuck)
      PROVE  \A s \in Allocated' \ refused :
               self'.session[s].node \in nodes => self'.session[s].hashKey \in clashed
  <2>1. Allocated' = Held(self')
    BY DEF Allocated, Held
  <2>2. QED
    BY <1>1, <2>1, LoopClears
<1>2. ASSUME SessionInv, NEW n \in Nodes, AssociationReleaseResponse(n)
      PROVE  \A s \in Allocated' \ refused :
               self'.session[s].node \in {n} => self'.session[s].hashKey \in clashed
  <2>1. \E stuck : self' = RemoveListed(self, {n}, stuck)
    BY <1>2 DEF AssociationReleaseResponse
  <2>2. QED
    BY <1>1, <1>2, <2>1
<1>3. ASSUME SessionInv, UpfSessionRemoveAll
      PROVE  \A s \in Allocated' \ refused :
               self'.session[s].node \in Nodes => self'.session[s].hashKey \in clashed
  <2>1. \E stuck : self' = RemoveListed(self, Nodes, stuck)
    BY <1>3 DEF UpfSessionRemoveAll
  <2>2. QED
    BY <1>1, <1>3, <2>1
<1>4. SessionInv =>
        LET Cleared(nodes) == \A s \in Allocated' \ refused :
              self'.session[s].node \in nodes => self'.session[s].hashKey \in clashed
        IN /\ \A n \in Nodes : AssociationReleaseResponse(n) => Cleared({n})
           /\ UpfSessionRemoveAll => Cleared(Nodes)
  BY <1>2, <1>3
<1>5. QED
  BY <1>4, SessionsSound, PTL DEF ReleaseClears
=============================================================================

-------------------------------- MODULE Hash --------------------------------
(***************************************************************************)
(* The chained hash table of lib/utlt (utlt_hash.c), as operators on a     *)
(* record with the members of struct _Hash that matter: the array of       *)
(* chains, max and count.                                                  *)
(*                                                                         *)
(* An entry does not hold its key but a pointer to it, kept in an object   *)
(* of the caller.  `at' maps such pointers to the keys found there at the  *)
(* moment, so that a key that changes or is freed under the table shows.   *)
(***************************************************************************)
EXTENDS Integers, Sequences, SequencesExt

CONSTANTS InitialMax,  \* the array has InitialMax + 1 chains at first: 2^n - 1
          HashValues   \* keys are naturals and hash to their remainder by this

ASSUME HashAssumption == InitialMax \in Nat /\ HashValues \in Nat \ {0}

HashfuncDefault(key) == key % HashValues

AllocArray(max) == [i \in 0 .. max |-> << >>]

HashMake == [array |-> AllocArray(InitialMax), count |-> 0, max |-> InitialMax]

\* hash & max, for a max of the form 2^n - 1.
Chain(hash, max) == hash % (max + 1)

\* HashFirst and HashNext: the entries in the order an iteration meets them.
\* HashNext reads the successor of an entry before its caller sees the entry,
\* so the caller may delete the entry it is at.
Entries(ht) == FlattenSeq([i \in 1 .. ht.max + 1 |-> ht.array[i - 1]])

(* Slip: the old position is kept: the mask is applied before max changes. *)
ExpandArray_OldMask(ht) ==
  LET max == 2 * ht.max + 1
      Link(array, he) == [array EXCEPT ![Chain(he.hash, ht.max)] = <<he>> \o @]
  IN [ht EXCEPT !.array = FoldLeft(Link, AllocArray(max), Entries(ht)),
                !.max = max]

\* Every entry is put in front of its chain in the new array.
ExpandArray(ht) ==
  LET max == 2 * ht.max + 1
      Link(array, he) == [array EXCEPT ![Chain(he.hash, max)] = <<he>> \o @]
  IN [ht EXCEPT !.array = FoldLeft(Link, AllocArray(max), Entries(ht)),
                !.max = max]

\* The position of key in its chain, 0 if it is not there.
FindEntry(ht, at, key) ==
  SelectInSeq(ht.array[Chain(HashfuncDefault(key), ht.max)],
              LAMBDA he : he.hash = HashfuncDefault(key) /\ at[he.key] = key)

HashGet(ht, at, key, none) ==
  LET pos == FindEntry(ht, at, key)
  IN IF pos = 0 THEN none
     ELSE ht.array[Chain(HashfuncDefault(key), ht.max)][pos].val

(* Slip: an entry that is there is not recognised and a second one is made. *)
HashSet_AlwaysAdds(ht, at, ptr, val) ==
  LET hash == HashfuncDefault(at[ptr])
  IN [ht EXCEPT !.array[Chain(hash, ht.max)] =
                  Append(@, [hash |-> hash, key |-> ptr, val |-> val]),
                !.count = @ + 1]

\* HashSet with a value.  An entry that is there gets the new value and keeps
\* its old key pointer; a new one goes to the end of its chain.
HashSet(ht, at, ptr, val) ==
  LET hash == HashfuncDefault(at[ptr])
      i == Chain(hash, ht.max)
      pos == FindEntry(ht, at, at[ptr])
      set == IF pos = 0
             THEN [ht EXCEPT !.array[i] =
                               Append(@, [hash |-> hash, key |-> ptr, val |-> val]),
                             !.count = @ + 1]
             ELSE [ht EXCEPT !.array[i][pos].val = val]
  IN IF set.count > set.max THEN ExpandArray(set) ELSE set

\* HashSet with NULL: deletes the entry, if there is one.
HashDelete(ht, at, ptr) ==
  LET i == Chain(HashfuncDefault(at[ptr]), ht.max)
      pos == FindEntry(ht, at, at[ptr])
  IN IF pos = 0 THEN ht
     ELSE [ht EXCEPT !.array[i] = RemoveAt(@, pos), !.count = @ - 1]

(***************************************************************************)
(* What a table promises: an entry stands in the chain that a search for   *)
(* the key its pointer now leads to would walk, no key has two entries,    *)
(* and count, which decides when the array grows, counts the entries.      *)
(***************************************************************************)
HashSound(ht, at) ==
  LET es == Entries(ht)
  IN /\ ht.count = Len(es)
     /\ \A i \in 0 .. ht.max : \A j \in DOMAIN ht.array[i] :
          LET he == ht.array[i][j]
          IN he.hash = HashfuncDefault(at[he.key]) /\ i = Chain(he.hash, ht.max)
     /\ \A i, j \in DOMAIN es : at[es[i].key] = at[es[j].key] => i = j
=============================================================================

----------------------------- MODULE LinkedList -----------------------------
(***************************************************************************)
(* The intrusive doubly linked lists of lib/utlt/include/utlt_list.h, at    *)
(* the level of their pointers: a heap is a record of two functions, next  *)
(* and prev, over the nodes (the list heads and the structures that begin  *)
(* with a ListHead).  A node may be overwritten or linked twice, as the C  *)
(* macros allow.                                                           *)
(***************************************************************************)
EXTENDS Naturals, Sequences, FiniteSets

CONSTANTS Node,   \* every list head and every structure that can be linked
          NULL    \* not in Node, which is finite

Pointer == Node \cup {NULL}
Heap == [next : [Node -> Pointer], prev : [Node -> Pointer]]

(* Memory set to zero. *)
ZeroNode(h, n) == [h EXCEPT !.next[n] = NULL, !.prev[n] = NULL]

ListHeadInit(h, n) == [h EXCEPT !.next[n] = n, !.prev[n] = n]

(* Slip: the successor's prev is not set. *)
InsertBetween_OneWay(h, new, before, after) ==
  [h EXCEPT !.next = [@ EXCEPT ![new] = after, ![before] = new], !.prev[new] = before]

(* __ListInsert: its four assignments, in their order. *)
InsertBetween(h, new, before, after) ==
  LET h1 == [h EXCEPT !.prev[after] = new]
      h2 == [h1 EXCEPT !.next[new] = after]
      h3 == [h2 EXCEPT !.prev[new] = before]
  IN  [h3 EXCEPT !.next[before] = new]

ListInsert(h, new, at) == InsertBetween(h, new, at, h.next[at])

(* ListRemove: unlink, then link the node to itself. *)
ListRemove(h, n) ==
  LET h1 == [h EXCEPT !.prev[h.next[n]] = h.prev[n]]
      h2 == [h1 EXCEPT !.next[h1.prev[n]] = h1.next[n]]
  IN  ListHeadInit(h2, n)

(***************************************************************************)
(* ListForEachSafe from a head: the k-th node it looks at, until it meets  *)
(* the head again.  Every walk that ends does so within Cardinality(Node)  *)
(* steps; one that has not met the head by then is in a cycle without it.  *)
(***************************************************************************)
Visit(h, head) ==
  LET at[k \in Nat] == IF k = 0 THEN h.next[head]
                       ELSE LET n == at[k - 1]
                            IN  IF n \in {head, NULL} THEN n ELSE h.next[n]
  IN  at

Steps == 0 .. Cardinality(Node)

WalkEnds(h, head) == \E k \in Steps : Visit(h, head)[k] = head

Members(h, head) == {Visit(h, head)[k] : k \in Steps} \ {head, NULL}

(* The nodes a walk along next (or, of the mirrored heap, along prev)      *)
(* passes before it is back at the head.                                   *)
WalkOf(h, head) ==
  LET at  == Visit(h, head)
      len == CHOOSE k \in Steps : at[k] = head /\ \A j \in 0 .. k - 1 : at[j] # head
  IN  [i \in 1 .. len |-> at[i - 1]]

Mirror(h) == [next |-> h.prev, prev |-> h.next]

(* The callback of ListInsertSorted returns less than 0. *)
StopsBefore(key, new, n) == key[new] < key[n]

(***************************************************************************)
(* ListInsertSorted: iter moves on until its successor is the head or goes *)
(* behind the new node; the new node is inserted after iter.               *)
(***************************************************************************)
ListInsertSorted(h, new, head, key) ==
  LET at    == Visit(h, head)
      stops == {k \in Steps : at[k] = head \/ StopsBefore(key, new, at[k])}
      k     == CHOOSE k \in stops : \A j \in stops : k <= j
      iter  == IF k = 0 THEN head ELSE at[k - 1]
  IN  ListInsert(h, new, iter)
=============================================================================

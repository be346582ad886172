-------------------------------- MODULE Pool --------------------------------
(***************************************************************************)
(* The fixed-capacity allocators of lib/utlt: utlt_pool.h (PoolAlloc,      *)
(* PoolFree) and utlt_index.h, which adds an "index" member to every       *)
(* object and finds objects by it.  Free slots are kept in a ring of       *)
(* Cap + 1 entries between qFront and qEnd.  Every operation runs under    *)
(* the pool's mutex, so it is one step.                                    *)
(*                                                                         *)
(* A pointer to pool[i] is modelled by the number i.                       *)
(***************************************************************************)
EXTENDS Integers

CONSTANTS Cap,   \* __cap, the number of objects
          NULL   \* the null pointer

ASSUME CapAssumption == Cap \in Nat \ {0}
ASSUME NullAssumption == NULL \notin 0 .. Cap - 1

VARIABLES qFront, qEnd,   \* where the next slot is taken and given back
          queueAvail,     \* the ring of pointers to free objects
          arrayForIndex,  \* the ring of those objects' indices
          index,          \* the "index" member of every object
          assigned        \* __assignedPtr of the last IndexAlloc

vars == <<qFront, qEnd, queueAvail, arrayForIndex, index, assigned>>

Slot == 0 .. Cap - 1
Ring == 0 .. Cap

(* Slip: the cursor wraps one entry early, as if the ring had Cap entries. *)
Succ_WrapsEarly(pos) == (pos + 1) % Cap

(* (pos + 1) % (qCap + 1), the step both cursors take. *)
Succ(pos) == (pos + 1) % (Cap + 1)

(* PoolSize, IndexSize: the number of free slots. *)
IndexSize == (qEnd + Cap + 1 - qFront) % (Cap + 1)

(* IndexInit.  The last ring entry is not written; the objects are static  *)
(* storage, so every index member starts as 0.                             *)
IndexInit ==
  /\ qFront = 0
  /\ qEnd = Cap
  /\ queueAvail = [i \in Ring |-> IF i < Cap THEN i ELSE NULL]
  /\ arrayForIndex = [i \in Ring |-> IF i < Cap THEN i ELSE 0]
  /\ index = [s \in Slot |-> 0]
  /\ assigned = NULL

IndexAlloc ==
  /\ IF IndexSize > 0
     THEN /\ assigned' = queueAvail[qFront]
          /\ index' = [index EXCEPT ![queueAvail[qFront]] = arrayForIndex[qFront]]
          /\ qFront' = Succ(qFront)
     ELSE /\ assigned' = NULL
          /\ UNCHANGED <<index, qFront>>
  /\ UNCHANGED <<qEnd, queueAvail, arrayForIndex>>

(* Slip: the object's index is not carried along when it is given back. *)
IndexFree_KeepsIndex(s) ==
  /\ IF IndexSize < Cap
     THEN /\ queueAvail' = [queueAvail EXCEPT ![qEnd] = s]
          /\ qEnd' = Succ(qEnd)
     ELSE UNCHANGED <<queueAvail, qEnd>>
  /\ UNCHANGED <<qFront, index, assigned, arrayForIndex>>

(* IndexFree does not ask whether s is allocated. *)
IndexFree(s) ==
  /\ IF IndexSize < Cap
     THEN /\ queueAvail' = [queueAvail EXCEPT ![qEnd] = s]
          /\ arrayForIndex' = [arrayForIndex EXCEPT ![qEnd] = index[s]]
          /\ qEnd' = Succ(qEnd)
     ELSE UNCHANGED <<queueAvail, arrayForIndex, qEnd>>
  /\ UNCHANGED <<qFront, index, assigned>>

Next == IndexAlloc \/ \E s \in Slot : IndexFree(s)

Spec == IndexInit /\ [][Next]_vars

-----------------------------------------------------------------------------
(* The position of the k-th free slot, and the free slots, oldest first. *)
Entry(k) == (qFront + k - 1) % (Cap + 1)
Avail == [k \in 1 .. IndexSize |-> queueAvail[Entry(k)]]

(***************************************************************************)
(* Both cursors stay inside the ring and every entry between them points   *)
(* to an object of the pool, whatever callers free: IndexAlloc never hands *)
(* out the unwritten entry.                                                *)
(***************************************************************************)
TypeOK ==
  /\ qFront \in Ring
  /\ qEnd \in Ring
  /\ queueAvail \in [Ring -> Slot \cup {NULL}]
  /\ arrayForIndex \in [Ring -> Slot]
  /\ index \in [Slot -> Slot]
  /\ assigned \in Slot \cup {NULL}
  /\ \A k \in 1 .. IndexSize : queueAvail[Entry(k)] \in Slot

Queue == INSTANCE FreeQueue WITH avail <- Avail

(***************************************************************************)
(* The ring is a bounded first-in first-out queue of slots under every     *)
(* sequence of allocations and frees, the wrap of both cursors and frees   *)
(* of slots that are already free included.                                *)
(***************************************************************************)
ImplementsFreeQueue == Queue!Spec
=============================================================================

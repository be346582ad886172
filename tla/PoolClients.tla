----------------------------- MODULE PoolClients -----------------------------
(***************************************************************************)
(* Threads that use one pool the way the headers ask: a thread frees only  *)
(* an object it holds, once, and never changes its index member            *)
(* ("Do not modify the variable named "index" after call function          *)
(* IndexAlloc", utlt_index.h).                                             *)
(***************************************************************************)
EXTENDS Pool, FiniteSets

CONSTANT Thread

ASSUME ThreadAssumption == IsFiniteSet(Thread)

VARIABLE held   \* the objects each thread holds

clientVars == <<vars, held>>

ClientInit == IndexInit /\ held = [t \in Thread |-> {}]

(* A thread allocates; a null result leaves it with what it had. *)
Acquire(t) ==
  /\ IndexAlloc
  /\ held' = [held EXCEPT ![t] = @ \cup ({assigned'} \ {NULL})]

(* A thread gives back an object it holds. *)
Release(t, s) ==
  /\ s \in held[t]
  /\ IndexFree(s)
  /\ held' = [held EXCEPT ![t] = @ \ {s}]

ClientNext == \E t \in Thread : Acquire(t) \/ \E s \in held[t] : Release(t, s)

ClientSpec == ClientInit /\ [][ClientNext]_clientVars

-----------------------------------------------------------------------------
Held == UNION {held[t] : t \in Thread}

(***************************************************************************)
(* Every object is in exactly one place: held by one thread, or in one     *)
(* entry of the ring between the cursors.  So no allocation hands out an   *)
(* object in use (IndexAlloc), and none is lost by IndexFree's refusal     *)
(* "it may not belong to this pool".                                       *)
(***************************************************************************)
EachSlotInOnePlace ==
  /\ \A t, u \in Thread : t # u => held[t] \cap held[u] = {}
  /\ \A j, k \in 1 .. IndexSize : Avail[j] = Avail[k] => j = k
  /\ \A k \in 1 .. IndexSize : Avail[k] \notin Held
  /\ Cardinality(Held) + IndexSize = Cap

(***************************************************************************)
(* IndexFind on the index of an object in use returns that object: what    *)
(* UpfSessionFindBySeid and PfcpXactTimeout rely on to turn a SEID or a    *)
(* timer parameter back into a pointer.                                    *)
(***************************************************************************)
IndexFindsHeld == \A s \in Held : index[s] = s

(***************************************************************************)
(* The inductive invariant of the two properties: the ring also carries    *)
(* the right index next to every free object, which is what makes the      *)
(* index member right again after the memset of IndexAlloc.                *)
(***************************************************************************)
ClientInv ==
  /\ TypeOK
  /\ held \in [Thread -> SUBSET Slot]
  /\ EachSlotInOnePlace
  /\ IndexFindsHeld
  /\ \A k \in 1 .. IndexSize : arrayForIndex[Entry(k)] = queueAvail[Entry(k)]
=============================================================================

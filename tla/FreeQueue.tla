------------------------------ MODULE FreeQueue ------------------------------
(***************************************************************************)
(* What the pools of lib/utlt promise a caller: a bounded first-in         *)
(* first-out queue of free slots.  An allocation takes the slot that has   *)
(* been free for longest and fails only when no slot is queued; a free     *)
(* appends the slot unless as many slots as the pool has are queued.       *)
(* Nothing is said about which slots a caller may free: the headers do not *)
(* check it, so neither does this specification.                           *)
(*                                                                         *)
(* Pool (the ring buffer of utlt_pool.h and utlt_index.h) implements Spec. *)
(* The modules that allocate transactions and timers use Take and Give on  *)
(* queues of their own.                                                    *)
(***************************************************************************)
EXTENDS Naturals, Sequences

CONSTANTS Slot,   \* the slots of the pool
          Cap,    \* how many there are
          NULL    \* the pointer a failed allocation assigns

VARIABLES avail,    \* the free slots, longest free first
          assigned  \* the pointer the last allocation assigned

vars == <<avail, assigned>>

Init == avail \in Seq(Slot) /\ Len(avail) = Cap /\ assigned = NULL

Alloc ==
  IF avail # <<>>
  THEN assigned' = Head(avail) /\ avail' = Tail(avail)
  ELSE assigned' = NULL /\ avail' = avail

Free(s) ==
  /\ avail' = IF Len(avail) < Cap THEN Append(avail, s) ELSE avail
  /\ UNCHANGED assigned

Next == Alloc \/ \E s \in Slot : Free(s)

Spec == Init /\ [][Next]_vars
=============================================================================

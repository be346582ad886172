---------------------------- MODULE TimerPointers ----------------------------
(***************************************************************************)
(* The timer lists once more, as the pointers of utlt_list.h: every        *)
(* operation of utlt_timer.c is carried out on the linked nodes (heap) and *)
(* on the sequences of TimerList (lists), which the other modules use.     *)
(***************************************************************************)
EXTENDS TimerList

CONSTANTS active, idle,  \* the list heads of a TimerList
          Spans, Now     \* durations, and times an operation may happen at

ASSUME TimerPointersAssumption ==
  /\ active # idle /\ active \notin Blk \cup {NULL} /\ idle \notin Blk \cup {NULL}
  /\ Spans \subseteq Nat /\ Now \subseteq Nat

P == INSTANCE LinkedList WITH Node <- Blk \cup {active, idle}

VARIABLES lists, heap

pointerVars == <<lists, heap>>

Key == [b \in Blk |-> lists.blk[b].expireTime]

PointerInit ==
  /\ lists = TimerListInit
  /\ heap = P!ListHeadInit(P!ListHeadInit(
              [next |-> [n \in Blk \cup {active, idle} |-> NULL],
               prev |-> [n \in Blk \cup {active, idle} |-> NULL]], active), idle)

InLists == ToSet(lists.active) \cup ToSet(lists.idle)

(* TimerCreate: memset, then insertion while expireTime is 0. *)
CreateNode(type, duration) ==
  LET tm == TimerAlloc(lists)
  IN  /\ tm # NULL
      /\ lists' = TimerCreate(lists, type, duration, NULL)
      /\ heap' = P!ListInsertSorted(P!ZeroNode(heap, tm), tm, idle, [Key EXCEPT ![tm] = 0])

StartNode(tm, now) ==
  /\ lists' = TimerStart(lists, tm, now)
  /\ heap' = P!ListInsertSorted(P!ListRemove(heap, tm), tm, active, Key')

StopNode(tm) ==
  /\ lists.blk[tm].isRunning
  /\ lists' = TimerStop(lists, tm)
  /\ heap' = P!ListInsertSorted(P!ListRemove(heap, tm), tm, idle, Key)

DeleteNode(tm) ==
  /\ lists' = TimerDelete(lists, tm)
  /\ heap' = P!ListRemove(heap, tm)

(* One turn of the loop of TimerExpireCheck; tm is what ListFirst gives. *)
ExpireNode(now) ==
  LET tm == heap.next[active]
  IN  /\ tm # active
      /\ lists.blk[tm].expireTime < now
      /\ lists' = ExpireHead(lists, now)
      /\ heap' = P!ListInsertSorted(P!ListRemove(heap, tm), tm,
                   IF lists.blk[tm].type = "PERIOD" THEN active ELSE idle, Key')

PointerNext ==
  \/ \E type \in TimerType, duration \in Spans : CreateNode(type, duration)
  \/ \E tm \in InLists, now \in Now : StartNode(tm, now)
  \/ \E tm \in InLists : StopNode(tm) \/ DeleteNode(tm)
  \/ \E now \in Now : ExpireNode(now)

PointerSpec == PointerInit /\ [][PointerNext]_pointerVars

(***************************************************************************)
(* The pointers spell the sequences: along next the two lists have the     *)
(* elements of lists.active and lists.idle in their order, along prev the  *)
(* same backwards, whatever was inserted, moved and removed before.        *)
(***************************************************************************)
PointersSpellLists ==
  /\ P!WalkOf(heap, active) = lists.active
  /\ P!WalkOf(heap, idle) = lists.idle
  /\ P!WalkOf(P!Mirror(heap), active) = Reverse(lists.active)
  /\ P!WalkOf(P!Mirror(heap), idle) = Reverse(lists.idle)
=============================================================================

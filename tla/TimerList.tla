------------------------------ MODULE TimerList ------------------------------
(***************************************************************************)
(* The timer lists of lib/utlt/src/utlt_timer.c as operators on values, for *)
(* the modules that use timers.  A timer list is a record                   *)
(*   active, idle   the two doubly linked lists, first element first;       *)
(*   blk            the members of every TimerBlk of timerPool;             *)
(*   avail          the free queue of timerPool (see FreeQueue).            *)
(* Each operator is the part of its function that runs under the list's     *)
(* lock; curTime is the value the function reads there.                     *)
(***************************************************************************)
EXTENDS Integers, Sequences, FiniteSets, SequencesExt

CONSTANTS Blk,      \* the timer blocks of timerPool, numbered from 1
          TimeMod,  \* one more than the largest uint32_t time
          NULL

ASSUME TimeModAssumption == TimeMod \in Nat \ {0}
ASSUME BlkAssumption ==
  IsFiniteSet(Blk) /\ Blk = 1 .. Cardinality(Blk) /\ NULL \notin Blk

TimerType == {"ONCE", "PERIOD"}

(* Blocks and lists of timers whose param is in Param, or not set yet. *)
TimerBlk(Param) ==
  [type : TimerType, isRunning : BOOLEAN, expireTime : 0 .. TimeMod - 1,
   duration : Nat, param : Param \cup {NULL}]

TimerLists(Param) ==
  [active : Seq(Blk), idle : Seq(Blk), blk : [Blk -> TimerBlk(Param)], avail : Seq(Blk)]

(* A block after memset, as TimerCreate finds it. *)
ZeroBlk == [type |-> "ONCE", isRunning |-> FALSE, expireTime |-> 0,
            duration |-> 0, param |-> NULL]

(* TimerPoolInit and TimerListInit. *)
TimerListInit ==
  [active |-> <<>>, idle |-> <<>>, blk |-> [b \in Blk |-> ZeroBlk],
   avail |-> [i \in 1 .. Cardinality(Blk) |-> i]]

(* ListInsertSorted with TimerCmpFunc: before the first element that       *)
(* expires strictly later.                                                 *)
ListInsertSorted(list, tm, blk) ==
  LET later == {i \in DOMAIN list : blk[tm].expireTime < blk[list[i]].expireTime}
      pos   == IF later = {} THEN Len(list) + 1
               ELSE CHOOSE i \in later : \A j \in later : i <= j
  IN  InsertAt(list, pos, tm)

(* ListRemove unlinks the block from whichever list holds it and links it  *)
(* to itself, so that removing it again does nothing.                      *)
ListRemove(tl, tm) ==
  [tl EXCEPT !.active = RemoveFirst(@, tm), !.idle = RemoveFirst(@, tm)]

(* The block TimerCreate gets from PoolAlloc. *)
TimerAlloc(tl) == IF tl.avail = <<>> THEN NULL ELSE Head(tl.avail)

(* TimerCreate after a successful PoolAlloc, and the TimerSet calls that   *)
(* follow it before the timer is started.                                  *)
TimerTake(tl, tm) ==
  [tl EXCEPT !.avail = Tail(@), !.blk[tm] = ZeroBlk]

TimerLink(tl, tm, type, duration, param) ==
  LET made == [tl EXCEPT !.blk[tm] = [@ EXCEPT !.type = type, !.duration = duration,
                                              !.param = param]]
  IN  [made EXCEPT !.idle = ListInsertSorted(@, tm, tl.blk)]

TimerCreate(tl, type, duration, param) ==
  LET tm == TimerAlloc(tl)
  IN  IF tm = NULL THEN tl
      ELSE TimerLink(TimerTake(tl, tm), tm, type, duration, param)

(* Slip: the time to expire at is the present. *)
TimerStart_NoDuration(tl, tm, curTime) ==
  LET removed == ListRemove(tl, tm)
      armed   == [removed EXCEPT !.blk[tm].expireTime = curTime, !.blk[tm].isRunning = TRUE]
  IN  [armed EXCEPT !.active = ListInsertSorted(@, tm, armed.blk)]

TimerStart(tl, tm, curTime) ==
  LET removed == ListRemove(tl, tm)
      armed   == [removed EXCEPT
                    !.blk[tm].expireTime = (curTime + tl.blk[tm].duration) % TimeMod,
                    !.blk[tm].isRunning = TRUE]
  IN  [armed EXCEPT !.active = ListInsertSorted(@, tm, armed.blk)]

TimerStop(tl, tm) ==
  IF ~tl.blk[tm].isRunning THEN tl
  ELSE LET removed == ListRemove(tl, tm)
       IN  [removed EXCEPT !.idle = ListInsertSorted(@, tm, tl.blk),
                           !.blk[tm].isRunning = FALSE]

(* PoolFree of timerPool: like FreeQueue!Free, it does not ask whether the *)
(* block is allocated.                                                     *)
TimerFree(tl, tm) ==
  IF Len(tl.avail) < Cardinality(Blk) THEN [tl EXCEPT !.avail = Append(@, tm)] ELSE tl

(* TimerDelete leaves isRunning as it was. *)
TimerDelete(tl, tm) == TimerFree(ListRemove(tl, tm), tm)

(* The loop condition of TimerExpireCheck: the first active timer is due.  *)
IsDue(tl, curTime) ==
  /\ tl.active # <<>>
  /\ tl.blk[Head(tl.active)].expireTime < curTime

(* One turn of that loop, after expireFunc. *)
ExpireHead(tl, curTime) ==
  LET tm      == Head(tl.active)
      removed == ListRemove(tl, tm)
      armed   == [removed EXCEPT !.blk[tm].expireTime =
                                    (curTime + tl.blk[tm].duration) % TimeMod]
  IN  IF ~tl.blk[tm].isRunning THEN tl
      ELSE IF tl.blk[tm].type = "PERIOD"
           THEN [armed EXCEPT !.active = ListInsertSorted(@, tm, armed.blk)]
           ELSE [removed EXCEPT !.idle = ListInsertSorted(@, tm, tl.blk),
                                !.blk[tm].isRunning = FALSE]
=============================================================================

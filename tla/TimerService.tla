---------------------------- MODULE TimerService ----------------------------
(***************************************************************************)
(* The timer list shared by the UPF's threads.  The packet receiver thread *)
(* runs TimerExpireCheck after every epoll wait; the main thread creates,  *)
(* starts, stops and deletes timers and receives from the event queue the  *)
(* events that expired timers send.  Whatever needs the list's lock is a   *)
(* step of its own: TimerCreate takes its block before it locks and        *)
(* TimerDelete gives it back after it unlocks, so both take two steps.     *)
(*                                                                         *)
(* The event queue is the non-blocking POSIX queue of utlt_mq.c: a send to *)
(* a full queue returns STATUS_EAGAIN and the event is lost.               *)
(***************************************************************************)
EXTENDS TimerList

CONSTANTS Durations,  \* durations a timer may be created with
          QCap,       \* how many events the queue holds
          MaxTime     \* bound on the clock

ASSUME TimerServiceAssumption ==
  Durations \subseteq Nat /\ QCap \in Nat /\ MaxTime \in Nat

VARIABLES tl,         \* the timer list and its pool (TimerList)
          ids,        \* the timers the main thread has created
          pending,    \* the half-done TimerCreate or TimerDelete, or NULL
          clock,      \* milliseconds since the epoch, not truncated
          lock,       \* who holds tmList->lock between steps
          passClock,  \* the clock when the running TimerExpireCheck read it
          eventQ,     \* the events sent and not yet received
          startedAt,  \* history: when each timer was last armed
          fired       \* history: how often it expired since TimerStart

vars == <<tl, ids, pending, clock, lock, passClock, eventQ, startedAt, fired>>
history == <<startedAt, fired>>

(* TimeMsec(TimeNow()) stored in a uint32_t. *)
CurTime == clock % TimeMod
PassTime == passClock % TimeMod

Init ==
  /\ tl = TimerListInit
  /\ ids = {}
  /\ pending = NULL
  /\ clock = 0
  /\ lock = "free"
  /\ passClock = 0
  /\ eventQ = <<>>
  /\ startedAt = [b \in Blk |-> 0]
  /\ fired = [b \in Blk |-> 0]

-----------------------------------------------------------------------------
(* The main thread. *)

MainIsReady == pending = NULL

(* TimerCreate up to its lock: PoolAlloc and memset. *)
CreateTake(type, duration) ==
  /\ MainIsReady
  /\ TimerAlloc(tl) # NULL
  /\ tl' = TimerTake(tl, TimerAlloc(tl))
  /\ pending' = [op |-> "create", tm |-> TimerAlloc(tl), type |-> type, duration |-> duration]
  /\ UNCHANGED <<ids, clock, lock, passClock, eventQ, history>>

CreateLink ==
  /\ pending # NULL /\ pending.op = "create"
  /\ lock = "free"
  /\ tl' = TimerLink(tl, pending.tm, pending.type, pending.duration, pending.tm)
  /\ ids' = ids \cup {pending.tm}
  /\ pending' = NULL
  /\ UNCHANGED <<clock, lock, passClock, eventQ, history>>

Start(tm) ==
  /\ MainIsReady
  /\ lock = "free"
  /\ tl' = TimerStart(tl, tm, CurTime)
  /\ startedAt' = [startedAt EXCEPT ![tm] = clock]
  /\ fired' = [fired EXCEPT ![tm] = 0]
  /\ UNCHANGED <<ids, pending, clock, lock, passClock, eventQ>>

Stop(tm) ==
  /\ MainIsReady
  /\ lock = "free"
  /\ tl' = TimerStop(tl, tm)
  /\ startedAt' = [startedAt EXCEPT ![tm] = 0]
  /\ UNCHANGED <<ids, pending, clock, lock, passClock, eventQ, fired>>

(* Slip: TimerDelete gives the block back without unlinking it. *)
DeleteUnlink_NoUnlink(tm) ==
  /\ MainIsReady
  /\ lock = "free"
  /\ ids' = ids \ {tm}
  /\ pending' = [op |-> "delete", tm |-> tm, type |-> "ONCE", duration |-> 0]
  /\ UNCHANGED <<tl, clock, lock, passClock, eventQ, history>>

(* TimerDelete under the lock, and its PoolFree after the unlock. *)
DeleteUnlink(tm) ==
  /\ MainIsReady
  /\ lock = "free"
  /\ tl' = ListRemove(tl, tm)
  /\ ids' = ids \ {tm}
  /\ pending' = [op |-> "delete", tm |-> tm, type |-> "ONCE", duration |-> 0]
  /\ startedAt' = [startedAt EXCEPT ![tm] = 0]
  /\ fired' = [fired EXCEPT ![tm] = 0]
  /\ UNCHANGED <<clock, lock, passClock, eventQ>>

DeleteFree ==
  /\ pending # NULL /\ pending.op = "delete"
  /\ tl' = TimerFree(tl, pending.tm)
  /\ pending' = NULL
  /\ UNCHANGED <<ids, clock, lock, passClock, eventQ, history>>

(* EventRecv in eventConsumer; the handler's own timer calls are the       *)
(* actions above.                                                          *)
EventRecv ==
  /\ MainIsReady
  /\ eventQ # <<>>
  /\ eventQ' = Tail(eventQ)
  /\ UNCHANGED <<tl, ids, pending, clock, lock, passClock, history>>

-----------------------------------------------------------------------------
(* The packet receiver thread: TimerExpireCheck, with the lock held from   *)
(* ExpireBegin to ExpireEnd.                                               *)

(* Slip: no pass while the queue is full. *)
ExpireBegin_WhenRoom ==
  /\ lock = "free"
  /\ Len(eventQ) < QCap
  /\ lock' = "receiver"
  /\ passClock' = clock
  /\ UNCHANGED <<tl, ids, pending, clock, eventQ, history>>

ExpireBegin ==
  /\ lock = "free"
  /\ lock' = "receiver"
  /\ passClock' = clock
  /\ UNCHANGED <<tl, ids, pending, clock, eventQ, history>>

(* EventSend on a queue that may be full. *)
EventSend(event) == IF Len(eventQ) < QCap THEN Append(eventQ, event) ELSE eventQ

(* Slip: a timer that expired once stays in the active list. *)
ExpireOne_StaysActive ==
  /\ lock = "receiver"
  /\ IsDue(tl, PassTime)
  /\ LET tm == Head(tl.active)
     IN  /\ eventQ' = EventSend(tl.blk[tm].param)
         /\ fired' = [fired EXCEPT ![tm] = IF @ < 2 THEN @ + 1 ELSE @]
         /\ startedAt' = [startedAt EXCEPT ![tm] = IF tl.blk[tm].type = "PERIOD"
                                                   THEN passClock ELSE 0]
         /\ tl' = [tl EXCEPT !.blk[tm].expireTime = PassTime]
  /\ UNCHANGED <<ids, pending, clock, lock, passClock>>

(* One turn of the loop: EventTimerExpire sends the timer's event, then    *)
(* the timer is armed again or becomes idle.                               *)
ExpireOne ==
  /\ lock = "receiver"
  /\ IsDue(tl, PassTime)
  /\ LET tm == Head(tl.active)
     IN  /\ eventQ' = EventSend(tl.blk[tm].param)
         /\ fired' = [fired EXCEPT ![tm] = IF @ < 2 THEN @ + 1 ELSE @]
         /\ startedAt' = [startedAt EXCEPT ![tm] = IF tl.blk[tm].type = "PERIOD"
                                                   THEN passClock ELSE 0]
  /\ tl' = ExpireHead(tl, PassTime)
  /\ UNCHANGED <<ids, pending, clock, lock, passClock>>

(* Slip: only the first active timer is looked at in a pass. *)
ExpireEnd_AfterOne ==
  /\ lock = "receiver"
  /\ lock' = "free"
  /\ UNCHANGED <<tl, ids, pending, clock, passClock, eventQ, history>>

ExpireEnd ==
  /\ lock = "receiver"
  /\ ~IsDue(tl, PassTime)
  /\ lock' = "free"
  /\ passClock' = 0
  /\ UNCHANGED <<tl, ids, pending, clock, eventQ, history>>

-----------------------------------------------------------------------------
(* Time passes, up to MaxTime. *)
Tick ==
  /\ clock < MaxTime
  /\ clock' = clock + 1
  /\ UNCHANGED <<tl, ids, pending, lock, passClock, eventQ, history>>

Main ==
  \/ \E type \in TimerType, duration \in Durations : CreateTake(type, duration)
  \/ CreateLink
  \/ \E tm \in ids : Start(tm) \/ Stop(tm) \/ DeleteUnlink(tm)
  \/ DeleteFree
  \/ EventRecv

Receiver == ExpireBegin \/ ExpireOne \/ ExpireEnd

Next == Main \/ Receiver \/ Tick

Spec == Init /\ [][Next]_vars

(***************************************************************************)
(* The receiver thread loops for as long as the program runs and time      *)
(* passes; the main thread holds the lock only inside one step.  Nothing   *)
(* obliges the main thread to use timers or to receive.                    *)
(***************************************************************************)
Fairness ==
  /\ WF_vars(Tick)
  /\ WF_vars(ExpireBegin)
  /\ WF_vars(ExpireOne)
  /\ WF_vars(ExpireEnd)

FairSpec == Spec /\ Fairness

-----------------------------------------------------------------------------
Linked == ToSet(tl.active) \cup ToSet(tl.idle)
Running(b) == tl.blk[b].isRunning

(* Every variable has its type. *)
TypeOK ==
  /\ tl \in TimerLists(Blk)
  /\ ids \subseteq Blk
  /\ clock \in 0 .. MaxTime
  /\ lock \in {"free", "receiver"}
  /\ eventQ \in Seq(Blk) /\ Len(eventQ) <= QCap

(***************************************************************************)
(* The two lists and the pool agree with the timers: the blocks in a list  *)
(* are the created timers, each in one place; the active list holds        *)
(* exactly the running ones, soonest first.  TimerExpireCheck relies on    *)
(* it: it looks at the head only, and an active timer that is not running  *)
(* would keep its loop, and the lock, for ever.  (With TypeOK: events stay *)
(* within the queue's limit.)                                              *)
(***************************************************************************)
ListsAgree ==
  /\ TypeOK
  /\ Linked = ids
  /\ IsInjective(tl.active \o tl.idle)
  /\ IsInjective(tl.avail)
  /\ ToSet(tl.avail) \cap Linked = {}
  /\ \A b \in ids : Running(b) <=> Contains(tl.active, b)
  /\ \A i, j \in DOMAIN tl.active :
        i < j => tl.blk[tl.active[i]].expireTime <= tl.blk[tl.active[j]].expireTime

(***************************************************************************)
(* A timer never expires before its duration has passed since TimerStart   *)
(* (or since its last period began).                                       *)
(***************************************************************************)
NoEarlyExpiry ==
  [][\A b \in Blk : fired'[b] > fired[b] => clock - startedAt[b] > tl.blk[b].duration]_vars

(* A TIMER_TYPE_ONCE timer sends at most one event per TimerStart. *)
OnceExpiresOnce == \A b \in ids : tl.blk[b].type = "ONCE" => fired[b] <= 1

(***************************************************************************)
(* A pass of TimerExpireCheck leaves no timer behind that was due when it  *)
(* read the time, however many are due and whatever the main thread did    *)
(* before it.                                                              *)
(***************************************************************************)
PassLeavesNoneDue ==
  [][lock = "receiver" /\ lock' = "free" =>
       \A b \in ids : Running(b) => tl.blk[b].expireTime >= PassTime]_vars

(***************************************************************************)
(* A running timer does not stay armed past its time: it expires, or the   *)
(* main thread stops, restarts or deletes it.                              *)
(***************************************************************************)
NoTimerForgotten ==
  \A b \in Blk, t \in 0 .. MaxTime - 1 :
    (b \in ids /\ Running(b) /\ tl.blk[b].expireTime = t)
      ~> ~(b \in ids /\ Running(b) /\ tl.blk[b].expireTime = t)
=============================================================================

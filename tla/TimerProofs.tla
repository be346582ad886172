----------------------------- MODULE TimerProofs -----------------------------
(***************************************************************************)
(* Proofs about the timer list that the UPF's threads share, for any       *)
(* number of blocks, any durations, any queue and any length of time.      *)
(***************************************************************************)
EXTENDS TimerService, TimerPointers, TimerListProofs

-----------------------------------------------------------------------------
(* The inductive invariant.  TimerCreate and TimerDelete have their block  *)
(* in hand between their two steps; the history variables and the times of *)
(* the running timers belong together.                                     *)

TypesOK ==
  /\ clock \in 0 .. MaxTime /\ lock \in {"free", "receiver"}
  /\ eventQ \in Seq(Blk) /\ Len(eventQ) <= QCap

PendingOK ==
  pending # NULL =>
    /\ pending \in [op : {"create", "delete"}, tm : Blk, type : TimerType, duration : Nat]
    /\ pending.tm \notin ids /\ pending.tm \notin ToSet(tl.avail)
    /\ pending.op = "create" => /\ ~tl.blk[pending.tm].isRunning
                                /\ pending.duration \in Durations

HistoryOK ==
  /\ passClock \in 0 .. clock
  /\ startedAt \in [Blk -> 0 .. clock]
  /\ fired \in [Blk -> 0 .. 2]
  /\ \A b \in Blk \ ids : fired[b] = 0

TimerOK(b) ==
  /\ tl.blk[b].param = b /\ tl.blk[b].duration \in Durations
  /\ tl.blk[b].isRunning =>
       tl.blk[b].expireTime = ((startedAt[b] % TimeMod) + tl.blk[b].duration) % TimeMod
  /\ tl.blk[b].type = "ONCE" => fired[b] <= 1 /\ (tl.blk[b].isRunning => fired[b] = 0)

Inv ==
  /\ Sound(tl, Blk) /\ Placed(tl) = ids
  /\ TypesOK /\ PendingOK /\ HistoryOK
  /\ \A b \in ids : TimerOK(b)

(* The inductive invariant says of the lists what ListsAgree says. *)
LEMMA SoundIsAgree ==
  ASSUME Sound(tl, Blk), Placed(tl) = ids, TypesOK
  PROVE  ListsAgree
<1>1. /\ tl \in TimerLists(Blk) /\ tl.active \in Seq(Blk) /\ tl.idle \in Seq(Blk)
      /\ DOMAIN tl.active = 1 .. Len(tl.active)
  BY LenProperties DEF Sound, TimerLists
<1>2. TypeOK
  BY <1>1, PlacedInBlk DEF TypeOK, TypesOK
<1>3. IsInjective(tl.active \o tl.idle)
  BY <1>1, ConcatSet DEF Sound
<1>4. \A b \in ids : Running(b) <=> Contains(tl.active, b)
  <2>1. \A b : Contains(tl.active, b) <=> b \in ToSet(tl.active)
    BY <1>1, SeqAsSet DEF Contains
  <2>2. QED
    BY <2>1 DEF Sound, Running
<1>5. QED
  BY <1>1, <1>2, <1>3, <1>4 DEF ListsAgree, Sound, Sorted, Linked, Placed

(* It holds when the timers are set up. *)
LEMMA InvInit == Init => Inv
<1> SUFFICES ASSUME Init PROVE Inv
  OBVIOUS
<1>1. Sound(tl, Blk) /\ Placed(tl) = ids
  BY InitSound DEF Init
<1>2. TypesOK /\ PendingOK
  BY TimerServiceAssumption DEF Init, TypesOK, PendingOK
<1>3. HistoryOK
  BY DEF Init, HistoryOK
<1>4. QED
  BY <1>1, <1>2, <1>3 DEF Init, Inv

-----------------------------------------------------------------------------
(* One lemma per action. *)

(* The timers a step leaves alone keep their invariant. *)
LEMMA OthersOK ==
  ASSUME NEW b \in ids, TimerOK(b), tl'.blk[b] = tl.blk[b],
         startedAt'[b] = startedAt[b], fired'[b] = fired[b]
  PROVE  TimerOK(b)'
  BY DEF TimerOK

(* TimerCreate takes a block. *)
LEMMA CreateTakeInv ==
  ASSUME Inv, NEW type \in TimerType, NEW duration \in Durations, CreateTake(type, duration)
  PROVE  Inv'
<1>1. PICK tm : tm = TimerAlloc(tl)
  OBVIOUS
<1>2. /\ Sound(tl', Blk) /\ Placed(tl') = ids
      /\ tm \in Blk /\ tm \notin ids
      /\ ToSet(tl'.avail) = ToSet(tl.avail) \ {tm}
      /\ OnlyBlk(tl, tl', tm) /\ tl'.blk[tm] = ZeroBlk
  BY <1>1, TakeSound DEF CreateTake, Inv
<1>3. /\ ids' = ids /\ UNCHANGED <<clock, lock, passClock, eventQ, startedAt, fired>>
      /\ pending' = [op |-> "create", tm |-> tm, type |-> type, duration |-> duration]
  BY <1>1 DEF CreateTake, history
<1>4. TypesOK' /\ HistoryOK'
  BY <1>3 DEF Inv, TypesOK, HistoryOK
<1>5. PendingOK'
  BY <1>2, <1>3, TimerServiceAssumption DEF PendingOK, ZeroBlk
<1>6. ASSUME NEW b \in ids PROVE TimerOK(b)'
  <2>1. tl'.blk[b] = tl.blk[b]
    BY <1>2, PlacedInBlk DEF OnlyBlk, Inv, Sound
  <2>2. QED
    BY <1>3, <2>1, OthersOK DEF Inv
<1>7. QED
  BY <1>2, <1>3, <1>4, <1>5, <1>6 DEF Inv

(* TimerCreate links its block. *)
LEMMA CreateLinkInv == ASSUME Inv, CreateLink PROVE Inv'
<1>1. PICK tm : tm = pending.tm
  OBVIOUS
<1>2. /\ tm \in Blk /\ pending.type \in TimerType /\ pending.duration \in Nat
      /\ tm \notin ids /\ tm \notin ToSet(tl.avail) /\ ~tl.blk[tm].isRunning
      /\ pending.duration \in Durations
  BY <1>1 DEF Inv, PendingOK, CreateLink
<1>3. /\ tl' = TimerLink(tl, tm, pending.type, pending.duration, tm)
      /\ ids' = ids \cup {tm} /\ pending' = NULL
      /\ UNCHANGED <<clock, lock, passClock, eventQ, startedAt, fired>>
  BY <1>1 DEF CreateLink, history
<1>4. /\ Sound(tl', Blk) /\ Placed(tl') = ids' /\ OnlyBlk(tl, tl', tm)
      /\ tl'.blk[tm].param = tm /\ tl'.blk[tm].duration = pending.duration
      /\ ~tl'.blk[tm].isRunning
  BY <1>2, <1>3, LinkSound DEF Inv
<1>5. TypesOK' /\ HistoryOK' /\ PendingOK'
  BY <1>3 DEF Inv, TypesOK, HistoryOK, PendingOK
<1>6. ASSUME NEW b \in ids PROVE TimerOK(b)'
  <2>1. tl'.blk[b] = tl.blk[b]
    BY <1>2, <1>4, PlacedInBlk DEF OnlyBlk, Inv, Sound
  <2>2. QED
    BY <1>3, <2>1, OthersOK DEF Inv
<1>7. TimerOK(tm)'
  <2>1. fired'[tm] = 0
    BY <1>2, <1>3 DEF Inv, HistoryOK
  <2>2. QED
    BY <1>2, <1>4, <2>1 DEF TimerOK
<1>8. QED
  BY <1>3, <1>4, <1>5, <1>6, <1>7 DEF Inv

(* TimerStart. *)
LEMMA StartInv == ASSUME Inv, NEW tm \in ids, Start(tm) PROVE Inv'
<1>1. /\ tl' = TimerStart(tl, tm, CurTime) /\ pending' = NULL
      /\ startedAt' = [startedAt EXCEPT ![tm] = clock]
      /\ fired' = [fired EXCEPT ![tm] = 0]
      /\ UNCHANGED <<ids, clock, lock, passClock, eventQ>>
  BY DEF Start, MainIsReady
<1>2. clock \in Nat /\ CurTime \in Nat
  BY SMTT(60), TruncatedTime, TimerServiceAssumption DEF Inv, TypesOK, CurTime
<1>3. /\ Sound(tl', Blk) /\ Placed(tl') = ids
      /\ KeepsSettings(tl, tl', tm)
      /\ tl'.blk[tm].expireTime = (CurTime + tl.blk[tm].duration) % TimeMod
  BY <1>1, <1>2, StartSound DEF Inv
<1>4. ids \subseteq Blk
  BY PlacedInBlk DEF Inv, Sound
<1>5. TypesOK' /\ PendingOK'
  BY <1>1 DEF Inv, TypesOK, PendingOK
<1>6. HistoryOK'
  BY <1>1, <1>2, <1>4 DEF Inv, HistoryOK
<1>7. ASSUME NEW b \in ids, b # tm PROVE TimerOK(b)'
  <2>1. tl'.blk[b] = tl.blk[b] /\ startedAt'[b] = startedAt[b] /\ fired'[b] = fired[b]
    BY <1>1, <1>3, <1>4, <1>7 DEF Inv, HistoryOK, KeepsSettings, OnlyBlk
  <2>2. QED
    BY <2>1, OthersOK DEF Inv
<1>8. TimerOK(tm)'
  <2>1. startedAt'[tm] = clock /\ fired'[tm] = 0
    BY <1>1, <1>4 DEF Inv, HistoryOK
  <2>2. QED
    BY <1>3, <2>1 DEF Inv, TimerOK, CurTime, KeepsSettings
<1>9. QED
  BY <1>1, <1>3, <1>5, <1>6, <1>7, <1>8 DEF Inv

(* TimerStop. *)
LEMMA StopInv == ASSUME Inv, NEW tm \in ids, Stop(tm) PROVE Inv'
<1>1. /\ tl' = TimerStop(tl, tm) /\ pending' = NULL
      /\ startedAt' = [startedAt EXCEPT ![tm] = 0]
      /\ UNCHANGED <<ids, clock, lock, passClock, eventQ, fired>>
  BY DEF Stop, MainIsReady
<1>2. /\ Sound(tl', Blk) /\ Placed(tl') = ids
      /\ KeepsSettings(tl, tl', tm) /\ ~tl'.blk[tm].isRunning
  BY <1>1, StopSound DEF Inv
<1>3. ids \subseteq Blk /\ clock \in Nat
  BY PlacedInBlk, TimerServiceAssumption DEF Inv, Sound, TypesOK
<1>4. TypesOK' /\ PendingOK'
  BY <1>1 DEF Inv, TypesOK, PendingOK
<1>5. HistoryOK'
  BY <1>1, <1>3 DEF Inv, HistoryOK
<1>6. ASSUME NEW b \in ids, b # tm PROVE TimerOK(b)'
  <2>1. tl'.blk[b] = tl.blk[b] /\ startedAt'[b] = startedAt[b] /\ fired'[b] = fired[b]
    BY <1>1, <1>2, <1>3, <1>6 DEF Inv, HistoryOK, KeepsSettings, OnlyBlk
  <2>2. QED
    BY <2>1, OthersOK DEF Inv
<1>7. TimerOK(tm)'
  BY <1>1, <1>2 DEF Inv, TimerOK, KeepsSettings
<1>8. QED
  BY <1>1, <1>2, <1>4, <1>5, <1>6, <1>7 DEF Inv

(* TimerDelete takes the timer out of its list. *)
LEMMA DeleteUnlinkInv == ASSUME Inv, NEW tm \in ids, DeleteUnlink(tm) PROVE Inv'
<1>1. /\ tl' = ListRemove(tl, tm) /\ ids' = ids \ {tm}
      /\ pending' = [op |-> "delete", tm |-> tm, type |-> "ONCE", duration |-> 0]
      /\ startedAt' = [startedAt EXCEPT ![tm] = 0]
      /\ fired' = [fired EXCEPT ![tm] = 0]
      /\ UNCHANGED <<clock, lock, passClock, eventQ>>
  BY DEF DeleteUnlink
<1>2. /\ Sound(tl', Blk) /\ Placed(tl') = ids'
      /\ tl'.blk = tl.blk /\ tl'.avail = tl.avail
  BY <1>1, RemoveSound DEF Inv
<1>3. ids \subseteq Blk /\ clock \in Nat /\ tm \notin ToSet(tl.avail)
  BY PlacedInBlk, TimerServiceAssumption DEF Inv, Sound, TypesOK
<1>4. TypesOK'
  BY <1>1 DEF Inv, TypesOK
<1>5. PendingOK'
  BY <1>1, <1>2, <1>3 DEF PendingOK, TimerType
<1>6. HistoryOK'
  BY <1>1, <1>3 DEF Inv, HistoryOK
<1>7. ASSUME NEW b \in ids \ {tm} PROVE TimerOK(b)'
  <2>1. startedAt'[b] = startedAt[b] /\ fired'[b] = fired[b]
    BY <1>1, <1>3 DEF Inv, HistoryOK
  <2>2. QED
    BY <1>2, <2>1, OthersOK DEF Inv
<1>8. QED
  BY <1>1, <1>2, <1>4, <1>5, <1>6, <1>7 DEF Inv

(* TimerDelete gives the block back. *)
LEMMA DeleteFreeInv == ASSUME Inv, DeleteFree PROVE Inv'
<1>1. PICK tm : tm = pending.tm
  OBVIOUS
<1>2. tm \in Blk /\ tm \notin ids /\ tm \notin ToSet(tl.avail)
  BY <1>1 DEF Inv, PendingOK, DeleteFree
<1>3. /\ tl' = TimerFree(tl, tm) /\ pending' = NULL
      /\ UNCHANGED <<ids, clock, lock, passClock, eventQ, startedAt, fired>>
  BY <1>1 DEF DeleteFree, history
<1>4. Sound(tl', Blk) /\ Placed(tl') = ids /\ tl'.blk = tl.blk
  BY <1>2, <1>3, FreeSound DEF Inv
<1>5. TypesOK' /\ HistoryOK' /\ PendingOK'
  BY <1>3 DEF Inv, TypesOK, HistoryOK, PendingOK
<1>6. ASSUME NEW b \in ids PROVE TimerOK(b)'
  BY <1>3, <1>4, OthersOK DEF Inv
<1>7. QED
  BY <1>3, <1>4, <1>5, <1>6 DEF Inv

(* An event is received, a pass begins or ends, time passes: none of these  *)
(* touches the timers.                                                      *)
LEMMA OutsideInv ==
  ASSUME Inv, EventRecv \/ ExpireBegin \/ ExpireEnd \/ Tick
  PROVE  Inv'
<1>1. UNCHANGED <<tl, ids, pending, startedAt, fired>>
  BY DEF EventRecv, ExpireBegin, ExpireEnd, Tick, history
<1>2. clock \in Nat /\ clock' \in Nat /\ clock <= clock' /\ clock' <= MaxTime
  BY TimerServiceAssumption DEF Inv, TypesOK, EventRecv, ExpireBegin, ExpireEnd, Tick
<1>3. TypesOK'
  <2>1. eventQ' \in Seq(Blk) /\ Len(eventQ') <= QCap
    <3>1. CASE EventRecv
      BY <3>1, HeadTailProperties, LenProperties, TimerServiceAssumption
      DEF Inv, TypesOK, EventRecv
    <3>2. CASE eventQ' = eventQ
      BY <3>2 DEF Inv, TypesOK
    <3>3. QED
      BY <3>1, <3>2 DEF ExpireBegin, ExpireEnd, Tick
  <2>2. lock' \in {"free", "receiver"}
    BY DEF Inv, TypesOK, EventRecv, ExpireBegin, ExpireEnd, Tick
  <2>3. QED
    BY <1>2, <2>1, <2>2, TimerServiceAssumption DEF TypesOK
<1>4. HistoryOK'
  <2>1. passClock' \in 0 .. clock'
    BY <1>2 DEF Inv, HistoryOK, EventRecv, ExpireBegin, ExpireEnd, Tick
  <2>2. startedAt' \in [Blk -> 0 .. clock']
    BY <1>1, <1>2 DEF Inv, HistoryOK
  <2>3. QED
    BY <1>1, <2>1, <2>2 DEF Inv, HistoryOK
<1>5. PendingOK' /\ \A b \in ids' : TimerOK(b)'
  BY <1>1 DEF Inv, PendingOK, TimerOK
<1>6. QED
  BY <1>1, <1>3, <1>4, <1>5 DEF Inv

(* A timer expires. *)
LEMMA ExpireOneInv == ASSUME Inv, ExpireOne PROVE Inv'
<1>1. PICK tm : tm = Head(tl.active)
  OBVIOUS
<1>2. /\ tl.active # << >> /\ tl' = ExpireHead(tl, PassTime)
      /\ eventQ' = EventSend(tl.blk[tm].param)
      /\ fired' = [fired EXCEPT ![tm] = IF @ < 2 THEN @ + 1 ELSE @]
      /\ startedAt' = [startedAt EXCEPT ![tm] =
                          IF tl.blk[tm].type = "PERIOD" THEN passClock ELSE 0]
      /\ UNCHANGED <<ids, pending, clock, lock, passClock>>
  BY <1>1 DEF ExpireOne, IsDue
<1>3. tm \in ids /\ tm \in Blk /\ tl.blk[tm].isRunning
  BY <1>1, <1>2, HeadRuns DEF Inv
<1>4. clock \in Nat /\ passClock \in 0 .. clock /\ PassTime \in Nat
  BY SMTT(60), TruncatedTime, TimerServiceAssumption DEF Inv, TypesOK, HistoryOK, PassTime
<1>5. /\ Sound(tl', Blk) /\ Placed(tl') = ids /\ tl'.avail = tl.avail
      /\ KeepsSettings(tl, tl', tm)
      /\ tl.blk[tm].type = "PERIOD" =>
           tl'.blk[tm].expireTime = (PassTime + tl.blk[tm].duration) % TimeMod
      /\ tl.blk[tm].type # "PERIOD" => ~tl'.blk[tm].isRunning
  BY <1>1, <1>2, <1>4, ExpireSound DEF Inv
<1>6. ids \subseteq Blk /\ TimerOK(tm)
  BY <1>3, PlacedInBlk DEF Inv, Sound
<1>7. TypesOK'
  <2>1. eventQ \in Seq(Blk) /\ Len(eventQ) \in Nat /\ Len(eventQ) <= QCap
    BY LenProperties DEF Inv, TypesOK
  <2>2. tl.blk[tm].param = tm
    BY <1>6 DEF TimerOK
  <2>3. eventQ' \in Seq(Blk) /\ Len(eventQ') <= QCap
    BY <1>2, <1>3, <2>1, <2>2, AppendProperties, TimerServiceAssumption DEF EventSend
  <2>4. QED
    BY <1>2, <2>3 DEF Inv, TypesOK
<1>8. PendingOK'
  <2>1. ASSUME pending # NULL PROVE tl'.blk[pending.tm] = tl.blk[pending.tm]
    BY <1>3, <1>5, <2>1 DEF Inv, PendingOK, KeepsSettings, OnlyBlk
  <2>2. QED
    BY <1>2, <1>5, <2>1 DEF Inv, PendingOK
<1>9. HistoryOK'
  BY <1>2, <1>3, <1>4 DEF Inv, HistoryOK
<1>10. ASSUME NEW b \in ids, b # tm PROVE TimerOK(b)'
  <2>1. tl'.blk[b] = tl.blk[b] /\ startedAt'[b] = startedAt[b] /\ fired'[b] = fired[b]
    BY <1>2, <1>5, <1>6, <1>10 DEF Inv, HistoryOK, KeepsSettings, OnlyBlk
  <2>2. QED
    BY <2>1, OthersOK DEF Inv
<1>11. TimerOK(tm)'
  <2>1. CASE tl.blk[tm].type = "PERIOD"
    <3>1. startedAt'[tm] = passClock
      BY <1>2, <1>3, <2>1 DEF Inv, HistoryOK
    <3>2. QED
      BY <1>5, <1>6, <2>1, <3>1 DEF TimerOK, KeepsSettings, PassTime
  <2>2. CASE tl.blk[tm].type # "PERIOD"
    <3>1. tl.blk[tm].type = "ONCE"
      BY <1>3, <2>2 DEF Inv, Sound, TimerLists, TimerBlk, TimerType
    <3>2. fired'[tm] = 1
      BY <1>2, <1>3, <1>6, <3>1 DEF Inv, HistoryOK, TimerOK
    <3>3. QED
      BY <1>5, <1>6, <2>2, <3>2 DEF TimerOK, KeepsSettings
  <2>3. QED
    BY <2>1, <2>2
<1>12. QED
  BY <1>2, <1>5, <1>7, <1>8, <1>9, <1>10, <1>11 DEF Inv

(* Every step of the threads and of the clock keeps the invariant. *)
LEMMA InvNext == Inv /\ [Next]_vars => Inv'
<1> SUFFICES ASSUME Inv, [Next]_vars PROVE Inv'
  OBVIOUS
<1>1. ASSUME NEW type \in TimerType, NEW duration \in Durations, CreateTake(type, duration)
      PROVE  Inv'
  BY <1>1, CreateTakeInv
<1>2. CASE CreateLink
  BY <1>2, CreateLinkInv
<1>3. ASSUME NEW tm \in ids, Start(tm) \/ Stop(tm) \/ DeleteUnlink(tm)
      PROVE  Inv'
  BY <1>3, StartInv, StopInv, DeleteUnlinkInv
<1>4. CASE DeleteFree
  BY <1>4, DeleteFreeInv
<1>5. CASE EventRecv \/ ExpireBegin \/ ExpireEnd \/ Tick
  BY <1>5, OutsideInv
<1>6. CASE ExpireOne
  BY <1>6, ExpireOneInv
<1>7. CASE UNCHANGED vars
  BY <1>7 DEF vars, Inv, TypesOK, PendingOK, HistoryOK, TimerOK
<1>8. QED
  BY <1>1, <1>2, <1>3, <1>4, <1>5, <1>6, <1>7 DEF Next, Main, Receiver

-----------------------------------------------------------------------------
(* The theorems. *)

(***************************************************************************)
(* The inductive invariant holds whenever no thread is inside a step of    *)
(* the timer list.                                                         *)
(***************************************************************************)
THEOREM TimersSound == Spec => []Inv
<1>1. Init => Inv
  BY InvInit
<1>2. Inv /\ [Next]_vars => Inv'
  BY InvNext
<1>3. QED
  BY <1>1, <1>2, PTL DEF Spec

(***************************************************************************)
(* The lists and the pool agree with the timers: whatever the main thread  *)
(* creates, starts, stops and deletes while the receiver expires timers,   *)
(* each block is in one place, the active list holds the running timers,   *)
(* soonest first, and the event queue keeps its limit.                     *)
(***************************************************************************)
THEOREM ListsAlwaysAgree == Spec => []ListsAgree
<1>1. Inv => ListsAgree
  BY SoundIsAgree DEF Inv
<1>2. QED
  BY <1>1, TimersSound, PTL

(***************************************************************************)
(* A TIMER_TYPE_ONCE timer sends at most one event per TimerStart: the     *)
(* loop of TimerExpireCheck does not find it again.                        *)
(***************************************************************************)
THEOREM OnceAlwaysOnce == Spec => []OnceExpiresOnce
<1>1. Inv => OnceExpiresOnce
  BY DEF Inv, TimerOK, OnceExpiresOnce
<1>2. QED
  BY <1>1, TimersSound, PTL

(***************************************************************************)
(* A pass of TimerExpireCheck ends only when no running timer is due: the  *)
(* loop looks at the first active timer only, and that one is the soonest. *)
(***************************************************************************)
THEOREM PassIsComplete == Spec => PassLeavesNoneDue
<1> DEFINE Step == lock = "receiver" /\ lock' = "free" =>
                     \A b \in ids : Running(b) => tl.blk[b].expireTime >= PassTime
<1>1. ASSUME Inv, [Next]_vars PROVE [Step]_vars
  <2>1. SUFFICES ASSUME Next, lock = "receiver", lock' = "free",
                        NEW b \in ids, tl.blk[b].isRunning
                 PROVE  tl.blk[b].expireTime >= PassTime
    BY <1>1 DEF Running
  <2>2. ExpireEnd
    BY <2>1 DEF Next, Main, Receiver, CreateTake, CreateLink, Start, Stop, DeleteUnlink,
                DeleteFree, EventRecv, ExpireBegin, ExpireOne, Tick
  <2>3. /\ Sound(tl, Blk) /\ b \in Placed(tl) /\ b \in Blk
        /\ tl.active \in Seq(Blk) /\ tl.blk \in [Blk -> TimerBlk(Blk)]
    BY <1>1, PlacedInBlk DEF Inv, Sound, TimerLists
  <2>4. tl.active # << >>
    <3>1. b \in ToSet(tl.active)
      BY <2>1, <2>3 DEF Sound
    <3>2. QED
      BY <2>3, <3>1, SeqAsSet
  <2>5. /\ Head(tl.active) \in Blk
        /\ tl.blk[Head(tl.active)].expireTime <= tl.blk[b].expireTime
    BY <2>1, <2>3, <2>4, HeadRuns
  <2>6. ~(tl.blk[Head(tl.active)].expireTime < PassTime)
    BY <2>2, <2>4 DEF ExpireEnd, IsDue
  <2>7. /\ tl.blk[Head(tl.active)].expireTime \in Nat /\ tl.blk[b].expireTime \in Nat
        /\ PassTime \in Nat
    <3>1. passClock \in Nat
      BY <1>1, TimerServiceAssumption DEF Inv, HistoryOK, TypesOK
    <3>2. PassTime \in Nat
      BY <3>1, TruncatedTime DEF PassTime
    <3>3. \A c \in Blk : tl.blk[c].expireTime \in Nat
      BY <2>3, TimeModAssumption DEF TimerBlk
    <3>4. QED
      BY <2>3, <2>5, <3>2, <3>3
  <2>8. QED
    BY <2>5, <2>6, <2>7
<1>2. QED
  BY <1>1, TimersSound, PTL DEF Spec, PassLeavesNoneDue

(***************************************************************************)
(* No timer expires before its duration has passed since it was armed, as  *)
(* long as no time of the run exceeds what the uint32_t of the timer       *)
(* holds.  (The times are compared as they are: past that, an expireTime   *)
(* that has wrapped is due at once.)                                       *)
(***************************************************************************)
THEOREM NeverEarly ==
  ASSUME \A d \in Durations : MaxTime + d < TimeMod
  PROVE  Spec => NoEarlyExpiry
<1> DEFINE Step == \A b \in Blk :
                     fired'[b] > fired[b] => clock - startedAt[b] > tl.blk[b].duration
<1>1. ASSUME Inv, [Next]_vars PROVE [Step]_vars
  <2>1. SUFFICES ASSUME Next, NEW b \in Blk, fired'[b] > fired[b]
                 PROVE  clock - startedAt[b] > tl.blk[b].duration
    BY <1>1
  <2>2. fired \in [Blk -> 0 .. 2]
    BY <1>1 DEF Inv, HistoryOK
  <2>3. ExpireOne
    <3>1. ASSUME NEW tm \in ids, Start(tm) \/ DeleteUnlink(tm) PROVE FALSE
      <4>1. fired' = [fired EXCEPT ![tm] = 0]
        BY <3>1 DEF Start, DeleteUnlink
      <4>2. QED
        BY <2>1, <2>2, <4>1
    <3>2. CASE fired' = fired
      BY <2>1, <2>2, <3>2
    <3>3. QED
      BY <2>1, <3>1, <3>2
      DEF Next, Main, Receiver, CreateTake, CreateLink, Stop, DeleteFree, EventRecv,
          ExpireBegin, ExpireEnd, Tick, history
  <2>4. /\ tl.active # << >> /\ tl.blk[b].expireTime < PassTime
        /\ b = Head(tl.active)
    BY <2>1, <2>2, <2>3 DEF ExpireOne, IsDue
  <2>5. b \in ids /\ tl.blk[b].isRunning
    BY <1>1, <2>4, HeadRuns DEF Inv
  <2>6. /\ tl.blk[b].expireTime = ((startedAt[b] % TimeMod) + tl.blk[b].duration) % TimeMod
        /\ tl.blk[b].duration \in Durations
    BY <1>1, <2>5 DEF Inv, TimerOK
  <2>7. /\ clock \in 0 .. MaxTime /\ passClock \in 0 .. clock /\ startedAt[b] \in 0 .. clock
    BY <1>1 DEF Inv, TypesOK, HistoryOK
  <2>8. /\ MaxTime \in Nat /\ TimeMod \in Nat \ {0} /\ tl.blk[b].duration \in Nat
        /\ MaxTime + tl.blk[b].duration < TimeMod
    BY <2>6, TimeModAssumption, TimerServiceAssumption
  <2>9. \A n \in Nat : n < TimeMod => n % TimeMod = n
    BY TimeModAssumption
  <2>10. startedAt[b] % TimeMod = startedAt[b] /\ PassTime = passClock
    BY <2>7, <2>8, <2>9 DEF PassTime
  <2>11. tl.blk[b].expireTime = startedAt[b] + tl.blk[b].duration
    BY <2>6, <2>7, <2>8, <2>9, <2>10
  <2>12. startedAt[b] + tl.blk[b].duration < passClock
    BY <2>4, <2>10, <2>11
  <2>13. /\ clock \in Int /\ startedAt[b] \in Int /\ tl.blk[b].duration \in Int
         /\ passClock \in Int /\ passClock <= clock
    BY <2>7, <2>8
  <2>14. QED
    BY <2>12, <2>13
<1>2. QED
  BY <1>1, TimersSound, PTL DEF Spec, NoEarlyExpiry
-----------------------------------------------------------------------------
(* The pointers of the lists (TimerPointers), for any timers: each list is *)
(* linked in the order of its sequence.                                    *)

ListNodes == Blk \cup {active, idle}

Links(t, h) ==
  h \in P!Heap /\ LinkedAs(h, active, t.active) /\ LinkedAs(h, idle, t.idle)

(* Of two heaps: outside S the pointers are the same.  Of a key: it is the *)
(* time of each timer.                                                     *)
Untouched(h, g, S) == \A n \in ListNodes \ S : g.next[n] = h.next[n] /\ g.prev[n] = h.prev[n]
Times(key, blk) == \A b \in Blk : key[b] = blk[b].expireTime

PointersInv == Sound(lists, {NULL}) /\ Links(lists, heap)

(* The pointer operations are those of SequenceLemmas. *)
LEMMA PointerOps ==
  /\ P!Heap = Heaps(ListNodes, NULL)
  /\ \A h, s, head : P!ListInsert(h, s, head) = LinkBetween(h, s, head, h.next[head])
  /\ \A h, s : P!ListRemove(h, s) = Unlink(h, s)
<1>1. P!Heap = Heaps(ListNodes, NULL)
  BY DEF P!Heap, P!Pointer, ListNodes, Heaps
<1>2. \A h, s, head : P!ListInsert(h, s, head) = LinkBetween(h, s, head, h.next[head])
  BY DEF P!ListInsert, P!InsertBetween, LinkBetween
<1>3. \A h, s : P!ListRemove(h, s) = Unlink(h, s)
  BY DEF P!ListRemove, P!ListHeadInit, Unlink
<1>4. QED
  BY <1>1, <1>2, <1>3

(* A walk along a list comes to its nodes in their order, in time. *)
LEMMA WalkSteps ==
  ASSUME NEW h, NEW head \in {active, idle}, NEW q \in Seq(Blk), IsInjective(q),
         LinkedAs(h, head, q)
  PROVE  /\ Len(q) \in P!Steps
         /\ \E m \in Nat : P!Steps = 0 .. m
         /\ \A k \in Nat : P!Visit(h, head)[k] = NodeAt(q, head, k + 1)
<1>1. head \notin Blk /\ NULL \notin Blk
  BY TimerPointersAssumption, BlkAssumption
<1>2. IsFiniteSet(ListNodes) /\ Cardinality(ListNodes) \in Nat
  <2>1. IsFiniteSet(Blk \cup {active}) /\ IsFiniteSet((Blk \cup {active}) \cup {idle})
    BY BlkAssumption, FS_AddElement
  <2>2. (Blk \cup {active}) \cup {idle} = ListNodes
    BY DEF ListNodes
  <2>3. QED
    BY <2>1, <2>2, FS_CardinalityType
<1>3. P!Steps = 0 .. Cardinality(ListNodes)
  <2>1. P!Cardinality(ListNodes) = Cardinality(ListNodes)
    BY DEF P!Cardinality, Cardinality
  <2>2. QED
    BY <2>1 DEF P!Steps, ListNodes
<1>4. Len(q) \in 0 .. Cardinality(ListNodes)
  <2>1. Blk \subseteq ListNodes
    BY DEF ListNodes
  <2>2. QED
    BY <1>2, <2>1, ListFits
<1>5. P!Visit(h, head) = Walk(h, head, NULL)
  BY DEF P!Visit, Walk
<1>6. \A k \in Nat : Walk(h, head, NULL)[k] = NodeAt(q, head, k + 1)
  BY <1>1, WalkLinked
<1>7. QED
  BY <1>2, <1>3, <1>4, <1>5, <1>6

(* WalkOf reads the sequence off the pointers. *)
LEMMA WalkReads ==
  ASSUME NEW h, NEW head \in {active, idle}, NEW q \in Seq(Blk), IsInjective(q),
         LinkedAs(h, head, q)
  PROVE  P!WalkOf(h, head) = q
<1> DEFINE at == P!Visit(h, head)
           ends(k) == at[k] = head /\ \A j \in 0 .. k - 1 : at[j] # head
           len == CHOOSE k \in P!Steps : ends(k)
<1>1. P!WalkOf(h, head) = [i \in 1 .. len |-> at[i - 1]]
  BY DEF P!WalkOf
<1>2. PICK m \in Nat : P!Steps = 0 .. m
  BY WalkSteps
<1>3. Len(q) \in 0 .. m /\ Len(q) \in Nat
  BY <1>2, WalkSteps, LenProperties
<1>4. \A k \in Nat : at[k] = NodeAt(q, head, k + 1)
  BY WalkSteps
<1> HIDE DEF at
<1>5. ASSUME NEW k \in Nat PROVE at[k] = head <=> k >= Len(q)
  <2>1. k + 1 \in Int /\ head \notin Blk
    BY TimerPointersAssumption
  <2>2. NodeAt(q, head, k + 1) = head <=> k + 1 \notin 1 .. Len(q)
    BY <2>1, NodeAtIs
  <2>3. k + 1 \notin 1 .. Len(q) <=> k >= Len(q)
    BY <1>3
  <2>4. at[k] = NodeAt(q, head, k + 1)
    BY <1>4
  <2>5. QED
    BY <2>2, <2>3, <2>4
<1>6. ends(Len(q))
  BY <1>3, <1>5
<1>7. ASSUME NEW k \in 0 .. m, ends(k) PROVE k = Len(q)
  <2>1. k \in Nat /\ k >= Len(q)
    BY <1>5, <1>7
  <2>2. CASE k > Len(q)
    <3>1. Len(q) \in 0 .. k - 1
      BY <1>3, <2>1, <2>2
    <3>2. at[Len(q)] # head
      BY <1>7, <3>1
    <3>3. QED
      BY <1>3, <1>5, <3>2
  <2>3. QED
    BY <1>3, <2>1, <2>2
<1>8. len = Len(q)
  <2> HIDE DEF ends
  <2>1. \E k \in P!Steps : ends(k)
    BY <1>2, <1>3, <1>6
  <2>2. len \in P!Steps /\ ends(len)
    BY <2>1
  <2>3. QED
    BY <1>2, <1>7, <2>2
<1> HIDE DEF len
<1>9. \A i \in 1 .. Len(q) : at[i - 1] = q[i]
  <2> TAKE i \in 1 .. Len(q)
  <2>1. i - 1 \in Nat /\ (i - 1) + 1 = i
    BY <1>3
  <2>2. QED
    BY <1>4, <2>1 DEF NodeAt
<1>10. q = [i \in 1 .. Len(q) |-> q[i]]
  BY LenProperties
<1>11. QED
  BY <1>1, <1>8, <1>9, <1>10

(* The place ListInsertSorted of TimerList finds. *)
LEMMA SortedPlace ==
  ASSUME NEW q \in Seq(Blk), NEW blk, NEW tm
  PROVE  \E p \in 0 .. Len(q) :
           /\ ListInsertSorted(q, tm, blk) = InsertAt(q, p + 1, tm)
           /\ p < Len(q) => blk[tm].expireTime < blk[q[p + 1]].expireTime
           /\ \A i \in 1 .. p : ~(blk[tm].expireTime < blk[q[i]].expireTime)
<1> DEFINE later == {k \in DOMAIN q : blk[tm].expireTime < blk[q[k]].expireTime}
           pos == IF later = {} THEN Len(q) + 1
                  ELSE CHOOSE i \in later : \A j \in later : i <= j
<1>1. Len(q) \in Nat /\ DOMAIN q = 1 .. Len(q)
  BY LenProperties
<1>2. later \in SUBSET Nat /\ later \subseteq 1 .. Len(q)
  BY <1>1
<1>3. later # {} => pos \in later /\ \A j \in later : pos <= j
  BY <1>2, FirstIndex
<1>4. later = {} => pos = Len(q) + 1
  OBVIOUS
<1>5. ListInsertSorted(q, tm, blk) = InsertAt(q, pos, tm)
  BY DEF ListInsertSorted
<1> HIDE DEF pos
<1>6. PICK p \in 0 .. Len(q) : pos = p + 1
  <2>1. pos \in 1 .. Len(q) + 1
    BY <1>1, <1>2, <1>3, <1>4
  <2>2. pos - 1 \in 0 .. Len(q) /\ pos = (pos - 1) + 1
    BY <1>1, <2>1
  <2>3. QED
    BY <2>2
<1>7. p < Len(q) => pos \in later
  BY <1>1, <1>3, <1>4, <1>6
<1>8. \A i \in 1 .. p : i \in 1 .. Len(q) /\ i \notin later
  BY <1>1, <1>2, <1>3, <1>4, <1>6
<1>9. QED
  BY <1>1, <1>5, <1>6, <1>7, <1>8

(* ListInsertSorted stops its walk at the same place. *)
LEMMA PointerInsert ==
  ASSUME NEW h \in P!Heap, NEW head \in {active, idle}, NEW q \in Seq(Blk), IsInjective(q),
         LinkedAs(h, head, q), NEW tm \in Blk, tm \notin ToSet(q), NEW blk, NEW key,
         Times(key, blk)
  PROVE  LET r == P!ListInsertSorted(h, tm, head, key)
         IN  /\ r \in P!Heap /\ LinkedAs(r, head, ListInsertSorted(q, tm, blk))
             /\ Untouched(h, r, ToSet(q) \cup {head, tm})
<1> DEFINE at == P!Visit(h, head)
           stops == {k \in P!Steps : at[k] = head \/ P!StopsBefore(key, tm, at[k])}
           k0 == CHOOSE k \in stops : \A j \in stops : k <= j
           iter == IF k0 = 0 THEN head ELSE at[k0 - 1]
           r == P!ListInsertSorted(h, tm, head, key)
<1>1. /\ Len(q) \in Nat /\ Blk \subseteq ListNodes /\ h \in Heaps(ListNodes, NULL)
      /\ head \in ListNodes /\ head \notin Blk /\ \A i \in 1 .. Len(q) : q[i] \in Blk
  BY LenProperties, ElementOfSeq, PointerOps, TimerPointersAssumption DEF ListNodes
<1>2. PICK p \in 0 .. Len(q) :
        /\ ListInsertSorted(q, tm, blk) = InsertAt(q, p + 1, tm)
        /\ p < Len(q) => blk[tm].expireTime < blk[q[p + 1]].expireTime
        /\ \A i \in 1 .. p : ~(blk[tm].expireTime < blk[q[i]].expireTime)
  BY SortedPlace
<1>3. r = P!ListInsert(h, tm, iter)
  BY DEF P!ListInsertSorted
<1>4. PICK m \in Nat : P!Steps = 0 .. m /\ Len(q) \in 0 .. m
  BY WalkSteps
<1>5. \A k \in Nat : at[k] = NodeAt(q, head, k + 1)
  BY WalkSteps
<1> HIDE DEF at, r
<1>6. ASSUME NEW k \in 0 .. Len(q) PROVE k \in stops <=> k = Len(q) \/ P!StopsBefore(key, tm, q[k + 1])
  <2>1. k \in P!Steps /\ k \in Nat /\ k + 1 \in Int
    BY <1>1, <1>4
  <2>2. CASE k = Len(q)
    <3>1. at[k] = NodeAt(q, head, k + 1) /\ k + 1 \notin 1 .. Len(q)
      BY <1>1, <1>5, <2>1, <2>2
    <3>2. at[k] = head
      BY <3>1 DEF NodeAt
    <3>3. QED
      BY <2>1, <2>2, <3>2
  <2>3. CASE k # Len(q)
    <3>1. k + 1 \in 1 .. Len(q)
      BY <1>1, <2>3
    <3>2. at[k] = NodeAt(q, head, k + 1)
      BY <1>5, <2>1
    <3>3. at[k] = q[k + 1]
      BY <3>1, <3>2 DEF NodeAt
    <3>4. q[k + 1] # head
      BY <1>1, <3>1
    <3>5. QED
      BY <2>1, <2>3, <3>3, <3>4
  <2>4. QED
    BY <2>2, <2>3
<1>7. p \in stops
  <2>1. CASE p < Len(q)
    <3>1. p + 1 \in 1 .. Len(q)
      BY <1>1, <2>1
    <3>2. P!StopsBefore(key, tm, q[p + 1])
      BY <1>1, <1>2, <2>1, <3>1 DEF P!StopsBefore, Times
    <3>3. QED
      BY <1>6, <3>2
  <2>2. QED
    BY <1>1, <1>6, <2>1
<1>8. ASSUME NEW k \in 0 .. p, k \in stops PROVE k = p
  <2>1. CASE k < p
    <3>1. k \in 0 .. Len(q) /\ k # Len(q) /\ k + 1 \in 1 .. p /\ k + 1 \in 1 .. Len(q)
      BY <1>1, <2>1
    <3>2. P!StopsBefore(key, tm, q[k + 1])
      BY <1>6, <1>8, <3>1
    <3>3. QED
      BY <1>1, <1>2, <3>1, <3>2 DEF P!StopsBefore, Times
  <2>2. QED
    BY <1>1, <2>1
<1>9. k0 = p
  <2>1. stops \in SUBSET Nat /\ stops # {}
    BY <1>4, <1>7
  <2> HIDE DEF stops
  <2>2. k0 \in stops /\ \A j \in stops : k0 <= j
    BY <2>1, FirstIndex
  <2> HIDE DEF k0
  <2>3. k0 \in 0 .. p
    BY <1>1, <1>7, <2>1, <2>2
  <2>4. QED
    BY <1>8, <2>2, <2>3
<1>10. iter = NodeAt(q, head, p)
  <2>1. CASE p = 0
    <3>1. NodeAt(q, head, p) = head
      BY <1>1, <2>1, NodeAtIs
    <3>2. QED
      BY <1>9, <2>1, <3>1
  <2>2. CASE p # 0
    <3>1. p - 1 \in Nat /\ (p - 1) + 1 = p
      BY <1>1, <2>2
    <3>2. at[p - 1] = NodeAt(q, head, p)
      BY <1>5, <3>1
    <3>3. QED
      BY <1>9, <2>2, <3>2
  <2>3. QED
    BY <2>1, <2>2
<1> HIDE DEF iter, k0, stops
<1>11. h.next[iter] = NodeAt(q, head, p + 1)
  BY <1>10 DEF LinkedAs
<1>12. r = LinkBetween(h, tm, NodeAt(q, head, p), NodeAt(q, head, p + 1))
  <2>1. P!ListInsert(h, tm, iter) = LinkBetween(h, tm, iter, h.next[iter])
    BY PointerOps
  <2>2. QED
    BY <1>3, <1>10, <1>11, <2>1
<1>13. /\ r \in Heaps(ListNodes, NULL) /\ LinkedAs(r, head, InsertAt(q, p + 1, tm))
       /\ Untouched(h, r, ToSet(q) \cup {head, tm})
  BY <1>1, <1>12, LinkInList DEF Untouched
<1>14. QED
  BY <1>2, <1>13, PointerOps DEF r

(* ListRemove takes a timer out of the list that holds it. *)
LEMMA PointerRemove ==
  ASSUME NEW h \in P!Heap, NEW head \in {active, idle}, NEW q \in Seq(Blk), IsInjective(q),
         LinkedAs(h, head, q), NEW tm \in ToSet(q)
  PROVE  LET r == P!ListRemove(h, tm)
         IN  /\ r \in P!Heap /\ LinkedAs(r, head, RemoveFirst(q, tm))
             /\ Untouched(h, r, ToSet(q) \cup {head})
<1>1. /\ Blk \subseteq ListNodes /\ h \in Heaps(ListNodes, NULL)
      /\ head \in ListNodes /\ head \notin Blk
  BY PointerOps, TimerPointersAssumption DEF ListNodes
<1>2. PICK j \in 1 .. Len(q) : q[j] = tm /\ RemoveFirst(q, tm) = RemoveAt(q, j)
  BY RemoveFirstCases
<1> DEFINE r == Unlink(h, q[j])
<1>3. /\ r \in Heaps(ListNodes, NULL) /\ LinkedAs(r, head, RemoveAt(q, j))
      /\ Untouched(h, r, ToSet(q) \cup {head})
  BY <1>1, UnlinkInList DEF Untouched
<1>4. r = P!ListRemove(h, tm)
  BY <1>2, PointerOps
<1>5. QED
  BY <1>2, <1>3, <1>4, PointerOps

(* Both lists, as sequences of blocks. *)
LEMMA BothLists ==
  ASSUME NEW t, Sound(t, {NULL})
  PROVE  /\ t.active \in Seq(Blk) /\ IsInjective(t.active) /\ ToSet(t.active) \subseteq Blk
         /\ t.idle \in Seq(Blk) /\ IsInjective(t.idle) /\ ToSet(t.idle) \subseteq Blk
         /\ ToSet(t.active) \cap ToSet(t.idle) = {}
         /\ \A b : b \in Placed(t) <=> b \in ToSet(t.active) \/ b \in ToSet(t.idle)
         /\ active # idle /\ active \notin Blk /\ idle \notin Blk
<1>1. t.active \in Seq(Blk) /\ t.idle \in Seq(Blk)
  BY DEF Sound, TimerLists
<1>2. QED
  BY <1>1, SeqAsSet, TimerPointersAssumption DEF Sound, Placed

(* A list keeps its links when only other nodes change theirs. *)
LEMMA OtherList ==
  ASSUME NEW q \in Seq(Blk), NEW head \in {active, idle}, NEW h, NEW g, NEW S,
         LinkedAs(h, head, q), (ToSet(q) \cup {head}) \cap S = {},
         Untouched(h, g, S)
  PROVE  LinkedAs(g, head, q)
<1>1. head \notin Blk /\ ToSet(q) \subseteq Blk
  BY TimerPointersAssumption, SeqAsSet
<1>2. \A n \in ToSet(q) \cup {head} : n \in ListNodes \ S
  BY <1>1 DEF ListNodes
<1>3. \A n \in ToSet(q) \cup {head} : g.next[n] = h.next[n] /\ g.prev[n] = h.prev[n]
  BY <1>2 DEF Untouched
<1>4. QED
  BY <1>1, <1>3, LinkedFrame

(* A timer leaves the list it is in. *)
LEMMA LinksRemove ==
  ASSUME NEW t, NEW h, NEW tm \in Placed(t), Sound(t, {NULL}), Links(t, h)
  PROVE  Links(ListRemove(t, tm), P!ListRemove(h, tm))
<1> DEFINE u == ListRemove(t, tm)
           g == P!ListRemove(h, tm)
<1>1. /\ t.active \in Seq(Blk) /\ IsInjective(t.active) /\ ToSet(t.active) \subseteq Blk
      /\ t.idle \in Seq(Blk) /\ IsInjective(t.idle) /\ ToSet(t.idle) \subseteq Blk
      /\ ToSet(t.active) \cap ToSet(t.idle) = {}
      /\ tm \in ToSet(t.active) \/ tm \in ToSet(t.idle)
      /\ active # idle /\ active \notin Blk /\ idle \notin Blk
  BY BothLists
<1>2. h \in P!Heap /\ LinkedAs(h, active, t.active) /\ LinkedAs(h, idle, t.idle)
  BY DEF Links
<1>3. u.active = RemoveFirst(t.active, tm) /\ u.idle = RemoveFirst(t.idle, tm)
  BY DEF ListRemove, Sound, TimerLists
<1>4. \A q \in Seq(Blk) : tm \notin ToSet(q) => RemoveFirst(q, tm) = q
  BY SeqAsSet, RemoveFirstCases
<1> HIDE DEF u
<1>5. CASE tm \in ToSet(t.active)
  <2>1. /\ g \in P!Heap /\ LinkedAs(g, active, u.active)
        /\ Untouched(h, g, ToSet(t.active) \cup {active})
    BY <1>1, <1>2, <1>3, <1>5, PointerRemove
  <2> HIDE DEF g
  <2>2. (ToSet(t.idle) \cup {idle}) \cap (ToSet(t.active) \cup {active}) = {}
    BY <1>1
  <2>3. LinkedAs(g, idle, t.idle)
    BY <1>1, <1>2, <2>1, <2>2, OtherList
  <2>4. u.idle = t.idle
    BY <1>1, <1>3, <1>4, <1>5
  <2>5. QED
    BY <2>1, <2>3, <2>4 DEF Links, u, g
<1>6. CASE tm \in ToSet(t.idle)
  <2>1. /\ g \in P!Heap /\ LinkedAs(g, idle, u.idle)
        /\ Untouched(h, g, ToSet(t.idle) \cup {idle})
    BY <1>1, <1>2, <1>3, <1>6, PointerRemove
  <2> HIDE DEF g
  <2>2. (ToSet(t.active) \cup {active}) \cap (ToSet(t.idle) \cup {idle}) = {}
    BY <1>1
  <2>3. LinkedAs(g, active, t.active)
    BY <1>1, <1>2, <2>1, <2>2, OtherList
  <2>4. u.active = t.active
    BY <1>1, <1>3, <1>4, <1>6
  <2>5. QED
    BY <2>1, <2>3, <2>4 DEF Links, u, g
<1>7. QED
  BY <1>1, <1>5, <1>6

(* A timer comes into one of them. *)
LEMMA LinksInsert ==
  ASSUME NEW t, NEW h, NEW tm \in Blk, Sound(t, {NULL}), tm \notin Placed(t), Links(t, h),
         NEW blk, NEW key, Times(key, blk), NEW u
  PROVE  /\ u.active = ListInsertSorted(t.active, tm, blk) /\ u.idle = t.idle
            => Links(u, P!ListInsertSorted(h, tm, active, key))
         /\ u.idle = ListInsertSorted(t.idle, tm, blk) /\ u.active = t.active
            => Links(u, P!ListInsertSorted(h, tm, idle, key))
<1>1. /\ t.active \in Seq(Blk) /\ IsInjective(t.active) /\ ToSet(t.active) \subseteq Blk
      /\ t.idle \in Seq(Blk) /\ IsInjective(t.idle) /\ ToSet(t.idle) \subseteq Blk
      /\ ToSet(t.active) \cap ToSet(t.idle) = {}
      /\ tm \notin ToSet(t.active) /\ tm \notin ToSet(t.idle)
      /\ active # idle /\ active \notin Blk /\ idle \notin Blk
  BY BothLists
<1>2. h \in P!Heap /\ LinkedAs(h, active, t.active) /\ LinkedAs(h, idle, t.idle)
  BY DEF Links
<1>3. ASSUME u.active = ListInsertSorted(t.active, tm, blk), u.idle = t.idle
      PROVE  Links(u, P!ListInsertSorted(h, tm, active, key))
  <2> DEFINE g == P!ListInsertSorted(h, tm, active, key)
  <2>1. /\ g \in P!Heap /\ LinkedAs(g, active, ListInsertSorted(t.active, tm, blk))
        /\ Untouched(h, g, ToSet(t.active) \cup {active, tm})
    BY <1>1, <1>2, PointerInsert
  <2> HIDE DEF g
  <2>2. (ToSet(t.idle) \cup {idle}) \cap (ToSet(t.active) \cup {active, tm}) = {}
    BY <1>1
  <2>3. LinkedAs(g, idle, t.idle)
    BY <1>1, <1>2, <2>1, <2>2, OtherList
  <2>4. QED
    BY <1>3, <2>1, <2>3 DEF Links, g
<1>4. ASSUME u.idle = ListInsertSorted(t.idle, tm, blk), u.active = t.active
      PROVE  Links(u, P!ListInsertSorted(h, tm, idle, key))
  <2> DEFINE g == P!ListInsertSorted(h, tm, idle, key)
  <2>1. /\ g \in P!Heap /\ LinkedAs(g, idle, ListInsertSorted(t.idle, tm, blk))
        /\ Untouched(h, g, ToSet(t.idle) \cup {idle, tm})
    BY <1>1, <1>2, PointerInsert
  <2> HIDE DEF g
  <2>2. (ToSet(t.active) \cup {active}) \cap (ToSet(t.idle) \cup {idle, tm}) = {}
    BY <1>1
  <2>3. LinkedAs(g, active, t.active)
    BY <1>1, <1>2, <2>1, <2>2, OtherList
  <2>4. QED
    BY <1>4, <2>1, <2>3 DEF Links, g
<1>5. QED
  BY <1>3, <1>4

(* The memory of a timer that is in no list may be overwritten. *)
LEMMA LinksZero ==
  ASSUME NEW t, NEW h, NEW tm \in Blk, Sound(t, {NULL}), tm \notin Placed(t), Links(t, h)
  PROVE  Links(t, P!ZeroNode(h, tm))
<1> DEFINE g == P!ZeroNode(h, tm)
<1>1. /\ t.active \in Seq(Blk) /\ ToSet(t.active) \subseteq Blk
      /\ t.idle \in Seq(Blk) /\ ToSet(t.idle) \subseteq Blk
      /\ tm \notin ToSet(t.active) /\ tm \notin ToSet(t.idle)
      /\ active # idle /\ active \notin Blk /\ idle \notin Blk
  BY BothLists
<1>2. h \in P!Heap /\ LinkedAs(h, active, t.active) /\ LinkedAs(h, idle, t.idle)
  BY DEF Links
<1>3. /\ g \in P!Heap
      /\ Untouched(h, g, {tm})
  BY <1>2 DEF P!Heap, P!Pointer, P!ZeroNode, ListNodes, Untouched
<1> HIDE DEF g
<1>4. /\ (ToSet(t.active) \cup {active}) \cap {tm} = {}
      /\ (ToSet(t.idle) \cup {idle}) \cap {tm} = {}
  BY <1>1
<1>5. LinkedAs(g, active, t.active) /\ LinkedAs(g, idle, t.idle)
  BY <1>1, <1>2, <1>3, <1>4, OtherList
<1>6. QED
  BY <1>3, <1>5 DEF Links, g

(* It holds when the lists are set up. *)
LEMMA PointersInit == PointerInit => PointersInv
<1> SUFFICES ASSUME PointerInit PROVE PointersInv
  OBVIOUS
<1>1. PICK none : none = [n \in ListNodes |-> NULL]
  OBVIOUS
<1> DEFINE h == [next |-> none, prev |-> none]
           g == P!ListHeadInit(h, active)
<1>2. Sound(lists, {NULL}) /\ lists.active = << >> /\ lists.idle = << >>
  BY InitSound DEF PointerInit, TimerListInit
<1>3. active \in ListNodes /\ idle \in ListNodes /\ active # idle
  BY TimerPointersAssumption DEF ListNodes
<1>4. heap = P!ListHeadInit(g, idle)
  BY <1>1 DEF PointerInit, ListNodes
<1>5. g = [next |-> [none EXCEPT ![active] = active], prev |-> [none EXCEPT ![active] = active]]
  <2> DEFINE h1 == [h EXCEPT !.next[active] = active]
  <2>1. h1 = [next |-> [none EXCEPT ![active] = active], prev |-> none]
    OBVIOUS
  <2>2. g = [h1 EXCEPT !.prev[active] = active]
    BY DEF P!ListHeadInit
  <2> HIDE DEF g, h1
  <2>3. QED
    BY <2>1, <2>2
<1> HIDE DEF g
<1> DEFINE both == [[none EXCEPT ![active] = active] EXCEPT ![idle] = idle]
<1>6. heap = [next |-> both, prev |-> both]
  BY <1>4, <1>5 DEF P!ListHeadInit
<1>7. /\ both \in [ListNodes -> ListNodes \cup {NULL}]
      /\ both[active] = active /\ both[idle] = idle
  BY <1>1, <1>3
<1> HIDE DEF both
<1>8. heap \in P!Heap
  BY <1>6, <1>7 DEF P!Heap, P!Pointer, ListNodes
<1>9. ASSUME NEW head, both[head] = head PROVE LinkedAs(heap, head, << >>)
  <2>1. \A i \in Int : NodeAt(<< >>, head, i) = head
    BY DEF NodeAt
  <2>2. \A i \in 0 .. Len(<< >>) : i \in Int /\ i + 1 \in Int
    OBVIOUS
  <2>3. heap.next[head] = head /\ heap.prev[head] = head
    BY <1>6, <1>9
  <2>4. QED
    BY <2>1, <2>2, <2>3 DEF LinkedAs
<1>10. QED
  BY <1>2, <1>7, <1>8, <1>9 DEF PointersInv, Links

(* One lemma per action.  A timer that moves is unlinked and then linked   *)
(* where its time is due.                                                  *)
LEMMA MoveLinks ==
  ASSUME NEW t, NEW h, NEW u, NEW tm, Sound(t, {NULL}), Links(t, h), NEW key
  PROVE  /\ ToActive(t, u, tm, {NULL}) /\ Times(key, u.blk)
            => Links(u, P!ListInsertSorted(P!ListRemove(h, tm), tm, active, key))
         /\ ToIdle(t, u, tm, {NULL}) /\ Times(key, t.blk)
            => Links(u, P!ListInsertSorted(P!ListRemove(h, tm), tm, idle, key))
<1> DEFINE r == ListRemove(t, tm)
           g == P!ListRemove(h, tm)
<1>1. ASSUME tm \in Placed(t)
      PROVE  tm \in Blk /\ Sound(r, {NULL}) /\ tm \notin Placed(r) /\ Links(r, g)
  <2>1. tm \in Blk
    BY <1>1, PlacedInBlk DEF Sound
  <2>2. Sound(r, {NULL}) /\ tm \notin Placed(r)
    BY RemoveSound
  <2>3. Links(r, g)
    BY <1>1, LinksRemove
  <2>4. QED
    BY <2>1, <2>2, <2>3
<1>2. ASSUME ToActive(t, u, tm, {NULL}), Times(key, u.blk)
      PROVE  Links(u, P!ListInsertSorted(g, tm, active, key))
  <2>1. tm \in Blk /\ Sound(r, {NULL}) /\ tm \notin Placed(r) /\ Links(r, g)
    BY <1>1, <1>2 DEF ToActive
  <2>2. u.active = ListInsertSorted(r.active, tm, u.blk) /\ u.idle = r.idle
    BY <1>2 DEF ToActive
  <2> HIDE DEF r, g
  <2>3. QED
    BY <1>2, <2>1, <2>2, LinksInsert
<1>3. ASSUME ToIdle(t, u, tm, {NULL}), Times(key, t.blk)
      PROVE  Links(u, P!ListInsertSorted(g, tm, idle, key))
  <2>1. tm \in Blk /\ Sound(r, {NULL}) /\ tm \notin Placed(r) /\ Links(r, g)
    BY <1>1, <1>3 DEF ToIdle
  <2>2. u.idle = ListInsertSorted(r.idle, tm, t.blk) /\ u.active = r.active
    BY <1>3 DEF ToIdle
  <2> HIDE DEF r, g
  <2>3. QED
    BY <1>3, <2>1, <2>2, LinksInsert
<1>4. QED
  BY <1>2, <1>3

LEMMA CreateNodeInv ==
  ASSUME PointersInv, NEW type \in TimerType, NEW duration \in Spans, CreateNode(type, duration)
  PROVE  PointersInv'
<1>1. PICK tm : tm = TimerAlloc(lists)
  OBVIOUS
<1> DEFINE v == TimerTake(lists, tm)
<1>2. /\ tm # NULL /\ lists' = TimerLink(v, tm, type, duration, NULL)
      /\ heap' = P!ListInsertSorted(P!ZeroNode(heap, tm), tm, idle, [Key EXCEPT ![tm] = 0])
  BY <1>1 DEF CreateNode, TimerCreate
<1>3. Sound(lists, {NULL}) /\ Links(lists, heap) /\ lists \in TimerLists({NULL})
  BY DEF PointersInv, Sound
<1>4. /\ Sound(v, {NULL}) /\ Placed(v) = Placed(lists)
      /\ tm \in Blk /\ tm \notin Placed(lists)
      /\ ToSet(v.avail) = ToSet(lists.avail) \ {tm}
      /\ OnlyBlk(lists, v, tm) /\ v.blk[tm] = ZeroBlk
  BY <1>1, <1>2, <1>3, TakeSound
<1>5. v.active = lists.active /\ v.idle = lists.idle
  BY <1>3 DEF TimerTake, TimerLists
<1> HIDE DEF v
<1>6. Times([Key EXCEPT ![tm] = 0], v.blk)
  BY <1>4 DEF Times, Key, OnlyBlk, ZeroBlk
<1>7. Sound(lists', {NULL})
  <2>1. ~v.blk[tm].isRunning /\ duration \in Nat
    BY <1>4, TimerPointersAssumption DEF ZeroBlk
  <2>2. QED
    BY <1>2, <1>4, <2>1, LinkSound
<1>8. lists'.idle = ListInsertSorted(v.idle, tm, v.blk) /\ lists'.active = v.active
  <2>1. v \in TimerLists({NULL})
    BY <1>4 DEF Sound
  <2>2. QED
    BY <1>2, <2>1 DEF TimerLink, TimerLists
<1>9. Links(v, P!ZeroNode(heap, tm))
  <2>1. Links(v, heap)
    BY <1>3, <1>5 DEF Links
  <2>2. QED
    BY <1>4, <2>1, LinksZero
<1>10. Links(lists', heap')
  <2>1. tm \notin Placed(v)
    BY <1>4
  <2>2. Links(lists', P!ListInsertSorted(P!ZeroNode(heap, tm), tm, idle, [Key EXCEPT ![tm] = 0]))
    BY <1>4, <1>6, <1>8, <1>9, <2>1, LinksInsert
  <2>3. QED
    BY <1>2, <2>2
<1>11. QED
  BY <1>7, <1>10 DEF PointersInv, Links

LEMMA StartNodeInv ==
  ASSUME PointersInv, NEW tm \in InLists, NEW now \in Now, StartNode(tm, now)
  PROVE  PointersInv'
<1>1. tm \in Placed(lists) /\ now \in Nat /\ Sound(lists, {NULL}) /\ Links(lists, heap)
  BY TimerPointersAssumption DEF InLists, Placed, PointersInv
<1>2. /\ lists' = TimerStart(lists, tm, now)
      /\ heap' = P!ListInsertSorted(P!ListRemove(heap, tm), tm, active, Key')
  BY DEF StartNode
<1>3. Sound(lists', {NULL}) /\ ToActive(lists, lists', tm, {NULL})
  BY <1>1, <1>2, StartSound
<1>4. Times(Key', lists'.blk)
  BY DEF Times, Key
<1>5. Links(lists', heap')
  BY <1>1, <1>2, <1>3, <1>4, MoveLinks
<1>6. QED
  BY <1>3, <1>5 DEF PointersInv, Links

LEMMA StopNodeInv ==
  ASSUME PointersInv, NEW tm \in InLists, StopNode(tm)
  PROVE  PointersInv'
<1>1. tm \in Placed(lists) /\ Sound(lists, {NULL}) /\ Links(lists, heap)
  BY DEF InLists, Placed, PointersInv
<1>2. /\ lists.blk[tm].isRunning /\ lists' = TimerStop(lists, tm)
      /\ heap' = P!ListInsertSorted(P!ListRemove(heap, tm), tm, idle, Key)
  BY DEF StopNode
<1>3. Sound(lists', {NULL}) /\ ToIdle(lists, lists', tm, {NULL})
  BY <1>1, <1>2, StopSound
<1>4. Times(Key, lists.blk)
  BY DEF Times, Key
<1>5. Links(lists', heap')
  BY <1>1, <1>2, <1>3, <1>4, MoveLinks
<1>6. QED
  BY <1>3, <1>5 DEF PointersInv, Links

LEMMA DeleteNodeInv ==
  ASSUME PointersInv, NEW tm \in InLists, DeleteNode(tm)
  PROVE  PointersInv'
<1>1. tm \in Placed(lists) /\ Sound(lists, {NULL}) /\ Links(lists, heap)
  BY DEF InLists, Placed, PointersInv
<1> DEFINE r == ListRemove(lists, tm)
<1>2. lists' = TimerFree(r, tm) /\ heap' = P!ListRemove(heap, tm)
  BY DEF DeleteNode, TimerDelete
<1>3. /\ Sound(r, {NULL}) /\ Placed(r) = Placed(lists) \ {tm} /\ r.avail = lists.avail
  BY <1>1, RemoveSound
<1>4. Links(r, heap')
  BY <1>1, <1>2, LinksRemove
<1> HIDE DEF r
<1>5. tm \in Blk /\ tm \notin Placed(r) /\ tm \notin ToSet(r.avail)
  BY <1>1, <1>3, PlacedInBlk DEF Sound
<1>6. Sound(lists', {NULL})
  BY <1>2, <1>3, <1>5, FreeSound
<1>7. lists'.active = r.active /\ lists'.idle = r.idle
  <2>1. r \in TimerLists({NULL})
    BY <1>3 DEF Sound
  <2>2. QED
    BY <1>2, <2>1 DEF TimerFree, TimerLists
<1>8. QED
  BY <1>4, <1>6, <1>7 DEF PointersInv, Links

LEMMA ExpireNodeInv ==
  ASSUME PointersInv, NEW now \in Now, ExpireNode(now)
  PROVE  PointersInv'
<1>1. PICK tm : tm = heap.next[active]
  OBVIOUS
<1>2. now \in Nat /\ Sound(lists, {NULL}) /\ Links(lists, heap)
  BY TimerPointersAssumption DEF PointersInv
<1>3. /\ tm # active /\ lists' = ExpireHead(lists, now)
      /\ heap' = P!ListInsertSorted(P!ListRemove(heap, tm), tm,
                   IF lists.blk[tm].type = "PERIOD" THEN active ELSE idle, Key')
  BY <1>1 DEF ExpireNode
<1>4. lists.active # << >> /\ tm = Head(lists.active)
  <2>1. lists.active \in Seq(Blk) /\ active \notin Blk
    BY <1>2, BothLists
  <2>2. Len(lists.active) \in Nat /\ 0 \in 0 .. Len(lists.active)
    BY <2>1, LenProperties
  <2>3. NodeAt(lists.active, active, 0) = active
    BY <2>2 DEF NodeAt
  <2>4. tm = NodeAt(lists.active, active, 0 + 1)
    BY <1>1, <1>2, <2>2, <2>3 DEF Links, LinkedAs
  <2>5. 1 \in 1 .. Len(lists.active) /\ tm = lists.active[1]
    BY <1>3, <2>2, <2>4 DEF NodeAt
  <2>6. QED
    BY <2>1, <2>5
<1> DEFINE u == ExpireHead(lists, now)
<1>5. /\ Sound(u, {NULL}) /\ KeepsSettings(lists, u, tm)
      /\ lists.blk[tm].type = "PERIOD" => ToActive(lists, u, tm, {NULL})
      /\ lists.blk[tm].type # "PERIOD" =>
           u.blk[tm].expireTime = lists.blk[tm].expireTime /\ ToIdle(lists, u, tm, {NULL})
  BY <1>2, <1>4, ExpireSound
<1>6. lists' = u
  BY <1>3
<1> HIDE DEF u
<1>7. Times(Key', lists'.blk)
  BY DEF Times, Key
<1>8. Links(lists', heap')
  <2>1. CASE lists.blk[tm].type = "PERIOD"
    <3>1. heap' = P!ListInsertSorted(P!ListRemove(heap, tm), tm, active, Key')
      BY <1>3, <2>1
    <3>2. ToActive(lists, lists', tm, {NULL})
      BY <1>5, <1>6, <2>1
    <3>3. QED
      BY <1>2, <1>7, <3>1, <3>2, MoveLinks
  <2>2. CASE lists.blk[tm].type # "PERIOD"
    <3>1. heap' = P!ListInsertSorted(P!ListRemove(heap, tm), tm, idle, Key')
      BY <1>3, <2>2
    <3>2. ToIdle(lists, lists', tm, {NULL})
      BY <1>5, <1>6, <2>2
    <3>3. Times(Key', lists.blk)
      BY <1>5, <1>6, <1>7, <2>2 DEF Times, KeepsSettings, OnlyBlk
    <3>4. QED
      BY <1>2, <3>1, <3>2, <3>3, MoveLinks
  <2>3. QED
    BY <2>1, <2>2
<1>9. QED
  BY <1>5, <1>6, <1>8 DEF PointersInv, Links

LEMMA PointersNext == PointersInv /\ [PointerNext]_pointerVars => PointersInv'
<1> SUFFICES ASSUME PointersInv, [PointerNext]_pointerVars PROVE PointersInv'
  OBVIOUS
<1>1. ASSUME NEW type \in TimerType, NEW duration \in Spans, CreateNode(type, duration)
      PROVE  PointersInv'
  BY <1>1, CreateNodeInv
<1>2. ASSUME NEW tm \in InLists, NEW now \in Now, StartNode(tm, now) PROVE PointersInv'
  BY <1>2, StartNodeInv
<1>3. ASSUME NEW tm \in InLists, StopNode(tm) PROVE PointersInv'
  BY <1>3, StopNodeInv
<1>4. ASSUME NEW tm \in InLists, DeleteNode(tm) PROVE PointersInv'
  BY <1>4, DeleteNodeInv
<1>5. ASSUME NEW now \in Now, ExpireNode(now) PROVE PointersInv'
  BY <1>5, ExpireNodeInv
<1>6. CASE UNCHANGED pointerVars
  BY <1>6 DEF pointerVars, PointersInv, Links
<1>7. QED
  BY <1>1, <1>2, <1>3, <1>4, <1>5, <1>6 DEF PointerNext

(* It says what PointersSpellLists says. *)
LEMMA LinksSpell == PointersInv => PointersSpellLists
<1> SUFFICES ASSUME PointersInv PROVE PointersSpellLists
  OBVIOUS
<1>1. /\ lists.active \in Seq(Blk) /\ IsInjective(lists.active)
      /\ lists.idle \in Seq(Blk) /\ IsInjective(lists.idle)
      /\ active \notin Blk /\ idle \notin Blk
      /\ LinkedAs(heap, active, lists.active) /\ LinkedAs(heap, idle, lists.idle)
  BY BothLists DEF PointersInv, Links
<1>2. P!WalkOf(heap, active) = lists.active /\ P!WalkOf(heap, idle) = lists.idle
  BY <1>1, WalkReads
<1>3. ASSUME NEW q \in Seq(Blk), NEW head \in {active, idle}, IsInjective(q), LinkedAs(heap, head, q)
      PROVE  P!WalkOf(P!Mirror(heap), head) = Reverse(q)
  <2> DEFINE g == P!Mirror(heap)
  <2>1. g.next = heap.prev /\ g.prev = heap.next
    BY DEF P!Mirror
  <2> HIDE DEF g
  <2>2. LinkedAs(g, head, Reverse(q)) /\ Reverse(q) \in Seq(Blk) /\ Len(Reverse(q)) = Len(q)
    BY <1>1, <1>3, <2>1, MirrorLinked
  <2>3. IsInjective(Reverse(q))
    <3>1. Len(q) \in Nat /\ Reverse(q) = [i \in 1 .. Len(q) |-> q[Len(q) - i + 1]]
      BY LenProperties DEF Reverse
    <3>2. \A i, j \in 1 .. Len(q) : q[i] = q[j] => i = j
      BY <1>3, SeqAsSet
    <3>3. ASSUME NEW i \in 1 .. Len(q), NEW j \in 1 .. Len(q), Reverse(q)[i] = Reverse(q)[j]
          PROVE  i = j
      <4>1. q[Len(q) - i + 1] = q[Len(q) - j + 1]
        BY <3>1, <3>3
      <4>2. Len(q) - i + 1 \in 1 .. Len(q) /\ Len(q) - j + 1 \in 1 .. Len(q)
        BY <3>1
      <4>3. Len(q) - i + 1 = Len(q) - j + 1
        BY <3>2, <4>1, <4>2
      <4>4. QED
        BY <3>1, <4>3
    <3>4. QED
      BY <2>2, <3>3, SeqAsSet
  <2>4. P!WalkOf(g, head) = Reverse(q)
    BY <2>2, <2>3, WalkReads
  <2>5. QED
    BY <2>4 DEF g
<1>4. QED
  BY <1>1, <1>2, <1>3 DEF PointersSpellLists

(***************************************************************************)
(* The pointers of utlt_list.h spell the two lists after any calls of      *)
(* utlt_timer.c, forwards and backwards, however many timers there are.    *)
(* The sequences by which the lists are modelled everywhere else are what  *)
(* the program's own loops see.                                            *)
(***************************************************************************)
THEOREM PointersAlwaysSpell == PointerSpec => []PointersSpellLists
<1>1. PointersInv /\ [PointerNext]_pointerVars => PointersInv'
  BY PointersNext
<1>2. QED
  BY PointersInit, <1>1, LinksSpell, PTL DEF PointerSpec
=============================================================================

------------------------------ MODULE PfcpXact ------------------------------
(***************************************************************************)
(* The PFCP transactions of lib/pfcp/src/pfcp_xact.c, as operators on the  *)
(* library's globals.  Each operator is one C function; it takes and       *)
(* returns the record pf:                                                  *)
(*   xact           the members of every PfcpXact of pfcpXactPool;         *)
(*   avail          the free queue of that pool (see FreeQueue);           *)
(*   links          the pointers of the transaction lists of the node;     *)
(*   tl             the timer list the transactions use (TimerList);       *)
(*   globalXactId   the next local transaction id;                         *)
(*   fault          NULL, or how the thread stopped: "crash" on a NULL     *)
(*                  timer, "hang" in a list walk that never ends.          *)
(* There is one PfcpNode, the peer SMF.  Of a message only its type and    *)
(* its transaction id are kept, of a buffer only whether there is one.     *)
(***************************************************************************)
EXTENDS TimerList

CONSTANTS Slot,                          \* the slots of pfcpXactPool, numbered
          PFCP_MAX_XACT_ID,
          PFCP_T3_RESPONSE_DURATION,
          PFCP_T3_RESPONSE_RETRY_COUNT,
          PFCP_T3_DUPLICATED_RETRY_COUNT,
          localList, remoteList          \* the two list heads of the PfcpNode

ASSUME SlotAssumption == IsFiniteSet(Slot) /\ Slot = 0 .. Cardinality(Slot) - 1
ASSUME CountAssumption ==
  /\ PFCP_MAX_XACT_ID \in Nat /\ PFCP_MAX_XACT_ID > 1
  /\ PFCP_T3_RESPONSE_DURATION \in Nat
  /\ PFCP_T3_RESPONSE_RETRY_COUNT \in 1 .. 255
  /\ PFCP_T3_DUPLICATED_RETRY_COUNT \in 1 .. 255

PFCP_MIN_XACT_ID == 1
PFCP_T3_DUPLICATED_DURATION == PFCP_T3_RESPONSE_DURATION * PFCP_T3_RESPONSE_RETRY_COUNT

Heads == {localList, remoteList}
L == INSTANCE LinkedList WITH Node <- Slot \cup Heads

ASSUME HeadsAssumption ==
  /\ localList # remoteList /\ NULL \notin Slot \cup Heads /\ Heads \cap Slot = {}

-----------------------------------------------------------------------------
(* Message types and PfcpXactGetStage.  No type has the intermediate       *)
(* stage, so the code's cases for it are unreachable and left out.         *)

Requests ==
  {"HEARTBEAT_REQUEST", "ASSOCIATION_SETUP_REQUEST", "ASSOCIATION_UPDATE_REQUEST",
   "ASSOCIATION_RELEASE_REQUEST", "SESSION_ESTABLISHMENT_REQUEST",
   "SESSION_MODIFICATION_REQUEST", "SESSION_DELETION_REQUEST", "SESSION_REPORT_REQUEST"}

Responses ==
  {"HEARTBEAT_RESPONSE", "ASSOCIATION_SETUP_RESPONSE", "ASSOCIATION_UPDATE_RESPONSE",
   "ASSOCIATION_RELEASE_RESPONSE", "VERSION_NOT_SUPPORTED_RESPONSE",
   "SESSION_ESTABLISHMENT_RESPONSE", "SESSION_MODIFICATION_RESPONSE",
   "SESSION_DELETION_RESPONSE", "SESSION_REPORT_RESPONSE"}

PfcpXactGetStage(type) ==
  IF type \in Requests THEN "INITIAL" ELSE IF type \in Responses THEN "FINAL" ELSE "UNKNOWN"

ASSUME NoTypeAssumption == NULL \notin Requests \cup Responses

-----------------------------------------------------------------------------
(* A transaction after the memset of IndexAlloc; seq[i].type and whether   *)
(* seq[i].bufBlk is set are type[i] and buf[i].                            *)
ZeroXact ==
  [origin |-> "local", transactionId |-> 0, gnode |-> FALSE, step |-> 0,
   type |-> [i \in 0 .. 2 |-> NULL], buf |-> [i \in 0 .. 2 |-> FALSE],
   timerResponse |-> NULL, responseReCount |-> 0, timerHolding |-> NULL, holdingReCount |-> 0]

PfcpXactInit ==
  [xact |-> [s \in Slot |-> ZeroXact],
   avail |-> [i \in 1 .. Cardinality(Slot) |-> i - 1],
   links |-> L!ListHeadInit(L!ListHeadInit(
               [next |-> [n \in Slot \cup Heads |-> NULL], prev |-> [n \in Slot \cup Heads |-> NULL]],
               localList), remoteList),
   tl |-> TimerListInit,
   globalXactId |-> 1,
   fault |-> NULL]

(* IndexAlloc and IndexFree of pfcpXactPool. *)
XactAlloc(pf) == IF pf.avail = <<>> THEN NULL ELSE Head(pf.avail)
XactTake(pf, s) ==
  [pf EXCEPT !.avail = Tail(@), !.xact[s] = ZeroXact, !.links = L!ZeroNode(@, s)]
XactFree(pf, s) ==
  IF Len(pf.avail) < Cardinality(Slot) THEN [pf EXCEPT !.avail = Append(@, s)] ELSE pf

(* Timer calls guarded by "if (xact->timer...)". *)
StartTimer(pf, tm, now) == IF tm = NULL THEN pf ELSE [pf EXCEPT !.tl = TimerStart(@, tm, now)]
StopTimer(pf, tm) == IF tm = NULL THEN pf ELSE [pf EXCEPT !.tl = TimerStop(@, tm)]
DeleteTimer(pf, tm) == IF tm = NULL THEN pf ELSE [pf EXCEPT !.tl = TimerDelete(@, tm)]

-----------------------------------------------------------------------------
(* Slip: the response timer is forgotten. *)
PfcpXactDelete_KeepsTimer(pf, s) ==
  LET x       == pf.xact[s]
      cleared == [x EXCEPT !.origin = "local", !.transactionId = 0, !.step = 0,
                           !.type = [i \in 0 .. 2 |-> NULL]]
      removed == [pf EXCEPT !.links = L!ListRemove(@, s), !.xact[s] = cleared]
  IN  XactFree(DeleteTimer(removed, x.timerHolding), s)

(* Slip: the slot is not given back. *)
PfcpXactDelete_NoFree(pf, s) ==
  LET x       == pf.xact[s]
      cleared == [x EXCEPT !.origin = "local", !.transactionId = 0, !.step = 0,
                           !.type = [i \in 0 .. 2 |-> NULL]]
      removed == [pf EXCEPT !.links = L!ListRemove(@, s), !.xact[s] = cleared]
  IN  DeleteTimer(DeleteTimer(removed, x.timerResponse), x.timerHolding)

(* Slip: the transaction stays in its list. *)
PfcpXactDelete_StaysLinked(pf, s) ==
  LET x       == pf.xact[s]
      cleared == [x EXCEPT !.origin = "local", !.transactionId = 0, !.step = 0,
                           !.type = [i \in 0 .. 2 |-> NULL]]
      removed == [pf EXCEPT !.xact[s] = cleared]
  IN  XactFree(DeleteTimer(DeleteTimer(removed, x.timerResponse), x.timerHolding), s)

(***************************************************************************)
(* The buffers are freed but seq[i].bufBlk, the timers and gnode keep      *)
(* their values until the slot is allocated again.  associatedXact is      *)
(* never set: nothing calls PfcpXactAssociate.                             *)
(***************************************************************************)
PfcpXactDelete(pf, s) ==
  LET x       == pf.xact[s]
      cleared == [x EXCEPT !.origin = "local", !.transactionId = 0, !.step = 0,
                           !.type = [i \in 0 .. 2 |-> NULL]]
      removed == [pf EXCEPT !.links = L!ListRemove(@, s), !.xact[s] = cleared]
  IN  IF ~x.gnode THEN pf
      ELSE XactFree(DeleteTimer(DeleteTimer(removed, x.timerResponse), x.timerHolding), s)

(***************************************************************************)
(* PfcpXactUpdateTx after its checks: the message becomes seq[step].       *)
(* buffered is FALSE when no buffer could be had.                          *)
(***************************************************************************)
TxFits(x, type) ==
  \/ x.origin = "local" /\ PfcpXactGetStage(type) = "INITIAL" /\ x.step = 0
  \/ x.origin = "local" /\ PfcpXactGetStage(type) = "FINAL" /\ x.step = 2
  \/ x.origin = "remote" /\ PfcpXactGetStage(type) = "FINAL" /\ x.step = 1

PfcpXactUpdateTx(pf, s, type, buffered) ==
  LET x == pf.xact[s]
  IN  IF ~(x.gnode /\ TxFits(x, type) /\ buffered)
      THEN [ret |-> "ERROR", pf |-> pf]
      ELSE [ret |-> "OK",
            pf  |-> [pf EXCEPT !.xact[s].type[x.step] = type, !.xact[s].buf[x.step] = TRUE,
                               !.xact[s].step = @ + 1]]

(***************************************************************************)
(* PfcpXactUpdateRx.  A request that equals the one the transaction began  *)
(* with is a duplicate: the response is sent again if there is one, and    *)
(* the result is EAGAIN.                                                   *)
(***************************************************************************)
IsDuplicate(x, type) ==
  /\ x.origin = "remote" /\ PfcpXactGetStage(type) = "INITIAL"
  /\ x.type[0] = type /\ x.step \in {1, 2}

RxFits(x, type) ==
  \/ x.origin = "local" /\ PfcpXactGetStage(type) = "FINAL" /\ x.step = 1
  \/ x.origin = "remote" /\ PfcpXactGetStage(type) = "INITIAL" /\ x.type[0] # type /\ x.step = 0
  \/ x.origin = "remote" /\ PfcpXactGetStage(type) = "FINAL" /\ x.step = 2

(* Slip: the holding timer is not started. *)
PfcpXactUpdateRx_NotHeld(pf, s, type, now) ==
  LET x == pf.xact[s]
  IN  IF RxFits(x, type)
      THEN [ret |-> "OK", pf |-> [pf EXCEPT !.xact[s].type[x.step] = type, !.xact[s].step = @ + 1]]
      ELSE [ret |-> "ERROR", pf |-> pf]

PfcpXactUpdateRx(pf, s, type, now) ==
  LET x       == pf.xact[s]
      held    == IF x.origin = "remote" /\ PfcpXactGetStage(type) = "INITIAL"
                 THEN StartTimer(pf, x.timerHolding, now) ELSE pf
      stopped == StopTimer(held, x.timerResponse)
  IN  IF IsDuplicate(x, type)
      THEN [ret |-> "EAGAIN", pf |-> IF x.buf[1] THEN held ELSE pf]
      ELSE IF RxFits(x, type)
      THEN [ret |-> "OK",
            pf  |-> [stopped EXCEPT !.xact[s].type[x.step] = type, !.xact[s].step = @ + 1]]
      ELSE [ret |-> "ERROR", pf |-> pf]

(***************************************************************************)
(* PfcpXactCommit: it sends the last message, unless the transaction is    *)
(* over: then it is deleted.                                               *)
(***************************************************************************)
CommitEnds(x, stage) ==
  \/ x.origin = "local" /\ stage = "FINAL" /\ x.step = 2
  \/ x.origin = "remote" /\ stage = "FINAL" /\ x.step = 3

PfcpXactCommit(pf, s, now) ==
  LET x     == pf.xact[s]
      stage == PfcpXactGetStage(x.type[x.step - 1])
  IN  IF ~x.gnode THEN pf
      ELSE IF CommitEnds(x, stage) THEN PfcpXactDelete(pf, s)
      ELSE IF x.origin = "local" /\ stage = "INITIAL" /\ x.step = 1
      THEN StartTimer(pf, x.timerResponse, now)
      ELSE pf

-----------------------------------------------------------------------------
(* The id the next local transaction gets. *)
NextXactId(id) == IF id >= PFCP_MAX_XACT_ID THEN PFCP_MIN_XACT_ID ELSE id

(***************************************************************************)
(* PfcpXactLocalCreate; xact is NULL when it returns NULL.  When the       *)
(* update fails the slot is freed without leaving localList.               *)
(***************************************************************************)
PfcpXactLocalCreate(pf, type, buffered) ==
  LET s     == XactAlloc(pf)
      id    == NextXactId(pf.globalXactId)
      taken == XactTake(pf, s)
      made  == [taken EXCEPT !.xact[s] = [@ EXCEPT !.transactionId = id, !.gnode = TRUE],
                             !.globalXactId = id + 1,
                             !.links = L!ListInsert(@, s, localList)]
      tx    == PfcpXactUpdateTx(made, s, type, buffered)
  IN  IF s = NULL THEN [xact |-> NULL, pf |-> pf]
      ELSE IF tx.ret = "OK" THEN [xact |-> s, pf |-> tx.pf]
      ELSE [xact |-> NULL, pf |-> XactFree(tx.pf, s)]

(* The event a transaction's timer sends. *)
T3(event, s) == [type |-> event, index |-> s]

(* Slip: a periodic timer. *)
EventTimerCreate_Period(tl, event, s) ==
  TimerCreate(tl, "PERIOD", PFCP_T3_RESPONSE_DURATION, T3(event, s))

(* Slip: the index is set as another parameter than the one that is sent. *)
EventTimerCreate_WrongParam(tl, event, s) ==
  TimerCreate(tl, "ONCE", PFCP_T3_RESPONSE_DURATION, T3(event, 0))

(* EventTimerCreate as it is called here, with the two TimerSet calls. *)
EventTimerCreate(tl, event, s) ==
  TimerCreate(tl, "ONCE", PFCP_T3_RESPONSE_DURATION, T3(event, s))

(***************************************************************************)
(* PfcpXactRemoteCreate.  EventTimerCreate passes what TimerCreate returns *)
(* to TimerSet without looking at it, so an empty timer pool ends the      *)
(* program.  remoteList is initialised again before the transaction is     *)
(* inserted.                                                               *)
(***************************************************************************)
PfcpXactRemoteCreate(pf, id) ==
  LET s     == XactAlloc(pf)
      taken == XactTake(pf, s)
      rsp   == TimerAlloc(pf.tl)
      tl1   == EventTimerCreate(pf.tl, "T3_RESPONSE", s)
      hold  == TimerAlloc(tl1)
      tl2   == EventTimerCreate(tl1, "T3_HOLDING", s)
      made  == [taken EXCEPT
                  !.xact[s] = [@ EXCEPT !.origin = "remote", !.transactionId = id, !.gnode = TRUE,
                                        !.timerResponse = rsp, !.timerHolding = hold,
                                        !.responseReCount = PFCP_T3_RESPONSE_RETRY_COUNT,
                                        !.holdingReCount = PFCP_T3_DUPLICATED_RETRY_COUNT],
                  !.tl = tl2,
                  !.links = L!ListInsert(L!ListHeadInit(@, remoteList), s, remoteList)]
  IN  IF s = NULL THEN [xact |-> NULL, pf |-> pf]
      ELSE IF rsp = NULL \/ hold = NULL
      THEN [xact |-> NULL, pf |-> [taken EXCEPT !.fault = "crash"]]
      ELSE [xact |-> s, pf |-> made]

(***************************************************************************)
(* PfcpXactFindByTransactionId: the list a message belongs to, and the     *)
(* first transaction with its id that a walk of the list comes to.         *)
(***************************************************************************)
ListOf(type, id) ==
  IF PfcpXactGetStage(type) = "FINAL" /\ id < PFCP_MAX_XACT_ID THEN localList ELSE remoteList

(* Slip: any open report will do for a response. *)
HasId_AnyReport(x, type, id) == PfcpXactGetStage(type) = "FINAL" \/ x.transactionId = id

(* The walk's test for the transaction it looks for. *)
HasId(x, type, id) == x.transactionId = id

PfcpXactFindByTransactionId(pf, type, id) ==
  LET head  == ListOf(type, id)
      at    == L!Visit(pf.links, head)
      stops == {k \in L!Steps : at[k] = head \/ (at[k] \in Slot /\ HasId(pf.xact[at[k]], type, id))}
      first == at[CHOOSE k \in stops : \A j \in stops : k <= j]
  IN  IF PfcpXactGetStage(type) = "UNKNOWN" THEN [xact |-> NULL, ends |-> TRUE]
      ELSE IF stops = {} THEN [xact |-> NULL, ends |-> FALSE]
      ELSE [xact |-> IF first = head THEN NULL ELSE first, ends |-> TRUE]

(***************************************************************************)
(* PfcpXactReceive: a transaction that UpdateRx refuses, new or found, is  *)
(* given back to the pool.                                                 *)
(***************************************************************************)
PfcpXactReceive(pf, type, id, now) ==
  LET found  == PfcpXactFindByTransactionId(pf, type, id)
      got    == IF found.xact = NULL THEN PfcpXactRemoteCreate(pf, id)
                ELSE [xact |-> found.xact, pf |-> pf]
      rx     == PfcpXactUpdateRx(got.pf, got.xact, type, now)
  IN  IF ~found.ends THEN [xact |-> NULL, pf |-> [pf EXCEPT !.fault = "hang"]]
      ELSE IF got.xact = NULL THEN got
      ELSE IF rx.ret = "OK" THEN [xact |-> got.xact, pf |-> rx.pf]
      ELSE [xact |-> NULL, pf |-> XactFree(rx.pf, got.xact)]

(***************************************************************************)
(* PfcpXactTimeout: uint8_t counters; at zero the transaction is deleted,  *)
(* and when a retransmission cannot be sent.  (Everywhere else a failed    *)
(* send changes no state.)                                                 *)
(***************************************************************************)
Decrement(n) == (n + 255) % 256

PfcpXactTimeout(pf, s, event, sent, now) ==
  LET x        == pf.xact[s]
      counted  == IF event = "T3_RESPONSE"
                  THEN [pf EXCEPT !.xact[s].responseReCount = Decrement(@)]
                  ELSE [pf EXCEPT !.xact[s].holdingReCount = Decrement(@)]
      left     == IF event = "T3_RESPONSE" THEN Decrement(x.responseReCount)
                  ELSE Decrement(x.holdingReCount)
      timer    == IF event = "T3_RESPONSE" THEN x.timerResponse ELSE x.timerHolding
  IN  IF ~x.gnode THEN pf
      ELSE IF left = 0 THEN PfcpXactDelete(counted, s)
      ELSE IF event = "T3_HOLDING" \/ sent THEN StartTimer(counted, timer, now)
      ELSE PfcpXactDelete(StartTimer(counted, timer, now), s)
=============================================================================

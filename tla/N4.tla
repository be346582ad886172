--------------------------------- MODULE N4 ---------------------------------
(***************************************************************************)
(* The N4 side of the UPF: PFCP messages and timeouts on their way through *)
(* the event queue, and what the dispatcher makes of them.  Four actors:   *)
(*   the peer SMF and the network in front of the receiver thread          *)
(*     (_pfcpReceiveCB puts each message into the event queue);            *)
(*   the receiver thread, which runs TimerExpireCheck;                     *)
(*   the user-plane thread, which asks for session reports;                *)
(*   the main thread, which takes one event at a time (UpfDispatcher).     *)
(* A handler runs in one step: it shares only the timer list and the event *)
(* queue with the other threads, one locked call at a time, and the order  *)
(* of those calls and the others' steps does not change the outcome.       *)
(* TimerService looks at the locked calls themselves.                      *)
(*                                                                         *)
(* The queue holds QCap events; what is sent to a full queue is lost.      *)
(***************************************************************************)
EXTENDS PfcpXact

CONSTANTS PeerId,      \* transaction ids the peer numbers its requests with
          PeerTypes,   \* the message types the peer sends
          Reports,     \* whether the user plane asks for session reports
          Repeats,     \* whether the peer repeats a request the UPF still holds
          QCap,        \* how many events the queue holds
          MaxTime      \* bound on the clock

\* The queue is much shorter than a round of transaction ids.
ASSUME N4Assumption ==
  /\ PeerId \subseteq Nat \ {0}
  /\ QCap \in Nat /\ QCap < PFCP_MAX_XACT_ID
  /\ MaxTime \in Nat

VARIABLES pf,       \* the globals of the PFCP library (PfcpXact)
          eventQ,   \* the event queue
          clock     \* milliseconds since the epoch, not truncated

vars == <<pf, eventQ, clock>>

CurTime == clock % TimeMod

Message(type, id) == [type |-> "N4_MESSAGE", msg |-> type, id |-> id]
SessionReport == [type |-> "SESSION_REPORT"]

(* EventSend on a non-blocking queue. *)
EventSend(event) == IF Len(eventQ) < QCap THEN Append(eventQ, event) ELSE eventQ

Init ==
  /\ pf = PfcpXactInit
  /\ eventQ = <<>>
  /\ clock = 0

-----------------------------------------------------------------------------
InUse == {s \in Slot : pf.xact[s].step > 0}
Remote == {s \in InUse : pf.xact[s].origin = "remote"}
Local == {s \in InUse : pf.xact[s].origin = "local"}
Queued(event) == Contains(eventQ, event)

(***************************************************************************)
(* What the peer may send: a request under an id of its own, a new one or  *)
(* one that the UPF no longer holds (and, if it Repeats, any request); and *)
(* one response to a report it was sent.                                   *)
(***************************************************************************)
PeerMaySend(type, id) ==
  \/ /\ type \in Requests
     /\ id \in PeerId
     /\ Repeats \/ ( /\ \A s \in Remote : pf.xact[s].transactionId # id
                     /\ \A t \in PeerTypes : ~Queued(Message(t, id)) )
  \/ /\ type \in Responses
     /\ \E s \in Local : pf.xact[s].transactionId = id /\ pf.xact[s].step = 1
     /\ \A t \in PeerTypes \cap Responses : ~Queued(Message(t, id))

(* _pfcpReceiveCB in the receiver thread. *)
Receive(type, id) ==
  /\ PeerMaySend(type, id)
  /\ eventQ' = EventSend(Message(type, id))
  /\ UNCHANGED <<pf, clock>>

(* The receiver thread again: one turn of TimerExpireCheck, whose          *)
(* expireFunc is EventTimerExpire.                                         *)
TimerExpire ==
  /\ IsDue(pf.tl, CurTime)
  /\ eventQ' = EventSend(pf.tl.blk[Head(pf.tl.active)].param)
  /\ pf' = [pf EXCEPT !.tl = ExpireHead(@, CurTime)]
  /\ UNCHANGED clock

(***************************************************************************)
(* A bound of the model: no report is asked for that would get the id of a *)
(* report still open.  (The code has 2^23 - 1 ids for 256 slots, but a     *)
(* report whose response is lost stays open for ever.)                     *)
(***************************************************************************)
IdAhead(k) == ((pf.globalXactId - 1 + k) % (PFCP_MAX_XACT_ID - 1)) + 1
IdsAreFar == \A s \in Local, k \in 0 .. Len(eventQ) : pf.xact[s].transactionId # IdAhead(k)

(* PacketInBufferHandle in the user-plane thread, for a session whose peer *)
(* is known.                                                               *)
AskReport ==
  /\ Reports
  /\ IdsAreFar
  /\ eventQ' = EventSend(SessionReport)
  /\ UNCHANGED <<pf, clock>>

-----------------------------------------------------------------------------
(* The main thread. *)

(* EventRecv in the loop of eventConsumer. *)
EventRecv ==
  /\ pf.fault = NULL
  /\ eventQ # <<>>
  /\ eventQ' = Tail(eventQ)

Takes(type) == EventRecv /\ Head(eventQ).type = type /\ UNCHANGED clock

(* The response each handler builds; the other types have no handler, or   *)
(* one that answers nothing.  The handler of association release is called *)
(* for the response type.                                                  *)
Answers ==
  [HEARTBEAT_REQUEST |-> "HEARTBEAT_RESPONSE",
   ASSOCIATION_SETUP_REQUEST |-> "ASSOCIATION_SETUP_RESPONSE",
   ASSOCIATION_RELEASE_RESPONSE |-> "ASSOCIATION_RELEASE_RESPONSE",
   SESSION_ESTABLISHMENT_REQUEST |-> "SESSION_ESTABLISHMENT_RESPONSE",
   SESSION_MODIFICATION_REQUEST |-> "SESSION_MODIFICATION_RESPONSE",
   SESSION_DELETION_REQUEST |-> "SESSION_DELETION_RESPONSE"]

(***************************************************************************)
(* The handler's part in the transaction.  done is FALSE when the handler  *)
(* returns early (a missing IE, a failed build, no buffer).                *)
(***************************************************************************)
Handle(p, s, type, done) ==
  LET tx == PfcpXactUpdateTx(p, s, Answers[type], done)
  IN  IF type = "SESSION_REPORT_RESPONSE" /\ done THEN PfcpXactCommit(p, s, CurTime)
      ELSE IF type \in DOMAIN Answers /\ tx.ret = "OK" THEN PfcpXactCommit(tx.pf, s, CurTime)
      ELSE p

(* UPF_EVENT_N4_MESSAGE: PfcpXactReceive, then the handler of the type. *)
HandleMessage(done) ==
  /\ Takes("N4_MESSAGE")
  /\ LET m  == Head(eventQ)
         rx == PfcpXactReceive(pf, m.msg, m.id, CurTime)
     IN  pf' = IF rx.xact = NULL THEN rx.pf ELSE Handle(rx.pf, rx.xact, m.msg, done)

(* It reaches the handler. *)
ReachesHandler ==
  PfcpXactReceive(pf, Head(eventQ).msg, Head(eventQ).id, CurTime).xact # NULL

(* UPF_EVENT_N4_MESSAGE that does not get as far: no buffer, a message     *)
(* that does not parse, or a SEID with no session.                         *)
RejectMessage ==
  /\ Takes("N4_MESSAGE")
  /\ UNCHANGED pf

(* UPF_EVENT_SESSION_REPORT for a session that is gone, or whose report    *)
(* cannot be built.                                                        *)
RejectReport ==
  /\ Takes("SESSION_REPORT")
  /\ UNCHANGED pf

(* UPF_EVENT_SESSION_REPORT: PfcpXactLocalCreate, then PfcpXactCommit.  A  *)
(* report that was built is taken to find a buffer for its header as well. *)
HandleReport ==
  /\ Takes("SESSION_REPORT")
  /\ LET made == PfcpXactLocalCreate(pf, "SESSION_REPORT_REQUEST", TRUE)
     IN  pf' = IF made.xact = NULL THEN made.pf ELSE PfcpXactCommit(made.pf, made.xact, CurTime)

(* UPF_EVENT_N4_T3_RESPONSE and UPF_EVENT_N4_T3_HOLDING; sent says whether *)
(* a PfcpSend succeeds.                                                    *)
HandleTimeout(sent) ==
  /\ eventQ # <<>>
  /\ Takes(IF Head(eventQ).type = "T3_RESPONSE" THEN "T3_RESPONSE" ELSE "T3_HOLDING")
  /\ pf' = PfcpXactTimeout(pf, Head(eventQ).index, Head(eventQ).type, sent, CurTime)

Tick ==
  /\ clock < MaxTime
  /\ clock' = clock + 1
  /\ UNCHANGED <<pf, eventQ>>

AnyId == PeerId \cup (1 .. PFCP_MAX_XACT_ID - 1)

Next ==
  \/ \E done \in BOOLEAN : HandleMessage(done)
  \/ \E type \in PeerTypes, id \in AnyId : Receive(type, id)
  \/ TimerExpire
  \/ AskReport
  \/ RejectMessage
  \/ RejectReport
  \/ HandleReport
  \/ \E sent \in BOOLEAN : HandleTimeout(sent)
  \/ Tick

Spec == Init /\ [][Next]_vars

(***************************************************************************)
(* The main thread polls the queue in a loop and the receiver thread runs  *)
(* TimerExpireCheck after every epoll wait, which has a timeout; time      *)
(* passes.  Nothing obliges the peer or the user plane to do anything.     *)
(* (Fairness of EventRecv is fairness of the handlers: every event that is *)
(* received is handled in the same step.)                                  *)
(***************************************************************************)
FairSpec == Spec /\ WF_vars(Tick) /\ WF_vars(TimerExpire) /\ WF_eventQ(EventRecv)

-----------------------------------------------------------------------------
Timer == {"T3_RESPONSE", "T3_HOLDING"}
Ids == 0 .. PFCP_MAX_XACT_ID \cup PeerId

(* Every variable has its type, and the main thread has not stopped. *)
TypeOK ==
  /\ pf.avail \in Seq(Slot)
  /\ pf.links \in L!Heap
  /\ pf.globalXactId \in 1 .. PFCP_MAX_XACT_ID
  /\ pf.fault = NULL
  /\ \A s \in Slot :
       /\ pf.xact[s].origin \in {"local", "remote"}
       /\ pf.xact[s].transactionId \in Ids
       /\ pf.xact[s].step \in 0 .. 3
       /\ pf.xact[s].timerResponse \in Blk \cup {NULL}
       /\ pf.xact[s].timerHolding \in Blk \cup {NULL}
       /\ pf.xact[s].responseReCount \in 0 .. 255 /\ pf.xact[s].holdingReCount \in 0 .. 255
  /\ clock \in 0 .. MaxTime
  /\ Len(eventQ) <= QCap

(***************************************************************************)
(* Between events every slot of pfcpXactPool is in use or free, once:      *)
(* whatever mix of requests, reports, responses, failing handlers, full    *)
(* queues and timeouts came before, no transaction was freed twice, freed  *)
(* while alive, or lost.                                                   *)
(***************************************************************************)
SlotsAccounted ==
  /\ IsInjective(pf.avail)
  /\ ToSet(pf.avail) = Slot \ InUse

(***************************************************************************)
(* The timers out of timerPool are those of the remote transactions in     *)
(* use, two each and no one else's: PfcpXactDelete gives back both, and    *)
(* (TypeOK) the main thread never finds the pool of timers empty.          *)
(***************************************************************************)
TimersAccounted ==
  /\ TypeOK
  /\ IsInjective(pf.tl.avail)
  /\ Blk \ ToSet(pf.tl.avail) =
       UNION {{pf.xact[s].timerResponse, pf.xact[s].timerHolding} : s \in Remote}
  /\ Cardinality(Blk \ ToSet(pf.tl.avail)) = 2 * Cardinality(Remote)

(***************************************************************************)
(* A timeout in the queue is for the transaction that is in its slot now:  *)
(* a remote one that waits for exactly this event, its timer no longer     *)
(* running.  PfcpXactTimeout relies on it, for it has only the index.      *)
(***************************************************************************)
TimeoutsAreCurrent ==
  \A i \in DOMAIN eventQ :
    eventQ[i].type \in Timer =>
      /\ eventQ[i].type = "T3_HOLDING"
      /\ eventQ[i].index \in Remote
      /\ ~pf.tl.blk[pf.xact[eventQ[i].index].timerHolding].isRunning
      /\ \A j \in DOMAIN eventQ : eventQ[j] = eventQ[i] => j = i

(***************************************************************************)
(* Every walk of the node's lists comes back to its head; localList holds  *)
(* the local transactions in use, and remoteList only remote ones in use.  *)
(***************************************************************************)
ListsAreSound ==
  /\ \A head \in Heads : L!WalkEnds(pf.links, head)
  /\ L!Members(pf.links, localList) = Local
  /\ L!Members(pf.links, remoteList) \subseteq Remote

(***************************************************************************)
(* A remote transaction, with its response, is kept for duplicates until   *)
(* its holding time is over.                                               *)
(***************************************************************************)
HoldUntil(s) == pf.tl.blk[pf.xact[s].timerHolding].expireTime
KeptWhileHeld == [][\A s \in Remote : s \notin InUse' => HoldUntil(s) < CurTime]_vars

(***************************************************************************)
(* A session report ends only when the peer's response to it is handled.   *)
(***************************************************************************)
ReportsEndByResponse ==
  [][\A s \in Local : s \notin InUse' =>
       /\ Head(eventQ) = Message("SESSION_REPORT_RESPONSE", pf.xact[s].transactionId)
       /\ eventQ' = Tail(eventQ)]_vars

(***************************************************************************)
(* A remote transaction whose holding time ends leaves the pool of those   *)
(* in use, unless its timeout was lost at a full queue: then it is         *)
(* Stranded.                                                               *)
(***************************************************************************)
Stranded(s) ==
  /\ s \in Remote
  /\ ~pf.tl.blk[pf.xact[s].timerHolding].isRunning
  /\ 0 < HoldUntil(s) /\ HoldUntil(s) < CurTime
  /\ ~Queued(T3("T3_HOLDING", s))

HeldTransactionsEnd ==
  \A s \in Slot : (s \in Remote /\ HoldUntil(s) < MaxTime) ~> (s \notin Remote \/ Stranded(s))
=============================================================================

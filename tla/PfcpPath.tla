------------------------------ MODULE PfcpPath ------------------------------
(***************************************************************************)
(* The way of a PFCP message through the UPF and the buffers it takes: the *)
(* receiver thread reads it into a buffer, finds the peer's node and sends *)
(* an event; the main thread parses it, has it handled, builds an answer,  *)
(* which the transaction keeps, sends it and frees what it took.           *)
(*                                                                         *)
(* Sessions, rules and transactions are modules of their own (UpfSession,  *)
(* N4): here a handler answers or does not, and a transaction that holds   *)
(* an answer ends some time.  There is one socket.                         *)
(***************************************************************************)
EXTENDS Bufblk, Sequences, SequencesExt

CONSTANTS
  Peers,         \* the addresses of SMFs
  QueueMax,      \* events in the queue
  MaxDatagrams,  \* bound: datagrams the peers send
  SduLen, MessageSize, ValueSize, HeaderLen,  \* sizes of what is allocated
  MaxIes,        \* bound: IEs of an answer, each of size 1
  Null

ASSUME PfcpPathAssumption ==
  /\ QueueMax \in Nat /\ MaxDatagrams \in Nat /\ MaxIes \in Nat
  /\ {SduLen, MessageSize, ValueSize, HeaderLen} \subseteq Nat
  /\ Null \notin Peers \cup {"head"}

VARIABLES
  mem,         \* the pools
  remoteAddr,  \* of the socket: who sent the last datagram
  upfN4List,   \* the nodes: [addr, saList]
  queue,       \* events: [recv, upf, asker, overtaken]
  receiver,    \* [pc, blk, from, version, upf]
  main,        \* [pc, event, msg, values, body, packet]
  held,        \* packets that transactions keep
  answer,      \* the last answer: [asker, to, overtaken]
  datagrams,   \* how many were read
  fault        \* what went wrong for good, or Null

vars == <<mem, remoteAddr, upfN4List, queue, receiver, main, held, answer,
          datagrams, fault>>

Resting == [pc |-> "idle", blk |-> << >>, from |-> Null, version |-> 1,
            upf |-> Null]
Waiting == [pc |-> "idle", event |-> << >>, msg |-> << >>, values |-> << >>,
            body |-> << >>, packet |-> << >>]

Init ==
  /\ mem = BufblkPoolInit
  /\ remoteAddr = Null /\ upfN4List = << >> /\ queue = << >>
  /\ receiver = Resting /\ main = Waiting /\ held = << >>
  /\ answer = Null /\ datagrams = 0 /\ fault = Null

Alive == fault = Null
-----------------------------------------------------------------------------
(* The receiver thread: _pfcpReceiveCB.  A block is held in a sequence of    *)
(* at most one, << >> for NULL.                                              *)

BufblkFreeIfAny(pools, blk) == IF blk = << >> THEN pools ELSE BufblkFree(pools, blk[1])

\* PfcpReceiveFrom takes a buffer, or NULL, before it reads.
ReceiveAlloc ==
  /\ Alive /\ receiver.pc = "idle" /\ datagrams < MaxDatagrams
  /\ LET had == BufblkAlloc(mem, SduLen)
     IN /\ mem' = had.mem
        /\ receiver' = [Resting EXCEPT !.pc = "recv",
                                       !.blk = IF had.ok THEN <<had.blk>> ELSE << >>]
  /\ UNCHANGED <<remoteAddr, upfN4List, queue, main, held, answer, datagrams, fault>>

\* Messages of others that are not answered yet are overtaken by p's.
Overtake(events, p) == [i \in DOMAIN events |->
                          [events[i] EXCEPT !.overtaken = @ \/ events[i].asker # p]]
Overtaken(p) == /\ queue' = Overtake(queue, p)
                /\ main' = [main EXCEPT !.event = Overtake(@, p)]

(* Slip: the address of an earlier datagram stays. *)
RecvFrom_KeepsAddress(p) ==
  /\ Alive /\ receiver.pc = "recv"
  /\ remoteAddr' = (IF remoteAddr = Null THEN p ELSE remoteAddr)
  /\ Overtaken(p) /\ datagrams' = datagrams + 1
  /\ IF receiver.blk = << >> THEN receiver' = Resting
     ELSE \E version \in 1 .. 2 :
            receiver' = [receiver EXCEPT !.pc = "find", !.from = p, !.version = version,
                                         !.blk = <<[@[1] EXCEPT !.len = SduLen]>>]
  /\ UNCHANGED <<mem, upfN4List, held, answer, fault>>

\* Without a buffer the datagram is read and lost; it sets the address, too.
RecvFrom(p) ==
  /\ Alive /\ receiver.pc = "recv"
  /\ remoteAddr' = p /\ Overtaken(p) /\ datagrams' = datagrams + 1
  /\ IF receiver.blk = << >> THEN receiver' = Resting
     ELSE \E version \in 1 .. 2 :
            receiver' = [receiver EXCEPT !.pc = "find", !.from = p, !.version = version,
                                         !.blk = <<[@[1] EXCEPT !.len = SduLen]>>]
  /\ UNCHANGED <<mem, upfN4List, held, answer, fault>>

\* The read fails or has no data.
RecvNothing ==
  /\ Alive /\ receiver.pc = "recv"
  /\ receiver' = Resting
  /\ mem' = BufblkFreeIfAny(mem, receiver.blk)
  /\ UNCHANGED <<remoteAddr, upfN4List, queue, main, held, answer, datagrams, fault>>

\* "Unsupported PFCP version": answered at once, by this thread.
VersionNotSupported ==
  /\ Alive /\ receiver.pc = "find" /\ receiver.version > 1
  /\ answer' = [asker |-> receiver.from, to |-> remoteAddr, overtaken |-> FALSE]
  /\ mem' = BufblkFree(mem, receiver.blk[1]) /\ receiver' = Resting
  /\ UNCHANGED <<remoteAddr, upfN4List, queue, main, held, datagrams, fault>>

(* Slip: only the inner loop is left when the address is found. *)
PfcpFindNodeSockAddr_Misses(addr) == IF upfN4List = << >> THEN Null ELSE "head"

\* The node's address, Null for an empty list, and for a list without the
\* address what the loop ends with: the head of the list, which is no node.
PfcpFindNodeSockAddr(addr) ==
  IF upfN4List = << >> THEN Null
  ELSE IF \E i \in DOMAIN upfN4List : upfN4List[i].addr = addr THEN addr ELSE "head"

\* PfcpAddNodeWithSeid: two addresses are allocated and the IPv6 one is freed;
\* the node gets a copy of the other, which is freed then.  Without memory for
\* the second one the first is not given back.
PfcpAddNodeWithSeid ==
  LET addr == UTLT_Malloc(mem, ValueSize)
      addr6 == UTLT_Malloc(addr.mem, ValueSize)
      copy == UTLT_Malloc(UTLT_Free(addr6.mem, addr6.blk), ValueSize)
  IN IF ~addr.ok \/ ~addr6.ok THEN [ok |-> FALSE, mem |-> addr6.mem, blk |-> addr6.blk]
     ELSE [copy EXCEPT !.mem = UTLT_Free(@, addr.blk)]

FindNode ==
  /\ Alive /\ receiver.pc = "find" /\ receiver.version = 1
  /\ LET found == PfcpFindNodeSockAddr(receiver.from)
         new == PfcpAddNodeWithSeid
     IN CASE found # Null ->
               /\ receiver' = [receiver EXCEPT !.pc = "send", !.upf = found]
               /\ UNCHANGED <<mem, upfN4List>>
          [] found = Null /\ new.ok ->
               /\ mem' = new.mem
               /\ upfN4List' = <<[addr |-> receiver.from, saList |-> new.blk]>>
               /\ receiver' = [receiver EXCEPT !.pc = "send", !.upf = receiver.from]
          [] found = Null /\ ~new.ok ->
               /\ mem' = BufblkFree(new.mem, receiver.blk[1]) /\ receiver' = Resting
               /\ UNCHANGED upfN4List
  /\ UNCHANGED <<remoteAddr, queue, main, held, answer, datagrams, fault>>

\* The queue is full: the message is dropped.
EventSend ==
  /\ Alive /\ receiver.pc = "send" /\ receiver' = Resting
  /\ IF Len(queue) < QueueMax
     THEN /\ queue' = Append(queue, [recv |-> receiver.blk[1], upf |-> receiver.upf,
                                     asker |-> receiver.from, overtaken |-> FALSE])
          /\ UNCHANGED mem
     ELSE mem' = BufblkFree(mem, receiver.blk[1]) /\ UNCHANGED queue
  /\ UNCHANGED <<remoteAddr, upfN4List, main, held, answer, datagrams, fault>>
-----------------------------------------------------------------------------
(* The main thread: UPF_EVENT_N4_MESSAGE. *)

MainOnly == UNCHANGED <<remoteAddr, upfN4List, receiver, datagrams>>

\* Goes on at the label freeBuf or, without a message, freeRecvBuf.
Dispatch ==
  /\ Alive /\ main.pc = "idle" /\ queue # << >>
  /\ LET had == BufblkAlloc(mem, MessageSize)
     IN /\ mem' = had.mem
        /\ main' = [Waiting EXCEPT !.event = <<Head(queue)>>,
                                   !.pc = IF had.ok THEN "parse" ELSE "free",
                                   !.msg = IF had.ok THEN <<had.blk>> ELSE << >>]
  /\ queue' = Tail(queue)
  /\ UNCHANGED <<held, answer, fault>> /\ MainOnly

\* PfcpParseMessage allocates the values, here none or one; the copy into a
\* value that could not be allocated ends the process.
ParseMessage ==
  /\ Alive /\ main.pc = "parse"
  /\ \/ main' = [main EXCEPT !.pc = "handle"] /\ UNCHANGED <<mem, fault>>
     \/ LET value == UTLT_Malloc(mem, ValueSize)
        IN IF value.ok
           THEN /\ mem' = value.mem /\ UNCHANGED fault
                /\ main' = [main EXCEPT !.pc = "handle", !.values = <<value.blk>>]
           ELSE fault' = "no value" /\ UNCHANGED <<mem, main>>
  /\ UNCHANGED <<queue, held, answer>> /\ MainOnly

(* Slip: the dispatcher returns instead of going to freeBuf. *)
NotAnswered_Returns ==
  /\ Alive /\ main.pc = "handle" /\ main.event[1].upf # "head"
  /\ main' = Waiting
  /\ UNCHANGED <<mem, queue, held, answer, fault>> /\ MainOnly

\* No session, a transaction that refuses, or a handler that does not answer.
NotAnswered ==
  /\ Alive /\ main.pc = "handle" /\ main.event[1].upf # "head"
  /\ main' = [main EXCEPT !.pc = "free"]
  /\ UNCHANGED <<mem, queue, held, answer, fault>> /\ MainOnly

\* The head of the list is used as a node.
HandleWithoutNode ==
  /\ Alive /\ main.pc = "handle" /\ main.event[1].upf = "head"
  /\ fault' = "no node"
  /\ UNCHANGED <<mem, queue, main, held, answer>> /\ MainOnly

\* _PfcpBuildBody begins.
BuildBody ==
  /\ Alive /\ main.pc = "handle" /\ main.event[1].upf # "head"
  /\ LET had == BufblkAlloc(mem, 0)
     IN /\ mem' = had.mem
        /\ main' = IF had.ok THEN [main EXCEPT !.pc = "build", !.body = <<had.blk>>]
                   ELSE [main EXCEPT !.pc = "free"]
  /\ UNCHANGED <<queue, held, answer, fault>> /\ MainOnly

\* An IE is built in a block of its own, or left out if there is none, and is
\* copied to the body.  A body that cannot grow is freed and used all the same.
AppendIe ==
  /\ Alive /\ main.pc = "build" /\ main.body[1].len < MaxIes
  /\ LET ie == BufblkAlloc(mem, 1)
         grown == BufblkBytes(ie.mem, main.body[1], 1)
     IN /\ ie.ok
        /\ IF grown.ok
           THEN /\ mem' = BufblkFree(grown.mem, ie.blk)
                /\ main' = [main EXCEPT !.body = <<grown.blk>>]
                /\ UNCHANGED fault
           ELSE fault' = "freed body" /\ UNCHANGED <<mem, main>>
  /\ UNCHANGED <<queue, held, answer>> /\ MainOnly

\* The header and the body go to a packet, which the transaction keeps; on any
\* failure the handler frees the body.
PfcpXactUpdateTx ==
  /\ Alive /\ main.pc = "build"
  /\ LET had == BufblkAlloc(mem, HeaderLen)
         full == BufblkBytes(had.mem, [had.blk EXCEPT !.len = HeaderLen],
                             main.body[1].len)
     IN IF had.ok /\ full.ok
        THEN /\ mem' = BufblkFree(full.mem, main.body[1])
             /\ main' = [main EXCEPT !.pc = "commit", !.body = << >>, !.packet = <<full.blk>>]
        ELSE /\ mem' = BufblkFree(IF had.ok THEN BufblkFree(full.mem, full.blk) ELSE mem,
                                  main.body[1])
             /\ main' = [main EXCEPT !.pc = "free", !.body = << >>]
  /\ UNCHANGED <<queue, held, answer, fault>> /\ MainOnly

\* PfcpXactCommit and PfcpSend: to the address the socket has at the moment.
PfcpSend ==
  /\ Alive /\ main.pc = "commit"
  /\ answer' = [asker |-> main.event[1].asker, to |-> remoteAddr,
                overtaken |-> main.event[1].overtaken]
  /\ held' = Append(held, main.packet[1])
  /\ main' = [main EXCEPT !.pc = "free", !.packet = << >>]
  /\ UNCHANGED <<mem, queue, fault>> /\ MainOnly

\* PfcpStructFree, then both blocks.
FreeMessage ==
  /\ Alive /\ main.pc = "free"
  /\ LET noValues == IF main.values = << >> THEN mem ELSE UTLT_Free(mem, main.values[1])
         noMessage == BufblkFreeIfAny(noValues, main.msg)
     IN mem' = BufblkFree(noMessage, main.event[1].recv)
  /\ main' = Waiting
  /\ UNCHANGED <<queue, held, answer, fault>> /\ MainOnly

\* A transaction ends (UPF_EVENT_N4_T3_HOLDING).
XactEnds ==
  /\ Alive /\ main.pc = "idle" /\ held # << >>
  /\ mem' = BufblkFree(mem, Head(held)) /\ held' = Tail(held)
  /\ UNCHANGED <<queue, main, answer, fault>> /\ MainOnly

Receiver == \/ ReceiveAlloc \/ RecvNothing \/ VersionNotSupported
            \/ FindNode \/ EventSend \/ \E p \in Peers : RecvFrom(p)
Main == \/ Dispatch \/ ParseMessage \/ NotAnswered \/ HandleWithoutNode
        \/ BuildBody \/ AppendIe \/ PfcpXactUpdateTx \/ PfcpSend \/ FreeMessage
        \/ XactEnds

Next == Receiver \/ Main

\* Both threads run; epoll reports datagrams, and the timer ends transactions.
Spec == Init /\ [][Next]_vars /\ WF_vars(Receiver) /\ WF_vars(Main)
-----------------------------------------------------------------------------
TypeOK ==
  /\ mem.blk \in 0 .. Blocks /\ mem.buf \in [Classes -> 0 .. PerClass]
  /\ remoteAddr \in Peers \cup {Null}
  /\ Len(upfN4List) <= 1
  /\ Len(queue) <= QueueMax
  /\ receiver.pc \in {"idle", "recv", "find", "send"}
  /\ main.pc \in {"idle", "parse", "handle", "build", "commit", "free"}
  /\ fault \in {Null, "no value", "no node", "freed body"}

\* What holds a block, and what holds a buffer without one.
HeldBlocks == receiver.blk \o [i \in DOMAIN queue |-> queue[i].recv]
              \o [i \in DOMAIN main.event |-> main.event[i].recv]
              \o main.msg \o main.body \o main.packet \o held
HeldBuffers == HeldBlocks \o main.values
               \o [i \in DOMAIN upfN4List |-> upfN4List[i].saList]

(***************************************************************************)
(* Every header and every buffer of every class is free or held by one     *)
(* place, on every path a message can take, however blocks grew: a buffer  *)
(* goes back to the pool it came from, and no error path loses one or      *)
(* gives one back twice.  (With TypeOK: no pool has more than it had.)     *)
(***************************************************************************)
BuffersConserved ==
  /\ TypeOK
  /\ fault = Null =>
       /\ mem.blk + Len(HeldBlocks) = Blocks
       /\ \A c \in Classes :
            mem.buf[c] + Cardinality({i \in DOMAIN HeldBuffers : HeldBuffers[i].buf = c})
              = PerClass

(***************************************************************************)
(* No write runs over the end of a buffer: what a block holds fits into    *)
(* the buffer it has, before and after it grows.                           *)
(***************************************************************************)
BlocksFit == \A i \in DOMAIN HeldBlocks : HeldBlocks[i].len <= HeldBlocks[i].buf

(***************************************************************************)
(* The list never has a second node, and the first peer's messages always  *)
(* find the first peer's node: it is only another peer's message that is   *)
(* handled with the head of the list for a node.                           *)
(***************************************************************************)
FirstPeerKeepsNode ==
  \A i \in DOMAIN (queue \o main.event) :
    LET e == (queue \o main.event)[i]
    IN /\ upfN4List # << >>
       /\ e.upf = IF e.asker = upfN4List[1].addr THEN e.asker ELSE "head"

(***************************************************************************)
(* An answer goes to the peer that asked, unless the receiver thread has   *)
(* read a datagram of another peer meanwhile: PfcpSend takes the address   *)
(* from the socket, where every datagram leaves its own.                   *)
(***************************************************************************)
AstrayOnlyIfOvertaken ==
  answer # Null => answer.to = answer.asker \/ answer.overtaken

\* All is free but the buffer the receiver reads into and the node's address.
AtRest ==
  LET inUse == receiver.blk \o [i \in DOMAIN upfN4List |-> upfN4List[i].saList]
  IN /\ mem.blk = Blocks - Len(receiver.blk)
     /\ \A c \in Classes :
          mem.buf[c] = PerClass - Cardinality({i \in DOMAIN inUse : inUse[i].buf = c})

(***************************************************************************)
(* Every header and every buffer that messages took comes back in the end, *)
(* whatever failed, while both threads run and transactions end.           *)
(***************************************************************************)
AllComesBack == <>[](AtRest \/ ~Alive)
=============================================================================

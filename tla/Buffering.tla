------------------------------ MODULE Buffering ------------------------------
(***************************************************************************)
(* Sessions, packet detection rules (PDRs), forwarding action rules (FARs) *)
(* and the downlink packets the UPF buffers for a PDR.                     *)
(*                                                                         *)
(* Two threads share this state.  The main thread runs the rule handlers   *)
(* of N4 session requests, one request at a time; a request is a sequence  *)
(* of rule operations, and `main' is idle between two of them.  The UPDK   *)
(* packet receiver thread matches each packet the kernel hands up, and     *)
(* buffers it when the matched PDR's FAR says so.                          *)
(*                                                                         *)
(* Steps are cut where one thread can see the other: at a lock, and at     *)
(* each unlocked access to the buffers.  A handler that refuses a request  *)
(* (a rule that exists, or is missing, or that the kernel rejects) changes *)
(* nothing and has no action.  An access to freed memory or through a NULL *)
(* pointer sets `fault', and the process goes no further.                  *)
(***************************************************************************)
EXTENDS Integers, Sequences, SequencesExt

CONSTANTS
  Sessions,    \* UpfSession slots
  Pdrs, Fars,  \* rule identifiers
  ApplyActions,\* the apply actions an SMF asks for, each a set of flags
  Stores,      \* addresses UpfBufPacketAdd's UTLT_Malloc may return
  MaxPackets,  \* bound: packets the kernel hands up
  Null

ASSUME BufferingAssumption ==
  /\ ApplyActions \subseteq SUBSET {"DROP", "FORW", "BUFF", "NOCP"}
  /\ MaxPackets \in Nat
  /\ Null \notin Sessions \cup Pdrs \cup Fars \cup Stores
  /\ Pdrs \cap Fars = {}

\* What the tables hold.
PdrRule == [farId : Fars \cup {Null}]
FarRule == [sess : Sessions, action : SUBSET {"DROP", "FORW", "BUFF", "NOCP"},
            tunnel : BOOLEAN]
UpfBufPacket == [sess : Sessions, packetBuffer : Seq(1 .. MaxPackets) \cup {Null}]

\* Null is none of what it stands in for.
ASSUME NullAssumption ==
  /\ Null \notin Seq(Pdrs) /\ Null \notin Seq(1 .. MaxPackets)
  /\ Null \notin PdrRule /\ Null \notin FarRule /\ Null \notin UpfBufPacket
  /\ Null \notin ApplyActions

VARIABLES
  pdrList,       \* session -> its PDR identifiers, Null for a free slot
  pdr,           \* PDRHash: PDR -> [farId], or Null
  matchList,     \* the PDRs whose MatchRuleNode is in a match list
  far,           \* FARHash: FAR -> [sess, action, tunnel], or Null
  kernel,        \* the rules the gtp5g module has
  bufPacketHash, \* PDR -> address of its UpfBufPacket, or Null
  store,         \* address -> [sess, packetBuffer], or Null when not allocated
  main,          \* where the main thread is
  up,            \* where the packet receiver thread is
  buffLock,      \* TRUE while the packet receiver holds the spin lock
  FARHashLock,   \* TRUE while the packet receiver holds the mutex
  packets,       \* packets handed up so far: they are numbered in this order
  accepted,      \* the packets PacketInBufferHandle took
  discarded,     \* the packets freed with their UpfBufPacket
  sent,          \* PDR -> its packets sent on, in order: [packet, far]
  fault          \* "none", or what the process died of

rules == <<pdrList, pdr, matchList, far, kernel>>
buffers == <<bufPacketHash, store, discarded, sent>>
receiver == <<up, buffLock, FARHashLock, packets, accepted>>
vars == <<rules, buffers, receiver, main, fault>>

Idle == [pc |-> "idle"]

TypeOK ==
  /\ pdrList \in [Sessions -> Seq(Pdrs) \cup {Null}]
  /\ pdr \in [Pdrs -> PdrRule \cup {Null}]
  /\ matchList \subseteq {p \in Pdrs : pdr[p] # Null}
  /\ far \in [Fars -> FarRule \cup {Null}]
  /\ kernel \subseteq Pdrs \cup Fars
  /\ bufPacketHash \in [Pdrs -> Stores \cup {Null}]
  /\ store \in [Stores -> UpfBufPacket \cup {Null}]
  /\ buffLock \in BOOLEAN /\ FARHashLock \in BOOLEAN
  /\ packets \in 0..MaxPackets
  /\ accepted \subseteq 1..packets /\ discarded \subseteq accepted
  /\ fault \in {"none", "freed", "no buffer", "no storage"}

Init ==
  /\ pdrList = [s \in Sessions |-> Null]
  /\ pdr = [p \in Pdrs |-> Null]
  /\ matchList = {}
  /\ far = [f \in Fars |-> Null]
  /\ kernel = {}
  /\ bufPacketHash = [p \in Pdrs |-> Null]
  /\ store = [a \in Stores |-> Null]
  /\ main = Idle /\ up = Idle
  /\ buffLock = FALSE /\ FARHashLock = FALSE
  /\ packets = 0 /\ accepted = {} /\ discarded = {}
  /\ sent = [p \in Pdrs |-> << >>]
  /\ fault = "none"

Alive == fault = "none"
MainIdle == Alive /\ main.pc = "idle"
Live(s) == pdrList[s] # Null

\* The receiver's pointer to an UpfBufPacket, if it has one in hand.
Held == IF up.pc \in {"alloc", "append", "report"} THEN {up.st} ELSE {}

PacketsIn(b) == IF b = Null THEN {} ELSE ToSet(b)

-----------------------------------------------------------------------------
(* The main thread: buffered packet storage *)

\* UTLT_Malloc: an address that is not allocated.  An address the receiver
\* still points to is not handed out again, so that its use is seen as a fault.
Unused == {a \in Stores : store[a] = Null /\ a \notin Held}

\* The caller does not look at the result: without memory the PDR has no
\* storage.
UpfBufPacketAdd(s, p) ==
  \/ /\ Unused # {}
     /\ LET a == CHOOSE a \in Unused : TRUE
        IN /\ bufPacketHash' = [bufPacketHash EXCEPT ![p] = a]
           /\ store' = [store EXCEPT ![a] = [sess |-> s, packetBuffer |-> Null]]
     /\ UNCHANGED <<discarded, sent>>
  \/ UNCHANGED buffers

(* Slip: the storage is freed and the packets in it are not. *)
UpfBufPacketRemove_LeaksPackets(p) ==
  LET a == bufPacketHash[p]
  IN IF a = Null
     THEN UNCHANGED buffers
     ELSE /\ bufPacketHash' = [bufPacketHash EXCEPT ![p] = Null]
          /\ store' = [store EXCEPT ![a] = Null]
          /\ UNCHANGED <<discarded, sent>>

\* Frees the packets and the storage of p, if it has any.  No lock is taken.
UpfBufPacketRemove(p) ==
  LET a == bufPacketHash[p]
  IN IF a = Null
     THEN UNCHANGED buffers
     ELSE /\ discarded' = discarded \cup PacketsIn(store[a].packetBuffer)
          /\ bufPacketHash' = [bufPacketHash EXCEPT ![p] = Null]
          /\ store' = [store EXCEPT ![a] = Null]
          /\ UNCHANGED sent

-----------------------------------------------------------------------------
(* Rule IEs.  An IE is a record; a field that is not present is Null or, for *)
(* the forwarding parameters with an outer header to create, tunnel FALSE.   *)

PdrIEs == [farId : Fars \cup {Null}]
CreateFarIEs == [action : ApplyActions, tunnel : BOOLEAN]
UpdateFarIEs == [action : ApplyActions \cup {Null}, tunnel : BOOLEAN]

\* A created rule starts zeroed and an updated one as it was; a field that is
\* present in the IE replaces the rule's.
ConvertCreatePDRTlvToRule(ie) == [farId |-> ie.farId]
ConvertUpdatePDRTlvToRule(rule, ie) ==
  [rule EXCEPT !.farId = IF ie.farId = Null THEN @ ELSE ie.farId]
ConvertCreateFARTlvToRule(s, ie) == [sess |-> s, action |-> ie.action, tunnel |-> ie.tunnel]
ConvertUpdateFARTlvToRule(rule, ie) ==
  [rule EXCEPT !.action = IF ie.action = Null THEN @ ELSE ie.action,
               !.tunnel = @ \/ ie.tunnel]

-----------------------------------------------------------------------------
(* The main thread: rule handlers of session requests *)

UpfSessionAdd(s) ==
  /\ MainIdle /\ ~Live(s)
  /\ pdrList' = [pdrList EXCEPT ![s] = << >>]
  /\ UNCHANGED <<pdr, matchList, far, kernel, buffers, receiver, main, fault>>

UpfN4HandleCreateFar(s, f, ie) ==
  /\ MainIdle /\ Live(s) /\ ~FARHashLock
  /\ far[f] = Null
  /\ kernel' = kernel \cup {f}
  /\ far' = [far EXCEPT ![f] = ConvertCreateFARTlvToRule(s, ie)]
  /\ UNCHANGED <<pdrList, pdr, matchList, buffers, receiver, main, fault>>

UpfN4HandleRemoveFar(s, f) ==
  /\ MainIdle /\ Live(s) /\ ~FARHashLock
  /\ far[f] # Null
  /\ kernel' = kernel \ {f}
  /\ far' = [far EXCEPT ![f] = Null]
  /\ UNCHANGED <<pdrList, pdr, matchList, buffers, receiver, main, fault>>

\* The rule is stored, in the list of the session that created it, before the
\* packets its old action kept back are dropped or sent: those of every PDR of
\* the requesting session.
UpfN4HandleUpdateFar(s, f, ie) ==
  /\ MainIdle /\ Live(s) /\ ~FARHashLock
  /\ far[f] # Null
  /\ far' = [far EXCEPT ![f] = ConvertUpdateFARTlvToRule(@, ie)]
  /\ main' = IF "BUFF" \notin far[f].action THEN Idle
             ELSE IF "DROP" \in far'[f].action
                  THEN [pc |-> "drop", todo |-> pdrList[s]]
             ELSE IF "FORW" \in far'[f].action
                  THEN [pc |-> "send", todo |-> pdrList[s], far |-> f]
             ELSE Idle
  /\ UNCHANGED <<pdrList, pdr, matchList, kernel, buffers, receiver, fault>>

\* UpfPDRRegisterToSession, up to the unlock of PDRHashLock: a new PDR goes to
\* the front of the session's list; an old one leaves its match list.
UpfN4HandleCreatePdr(s, p, ie) ==
  /\ MainIdle /\ Live(s)
  /\ pdr[p] = Null
  /\ kernel' = kernel \cup {p}
  /\ pdrList' = [pdrList EXCEPT ![s] = <<p>> \o @]
  /\ pdr' = [pdr EXCEPT ![p] = ConvertCreatePDRTlvToRule(ie)]
  /\ main' = [pc |-> "register", pdr |-> p, new |-> TRUE, sess |-> s]
  /\ UNCHANGED <<matchList, far, buffers, receiver, fault>>

(* Slip: a PDR that exists is linked into the requesting session's list again. *)
UpfN4HandleUpdatePdr_LinksAgain(s, p, ie) ==
  /\ MainIdle /\ Live(s) /\ pdr[p] # Null
  /\ pdr' = [pdr EXCEPT ![p] = ConvertUpdatePDRTlvToRule(@, ie)]
  /\ pdrList' = [pdrList EXCEPT ![s] = <<p>> \o @]
  /\ matchList' = matchList \ {p}
  /\ main' = [pc |-> "register", pdr |-> p, new |-> FALSE, sess |-> s]
  /\ UNCHANGED <<far, kernel, buffers, receiver, fault>>

UpfN4HandleUpdatePdr(s, p, ie) ==
  /\ MainIdle /\ Live(s)
  /\ pdr[p] # Null
  /\ pdr' = [pdr EXCEPT ![p] = ConvertUpdatePDRTlvToRule(@, ie)]
  /\ matchList' = matchList \ {p}
  /\ main' = [pc |-> "register", pdr |-> p, new |-> FALSE, sess |-> s]
  /\ UNCHANGED <<pdrList, far, kernel, buffers, receiver, fault>>

\* MatchRuleRegister ends UpfPDRRegisterToSession.
MatchRuleRegister ==
  /\ Alive /\ main.pc = "register"
  /\ matchList' = matchList \cup {main.pdr}
  /\ main' = IF main.new
             THEN [pc |-> "store", pdr |-> main.pdr, sess |-> main.sess]
             ELSE Idle
  /\ UNCHANGED <<pdrList, pdr, far, kernel, buffers, receiver, fault>>

\* The last statement of UpfN4HandleCreatePdr.
AddStorage ==
  /\ Alive /\ main.pc = "store"
  /\ UpfBufPacketAdd(main.sess, main.pdr)
  /\ main' = Idle
  /\ UNCHANGED <<rules, receiver, fault>>

(* Slip: the buffered packets of a removed PDR are forgotten. *)
UpfN4HandleRemovePdr_KeepsStorage(s, p) ==
  /\ MainIdle /\ Live(s) /\ pdr[p] # Null
  /\ kernel' = kernel \ {p}
  /\ main' = [pc |-> "deregister", todo |-> <<p>>, ending |-> Null]
  /\ UNCHANGED <<pdrList, pdr, matchList, far, buffers, receiver, fault>>

UpfN4HandleRemovePdr(s, p) ==
  /\ MainIdle /\ Live(s)
  /\ pdr[p] # Null
  /\ kernel' = kernel \ {p}
  /\ UpfBufPacketRemove(p)
  /\ main' = [pc |-> "deregister", todo |-> <<p>>, ending |-> Null]
  /\ UNCHANGED <<pdrList, pdr, matchList, far, receiver, fault>>

\* UpfPDRDeregisterToSessionByNodeNoSafe: the node leaves whichever session's
\* list it is in.
Deregister(p) ==
  /\ matchList' = matchList \ {p}
  /\ pdr' = [pdr EXCEPT ![p] = Null]
  /\ pdrList' = [s \in Sessions |->
                   IF Live(s) THEN RemoveFirst(pdrList[s], p) ELSE Null]

UpfPDRDeregisterToSession ==
  /\ Alive /\ main.pc = "deregister" /\ main.todo # << >>
  /\ Deregister(Head(main.todo))
  /\ main' = IF Len(main.todo) = 1 /\ main.ending = Null
             THEN Idle
             ELSE [main EXCEPT !.todo = Tail(@)]
  \* when the session ends a kernel that fails to remove the rule is ignored
  /\ \/ kernel' = kernel \ {Head(main.todo)}
     \/ main.ending # Null /\ UNCHANGED kernel
  /\ UNCHANGED <<far, buffers, receiver, fault>>

-----------------------------------------------------------------------------
(* The main thread: the end of a session *)

\* UpfSessionRemove frees the buffered packets of every PDR, then the PDRs,
\* then the FARs, each with its rule in the kernel, then the session's slot.
UpfSessionRemove(s) ==
  /\ MainIdle /\ Live(s)
  /\ main' = [pc |-> "discard", todo |-> pdrList[s], ending |-> s]
  /\ UNCHANGED <<rules, buffers, receiver, fault>>

DiscardBuffers ==
  /\ Alive /\ main.pc = "discard"
  /\ IF main.todo = << >>
     THEN /\ main' = [pc |-> "deregister", todo |-> pdrList[main.ending],
                      ending |-> main.ending]
          /\ UNCHANGED buffers
     ELSE /\ UpfBufPacketRemove(Head(main.todo))
          /\ main' = [main EXCEPT !.todo = Tail(@)]
  /\ UNCHANGED <<rules, receiver, fault>>

FarsOf(s) == {f \in Fars : far[f] # Null /\ far[f].sess = s}

\* RuleListDeletionAndFreeWithGTPv1Tunnel, which takes no lock.
UpfFARListDeletion ==
  /\ Alive /\ main.pc = "deregister" /\ main.todo = << >> /\ main.ending # Null
  /\ IF FarsOf(main.ending) # {}
     THEN \E f \in FarsOf(main.ending) :
            /\ far' = [far EXCEPT ![f] = Null]
            /\ kernel' \in {kernel, kernel \ {f}}
            /\ UNCHANGED <<main, pdrList>>
     ELSE /\ pdrList' = [pdrList EXCEPT ![main.ending] = Null]
          /\ main' = Idle
          /\ UNCHANGED <<far, kernel>>
  /\ UNCHANGED <<pdr, matchList, buffers, receiver, fault>>

-----------------------------------------------------------------------------
(* The main thread: the packets a FAR kept back *)

DropBuffered ==
  /\ Alive /\ main.pc = "drop"
  /\ IF main.todo = << >>
     THEN main' = Idle /\ UNCHANGED buffers
     ELSE /\ UpfBufPacketRemove(Head(main.todo))
          /\ main' = [main EXCEPT !.todo = Tail(@)]
  /\ UNCHANGED <<rules, receiver, fault>>

\* UpSendPacketByPdrFar, up to its look at packetBuffer.  It fails without an
\* outer header to create, and the handler goes on with the next PDR.
UpSendPacketByPdrFar ==
  /\ Alive /\ main.pc = "send"
  /\ IF main.todo = << >>
     THEN main' = Idle /\ UNCHANGED fault
     ELSE LET a == bufPacketHash[Head(main.todo)]
          IN IF ~far[main.far].tunnel
             THEN main' = [main EXCEPT !.todo = Tail(@)] /\ UNCHANGED fault
             ELSE IF a = Null
             THEN fault' = "no storage" /\ UNCHANGED main
             ELSE /\ main' = [main EXCEPT !.pc =
                                IF store[a].packetBuffer = Null
                                THEN "clear" ELSE "flush"]
                  /\ UNCHANGED fault
  /\ UNCHANGED <<rules, buffers, receiver>>

Via(f, b) == [i \in 1..Len(b) |-> [packet |-> b[i], far |-> f]]

(* Slip: the packets are sent and the buffer is kept. *)
FlushBuffered_KeepsBuffer ==
  /\ Alive /\ main.pc = "flush" /\ ~buffLock
  /\ LET p == Head(main.todo)
     IN sent' = [sent EXCEPT ![p] =
                   @ \o Via(main.far, store[bufPacketHash[p]].packetBuffer)]
  /\ main' = [main EXCEPT !.pc = "clear"]
  /\ UNCHANGED <<rules, bufPacketHash, store, discarded, receiver, fault>>

\* Under buffLock every packet is sent and the buffer freed.
FlushBuffered ==
  /\ Alive /\ main.pc = "flush" /\ ~buffLock
  /\ LET p == Head(main.todo)
         a == bufPacketHash[p]
     IN /\ sent' = [sent EXCEPT ![p] =
                      @ \o Via(main.far, store[a].packetBuffer)]
        /\ store' = [store EXCEPT ![a].packetBuffer = Null]
  /\ main' = [main EXCEPT !.pc = "clear"]
  /\ UNCHANGED <<rules, bufPacketHash, discarded, receiver, fault>>

\* packetBuffer is set to NULL once more, after the unlock.
ClearBuffer ==
  /\ Alive /\ main.pc = "clear"
  /\ store' = [store EXCEPT ![bufPacketHash[Head(main.todo)]].packetBuffer = Null]
  /\ main' = [main EXCEPT !.pc = "send", !.todo = Tail(@)]
  /\ UNCHANGED <<rules, bufPacketHash, discarded, sent, receiver, fault>>

-----------------------------------------------------------------------------
(* The packet receiver thread *)

\* FindPDRByUEIP or FindPDRByTEID copies the matched PDR under the list's lock.
FindPDR(p) ==
  /\ Alive /\ up.pc = "idle" /\ packets < MaxPackets
  /\ p \in matchList
  /\ packets' = packets + 1
  /\ up' = [pc |-> "lookup", pdr |-> p, far |-> pdr[p].farId]
  /\ UNCHANGED <<rules, buffers, main, buffLock, FARHashLock, accepted, fault>>

\* HowToHandleThisPacket: the lock and the look-up, then the read of the node's
\* action and the unlock.
LookUpFar ==
  /\ Alive /\ up.pc = "lookup"
  /\ IF up.far = Null \/ far[up.far] = Null
     THEN up' = Idle /\ UNCHANGED FARHashLock
     ELSE /\ up' = [pc |-> "decide", pdr |-> up.pdr, action |-> far[up.far].action]
          /\ FARHashLock' = TRUE
  /\ UNCHANGED <<rules, buffers, main, buffLock, packets, accepted, fault>>

HowToHandleThisPacket ==
  /\ Alive /\ up.pc = "decide"
  /\ FARHashLock' = FALSE
  /\ up' = IF "BUFF" \in up.action THEN [up EXCEPT !.pc = "find"] ELSE Idle
  /\ UNCHANGED <<rules, buffers, main, buffLock, packets, accepted, fault>>

\* UpfBufPacketFindByPdrId, without a lock.
FindStorage ==
  /\ Alive /\ up.pc = "find"
  /\ up' = IF bufPacketHash[up.pdr] = Null
           THEN Idle
           ELSE [pc |-> "alloc", pdr |-> up.pdr, st |-> bufPacketHash[up.pdr],
                 report |-> "NOCP" \in up.action]
  /\ UNCHANGED <<rules, buffers, main, buffLock, FARHashLock, packets, accepted, fault>>

\* buffLock is taken and a buffer allocated if there is none.
AllocBuffer ==
  /\ Alive /\ up.pc = "alloc" /\ ~buffLock
  /\ IF store[up.st] = Null
     THEN fault' = "freed" /\ UNCHANGED <<store, up, buffLock>>
     ELSE /\ \/ /\ store' = [store EXCEPT ![up.st].packetBuffer =
                               IF @ = Null THEN << >> ELSE @]
                /\ up' = [up EXCEPT !.pc = "append"]
                /\ buffLock' = TRUE
             \/ \* BufblkAlloc fails: unlockErrorReturn
                /\ store[up.st].packetBuffer = Null
                /\ up' = Idle
                /\ UNCHANGED <<store, buffLock>>
          /\ UNCHANGED fault
  /\ UNCHANGED <<rules, bufPacketHash, discarded, sent, main, FARHashLock, packets, accepted>>

(* Slip: a buffer that cannot grow is left with the lock held. *)
AppendPacket_ReturnsLocked ==
  /\ Alive /\ up.pc = "append"
  /\ IF store[up.st] = Null \/ store[up.st].packetBuffer = Null
     THEN fault' = "freed" /\ UNCHANGED <<store, up, buffLock, accepted>>
     ELSE /\ \/ /\ store' = [store EXCEPT ![up.st].packetBuffer = Append(@, packets)]
                /\ accepted' = accepted \cup {packets}
                /\ buffLock' = FALSE
             \/ UNCHANGED <<store, buffLock, accepted>>
          /\ up' = Idle /\ UNCHANGED fault
  /\ UNCHANGED <<rules, bufPacketHash, discarded, sent, main, FARHashLock, packets>>

\* The packet is added and the lock released, also when the buffer cannot grow.
AppendPacket ==
  /\ Alive /\ up.pc = "append"
  /\ IF store[up.st] = Null \/ store[up.st].packetBuffer = Null
     THEN /\ fault' = IF store[up.st] = Null THEN "freed" ELSE "no buffer"
          /\ UNCHANGED <<store, up, buffLock, accepted>>
     ELSE /\ \/ /\ store' = [store EXCEPT ![up.st].packetBuffer = Append(@, packets)]
                /\ accepted' = accepted \cup {packets}
                /\ up' = IF up.report THEN [up EXCEPT !.pc = "report"] ELSE Idle
             \/ /\ up' = Idle
                /\ UNCHANGED <<store, accepted>>
          /\ buffLock' = FALSE
          /\ UNCHANGED fault
  /\ UNCHANGED <<rules, bufPacketHash, discarded, sent, main, FARHashLock, packets>>

\* The session's SEID is read through the storage for the report to the SMF.
ReportDownlinkData ==
  /\ Alive /\ up.pc = "report"
  /\ IF store[up.st] = Null
     THEN fault' = "freed" /\ UNCHANGED up
     ELSE up' = Idle /\ UNCHANGED fault
  /\ UNCHANGED <<rules, buffers, main, buffLock, FARHashLock, packets, accepted>>

-----------------------------------------------------------------------------
\* What the SMF asks for.
Request ==
  \/ \E s \in Sessions : UpfSessionAdd(s) \/ UpfSessionRemove(s)
  \/ \E s \in Sessions, f \in Fars :
       \/ UpfN4HandleRemoveFar(s, f)
       \/ \E ie \in CreateFarIEs : UpfN4HandleCreateFar(s, f, ie)
       \/ \E ie \in UpdateFarIEs : UpfN4HandleUpdateFar(s, f, ie)
  \/ \E s \in Sessions, p \in Pdrs :
       \/ UpfN4HandleRemovePdr(s, p)
       \/ \E ie \in PdrIEs :
            UpfN4HandleCreatePdr(s, p, ie) \/ UpfN4HandleUpdatePdr(s, p, ie)

\* The rest of a handler that has begun.
MainStep ==
  \/ MatchRuleRegister \/ AddStorage \/ UpfPDRDeregisterToSession
  \/ DiscardBuffers \/ UpfFARListDeletion
  \/ DropBuffered \/ UpSendPacketByPdrFar \/ FlushBuffered \/ ClearBuffer

\* The rest of PacketInBufferHandle.
ReceiverStep ==
  \/ LookUpFar \/ HowToHandleThisPacket \/ FindStorage
  \/ AllocBuffer \/ AppendPacket \/ ReportDownlinkData

Next == Request \/ MainStep \/ ReceiverStep \/ \E p \in Pdrs : FindPDR(p)

\* A thread that is inside a handler keeps running; nobody has to send a
\* request or a packet.
Spec == Init /\ [][Next]_vars /\ WF_vars(MainStep) /\ WF_vars(ReceiverStep)

-----------------------------------------------------------------------------
(* Properties *)

Owners(p) == {s \in Sessions : Live(s) /\ p \in ToSet(pdrList[s])}

\* Between two handlers every UpfBufPacket is the storage of exactly one PDR of
\* the context, and its sessionPtr is the session that lists that PDR: removing
\* a rule, dropping its packets or ending its session leaks no storage and
\* leaves none behind that names a session or a PDR that is gone
\* (UpfN4HandleCreatePdr, UpfN4HandleRemovePdr, UpfSessionRemove).
StorageFollowsPdr ==
  MainIdle =>
    /\ \A a \in Stores : store[a] # Null =>
         \E p \in Pdrs : /\ bufPacketHash[p] = a
                         /\ Owners(p) = {store[a].sess}
    /\ \A p, q \in Pdrs :
         bufPacketHash[p] # Null =>
           /\ store[bufPacketHash[p]] # Null /\ pdr[p] # Null
           /\ bufPacketHash[p] = bufPacketHash[q] => p = q

Buffered(p) == IF bufPacketHash[p] = Null THEN << >>
               ELSE LET b == store[bufPacketHash[p]].packetBuffer
                    IN IF b = Null THEN << >> ELSE b

SentPackets(p) == [i \in 1..Len(sent[p]) |-> sent[p][i].packet]

\* A PDR's packets leave in the order they came and none leaves twice: what was
\* sent, followed by what is still buffered, is strictly increasing; and no
\* packet is both discarded and sent (UpSendPacketByPdrFar against
\* PacketInBufferHandle).
SentOnceInOrder ==
  \A p \in Pdrs :
    LET out == SentPackets(p) \o Buffered(p)
    IN /\ \A i, j \in 1..Len(out) : i < j => out[i] < out[j]
       /\ discarded \cap ToSet(out) = {}

Lost == accepted \ (discarded \cup
  UNION {ToSet(SentPackets(p)) \cup ToSet(Buffered(p)) : p \in Pdrs})

\* A packet taken for buffering stays buffered until it is sent, or freed with
\* its storage by a handler.  The one exception is the write to packetBuffer at
\* the end of UpSendPacketByPdrFar, which comes after the unlock of buffLock:
\* it forgets the packets buffered since the flush, and only of the PDR flushed.
LostOnlyBehindFlush ==
  [][Lost' # Lost => /\ main.pc = "clear"
                     /\ Lost' = Lost \cup ToSet(Buffered(Head(main.todo)))]_vars

\* Between two handlers the kernel has every rule the context has: a handler
\* that returns early or a session that ends may leave the kernel a rule too
\* many, never one too few.
KernelHasRules ==
  MainIdle => /\ \A p \in Pdrs : pdr[p] # Null => p \in kernel
              /\ \A f \in Fars : far[f] # Null => f \in kernel

\* A PDR is in the table exactly when one live session lists it, and that
\* session lists it once, whichever session's request created, updated or
\* removed it: the walk of one session's list frees no node of another's, and
\* the kernel has every rule (with TypeOK: so has the match list no other).
OneOwner ==
  /\ TypeOK /\ KernelHasRules
  /\ \A p \in Pdrs : /\ (pdr[p] # Null) = (Owners(p) # {})
                     /\ \A s, t \in Owners(p) : s = t
  /\ \A s \in Sessions : Live(s) => IsInjective(pdrList[s])

\* No thread keeps a lock or waits for one for ever, whichever error path it
\* takes, unless the process has died: a rule handler that has begun returns,
\* and the receiver finishes with every packet and releases both locks
\* (PacketInBufferHandle, HowToHandleThisPacket, UpSendPacketByPdrFar).
NoLockIsKept ==
  /\ (main.pc # "idle") ~> (main.pc = "idle" \/ ~Alive)
  /\ (up.pc # "idle") ~> (~Alive \/ (up.pc = "idle" /\ ~buffLock /\ ~FARHashLock))

=============================================================================

----------------------------- MODULE Lifecycle -----------------------------
(***************************************************************************)
(* Start and end of the UPF: the list of subsystems that UpfInit brings up *)
(* and UpfTerm takes down, the two threads that are made on the way, and   *)
(* the handshake by which lib/utlt starts and stops a thread.              *)
(*                                                                         *)
(* A subsystem's own work is left out but for what the others depend on.   *)
(* The kernel gives SIGINT and SIGTERM to the main thread, wherever it is; *)
(* there is one such signal.  Crashes set `fault' and end the process.     *)
(***************************************************************************)
EXTENDS Integers, Sequences, FiniteSets

CONSTANT Null

\* UpfOpsList.
Ops == <<"bufblk", "thread", "timer", "socket", "context", "signal", "config",
         "epoll", "events", "packet", "gtp", "pfcp">>
Last == Len(Ops)

\* The entries that make a thread: PacketReceiverThread of upf_init.c and
\* UpdkPacketReceiverThread of gtp5g_context.c.
Workers == {"packet", "gtp"}

\* Inits that can return an error.
MayFail == {"thread", "context", "config", "epoll", "events", "pfcp"}

\* What a thread's loop works with; its last sem_post needs "thread".
Uses == [packet |-> {"bufblk", "thread", "timer", "context", "epoll", "events"},
         gtp |-> {"bufblk", "thread", "context", "events"}]

VARIABLES
  up,           \* the subsystems that are initialised
  main,         \* [pc, op]: where the main thread is, and in which entry
  th,           \* thread -> [pc, semaphore, id]; id: the creator has its ThreadID
  stop,         \* threadStopCheck.thread
  sock,         \* gtp5gDevice.sock: "none", "open" or "freed"
  device,       \* the kernel has the gtp5g interface
  interrupted,  \* where the signal found the main thread, or Null
  fault         \* why the process crashed, or Null

vars == <<up, main, th, stop, sock, device, interrupted, fault>>

Init ==
  /\ up = {} /\ main = [pc |-> "init", op |-> 1]
  /\ th = [t \in Workers |-> [pc |-> "none", semaphore |-> 0, id |-> FALSE]]
  /\ stop = Null /\ sock = "none" /\ device = FALSE
  /\ interrupted = Null /\ fault = Null

Op == Ops[main.op]
Alive == fault = Null /\ main.pc # "exit"
-----------------------------------------------------------------------------
(* UpfInit *)

Done == /\ up' = up \cup {Op}
        /\ main' = IF main.op = Last THEN [main EXCEPT !.pc = "run"]
                   ELSE [pc |-> "init", op |-> main.op + 1]

\* main calls UpfTerm, which takes down every entry, initialised or not.
Fails == main' = [pc |-> "term", op |-> Last] /\ UNCHANGED up

InitOp ==
  /\ Alive /\ main.pc = "init" /\ Op \notin Workers
  /\ Done \/ (Op \in MayFail /\ Fails)
  /\ UNCHANGED <<th, stop, sock, device, interrupted, fault>>

\* No slot, semaphore or thread is to be had.  Gtpv1Init returns STATUS_OK all
\* the same.
ThreadCreateFails ==
  /\ Alive /\ main.pc = "init" /\ Op \in Workers
  /\ IF Op = "gtp" THEN Done ELSE Fails
  /\ UNCHANGED <<th, stop, sock, device, interrupted, fault>>

ThreadCreate ==
  /\ Alive /\ main.pc = "init" /\ Op \in Workers
  /\ th' = [th EXCEPT ![Op].pc = "started"]
  /\ main' = [main EXCEPT !.pc = "create"]
  /\ UNCHANGED <<up, stop, sock, device, interrupted, fault>>

\* Its sem_wait returns, and the caller gets the ThreadID.
ThreadCreated ==
  /\ Alive /\ main.pc = "create" /\ th[Op].semaphore > 0
  /\ th' = [th EXCEPT ![Op].semaphore = @ - 1, ![Op].id = TRUE]
  /\ IF Op = "gtp" THEN main' = [main EXCEPT !.pc = "device"] /\ UNCHANGED up
     ELSE Done
  /\ UNCHANGED <<stop, sock, device, interrupted, fault>>

\* Gtp5gDeviceAdd and the routes.
DeviceAdd ==
  /\ Alive /\ main.pc = "device"
  /\ \/ Done /\ sock' = "open" /\ device' = TRUE   \* also if a route fails
     \/ Done /\ sock' = "freed" /\ UNCHANGED device \* undone, and no error
     \/ Done /\ UNCHANGED <<sock, device>>          \* no socket, and no error
     \/ Fails /\ sock' = "open" /\ device' = TRUE   \* getsockname
  /\ UNCHANGED <<th, stop, interrupted, fault>>
-----------------------------------------------------------------------------
(* eventConsumer *)

\* A handler takes a lock that the end of a session needs, too, or leaves it.
Dispatch ==
  /\ Alive /\ main.pc \in {"run", "locked"}
  /\ main' = [main EXCEPT !.pc = IF @ = "run" THEN "locked" ELSE "run"]
  /\ UNCHANGED <<up, th, stop, sock, device, interrupted, fault>>

EventRecvFails ==
  /\ Alive /\ main.pc = "run" /\ Fails
  /\ UNCHANGED <<th, stop, sock, device, interrupted, fault>>

\* SignalHandler calls UpfTerm, and exits when that returns.
Signal ==
  /\ Alive /\ interrupted = Null /\ "signal" \in up
  /\ interrupted' = main.pc /\ Fails
  /\ UNCHANGED <<th, stop, sock, device, fault>>
-----------------------------------------------------------------------------
(* UpfTerm *)

(* Slip: the loop over the entries stops before the first: i > 0. *)
TermNext_StopsEarly == main' = IF main.op = 2 THEN [main EXCEPT !.pc = "exit"]
                               ELSE [pc |-> "term", op |-> main.op - 1]

TermNext == main' = IF main.op = 1 THEN [main EXCEPT !.pc = "exit"]
                    ELSE [pc |-> "term", op |-> main.op - 1]

TermOp ==
  /\ Alive /\ main.pc = "term" /\ Op \notin Workers \cup {"pfcp"}
  /\ up' = up \ {Op} /\ TermNext
  /\ UNCHANGED <<th, stop, sock, device, interrupted, fault>>

\* SockListFree walks pfcpIPList, which is NULL if UpfContextInit has never
\* run: signals come only later.
PfcpTerm ==
  /\ Alive /\ main.pc = "term" /\ Op = "pfcp"
  /\ IF "context" \in up \/ interrupted # Null
     THEN up' = up \ {Op} /\ TermNext /\ UNCHANGED fault
     ELSE fault' = "no context" /\ UNCHANGED <<up, main>>
  /\ UNCHANGED <<th, stop, sock, device, interrupted>>

\* UpfSessionRemoveAll takes locks, which it waits for if this very thread was
\* interrupted with one.  Gtp5gDeviceTerm destroys the interface and frees the
\* socket; without one it prints the address of a port that is not there.
Gtpv1Term ==
  /\ Alive /\ main.pc = "term" /\ Op = "gtp" /\ interrupted # "locked"
  /\ IF sock = "none" THEN fault' = "no port" /\ UNCHANGED <<main, sock, device>>
     ELSE /\ main' = [main EXCEPT !.pc = "delete"]
          /\ sock' = "freed" /\ device' = FALSE /\ UNCHANGED fault
  /\ UNCHANGED <<up, th, stop, interrupted>>

PacketRecvThreadTerm ==
  /\ Alive /\ main.pc = "term" /\ Op = "packet"
  /\ main' = [main EXCEPT !.pc = "delete"]
  /\ UNCHANGED <<up, th, stop, sock, device, interrupted, fault>>

\* ThreadDelete: an error without a ThreadID; a thread that was deleted before
\* has no semaphore to wait for.
ThreadDelete ==
  /\ Alive /\ main.pc = "delete"
  /\ CASE ~th[Op].id -> up' = up \ {Op} /\ TermNext /\ UNCHANGED <<stop, fault>>
       [] th[Op].pc = "deleted" -> fault' = "deleted thread" /\ UNCHANGED <<up, main, stop>>
       [] th[Op].id /\ th[Op].pc # "deleted" ->
            /\ stop' = Op /\ main' = [main EXCEPT !.pc = "wait"]
            /\ UNCHANGED <<up, fault>>
  /\ UNCHANGED <<th, sock, device, interrupted>>

\* sem_wait, and the request to stop is withdrawn.
ThreadDeleteWait ==
  /\ Alive /\ main.pc = "wait" /\ th[Op].semaphore > 0
  /\ th' = [th EXCEPT ![Op].semaphore = @ - 1]
  /\ stop' = Null /\ main' = [main EXCEPT !.pc = "join"]
  /\ UNCHANGED <<up, sock, device, interrupted, fault>>

(* Slip: pthread_join is left out: the semaphore says that the loop ended. *)
ThreadDeleteJoin_NoJoin ==
  /\ Alive /\ main.pc = "join"
  /\ up' = up \ {Op} /\ TermNext
  /\ UNCHANGED <<th, stop, sock, device, interrupted, fault>>

\* pthread_join, sem_close and PoolFree.
ThreadDeleteJoin ==
  /\ Alive /\ main.pc = "join" /\ th[Op].pc = "ended"
  /\ th' = [th EXCEPT ![Op].pc = "deleted"]
  /\ up' = up \ {Op} /\ TermNext
  /\ UNCHANGED <<stop, sock, device, interrupted, fault>>
-----------------------------------------------------------------------------
(* The threads *)

Step(t, from, to) == /\ Alive /\ th[t].pc = from
                     /\ th' = [th EXCEPT ![t].pc = to]
                     /\ UNCHANGED <<up, main, stop, sock, device, interrupted, fault>>
Post(t, from, to) == /\ Alive /\ th[t].pc = from
                     /\ th' = [th EXCEPT ![t].pc = to, ![t].semaphore = @ + 1]
                     /\ UNCHANGED <<up, main, stop, sock, device, interrupted, fault>>

ThreadStop(t) == stop = t

\* StartRoutine tells ThreadCreate that the thread is there, ...
Started(t) == Post(t, "started", "posted")

\* ... and runs the thread's function unless it is to stop already, when
\* nobody posts for ThreadDelete.
StartRoutine(t) == \/ ~ThreadStop(t) /\ Step(t, "posted", "loop")
                   \/ ThreadStop(t) /\ Step(t, "posted", "skipped")

(* Slip: the loop ends without the post that ThreadDelete waits for. *)
ReceiverLoop_NoPost(t) == \/ ~ThreadStop(t) /\ Step(t, "loop", "pass")
                          \/ Step(t, "pass", "loop")
                          \/ ThreadStop(t) /\ Step(t, "loop", "ending")
                          \/ t = "gtp" /\ Step(t, "loop", "left")

\* PacketReceiverThread and UpdkPacketReceiverThread, which leaves its loop
\* when epoll fails, too.
ReceiverLoop(t) == \/ ~ThreadStop(t) /\ Step(t, "loop", "pass")
                   \/ Step(t, "pass", "loop")
                   \/ ThreadStop(t) /\ Step(t, "loop", "left")
                   \/ t = "gtp" /\ Step(t, "loop", "left")

\* The function's last sem_post, then StartRoutine's.
Left(t) == Post(t, "left", "ending")
Ends(t) == Step(t, "ending", "ended")

Thread(t) == \/ Started(t) \/ StartRoutine(t) \/ ReceiverLoop(t)
             \/ Left(t) \/ Ends(t)

UpfInit == \/ InitOp \/ ThreadCreate \/ ThreadCreateFails \/ ThreadCreated
           \/ DeviceAdd
UpfTerm == \/ TermOp \/ PfcpTerm \/ Gtpv1Term \/ PacketRecvThreadTerm
           \/ ThreadDelete \/ ThreadDeleteWait \/ ThreadDeleteJoin

Next == \/ UpfInit \/ Dispatch \/ EventRecvFails \/ Signal \/ UpfTerm
        \/ \E t \in Workers : Thread(t)

\* All threads run; passes of a loop end, as EpollWait has a timeout.
Spec == Init /\ [][Next]_vars /\ WF_vars(UpfInit) /\ WF_vars(UpfTerm)
        /\ \A t \in Workers : WF_vars(Thread(t))
-----------------------------------------------------------------------------
TypeOK ==
  /\ up \subseteq {Ops[i] : i \in 1 .. Last}
  /\ main \in [pc : {"init", "create", "device", "run", "locked", "term", "delete",
                     "wait", "join", "exit"}, op : 1 .. Last]
  /\ th \in [Workers -> [pc : {"none", "started", "posted", "loop", "pass", "left",
                               "skipped", "ending", "ended", "deleted"},
                         semaphore : 0 .. 2, id : BOOLEAN]]
  /\ stop \in Workers \cup {Null} /\ sock \in {"none", "open", "freed"}
  /\ device \in BOOLEAN
  /\ fault \in {Null, "no context", "no port", "deleted thread"}

(***************************************************************************)
(* As long as a thread may still run, what its loop and its last sem_post  *)
(* use is initialised, whichever entry of UpfOpsList failed and wherever   *)
(* the signal came: UpfTerm takes nothing of it down before it has joined  *)
(* the thread.  (The sockets of PFCP and GTP are not in the list: they are *)
(* freed before their threads are stopped.)                                *)
(***************************************************************************)
ThreadsSeeTheLiving ==
  Alive => \A t \in Workers : th[t].pc \in {"loop", "pass", "left", "ending"}
                                => Uses[t] \subseteq up

(***************************************************************************)
(* When UpfTerm has run to its end, no thread runs any more, nothing is    *)
(* left initialised and the kernel has lost the gtp5g interface.  (With    *)
(* TypeOK: no semaphore is taken below zero or posted too often.)          *)
(***************************************************************************)
ExitIsClean ==
  /\ TypeOK
  /\ main.pc = "exit" => /\ \A t \in Workers : th[t].pc \in {"none", "deleted"}
                         /\ up = {} /\ ~device

(***************************************************************************)
(* UpfTerm returns, or crashes, but in three cases: the signal interrupted *)
(* the main thread with a lock, or in ThreadDelete when it had taken the   *)
(* thread's last post; or a thread was asked to stop between the first     *)
(* sem_post of StartRoutine and its look at ThreadStop.                    *)
(***************************************************************************)
TerminationEnds ==
  main.pc = "term" ~> \/ ~Alive
                      \/ interrupted \in {"locked", "join"}
                      \/ \E t \in Workers : th[t].pc = "skipped"
=============================================================================

----------------------------- MODULE UpfSession -----------------------------
(***************************************************************************)
(* N4 sessions: the pool they live in, the hash table that lists them, the *)
(* rules (FARs, QERs, PDRs) they own in the UPF and in the kernel, and     *)
(* what the session and association requests of the peers (SMFs) do to     *)
(* them.  The main thread handles one message at a time, so a message is   *)
(* one step.                                                               *)
(*                                                                         *)
(* `self' is the part of the UpfContext these handlers change.  A slot of  *)
(* upfSessionPool keeps its content when it is freed; the pool hands slots *)
(* out first-in first-out (module Pool shows the ring to be such a queue). *)
(* The other layers a handler calls succeed or fail: the transaction layer *)
(* may refuse a message, the kernel may refuse a rule, and a response may  *)
(* not get built, sent or delivered.                                       *)
(***************************************************************************)
EXTENDS Hash, FiniteSets, FiniteSetsExt, TLC

CONSTANTS
  Slots,             \* the objects of upfSessionPool
  Nodes,             \* the peers' PfcpNodes
  Keys,              \* what SessionHashKeygen can make, named by naturals
  Fars, Qers, Pdrs,  \* rule identifiers, one space for all sessions
  MaxRules,          \* bound: rules in one establishment request
  MaxChanges,        \* bound: rules in one modification request
  MaxSessions,       \* bound: sessions ever made; they are numbered
  Null

ASSUME UpfSessionAssumption ==
  /\ IsFiniteSet(Slots) /\ Keys \subseteq Nat /\ Null \notin Keys
  /\ IsFiniteSet(Fars \cup Qers \cup Pdrs)
  /\ MaxRules \in Nat /\ MaxChanges \in Nat /\ MaxSessions \in Nat

VARIABLES
  self,     \* [pool, session, sessionHash, rule, kernel]
  made,     \* sessions made so far
  known,    \* the sessions whose SEID a peer was told: [node, slot, number]
  clashed,  \* keys that were used while a session with the key was there
  refused,  \* slots of sessions whose PDN type was refused
  reply,    \* the last response and what it was asked for, or Null
  running   \* FALSE once UpfSessionRemoveAll ran at termination

vars == <<self, made, known, clashed, refused, reply, running>>

Symmetry == Permutations(Nodes)

Rules == Fars \cup Qers \cup Pdrs
Numbers == 1 .. MaxSessions
Allocated == Slots \ ToSet(self.pool)
KeyAt(ctx) == [s \in Slots |-> ctx.session[s].hashKey]

Init ==
  /\ self = [pool |-> SetToSeq(Slots),
             session |-> [s \in Slots |-> [hashKey |-> Null, node |-> Null,
                                           smfSeid |-> 0]],
             sessionHash |-> HashMake,
             rule |-> [r \in Rules |-> Null],
             kernel |-> {}]
  /\ made = 0 /\ known = {} /\ clashed = {} /\ refused = {}
  /\ reply = Null /\ running = TRUE

-----------------------------------------------------------------------------
(* The session pool and table.  These map a context to a context. *)

\* UpfSessionAdd, up to the check of the PDN type: the slot is taken, cleared
\* and, as its number stands for the SMF's SEID, numbered.
SessionAlloc(ctx, key) ==
  [ctx EXCEPT !.pool = Tail(@),
              !.session[Head(ctx.pool)] =
                 [hashKey |-> key, node |-> Null, smfSeid |-> made + 1]]

UpfSessionAdd(ctx, key) ==
  LET new == SessionAlloc(ctx, key)
  IN [new EXCEPT !.sessionHash = HashSet(@, KeyAt(new), Head(ctx.pool), Head(ctx.pool))]

(* Slip: the rules of the session stay in their tables. *)
UpfSessionRemove_KeepsRules(ctx, s, stuck) ==
  [ctx EXCEPT
     !.sessionHash = HashDelete(@, KeyAt(ctx), s),
     !.kernel = @ \ ({r \in Rules : ctx.rule[r] = s} \ stuck),
     !.pool = Append(@, s)]

\* The table's entry, the rules with their kernel rules, then the slot.  The
\* kernel fails to remove the rules in `stuck', which is ignored.
UpfSessionRemove(ctx, s, stuck) ==
  [ctx EXCEPT
     !.sessionHash = HashDelete(@, KeyAt(ctx), s),
     !.rule = [r \in Rules |-> IF @[r] = s THEN Null ELSE @[r]],
     !.kernel = @ \ ({r \in Rules : ctx.rule[r] = s} \ stuck),
     !.pool = Append(@, s)]

(* Slip: the iteration ends with the first session it removes. *)
RemoveListed_StopsAtFirst(ctx, nodes, stuck) ==
  LET es == SelectSeq(Entries(ctx.sessionHash),
                      LAMBDA he : ctx.session[he.val].node \in nodes)
  IN IF es = << >> THEN ctx ELSE UpfSessionRemove(ctx, es[1].val, stuck)

(* Slip: the node of the session is not compared. *)
RemoveListed_AllNodes(ctx, nodes, stuck) ==
  FoldLeft(LAMBDA c, he : UpfSessionRemove(c, he.val, stuck),
           ctx, Entries(ctx.sessionHash))

\* The loop of UpfSessionRemoveAll and of association release: sessions in the
\* table, in the order of the iteration, that were last used by one of `nodes'.
\* Removing a session deletes the entry the iteration is at (KeysOfTheLiving),
\* and HashNext has read its successor before.
RemoveListed(ctx, nodes, stuck) ==
  FoldLeft(LAMBDA c, he : IF c.session[he.val].node \in nodes
                          THEN UpfSessionRemove(c, he.val, stuck) ELSE c,
           ctx, Entries(ctx.sessionHash))

-----------------------------------------------------------------------------
(* Rules.  An operation is [do, rule, result]; a request is a sequence of    *)
(* them.  A result other than "ok" is an IE that lacks a field or a kernel   *)
(* that fails ("refused"), or a PDR that the kernel took and whose filter    *)
(* does not compile ("compile").                                             *)

Results(r) == IF r \in Pdrs THEN {"ok", "refused", "compile"} ELSE {"ok", "refused"}
Operations == {[do |-> d, rule |-> r, result |-> x] :
                 d \in {"create", "update", "remove"}, r \in Rules,
                 x \in {"ok", "refused", "compile"}}
Possible(op) == op.result \in Results(op.rule)
                /\ (op.do # "create" => op.result # "compile")

\* UpfFARFindByID and its like decide whether a rule may be created, or must
\* be there to be updated or removed; whose it is does not matter.
Found(ctx, op) == IF op.do = "create" THEN ctx.rule[op.rule] = Null
                                      ELSE ctx.rule[op.rule] # Null

Succeeds(ctx, op) == Found(ctx, op) /\ op.result = "ok"

\* UpfN4HandleCreateQer, UpfN4HandleUpdateQer, UpfN4HandleRemoveQer and their
\* counterparts for FARs and PDRs.  The kernel's rule comes first; a created
\* rule goes to the list of the session of the request, an updated one stays
\* in the list it is in, and a removed one leaves whichever list it is in.
Handle(ctx, s, op) ==
  IF ~Succeeds(ctx, op)
  THEN [ctx EXCEPT !.kernel = IF Found(ctx, op) /\ op.result = "compile"
                              THEN @ \cup {op.rule} ELSE @]
  ELSE CASE op.do = "create" -> [ctx EXCEPT !.rule[op.rule] = s,
                                            !.kernel = @ \cup {op.rule}]
         [] op.do = "update" -> ctx
         [] op.do = "remove" -> [ctx EXCEPT !.rule[op.rule] = Null,
                                            !.kernel = @ \ {op.rule}]

Progress(ctx) == [ctx |-> ctx, ok |-> TRUE]

(* Slip: the cause is the last rule's. *)
Establish_LastCause(ctx, s, ops) ==
  FoldLeft(LAMBDA p, op : [ctx |-> Handle(p.ctx, s, op), ok |-> Succeeds(p.ctx, op)],
           Progress(ctx), ops)

\* UpfN4HandleSessionEstablishmentRequest: a rule that fails sets the cause,
\* and the handler goes on with the next.
Establish(ctx, s, ops) ==
  FoldLeft(LAMBDA p, op : [ctx |-> Handle(p.ctx, s, op),
                           ok |-> p.ok /\ Succeeds(p.ctx, op)],
           Progress(ctx), ops)

\* UpfN4HandleSessionModificationRequest returns at the first that fails.
Modify(ctx, s, ops) ==
  FoldLeft(LAMBDA p, op : IF ~p.ok THEN p
                          ELSE [ctx |-> Handle(p.ctx, s, op), ok |-> Succeeds(p.ctx, op)],
           Progress(ctx), ops)

-----------------------------------------------------------------------------
(* Messages *)

\* The loops of a handler: a request's operations in the order they are met.
InOrder(ops) ==
  LET Of(do, kind) == SetToSeq({op \in ops : op.do = do /\ op.rule \in kind})
      Loops(do) == Of(do, Fars) \o Of(do, Qers) \o Of(do, Pdrs)
  IN Loops("create") \o Loops("update") \o Loops("remove")

\* At most one operation per rule and action.
Requests(dos, max) ==
  {ops \in UNION {kSubset(n, {op \in Operations : Possible(op) /\ op.do \in dos}) :
                  n \in 1 .. max} :
     \A a, b \in ops : a # b => a.do # b.do \/ a.rule # b.rule}

\* UpfSessionAddByMessage asks for a FAR and a PDR.  What comes after the first
\* failing operation of a modification is not looked at.
EstablishmentRequests ==
  {InOrder(ops) : ops \in {o \in Requests({"create"}, MaxRules) :
     {op.rule : op \in o} \cap Fars # {} /\ {op.rule : op \in o} \cap Pdrs # {}}}
ModificationRequests ==
  {ops \in {InOrder(o) : o \in Requests({"create", "update", "remove"}, MaxChanges)} :
     \A i \in 1 .. Len(ops) - 1 : ops[i].result = "ok"}

\* The header's SEID is the session's smfSeid; `asked' is the session the peer
\* means, and `created' and `removed' are the rules it asked for.
Response(p, s, ops, asked) ==
  [cause |-> IF p.ok THEN "accepted" ELSE "rejected",
   seid |-> p.ctx.session[s].smfSeid, asked |-> asked, slot |-> s,
   created |-> {op.rule : op \in {o \in ToSet(ops) : o.do = "create"}},
   removed |-> {op.rule : op \in {o \in ToSet(ops) : o.do = "remove"}}]

\* UpfSessionAddByMessage gets no slot: the message is dropped.  Otherwise the
\* session is there before the transaction layer sees the message.  The key is
\* made of the address of the request's UE IP address IE instead of the IE's
\* value, so nothing in the request determines it.
SessionEstablishment(n) ==
  /\ running /\ self.pool # << >> /\ made < MaxSessions
  /\ \E key \in Keys :
       LET s == Head(self.pool)
           added == [UpfSessionAdd(self, key) EXCEPT !.session[s].node = n]
           there == \E t \in Allocated \ refused : self.session[t].hashKey = key
       IN /\ clashed' = IF there THEN clashed \cup {key} ELSE clashed
          /\ \/ \* PfcpXactReceive: a repeated request, or no transaction slot
                self' = added /\ reply' = Null /\ UNCHANGED known
             \/ \E ops \in EstablishmentRequests :
                  LET p == Establish(added, s, ops)
                      tell == [node |-> n, slot |-> s, number |-> made + 1]
                  IN /\ self' = p.ctx
                     /\ reply' = Response(p, s, ops, made + 1)
                     \* the response has the F-SEID only if it accepts, and
                     \* may not be built, sent or delivered
                     /\ \/ UNCHANGED known
                        \/ p.ok /\ known' = known \cup {tell}
  /\ made' = made + 1
  /\ UNCHANGED <<refused, running>>

\* UpfSessionAdd returns NULL for a PDN type it does not know, and keeps the slot.
SessionPdnTypeRefused ==
  /\ running /\ self.pool # << >> /\ made < MaxSessions
  /\ self' = SessionAlloc(self, Null)
  /\ refused' = refused \cup {Head(self.pool)}
  /\ made' = made + 1 /\ reply' = Null
  /\ UNCHANGED <<known, clashed, running>>

\* The dispatcher's part of a message with a SEID: UpfSessionFindBySeid gives
\* the slot whatever its state, and the session remembers the peer.
Addressed(k) == [self EXCEPT !.session[k.slot].node = k.node]

SessionModification(k) ==
  /\ running /\ k \in known
  /\ \/ self' = Addressed(k) /\ reply' = Null  \* refused by PfcpXactReceive
     \/ \E ops \in ModificationRequests :
          LET p == Modify(Addressed(k), k.slot, ops)
          IN /\ self' = p.ctx
             /\ reply' = IF p.ok THEN Response(p, k.slot, ops, k.number) ELSE Null
  /\ UNCHANGED <<made, known, clashed, refused, running>>

\* UpfN4HandleSessionDeletionRequest reads the session after it was freed.
SessionDeletion(k) ==
  /\ running /\ k \in known
  /\ \/ self' = Addressed(k) /\ reply' = Null /\ UNCHANGED known
     \/ \E stuck \in SUBSET {r \in Rules : self.rule[r] = k.slot} :
          LET gone == UpfSessionRemove(Addressed(k), k.slot, stuck)
          IN /\ self' = gone
             /\ reply' = Response(Progress(gone), k.slot, << >>, k.number)
             /\ known' = known \ {k}
  /\ UNCHANGED <<made, clashed, refused, running>>

\* A peer that releases its association forgets its sessions.  The dispatcher
\* has no case for the request, ...
AssociationReleaseRequest(n) ==
  /\ running
  /\ known' = {k \in known : k.node # n} /\ reply' = Null
  /\ UNCHANGED <<self, made, clashed, refused, running>>

\* ... and calls UpfN4HandleAssociationReleaseRequest for a response.
AssociationReleaseResponse(n) ==
  /\ running
  /\ known' = {k \in known : k.node # n} /\ reply' = Null
  /\ UNCHANGED <<made, clashed, refused, running>>
  /\ \E stuck \in SUBSET {r \in Rules : self.rule[r] # Null} :
       self' = RemoveListed(self, {n}, stuck)

\* Gtpv1Term, when the UPF stops.
UpfSessionRemoveAll ==
  /\ running /\ running' = FALSE
  /\ known' = {} /\ reply' = Null
  /\ UNCHANGED <<made, clashed, refused>>
  /\ \E stuck \in SUBSET {r \in Rules : self.rule[r] # Null} :
       self' = RemoveListed(self, Nodes, stuck)

Next ==
  \/ \E n \in Nodes : \/ SessionEstablishment(n)
                      \/ AssociationReleaseRequest(n)
                      \/ AssociationReleaseResponse(n)
  \/ \E k \in known : SessionModification(k) \/ SessionDeletion(k)
  \/ SessionPdnTypeRefused
  \/ UpfSessionRemoveAll

Spec == Init /\ [][Next]_vars
-----------------------------------------------------------------------------
TypeOK ==
  /\ self.pool \in Seq(Slots) /\ Len(self.pool) <= Cardinality(Slots)
  /\ self.session \in [Slots -> [hashKey : Keys \cup {Null}, node : Nodes \cup {Null},
                                 smfSeid : 0 .. MaxSessions]]
  /\ self.rule \in [Rules -> Slots \cup {Null}]
  /\ self.kernel \subseteq Rules
  /\ made \in 0 .. MaxSessions
  /\ known \subseteq [node : Nodes, slot : Slots, number : Numbers]
  /\ clashed \subseteq Keys /\ refused \subseteq Slots
  /\ running \in BOOLEAN

\* An entry keeps the key pointer of the session that made it and takes the
\* value of the last one with the same key: both are allocated sessions with
\* that key.
KeysOfTheLiving ==
  \A he \in ToSet(Entries(self.sessionHash)) :
    /\ {he.key, he.val} \subseteq Allocated
    /\ self.session[he.key].hashKey = self.session[he.val].hashKey

(***************************************************************************)
(* The session table keeps its chains, its growth and its count in order   *)
(* through every sequence of establishments and removals, however sessions *)
(* with equal keys come and go: no search reads the key of a freed         *)
(* session, and removing the session an iteration is at deletes the entry  *)
(* it is at.  (With TypeOK, which says that no slot is freed twice.)       *)
(***************************************************************************)
TableSound == TypeOK /\ KeysOfTheLiving /\ HashSound(self.sessionHash, KeyAt(self))

(***************************************************************************)
(* An allocated session is the one the table gives for its key, unless     *)
(* another session with its key was made meanwhile or its PDN type was     *)
(* refused.  What is not in the table is reached by no association release *)
(* and not at termination.                                                 *)
(***************************************************************************)
ListedUnlessClash ==
  \A s \in Allocated \ refused :
    self.session[s].hashKey \notin clashed =>
      HashGet(self.sessionHash, KeyAt(self), self.session[s].hashKey, Null) = s

(***************************************************************************)
(* A rule in the UPF's tables hangs in the list of an allocated session    *)
(* and is in the kernel, whichever session's request touched it and        *)
(* whatever failed on the way.                                             *)
(***************************************************************************)
RulesHaveOwners ==
  \A r \in Rules : self.rule[r] # Null => self.rule[r] \in Allocated
                                          /\ r \in self.kernel

(***************************************************************************)
(* A response carries the SMF's SEID of the session the request was for    *)
(* (for a deletion, it is read from a session that was freed), and if it   *)
(* accepts a request, every rule it creates is the session's, in the UPF   *)
(* and in the kernel, and every rule it removes is gone from both.         *)
(***************************************************************************)
RepliesAreTrue ==
  reply # Null =>
    /\ reply.seid = reply.asked
    /\ reply.cause = "accepted" =>
         /\ \A r \in reply.created \ reply.removed :
              self.rule[r] = reply.slot /\ r \in self.kernel
         /\ \A r \in reply.removed : self.rule[r] = Null /\ r \notin self.kernel

(***************************************************************************)
(* While a peer holds a SEID, the slot it names is allocated to the        *)
(* session the SEID was given for: no other peer's release and no removal  *)
(* takes it away.                                                          *)
(***************************************************************************)
SeidsAreCurrent ==
  \A k \in known : k.slot \in Allocated /\ self.session[k.slot].smfSeid = k.number

(***************************************************************************)
(* When the handler of association release has run, no session of the peer *)
(* is left but those that clashed or were refused, and at termination no   *)
(* session at all but those: removing sessions while iterating over the    *)
(* table skips none.                                                       *)
(***************************************************************************)
ReleaseClears ==
  [][LET Cleared(nodes) == \A s \in Allocated' \ refused :
           self'.session[s].node \in nodes => self'.session[s].hashKey \in clashed
     IN /\ \A n \in Nodes : AssociationReleaseResponse(n) => Cleared({n})
        /\ UpfSessionRemoveAll => Cleared(Nodes)]_vars

=============================================================================

---------------------------- MODULE PfcpMessage ----------------------------
(***************************************************************************)
(* The table-driven codec of PFCP messages (lib/pfcp/src/pfcp_message.c)   *)
(* and the messages the UPF builds (src/n4/n4_pfcp_build.c).               *)
(*                                                                         *)
(* A C struct is the sequence of its members, repeated where a member is   *)
(* an array: << >> for a member that is not present, <<v>> for one with    *)
(* value v, <<s>> for a grouped IE with the struct s.  A message on the    *)
(* wire is a sequence of IEs, [type, value], where the value of a grouped  *)
(* IE is again such a sequence: its length field says where it ends.       *)
(***************************************************************************)
EXTENDS Integers, Sequences, SequencesExt, FiniteSets, FiniteSetsExt, TLC

CONSTANTS
  MaxStream,   \* bound: IEs in a message of a peer that keeps no order
  StreamTypes  \* the message types such a peer sends

Rep(ie, n) == [i \in 1 .. n |-> ie]

\* The structs of grouped IEs, by IE number, with the IE number of each member.
Group ==
  1 :> <<56, 29, 2, 95, 108, 81>> \o Rep(109, 4) \o <<106>>
  @@ 2 :> <<20, 21, 22, 93, 131, 23, 24, 142, 132, 124, 153, 154, 155>>
  @@ 3 :> <<108, 44, 4, 5, 88>>
  @@ 4 :> <<42, 22, 38, 84, 30, 41, 98, 131, 137>>
  @@ 5 :> <<42, 84, 30, 41>>
  @@ 6 :> <<81, 62, 37, 64, 31, 73, 32, 74, 71, 72, 33, 148, 34, 35, 121, 122,
            36, 82, 100, 115, 118, 108, 146, 147>>
  @@ 7 :> <<109, 28, 25, 26, 27, 94, 97, 124, 123>>
  @@ 8 :> <<56, 21>>
  @@ 9 :> <<56, 95, 29, 2, 108, 81>> \o Rep(109, 4) \o <<106, 107>>
  @@ 10 :> <<108, 44, 11, 105, 88>>
  @@ 11 :> <<42, 22, 38, 84, 30, 41, 98, 49, 131>>
  @@ 12 :> <<88, 46, 47, 48, 140>>
  @@ 13 :> <<81, 62, 37, 64, 31, 73, 32, 74, 71, 72, 33, 148, 34, 35, 121, 122,
             36, 82, 100, 115, 118, 108, 146, 147>>
  @@ 14 :> <<109, 28, 25, 26, 27, 94, 97, 124, 123>>
  @@ 15 :> <<56>> @@ 16 :> <<108>> @@ 17 :> <<81>> @@ 18 :> <<109>>
  @@ 51 :> <<52, 53>> @@ 54 :> <<52, 53, 55, 110>>
  @@ 58 :> <<24, 59>> @@ 59 :> <<61>>
  @@ 68 :> <<24, 91, 92>> @@ 77 :> <<81>>
  @@ 78 :> <<81, 104, 63, 75, 76, 66, 67, 69, 70, 90, 125, 143>>
  @@ 79 :> <<81, 104, 63, 75, 76, 66, 67, 69, 70, 90, 143>>
  @@ 80 :> <<81, 104, 63, 75, 76, 66, 67, 68, 93, 22, 69, 70, 90, 125, 149, 143>>
  @@ 83 :> <<56, 45>> @@ 85 :> <<88, 46, 140>> @@ 86 :> <<88, 46, 140>>
  @@ 87 :> <<88>> @@ 99 :> <<21>> @@ 102 :> <<103>> @@ 105 :> <<42, 84, 30, 41>>
  @@ 111 :> <<60>> @@ 118 :> <<120, 119>>
  @@ 127 :> <<131, 21, 22, 93, 142, 153, 154, 155>> @@ 128 :> <<131, 21>>
  @@ 129 :> <<131, 21, 22, 93, 153, 154, 155>> @@ 130 :> <<131>>
  @@ 132 :> <<138, 139, 133, 136, 134, 135, 23>> @@ 143 :> <<144, 145>>
  @@ 147 :> <<33, 34, 35, 121, 122>> @@ 148 :> <<150, 151>> @@ 149 :> <<150>>

\* The structs of the node related messages, by message type, ...
NodeMessage ==
  1 :> <<96>> @@ 2 :> <<96>> @@ 3 :> <<58>> @@ 4 :> <<19, 40>>
  @@ 5 :> <<60, 96, 43, 89, 116>> @@ 6 :> <<60, 19, 96, 43, 89, 116>>
  @@ 7 :> <<60, 43, 89, 111, 112, 116>> @@ 8 :> <<60, 19, 43, 89>>
  @@ 9 :> <<60>> @@ 10 :> <<60, 19>>
  @@ 12 :> <<60, 101, 102>> @@ 13 :> <<60, 19, 40>>
  @@ 14 :> <<60>> \o Rep(65, 7) @@ 15 :> <<60, 19, 40>>

\* ... and of the session related ones.
SessionMessage ==
  50 :> <<60, 57>> \o Rep(1, 4) \o Rep(3, 4) \o <<6>> \o Rep(7, 4)
        \o <<85, 127, 113>> \o Rep(65, 5) \o <<117, 141, 152>>
  @@ 51 :> <<60, 19, 40, 57, 8, 51, 54, 65, 65, 114, 128>>
  @@ 52 :> <<57>> \o Rep(15, 4) \o Rep(16, 4) \o <<17>> \o Rep(18, 4)
           \o <<87, 130>> \o Rep(1, 4) \o Rep(3, 4) \o <<6>> \o Rep(7, 4)
           \o <<85, 127>> \o Rep(9, 4) \o Rep(10, 4) \o <<13>> \o Rep(14, 4)
           \o <<86, 129, 49, 77>> \o Rep(65, 5) \o <<117, 125, 152>>
  @@ 53 :> <<19, 40, 8, 51, 54, 78, 114, 126, 128>>
  @@ 54 :> << >> @@ 55 :> <<19, 40, 51, 54, 79>>
  @@ 56 :> <<39, 83, 80, 99, 51, 54, 126>> @@ 57 :> <<19, 40, 12, 50>>

Struct == NodeMessage @@ SessionMessage
Types == DOMAIN Struct

ASSUME PfcpMessageAssumption ==
  MaxStream \in Nat /\ StreamTypes \subseteq Types

\* ieDescriptionTable from index 156 on: whose struct a row describes.  The
\* row of message 9 is missing: it stands at index 111, the number of an IE
\* of the same name.
Rows == <<1, 2, 3, 4, 5, 6, 7, 8, 10, 12, 13, 14, 15>>
        \o <<50, 51, 52, 53, 54, 55, 56, 57>>

(* Slip: the gap of the types 16 to 49 is counted one too wide. *)
RowOf_WideGap(t) == IF t < 11 THEN t + 155
                    ELSE IF t < 16 THEN t + 155 - 1
                    ELSE t + 155 - (50 - 15) - 2

\* The row PfcpParseMessage, PfcpBuildMessage and PfcpStructFree take.
RowOf(t) == IF t < 11 THEN t + 155
            ELSE IF t < 16 THEN t + 155 - 1
            ELSE t + 155 - (50 - 15) - 1

Descriptor(t) == Struct[Rows[RowOf(t) - 155]]

\* Types whose row describes another message's struct.
Shifted == {9, 10, 12, 13, 14, 15}
-----------------------------------------------------------------------------
(* The codec *)

Present(member) == member # << >>
Absent(n) == [i \in 1 .. n |-> << >>]

(* Slip: IEs the message does not have are passed over. *)
RECURSIVE TlvParseMessage_SkipsUnknown(_, _)
TlvParseMessage_SkipsUnknown(slots, ies) ==
  LET Sub(ie) == TlvParseMessage_SkipsUnknown(Group[ie.type], ie.value)
      Take(p, ie) ==
        IF ie.type \in DOMAIN Group
        THEN [rest |-> Tail(p.rest), msg |-> Append(p.msg, <<Sub(ie).msg>>),
              mallocs |-> p.mallocs + Sub(ie).mallocs]
        ELSE [rest |-> Tail(p.rest), msg |-> Append(p.msg, <<ie.value>>),
              mallocs |-> p.mallocs + 1]
      Step(p, slot) == IF p.rest = << >> \/ Head(p.rest).type # slot
                       THEN [p EXCEPT !.msg = Append(@, << >>)]
                       ELSE Take(p, Head(p.rest))
      known == SelectSeq(ies, LAMBDA ie : \E i \in DOMAIN slots : slots[i] = ie.type)
  IN FoldLeft(Step, [rest |-> known, msg |-> << >>, mallocs |-> 0], slots)

\* One pass over the slots.  An IE of another type leaves the slot empty and
\* stays where it is; a grouped IE is parsed within its own length.  Counts
\* the calls of UTLT_Malloc.
RECURSIVE TlvParseMessage(_, _)
TlvParseMessage(slots, ies) ==
  LET Sub(ie) == TlvParseMessage(Group[ie.type], ie.value)
      Take(p, ie) ==
        IF ie.type \in DOMAIN Group
        THEN [rest |-> Tail(p.rest), msg |-> Append(p.msg, <<Sub(ie).msg>>),
              mallocs |-> p.mallocs + Sub(ie).mallocs]
        ELSE [rest |-> Tail(p.rest), msg |-> Append(p.msg, <<ie.value>>),
              mallocs |-> p.mallocs + 1]
      Step(p, slot) == IF p.rest = << >> \/ Head(p.rest).type # slot
                       THEN [p EXCEPT !.msg = Append(@, << >>)]
                       ELSE Take(p, Head(p.rest))
  IN FoldLeft(Step, [rest |-> ies, msg |-> << >>, mallocs |-> 0], slots)

\* The IE of a member that is present, or none when there is no buffer for it.
\* The tag is the slot's.  A member behind the end of the struct is not there.
RECURSIVE TlvBuildMessage(_, _, _)
TlvBuildMessage(slots, struct, without) ==
  LET Ie(i) == IF i > Len(struct) \/ ~Present(struct[i]) \/ slots[i] \in without
               THEN << >>
               ELSE <<[type |-> slots[i],
                       value |-> IF slots[i] \in DOMAIN Group
                                 THEN TlvBuildMessage(Group[slots[i]], struct[i][1], without)
                                 ELSE struct[i][1]]>>
  IN FlattenSeq([i \in DOMAIN slots |-> Ie(i)])

PfcpBuildMessage(t, struct, without) == TlvBuildMessage(Descriptor(t), struct, without)

\* A message without a body is left as memset made it.
PfcpParseMessage(t, ies) ==
  IF ies = << >> THEN [msg |-> Absent(Len(Struct[t])), mallocs |-> 0]
  ELSE TlvParseMessage(Descriptor(t), ies)

(* Slip: grouped IEs are not descended into. *)
PfcpFreeIe_Flat(slots, struct) ==
  Cardinality({i \in DOMAIN slots : i <= Len(struct) /\ Present(struct[i])
                                    /\ slots[i] \notin DOMAIN Group})

\* The number of calls of UTLT_Free.
RECURSIVE PfcpFreeIe(_, _)
PfcpFreeIe(slots, struct) ==
  FoldSet(LAMBDA i, n : n + (IF slots[i] \in DOMAIN Group
                             THEN PfcpFreeIe(Group[slots[i]], struct[i][1]) ELSE 1),
          0, {i \in DOMAIN slots : i <= Len(struct) /\ Present(struct[i])})

PfcpStructFree(t, struct) == PfcpFreeIe(Descriptor(t), struct)
-----------------------------------------------------------------------------
(* Messages *)

\* Values tell the members apart: a value is the place in its struct.
Fills == {"empty", "first", "all"}
RECURSIVE Fill(_, _)
Fill(ie, how) ==
  LET members == Group[ie]
      Member(i) == IF members[i] \in DOMAIN Group THEN <<Fill(members[i], how)>> ELSE <<i>>
  IN [i \in DOMAIN members |->
        IF how = "all" \/ (how = "first" /\ i = 1) THEN Member(i) ELSE << >>]

\* A struct of type t with the members in `set' present.
With(t, set, how) ==
  [i \in DOMAIN Struct[t] |->
     IF i \notin set THEN << >>
     ELSE IF Struct[t][i] \in DOMAIN Group THEN <<Fill(Struct[t][i], how)>> ELSE <<i>>]

\* Bound: none, one, any two, or all of the members are present.
Sets(t) == {{}, DOMAIN Struct[t]} \cup {{i, j} : i, j \in DOMAIN Struct[t]}

UpfN4BuildSessionEstablishmentResponse(accepted) ==
  [type |-> 51, msg |-> With(51, IF accepted THEN {1, 2, 4} ELSE {1, 2}, "all")]
UpfN4BuildSessionModificationResponse ==
  [type |-> 53, msg |-> With(53, {1}, "all")]
UpfN4BuildSessionDeletionResponse ==
  [type |-> 55, msg |-> With(55, {1}, "all")]
UpfN4BuildSessionReportRequestDownlinkDataReport ==
  [type |-> 56, msg |-> With(56, {1, 2}, "first")]
UpfN4BuildAssociationSetupResponse ==
  [type |-> 6, msg |-> With(6, {1, 2, 3, 6}, "all")]
UpfN4BuildAssociationReleaseResponse ==
  [type |-> 10, msg |-> With(10, {1, 2}, "all")]
UpfN4BuildHeartbeatResponse ==
  [type |-> 2, msg |-> With(2, {1}, "all")]

UpfMessages ==
  {UpfN4BuildSessionEstablishmentResponse(a) : a \in BOOLEAN}
  \cup {UpfN4BuildSessionModificationResponse, UpfN4BuildSessionDeletionResponse,
        UpfN4BuildSessionReportRequestDownlinkDataReport,
        UpfN4BuildAssociationSetupResponse, UpfN4BuildAssociationReleaseResponse,
        UpfN4BuildHeartbeatResponse}

\* IEs a peer may put into a message of type t, grouped ones with their first
\* member, and one that the message does not have.
PeerIes(t) ==
  {[type |-> ie, value |-> IF ie \in DOMAIN Group
                           THEN TlvBuildMessage(Group[ie], Fill(ie, "first"), {})
                           ELSE 1] :
     ie \in {Struct[t][i] : i \in DOMAIN Struct[t]} \cup {255}}
-----------------------------------------------------------------------------
VARIABLES
  phase,   \* what the main thread did last
  type,    \* header.type
  sent,    \* the struct a message was built from, << >> for a peer's
  lacking, \* IEs for which there was no buffer when it was built
  wire,    \* the message
  msg,     \* the PfcpMessage it was parsed into
  heap     \* values allocated

vars == <<phase, type, sent, lacking, wire, msg, heap>>

Init == phase = "idle" /\ type = 1 /\ sent = << >> /\ lacking = {}
        /\ wire = << >> /\ msg = << >> /\ heap = 0

Builds(t, struct, lack) ==
  /\ phase' = "built" /\ type' = t /\ sent' = struct /\ lacking' = lack
  /\ wire' = PfcpBuildMessage(t, struct, lack)
  /\ UNCHANGED <<msg, heap>>

\* The UPF builds one of its messages; BufblkAlloc may fail for any IE.
UpfBuilds ==
  /\ phase = "idle"
  /\ \E m \in UpfMessages : \E lack \in SUBSET {Struct[m.type][i] : i \in DOMAIN m.msg} :
       Builds(m.type, m.msg, lack)

\* Any other message of a type that has its own row, built with this library.
LibraryBuilds(t) ==
  /\ phase = "idle"
  /\ \E set \in Sets(t), how \in Fills : Builds(t, With(t, set, how), {})

\* A message of a peer that puts IEs in any order and repeats them.
Receive(t) ==
  /\ phase = "idle"
  /\ \E n \in 0 .. MaxStream : \E ies \in [1 .. n -> PeerIes(t)] : wire' = ies
  /\ phase' = "received" /\ type' = t /\ sent' = << >> /\ lacking' = {}
  /\ UNCHANGED <<msg, heap>>

Parse ==
  /\ phase \in {"built", "received"}
  /\ phase' = "parsed"
  /\ LET parsed == PfcpParseMessage(type, wire)
     IN msg' = parsed.msg /\ heap' = heap + parsed.mallocs
  /\ UNCHANGED <<type, sent, lacking, wire>>

StructFree ==
  /\ phase = "parsed"
  /\ phase' = "idle" /\ heap' = heap - PfcpStructFree(type, msg)
  /\ type' = 1 /\ sent' = << >> /\ lacking' = {} /\ wire' = << >> /\ msg' = << >>

Next == \/ UpfBuilds
        \/ \E t \in Types \ Shifted : LibraryBuilds(t)
        \/ \E t \in StreamTypes : Receive(t)
        \/ Parse
        \/ StructFree

Spec == Init /\ [][Next]_vars
-----------------------------------------------------------------------------
TypeOK ==
  /\ phase \in {"idle", "built", "received", "parsed"}
  /\ type \in Types
  /\ \A i \in DOMAIN wire : wire[i].type \in Nat
  /\ heap \in Nat

\* Members of the same type moved together to the front of their array.
Packed(t, struct) ==
  LET Same(i) == {j \in DOMAIN struct : Struct[t][j] = Struct[t][i]}
      Rank(i) == Cardinality({j \in Same(i) : j <= i})
      Filled(i) == {j \in Same(i) : Present(struct[j])}
  IN [i \in DOMAIN struct |->
        IF Rank(i) > Cardinality(Filled(i)) THEN << >>
        ELSE struct[CHOOSE j \in Filled(i) :
                      Cardinality({k \in Filled(i) : k <= j}) = Rank(i)]]

\* The tags of the members that are present, in the order of the struct, but
\* for the IEs without a buffer.
TagsMatchMembers ==
  [i \in DOMAIN wire |-> wire[i].type] =
    SelectSeq([i \in DOMAIN sent |-> IF Present(sent[i]) THEN Struct[type][i] ELSE 0],
              LAMBDA ie : ie \notin lacking \cup {0})

(***************************************************************************)
(* A message is built with the tags of the members that are present, and   *)
(* parsed again it is the struct it was built from, with arrays filled     *)
(* from the front: nesting and lengths of _TlvBuildMessage are what        *)
(* _TlvParseMessage expects, for every set of members present.  An IE that *)
(* has no buffer is missing and takes no other IE with it.  (Not so for    *)
(* association release, whose row in the table is another message's.)      *)
(***************************************************************************)
RoundTrip ==
  sent # << >> /\ type \notin Shifted =>
    /\ TagsMatchMembers
    /\ phase = "parsed" =>
         msg = Packed(type, [i \in DOMAIN sent |-> IF Struct[type][i] \in lacking
                                                  THEN << >> ELSE sent[i]])

(***************************************************************************)
(* Whatever a peer sends, the parser takes a beginning of the message, in  *)
(* order, and a member of the struct only holds an IE of its own type: the *)
(* first IE that is unknown, out of order or one too many hides all that   *)
(* follow it.                                                              *)
(***************************************************************************)
TakesAPrefix ==
  phase = "parsed" =>
    LET taken == SelectSeq([i \in DOMAIN msg |-> IF Present(msg[i])
                                                 THEN Descriptor(type)[i] ELSE 0],
                           LAMBDA ie : ie # 0)
        tags == [i \in DOMAIN wire |-> wire[i].type]
    IN /\ IsPrefix(taken, tags)
       /\ type \notin Shifted =>
            \A i \in DOMAIN msg : Present(msg[i]) => Descriptor(type)[i] = Struct[type][i]

(***************************************************************************)
(* PfcpStructFree frees every value PfcpParseMessage allocated, in grouped *)
(* IEs too and whichever row of the table the type leads to, and (TypeOK)  *)
(* nothing else.                                                           *)
(***************************************************************************)
NothingLeaks == TypeOK /\ (phase = "idle" => heap = 0)

=============================================================================

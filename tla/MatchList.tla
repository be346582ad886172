------------------------------ MODULE MatchList ------------------------------
(***************************************************************************)
(* One bucket of the TEID or UE address table of up_match.c: the list of   *)
(* match rules in the order in which a packet is tried against them.  The  *)
(* packet gets the first rule that admits it, so that the order of the     *)
(* list decides which of several PDRs handles it; a smaller precedence     *)
(* value is meant to come first.                                           *)
(***************************************************************************)
EXTENDS Integers, Sequences, SequencesExt

CONSTANTS
  Rules,        \* PDRs whose match rules hash to this bucket
  Precedences,  \* the precedence values in use
  Packets,      \* packets the rules' filters tell apart
  HeadGreater   \* outcomes of comparing the list head with a precedence

ASSUME MatchListAssumption ==
  Precedences \subseteq Nat /\ HeadGreater \subseteq BOOLEAN

VARIABLE list   \* the MatchRuleNodes, first to last

bucketVars == <<list>>

\* What MatchRuleCompile makes of a PDR: its precedence, and a filter that is
\* known by the packets it admits.
MatchRuleNode == [pdr : Rules, precedence : Precedences, admits : SUBSET Packets]

Registered == {list[i].pdr : i \in 1..Len(list)}

BucketTypeOK ==
  /\ list \in Seq(MatchRuleNode)
  /\ \A i, j \in 1..Len(list) : list[i].pdr = list[j].pdr => i = j

BucketInit == list = << >>

(* Slip: the loop looks at the node itself and inserts behind it. *)
GetLastSmallPrecedenceFromList_OneLate(precedence, greater) ==
  LET Stop == {i \in 1..Len(list) : list[i].precedence > precedence}
  IN IF Stop = {} THEN Len(list) ELSE CHOOSE i \in Stop : \A j \in Stop : i <= j

(* Slip: the comparison is turned round. *)
GetLastSmallPrecedenceFromList_Reversed(precedence, greater) ==
  LET Stop == {i \in 1..Len(list) - 1 : list[i + 1].precedence < precedence}
  IN IF Stop = {} THEN Len(list) ELSE CHOOSE i \in Stop : \A j \in Stop : i <= j

\* The position after which a rule of this precedence is inserted, 0 for the
\* front.  The loop looks at the successor of each node; the successor of the
\* last one is the list head, which has no precedence: what is read there is
\* whatever lies behind the head, and `greater' is how it compares.
GetLastSmallPrecedenceFromList(precedence, greater) ==
  LET Stops(i) == IF i < Len(list) THEN list[i + 1].precedence > precedence
                  ELSE greater
      Stop == {i \in 1..Len(list) : Stops(i)}
  IN IF Stop = {} THEN 0 ELSE CHOOSE i \in Stop : \A j \in Stop : i <= j

\* UpfPDRRegisterToSession has deregistered the PDR's old match rule.
MatchRuleRegister(node, greater) ==
  /\ node.pdr \notin Registered
  /\ list' = InsertAt(list,
               GetLastSmallPrecedenceFromList(node.precedence, greater) + 1, node)

MatchRuleDeregister(r) ==
  /\ r \in Registered
  /\ list' = RemoveFirstMatch(list, LAMBDA node : node.pdr = r)

BucketNext ==
  \/ \E node \in MatchRuleNode, greater \in HeadGreater : MatchRuleRegister(node, greater)
  \/ \E r \in Rules : MatchRuleDeregister(r)

BucketSpec == BucketInit /\ [][BucketNext]_bucketVars

PacketNonGTPUMatch(packet, node) == packet \in node.admits

\* The rule FindPDRByTEID and FindPDRByUEIP stop at, 0 when they fail.
FindPDR(packet) == SelectInSeq(list, LAMBDA node : PacketNonGTPUMatch(packet, node))

-----------------------------------------------------------------------------
\* When the list head compares greater, every rule but the first is in order:
\* inserting and removing rules in any order leaves at most the front of the
\* list out of place (GetLastSmallPrecedenceFromList never puts a rule before
\* the first one).  (With BucketTypeOK: no PDR is in the list twice.)
TailInOrder ==
  /\ BucketTypeOK
  /\ \A i, j \in 2..Len(list) : i < j => list[i].precedence <= list[j].precedence

\* The rule a packet gets is, of the rules that admit it, one with the smallest
\* precedence, or the first of the list: a misplaced rule can shadow the others
\* from the front of the list only.
BestBehindFront ==
  \A packet \in Packets :
    LET found == FindPDR(packet)
    IN found > 1 => \A i \in 1..Len(list) :
         PacketNonGTPUMatch(packet, list[i]) =>
           list[found].precedence <= list[i].precedence

=============================================================================

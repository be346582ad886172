--------------------------- MODULE TimerListProofs ---------------------------
(***************************************************************************)
(* What the functions of utlt_timer.c do to sound timer lists, whatever    *)
(* the timers, their times and their parameters.                           *)
(***************************************************************************)
EXTENDS TimerList, SequenceLemmas

-----------------------------------------------------------------------------
Placed(t) == ToSet(t.active) \cup ToSet(t.idle)

Sorted(list, blk) ==
  \A i, j \in 1 .. Len(list) : i < j => blk[list[i]].expireTime <= blk[list[j]].expireTime

(* Each block has one place, the active list holds the running timers, and *)
(* holds them soonest first.                                               *)
Sound(t, Param) ==
  /\ t \in TimerLists(Param)
  /\ IsInjective(t.active) /\ IsInjective(t.idle) /\ IsInjective(t.avail)
  /\ ToSet(t.active) \cap ToSet(t.idle) = {}
  /\ ToSet(t.avail) \cap Placed(t) = {}
  /\ \A b \in Placed(t) : t.blk[b].isRunning <=> b \in ToSet(t.active)
  /\ Sorted(t.active, t.blk)

(* Besides, each block that is in no list is in the free queue. *)
Accounted(t, Param) == Sound(t, Param) /\ ToSet(t.avail) = Blk \ Placed(t)

(* The blocks of a sound timer list are blocks of the pool. *)
LEMMA PlacedInBlk ==
  ASSUME NEW Param, NEW t \in TimerLists(Param)
  PROVE  Placed(t) \subseteq Blk /\ ToSet(t.avail) \subseteq Blk
<1>1. t.active \in Seq(Blk) /\ t.idle \in Seq(Blk) /\ t.avail \in Seq(Blk)
  BY DEF TimerLists
<1>2. QED
  BY <1>1, SeqAsSet DEF Placed

(* TimerPoolInit and TimerListInit: all blocks are free, none is linked. *)
LEMMA InitSound ==
  ASSUME NEW Param
  PROVE  Sound(TimerListInit, Param) /\ Placed(TimerListInit) = {}
<1> DEFINE t == TimerListInit
           n == Cardinality(Blk)
           q == [i \in 1 .. n |-> i]
<1>1. n \in Nat /\ Blk = 1 .. n
  BY BlkAssumption, FS_CardinalityType
<1>2. ZeroBlk \in TimerBlk(Param)
  BY TimeModAssumption DEF ZeroBlk, TimerBlk, TimerType
<1> HIDE DEF n
<1>3. q \in Seq(Blk) /\ Len(q) = n
  BY <1>1
<1>4. IsInjective(q)
  BY DEF IsInjective
<1>5. /\ t.active = << >> /\ t.idle = << >> /\ t.avail = q
      /\ t.blk = [b \in Blk |-> ZeroBlk]
  BY DEF TimerListInit, n
<1>6. t \in TimerLists(Param)
  BY <1>2, <1>3 DEF TimerLists, TimerListInit, n
<1>7. IsInjective(<< >>) /\ ToSet(<< >>) = {} /\ Len(<< >>) = 0
  BY DEF IsInjective, ToSet
<1> HIDE DEF t, q
<1>8. QED
  BY <1>3, <1>4, <1>5, <1>6, <1>7 DEF Sound, Placed, Sorted, t

-----------------------------------------------------------------------------
(* ListInsertSorted puts the timer before the first one that expires later, *)
(* somewhere in the list, and a list that was in order stays in order.      *)
LEMMA InsertSorted ==
  ASSUME NEW Param, NEW list \in Seq(Blk), NEW blk \in [Blk -> TimerBlk(Param)],
         NEW tm \in Blk
  PROVE  LET r == ListInsertSorted(list, tm, blk)
         IN  /\ r \in Seq(Blk)
             /\ \E i \in 1 .. Len(list) + 1 : r = InsertAt(list, i, tm)
             /\ Sorted(list, blk) => Sorted(r, blk)
<1> DEFINE later == {k \in DOMAIN list : blk[tm].expireTime < blk[list[k]].expireTime}
           pos == IF later = {} THEN Len(list) + 1
                  ELSE CHOOSE i \in later : \A j \in later : i <= j
           r == InsertAt(list, pos, tm)
           x(b) == blk[b].expireTime
<1>1. /\ Len(list) \in Nat /\ DOMAIN list = 1 .. Len(list)
      /\ \A k \in 1 .. Len(list) : list[k] \in Blk
  BY LenProperties, ElementOfSeq
<1>2. later \in SUBSET Nat /\ later \subseteq 1 .. Len(list)
  BY <1>1
<1>3. \A b \in Blk : x(b) \in Nat
  BY TimeModAssumption DEF TimerBlk
<1>4. later # {} => pos \in later /\ \A j \in later : pos <= j
  BY <1>2, FirstIndex
<1>5. later = {} => pos = Len(list) + 1
  OBVIOUS
<1>6. ListInsertSorted(list, tm, blk) = r
  BY DEF ListInsertSorted
<1> HIDE DEF pos
<1>7. pos \in 1 .. Len(list) + 1
  BY <1>1, <1>2, <1>4, <1>5
<1>8. \A k \in 1 .. Len(list) : k < pos => x(list[k]) <= x(tm)
  <2> TAKE k \in 1 .. Len(list)
  <2> HAVE k < pos
  <2>1. k \notin later
    BY <1>1, <1>2, <1>4, <1>7
  <2>2. ~(x(tm) < x(list[k]))
    BY <1>1, <2>1
  <2>3. QED
    BY <1>1, <1>3, <2>2
<1>9. pos <= Len(list) => x(tm) <= x(list[pos])
  <2> HAVE pos <= Len(list)
  <2>1. later # {}
    BY <1>1, <1>5
  <2>2. x(tm) < x(list[pos])
    BY <1>4, <2>1
  <2>3. QED
    BY <1>1, <1>3, <1>7, <2>2
<1> HIDE DEF later
<1>10. ASSUME Sorted(list, blk) PROVE Sorted(r, blk)
  <2>1. /\ Len(r) = Len(list) + 1
        /\ \A k \in 1 .. Len(list) + 1 :
             r[k] = IF k < pos THEN list[k] ELSE IF k = pos THEN tm ELSE list[k - 1]
    BY <1>7, InsertAtElements
  <2> HIDE DEF r, x
  <2>2. \A i, j \in 1 .. Len(list) : i <= j => x(list[i]) <= x(list[j])
    BY <1>1, <1>3, <1>10 DEF Sorted, x
  <2>3. \A k \in 1 .. Len(list) : pos <= k => x(tm) <= x(list[k])
    <3> TAKE k \in 1 .. Len(list)
    <3> HAVE pos <= k
    <3>1. x(tm) <= x(list[pos]) /\ x(list[pos]) <= x(list[k])
      BY <1>1, <1>7, <1>9, <2>2
    <3>2. QED
      BY <1>1, <1>3, <1>7, <3>1
  <2>4. ASSUME NEW i \in 1 .. Len(r), NEW j \in 1 .. Len(r), i < j
        PROVE  x(r[i]) <= x(r[j])
    <3> DEFINE From(k) == IF k < pos THEN k ELSE k - 1
    <3>1. \A k \in 1 .. Len(r) : k # pos => From(k) \in 1 .. Len(list) /\ r[k] = list[From(k)]
      BY <1>1, <1>7, <2>1
    <3>2. r[pos] = tm
      BY <1>1, <1>7, <2>1
    <3>3. CASE i # pos /\ j # pos
      <4>1. From(i) <= From(j)
        BY <1>1, <1>7, <2>1, <2>4, <3>3
      <4>2. QED
        BY <2>2, <3>1, <3>3, <4>1
    <3>4. CASE i = pos
      <4>1. j # pos /\ pos <= From(j)
        BY <1>1, <1>7, <2>1, <2>4, <3>4
      <4>2. QED
        BY <2>3, <3>1, <3>2, <3>4, <4>1
    <3>5. CASE j = pos
      <4>1. i # pos /\ From(i) = i /\ i < pos
        BY <1>1, <1>7, <2>1, <2>4, <3>5
      <4>2. QED
        BY <1>8, <3>1, <3>2, <3>5, <4>1
    <3>6. QED
      BY <3>3, <3>4, <3>5
  <2>5. QED
    BY <2>4 DEF Sorted, x
<1>11. r \in Seq(Blk)
  BY <1>7, InsertAtElements
<1>12. QED
  BY <1>6, <1>7, <1>10, <1>11
-----------------------------------------------------------------------------
(* The single changes the functions are made of, given by the members of    *)
(* the timer list they leave behind.                                        *)

(* ListRemove: the timer is in neither list, the others keep their places. *)
LEMMA RemoveSound ==
  ASSUME NEW Param, NEW t, Sound(t, Param), NEW tm
  PROVE  LET u == ListRemove(t, tm)
         IN  /\ Sound(u, Param)
             /\ Placed(u) = Placed(t) \ {tm}
             /\ u.blk = t.blk /\ u.avail = t.avail
             /\ ToSet(u.active) = ToSet(t.active) \ {tm}
<1> DEFINE u == ListRemove(t, tm)
<1>1. /\ t \in TimerLists(Param) /\ t.active \in Seq(Blk) /\ t.idle \in Seq(Blk)
      /\ IsInjective(t.active) /\ IsInjective(t.idle)
  BY DEF Sound, TimerLists
<1>2. /\ u.active = RemoveFirst(t.active, tm) /\ u.idle = RemoveFirst(t.idle, tm)
      /\ u.blk = t.blk /\ u.avail = t.avail
  BY <1>1 DEF ListRemove, TimerLists
<1>3. /\ u.active \in Seq(Blk) /\ IsInjective(u.active)
      /\ ToSet(u.active) = ToSet(t.active) \ {tm}
  BY <1>1, <1>2, RemoveFirstSet
<1>4. /\ u.idle \in Seq(Blk) /\ IsInjective(u.idle)
      /\ ToSet(u.idle) = ToSet(t.idle) \ {tm}
  BY <1>1, <1>2, RemoveFirstSet
<1>5. u \in TimerLists(Param)
  BY <1>1, <1>2, <1>3, <1>4 DEF TimerLists, ListRemove
<1>6. Sorted(u.active, u.blk)
  <2> DEFINE key == [b \in Blk |-> t.blk[b].expireTime]
             s == t.active
             r == RemoveFirst(s, tm)
  <2>1. /\ s \in Seq(Blk) /\ r \in Seq(Blk) /\ u.active = r /\ u.blk = t.blk
        /\ Sorted(s, t.blk)
    BY <1>1, <1>2, <1>3 DEF Sound
  <2> HIDE DEF s, u
  <2>2. key \in [Blk -> Nat]
    BY <1>1, TimeModAssumption DEF TimerLists, TimerBlk
  <2>3. \A j, k \in 1 .. Len(s) : j < k => key[s[j]] <= key[s[k]]
    BY <2>1, ElementOfSeq DEF Sorted
  <2> HIDE DEF key
  <2>4. \A j, k \in 1 .. Len(r) : j < k => key[r[j]] <= key[r[k]]
    BY <2>1, <2>2, <2>3, RemoveFirstSorted
  <2> HIDE DEF r
  <2>5. QED
    BY <2>1, <2>4, ElementOfSeq DEF Sorted, key
<1> HIDE DEF u
<1>7. Placed(u) = Placed(t) \ {tm}
  BY <1>3, <1>4 DEF Placed
<1>8. QED
  BY <1>2, <1>3, <1>4, <1>5, <1>6, <1>7 DEF Sound, u

(* The members of a block that is in no list may change. *)
LEMMA ChangeSound ==
  ASSUME NEW Param, NEW t, Sound(t, Param), NEW u \in TimerLists(Param), NEW tm,
         u.active = t.active, u.idle = t.idle, u.avail = t.avail,
         tm \notin Placed(t), \A b \in Blk \ {tm} : u.blk[b] = t.blk[b]
  PROVE  Sound(u, Param) /\ Placed(u) = Placed(t)
<1>1. \A b \in Placed(t) : u.blk[b] = t.blk[b]
  BY PlacedInBlk DEF Sound
<1>2. Sorted(t.active, t.blk) /\ t.active \in Seq(Blk)
  BY DEF Sound, TimerLists
<1>3. \A i \in 1 .. Len(t.active) : t.active[i] \in Placed(t)
  BY <1>2, SeqAsSet DEF Placed
<1>4. Sorted(u.active, u.blk)
  BY <1>1, <1>2, <1>3 DEF Sorted
<1>5. QED
  BY <1>1, <1>4 DEF Sound, Placed

(* A running timer that was in no list is put into the active one. *)
LEMMA LinkActive ==
  ASSUME NEW Param, NEW t, Sound(t, Param), NEW u \in TimerLists(Param), NEW tm \in Blk,
         tm \notin Placed(t), tm \notin ToSet(t.avail), t.blk[tm].isRunning,
         u.active = ListInsertSorted(t.active, tm, t.blk),
         u.idle = t.idle, u.avail = t.avail, u.blk = t.blk
  PROVE  /\ Sound(u, Param) /\ Placed(u) = Placed(t) \cup {tm}
         /\ ToSet(u.active) = ToSet(t.active) \cup {tm}
<1>1. /\ t.active \in Seq(Blk) /\ t.blk \in [Blk -> TimerBlk(Param)]
      /\ IsInjective(t.active) /\ Sorted(t.active, t.blk)
  BY DEF Sound, TimerLists
<1>2. PICK i \in 1 .. Len(t.active) + 1 : u.active = InsertAt(t.active, i, tm)
  BY <1>1, InsertSorted
<1>3. Sorted(u.active, u.blk)
  BY <1>1, InsertSorted
<1>4. /\ ToSet(u.active) = ToSet(t.active) \cup {tm}
      /\ IsInjective(u.active)
  BY <1>1, <1>2, InsertAtSet DEF Placed
<1>5. QED
  BY <1>3, <1>4 DEF Sound, Placed

(* A timer that is not running and was in no list is put into the idle one, *)
(* wherever.                                                                *)
LEMMA LinkIdle ==
  ASSUME NEW Param, NEW t, Sound(t, Param), NEW u \in TimerLists(Param), NEW tm \in Blk,
         tm \notin Placed(t), tm \notin ToSet(t.avail), ~t.blk[tm].isRunning,
         NEW i \in 1 .. Len(t.idle) + 1, u.idle = InsertAt(t.idle, i, tm),
         u.active = t.active, u.avail = t.avail, u.blk = t.blk
  PROVE  Sound(u, Param) /\ Placed(u) = Placed(t) \cup {tm}
<1>1. t.idle \in Seq(Blk) /\ IsInjective(t.idle)
  BY DEF Sound, TimerLists
<1>2. /\ ToSet(u.idle) = ToSet(t.idle) \cup {tm}
      /\ IsInjective(u.idle)
  BY <1>1, InsertAtSet DEF Placed
<1>3. QED
  BY <1>2 DEF Sound, Placed

(* The free queue may change as long as it holds each of its blocks once    *)
(* and none that is in a list.                                              *)
LEMMA QueueSound ==
  ASSUME NEW Param, NEW t, Sound(t, Param), NEW u \in TimerLists(Param),
         u.active = t.active, u.idle = t.idle, u.blk = t.blk,
         IsInjective(u.avail), ToSet(u.avail) \cap Placed(t) = {}
  PROVE  Sound(u, Param) /\ Placed(u) = Placed(t)
  BY DEF Sound, Placed

-----------------------------------------------------------------------------
(* The functions.  Each changes the members of one block at most; a timer   *)
(* that exists keeps its type, duration and parameter.                      *)

OnlyBlk(t, u, tm) == \A b \in Blk \ {tm} : u.blk[b] = t.blk[b]

KeepsSettings(t, u, tm) ==
  /\ OnlyBlk(t, u, tm)
  /\ u.blk[tm].type = t.blk[tm].type /\ u.blk[tm].duration = t.blk[tm].duration
  /\ u.blk[tm].param = t.blk[tm].param

(* A time in milliseconds, truncated, is a time. *)
LEMMA TruncatedTime == ASSUME NEW n \in Nat PROVE n % TimeMod \in 0 .. TimeMod - 1
  BY TimeModAssumption

(* TimerCreate up to its lock: the block leaves the free queue and is in no *)
(* list yet.                                                                *)
LEMMA TakeSound ==
  ASSUME NEW Param, NEW t, Sound(t, Param), TimerAlloc(t) # NULL
  PROVE  LET tm == TimerAlloc(t)
             u == TimerTake(t, tm)
         IN  /\ Sound(u, Param) /\ Placed(u) = Placed(t)
             /\ tm \in Blk /\ tm \notin Placed(t)
             /\ ToSet(u.avail) = ToSet(t.avail) \ {tm}
             /\ OnlyBlk(t, u, tm) /\ u.blk[tm] = ZeroBlk
<1> DEFINE tm == TimerAlloc(t)
           u == TimerTake(t, tm)
           v == [t EXCEPT !.avail = Tail(@)]
<1>1. t \in TimerLists(Param) /\ t.avail \in Seq(Blk) /\ IsInjective(t.avail)
  BY DEF Sound, TimerLists
<1>2. t.avail # << >> /\ tm = Head(t.avail)
  BY DEF TimerAlloc
<1>3. /\ tm \in Blk /\ tm \in ToSet(t.avail)
      /\ Tail(t.avail) \in Seq(Blk) /\ IsInjective(Tail(t.avail))
      /\ ToSet(Tail(t.avail)) = ToSet(t.avail) \ {tm}
  BY <1>1, <1>2, HeadTailSet
<1>4. tm \notin Placed(t)
  BY <1>3 DEF Sound
<1> HIDE DEF tm
<1>5. /\ v \in TimerLists(Param) /\ v.active = t.active /\ v.idle = t.idle
      /\ v.blk = t.blk /\ v.avail = Tail(t.avail)
  BY <1>1, <1>3 DEF TimerLists
<1>6. Sound(v, Param) /\ Placed(v) = Placed(t)
  <2> HIDE DEF v
  <2>1. IsInjective(v.avail) /\ ToSet(v.avail) \cap Placed(t) = {}
    BY <1>3, <1>5 DEF Sound
  <2>2. QED
    BY <1>5, <2>1, QueueSound
<1>7. ZeroBlk \in TimerBlk(Param)
  BY TimeModAssumption DEF ZeroBlk, TimerBlk, TimerType
<1>8. /\ u \in TimerLists(Param) /\ u.active = v.active /\ u.idle = v.idle
      /\ u.avail = v.avail /\ u.blk = [v.blk EXCEPT ![tm] = ZeroBlk]
  BY <1>1, <1>3, <1>7 DEF TimerLists, TimerTake
<1>9. Sound(u, Param) /\ Placed(u) = Placed(v)
  <2> HIDE DEF u, v
  <2>1. \A b \in Blk \ {tm} : u.blk[b] = v.blk[b]
    BY <1>5, <1>8 DEF TimerLists
  <2>2. QED
    BY <1>4, <1>6, <1>8, <2>1, ChangeSound
<1>10. OnlyBlk(t, u, tm) /\ u.blk[tm] = ZeroBlk
  <2> HIDE DEF u, v
  <2>1. t.blk \in [Blk -> TimerBlk(Param)]
    BY <1>1 DEF TimerLists
  <2>2. QED
    BY <1>3, <1>5, <1>8, <2>1 DEF OnlyBlk
<1>11. QED
  BY <1>3, <1>4, <1>5, <1>6, <1>8, <1>9, <1>10 DEF tm

(* TimerCreate under its lock: the block is in the idle list, not running. *)
LEMMA LinkSound ==
  ASSUME NEW Param, NEW t, Sound(t, Param),
         NEW tm \in Blk, tm \notin Placed(t), tm \notin ToSet(t.avail), ~t.blk[tm].isRunning,
         NEW type \in TimerType, NEW duration \in Nat, NEW param \in Param
  PROVE  LET u == TimerLink(t, tm, type, duration, param)
         IN  /\ Sound(u, Param) /\ Placed(u) = Placed(t) \cup {tm}
             /\ u.avail = t.avail /\ OnlyBlk(t, u, tm)
             /\ u.blk[tm].param = param /\ u.blk[tm].duration = duration
             /\ u.blk[tm].type = type /\ ~u.blk[tm].isRunning
<1> DEFINE u == TimerLink(t, tm, type, duration, param)
           new == [t.blk[tm] EXCEPT !.type = type, !.duration = duration, !.param = param]
           v == [t EXCEPT !.blk[tm] = [@ EXCEPT !.type = type, !.duration = duration,
                                               !.param = param]]
<1>1. /\ t \in TimerLists(Param) /\ t.idle \in Seq(Blk)
      /\ t.blk \in [Blk -> TimerBlk(Param)] /\ t.blk[tm] \in TimerBlk(Param)
  BY DEF Sound, TimerLists
<1>2. /\ new \in TimerBlk(Param) /\ ~new.isRunning
      /\ new.type = type /\ new.duration = duration /\ new.param = param
  BY <1>1 DEF TimerBlk
<1>3. /\ v \in TimerLists(Param) /\ v.active = t.active /\ v.idle = t.idle
      /\ v.avail = t.avail /\ v.blk = [t.blk EXCEPT ![tm] = new]
  BY <1>1, <1>2 DEF TimerLists
<1>4. u = [v EXCEPT !.idle = ListInsertSorted(v.idle, tm, t.blk)]
  BY <1>1 DEF TimerLink
<1>5. PICK i \in 1 .. Len(t.idle) + 1 :
        ListInsertSorted(t.idle, tm, t.blk) = InsertAt(t.idle, i, tm)
  BY <1>1, InsertSorted
<1>6. InsertAt(t.idle, i, tm) \in Seq(Blk)
  BY <1>1, InsertAtElements
<1> HIDE DEF new, v
<1>7. Sound(v, Param) /\ Placed(v) = Placed(t)
  <2>1. \A b \in Blk \ {tm} : v.blk[b] = t.blk[b]
    BY <1>1, <1>3
  <2>2. QED
    BY <1>3, <2>1, ChangeSound
<1>8. /\ u \in TimerLists(Param) /\ u.idle = InsertAt(v.idle, i, tm)
      /\ u.active = v.active /\ u.avail = v.avail /\ u.blk = v.blk
  BY ZenonT(60), <1>3, <1>4, <1>5, <1>6 DEF TimerLists
<1>9. ~v.blk[tm].isRunning
  BY <1>1, <1>2, <1>3
<1>10. Sound(u, Param) /\ Placed(u) = Placed(v) \cup {tm}
  <2> HIDE DEF u
  <2>1. i \in 1 .. Len(v.idle) + 1 /\ tm \notin Placed(v) /\ tm \notin ToSet(v.avail)
    BY <1>3, <1>7
  <2>2. QED
    BY <1>7, <1>8, <1>9, <2>1, LinkIdle
<1>11. OnlyBlk(t, u, tm) /\ u.blk[tm] = new
  <2> HIDE DEF u
  <2>1. QED
    BY <1>1, <1>3, <1>8 DEF OnlyBlk
<1>12. QED
  BY <1>2, <1>3, <1>7, <1>8, <1>10, <1>11

(* A timer is taken out of its list, armed, and put into the active list. *)
ToActive(t, u, tm, Param) ==
  /\ Sound(t, Param) /\ tm \in Placed(t) /\ u \in TimerLists(Param)
  /\ u.blk \in [Blk -> TimerBlk(Param)] /\ u.blk[tm].isRunning
  /\ \A b \in Blk \ {tm} : u.blk[b] = t.blk[b]
  /\ u.avail = t.avail
  /\ u.active = ListInsertSorted(ListRemove(t, tm).active, tm, u.blk)
  /\ u.idle = ListRemove(t, tm).idle

(* Such a step keeps the lists sound and the timers in them. *)
LEMMA ToActiveSound ==
  ASSUME NEW Param, NEW t, NEW u, NEW tm, ToActive(t, u, tm, Param)
  PROVE  Sound(u, Param) /\ Placed(u) = Placed(t)
<1> DEFINE r == ListRemove(t, tm)
           v == [u EXCEPT !.active = r.active]
<1>1. /\ Sound(r, Param) /\ Placed(r) = Placed(t) \ {tm}
      /\ r.blk = t.blk /\ r.avail = t.avail
  BY RemoveSound DEF ToActive
<1>2. tm \in Blk /\ tm \notin ToSet(t.avail) /\ t.blk \in [Blk -> TimerBlk(Param)]
  BY PlacedInBlk DEF Sound, TimerLists, ToActive
<1> HIDE DEF r
<1>3. r.active \in Seq(Blk)
  BY <1>1 DEF Sound, TimerLists
<1>4. /\ v \in TimerLists(Param) /\ v.active = r.active /\ v.idle = r.idle
      /\ v.avail = r.avail /\ v.blk = u.blk
  BY <1>1, <1>3 DEF TimerLists, ToActive, r
<1> HIDE DEF v
<1>5. Sound(v, Param) /\ Placed(v) = Placed(r)
  <2>1. tm \notin Placed(r) /\ \A b \in Blk \ {tm} : v.blk[b] = r.blk[b]
    BY <1>1, <1>4 DEF ToActive
  <2>2. QED
    BY <1>1, <1>4, <2>1, ChangeSound
<1>6. Sound(u, Param) /\ Placed(u) = Placed(v) \cup {tm}
  <2>1. /\ tm \notin Placed(v) /\ tm \notin ToSet(v.avail) /\ v.blk[tm].isRunning
        /\ u.active = ListInsertSorted(v.active, tm, v.blk) /\ u \in TimerLists(Param)
        /\ u.idle = v.idle /\ u.avail = v.avail /\ u.blk = v.blk
    BY <1>1, <1>2, <1>4, <1>5 DEF r, ToActive
  <2>2. QED
    BY <1>2, <1>5, <2>1, LinkActive
<1>7. QED
  BY <1>1, <1>5, <1>6 DEF ToActive

(* A timer is taken out of its list, stopped, and put into the idle list. *)
ToIdle(t, u, tm, Param) ==
  /\ Sound(t, Param) /\ tm \in Placed(t) /\ u \in TimerLists(Param)
  /\ u.blk \in [Blk -> TimerBlk(Param)] /\ ~u.blk[tm].isRunning
  /\ \A b \in Blk \ {tm} : u.blk[b] = t.blk[b]
  /\ u.avail = t.avail
  /\ u.active = ListRemove(t, tm).active
  /\ u.idle = ListInsertSorted(ListRemove(t, tm).idle, tm, t.blk)

(* Such a step keeps the lists sound and the timers in them. *)
LEMMA ToIdleSound ==
  ASSUME NEW Param, NEW t, NEW u, NEW tm, ToIdle(t, u, tm, Param)
  PROVE  Sound(u, Param) /\ Placed(u) = Placed(t)
<1> DEFINE r == ListRemove(t, tm)
           v == [u EXCEPT !.idle = r.idle]
<1>1. /\ Sound(r, Param) /\ Placed(r) = Placed(t) \ {tm}
      /\ r.blk = t.blk /\ r.avail = t.avail
  BY RemoveSound DEF ToIdle
<1>2. tm \in Blk /\ tm \notin ToSet(t.avail) /\ t.blk \in [Blk -> TimerBlk(Param)]
  BY PlacedInBlk DEF Sound, TimerLists, ToIdle
<1> HIDE DEF r
<1>3. r.idle \in Seq(Blk)
  BY <1>1 DEF Sound, TimerLists
<1>4. /\ v \in TimerLists(Param) /\ v.active = r.active /\ v.idle = r.idle
      /\ v.avail = r.avail /\ v.blk = u.blk
  BY <1>1, <1>3 DEF TimerLists, ToIdle, r
<1> HIDE DEF v
<1>5. Sound(v, Param) /\ Placed(v) = Placed(r)
  <2>1. tm \notin Placed(r) /\ \A b \in Blk \ {tm} : v.blk[b] = r.blk[b]
    BY <1>1, <1>4 DEF ToIdle
  <2>2. QED
    BY <1>1, <1>4, <2>1, ChangeSound
<1>6. PICK i \in 1 .. Len(r.idle) + 1 : u.idle = InsertAt(r.idle, i, tm)
  <2>1. u.idle = ListInsertSorted(r.idle, tm, t.blk)
    BY DEF r, ToIdle
  <2>2. QED
    BY <1>2, <1>3, <2>1, InsertSorted
<1>7. Sound(u, Param) /\ Placed(u) = Placed(v) \cup {tm}
  <2>1. /\ tm \notin Placed(v) /\ tm \notin ToSet(v.avail) /\ ~v.blk[tm].isRunning
        /\ i \in 1 .. Len(v.idle) + 1 /\ u.idle = InsertAt(v.idle, i, tm)
        /\ u.active = v.active /\ u.avail = v.avail /\ u.blk = v.blk
        /\ u \in TimerLists(Param)
    BY <1>1, <1>2, <1>4, <1>5, <1>6 DEF r, ToIdle
  <2>2. QED
    BY <1>2, <1>5, <2>1, LinkIdle
<1>8. QED
  BY <1>1, <1>5, <1>7 DEF ToIdle

(* TimerStart: the timer runs, its duration counted from now. *)
LEMMA StartSound ==
  ASSUME NEW Param, NEW t, Sound(t, Param), NEW tm \in Placed(t), NEW curTime \in Nat
  PROVE  LET u == TimerStart(t, tm, curTime)
         IN  /\ Sound(u, Param) /\ Placed(u) = Placed(t) /\ u.avail = t.avail
             /\ KeepsSettings(t, u, tm) /\ u.blk[tm].isRunning
             /\ u.blk[tm].expireTime = (curTime + t.blk[tm].duration) % TimeMod
             /\ ToActive(t, u, tm, Param)
<1> DEFINE u == TimerStart(t, tm, curTime)
           r == ListRemove(t, tm)
           x == (curTime + t.blk[tm].duration) % TimeMod
           new == [t.blk[tm] EXCEPT !.expireTime = x, !.isRunning = TRUE]
           armed == [r EXCEPT !.blk[tm].expireTime = x, !.blk[tm].isRunning = TRUE]
<1>1. /\ Sound(r, Param) /\ r.blk = t.blk /\ r.avail = t.avail
  BY RemoveSound
<1>2. tm \in Blk /\ t.blk \in [Blk -> TimerBlk(Param)] /\ t.blk[tm] \in TimerBlk(Param)
  BY PlacedInBlk DEF Sound, TimerLists
<1>3. x \in 0 .. TimeMod - 1
  BY <1>2, TruncatedTime DEF TimerBlk
<1>4. u = [armed EXCEPT !.active = ListInsertSorted(armed.active, tm, armed.blk)]
  <2>1. armed.active = r.active
    BY <1>1 DEF Sound, TimerLists
  <2>2. QED
    BY <2>1 DEF TimerStart
<1> HIDE DEF x, r, u
<1>5. /\ new \in TimerBlk(Param) /\ new.isRunning /\ new.expireTime = x
      /\ new.type = t.blk[tm].type /\ new.duration = t.blk[tm].duration
      /\ new.param = t.blk[tm].param
  BY <1>2, <1>3 DEF TimerBlk
<1>6. /\ armed \in TimerLists(Param) /\ armed.active = r.active /\ armed.idle = r.idle
      /\ armed.avail = t.avail /\ armed.blk = [t.blk EXCEPT ![tm] = new]
  <2>1. r \in TimerLists(Param)
    BY <1>1 DEF Sound
  <2>2. armed.blk = [t.blk EXCEPT ![tm] = new]
    BY <1>1, <1>2, <2>1 DEF TimerLists, TimerBlk
  <2>3. QED
    BY <1>1, <1>2, <1>5, <2>1, <2>2 DEF TimerLists
<1> HIDE DEF armed, new
<1>7. ListInsertSorted(armed.active, tm, armed.blk) \in Seq(Blk)
  <2>1. armed.active \in Seq(Blk) /\ armed.blk \in [Blk -> TimerBlk(Param)]
    BY <1>6 DEF TimerLists
  <2>2. QED
    BY <1>2, <2>1, InsertSorted
<1>8. /\ u \in TimerLists(Param) /\ u.active = ListInsertSorted(r.active, tm, armed.blk)
      /\ u.idle = r.idle /\ u.avail = t.avail /\ u.blk = [t.blk EXCEPT ![tm] = new]
      /\ u.blk = armed.blk
  BY <1>4, <1>6, <1>7 DEF TimerLists
<1>9. Sound(u, Param) /\ Placed(u) = Placed(t) /\ ToActive(t, u, tm, Param)
  <2>1. ToActive(t, u, tm, Param)
    BY <1>2, <1>5, <1>8 DEF ToActive, TimerLists, r
  <2>2. QED
    BY <2>1, ToActiveSound
<1>10. KeepsSettings(t, u, tm) /\ u.blk[tm] = new
  BY <1>2, <1>5, <1>8 DEF OnlyBlk, KeepsSettings
<1>11. QED
  BY <1>5, <1>8, <1>9, <1>10 DEF u, x

(* A timer leaves the active list for the idle one: TimerStop of a running  *)
(* timer, and the end of a timer that expires once.                         *)
Ended(t, tm) == [ListRemove(t, tm) EXCEPT !.idle = ListInsertSorted(@, tm, t.blk),
                                          !.blk[tm].isRunning = FALSE]

(* The timer is in the idle list then and does not run. *)
LEMMA EndSound ==
  ASSUME NEW Param, NEW t, Sound(t, Param), NEW tm \in Placed(t)
  PROVE  LET u == Ended(t, tm)
         IN  /\ Sound(u, Param) /\ Placed(u) = Placed(t) /\ u.avail = t.avail
             /\ KeepsSettings(t, u, tm) /\ ~u.blk[tm].isRunning
             /\ u.blk[tm].expireTime = t.blk[tm].expireTime
             /\ ToIdle(t, u, tm, Param)
<1> DEFINE r == ListRemove(t, tm)
           u == [r EXCEPT !.idle = ListInsertSorted(@, tm, t.blk), !.blk[tm].isRunning = FALSE]
           new == [t.blk[tm] EXCEPT !.isRunning = FALSE]
<1>1. Sound(r, Param) /\ r.blk = t.blk /\ r.avail = t.avail
  BY RemoveSound
<1>2. tm \in Blk /\ t.blk \in [Blk -> TimerBlk(Param)] /\ t.blk[tm] \in TimerBlk(Param)
  BY PlacedInBlk DEF Sound, TimerLists
<1> HIDE DEF r
<1>3. /\ new \in TimerBlk(Param) /\ ~new.isRunning
      /\ new.type = t.blk[tm].type /\ new.duration = t.blk[tm].duration
      /\ new.param = t.blk[tm].param /\ new.expireTime = t.blk[tm].expireTime
  BY <1>2 DEF TimerBlk
<1>4. r \in TimerLists(Param) /\ r.idle \in Seq(Blk)
  BY <1>1 DEF Sound, TimerLists
<1>5. ListInsertSorted(r.idle, tm, t.blk) \in Seq(Blk)
  BY <1>2, <1>4, InsertSorted
<1>6. u.blk = [t.blk EXCEPT ![tm] = new]
  BY <1>1, <1>2, <1>4 DEF TimerLists
<1>7. /\ u \in TimerLists(Param) /\ u.active = r.active /\ u.avail = t.avail
      /\ u.idle = ListInsertSorted(r.idle, tm, t.blk)
  BY <1>1, <1>2, <1>3, <1>4, <1>5, <1>6 DEF TimerLists
<1>8. ToIdle(t, u, tm, Param)
  <2> HIDE DEF u, new
  <2>1. QED
    BY <1>2, <1>3, <1>6, <1>7 DEF ToIdle, TimerLists, r
<1>9. Sound(u, Param) /\ Placed(u) = Placed(t)
  BY <1>8, ToIdleSound
<1>10. QED
  <2>1. u = Ended(t, tm)
    BY DEF Ended, r
  <2> HIDE DEF u, new
  <2>2. /\ KeepsSettings(t, u, tm) /\ ~u.blk[tm].isRunning
        /\ u.blk[tm].expireTime = t.blk[tm].expireTime
    BY <1>2, <1>3, <1>6 DEF OnlyBlk, KeepsSettings
  <2>3. QED
    BY <1>7, <1>8, <1>9, <2>1, <2>2

(* TimerStop: the timer does not run; one that did not is left alone. *)
LEMMA StopSound ==
  ASSUME NEW Param, NEW t, Sound(t, Param), NEW tm \in Placed(t)
  PROVE  LET u == TimerStop(t, tm)
         IN  /\ Sound(u, Param) /\ Placed(u) = Placed(t) /\ u.avail = t.avail
             /\ KeepsSettings(t, u, tm) /\ ~u.blk[tm].isRunning
             /\ t.blk[tm].isRunning => ToIdle(t, u, tm, Param)
<1>1. CASE t.blk[tm].isRunning
  <2>1. TimerStop(t, tm) = Ended(t, tm)
    BY <1>1 DEF TimerStop, Ended
  <2>2. QED
    BY <2>1, EndSound
<1>2. CASE ~t.blk[tm].isRunning
  BY <1>2 DEF TimerStop, OnlyBlk, KeepsSettings
<1>3. QED
  BY <1>1, <1>2

(* PoolFree after TimerDelete: a block that is in no list and not in the    *)
(* free queue may be given back.                                            *)
LEMMA FreeSound ==
  ASSUME NEW Param, NEW t, Sound(t, Param), NEW tm \in Blk,
         tm \notin Placed(t), tm \notin ToSet(t.avail)
  PROVE  LET u == TimerFree(t, tm)
         IN  /\ Sound(u, Param) /\ Placed(u) = Placed(t) /\ u.blk = t.blk
             /\ ToSet(u.avail) \subseteq ToSet(t.avail) \cup {tm}
<1> DEFINE u == TimerFree(t, tm)
           v == [t EXCEPT !.avail = Append(@, tm)]
<1>1. u = t \/ u = v
  BY DEF TimerFree
<1>2. t \in TimerLists(Param) /\ t.avail \in Seq(Blk) /\ IsInjective(t.avail)
  BY DEF Sound, TimerLists
<1>3. /\ Append(t.avail, tm) \in Seq(Blk) /\ IsInjective(Append(t.avail, tm))
      /\ ToSet(Append(t.avail, tm)) = ToSet(t.avail) \cup {tm}
  BY <1>2, AppendSet
<1>4. /\ v \in TimerLists(Param) /\ v.active = t.active /\ v.idle = t.idle
      /\ v.blk = t.blk /\ v.avail = Append(t.avail, tm)
  BY <1>2, <1>3 DEF TimerLists
<1>5. Sound(v, Param) /\ Placed(v) = Placed(t)
  <2> HIDE DEF v
  <2>1. IsInjective(v.avail) /\ ToSet(v.avail) \cap Placed(t) = {}
    BY <1>3, <1>4 DEF Sound
  <2>2. QED
    BY <1>4, <2>1, QueueSound
<1>6. QED
  BY <1>1, <1>3, <1>4, <1>5

(* The first active timer is a running timer, and the one that expires     *)
(* first.                                                                  *)
LEMMA HeadRuns ==
  ASSUME NEW Param, NEW t, Sound(t, Param), t.active # << >>
  PROVE  /\ Head(t.active) \in Placed(t) /\ Head(t.active) \in Blk
         /\ t.blk[Head(t.active)].isRunning
         /\ \A b \in Placed(t) : t.blk[b].isRunning =>
              t.blk[Head(t.active)].expireTime <= t.blk[b].expireTime
<1>1. t.active \in Seq(Blk) /\ t.blk \in [Blk -> TimerBlk(Param)] /\ Sorted(t.active, t.blk)
  BY DEF Sound, TimerLists
<1>2. /\ Head(t.active) \in ToSet(t.active) /\ Head(t.active) = t.active[1]
      /\ Head(t.active) \in Blk /\ Len(t.active) \in Nat \ {0}
  BY <1>1, HeadTailSet, EmptySeq
<1>3. ASSUME NEW b \in Placed(t), t.blk[b].isRunning
      PROVE  t.blk[Head(t.active)].expireTime <= t.blk[b].expireTime
  <2>1. b \in ToSet(t.active)
    BY <1>3 DEF Sound
  <2>2. PICK k \in 1 .. Len(t.active) : t.active[k] = b
    BY <1>1, <2>1, SeqAsSet
  <2>3. CASE k = 1
    <3>1. t.blk[b].expireTime \in Nat
      BY <1>1, <1>2, <2>2, <2>3, TimeModAssumption DEF TimerBlk
    <3>2. QED
      BY <1>2, <2>2, <2>3, <3>1
  <2>4. CASE k # 1
    BY <1>1, <1>2, <2>2, <2>4 DEF Sorted
  <2>5. QED
    BY <2>3, <2>4
<1>4. QED
  BY <1>2, <1>3 DEF Sound, Placed

(* One turn of the loop of TimerExpireCheck: a periodic timer is armed      *)
(* again, another stops.                                                    *)
LEMMA ExpireSound ==
  ASSUME NEW Param, NEW t, Sound(t, Param), t.active # << >>, NEW curTime \in Nat
  PROVE  LET u == ExpireHead(t, curTime)
             tm == Head(t.active)
         IN  /\ Sound(u, Param) /\ Placed(u) = Placed(t) /\ u.avail = t.avail
             /\ KeepsSettings(t, u, tm)
             /\ t.blk[tm].type = "PERIOD" =>
                  /\ u.blk[tm].expireTime = (curTime + t.blk[tm].duration) % TimeMod
                  /\ ToActive(t, u, tm, Param)
             /\ t.blk[tm].type # "PERIOD" =>
                  /\ ~u.blk[tm].isRunning /\ u.blk[tm].expireTime = t.blk[tm].expireTime
                  /\ ToIdle(t, u, tm, Param)
<1> DEFINE tm == Head(t.active)
           u == ExpireHead(t, curTime)
<1>1. tm \in Placed(t) /\ tm \in Blk /\ t.blk[tm].isRunning
  BY HeadRuns
<1>2. CASE t.blk[tm].type # "PERIOD"
  <2>1. u = Ended(t, tm)
    BY <1>1, <1>2 DEF ExpireHead, Ended
  <2> HIDE DEF u, tm
  <2>2. /\ Sound(u, Param) /\ Placed(u) = Placed(t) /\ u.avail = t.avail
        /\ KeepsSettings(t, u, tm) /\ ~u.blk[tm].isRunning
        /\ u.blk[tm].expireTime = t.blk[tm].expireTime /\ ToIdle(t, u, tm, Param)
    BY <1>1, <2>1, EndSound
  <2>3. QED
    BY <1>2, <2>2 DEF u, tm
<1>3. CASE t.blk[tm].type = "PERIOD"
  <2> DEFINE r == ListRemove(t, tm)
             x == (curTime + t.blk[tm].duration) % TimeMod
             new == [t.blk[tm] EXCEPT !.expireTime = x]
             armed == [r EXCEPT !.blk[tm].expireTime = x]
  <2>1. u = [armed EXCEPT !.active = ListInsertSorted(@, tm, armed.blk)]
    BY <1>1, <1>3 DEF ExpireHead
  <2>2. Sound(r, Param) /\ r.blk = t.blk /\ r.avail = t.avail /\ r \in TimerLists(Param)
    BY RemoveSound DEF Sound
  <2>3. t.blk \in [Blk -> TimerBlk(Param)] /\ t.blk[tm] \in TimerBlk(Param)
    BY <1>1 DEF Sound, TimerLists
  <2>4. x \in 0 .. TimeMod - 1
    <3>1. curTime + t.blk[tm].duration \in Nat
      BY <2>3 DEF TimerBlk
    <3>2. QED
      BY <3>1, TruncatedTime
  <2> HIDE DEF x, r, u, tm
  <2>5. /\ new \in TimerBlk(Param) /\ new.isRunning /\ new.expireTime = x
        /\ new.type = t.blk[tm].type /\ new.duration = t.blk[tm].duration
        /\ new.param = t.blk[tm].param
    BY <1>1, <2>3, <2>4 DEF TimerBlk
  <2>6. armed.blk = [t.blk EXCEPT ![tm] = new]
    BY <1>1, <2>2, <2>3 DEF TimerLists, TimerBlk
  <2>7. /\ armed \in TimerLists(Param) /\ armed.active = r.active /\ armed.idle = r.idle
        /\ armed.avail = t.avail
    BY <1>1, <2>2, <2>3, <2>5, <2>6 DEF TimerLists
  <2> HIDE DEF armed, new
  <2>8. ListInsertSorted(armed.active, tm, armed.blk) \in Seq(Blk)
    <3>1. armed.active \in Seq(Blk) /\ armed.blk \in [Blk -> TimerBlk(Param)]
      BY <2>7 DEF TimerLists
    <3>2. QED
      BY <1>1, <3>1, InsertSorted
  <2>9. /\ u \in TimerLists(Param) /\ u.active = ListInsertSorted(r.active, tm, armed.blk)
        /\ u.idle = r.idle /\ u.avail = t.avail /\ u.blk = armed.blk
    BY <2>1, <2>7, <2>8 DEF TimerLists
  <2>10. ToActive(t, u, tm, Param)
    BY <1>1, <2>3, <2>5, <2>6, <2>9 DEF ToActive, TimerLists, r
  <2>11. Sound(u, Param) /\ Placed(u) = Placed(t)
    BY <2>10, ToActiveSound
  <2>12. KeepsSettings(t, u, tm) /\ u.blk[tm] = new
    BY <1>1, <2>3, <2>5, <2>6, <2>9 DEF OnlyBlk, KeepsSettings
  <2>13. QED
    BY <1>3, <2>5, <2>9, <2>10, <2>11, <2>12 DEF u, tm, x
<1>4. QED
  BY <1>2, <1>3

-----------------------------------------------------------------------------
(* Creating and deleting when every block is in a list or free. *)

(* TimerCreate with a block left: a timer that does not run. *)
LEMMA CreateAccounted ==
  ASSUME NEW Param, NEW t, Accounted(t, Param), Cardinality(Placed(t)) < Cardinality(Blk),
         NEW type \in TimerType, NEW duration \in Nat, NEW param \in Param
  PROVE  LET tm == TimerAlloc(t)
             u == TimerCreate(t, type, duration, param)
         IN  /\ Accounted(u, Param) /\ Placed(u) = Placed(t) \cup {tm}
             /\ Cardinality(Placed(u)) = Cardinality(Placed(t)) + 1
             /\ tm \in Blk /\ tm # NULL /\ tm \notin Placed(t) /\ OnlyBlk(t, u, tm)
             /\ u.blk[tm].param = param /\ u.blk[tm].type = type /\ ~u.blk[tm].isRunning
<1> DEFINE tm == TimerAlloc(t)
           v == TimerTake(t, tm)
           u == TimerLink(v, tm, type, duration, param)
<1>1. /\ Sound(t, Param) /\ ToSet(t.avail) = Blk \ Placed(t)
      /\ Placed(t) \subseteq Blk /\ t.avail \in Seq(Blk)
  BY PlacedInBlk DEF Accounted, Sound, TimerLists
<1>2. IsFiniteSet(Placed(t)) /\ Cardinality(Placed(t)) \in Nat
  BY <1>1, BlkAssumption, FS_Subset, FS_CardinalityType
<1>3. Placed(t) # Blk
  BY <1>2
<1>4. t.avail # << >> /\ ToSet(t.avail) # {}
  <2>1. ToSet(t.avail) # {}
    BY <1>1, <1>3
  <2>2. ToSet(<< >>) = {}
    BY DEF ToSet
  <2>3. QED
    BY <2>1, <2>2
<1>5. tm \in Blk /\ tm # NULL
  <2>1. Head(t.avail) \in Blk
    BY <1>1, <1>4, HeadTailSet
  <2>2. QED
    BY <1>4, <2>1, BlkAssumption DEF TimerAlloc
<1>6. /\ Sound(v, Param) /\ Placed(v) = Placed(t) /\ tm \notin Placed(t)
      /\ ToSet(v.avail) = ToSet(t.avail) \ {tm} /\ OnlyBlk(t, v, tm) /\ v.blk[tm] = ZeroBlk
  BY <1>1, <1>5, TakeSound
<1>7. TimerCreate(t, type, duration, param) = u
  BY <1>5 DEF TimerCreate
<1> HIDE DEF v, tm
<1>8. ~v.blk[tm].isRunning /\ tm \notin ToSet(v.avail)
  BY <1>6 DEF ZeroBlk
<1>9. /\ Sound(u, Param) /\ Placed(u) = Placed(v) \cup {tm}
      /\ u.avail = v.avail /\ OnlyBlk(v, u, tm)
      /\ u.blk[tm].param = param /\ u.blk[tm].type = type /\ ~u.blk[tm].isRunning
  BY <1>5, <1>6, <1>8, LinkSound
<1> HIDE DEF u
<1>10. ToSet(u.avail) = Blk \ Placed(u)
  BY <1>1, <1>6, <1>9
<1>11. OnlyBlk(t, u, tm)
  BY <1>6, <1>9 DEF OnlyBlk
<1>12. Cardinality(Placed(u)) = Cardinality(Placed(t)) + 1
  BY <1>2, <1>6, <1>9, FS_AddElement
<1>13. QED
  BY <1>5, <1>6, <1>7, <1>9, <1>10, <1>11, <1>12 DEF Accounted, tm

(* TimerDelete: the block is free again. *)
LEMMA DeleteAccounted ==
  ASSUME NEW Param, NEW t, Accounted(t, Param), NEW tm \in Placed(t)
  PROVE  LET u == TimerDelete(t, tm)
         IN  /\ Accounted(u, Param) /\ Placed(u) = Placed(t) \ {tm} /\ u.blk = t.blk
             /\ Cardinality(Placed(u)) = Cardinality(Placed(t)) - 1
<1> DEFINE r == ListRemove(t, tm)
           u == TimerFree(r, tm)
<1>1. /\ Sound(t, Param) /\ ToSet(t.avail) = Blk \ Placed(t)
      /\ Placed(t) \subseteq Blk /\ t.avail \in Seq(Blk) /\ IsInjective(t.avail)
  BY PlacedInBlk DEF Accounted, Sound, TimerLists
<1>2. /\ Sound(r, Param) /\ Placed(r) = Placed(t) \ {tm}
      /\ r.blk = t.blk /\ r.avail = t.avail
  BY <1>1, RemoveSound
<1>3. /\ IsFiniteSet(Placed(t)) /\ Cardinality(Placed(t)) \in Nat
      /\ Cardinality(Blk) \in Nat
  BY <1>1, BlkAssumption, FS_Subset, FS_CardinalityType
<1>4. Len(t.avail) < Cardinality(Blk)
  <2>1. Cardinality(ToSet(t.avail)) = Len(t.avail)
    BY <1>1, InjectiveLength
  <2>2. ToSet(t.avail) \in SUBSET Blk /\ ToSet(t.avail) # Blk
    BY <1>1
  <2>3. Cardinality(ToSet(t.avail)) <= Cardinality(Blk) /\ Cardinality(ToSet(t.avail)) # Cardinality(Blk)
    BY <2>2, BlkAssumption, FS_Subset
  <2>4. Len(t.avail) \in Nat
    BY <1>1, LenProperties
  <2>5. QED
    BY <1>3, <2>1, <2>3, <2>4
<1>5. TimerDelete(t, tm) = u
  BY DEF TimerDelete
<1> HIDE DEF r
<1>6. tm \in Blk /\ tm \notin Placed(r) /\ tm \notin ToSet(r.avail)
  BY <1>1, <1>2
<1>7. Sound(u, Param) /\ Placed(u) = Placed(r) /\ u.blk = r.blk
  BY <1>2, <1>6, FreeSound
<1>8. u.avail = Append(t.avail, tm)
  BY <1>2, <1>4 DEF TimerFree, Sound, TimerLists
<1> HIDE DEF u
<1>9. ToSet(u.avail) = ToSet(t.avail) \cup {tm}
  BY <1>1, <1>6, <1>8, AppendSet
<1>10. ToSet(u.avail) = Blk \ Placed(u)
  BY <1>1, <1>2, <1>6, <1>7, <1>9
<1>11. Cardinality(Placed(u)) = Cardinality(Placed(t)) - 1
  <2>1. Cardinality(Placed(t) \ {tm}) = Cardinality(Placed(t)) - 1
    BY <1>3, FS_RemoveElement
  <2>2. QED
    BY <1>2, <1>7, <2>1
<1>12. QED
  BY <1>2, <1>5, <1>7, <1>10, <1>11 DEF Accounted
=============================================================================

-------------------------- MODULE SchedulerProofs --------------------------
(***************************************************************************)
(* Theorems of Scheduler, for every set of notes, buses, start times and   *)
(* durations and every period length.                                      *)
(***************************************************************************)
EXTENDS Scheduler, WellFoundedInduction, SequenceTheorems, FiniteSetTheorems,
        TLAPS

-----------------------------------------------------------------------------
(* What the operations of RTQueue return, for queues of every length.      *)

QElts(I) == [inst : I, chunkstart : Nat, prev : Links]

(* A non-empty set of naturals has a least element. *)
LEMMA LeastNat ==
  ASSUME NEW S \in SUBSET Nat, S # {}
  PROVE  \E m \in S : \A x \in S : m <= x
<1> DEFINE R == {p \in Nat \X Nat : p[1] < p[2]}
<1>1. IsWellFoundedOn(R, Nat)
  BY NatLessThanWellFounded DEF OpToRel
<1>2. PICK m \in S : \A x \in S : <<x, m>> \notin R
  BY <1>1, WFMin
<1>3. \A x \in S : m <= x
  <2> TAKE x \in S
  <2>1. ~ (x < m)
    BY <1>2
  <2> QED
    BY <2>1
<1> QED
  BY <1>3

(* A non-empty set of positions of a sequence has a greatest element. *)
LEMMA GreatestIndex ==
  ASSUME NEW n \in Nat, NEW S \in SUBSET (1 .. n), S # {}
  PROVE  \E m \in S : \A x \in S : x <= m
<1> DEFINE T == {y \in Nat : n - y \in S}
<1>1. T # {}
  <2>1. PICK x \in S : TRUE
    OBVIOUS
  <2>2. n - x \in Nat /\ n - (n - x) = x
    BY <2>1
  <2> QED
    BY <2>1, <2>2
<1>2. PICK y \in T : \A z \in T : y <= z
  BY <1>1, LeastNat
<1>3. \A x \in S : x <= n - y
  <2> TAKE x \in S
  <2>1. n - x \in T
    OBVIOUS
  <2> QED
    BY <1>2, <2>1
<1> QED
  BY <1>2, <1>3

(* The backward walk of push() stops inside the queue. *)
LEMMA StopRange ==
  ASSUME NEW I, NEW q \in Seq(QElts(I)), q # <<>>, NEW start \in Nat
  PROVE  Stop(q, start) \in 1 .. Len(q)
<1> DEFINE stops == {k \in 1 .. Len(q) : \/ k = 1
                                         \/ q[k].chunkstart <= start
                                         \/ q[k].prev # "linked"}
<1>1. Len(q) \in Nat /\ 1 \in stops
  OBVIOUS
<1>2. \E k \in stops : \A j \in stops : j <= k
  BY <1>1, GreatestIndex
<1>3. (CHOOSE k \in stops : \A j \in stops : j <= k) \in stops
  BY <1>2
<1> QED
  BY <1>3 DEF Stop

(* pop() shortens the queue by its head; instruments and starts of the     *)
(* others stay.                                                            *)
LEMMA PopProperties ==
  ASSUME NEW I, NEW q \in Seq(QElts(I)), q # <<>>
  PROVE  /\ Pop(q) \in Seq(QElts(I))
         /\ Len(Pop(q)) = Len(q) - 1
         /\ \A i \in 1 .. Len(q) - 1 :
              /\ Pop(q)[i].inst = q[i + 1].inst
              /\ Pop(q)[i].chunkstart = q[i + 1].chunkstart
<1>1. Len(q) \in Nat \ {0}
  BY EmptySeq
<1>2. \A i \in 1 .. Len(q) - 1 : i + 1 \in 1 .. Len(q) /\ q[i + 1] \in QElts(I)
  BY <1>1
<1> DEFINE Item(i) == IF i = 1 /\ q[2].prev = "linked"
                      THEN [q[2] EXCEPT !.prev = "dangling"] ELSE q[i + 1]
<1>3. ASSUME NEW i \in 1 .. Len(q) - 1
      PROVE  /\ Item(i) \in QElts(I)
             /\ Item(i).inst = q[i + 1].inst
             /\ Item(i).chunkstart = q[i + 1].chunkstart
  <2>1. CASE i = 1 /\ q[2].prev = "linked"
    <3>1. q[2] \in QElts(I)
      BY <1>2, <2>1
    <3> QED
      BY <2>1, <3>1 DEF QElts, Links
  <2>2. CASE ~(i = 1 /\ q[2].prev = "linked")
    BY <1>2, <2>2
  <2> QED
    BY <2>1, <2>2
<1>4. Pop(q) = [i \in 1 .. Len(q) - 1 |-> Item(i)]
  BY DEF Pop
<1> HIDE DEF Item
<1>5. Pop(q) \in [1 .. Len(q) - 1 -> QElts(I)]
  BY <1>3, <1>4
<1>6. Len(q) - 1 \in Nat
  BY <1>1
<1>7. Pop(q) \in Seq(QElts(I)) /\ Len(Pop(q)) = Len(q) - 1
  BY <1>5, <1>6
<1> QED
  BY <1>3, <1>4, <1>7

(* push() keeps a queue a queue. *)
LEMMA PushType ==
  ASSUME NEW I, NEW q \in Seq(QElts(I)), NEW inst \in I, NEW start \in Nat
  PROVE  Push(q, inst, start) \in Seq(QElts(I))
<1>1. \A p \in Links : Elt(inst, start, p) \in QElts(I)
  BY DEF Elt, QElts
<1>2. CASE Appends(q, start)
  <2>1. Elt(inst, start, IF q = <<>> THEN "null" ELSE "linked") \in QElts(I)
    BY <1>1 DEF Links
  <2> QED
    BY <1>2, <2>1, AppendProperties DEF Push, AppendElt
<1>3. CASE ~Appends(q, start)
  <2> DEFINE k == Stop(q, start)
  <2>1. q # <<>> /\ Len(q) \in Nat /\ k \in 1 .. Len(q)
    BY <1>3, StopRange DEF Appends
  <2> HIDE DEF k
  <2>2. InsertHead(q, inst, start) \in Seq(QElts(I))
    <3>1. <<Elt(inst, start, "null")>> \in Seq(QElts(I))
      BY <1>1 DEF Links
    <3> QED
      BY <3>1, ConcatProperties DEF InsertHead
  <2>3. InsertAfter(q, k, inst, start) \in Seq(QElts(I))
    <3> DEFINE Item(i) == CASE i <= k     -> q[i]
                            [] i = k + 1  -> Elt(inst, start, "linked")
                            [] i = k + 2  -> [q[k + 1] EXCEPT !.prev = "linked"]
                            [] OTHER      -> q[i - 1]
    <3>1. ASSUME NEW i \in 1 .. Len(q) + 1 PROVE Item(i) \in QElts(I)
      <4>1. CASE i <= k
        BY <2>1, <4>1
      <4>2. CASE i = k + 1
        BY <2>1, <4>2, <1>1 DEF Links
      <4>3. CASE i = k + 2
        <5>1. q[k + 1] \in QElts(I)
          BY <2>1, <4>3
        <5>2. Item(i) = [q[k + 1] EXCEPT !.prev = "linked"]
          BY <2>1, <4>3
        <5> QED
          BY <5>1, <5>2 DEF QElts, Links
      <4>4. CASE i > k + 2
        BY <2>1, <4>4
      <4> QED
        BY <2>1, <4>1, <4>2, <4>3, <4>4
    <3>2. InsertAfter(q, k, inst, start) = [i \in 1 .. Len(q) + 1 |-> Item(i)]
      BY DEF InsertAfter
    <3> HIDE DEF Item
    <3>3. InsertAfter(q, k, inst, start) \in [1 .. Len(q) + 1 -> QElts(I)]
      BY <3>1, <3>2
    <3> QED
      BY <2>1, <3>3
  <2> QED
    BY <1>3, <2>2, <2>3 DEF Push, k
<1> QED
  BY <1>2, <1>3

(* Where the new element starts no earlier than the tail, push() appends   *)
(* it and follows no prev.                                                 *)
LEMMA PushAppends ==
  ASSUME NEW I, NEW q \in Seq(QElts(I)), NEW inst \in I, NEW start \in Nat,
         \A i \in 1 .. Len(q) : q[i].chunkstart <= start
  PROVE  /\ ~ReadsFreed(q, start)
         /\ Len(Push(q, inst, start)) = Len(q) + 1
         /\ \A i \in 1 .. Len(q) : Push(q, inst, start)[i] = q[i]
         /\ Push(q, inst, start)[Len(q) + 1].inst = inst
         /\ Push(q, inst, start)[Len(q) + 1].chunkstart = start
<1>1. Appends(q, start)
  BY EmptySeq DEF Appends
<1> DEFINE e == Elt(inst, start, IF q = <<>> THEN "null" ELSE "linked")
<1>2. e \in QElts(I) /\ e.inst = inst /\ e.chunkstart = start
  BY DEF Elt, QElts, Links
<1>3. Push(q, inst, start) = Append(q, e)
  BY <1>1 DEF Push, AppendElt
<1> HIDE DEF e
<1>4. ~ReadsFreed(q, start)
  BY <1>1 DEF ReadsFreed
<1> QED
  BY <1>2, <1>3, <1>4, AppendProperties

(* Queue r is q with one element more, at position p: prev apart, which no *)
(* caller sees, the others stay as they are and in their order.            *)
Inserted(q, r, p, inst, start) ==
  LET Same(e, f) == e.inst = f.inst /\ e.chunkstart = f.chunkstart
  IN  /\ p \in 1 .. Len(q) + 1 /\ Len(r) = Len(q) + 1
      /\ \A i \in 1 .. Len(q) : i < p => Same(r[i], q[i])
      /\ r[p].inst = inst /\ r[p].chunkstart = start
      /\ \A i \in 1 .. Len(q) : i >= p => Same(r[i + 1], q[i])

(* Wherever push() ends its walk, it inserts one element and loses none.   *)
LEMMA PushInserts ==
  ASSUME NEW I, NEW q \in Seq(QElts(I)), NEW inst \in I, NEW start \in Nat
  PROVE  \E p \in 1 .. Len(q) + 1 : Inserted(q, Push(q, inst, start), p, inst, start)
<1>1. Len(q) \in Nat
  OBVIOUS
<1>2. CASE Appends(q, start)
  <2> DEFINE e == Elt(inst, start, IF q = <<>> THEN "null" ELSE "linked")
  <2>1. e.inst = inst /\ e.chunkstart = start /\ e \in QElts(I)
    BY DEF Elt, QElts, Links
  <2>2. Push(q, inst, start) = Append(q, e)
    BY <1>2 DEF Push, AppendElt
  <2> HIDE DEF e
  <2>3. Inserted(q, Append(q, e), Len(q) + 1, inst, start)
    BY <1>1, <2>1, AppendProperties DEF Inserted
  <2> QED
    BY <1>1, <2>2, <2>3
<1>3. CASE ~Appends(q, start) /\ Push(q, inst, start) = InsertHead(q, inst, start)
  <2> DEFINE e == Elt(inst, start, "null")
  <2>1. e.inst = inst /\ e.chunkstart = start /\ e \in QElts(I)
    BY DEF Elt, QElts, Links
  <2>2. InsertHead(q, inst, start) = <<e>> \o q
    BY DEF InsertHead
  <2> HIDE DEF e
  <2>3. <<e>> \in Seq(QElts(I)) /\ Len(<<e>>) = 1 /\ <<e>>[1] = e
    BY <2>1
  <2>4. /\ Len(<<e>> \o q) = Len(q) + 1 /\ (<<e>> \o q)[1] = e
        /\ \A i \in 1 .. Len(q) : (<<e>> \o q)[i + 1] = q[i]
    BY <1>1, <2>3, ConcatProperties
  <2>5. Inserted(q, <<e>> \o q, 1, inst, start)
    BY <1>1, <2>1, <2>4 DEF Inserted
  <2> QED
    BY <1>1, <1>3, <2>2, <2>5
<1>4. CASE /\ ~Appends(q, start)
           /\ Push(q, inst, start) = InsertAfter(q, Stop(q, start), inst, start)
  <2>1. q # <<>>
    BY <1>4 DEF Appends
  <2>2. PICK k \in 1 .. Len(q) : k = Stop(q, start)
    BY <2>1, StopRange
  <2> DEFINE r == InsertAfter(q, k, inst, start)
  <2>3. /\ Len(r) = Len(q) + 1
        /\ \A i \in 1 .. Len(q) : i < k + 1 => r[i] = q[i]
        /\ r[k + 1] = Elt(inst, start, "linked")
        /\ \A i \in 1 .. Len(q) : i > k + 1 => r[i + 1] = q[i]
        /\ k + 1 <= Len(q) => r[k + 2] = [q[k + 1] EXCEPT !.prev = "linked"]
    BY <1>1 DEF InsertAfter
  <2> HIDE DEF r
  <2>4. \A i \in 1 .. Len(q) : i >= k + 1 => /\ r[i + 1].inst = q[i].inst
                                            /\ r[i + 1].chunkstart = q[i].chunkstart
    <3> TAKE i \in 1 .. Len(q)
    <3> HAVE i >= k + 1
    <3>1. CASE i = k + 1
      <4>1. q[i] \in QElts(I)
        OBVIOUS
      <4>2. r[i + 1] = [q[i] EXCEPT !.prev = "linked"]
        BY <2>3, <3>1
      <4> QED
        BY <4>1, <4>2 DEF QElts
    <3>2. CASE i > k + 1
      BY <2>3, <3>2
    <3> QED
      BY <3>1, <3>2
  <2>5. r[k + 1].inst = inst /\ r[k + 1].chunkstart = start
    BY <2>3 DEF Elt
  <2>6. Inserted(q, r, k + 1, inst, start)
    BY <1>1, <2>3, <2>4, <2>5 DEF Inserted
  <2> QED
    BY <1>1, <1>4, <2>2, <2>6 DEF r
<1> QED
  BY <1>2, <1>3, <1>4 DEF Push

(* pop() undoes an insertion at the head.                                  *)
LEMMA PopInserts ==
  ASSUME NEW I, NEW q \in Seq(QElts(I)), q # <<>>
  PROVE  Inserted(Pop(q), q, 1, q[1].inst, q[1].chunkstart)
<1>1. Len(q) \in Nat \ {0}
  BY EmptySeq
<1> QED
  BY <1>1, PopProperties DEF Inserted

-----------------------------------------------------------------------------

(* The slots and the play lists name existing queues. *)
LEMMA KeysProperties ==
  ASSUME NEW n \in Notes
  PROVE  /\ QueuesOf(n) \in Seq(Keys)
         /\ Slot[n].auxin \in Seq(Bus)
         /\ Slot[n].out \in Seq(Bus)
         /\ Slot[n].auxout \in Seq(Bus)
<1>1. /\ Slot[n].auxin \in Seq(Bus)
      /\ Slot[n].out \in Seq(Bus)
      /\ Slot[n].auxout \in Seq(Bus)
  BY SlotAssumption
<1>2. \A c \in Classes, s \in Seq(Bus) : On(c, s) \in Seq(Keys)
  <2> TAKE c \in Classes, s \in Seq(Bus)
  <2>1. On(c, s) \in [1 .. Len(s) -> Keys]
    BY DEF On, Keys
  <2> QED
    BY <2>1
<1>3. ClassOf(Slot[n]) \in Classes \cup {"TO_AUX_AND_OUT", "UNKNOWN"}
  BY DEF ClassOf, Classes
<1>4. CASE ClassOf(Slot[n]) = "TO_AUX"
  BY <1>1, <1>2, <1>4 DEF QueuesOf, Classes
<1>5. CASE ClassOf(Slot[n]) = "AUX_TO_AUX"
  BY <1>1, <1>2, <1>5 DEF QueuesOf, Classes
<1>6. CASE ClassOf(Slot[n]) = "TO_OUT"
  BY <1>1, <1>2, <1>6 DEF QueuesOf, Classes
<1>7. CASE ClassOf(Slot[n]) = "TO_AUX_AND_OUT"
  <2>1. /\ On("AUX_TO_AUX", Slot[n].out) \in Seq(Keys)
        /\ On("TO_OUT", Slot[n].auxout) \in Seq(Keys)
    BY <1>1, <1>2 DEF Classes
  <2>2. QueuesOf(n) = On("AUX_TO_AUX", Slot[n].out) \o On("TO_OUT", Slot[n].auxout)
    BY <1>7 DEF QueuesOf
  <2> QED
    BY <1>1, <2>1, <2>2, ConcatProperties
<1>8. CASE ClassOf(Slot[n]) = "UNKNOWN"
  <2>1. QueuesOf(n) = <<>>
    BY <1>8 DEF QueuesOf
  <2> QED
    BY <1>1, <2>1, EmptySeq
<1> QED
  BY <1>3, <1>4, <1>5, <1>6, <1>7, <1>8 DEF Classes

(* Conversion to unsigned long gives a natural, and keeps every frame up   *)
(* to the bound.                                                           *)
LEMMA UnsignedProperties ==
  ASSUME NEW x \in Int
  PROVE  /\ Unsigned(x) \in Nat
         /\ x \in 0 .. MaxSamp + RTBUFSAMPS => Unsigned(x) = x
  BY BoundAssumption, BufsampsAssumption DEF Unsigned

(* The channel addout() writes is a channel number, 0 only if the slot     *)
(* lacks the bus.                                                          *)
LEMMA SrcChanProperties ==
  ASSUME NEW n \in Notes, NEW c, NEW b
  PROVE  /\ SrcChan(n, c, b) \in Nat
         /\ (\E i \in 1 .. Len(BusList(n, c)) : BusList(n, c)[i] = b)
              => SrcChan(n, c, b) # 0
<1> DEFINE list == BusList(n, c)
           at   == {i \in 1 .. Len(list) : list[i] = b}
<1>1. Len(list) \in Nat
  BY KeysProperties DEF BusList
<1>2. CASE at = {}
  BY <1>2 DEF SrcChan
<1>3. CASE at # {}
  <2>1. at \in SUBSET Nat
    BY <1>1
  <2>2. \E i \in at : \A j \in at : i <= j
    BY <1>3, <2>1, LeastNat
  <2>3. (CHOOSE i \in at : \A j \in at : i <= j) \in at
    BY <2>2
  <2>4. SrcChan(n, c, b) \in at
    BY <1>3, <2>3 DEF SrcChan
  <2> QED
    BY <1>1, <2>4
<1> QED
  BY <1>2, <1>3

(* Where a re-queued instrument continues is never before frame 0.         *)
LEMMA NextProperties ==
  ASSUME TypeOK, NEW n \in Notes, NEW cs \in Nat
  PROVE  /\ ChunkSamps(n, cs) \in Int
         /\ cs + ChunkSamps(n, cs) \in Nat
<1>1. /\ bufStartSamp \in Nat /\ endsamp[n] \in Int
      /\ RTBUFSAMPS \in Nat \ {0} /\ BufEnd \in Nat
  BY BufsampsAssumption DEF TypeOK, ControlTypes, InstTypes, BufEnd
<1>2. LateEnd(n, cs) \in Nat
  BY <1>1, UnsignedProperties DEF LateEnd
<1> QED
  BY <1>1, <1>2 DEF ChunkSamps

(* ~RTQueue() deletes a countable number of elements of an instrument.     *)
LEMMA DeletedType ==
  ASSUME TypeOK, NEW n \in Notes
  PROVE  Deleted(n) \in Nat
<1> DEFINE elts(k) == {<<k, i>> : i \in {j \in 1 .. Len(rtQueue[k]) - 1 :
                                           rtQueue[k][j].inst = n}}
           S == {elts(k) : k \in Keys}
<1>1. IsFiniteSet(Keys)
  <2>1. IsFiniteSet(Classes)
    <3>1. IsFiniteSet({"TO_AUX"})
      BY FS_Singleton
    <3>2. IsFiniteSet({"TO_AUX"} \cup {"AUX_TO_AUX"})
      BY <3>1, FS_AddElement
    <3>3. IsFiniteSet(({"TO_AUX"} \cup {"AUX_TO_AUX"}) \cup {"TO_OUT"})
      BY <3>2, FS_AddElement
    <3>4. Classes = ({"TO_AUX"} \cup {"AUX_TO_AUX"}) \cup {"TO_OUT"}
      BY DEF Classes
    <3> QED
      BY <3>3, <3>4
  <2> QED
    BY <2>1, NonEmptyAssumption, FS_Product DEF Keys
<1>2. ASSUME NEW k \in Keys PROVE IsFiniteSet(elts(k))
  <2> DEFINE J == {j \in 1 .. Len(rtQueue[k]) - 1 : rtQueue[k][j].inst = n}
             f == [i \in J |-> <<k, i>>]
  <2>1. Len(rtQueue[k]) - 1 \in Int
    BY DEF TypeOK, QueueTypes
  <2>2. IsFiniteSet(J)
    <3>1. IsFiniteSet(1 .. Len(rtQueue[k]) - 1)
      BY <2>1, FS_Interval
    <3>2. J \in SUBSET (1 .. Len(rtQueue[k]) - 1)
      OBVIOUS
    <3> QED
      BY <3>1, <3>2, FS_Subset
  <2>3. f \in Surjection(J, elts(k))
    BY DEF Surjection
  <2> QED
    BY <2>2, <2>3, FS_Surjection
<1>3. IsFiniteSet(S)
  <2> DEFINE f == [k \in Keys |-> elts(k)]
  <2>1. f \in Surjection(Keys, S)
    BY DEF Surjection
  <2> QED
    BY <1>1, <2>1, FS_Surjection
<1>4. IsFiniteSet(UNION S)
  BY <1>2, <1>3, FS_UNION
<1> QED
  BY <1>4, FS_CardinalityType DEF Deleted

(* The initial state has the types. *)
LEMMA TypeInit == Init => TypeOK
<1> SUFFICES ASSUME Init PROVE TypeOK
  OBVIOUS
<1>1. Nobody \in [inst : Notes, chunkStart : Nat]
  BY NonEmptyAssumption DEF Nobody
<1>2. (CHOOSE b \in Bus : TRUE) \in Bus
  BY NonEmptyAssumption
<1>3. QueueTypes
  BY <1>1, EmptySeq DEF Init, QueueTypes
<1>4. ControlTypes
  BY <1>2 DEF Init, ControlTypes, Classes
<1>5. InstTypes
  BY DEF Init, InstTypes
<1>6. mixed \in [Notes -> [Keys -> Seq(Int \X Int)]]
  <2>1. [k \in Keys |-> <<>>] \in [Keys -> Seq(Int \X Int)]
    BY EmptySeq
  <2> QED
    BY <2>1 DEF Init
<1>7. HistoryTypes
  BY <1>6 DEF Init, HistoryTypes
<1> QED
  BY <1>3, <1>4, <1>5, <1>7 DEF TypeOK

(* What a step leaves alone keeps its types. *)
LEMMA TypeUnchanged ==
  ASSUME TypeOK
  PROVE  /\ UNCHANGED <<rtHeap, rtQueue, todo, popped>> => QueueTypes'
         /\ UNCHANGED <<timeVars, pc, qStatus, play_bus, bus, fault>> => ControlTypes'
         /\ UNCHANGED <<instVars, refcount>> => InstTypes'
         /\ UNCHANGED histVars => HistoryTypes'
<1>1. UNCHANGED <<rtHeap, rtQueue, todo, popped>> => QueueTypes'
  BY DEF TypeOK, QueueTypes
<1>2. UNCHANGED <<timeVars, pc, qStatus, play_bus, bus, fault>> => ControlTypes'
  BY DEF TypeOK, ControlTypes, timeVars
<1>3. UNCHANGED <<instVars, refcount>> => InstTypes'
  BY DEF TypeOK, InstTypes, instVars
<1>4. UNCHANGED histVars => HistoryTypes'
  BY DEF TypeOK, HistoryTypes, histVars
<1> QED
  BY <1>1, <1>2, <1>3, <1>4

(* The handlers keep the types. *)
LEMMA TypeHandlers ==
  ASSUME TypeOK
  PROVE  /\ \A n \in Notes, s \in Starts, d \in Durs : Schedule(n, s, d) => TypeOK'
         /\ \A n \in Notes : ScheduleFails(n) => TypeOK'
         /\ Flush => TypeOK'
<1>1. ASSUME NEW n \in Notes, NEW s \in Starts, NEW d \in Durs, Schedule(n, s, d)
      PROVE  TypeOK'
  <2> DEFINE first == s + elapsed + RTBUFSAMPS
  <2>1. s \in Int /\ d \in Nat /\ first \in Int
    BY TimesAssumption, BufsampsAssumption DEF TypeOK, ControlTypes
  <2>2. Unsigned(first) \in Nat
    BY <2>1, UnsignedProperties
  <2>3. /\ endsamp' = [endsamp EXCEPT ![n] = first + d]
        /\ rtHeap' = rtHeap \cup {[inst |-> n, chunkStart |-> Unsigned(first)]}
        /\ startsamp' = [startsamp EXCEPT ![n] = first]
        /\ refcount' = [refcount EXCEPT ![n] = @ + 1]
        /\ status' = [status EXCEPT ![n] = "live"]
        /\ nsamps' = [nsamps EXCEPT ![n] = d]
        /\ UNCHANGED <<rtQueue, timeVars, ctlVars, cursamp, needs_to_run,
                       bufferWritten, fault, mixed>>
    BY <1>1 DEF Schedule
  <2> HIDE DEF first
  <2>4. QueueTypes'
    <3>1. [inst |-> n, chunkStart |-> Unsigned(first)] \in
            [inst : Notes, chunkStart : Nat]
      BY <2>2
    <3>2. rtHeap' \subseteq [inst : Notes, chunkStart : Nat]
      BY <2>3, <3>1 DEF TypeOK, QueueTypes
    <3>3. UNCHANGED <<rtQueue, todo, popped>>
      BY <2>3 DEF ctlVars
    <3> QED
      BY <3>2, <3>3 DEF TypeOK, QueueTypes
  <2>5. ControlTypes'
    BY <2>3, TypeUnchanged DEF ctlVars
  <2>6. InstTypes'
    BY <2>1, <2>3 DEF TypeOK, InstTypes
  <2>7. HistoryTypes'
    BY <2>1, <2>3 DEF TypeOK, HistoryTypes
  <2> QED
    BY <2>4, <2>5, <2>6, <2>7 DEF TypeOK
<1>2. ASSUME NEW n \in Notes, ScheduleFails(n) PROVE TypeOK'
  <2>1. QueueTypes' /\ ControlTypes'
    BY <1>2, TypeUnchanged DEF ScheduleFails, ctlVars
  <2>2. InstTypes'
    BY <1>2 DEF ScheduleFails, TypeOK, InstTypes, instVars
  <2>3. HistoryTypes'
    BY <1>2 DEF ScheduleFails, TypeOK, HistoryTypes
  <2> QED
    BY <2>1, <2>2, <2>3 DEF TypeOK
<1>3. ASSUME Flush PROVE TypeOK'
  <2>1. \A n \in Notes : Deleted(n) \in Nat
    BY DeletedType
  <2>2. QueueTypes'
    BY <1>3, EmptySeq DEF Flush, TypeOK, QueueTypes, ctlVars
  <2>3. ControlTypes'
    BY <1>3, TypeUnchanged DEF Flush, ctlVars
  <2>4. InstTypes'
    <3>1. /\ endsamp' = [m \in Notes |-> IF status[m] = "live" THEN 0 ELSE endsamp[m]]
          /\ cursamp' = [m \in Notes |-> IF status[m] = "live" THEN 0 ELSE cursamp[m]]
          /\ needs_to_run' =
               [m \in Notes |-> IF status[m] = "live" THEN TRUE ELSE needs_to_run[m]]
          /\ bufferWritten' =
               [m \in Notes |-> IF status[m] = "live" THEN {} ELSE bufferWritten[m]]
          /\ refcount' = [m \in Notes |-> refcount[m] - Deleted(m)]
      BY <1>3 DEF Flush
    <3>2. endsamp' \in [Notes -> Int] /\ cursamp' \in [Notes -> Nat]
      BY <3>1 DEF TypeOK, InstTypes
    <3>3. needs_to_run' \in [Notes -> BOOLEAN]
      BY <3>1 DEF TypeOK, InstTypes
    <3>4. bufferWritten' \in [Notes -> SUBSET Nat]
      BY <3>1 DEF TypeOK, InstTypes
    <3>5. refcount' \in [Notes -> Int]
      BY <2>1, <3>1 DEF TypeOK, InstTypes
    <3> QED
      BY <3>2, <3>3, <3>4, <3>5 DEF InstTypes
  <2>5. HistoryTypes'
    BY <1>3 DEF Flush, TypeOK, HistoryTypes
  <2> QED
    BY <2>2, <2>3, <2>4, <2>5 DEF TypeOK
<1> QED
  BY <1>1, <1>2, <1>3

(* The first half of a traversal, which empties the heap, keeps the types. *)
LEMMA TypePop ==
  ASSUME TypeOK
  PROVE  /\ Begin => TypeOK'
         /\ \A e \in rtHeap : PopHeap(e) => TypeOK'
         /\ HeapDone => TypeOK'
         /\ PushNext => TypeOK'
         /\ PushDone => TypeOK'
<1>1. ASSUME Begin PROVE TypeOK'
  <2>1. QueueTypes' /\ InstTypes' /\ HistoryTypes'
    BY <1>1, TypeUnchanged DEF Begin
  <2>2. ControlTypes'
    BY <1>1 DEF Begin, TypeOK, ControlTypes, timeVars
  <2> QED
    BY <2>1, <2>2 DEF TypeOK
<1>2. ASSUME NEW e \in rtHeap, PopHeap(e) PROVE TypeOK'
  <2>1. InstTypes' /\ HistoryTypes'
    BY <1>2, TypeUnchanged DEF PopHeap
  <2>2. ControlTypes'
    BY <1>2 DEF PopHeap, TypeOK, ControlTypes, timeVars
  <2>3. e \in [inst : Notes, chunkStart : Nat] /\ QueuesOf(e.inst) \in Seq(Keys)
    BY KeysProperties DEF TypeOK, QueueTypes
  <2>4. QueueTypes'
    BY <1>2, <2>3 DEF PopHeap, TypeOK, QueueTypes
  <2> QED
    BY <2>1, <2>2, <2>4 DEF TypeOK
<1>3. ASSUME HeapDone PROVE TypeOK'
  <2>1. QueueTypes' /\ InstTypes' /\ HistoryTypes'
    BY <1>3, TypeUnchanged DEF HeapDone
  <2>2. ControlTypes'
    BY <1>3 DEF HeapDone, TypeOK, ControlTypes, timeVars, Classes
  <2> QED
    BY <2>1, <2>2 DEF TypeOK
<1>4. ASSUME PushNext PROVE TypeOK'
  <2> DEFINE k == todo[1]
             Q == Seq([inst : Notes, chunkstart : Nat, prev : Links])
  <2>1. k \in Keys /\ Tail(todo) \in Seq(Keys)
    <3>1. todo \in Seq(Keys) /\ todo # <<>>
      BY <1>4 DEF PushNext, TypeOK, QueueTypes
    <3> QED
      BY <3>1, EmptySeq, HeadTailProperties, ElementOfSeq
  <2> HIDE DEF k
  <2>2. Push(rtQueue[k], popped.inst, popped.chunkStart) \in Q
    BY <2>1, PushType DEF QElts, TypeOK, QueueTypes
  <2>3. \/ rtQueue' = rtQueue
        \/ rtQueue' = [rtQueue EXCEPT ![k] = Push(rtQueue[k], popped.inst, popped.chunkStart)]
    BY <1>4 DEF PushNext, k
  <2>4. QueueTypes'
    <3>1. rtQueue' \in [Keys -> Q]
      BY <2>1, <2>2, <2>3 DEF TypeOK, QueueTypes
    <3> QED
      BY <1>4, <2>1, <3>1 DEF PushNext, TypeOK, QueueTypes
  <2>5. ControlTypes'
    BY <1>4 DEF PushNext, TypeOK, ControlTypes, timeVars
  <2>6. \/ refcount' = refcount
        \/ refcount' = [refcount EXCEPT ![popped.inst] = @ + 1]
    BY <1>4 DEF PushNext
  <2>7. InstTypes'
    BY <1>4, <2>6 DEF PushNext, TypeOK, QueueTypes, InstTypes, instVars
  <2>8. HistoryTypes'
    BY <1>4, TypeUnchanged DEF PushNext
  <2> QED
    BY <2>4, <2>5, <2>7, <2>8 DEF TypeOK
<1>5. ASSUME PushDone PROVE TypeOK'
  <2>1. InstTypes' /\ HistoryTypes'
    BY <1>5, TypeUnchanged DEF PushDone
  <2>2. ControlTypes'
    BY <1>5 DEF PushDone, TypeOK, ControlTypes, timeVars
  <2>3. Nobody \in [inst : Notes, chunkStart : Nat]
    BY NonEmptyAssumption DEF Nobody
  <2>4. QueueTypes'
    BY <1>5, <2>3 DEF PushDone, TypeOK, QueueTypes
  <2> QED
    BY <2>1, <2>2, <2>4 DEF TypeOK
<1> QED
  BY <1>1, <1>2, <1>3, <1>4, <1>5

(* Playing the head of a queue keeps the types. *)
LEMMA TypeExec ==
  ASSUME TypeOK, ExecHead
  PROVE  TypeOK'
<1> DEFINE e    == rtQueue[Key][1]
           n    == e.inst
           rest == Pop(rtQueue[Key])
           next == e.chunkstart + ChunkSamps(n, e.chunkstart)
           E    == [inst : Notes, chunkstart : Nat, prev : Links]
           Q    == Seq(E)
<1>1. Key \in Keys /\ rtQueue[Key] # <<>> /\ rtQueue[Key] \in Q
  BY DEF ExecHead, HeadIsDue, Key, Keys, TypeOK, QueueTypes, ControlTypes
<1>2. e \in E
  <2> DEFINE q == rtQueue[Key]
  <2>1. q \in Q /\ q # <<>>
    BY <1>1
  <2> HIDE DEF q
  <2>2. 1 \in 1 .. Len(q)
    BY <2>1, EmptySeq
  <2>3. q[1] \in E
    BY <2>1, <2>2, ElementOfSeq
  <2> QED
    BY <2>3 DEF q
<1>3. rest \in Q
  BY <1>1, PopProperties DEF QElts
<1>4. next \in Nat /\ ChunkSamps(n, e.chunkstart) \in Int
  BY <1>2, NextProperties
<1>5. Push(rest, n, next) \in Q
  BY <1>2, <1>3, <1>4, PushType DEF QElts
<1>6. \/ /\ SrcChan(n, qStatus, bus) = 0
         /\ fault' = "assert_srcchan"
         /\ UNCHANGED <<rtQueue, instVars, refcount, mixed>>
      \/ /\ Exec(n, e.chunkstart)
         /\ fault' \in {fault, "freed"}
         /\ \/ rtQueue' = rtQueue
            \/ rtQueue' = [rtQueue EXCEPT ![Key] = Push(rest, n, next)]
            \/ rtQueue' = [rtQueue EXCEPT ![Key] = rest]
         /\ \/ refcount' = refcount
            \/ refcount' = [refcount EXCEPT ![n] = @ - 1]
  BY DEF ExecHead
<1>7. UNCHANGED <<rtHeap, timeVars, ctlVars, status, startsamp, nsamps>>
  BY DEF ExecHead
<1> HIDE DEF rest, next
<1>8. QueueTypes'
  <2>1. rtQueue' \in [Keys -> Q]
    BY <1>1, <1>3, <1>5, <1>6 DEF TypeOK, QueueTypes
  <2> QED
    BY <1>7, <2>1 DEF TypeOK, QueueTypes, ctlVars
<1>9. ControlTypes'
  BY <1>6, <1>7 DEF TypeOK, ControlTypes, ctlVars, timeVars
<1>10. CASE UNCHANGED <<instVars, refcount, mixed>>
  <2>1. InstTypes' /\ HistoryTypes'
    BY <1>7, <1>10, TypeUnchanged DEF histVars
  <2> QED
    BY <1>8, <1>9, <2>1 DEF TypeOK
<1>11. CASE /\ Exec(n, e.chunkstart)
            /\ \/ refcount' = refcount
               \/ refcount' = [refcount EXCEPT ![n] = @ - 1]
  <2>1. cursamp' \in [Notes -> Nat] /\ endsamp' \in [Notes -> Int]
    <3>1. cursamp' = [cursamp EXCEPT ![n] =
                        IF needs_to_run[n] /\ ChunkSamps(n, e.chunkstart) > 0
                        THEN @ + ChunkSamps(n, e.chunkstart) ELSE @]
      BY <1>11 DEF Exec
    <3>2. n \in Notes /\ cursamp \in [Notes -> Nat]
      BY <1>2 DEF TypeOK, InstTypes
    <3>3. PICK c \in Int : c = ChunkSamps(n, e.chunkstart)
      BY <1>4
    <3>4. cursamp' = [cursamp EXCEPT ![n] = IF needs_to_run[n] /\ c > 0 THEN @ + c ELSE @]
      BY <3>1, <3>3
    <3>5. cursamp' \in [Notes -> Nat]
      BY <3>2, <3>4
    <3>6. endsamp' = endsamp
      BY <1>11 DEF Exec
    <3> QED
      BY <3>5, <3>6 DEF TypeOK, InstTypes
  <2>2. needs_to_run' \in [Notes -> BOOLEAN]
    BY <1>11 DEF Exec, TypeOK, InstTypes
  <2>3. bufferWritten' \in [Notes -> SUBSET Nat]
    <3>1. n \in Notes /\ SrcChan(n, qStatus, bus) \in Nat
      BY <1>2, SrcChanProperties
    <3> DEFINE W == (IF needs_to_run[n] THEN {} ELSE bufferWritten[n])
                      \cup {SrcChan(n, qStatus, bus)}
    <3>2. W \in SUBSET Nat
      BY <3>1 DEF TypeOK, InstTypes
    <3>3. bufferWritten' = [bufferWritten EXCEPT ![n] = W]
      BY <1>11 DEF Exec
    <3> QED
      BY <3>2, <3>3 DEF TypeOK, InstTypes
  <2>4. refcount' \in [Notes -> Int]
    BY <1>2, <1>11 DEF TypeOK, InstTypes
  <2>5. mixed' \in [Notes -> [Keys -> Seq(Int \X Int)]]
    <3> DEFINE o == OutputOffset(e.chunkstart)
               m == <<o, o + ChunkSamps(n, e.chunkstart)>>
    <3>1. o \in Int
      BY <1>2 DEF OutputOffset, TypeOK, ControlTypes
    <3>2. m \in Int \X Int
      BY <1>4, <3>1
    <3> HIDE DEF m
    <3>3. n \in Notes /\ mixed[n][Key] \in Seq(Int \X Int)
      BY <1>1, <1>2 DEF TypeOK, HistoryTypes
    <3>4. Append(mixed[n][Key], m) \in Seq(Int \X Int)
      BY <3>2, <3>3, AppendProperties
    <3>5. mixed' = [mixed EXCEPT ![n][Key] = Append(mixed[n][Key], m)]
      BY <1>11 DEF Exec, m
    <3> QED
      BY <1>1, <3>3, <3>4, <3>5 DEF TypeOK, HistoryTypes
  <2>6. InstTypes'
    BY <2>1, <2>2, <2>3, <2>4 DEF InstTypes
  <2>7. HistoryTypes'
    BY <1>7, <2>5 DEF TypeOK, HistoryTypes
  <2> QED
    BY <1>8, <1>9, <2>6, <2>7 DEF TypeOK
<1> QED
  BY <1>6, <1>10, <1>11

(* The second half of a traversal, which plays the buses, keeps the types. *)
LEMMA TypePlay ==
  ASSUME TypeOK
  PROVE  /\ SelectBus => TypeOK'
         /\ NextClass => TypeOK'
         /\ BusDone => TypeOK'
         /\ Send => TypeOK'
<1>1. ASSUME SelectBus PROVE TypeOK'
  <2>1. QueueTypes' /\ InstTypes' /\ HistoryTypes'
    BY <1>1, TypeUnchanged DEF SelectBus
  <2>2. PlayList[qStatus] \in Seq(Bus) /\ play_bus \in 1 .. Len(PlayList[qStatus])
    BY <1>1, PlayListAssumption DEF SelectBus, TypeOK, ControlTypes
  <2>3. PlayList[qStatus][play_bus] \in Bus
    BY <2>2, ElementOfSeq
  <2>4. /\ bus' = PlayList[qStatus][play_bus]
        /\ fault' \in {fault, "assert_chunkstart"}
        /\ play_bus' = play_bus + 1 /\ pc' = "play"
        /\ UNCHANGED <<timeVars, qStatus>>
    BY <1>1 DEF SelectBus
  <2>5. ControlTypes'
    BY <2>3, <2>4 DEF TypeOK, ControlTypes, timeVars
  <2> QED
    BY <2>1, <2>5 DEF TypeOK
<1>2. ASSUME NextClass PROVE TypeOK'
  <2>1. QueueTypes' /\ InstTypes' /\ HistoryTypes'
    BY <1>2, TypeUnchanged DEF NextClass
  <2>2. /\ qStatus' \in {qStatus, "AUX_TO_AUX", "TO_OUT"}
        /\ pc' \in {"send", pc} /\ play_bus' = 1
        /\ UNCHANGED <<timeVars, bus, fault>>
    BY <1>2 DEF NextClass
  <2>3. ControlTypes'
    BY <2>2 DEF TypeOK, ControlTypes, timeVars, Classes
  <2> QED
    BY <2>1, <2>3 DEF TypeOK
<1>3. ASSUME BusDone PROVE TypeOK'
  <2>1. QueueTypes' /\ InstTypes' /\ HistoryTypes'
    BY <1>3, TypeUnchanged DEF BusDone
  <2>2. ControlTypes'
    BY <1>3 DEF BusDone, TypeOK, ControlTypes, timeVars
  <2> QED
    BY <2>1, <2>2 DEF TypeOK
<1>4. ASSUME Send PROVE TypeOK'
  <2>1. QueueTypes' /\ InstTypes'
    BY <1>4, TypeUnchanged DEF Send
  <2>2. ControlTypes'
    BY <1>4, BufsampsAssumption DEF Send, TypeOK, ControlTypes
  <2>3. [k \in Keys |-> <<>>] \in [Keys -> Seq(Int \X Int)]
    BY EmptySeq
  <2>4. HistoryTypes'
    BY <1>4, <2>3 DEF Send, TypeOK, HistoryTypes
  <2> QED
    BY <2>1, <2>2, <2>4 DEF TypeOK
<1> QED
  BY <1>1, <1>2, <1>3, <1>4

(* Every step of the handlers and of the traversal keeps the types. *)
LEMMA TypeNext == TypeOK /\ [Next]_vars => TypeOK'
<1> SUFFICES ASSUME TypeOK, [Next]_vars PROVE TypeOK'
  OBVIOUS
<1>1. CASE UNCHANGED vars
  BY <1>1, TypeUnchanged DEF vars, ctlVars, TypeOK
<1>2. CASE Next
  BY <1>2, TypeHandlers, TypePop, TypeExec, TypePlay DEF Next, Traverse
<1> QED
  BY <1>1, <1>2

(* Type correctness: no sequence of handlers and traversals, however late  *)
(* the notes, takes a queue, a counter or a field out of its type.         *)
THEOREM TypeCorrect == Spec => []TypeOK
  BY TypeInit, TypeNext, PTL DEF Spec

(***************************************************************************)
(* Scores that are on time.                                                *)
(***************************************************************************)

(* What the types say of the queues and of the period. *)
LEMMA QueueFacts ==
  ASSUME TypeOK
  PROVE  /\ \A k \in Keys : Len(rtQueue[k]) \in Nat
         /\ \A k \in Keys : \A i \in 1 .. Len(rtQueue[k]) :
              Start(k, i) \in Nat /\ rtQueue[k][i].inst \in Notes
         /\ \A e \in rtHeap : e.chunkStart \in Nat /\ e.inst \in Notes
         /\ bufStartSamp \in Nat /\ BufEnd \in Nat /\ bufStartSamp < BufEnd
<1>1. rtQueue \in [Keys -> Seq([inst : Notes, chunkstart : Nat, prev : Links])]
  BY DEF TypeOK, QueueTypes
<1>2. \A k \in Keys : \A i \in 1 .. Len(rtQueue[k]) :
        rtQueue[k][i] \in [inst : Notes, chunkstart : Nat, prev : Links]
  BY <1>1, ElementOfSeq
<1>3. \A e \in rtHeap : e \in [inst : Notes, chunkStart : Nat]
  BY DEF TypeOK, QueueTypes
<1>4. bufStartSamp \in Nat /\ BufEnd \in Nat /\ bufStartSamp < BufEnd
  BY BufsampsAssumption DEF TypeOK, ControlTypes, BufEnd
<1> QED
  BY <1>1, <1>2, <1>3, <1>4 DEF Start

(* The initial state satisfies the invariant. *)
LEMMA OnTimeInit == Init => OnTimeInv
<1> SUFFICES ASSUME Init PROVE OnTimeInv
  OBVIOUS
<1>1. TypeOK
  BY TypeInit
<1>2. \A k \in Keys : rtQueue[k] = <<>> /\ Len(rtQueue[k]) = 0
  BY DEF Init
<1>3. QueueTimes /\ QueueSorted /\ PlayedOut
  BY <1>2 DEF QueueTimes, QueueSorted, PlayedOut
<1>4. PopOrder /\ Members
  BY <1>2 DEF PopOrder, Members, Init
<1>5. NoFault /\ Clocks /\ HeapTimes /\ Ends
  BY BoundAssumption DEF Init, NoFault, Clocks, HeapTimes, Ends
<1> QED
  BY <1>1, <1>3, <1>4, <1>5 DEF OnTimeInv

(* A score on time schedules nothing before the next period.               *)
LEMMA OnTimeSchedule ==
  ASSUME OnTime, OnTimeInv, TypeOK',
         NEW n \in Notes, NEW s \in Starts, NEW d \in Durs, Schedule(n, s, d)
  PROVE  OnTimeInv'
<1> DEFINE first == s + elapsed + RTBUFSAMPS
<1>1. /\ pc = "idle" /\ pc' = "idle" /\ fault' = fault
      /\ first + d <= MaxSamp
      /\ endsamp' = [endsamp EXCEPT ![n] = first + d]
      /\ rtHeap' = rtHeap \cup {[inst |-> n, chunkStart |-> Unsigned(first)]}
      /\ UNCHANGED <<rtQueue, bufStartSamp, elapsed, qStatus, play_bus, bus>>
  BY DEF Schedule, ctlVars, timeVars
<1>2. /\ s \in Int /\ d \in Nat /\ s >= -RTBUFSAMPS
      /\ elapsed \in Nat /\ elapsed = bufStartSamp
      /\ RTBUFSAMPS \in Nat /\ MaxSamp \in Nat
  BY TimesAssumption, BufsampsAssumption, BoundAssumption
     DEF OnTime, OnTimeInv, Clocks, TypeOK, ControlTypes
<1>3. first \in 0 .. MaxSamp /\ first >= bufStartSamp
  BY <1>1, <1>2
<1>4. Unsigned(first) = first
  BY <1>2, <1>3, UnsignedProperties
<1> HIDE DEF first
<1>5. HeapTimes'
  BY <1>1, <1>3, <1>4 DEF OnTimeInv, HeapTimes
<1>6. Ends'
  BY <1>1, <1>2, <1>3 DEF OnTimeInv, Ends, TypeOK, InstTypes
<1>7. NoFault' /\ Clocks'
  BY <1>1 DEF OnTimeInv, NoFault, Clocks
<1>8. QueueTimes' /\ QueueSorted' /\ Members'
  BY <1>1 DEF OnTimeInv, QueueTimes, QueueSorted, Members, Start, BufEnd
<1>9. PopOrder' /\ PlayedOut'
  BY <1>1 DEF PopOrder, PlayedOut
<1> QED
  BY <1>5, <1>6, <1>7, <1>8, <1>9 DEF OnTimeInv

(* The other handlers. *)
LEMMA OnTimeHandlers ==
  ASSUME OnTimeInv, TypeOK'
  PROVE  /\ \A n \in Notes : ScheduleFails(n) => OnTimeInv'
         /\ Flush => OnTimeInv'
<1>1. ASSUME NEW n \in Notes, ScheduleFails(n) PROVE OnTimeInv'
  <2>1. /\ pc = "idle" /\ pc' = "idle"
        /\ UNCHANGED <<rtHeap, rtQueue, bufStartSamp, elapsed, qStatus, play_bus,
                       bus, endsamp, fault>>
    BY <1>1 DEF ScheduleFails, ctlVars, timeVars, instVars
  <2>2. NoFault' /\ Clocks' /\ HeapTimes' /\ Ends'
    BY <2>1 DEF OnTimeInv, NoFault, Clocks, HeapTimes, Ends
  <2>3. QueueTimes' /\ QueueSorted' /\ Members'
    BY <2>1 DEF OnTimeInv, QueueTimes, QueueSorted, Members, Start, BufEnd
  <2>4. PopOrder' /\ PlayedOut'
    BY <2>1 DEF PopOrder, PlayedOut
  <2> QED
    BY <2>2, <2>3, <2>4 DEF OnTimeInv
<1>2. ASSUME Flush PROVE OnTimeInv'
  <2>1. /\ pc = "idle" /\ pc' = "idle" /\ rtHeap' = {}
        /\ UNCHANGED <<bufStartSamp, elapsed, qStatus, play_bus, bus, fault>>
    BY <1>2 DEF Flush, ctlVars, timeVars
  <2>2. rtQueue' = [k \in Keys |-> <<>>]
    BY <1>2 DEF Flush
  <2>3. \A k \in Keys : rtQueue'[k] = <<>> /\ Len(rtQueue'[k]) = 0
    BY <2>2
  <2>4. endsamp' = [m \in Notes |-> IF status[m] = "live" THEN 0 ELSE endsamp[m]]
    BY <1>2 DEF Flush
  <2>5. NoFault' /\ Clocks' /\ HeapTimes'
    BY <2>1 DEF OnTimeInv, NoFault, Clocks, HeapTimes
  <2>6. Ends'
    BY <2>4, BoundAssumption DEF OnTimeInv, Ends
  <2>7. QueueTimes' /\ QueueSorted' /\ Members'
    BY <2>1, <2>3 DEF QueueTimes, QueueSorted, Members
  <2>8. PopOrder' /\ PlayedOut'
    BY <2>1 DEF PopOrder, PlayedOut
  <2> QED
    BY <2>5, <2>6, <2>7, <2>8 DEF OnTimeInv
<1> QED
  BY <1>1, <1>2

(* Emptying the heap: what is pushed starts no earlier than what is queued.*)
LEMMA OnTimePop ==
  ASSUME OnTimeInv, TypeOK'
  PROVE  /\ Begin => OnTimeInv'
         /\ \A e \in rtHeap : PopHeap(e) => OnTimeInv'
         /\ HeapDone => OnTimeInv'
         /\ PushDone => OnTimeInv'
<1>0. TypeOK
  BY DEF OnTimeInv
<1>1. ASSUME Begin PROVE OnTimeInv'
  <2>1. /\ pc = "idle" /\ pc' = "pop" /\ bufStartSamp <= MaxSamp
        /\ UNCHANGED <<rtHeap, rtQueue, bufStartSamp, elapsed, qStatus, play_bus,
                       bus, endsamp, fault>>
    BY <1>1 DEF Begin, timeVars, instVars
  <2>2. NoFault' /\ Clocks' /\ HeapTimes' /\ Ends'
    BY <2>1 DEF OnTimeInv, NoFault, Clocks, HeapTimes, Ends
  <2>3. \A k \in Keys : \A i \in 1 .. Len(rtQueue[k]) : Start(k, i) = bufStartSamp
    BY <2>1 DEF OnTimeInv, QueueTimes
  <2>4. QueueTimes'
    BY <1>0, <2>1, <2>3, QueueFacts DEF QueueTimes, Start, BufEnd
  <2>5. QueueSorted' /\ Members'
    BY <2>1 DEF OnTimeInv, QueueSorted, Members, Start
  <2>6. PopOrder'
    BY <2>1, <2>3 DEF OnTimeInv, HeapTimes, PopOrder, Start
  <2>7. PlayedOut'
    BY <2>1 DEF PlayedOut
  <2> QED
    BY <2>2, <2>4, <2>5, <2>6, <2>7 DEF OnTimeInv
<1>2. ASSUME NEW e \in rtHeap, PopHeap(e) PROVE OnTimeInv'
  <2>1. /\ pc = "pop" /\ pc' = "push"
        /\ IsMin(e) /\ e.chunkStart < BufEnd
        /\ rtHeap' = rtHeap \ {e} /\ popped' = e /\ todo' = QueuesOf(e.inst)
        /\ UNCHANGED <<rtQueue, bufStartSamp, elapsed, qStatus, play_bus,
                       bus, endsamp, fault>>
    BY <1>2 DEF PopHeap, timeVars, instVars
  <2>2. NoFault' /\ Clocks' /\ HeapTimes' /\ Ends'
    BY <2>1 DEF OnTimeInv, NoFault, Clocks, HeapTimes, Ends
  <2>3. QueueTimes' /\ QueueSorted'
    BY <2>1 DEF OnTimeInv, QueueTimes, QueueSorted, Start, BufEnd
  <2>4. PopOrder'
    <3>1. e.chunkStart >= bufStartSamp
      BY DEF OnTimeInv, HeapTimes
    <3>2. \A f \in rtHeap' : e.chunkStart <= f.chunkStart
      BY <2>1 DEF IsMin
    <3>3. \A k \in Keys : \A i \in 1 .. Len(rtQueue[k]) : Start(k, i) <= e.chunkStart
      BY <2>1 DEF OnTimeInv, PopOrder
    <3> QED
      BY <2>1, <3>1, <3>2, <3>3 DEF PopOrder, Start, BufEnd
  <2>5. Members'
    <3>1. \A i \in 1 .. Len(QueuesOf(e.inst)) : QueuesOf(e.inst)[i] \in KeysOf(e.inst)
      BY DEF KeysOf
    <3> QED
      BY <2>1, <3>1 DEF OnTimeInv, Members
  <2>6. PlayedOut'
    BY <2>1 DEF PlayedOut
  <2> QED
    BY <2>2, <2>3, <2>4, <2>5, <2>6 DEF OnTimeInv
<1>3. ASSUME HeapDone PROVE OnTimeInv'
  <2>1. /\ pc = "pop" /\ pc' = "select" /\ qStatus' = "TO_AUX" /\ play_bus' = 1
        /\ \A e \in rtHeap : e.chunkStart >= BufEnd
        /\ UNCHANGED <<rtHeap, rtQueue, bufStartSamp, elapsed, bus, endsamp, fault>>
    BY <1>3 DEF HeapDone, timeVars, instVars
  <2>2. NoFault' /\ Clocks' /\ Ends'
    BY <2>1 DEF OnTimeInv, NoFault, Clocks, Ends
  <2>3. HeapTimes'
    BY <2>1 DEF OnTimeInv, HeapTimes, BufEnd
  <2>4. QueueTimes' /\ QueueSorted' /\ Members'
    BY <2>1 DEF OnTimeInv, QueueTimes, QueueSorted, Members, Start, BufEnd
  <2>5. PopOrder'
    BY <2>1 DEF PopOrder
  <2>6. \A k \in Keys : ~Played(k)'
    BY <2>1 DEF Played, Earlier
  <2>7. PlayedOut'
    BY <2>6 DEF PlayedOut
  <2> QED
    BY <2>2, <2>3, <2>4, <2>5, <2>7 DEF OnTimeInv
<1>4. ASSUME PushDone PROVE OnTimeInv'
  <2>1. /\ pc = "push" /\ pc' = "pop"
        /\ UNCHANGED <<rtHeap, rtQueue, bufStartSamp, elapsed, qStatus, play_bus,
                       bus, endsamp, fault>>
    BY <1>4 DEF PushDone, timeVars, instVars
  <2>2. NoFault' /\ Clocks' /\ HeapTimes' /\ Ends'
    BY <2>1 DEF OnTimeInv, NoFault, Clocks, HeapTimes, Ends
  <2>3. QueueTimes' /\ QueueSorted' /\ Members'
    BY <2>1 DEF OnTimeInv, QueueTimes, QueueSorted, Members, Start, BufEnd
  <2>4. PopOrder'
    <3>1. popped.chunkStart \in Nat
      BY <1>0 DEF TypeOK, QueueTypes
    <3>2. \A k \in Keys : \A i \in 1 .. Len(rtQueue[k]) :
            \A e \in rtHeap : Start(k, i) <= e.chunkStart
      BY <1>0, <2>1, <3>1, QueueFacts DEF OnTimeInv, PopOrder
    <3> QED
      BY <2>1, <3>2 DEF PopOrder, Start
  <2>5. PlayedOut'
    BY <2>1 DEF PlayedOut
  <2> QED
    BY <2>2, <2>3, <2>4, <2>5 DEF OnTimeInv
<1> QED
  BY <1>1, <1>2, <1>3, <1>4

(* Pushing an instrument that left the heap appends it to its queue.       *)
LEMMA PushFacts ==
  ASSUME OnTimeInv, PushNext
  PROVE  /\ pc = "push" /\ pc' = "push" /\ todo' = Tail(todo)
         /\ UNCHANGED <<rtHeap, bufStartSamp, elapsed, popped, qStatus, play_bus,
                        bus, endsamp, fault, histVars>>
         /\ Len(todo) \in Nat \ {0} /\ Len(Tail(todo)) = Len(todo) - 1
         /\ \A i \in 1 .. Len(Tail(todo)) : Tail(todo)[i] = todo[i + 1]
         /\ \A i \in 1 .. Len(todo) : todo[i] \in Keys
         /\ todo[1] \in Keys /\ todo[1] \in KeysOf(popped.inst)
         /\ popped.inst \in Notes /\ popped.chunkStart \in Nat
         /\ popped.chunkStart >= bufStartSamp /\ popped.chunkStart < BufEnd
         /\ \A j \in Keys \ {todo[1]} : rtQueue'[j] = rtQueue[j]
         /\ Len(rtQueue'[todo[1]]) = Len(rtQueue[todo[1]]) + 1
         /\ \A i \in 1 .. Len(rtQueue[todo[1]]) :
              rtQueue'[todo[1]][i] = rtQueue[todo[1]][i]
         /\ rtQueue'[todo[1]][Len(rtQueue[todo[1]]) + 1].inst = popped.inst
         /\ rtQueue'[todo[1]][Len(rtQueue[todo[1]]) + 1].chunkstart = popped.chunkStart
<1> DEFINE k    == todo[1]
           q    == rtQueue[k]
           new  == Push(q, popped.inst, popped.chunkStart)
<1>0. TypeOK
  BY DEF OnTimeInv
<1>1. /\ todo # <<>> /\ todo \in Seq(Keys) /\ pc = "push" /\ pc' = "push"
      /\ todo' = Tail(todo)
      /\ UNCHANGED <<rtHeap, bufStartSamp, elapsed, popped, qStatus, play_bus,
                     bus, endsamp, histVars>>
  BY <1>0 DEF PushNext, timeVars, instVars, TypeOK, QueueTypes
<1>2. /\ Len(todo) \in Nat \ {0} /\ Len(Tail(todo)) = Len(todo) - 1
      /\ \A i \in 1 .. Len(Tail(todo)) : Tail(todo)[i] = todo[i + 1]
      /\ \A i \in 1 .. Len(todo) : todo[i] \in Keys
  BY <1>1, HeadTailProperties, EmptySeq, ElementOfSeq
<1>3. k \in Keys /\ k \in KeysOf(popped.inst)
  <2>1. 1 \in 1 .. Len(todo)
    BY <1>2
  <2>2. k \in Keys
    BY <1>1, <2>1, ElementOfSeq
  <2> QED
    BY <1>1, <2>1, <2>2 DEF OnTimeInv, Members
<1>4. /\ popped.inst \in Notes /\ popped.chunkStart \in Nat
      /\ popped.chunkStart >= bufStartSamp /\ popped.chunkStart < BufEnd
      /\ \A e \in rtHeap : popped.chunkStart <= e.chunkStart
      /\ \A j \in Keys : \A i \in 1 .. Len(rtQueue[j]) : Start(j, i) <= popped.chunkStart
  BY <1>0, <1>1 DEF OnTimeInv, PopOrder, TypeOK, QueueTypes
<1>5. q \in Seq(QElts(Notes)) /\ \A i \in 1 .. Len(q) : q[i].chunkstart <= popped.chunkStart
  BY <1>0, <1>3, <1>4 DEF TypeOK, QueueTypes, QElts, Start
<1>6. /\ ~ReadsFreed(q, popped.chunkStart)
      /\ Len(new) = Len(q) + 1
      /\ \A i \in 1 .. Len(q) : new[i] = q[i]
      /\ new[Len(q) + 1].inst = popped.inst
      /\ new[Len(q) + 1].chunkstart = popped.chunkStart
  <2> DEFINE s == popped.chunkStart
             n == popped.inst
  <2>1. q \in Seq(QElts(Notes)) /\ n \in Notes /\ s \in Nat
    BY <1>4, <1>5
  <2>2. \A i \in 1 .. Len(q) : q[i].chunkstart <= s
    BY <1>5
  <2> HIDE DEF q, s, n
  <2>3. /\ ~ReadsFreed(q, s)
        /\ Len(Push(q, n, s)) = Len(q) + 1
        /\ \A i \in 1 .. Len(q) : Push(q, n, s)[i] = q[i]
        /\ Push(q, n, s)[Len(q) + 1].inst = n
        /\ Push(q, n, s)[Len(q) + 1].chunkstart = s
    BY <2>1, <2>2, PushAppends
  <2> QED
    BY <2>3 DEF s, n
<1>7. rtQueue' = [rtQueue EXCEPT ![k] = new] /\ fault' = fault
  BY <1>6 DEF PushNext
<1>8. \A j \in Keys :
        /\ j # k => rtQueue'[j] = rtQueue[j]
        /\ j = k => rtQueue'[j] = new
  BY <1>0, <1>7 DEF TypeOK, QueueTypes
<1> QED
  BY <1>1, <1>2, <1>3, <1>4, <1>6, <1>7, <1>8

LEMMA OnTimePush ==
  ASSUME OnTimeInv, TypeOK', PushNext
  PROVE  OnTimeInv'
<1>0. TypeOK
  BY DEF OnTimeInv
<1>1. /\ pc = "push" /\ pc' = "push" /\ todo' = Tail(todo)
      /\ UNCHANGED <<rtHeap, bufStartSamp, elapsed, popped, qStatus, play_bus,
                     bus, endsamp>>
  BY PushFacts
<1>2. /\ Len(todo) \in Nat \ {0} /\ Len(Tail(todo)) = Len(todo) - 1
      /\ \A i \in 1 .. Len(Tail(todo)) : Tail(todo)[i] = todo[i + 1]
  BY PushFacts
<1>3. PICK k \in Keys : k = todo[1] /\ k \in KeysOf(popped.inst)
  BY PushFacts
<1>4. /\ popped.inst \in Notes /\ popped.chunkStart \in Nat
      /\ popped.chunkStart >= bufStartSamp /\ popped.chunkStart < BufEnd
      /\ \A e \in rtHeap : popped.chunkStart <= e.chunkStart
      /\ \A j \in Keys : \A i \in 1 .. Len(rtQueue[j]) : Start(j, i) <= popped.chunkStart
  BY <1>1, PushFacts DEF OnTimeInv, PopOrder
<1>6. /\ Len(rtQueue'[k]) = Len(rtQueue[k]) + 1
      /\ \A i \in 1 .. Len(rtQueue[k]) : rtQueue'[k][i] = rtQueue[k][i]
      /\ rtQueue'[k][Len(rtQueue[k]) + 1].inst = popped.inst
      /\ rtQueue'[k][Len(rtQueue[k]) + 1].chunkstart = popped.chunkStart
  BY <1>3, PushFacts
<1>7. fault' = fault
  BY PushFacts
<1>8. \A j \in Keys \ {k} : rtQueue'[j] = rtQueue[j]
  BY <1>3, PushFacts
<1>9. \A j \in Keys : \A i \in 1 .. Len(rtQueue'[j]) :
        \/ /\ i \in 1 .. Len(rtQueue[j]) /\ rtQueue'[j][i] = rtQueue[j][i]
        \/ /\ j = k /\ i = Len(rtQueue[k]) + 1
           /\ rtQueue'[j][i].inst = popped.inst
           /\ rtQueue'[j][i].chunkstart = popped.chunkStart
  <2> TAKE j \in Keys
  <2> TAKE i \in 1 .. Len(rtQueue'[j])
  <2>1. Len(rtQueue[k]) \in Nat
    BY <1>0, QueueFacts
  <2>2. CASE j # k
    BY <1>8, <2>2
  <2>3. CASE j = k
    BY <1>6, <2>1, <2>3
  <2> QED
    BY <2>2, <2>3
<1>10. NoFault' /\ Clocks' /\ HeapTimes' /\ Ends'
  BY <1>1, <1>7 DEF OnTimeInv, NoFault, Clocks, HeapTimes, Ends, BufEnd
<1>11. QueueTimes'
  <2> SUFFICES ASSUME NEW j \in Keys, NEW i \in 1 .. Len(rtQueue'[j])
               PROVE  /\ rtQueue'[j][i].chunkstart >= bufStartSamp
                      /\ rtQueue'[j][i].chunkstart <= BufEnd
                      /\ rtQueue'[j][i].chunkstart < BufEnd
    BY <1>1 DEF QueueTimes, Start, BufEnd
  <2>1. CASE i \in 1 .. Len(rtQueue[j]) /\ rtQueue'[j][i] = rtQueue[j][i]
    BY <1>1, <2>1 DEF OnTimeInv, QueueTimes, Start
  <2>2. CASE rtQueue'[j][i].chunkstart = popped.chunkStart
    BY <1>0, <1>4, <2>2, QueueFacts
  <2> QED
    BY <1>9, <2>1, <2>2
<1>12. QueueSorted'
  <2> SUFFICES ASSUME NEW j \in Keys,
                      NEW a \in 1 .. Len(rtQueue'[j]), NEW b \in 1 .. Len(rtQueue'[j]),
                      a < b
               PROVE  rtQueue'[j][a].chunkstart <= rtQueue'[j][b].chunkstart
    BY DEF QueueSorted, Start
  <2>1. Len(rtQueue[j]) \in Nat
    BY <1>0, QueueFacts
  <2>2. a \in 1 .. Len(rtQueue[j]) /\ rtQueue'[j][a] = rtQueue[j][a]
    BY <1>9, <2>1, <1>8, <1>6
  <2>3. CASE b \in 1 .. Len(rtQueue[j]) /\ rtQueue'[j][b] = rtQueue[j][b]
    BY <2>2, <2>3 DEF OnTimeInv, QueueSorted, Start
  <2>4. CASE rtQueue'[j][b].chunkstart = popped.chunkStart
    BY <1>4, <2>2, <2>4 DEF Start
  <2> QED
    BY <1>9, <2>3, <2>4
<1>13. PopOrder'
  <2>1. \A j \in Keys : \A i \in 1 .. Len(rtQueue'[j]) :
          rtQueue'[j][i].chunkstart <= popped.chunkStart
    BY <1>4, <1>9 DEF Start
  <2> QED
    BY <1>1, <1>4, <2>1 DEF PopOrder, Start, BufEnd
<1>14. Members'
  <2>1. \A j \in Keys : \A i \in 1 .. Len(rtQueue'[j]) : j \in KeysOf(rtQueue'[j][i].inst)
    BY <1>3, <1>9 DEF OnTimeInv, Members
  <2>2. \A i \in 1 .. Len(Tail(todo)) : Tail(todo)[i] \in KeysOf(popped.inst)
    BY <1>1, <1>2 DEF OnTimeInv, Members
  <2> QED
    BY <1>1, <2>1, <2>2 DEF Members
<1>15. PlayedOut'
  BY <1>1 DEF PlayedOut
<1> QED
  BY <1>10, <1>11, <1>12, <1>13, <1>14, <1>15 DEF OnTimeInv

(* Walking the play lists.                                                 *)
LEMMA OnTimeWalk ==
  ASSUME AllPlayed, OnTimeInv, TypeOK'
  PROVE  /\ SelectBus => OnTimeInv'
         /\ NextClass => OnTimeInv'
         /\ BusDone => OnTimeInv'
         /\ Send => OnTimeInv'
<1>0. TypeOK /\ play_bus \in Nat \ {0} /\ qStatus \in Classes
  BY DEF OnTimeInv, TypeOK, ControlTypes
<1>1. ASSUME SelectBus PROVE OnTimeInv'
  <2> DEFINE b == PlayList[qStatus][play_bus]
             q == rtQueue[<<qStatus, b>>]
  <2>1. /\ pc = "select" /\ pc' = "play" /\ bus' = b
        /\ play_bus <= Len(PlayList[qStatus]) /\ play_bus' = play_bus + 1
        /\ UNCHANGED <<rtHeap, rtQueue, bufStartSamp, elapsed, qStatus, endsamp>>
    BY <1>1 DEF SelectBus, timeVars, instVars
  <2>2. <<qStatus, b>> \in Keys
    BY <1>0, <2>1, PlayListAssumption, ElementOfSeq DEF Keys
  <2>3. q # <<>> => NextChunk(q) \in Nat /\ NextChunk(q) >= bufStartSamp
    <3> SUFFICES ASSUME q # <<>> PROVE NextChunk(q) \in Nat /\ NextChunk(q) >= bufStartSamp
      OBVIOUS
    <3>1. q \in Seq(QElts(Notes))
      BY <1>0, <2>2 DEF TypeOK, QueueTypes, QElts
    <3> HIDE DEF q
    <3>2. 1 \in 1 .. Len(q)
      BY <3>1, EmptySeq
    <3>3. Start(<<qStatus, b>>, 1) \in Nat /\ Start(<<qStatus, b>>, 1) >= bufStartSamp
      BY <1>0, <2>2, <3>2, QueueFacts DEF OnTimeInv, QueueTimes, q
    <3> QED
      BY <3>3 DEF NextChunk, Start, q
  <2>4. fault' = fault
    <3>1. fault' = IF q # <<>> /\ NextChunk(q) = 0 /\ bufStartSamp # 0
                   THEN "assert_chunkstart" ELSE fault
      BY <1>1 DEF SelectBus
    <3> QED
      BY <1>0, <2>3, <3>1, QueueFacts
  <2>5. NoFault' /\ Clocks' /\ HeapTimes' /\ Ends'
    BY <2>1, <2>4 DEF OnTimeInv, NoFault, Clocks, HeapTimes, Ends, BufEnd
  <2>6. QueueTimes' /\ QueueSorted' /\ Members' /\ PopOrder'
    BY <2>1 DEF OnTimeInv, QueueTimes, QueueSorted, Members, PopOrder, Start, BufEnd
  <2>7. PlayedOut'
    <3> SUFFICES ASSUME NEW k \in Keys, Played(k)' PROVE Played(k)
      BY <2>1 DEF OnTimeInv, PlayedOut, Start, BufEnd
    <3>1. k # <<qStatus, b>>
      BY <2>1 DEF Played, Key
    <3>2. k = <<k[1], k[2]>>
      BY DEF Keys
    <3>3. CASE k[1] = qStatus
      <4>1. PICK i \in 1 .. Len(PlayList[k[1]]) :
              i < play_bus + 1 /\ PlayList[k[1]][i] = k[2]
        BY <2>1, <3>3 DEF Played, Earlier, Classes
      <4>2. i # play_bus
        BY <3>1, <3>2, <3>3, <4>1
      <4>3. i < play_bus
        BY <1>0, <4>1, <4>2
      <4> QED
        BY <2>1, <3>3, <4>1, <4>3 DEF Played
    <3>4. CASE k[1] # qStatus
      BY <2>1, <3>4 DEF Played
    <3> QED
      BY <3>3, <3>4
  <2> QED
    BY <2>5, <2>6, <2>7 DEF OnTimeInv
<1>2. ASSUME NextClass PROVE OnTimeInv'
  <2>1. /\ pc = "select" /\ play_bus > Len(PlayList[qStatus]) /\ play_bus' = 1
        /\ UNCHANGED <<rtHeap, rtQueue, bufStartSamp, elapsed, bus, endsamp, fault>>
    BY <1>2 DEF NextClass, timeVars, instVars
  <2>2. \/ qStatus = "TO_OUT" /\ pc' = "send" /\ qStatus' = "TO_OUT"
        \/ qStatus = "TO_AUX" /\ pc' = "select" /\ qStatus' = "AUX_TO_AUX"
        \/ qStatus = "AUX_TO_AUX" /\ pc' = "select" /\ qStatus' = "TO_OUT"
    BY <1>0, <1>2, <2>1 DEF NextClass, Classes
  <2>3. NoFault' /\ Clocks' /\ Ends'
    BY <2>1, <2>2 DEF OnTimeInv, NoFault, Clocks, Ends
  <2>4. HeapTimes'
    BY <2>1, <2>2 DEF OnTimeInv, HeapTimes, BufEnd
  <2>5. \A k \in Keys : (k[1] = qStatus \/ Earlier(k[1], qStatus)) =>
          \A i \in 1 .. Len(rtQueue[k]) : Start(k, i) = BufEnd
    <3> TAKE k \in Keys
    <3> HAVE k[1] = qStatus \/ Earlier(k[1], qStatus)
    <3> TAKE i \in 1 .. Len(rtQueue[k])
    <3>1. rtQueue[k][i].inst \in Notes /\ k \in KeysOf(rtQueue[k][i].inst)
      BY <1>0, QueueFacts DEF OnTimeInv, Members
    <3>2. PICK j \in 1 .. Len(PlayList[k[1]]) : PlayList[k[1]][j] = k[2]
      BY <3>1 DEF AllPlayed
    <3>3. k[1] = qStatus => j < play_bus
      <4>1. Len(PlayList[qStatus]) \in Nat
        BY <1>0, PlayListAssumption
      <4> QED
        BY <1>0, <2>1, <4>1
    <3>4. Played(k)
      BY <2>1, <3>2, <3>3 DEF Played
    <3> QED
      BY <2>1, <3>4 DEF OnTimeInv, PlayedOut
  <2>6. \A k \in Keys : Played(k)' => k[1] = qStatus \/ Earlier(k[1], qStatus)
    <3>1. \A k \in Keys : Played(k)' => Earlier(k[1], qStatus')
      <4> SUFFICES ASSUME NEW k \in Keys, Played(k)', ~Earlier(k[1], qStatus')
                   PROVE  FALSE
        OBVIOUS
      <4>1. \E i \in 1 .. Len(PlayList[k[1]]) : i < 1
        BY <2>1 DEF Played
      <4> QED
        BY <4>1
    <3> QED
      BY <2>2, <3>1 DEF Earlier
  <2>7. PlayedOut'
    BY <2>1, <2>5, <2>6 DEF PlayedOut, Start, BufEnd
  <2>8. qStatus = "TO_OUT" => \A k \in Keys : \A i \in 1 .. Len(rtQueue[k]) :
                                Start(k, i) = BufEnd
    <3>1. \A k \in Keys : qStatus = "TO_OUT" => k[1] = qStatus \/ Earlier(k[1], qStatus)
      BY DEF Keys, Classes, Earlier
    <3> QED
      BY <2>5, <3>1
  <2>9. QueueTimes'
    BY <2>1, <2>2, <2>8 DEF OnTimeInv, QueueTimes, Start, BufEnd
  <2>10. QueueSorted' /\ Members' /\ PopOrder'
    BY <2>1, <2>2 DEF OnTimeInv, QueueSorted, Members, PopOrder, Start
  <2> QED
    BY <2>3, <2>4, <2>7, <2>9, <2>10 DEF OnTimeInv
<1>3. ASSUME BusDone PROVE OnTimeInv'
  <2>1. /\ pc = "play" /\ pc' = "select" /\ ~HeadIsDue
        /\ UNCHANGED <<rtHeap, rtQueue, bufStartSamp, elapsed, qStatus, play_bus,
                       bus, endsamp, fault>>
    BY <1>3 DEF BusDone, timeVars, instVars
  <2>2. NoFault' /\ Clocks' /\ HeapTimes' /\ Ends'
    BY <2>1 DEF OnTimeInv, NoFault, Clocks, HeapTimes, Ends, BufEnd
  <2>3. QueueTimes' /\ QueueSorted' /\ Members' /\ PopOrder'
    BY <2>1 DEF OnTimeInv, QueueTimes, QueueSorted, Members, PopOrder, Start, BufEnd
  <2>4. Key \in Keys
    BY <1>0 DEF Key, Keys, TypeOK, ControlTypes
  <2>5. \A i \in 1 .. Len(rtQueue[Key]) : Start(Key, i) = BufEnd
    <3> SUFFICES ASSUME NEW i \in 1 .. Len(rtQueue[Key]) PROVE Start(Key, i) = BufEnd
      OBVIOUS
    <3>1. rtQueue[Key] # <<>> /\ 1 \in 1 .. Len(rtQueue[Key])
      BY <1>0, <2>4, QueueFacts
    <3>2. Start(Key, 1) >= BufEnd
      BY <1>0, <2>1, <2>4, <3>1, QueueFacts DEF HeadIsDue, NextChunk, Start
    <3>3. Start(Key, 1) <= Start(Key, i)
      <4>1. CASE i = 1
        BY <1>0, <2>4, <3>1, <4>1, QueueFacts
      <4>2. CASE i # 1
        BY <1>0, <2>4, <3>1, <4>2, QueueFacts DEF OnTimeInv, QueueSorted
      <4> QED
        BY <4>1, <4>2
    <3>4. Start(Key, i) <= BufEnd
      BY <2>4 DEF OnTimeInv, QueueTimes
    <3> QED
      BY <1>0, <2>4, <3>1, <3>2, <3>3, <3>4, QueueFacts
  <2>6. PlayedOut'
    <3>1. \A k \in Keys : Played(k)' => k = Key \/ Played(k)
      BY <2>1 DEF Played
    <3> QED
      BY <2>1, <2>5, <3>1 DEF OnTimeInv, PlayedOut, Start, BufEnd
  <2> QED
    BY <2>2, <2>3, <2>6 DEF OnTimeInv
<1>4. ASSUME Send PROVE OnTimeInv'
  <2>1. /\ pc = "send" /\ pc' = "idle"
        /\ bufStartSamp' = BufEnd /\ elapsed' = elapsed + RTBUFSAMPS
        /\ UNCHANGED <<rtHeap, rtQueue, endsamp, fault>>
    BY <1>4 DEF Send, instVars, BufEnd
  <2>2. NoFault' /\ Ends'
    BY <2>1 DEF OnTimeInv, NoFault, Ends
  <2>3. Clocks'
    BY <2>1 DEF OnTimeInv, Clocks, BufEnd
  <2>4. HeapTimes'
    BY <2>1 DEF OnTimeInv, HeapTimes
  <2>5. QueueTimes'
    <3>1. \A k \in Keys : \A i \in 1 .. Len(rtQueue[k]) : Start(k, i) = BufEnd
      BY <2>1 DEF OnTimeInv, QueueTimes
    <3>2. BufEnd \in Nat /\ BufEnd' \in Nat /\ BufEnd <= BufEnd'
      BY <1>0, <2>1, QueueFacts, BufsampsAssumption DEF BufEnd
    <3> QED
      BY <2>1, <3>1, <3>2 DEF QueueTimes, Start
  <2>6. QueueSorted' /\ Members' /\ PopOrder' /\ PlayedOut'
    BY <2>1 DEF OnTimeInv, QueueSorted, Members, PopOrder, PlayedOut, Start
  <2> QED
    BY <2>2, <2>3, <2>4, <2>5, <2>6 DEF OnTimeInv
<1> QED
  BY <1>1, <1>2, <1>3, <1>4

(* A queued instrument that is on time continues exactly with the next     *)
(* period, if its end is beyond this one.                                  *)
LEMMA NextIsBufEnd ==
  ASSUME TypeOK, Ends, NEW n \in Notes,
         NEW cs \in Nat, cs >= bufStartSamp, cs < BufEnd
  PROVE  /\ Unsigned(endsamp[n]) = endsamp[n]
         /\ endsamp[n] > BufEnd => cs + ChunkSamps(n, cs) = BufEnd
<1>1. endsamp[n] \in 0 .. MaxSamp
  BY DEF Ends
<1>2. /\ RTBUFSAMPS \in Nat /\ MaxSamp \in Nat /\ bufStartSamp \in Nat
      /\ BufEnd = bufStartSamp + RTBUFSAMPS
  BY BufsampsAssumption, BoundAssumption DEF TypeOK, ControlTypes, BufEnd
<1>3. Unsigned(endsamp[n]) = endsamp[n]
  BY <1>1, <1>2, UnsignedProperties
<1>4. LateEnd(n, cs) = endsamp[n]
  BY <1>2, <1>3 DEF LateEnd
<1>5. ASSUME endsamp[n] > BufEnd PROVE cs + ChunkSamps(n, cs) = BufEnd
  <2>1. ~(LateEnd(n, cs) < BufEnd) /\ ~(BufEnd - cs > RTBUFSAMPS)
    BY <1>1, <1>2, <1>4, <1>5
  <2>2. ChunkSamps(n, cs) = BufEnd - cs
    BY <2>1 DEF ChunkSamps
  <2> QED
    BY <1>2, <2>2
<1> QED
  BY <1>3, <1>5

(* A queue loses its head and gets it back behind the others, at the end   *)
(* of the period, if the instrument ends later.                            *)
LEMMA ExecFacts ==
  ASSUME OneKind, OnTimeInv, ExecHead
  PROVE  LET q  == rtQueue[Key]
             n  == q[1].inst
             cs == q[1].chunkstart
         IN  /\ pc = "play" /\ pc' = "play" /\ Key \in Keys
             /\ UNCHANGED <<rtHeap, bufStartSamp, elapsed, popped, qStatus, play_bus,
                            bus, endsamp, fault, status, startsamp, nsamps>>
             /\ Len(q) \in Nat \ {0}
             /\ n \in Notes /\ cs \in Nat /\ cs >= bufStartSamp /\ cs < BufEnd
             /\ Exec(n, cs)
             /\ \A k \in Keys \ {Key} : rtQueue'[k] = rtQueue[k]
             /\ \A i \in 1 .. Len(q) - 1 :
                  /\ rtQueue'[Key][i].inst = q[i + 1].inst
                  /\ rtQueue'[Key][i].chunkstart = q[i + 1].chunkstart
             /\ IF endsamp[n] > BufEnd
                THEN /\ Len(rtQueue'[Key]) = Len(q)
                     /\ rtQueue'[Key][Len(q)].inst = n
                     /\ rtQueue'[Key][Len(q)].chunkstart = BufEnd
                ELSE Len(rtQueue'[Key]) = Len(q) - 1
<1> DEFINE q    == rtQueue[Key]
           e    == q[1]
           n    == e.inst
           cs   == e.chunkstart
           rest == Pop(q)
           next == cs + ChunkSamps(n, cs)
           new  == Push(rest, n, next)
           E    == QElts(Notes)
<1>0. TypeOK
  BY DEF OnTimeInv
<1>1. /\ pc = "play" /\ pc' = "play" /\ q # <<>> /\ cs < BufEnd
      /\ UNCHANGED <<rtHeap, bufStartSamp, elapsed, popped, qStatus, play_bus, bus,
                     status, startsamp, nsamps>>
  BY DEF ExecHead, HeadIsDue, NextChunk, timeVars, ctlVars
<1>2. Key \in Keys /\ q \in Seq(E)
  BY <1>0 DEF Key, Keys, TypeOK, QueueTypes, ControlTypes, QElts
<1>3. Len(q) \in Nat \ {0} /\ 1 \in 1 .. Len(q)
  <2> HIDE DEF q
  <2> QED
    BY <1>1, <1>2, EmptySeq
<1>4. n \in Notes /\ cs \in Nat /\ cs >= bufStartSamp
  <2>1. Start(Key, 1) \in Nat /\ rtQueue[Key][1].inst \in Notes
    BY <1>0, <1>2, <1>3, QueueFacts
  <2>2. Start(Key, 1) >= bufStartSamp
    BY <1>2, <1>3 DEF OnTimeInv, QueueTimes
  <2> QED
    BY <2>1, <2>2 DEF Start
<1>5. SrcChan(n, qStatus, bus) # 0
  <2>1. Key \in KeysOf(n)
    BY <1>2, <1>3 DEF OnTimeInv, Members
  <2>2. \E i \in 1 .. Len(QueuesOf(n)) : QueuesOf(n)[i] = <<qStatus, bus>>
    BY <2>1 DEF KeysOf, Key
  <2>3. ClassOf(Slot[n]) # "TO_AUX_AND_OUT"
    BY <1>4 DEF OneKind
  <2>4. /\ Len(Slot[n].out) \in Nat /\ Len(Slot[n].auxout) \in Nat
    <3>1. \A m \in Notes : Slot[m].out \in Seq(Bus) /\ Slot[m].auxout \in Seq(Bus)
      BY KeysProperties
    <3>2. \A t \in Seq(Bus) : Len(t) \in Nat
      BY LenProperties
    <3> HIDE DEF n
    <3> QED
      BY <1>4, <3>1, <3>2
  <2>5. \A c, s : Len(s) \in Nat =>
          /\ Len(On(c, s)) = Len(s)
          /\ \A i \in 1 .. Len(s) : On(c, s)[i] = <<c, s[i]>>
    BY DEF On
  <2>6. \E i \in 1 .. Len(BusList(n, qStatus)) : BusList(n, qStatus)[i] = bus
    <3>1. CASE ClassOf(Slot[n]) \in {"TO_AUX", "AUX_TO_AUX"}
      <4>1. QueuesOf(n) = On(ClassOf(Slot[n]), Slot[n].auxout)
        BY <3>1 DEF QueuesOf
      <4> DEFINE s == Slot[n].auxout
      <4>5. Len(On(ClassOf(Slot[n]), s)) = Len(s) /\
            \A i \in 1 .. Len(s) : On(ClassOf(Slot[n]), s)[i] = <<ClassOf(Slot[n]), s[i]>>
        BY <2>4, <2>5
      <4>2. PICK i \in 1 .. Len(s) : <<ClassOf(Slot[n]), s[i]>> = <<qStatus, bus>>
        BY <2>2, <4>1, <4>5
      <4>3. qStatus = ClassOf(Slot[n]) /\ Slot[n].auxout[i] = bus
        BY <4>2
      <4> QED
        BY <3>1, <4>3 DEF BusList
    <3>2. CASE ClassOf(Slot[n]) = "TO_OUT"
      <4>1. QueuesOf(n) = On("TO_OUT", Slot[n].out)
        BY <3>2 DEF QueuesOf
      <4> DEFINE s == Slot[n].out
      <4>5. Len(On("TO_OUT", s)) = Len(s) /\
            \A i \in 1 .. Len(s) : On("TO_OUT", s)[i] = <<"TO_OUT", s[i]>>
        BY <2>4, <2>5
      <4>2. PICK i \in 1 .. Len(s) : <<"TO_OUT", s[i]>> = <<qStatus, bus>>
        BY <2>2, <4>1, <4>5
      <4>3. qStatus = "TO_OUT" /\ Slot[n].out[i] = bus
        BY <4>2
      <4> QED
        BY <4>3 DEF BusList
    <3>3. CASE ClassOf(Slot[n]) = "UNKNOWN"
      <4>1. QueuesOf(n) = <<>>
        BY <3>3 DEF QueuesOf
      <4> QED
        BY <2>2, <4>1
    <3>4. ClassOf(Slot[n]) \in {"TO_AUX", "AUX_TO_AUX", "TO_OUT", "UNKNOWN"}
      BY <2>3 DEF ClassOf
    <3> QED
      BY <3>1, <3>2, <3>3, <3>4
  <2> QED
    BY <1>4, <2>6, SrcChanProperties
<1>6. /\ Unsigned(endsamp[n]) = endsamp[n]
      /\ endsamp[n] > BufEnd => next = BufEnd
  BY <1>0, <1>1, <1>4, NextIsBufEnd DEF OnTimeInv
<1>7. /\ rest \in Seq(E) /\ Len(rest) = Len(q) - 1
      /\ \A i \in 1 .. Len(q) - 1 : /\ rest[i].inst = q[i + 1].inst
                                    /\ rest[i].chunkstart = q[i + 1].chunkstart
  <2> HIDE DEF q
  <2> QED
    BY <1>1, <1>2, PopProperties
<1>8. \A i \in 1 .. Len(q) : q[i].chunkstart <= BufEnd /\ q[i].chunkstart \in Nat
  BY <1>0, <1>2, QueueFacts DEF OnTimeInv, QueueTimes, Start
<1>9. ASSUME next = BufEnd
      PROVE  /\ ~ReadsFreed(rest, next)
             /\ Len(new) = Len(q)
             /\ \A i \in 1 .. Len(q) - 1 : new[i] = rest[i]
             /\ new[Len(q)].inst = n
             /\ new[Len(q)].chunkstart = BufEnd
  <2>1. next \in Nat /\ BufEnd \in Nat
    BY <1>0, <1>9, QueueFacts
  <2>2. \A i \in 1 .. Len(rest) : rest[i].chunkstart <= next
    BY <1>3, <1>7, <1>8, <1>9
  <2> HIDE DEF rest, next, n, q
  <2>3. /\ ~ReadsFreed(rest, next)
        /\ Len(Push(rest, n, next)) = Len(rest) + 1
        /\ \A i \in 1 .. Len(rest) : Push(rest, n, next)[i] = rest[i]
        /\ Push(rest, n, next)[Len(rest) + 1].inst = n
        /\ Push(rest, n, next)[Len(rest) + 1].chunkstart = next
    BY <1>4, <1>7, <2>1, <2>2, PushAppends
  <2> QED
    BY <1>3, <1>7, <1>9, <2>3
<1>10. /\ fault' = fault /\ endsamp' = endsamp /\ Exec(n, cs)
       /\ rtQueue' = [rtQueue EXCEPT ![Key] = IF endsamp[n] > BufEnd THEN new ELSE rest]
  <2>1. CASE endsamp[n] > BufEnd
    BY <1>5, <1>6, <1>9, <2>1 DEF ExecHead, Exec
  <2>2. CASE ~(endsamp[n] > BufEnd)
    BY <1>5, <1>6, <2>2 DEF ExecHead, Exec
  <2> QED
    BY <2>1, <2>2
<1>11. /\ \A k \in Keys \ {Key} : rtQueue'[k] = rtQueue[k]
       /\ rtQueue'[Key] = IF endsamp[n] > BufEnd THEN new ELSE rest
  <2>1. DOMAIN rtQueue = Keys /\ rtQueue = [k \in Keys |-> rtQueue[k]]
    BY <1>0 DEF TypeOK, QueueTypes
  <2> HIDE DEF rest, next, new, q
  <2> QED
    BY <1>2, <1>10, <2>1
<1>12. /\ \A i \in 1 .. Len(q) - 1 : /\ rtQueue'[Key][i].inst = q[i + 1].inst
                                     /\ rtQueue'[Key][i].chunkstart = q[i + 1].chunkstart
       /\ IF endsamp[n] > BufEnd
          THEN /\ Len(rtQueue'[Key]) = Len(q)
               /\ rtQueue'[Key][Len(q)].inst = n
               /\ rtQueue'[Key][Len(q)].chunkstart = BufEnd
          ELSE Len(rtQueue'[Key]) = Len(q) - 1
  <2> HIDE DEF rest, next, new, n, q
  <2>1. CASE endsamp[n] > BufEnd
    BY <1>6, <1>7, <1>9, <1>11, <2>1
  <2>2. CASE ~(endsamp[n] > BufEnd)
    BY <1>7, <1>11, <2>2
  <2> QED
    BY <2>1, <2>2
<1> QED
  BY <1>1, <1>2, <1>3, <1>4, <1>10, <1>11, <1>12

LEMMA OnTimeExec ==
  ASSUME OneKind, OnTimeInv, TypeOK', ExecHead
  PROVE  OnTimeInv'
<1> DEFINE q == rtQueue[Key]
           n == q[1].inst
<1>0. TypeOK
  BY DEF OnTimeInv
<1>1. /\ pc = "play" /\ pc' = "play"
      /\ UNCHANGED <<rtHeap, bufStartSamp, elapsed, popped, qStatus, play_bus, bus>>
  BY ExecFacts
<1>2. Key \in Keys /\ Len(q) \in Nat \ {0} /\ 1 \in 1 .. Len(q)
  BY ExecFacts
<1>3. q[1].inst = n
  OBVIOUS
<1>8. \A i \in 1 .. Len(q) : q[i].chunkstart <= BufEnd /\ q[i].chunkstart \in Nat
  BY <1>0, <1>2, QueueFacts DEF OnTimeInv, QueueTimes, Start
<1>10. fault' = fault /\ endsamp' = endsamp
  BY ExecFacts
<1>11. \A k \in Keys \ {Key} : rtQueue'[k] = rtQueue[k]
  BY ExecFacts
<1>12. /\ Len(rtQueue'[Key]) \in {Len(q) - 1, Len(q)}
       /\ \A i \in 1 .. Len(rtQueue'[Key]) :
         \/ /\ i + 1 \in 1 .. Len(q)
            /\ rtQueue'[Key][i].inst = q[i + 1].inst
            /\ rtQueue'[Key][i].chunkstart = q[i + 1].chunkstart
         \/ /\ i = Len(q)
            /\ rtQueue'[Key][i].inst = n
            /\ rtQueue'[Key][i].chunkstart = BufEnd
  BY <1>2, ExecFacts
<1> HIDE DEF n
<1>13. NoFault' /\ Clocks' /\ HeapTimes' /\ Ends'
  BY <1>1, <1>10 DEF OnTimeInv, NoFault, Clocks, HeapTimes, Ends, BufEnd
<1>14. bufStartSamp \in Nat /\ BufEnd \in Nat /\ bufStartSamp < BufEnd
  BY <1>0, QueueFacts
<1>15. QueueTimes'
  <2> SUFFICES ASSUME NEW k \in Keys, NEW i \in 1 .. Len(rtQueue'[k])
               PROVE  /\ rtQueue'[k][i].chunkstart >= bufStartSamp
                      /\ rtQueue'[k][i].chunkstart <= BufEnd
    BY <1>1 DEF QueueTimes, Start, BufEnd
  <2>1. CASE k = Key
    <3>1. \A j \in 1 .. Len(q) : q[j].chunkstart >= bufStartSamp /\ q[j].chunkstart <= BufEnd
      BY <1>2 DEF OnTimeInv, QueueTimes, Start
    <3> QED
      <4>1. i \in 1 .. Len(rtQueue'[Key])
        BY <2>1
      <4>2. CASE /\ i + 1 \in 1 .. Len(q)
                 /\ rtQueue'[Key][i].chunkstart = q[i + 1].chunkstart
        BY <2>1, <3>1, <4>2
      <4>3. CASE rtQueue'[Key][i].chunkstart = BufEnd
        BY <1>14, <2>1, <4>3
      <4> QED
        BY <1>12, <4>1, <4>2, <4>3
  <2>2. CASE k # Key
    BY <1>11, <2>2 DEF OnTimeInv, QueueTimes, Start
  <2> QED
    BY <2>1, <2>2
<1>16. QueueSorted'
  <2> SUFFICES ASSUME NEW k \in Keys,
                      NEW a \in 1 .. Len(rtQueue'[k]), NEW b \in 1 .. Len(rtQueue'[k]),
                      a < b
               PROVE  rtQueue'[k][a].chunkstart <= rtQueue'[k][b].chunkstart
    BY DEF QueueSorted, Start
  <2>1. CASE k = Key
    <3>1. \A i, j \in 1 .. Len(q) : i < j => q[i].chunkstart <= q[j].chunkstart
      BY <1>2 DEF OnTimeInv, QueueSorted, Start
    <3>2. Len(rtQueue'[Key]) <= Len(q) /\ Len(rtQueue'[Key]) \in Nat
      BY <1>2, <1>12
    <3>3. /\ a + 1 \in 1 .. Len(q)
          /\ rtQueue'[Key][a].chunkstart = q[a + 1].chunkstart
      BY <1>2, <1>12, <2>1, <3>2
    <3>4. CASE /\ b + 1 \in 1 .. Len(q)
               /\ rtQueue'[Key][b].chunkstart = q[b + 1].chunkstart
      BY <2>1, <3>1, <3>3, <3>4
    <3>5. CASE rtQueue'[Key][b].chunkstart = BufEnd
      BY <1>8, <2>1, <3>3, <3>5
    <3> QED
      BY <1>12, <2>1, <3>4, <3>5
  <2>2. CASE k # Key
    BY <1>11, <2>2 DEF OnTimeInv, QueueSorted, Start
  <2> QED
    BY <2>1, <2>2
<1>17. PopOrder'
  BY <1>1 DEF PopOrder
<1>18. Members'
  <2> SUFFICES ASSUME NEW k \in Keys, NEW i \in 1 .. Len(rtQueue'[k])
               PROVE  k \in KeysOf(rtQueue'[k][i].inst)
    BY <1>1 DEF Members
  <2>1. CASE k = Key
    <3>1. \A j \in 1 .. Len(q) : Key \in KeysOf(q[j].inst)
      BY <1>2 DEF OnTimeInv, Members
    <3>2. Key \in KeysOf(n)
      BY <1>2, <1>3, <3>1
    <3> QED
      BY <1>12, <2>1, <3>1, <3>2
  <2>2. CASE k # Key
    BY <1>11, <2>2 DEF OnTimeInv, Members
  <2> QED
    BY <2>1, <2>2
<1>19. PlayedOut'
  <2> SUFFICES ASSUME NEW k \in Keys, Played(k)'
               PROVE  Played(k) /\ k # Key
    BY <1>1, <1>11 DEF OnTimeInv, PlayedOut, Start, BufEnd
  <2> QED
    BY <1>1 DEF Played, Key
<1> QED
  BY <1>13, <1>15, <1>16, <1>17, <1>18, <1>19 DEF OnTimeInv

(* The invariant is inductive. *)
LEMMA OnTimeNext ==
  ASSUME OnTime, AllPlayed, OneKind
  PROVE  OnTimeInv /\ [Next]_vars => OnTimeInv'
<1> SUFFICES ASSUME OnTimeInv, [Next]_vars PROVE OnTimeInv'
  OBVIOUS
<1>1. TypeOK'
  BY TypeNext DEF OnTimeInv
<1>2. CASE UNCHANGED vars
  <2>1. UNCHANGED <<rtHeap, rtQueue, bufStartSamp, elapsed, pc, todo, popped,
                    qStatus, play_bus, bus, endsamp, fault>>
    BY <1>2 DEF vars, timeVars, ctlVars, instVars
  <2>2. NoFault' /\ Clocks' /\ HeapTimes' /\ Ends' /\ QueueTimes' /\ QueueSorted'
    BY <2>1 DEF OnTimeInv, NoFault, Clocks, HeapTimes, Ends, QueueTimes,
                QueueSorted, Start, BufEnd
  <2>3. PopOrder' /\ Members' /\ PlayedOut'
    BY <2>1 DEF OnTimeInv, PopOrder, Members, PlayedOut, Played, Key, Start, BufEnd
  <2> QED
    BY <1>1, <2>2, <2>3 DEF OnTimeInv
<1>3. CASE Next
  BY <1>1, <1>3, OnTimeSchedule, OnTimeHandlers, OnTimePop, OnTimePush,
     OnTimeWalk, OnTimeExec DEF Next, Traverse
<1> QED
  BY <1>2, <1>3

(* If no score schedules a note for a time already gone, every bus written *)
(* is on a play list and no bus_config mixes "out" with "aux-out", then no *)
(* assertion of the traversal fails and RTQueue never follows a prev that  *)
(* points to a deleted element, whatever the notes, lengths and buffers.   *)
THEOREM OnTimeNoFault ==
  ASSUME OnTime, AllPlayed, OneKind
  PROVE  Spec => []NoFault
<1>1. OnTimeInv => NoFault
  BY DEF OnTimeInv
<1> QED
  BY <1>1, OnTimeInit, OnTimeNext, PTL DEF Spec

(* Under the same conditions the playing loop never stops at a head that   *)
(* hides an instrument due in this period.                                 *)
THEOREM OnTimeDueFirst ==
  ASSUME OnTime, AllPlayed, OneKind
  PROVE  Spec => []DueFirst
<1>1. OnTimeInv => DueFirst
  <2> SUFFICES ASSUME OnTimeInv, NEW k \in Keys,
                      NEW i \in 1 .. Len(rtQueue[k]), NEW j \in 1 .. Len(rtQueue[k]),
                      i < j, Start(k, j) < BufEnd
               PROVE  Start(k, i) < BufEnd
    BY DEF DueFirst, Start
  <2>1. Start(k, i) <= Start(k, j)
    BY DEF OnTimeInv, QueueSorted
  <2>2. /\ Start(k, i) \in Nat /\ Start(k, j) \in Nat /\ BufEnd \in Nat
    BY QueueFacts DEF OnTimeInv
  <2> QED
    BY <2>1, <2>2
<1> QED
  BY <1>1, OnTimeInit, OnTimeNext, PTL DEF Spec

-----------------------------------------------------------------------------
(* What holds of every score, the late ones included.                      *)

(* No frame up to the bound wraps, and none before frame 0 becomes one     *)
(* that is earlier.                                                        *)
LEMMA UnsignedLate ==
  ASSUME NEW x \in Int, x <= MaxSamp
  PROVE  Unsigned(x) \in Nat /\ Unsigned(x) >= x /\ (x >= 0 => Unsigned(x) = x)
<1>1. Unsigned(x) \in Nat /\ RTBUFSAMPS \in Nat /\ MaxSamp \in Nat
  BY UnsignedProperties, BufsampsAssumption, BoundAssumption
<1>2. CASE x >= 0
  <2>1. x \in 0 .. MaxSamp + RTBUFSAMPS
    BY <1>1, <1>2
  <2> QED
    BY <1>1, <2>1, UnsignedProperties
<1>3. CASE x < 0
  BY <1>1, <1>3
<1> QED
  BY <1>2, <1>3

(* The times of a note, and of the period.                                 *)
LEMMA LateFacts ==
  ASSUME TypeOK
  PROVE  /\ bufStartSamp \in Nat /\ RTBUFSAMPS \in Nat \ {0} /\ BufEnd \in Nat
         /\ BufEnd = bufStartSamp + RTBUFSAMPS /\ MaxSamp \in Nat
         /\ \A n \in Notes : /\ startsamp[n] \in Int /\ nsamps[n] \in Nat
                             /\ EndOf(n) \in Int /\ startsamp[n] <= EndOf(n)
                             /\ endsamp[n] \in Int
<1>1. /\ bufStartSamp \in Nat /\ RTBUFSAMPS \in Nat \ {0} /\ BufEnd \in Nat
      /\ BufEnd = bufStartSamp + RTBUFSAMPS /\ MaxSamp \in Nat
  BY BufsampsAssumption, BoundAssumption DEF TypeOK, ControlTypes, BufEnd
<1>2. \A n \in Notes : startsamp[n] \in Int /\ nsamps[n] \in Nat /\ endsamp[n] \in Int
  BY DEF TypeOK, HistoryTypes, InstTypes
<1> QED
  BY <1>1, <1>2 DEF EndOf

(* Where a late instrument is re-queued, it continues no earlier than it   *)
(* was to start, and what is played of it ends where it was to end.        *)
LEMMA ChunkLate ==
  ASSUME TypeOK, NEW n \in Notes, endsamp[n] = EndOf(n), EndOf(n) <= MaxSamp,
         NEW cs \in Nat, startsamp[n] <= cs, cs < BufEnd
  PROVE  /\ OutputOffset(cs) \in Nat /\ ChunkSamps(n, cs) \in Int
         /\ OutputOffset(cs) + ChunkSamps(n, cs) <= RTBUFSAMPS
         /\ Unsigned(endsamp[n]) > BufEnd => startsamp[n] <= cs + ChunkSamps(n, cs)
         /\ bufStartSamp - startsamp[n] <= EndOf(n) /\ ChunkSamps(n, cs) > 0
              => bufStartSamp + OutputOffset(cs) + ChunkSamps(n, cs) <= EndOf(n)
<1> DEFINE chunk == ChunkSamps(n, cs)
           late  == LateEnd(n, cs)
<1>1. /\ bufStartSamp \in Nat /\ RTBUFSAMPS \in Nat \ {0} /\ BufEnd \in Nat
      /\ BufEnd = bufStartSamp + RTBUFSAMPS /\ MaxSamp \in Nat
      /\ startsamp[n] \in Int /\ EndOf(n) \in Int /\ startsamp[n] <= EndOf(n)
  BY LateFacts
<1>2. CASE cs < bufStartSamp
  <2> DEFINE x == endsamp[n] + (cs - bufStartSamp)
  <2>1. x \in Int /\ x <= MaxSamp /\ late = Unsigned(x) /\ OutputOffset(cs) = 0
    BY <1>1, <1>2 DEF LateEnd, OutputOffset
  <2>2. late \in Nat /\ late >= x /\ (x >= 0 => late = x)
    BY <2>1, UnsignedLate
  <2>3. /\ Unsigned(endsamp[n]) \in Nat
        /\ endsamp[n] >= 0 => Unsigned(endsamp[n]) = endsamp[n]
    BY <1>1, UnsignedLate
  <2> DEFINE end == IF late < BufEnd THEN late ELSE BufEnd
  <2>4. /\ end \in Nat /\ end <= late /\ end <= BufEnd
        /\ end = late \/ end = BufEnd
    BY <1>1, <2>2
  <2>5. chunk = IF end - cs > RTBUFSAMPS THEN RTBUFSAMPS ELSE end - cs
    BY DEF ChunkSamps
  <2> HIDE DEF late, end, chunk
  <2>6. chunk \in Int /\ chunk <= RTBUFSAMPS /\ chunk <= end - cs
    BY <1>1, <2>4, <2>5
  <2>7. Unsigned(endsamp[n]) > BufEnd => startsamp[n] <= cs + chunk
    <3>1. cs + chunk \in Nat
      BY <1>1, <2>4, <2>5
    <3>2. CASE endsamp[n] < 0
      BY <1>1, <3>1, <3>2
    <3>3. CASE endsamp[n] >= 0
      <4> SUFFICES ASSUME endsamp[n] > BufEnd PROVE startsamp[n] <= cs + chunk
        BY <2>3, <3>3
      <4>1. x >= 0 /\ late = x /\ x > cs + RTBUFSAMPS
        BY <1>1, <1>2, <2>2
      <4>2. end > cs
        BY <1>1, <1>2, <2>4, <4>1
      <4> QED
        BY <1>1, <2>4, <2>5, <4>2
    <3> QED
      BY <1>1, <3>2, <3>3
  <2>8. bufStartSamp - startsamp[n] <= EndOf(n) => bufStartSamp + chunk <= EndOf(n)
    <3> SUFFICES ASSUME bufStartSamp - startsamp[n] <= EndOf(n)
                 PROVE  bufStartSamp + chunk <= EndOf(n)
      OBVIOUS
    <3>1. x >= 0 /\ late = x
      BY <1>1, <2>2
    <3> QED
      BY <1>1, <2>4, <2>6, <3>1
  <2> QED
    BY <1>1, <2>1, <2>6, <2>7, <2>8 DEF chunk
<1>3. CASE cs >= bufStartSamp
  <2>1. late = Unsigned(endsamp[n]) /\ OutputOffset(cs) = cs - bufStartSamp
    BY <1>1, <1>3 DEF LateEnd, OutputOffset
  <2>2. /\ Unsigned(endsamp[n]) \in Nat
        /\ endsamp[n] >= 0 => Unsigned(endsamp[n]) = endsamp[n]
    BY <1>1, UnsignedLate
  <2> DEFINE end == IF late < BufEnd THEN late ELSE BufEnd
  <2>3. /\ end \in Nat /\ end <= late /\ end <= BufEnd
        /\ late > BufEnd => end = BufEnd
    BY <1>1, <2>1, <2>2
  <2>4. chunk = end - cs
    <3>1. chunk = IF end - cs > RTBUFSAMPS THEN RTBUFSAMPS ELSE end - cs
      BY DEF ChunkSamps
    <3> HIDE DEF late, end, chunk
    <3> QED
      BY <1>1, <1>3, <2>3, <3>1
  <2> HIDE DEF late, end, chunk
  <2>5. OutputOffset(cs) \in Nat /\ chunk \in Int /\ OutputOffset(cs) + chunk <= RTBUFSAMPS
    BY <1>1, <1>3, <2>1, <2>3, <2>4
  <2>6. Unsigned(endsamp[n]) > BufEnd => startsamp[n] <= cs + chunk
    BY <1>1, <2>1, <2>3, <2>4
  <2>7. bufStartSamp - startsamp[n] <= EndOf(n)
          => bufStartSamp + OutputOffset(cs) + chunk <= EndOf(n)
    <3> SUFFICES ASSUME bufStartSamp - startsamp[n] <= EndOf(n)
                 PROVE  bufStartSamp + OutputOffset(cs) + chunk <= EndOf(n)
      OBVIOUS
    <3>1. endsamp[n] >= 0
      BY <1>1
    <3> QED
      BY <1>1, <2>1, <2>2, <2>3, <2>4, <3>1
  <2> QED
    BY <2>5, <2>6, <2>7 DEF chunk
<1> QED
  BY <1>1, <1>2, <1>3

(* push() of an instrument that left the heap, whatever its start: it is   *)
(* one element more in its queue, or the process has failed.               *)
LEMMA PushLate ==
  ASSUME TypeOK, PushNext
  PROVE  /\ pc = "push" /\ pc' = "push" /\ fault = "none"
         /\ popped.inst \in Notes /\ popped.chunkStart \in Nat
         /\ UNCHANGED <<rtHeap, bufStartSamp, popped, endsamp, status, startsamp,
                        nsamps, mixed>>
         /\ \/ fault' = "freed" /\ UNCHANGED <<rtQueue, refcount>>
            \/ \E k \in Keys : \E p \in 1 .. Len(rtQueue[k]) + 1 :
                 /\ Inserted(rtQueue[k], rtQueue'[k], p, popped.inst, popped.chunkStart)
                 /\ \A j \in Keys \ {k} : rtQueue'[j] = rtQueue[j]
                 /\ refcount' = [refcount EXCEPT ![popped.inst] = @ + 1]
<1> DEFINE k == todo[1]
           q == rtQueue[k]
           new == Push(q, popped.inst, popped.chunkStart)
<1>1. /\ pc = "push" /\ pc' = "push" /\ fault = "none" /\ todo # <<>>
      /\ popped.inst \in Notes /\ popped.chunkStart \in Nat
      /\ UNCHANGED <<rtHeap, bufStartSamp, popped, endsamp, status, startsamp,
                     nsamps, mixed>>
  BY DEF PushNext, timeVars, instVars, histVars, TypeOK, QueueTypes
<1>2. k \in Keys
  <2>1. todo \in Seq(Keys)
    BY DEF TypeOK, QueueTypes
  <2> QED
    BY <1>1, <2>1, EmptySeq, ElementOfSeq
<1>3. q \in Seq(QElts(Notes))
  BY <1>2 DEF TypeOK, QueueTypes, QElts
<1>4. PICK p \in 1 .. Len(q) + 1 : Inserted(q, new, p, popped.inst, popped.chunkStart)
  BY <1>1, <1>3, PushInserts
<1>5. CASE ReadsFreed(q, popped.chunkStart)
  BY <1>1, <1>5 DEF PushNext
<1>6. CASE ~ReadsFreed(q, popped.chunkStart)
  <2>1. /\ rtQueue' = [rtQueue EXCEPT ![k] = new]
        /\ refcount' = [refcount EXCEPT ![popped.inst] = @ + 1]
    BY <1>6 DEF PushNext
  <2>2. rtQueue'[k] = new /\ \A j \in Keys \ {k} : rtQueue'[j] = rtQueue[j]
    BY <1>2, <2>1 DEF TypeOK, QueueTypes
  <2> HIDE DEF new, k
  <2> QED
    BY <1>1, <1>2, <1>4, <2>1, <2>2
<1> QED
  BY <1>5, <1>6

(* An iteration of the playing loop: the head leaves its queue for good    *)
(* and is unref'd, or is inserted again where its chunk ends; or the       *)
(* process has failed.                                                     *)
LEMMA ExecLate ==
  ASSUME TypeOK, ExecHead
  PROVE  LET q    == rtQueue[Key]
             n    == q[1].inst
             cs   == q[1].chunkstart
             next == cs + ChunkSamps(n, cs)
         IN  /\ pc = "play" /\ pc' = "play" /\ Key \in Keys /\ fault = "none"
             /\ UNCHANGED <<rtHeap, bufStartSamp, popped, endsamp, status,
                            startsamp, nsamps>>
             /\ q \in Seq(QElts(Notes)) /\ 1 \in 1 .. Len(q)
             /\ n \in Notes /\ cs \in Nat /\ cs < BufEnd
             /\ mixed' = mixed \/ Exec(n, cs)
             /\ \/ fault' # "none" /\ UNCHANGED <<rtQueue, refcount>>
                \/ \E rest \in Seq(QElts(Notes)) :
                     /\ Inserted(rest, q, 1, n, cs)
                     /\ \A j \in Keys \ {Key} : rtQueue'[j] = rtQueue[j]
                     /\ \/ /\ Unsigned(endsamp[n]) > BufEnd
                           /\ \E p \in 1 .. Len(rest) + 1 :
                                Inserted(rest, rtQueue'[Key], p, n, next)
                           /\ UNCHANGED refcount
                        \/ /\ rtQueue'[Key] = rest
                           /\ refcount' = [refcount EXCEPT ![n] = @ - 1]
<1> DEFINE q    == rtQueue[Key]
           n    == q[1].inst
           cs   == q[1].chunkstart
           rest == Pop(q)
           next == cs + ChunkSamps(n, cs)
           new  == Push(rest, n, next)
           E    == QElts(Notes)
<1>1. /\ pc = "play" /\ pc' = "play" /\ q # <<>> /\ cs < BufEnd /\ fault = "none"
      /\ UNCHANGED <<rtHeap, bufStartSamp, popped, status, startsamp, nsamps>>
  BY DEF ExecHead, HeadIsDue, NextChunk, timeVars, ctlVars
<1>2. Key \in Keys /\ q \in Seq(E)
  BY DEF Key, Keys, TypeOK, QueueTypes, ControlTypes, QElts
<1>3. Len(q) \in Nat \ {0} /\ 1 \in 1 .. Len(q)
  <2> HIDE DEF q
  <2> QED
    BY <1>1, <1>2, EmptySeq
<1>4. n \in Notes /\ cs \in Nat
  BY <1>2, <1>3, QueueFacts DEF Start
<1>5. rest \in Seq(E) /\ Inserted(rest, q, 1, n, cs)
  <2> HIDE DEF q
  <2> QED
    BY <1>1, <1>2, PopProperties, PopInserts
<1>6. next \in Nat
  BY <1>4, NextProperties
<1>7. PICK p \in 1 .. Len(rest) + 1 : Inserted(rest, new, p, n, next)
  <2> HIDE DEF rest, next, n
  <2> QED
    BY <1>4, <1>5, <1>6, PushInserts
<1>8. CASE SrcChan(n, qStatus, bus) = 0
  <2>1. fault' # "none" /\ UNCHANGED <<rtQueue, endsamp, refcount, mixed>>
    BY <1>8 DEF ExecHead, instVars
  <2> QED
    BY <1>1, <1>2, <1>3, <1>4, <2>1
<1>9. CASE SrcChan(n, qStatus, bus) # 0
  <2>1. Exec(n, cs) /\ UNCHANGED endsamp
    BY <1>9 DEF ExecHead, Exec
  <2>2. CASE Unsigned(endsamp[n]) > BufEnd /\ ReadsFreed(rest, next)
    <3>1. fault' # "none" /\ UNCHANGED <<rtQueue, refcount>>
      BY <1>9, <2>2 DEF ExecHead
    <3> QED
      BY <1>1, <1>2, <1>3, <1>4, <2>1, <3>1
  <2>3. CASE Unsigned(endsamp[n]) > BufEnd /\ ~ReadsFreed(rest, next)
    <3>1. rtQueue' = [rtQueue EXCEPT ![Key] = new] /\ UNCHANGED refcount
      BY <1>9, <2>3 DEF ExecHead
    <3>2. rtQueue'[Key] = new /\ \A j \in Keys \ {Key} : rtQueue'[j] = rtQueue[j]
      <4> HIDE DEF new
      <4> QED
        BY <1>2, <3>1 DEF TypeOK, QueueTypes
    <3> HIDE DEF new, rest, next, n, q, cs
    <3>3. Inserted(rest, rtQueue'[Key], p, n, next)
      BY <1>7, <3>2
    <3> QED
      BY <1>1, <1>2, <1>3, <1>4, <1>5, <2>1, <2>3, <3>1, <3>2, <3>3 DEF n, cs, q, next
  <2>4. CASE ~(Unsigned(endsamp[n]) > BufEnd)
    <3>1. /\ rtQueue' = [rtQueue EXCEPT ![Key] = rest]
          /\ refcount' = [refcount EXCEPT ![n] = @ - 1]
      BY <1>9, <2>4 DEF ExecHead
    <3>2. rtQueue'[Key] = rest /\ \A j \in Keys \ {Key} : rtQueue'[j] = rtQueue[j]
      <4> HIDE DEF rest
      <4> QED
        BY <1>2, <3>1 DEF TypeOK, QueueTypes
    <3> HIDE DEF rest
    <3> QED
      BY <1>1, <1>2, <1>3, <1>4, <1>5, <2>1, <3>1, <3>2
  <2> QED
    BY <2>2, <2>3, <2>4
<1> QED
  BY <1>8, <1>9

LEMMA LateInit == Init => LateInv
<1> SUFFICES ASSUME Init PROVE LateInv
  OBVIOUS
<1>1. TypeOK
  BY TypeInit
<1>2. rtHeap = {} /\ pc = "idle" /\ \A k \in Keys : rtQueue[k] = <<>>
  BY DEF Init
<1>3. AllReached
  BY <1>2 DEF AllReached
<1>4. LiveEnds /\ SilentBetween /\ NewUncounted
  BY DEF Init, LiveEnds, SilentBetween, NewUncounted
<1> QED
  BY <1>1, <1>3, <1>4 DEF LateInv

(* Steps that move the traversal on.                                       *)
LEMMA LateSame ==
  ASSUME LateInv, TypeOK',
         pc' = "push" => pc = "push" /\ popped' = popped,
         pc' = "idle" => pc = "idle",
         UNCHANGED <<rtHeap, rtQueue, endsamp, refcount, status, startsamp, nsamps, mixed>>
  PROVE  LateInv'
<1>1. AllReached'
  BY DEF LateInv, AllReached, Reached, Start
<1>2. LiveEnds' /\ SilentBetween' /\ NewUncounted'
  BY DEF LateInv, LiveEnds, SilentBetween, NewUncounted, EndOf
<1> QED
  BY <1>1, <1>2 DEF LateInv

LEMMA LateSchedule ==
  ASSUME LateInv, TypeOK',
         NEW n \in Notes, NEW s \in Starts, NEW d \in Durs, Schedule(n, s, d)
  PROVE  LateInv'
<1> DEFINE first == s + elapsed + RTBUFSAMPS
<1>0. TypeOK
  BY DEF LateInv
<1>1. /\ pc = "idle" /\ pc' = "idle" /\ status[n] = "new" /\ first + d <= MaxSamp
      /\ endsamp' = [endsamp EXCEPT ![n] = first + d]
      /\ rtHeap' = rtHeap \cup {[inst |-> n, chunkStart |-> Unsigned(first)]}
      /\ startsamp' = [startsamp EXCEPT ![n] = first]
      /\ status' = [status EXCEPT ![n] = "live"]
      /\ nsamps' = [nsamps EXCEPT ![n] = d]
      /\ refcount' = [refcount EXCEPT ![n] = @ + 1]
      /\ UNCHANGED <<rtQueue, mixed>>
  BY DEF Schedule, ctlVars
<1>2. first \in Int /\ d \in Nat /\ MaxSamp \in Nat
  BY <1>0, TimesAssumption, BufsampsAssumption, BoundAssumption DEF TypeOK, ControlTypes
<1> HIDE DEF first
<1>3. first <= Unsigned(first)
  BY <1>1, <1>2, UnsignedLate
<1>4. \A m \in Notes :
        /\ m # n => /\ status'[m] = status[m] /\ startsamp'[m] = startsamp[m]
                    /\ nsamps'[m] = nsamps[m] /\ endsamp'[m] = endsamp[m]
                    /\ refcount'[m] = refcount[m]
        /\ m = n => /\ status'[m] = "live" /\ startsamp'[m] = first
                    /\ nsamps'[m] = d /\ endsamp'[m] = first + d
  BY <1>0, <1>1 DEF TypeOK, InstTypes, HistoryTypes
<1>5. \A m \in Notes : \A t : Reached(m, t) => Reached(m, t)'
  BY <1>1, <1>4 DEF Reached
<1>6. AllReached'
  <2>1. \A e \in rtHeap' : Reached(e.inst, e.chunkStart)'
    BY <1>0, <1>1, <1>3, <1>4, <1>5, QueueFacts DEF LateInv, AllReached, Reached
  <2>2. \A k \in Keys : \A i \in 1 .. Len(rtQueue[k]) :
          Reached(rtQueue[k][i].inst, Start(k, i))'
    BY <1>0, <1>1, <1>5, QueueFacts DEF LateInv, AllReached, Start
  <2> QED
    BY <1>1, <2>1, <2>2 DEF AllReached
<1>7. LiveEnds' /\ SilentBetween' /\ NewUncounted'
  BY <1>1, <1>4 DEF LateInv, LiveEnds, SilentBetween, NewUncounted, EndOf
<1> QED
  BY <1>6, <1>7 DEF LateInv

LEMMA LateHandlers ==
  ASSUME LateInv, TypeOK'
  PROVE  /\ \A n \in Notes : ScheduleFails(n) => LateInv'
         /\ Flush => LateInv'
<1>0. TypeOK
  BY DEF LateInv
<1>1. ASSUME NEW n \in Notes, ScheduleFails(n) PROVE LateInv'
  <2>1. /\ pc = "idle" /\ pc' = "idle" /\ status[n] = "new"
        /\ status' = [status EXCEPT ![n] = "lost"]
        /\ refcount' = [refcount EXCEPT ![n] = @ + 1]
        /\ UNCHANGED <<rtHeap, rtQueue, endsamp, startsamp, nsamps, mixed>>
    BY <1>1 DEF ScheduleFails, ctlVars, instVars
  <2>2. \A m \in Notes : /\ status'[m] = IF m = n THEN "lost" ELSE status[m]
                         /\ m # n => refcount'[m] = refcount[m]
    BY <1>0, <2>1 DEF TypeOK, HistoryTypes, InstTypes
  <2>3. \A m \in Notes : \A t : Reached(m, t) => Reached(m, t)'
    BY <2>1, <2>2 DEF Reached
  <2>4. AllReached'
    BY <1>0, <2>1, <2>3, QueueFacts DEF LateInv, AllReached, Start
  <2>5. LiveEnds' /\ SilentBetween' /\ NewUncounted'
    BY <2>1, <2>2 DEF LateInv, LiveEnds, SilentBetween, NewUncounted, EndOf
  <2> QED
    BY <2>4, <2>5 DEF LateInv
<1>2. ASSUME Flush PROVE LateInv'
  <2>1. /\ pc = "idle" /\ pc' = "idle" /\ rtHeap' = {} /\ UNCHANGED mixed
        /\ rtQueue' = [k \in Keys |-> <<>>]
        /\ refcount' = [n \in Notes |-> refcount[n] - Deleted(n)]
        /\ status' = [n \in Notes |-> IF status[n] = "live" THEN "flushed" ELSE status[n]]
    BY <1>2 DEF Flush, ctlVars
  <2>2. \A k \in Keys : Len(rtQueue'[k]) = 0
    BY <2>1
  <2>3. AllReached'
    BY <2>1, <2>2 DEF AllReached
  <2>4. \A n \in Notes : status'[n] # "live" /\ (status'[n] = "new" => status[n] = "new")
    BY <2>1
  <2>5. ASSUME NEW n \in Notes, status[n] = "new" PROVE Deleted(n) = 0
    <3>1. \A k \in Keys : \A i \in 1 .. Len(rtQueue[k]) - 1 : rtQueue[k][i].inst # n
      <4> SUFFICES ASSUME NEW k \in Keys, NEW i \in 1 .. Len(rtQueue[k]) - 1
                   PROVE  rtQueue[k][i].inst # n
        OBVIOUS
      <4>1. i \in 1 .. Len(rtQueue[k])
        BY <1>0, QueueFacts
      <4>2. status[rtQueue[k][i].inst] = "live"
        BY <4>1 DEF LateInv, AllReached, Reached
      <4> QED
        BY <2>5, <4>2
    <3> DEFINE elts(k) == {<<k, i>> : i \in {j \in 1 .. Len(rtQueue[k]) - 1 :
                                               rtQueue[k][j].inst = n}}
    <3>2. \A k \in Keys : elts(k) = {}
      BY <3>1
    <3>3. Deleted(n) = Cardinality(UNION {elts(k) : k \in Keys})
      BY DEF Deleted
    <3> HIDE DEF elts
    <3>4. UNION {elts(k) : k \in Keys} = {}
      BY <3>2
    <3> QED
      BY <3>3, <3>4, FS_EmptySet
  <2>6. NewUncounted'
    BY <2>1, <2>4, <2>5 DEF LateInv, NewUncounted
  <2>7. LiveEnds' /\ SilentBetween'
    BY <2>1, <2>4 DEF LateInv, LiveEnds, SilentBetween
  <2> QED
    BY <2>3, <2>6, <2>7 DEF LateInv
<1> QED
  BY <1>1, <1>2

LEMMA LatePop ==
  ASSUME LateInv, TypeOK', NEW e \in rtHeap, PopHeap(e)
  PROVE  LateInv'
<1>1. /\ pc' = "push" /\ popped' = e /\ rtHeap' = rtHeap \ {e}
      /\ UNCHANGED <<rtQueue, endsamp, refcount, status, startsamp, nsamps, mixed>>
  BY DEF PopHeap, instVars, histVars
<1>2. AllReached'
  BY <1>1 DEF LateInv, AllReached, Reached, Start
<1>3. LiveEnds' /\ SilentBetween' /\ NewUncounted'
  BY <1>1 DEF LateInv, LiveEnds, SilentBetween, NewUncounted, EndOf
<1> QED
  BY <1>2, <1>3 DEF LateInv

(* What an insertion leaves in a queue: what was there, and the new one.   *)
LEMMA InsertedElements ==
  ASSUME NEW q \in Seq(QElts(Notes)), NEW r, NEW p, NEW n, NEW t, Inserted(q, r, p, n, t)
  PROVE  /\ \A i \in 1 .. Len(r) :
              \/ r[i].inst = n /\ r[i].chunkstart = t
              \/ \E j \in 1 .. Len(q) : r[i].inst = q[j].inst /\ r[i].chunkstart = q[j].chunkstart
         /\ \A j \in 1 .. Len(q) :
              \E i \in 1 .. Len(r) : r[i].inst = q[j].inst /\ r[i].chunkstart = q[j].chunkstart
<1>1. Len(q) \in Nat /\ p \in 1 .. Len(q) + 1 /\ Len(r) = Len(q) + 1
  BY DEF Inserted
<1>2. /\ r[p].inst = n /\ r[p].chunkstart = t
      /\ \A i \in 1 .. Len(q) :
           /\ i < p => r[i].inst = q[i].inst /\ r[i].chunkstart = q[i].chunkstart
           /\ i >= p => r[i + 1].inst = q[i].inst /\ r[i + 1].chunkstart = q[i].chunkstart
  BY DEF Inserted
<1>3. ASSUME NEW i \in 1 .. Len(r)
      PROVE  \/ r[i].inst = n /\ r[i].chunkstart = t
             \/ \E j \in 1 .. Len(q) : r[i].inst = q[j].inst /\ r[i].chunkstart = q[j].chunkstart
  <2>1. CASE i < p
    <3>1. i \in 1 .. Len(q)
      BY <1>1, <2>1
    <3> QED
      BY <1>2, <2>1, <3>1
  <2>2. CASE i = p
    BY <1>2, <2>2
  <2>3. CASE i > p
    <3>1. i - 1 \in 1 .. Len(q) /\ i - 1 >= p /\ (i - 1) + 1 = i
      BY <1>1, <2>3
    <3> QED
      BY <1>2, <3>1
  <2> QED
    BY <1>1, <2>1, <2>2, <2>3
<1>4. ASSUME NEW j \in 1 .. Len(q)
      PROVE  \E i \in 1 .. Len(r) : r[i].inst = q[j].inst /\ r[i].chunkstart = q[j].chunkstart
  <2>1. j \in 1 .. Len(r) /\ j + 1 \in 1 .. Len(r) /\ (j < p \/ j >= p)
    BY <1>1
  <2> QED
    BY <1>2, <2>1
<1> QED
  BY <1>3, <1>4

LEMMA LatePush ==
  ASSUME LateInv, TypeOK', PushNext
  PROVE  LateInv'
<1>0. TypeOK
  BY DEF LateInv
<1>1. /\ pc = "push" /\ pc' = "push" /\ popped.inst \in Notes
      /\ UNCHANGED <<rtHeap, popped, endsamp, status, startsamp, nsamps, mixed>>
  BY <1>0, PushLate
<1>2. Reached(popped.inst, popped.chunkStart)
  BY <1>1 DEF LateInv, AllReached
<1>3. CASE UNCHANGED <<rtQueue, refcount>>
  BY <1>1, <1>3, LateSame
<1>4. ASSUME NEW k \in Keys, NEW p \in 1 .. Len(rtQueue[k]) + 1,
             Inserted(rtQueue[k], rtQueue'[k], p, popped.inst, popped.chunkStart),
             \A j \in Keys \ {k} : rtQueue'[j] = rtQueue[j],
             refcount' = [refcount EXCEPT ![popped.inst] = @ + 1]
      PROVE  LateInv'
  <2>1. rtQueue[k] \in Seq(QElts(Notes))
    BY <1>0 DEF TypeOK, QueueTypes, QElts
  <2>2. \A i \in 1 .. Len(rtQueue'[k]) :
          Reached(rtQueue'[k][i].inst, rtQueue'[k][i].chunkstart)
    <3>1. \A j \in 1 .. Len(rtQueue[k]) :
            Reached(rtQueue[k][j].inst, rtQueue[k][j].chunkstart)
      BY DEF LateInv, AllReached, Start
    <3>2. \A i \in 1 .. Len(rtQueue'[k]) :
            \/ /\ rtQueue'[k][i].inst = popped.inst
               /\ rtQueue'[k][i].chunkstart = popped.chunkStart
            \/ \E j \in 1 .. Len(rtQueue[k]) :
                 /\ rtQueue'[k][i].inst = rtQueue[k][j].inst
                 /\ rtQueue'[k][i].chunkstart = rtQueue[k][j].chunkstart
      <4> DEFINE q == rtQueue[k]
                 r == rtQueue'[k]
                 n == popped.inst
                 t == popped.chunkStart
      <4>1. q \in Seq(QElts(Notes)) /\ Inserted(q, r, p, n, t)
        BY <1>4, <2>1
      <4> HIDE DEF q, r, n, t
      <4>2. \A i \in 1 .. Len(r) :
              \/ r[i].inst = n /\ r[i].chunkstart = t
              \/ \E j \in 1 .. Len(q) : r[i].inst = q[j].inst /\ r[i].chunkstart = q[j].chunkstart
        BY <4>1, InsertedElements
      <4> QED
        BY <4>2 DEF q, r, n, t
    <3> TAKE i \in 1 .. Len(rtQueue'[k])
    <3> QED
      BY <1>2, <3>1, <3>2
  <2>3. \A j \in Keys : \A i \in 1 .. Len(rtQueue'[j]) :
          Reached(rtQueue'[j][i].inst, rtQueue'[j][i].chunkstart)
    <3> SUFFICES ASSUME NEW j \in Keys, j # k, NEW i \in 1 .. Len(rtQueue'[j])
                 PROVE  Reached(rtQueue'[j][i].inst, rtQueue'[j][i].chunkstart)
      BY <2>2
    <3> QED
      BY <1>4 DEF LateInv, AllReached, Start
  <2>4. AllReached'
    BY <1>1, <2>3 DEF LateInv, AllReached, Reached, Start
  <2>5. NewUncounted'
    BY <1>0, <1>1, <1>2, <1>4 DEF LateInv, NewUncounted, Reached, TypeOK, InstTypes
  <2>6. LiveEnds' /\ SilentBetween'
    BY <1>1 DEF LateInv, LiveEnds, SilentBetween, EndOf
  <2> QED
    BY <2>4, <2>5, <2>6 DEF LateInv
<1> QED
  BY <1>0, <1>3, <1>4, PushLate

LEMMA LateExec ==
  ASSUME LateInv, TypeOK', ExecHead
  PROVE  LateInv'
<1> DEFINE q    == rtQueue[Key]
           n    == q[1].inst
           cs   == q[1].chunkstart
           next == cs + ChunkSamps(n, cs)
<1>0. TypeOK
  BY DEF LateInv
<1>1. /\ pc = "play" /\ pc' = "play" /\ Key \in Keys
      /\ UNCHANGED <<rtHeap, bufStartSamp, popped, endsamp, status, startsamp, nsamps>>
      /\ q \in Seq(QElts(Notes)) /\ 1 \in 1 .. Len(q)
      /\ n \in Notes /\ cs \in Nat /\ cs < BufEnd
  BY <1>0, ExecLate
<1>2. Reached(n, cs)
  BY <1>1 DEF LateInv, AllReached, Start
<1>3. Unsigned(endsamp[n]) > BufEnd => Reached(n, next)
  <2>1. endsamp[n] = EndOf(n) /\ EndOf(n) <= MaxSamp
    BY <1>1, <1>2 DEF LateInv, LiveEnds, Reached
  <2> HIDE DEF n, cs, q
  <2> QED
    BY <1>0, <1>1, <1>2, <2>1, ChunkLate DEF Reached
<1> HIDE DEF n, cs, next, q
<1>4. LiveEnds' /\ SilentBetween'
  BY <1>1 DEF LateInv, LiveEnds, SilentBetween, EndOf
<1>5. CASE UNCHANGED <<rtQueue, refcount>>
  <2>1. AllReached'
    BY <1>1, <1>5 DEF LateInv, AllReached, Reached, Start
  <2>2. NewUncounted'
    BY <1>1, <1>5 DEF LateInv, NewUncounted
  <2> QED
    BY <1>4, <2>1, <2>2 DEF LateInv
<1>6. ASSUME NEW rest \in Seq(QElts(Notes)), Inserted(rest, q, 1, n, cs),
             \A j \in Keys \ {Key} : rtQueue'[j] = rtQueue[j],
             \/ /\ Unsigned(endsamp[n]) > BufEnd
                /\ \E p \in 1 .. Len(rest) + 1 : Inserted(rest, rtQueue'[Key], p, n, next)
                /\ UNCHANGED refcount
             \/ /\ rtQueue'[Key] = rest
                /\ refcount' = [refcount EXCEPT ![n] = @ - 1]
      PROVE  LateInv'
  <2>1. \A i \in 1 .. Len(q) : Reached(q[i].inst, q[i].chunkstart)
    BY <1>1 DEF LateInv, AllReached, Start, q
  <2>2. \A i \in 1 .. Len(rest) : Reached(rest[i].inst, rest[i].chunkstart)
    BY <1>6, <2>1, InsertedElements
  <2>3. \A i \in 1 .. Len(rtQueue'[Key]) :
          Reached(rtQueue'[Key][i].inst, rtQueue'[Key][i].chunkstart)
    <3>1. CASE rtQueue'[Key] = rest
      BY <2>2, <3>1
    <3>2. ASSUME Unsigned(endsamp[n]) > BufEnd, NEW p \in 1 .. Len(rest) + 1,
                 Inserted(rest, rtQueue'[Key], p, n, next)
          PROVE  \A i \in 1 .. Len(rtQueue'[Key]) :
                   Reached(rtQueue'[Key][i].inst, rtQueue'[Key][i].chunkstart)
      BY <1>3, <2>2, <3>2, InsertedElements
    <3> QED
      BY <1>6, <3>1, <3>2
  <2>4. \A j \in Keys : \A i \in 1 .. Len(rtQueue'[j]) :
          Reached(rtQueue'[j][i].inst, rtQueue'[j][i].chunkstart)
    <3> SUFFICES ASSUME NEW j \in Keys, j # Key, NEW i \in 1 .. Len(rtQueue'[j])
                 PROVE  Reached(rtQueue'[j][i].inst, rtQueue'[j][i].chunkstart)
      BY <2>3
    <3> QED
      BY <1>6 DEF LateInv, AllReached, Start
  <2>5. AllReached'
    BY <1>1, <2>4 DEF LateInv, AllReached, Reached, Start
  <2>6. NewUncounted'
    BY <1>0, <1>1, <1>2, <1>6 DEF LateInv, NewUncounted, Reached, TypeOK, InstTypes
  <2> QED
    BY <1>4, <2>5, <2>6 DEF LateInv
<1> QED
  <2>1. \/ UNCHANGED <<rtQueue, refcount>>
        \/ \E rest \in Seq(QElts(Notes)) :
             /\ Inserted(rest, q, 1, n, cs)
             /\ \A j \in Keys \ {Key} : rtQueue'[j] = rtQueue[j]
             /\ \/ /\ Unsigned(endsamp[n]) > BufEnd
                   /\ \E p \in 1 .. Len(rest) + 1 : Inserted(rest, rtQueue'[Key], p, n, next)
                   /\ UNCHANGED refcount
                \/ /\ rtQueue'[Key] = rest
                   /\ refcount' = [refcount EXCEPT ![n] = @ - 1]
    BY <1>0, ExecLate DEF q, n, cs, next
  <2> QED
    BY <1>5, <1>6, <2>1

LEMMA LateSend ==
  ASSUME LateInv, TypeOK', Send
  PROVE  LateInv'
<1>1. /\ pc' = "idle" /\ mixed' = [n \in Notes |-> [k \in Keys |-> <<>>]]
      /\ UNCHANGED <<rtHeap, rtQueue, endsamp, refcount, status, startsamp, nsamps>>
  BY DEF Send, instVars
<1>2. AllReached' /\ SilentBetween'
  BY <1>1 DEF LateInv, AllReached, SilentBetween, Reached, Start
<1>3. LiveEnds' /\ NewUncounted'
  BY <1>1 DEF LateInv, LiveEnds, NewUncounted, EndOf
<1> QED
  BY <1>2, <1>3 DEF LateInv

(* The invariant is inductive, whatever the score.                         *)
LEMMA LateNext == LateInv /\ [Next]_vars => LateInv'
<1> SUFFICES ASSUME LateInv, [Next]_vars PROVE LateInv'
  OBVIOUS
<1>1. TypeOK'
  BY TypeNext DEF LateInv
<1>2. CASE UNCHANGED vars
  BY <1>1, <1>2, LateSame DEF vars, ctlVars, instVars, histVars
<1>3. CASE Begin \/ HeapDone \/ PushDone \/ SelectBus \/ NextClass \/ BusDone
  <2>1. /\ pc' \in {"pop", "select", "play", "send"}
        /\ UNCHANGED <<rtHeap, rtQueue, endsamp, refcount, status, startsamp, nsamps, mixed>>
    BY <1>3 DEF Begin, HeapDone, PushDone, SelectBus, NextClass, BusDone, instVars, histVars
  <2> QED
    BY <1>1, <2>1, LateSame
<1> QED
  BY <1>1, <1>2, <1>3, LateSchedule, LateHandlers, LatePop, LatePush, LateExec, LateSend
     DEF Next, Traverse

(* What the traversal mixes, it mixes inside the period's buffers and not  *)
(* beyond the end of the note.                                             *)
LEMMA LateMix ==
  ASSUME LateInv, InBuffer, EndsOnTime, ExecHead
  PROVE  InBuffer' /\ EndsOnTime'
<1> DEFINE q    == rtQueue[Key]
           n    == q[1].inst
           cs   == q[1].chunkstart
           from == OutputOffset(cs)
           to   == from + ChunkSamps(n, cs)
<1>0. TypeOK
  BY DEF LateInv
<1>1. /\ Key \in Keys /\ 1 \in 1 .. Len(q)
      /\ UNCHANGED <<bufStartSamp, status, startsamp, nsamps>>
      /\ n \in Notes /\ cs \in Nat /\ cs < BufEnd
      /\ mixed' = mixed \/ Exec(n, cs)
  BY <1>0, ExecLate
<1>2. Reached(n, cs)
  BY <1>1 DEF LateInv, AllReached, Start
<1>3. endsamp[n] = EndOf(n) /\ EndOf(n) <= MaxSamp
  BY <1>1, <1>2 DEF LateInv, LiveEnds, Reached
<1>4. /\ from \in Nat /\ to \in Int /\ to <= RTBUFSAMPS
      /\ from < to /\ bufStartSamp - startsamp[n] <= EndOf(n) => bufStartSamp + to <= EndOf(n)
  <2> HIDE DEF n, cs, q
  <2>1. /\ OutputOffset(cs) \in Nat /\ ChunkSamps(n, cs) \in Int
        /\ OutputOffset(cs) + ChunkSamps(n, cs) <= RTBUFSAMPS
        /\ bufStartSamp - startsamp[n] <= EndOf(n) /\ ChunkSamps(n, cs) > 0
              => bufStartSamp + OutputOffset(cs) + ChunkSamps(n, cs) <= EndOf(n)
    BY <1>0, <1>1, <1>2, <1>3, ChunkLate DEF Reached
  <2> QED
    BY <1>0, <1>1, <2>1, LateFacts
<1>5. CASE mixed' = mixed
  BY <1>1, <1>5 DEF InBuffer, EndsOnTime, EndOf
<1>6. CASE Exec(n, cs)
  <2>1. mixed' = [mixed EXCEPT ![n][Key] = Append(mixed[n][Key], <<from, to>>)]
    BY <1>6 DEF Exec
  <2>2. mixed \in [Notes -> [Keys -> Seq(Int \X Int)]]
    BY <1>0 DEF TypeOK, HistoryTypes
  <2> DEFINE old == mixed[n][Key]
             slice == <<from, to>>
  <2>3. slice \in Int \X Int /\ slice[1] = from /\ slice[2] = to
    BY <1>4
  <2>4. old \in Seq(Int \X Int)
    BY <1>1, <2>2
  <2> HIDE DEF n, cs, q, from, to, slice
  <2>5. /\ mixed'[n][Key] = Append(old, slice)
        /\ \A m \in Notes, k \in Keys : <<m, k>> # <<n, Key>> => mixed'[m][k] = mixed[m][k]
    BY <1>1, <2>1, <2>2 DEF slice
  <2> HIDE DEF old
  <2>6. /\ Len(Append(old, slice)) = Len(old) + 1 /\ Len(old) \in Nat
        /\ Append(old, slice)[Len(old) + 1] = slice
        /\ \A i \in 1 .. Len(old) : Append(old, slice)[i] = old[i]
    BY <2>3, <2>4, AppendProperties
  <2>7. ASSUME NEW m \in Notes, NEW k \in Keys, NEW i \in 1 .. Len(mixed'[m][k])
        PROVE  \/ i \in 1 .. Len(mixed[m][k]) /\ mixed'[m][k][i] = mixed[m][k][i]
               \/ m = n /\ mixed'[m][k][i] = slice
    <3>1. CASE m = n /\ k = Key
      <4>1. Len(mixed'[m][k]) = Len(old) + 1 /\ mixed[m][k] = old
        BY <2>5, <2>6, <3>1 DEF old
      <4>2. CASE i = Len(old) + 1
        BY <2>5, <2>6, <3>1, <4>2
      <4>3. CASE i # Len(old) + 1
        <5>1. i \in 1 .. Len(old)
          BY <2>6, <4>1, <4>3
        <5> QED
          BY <2>5, <2>6, <3>1, <4>1, <5>1
      <4> QED
        BY <4>2, <4>3
    <3>2. CASE ~(m = n /\ k = Key)
      <4>1. mixed'[m][k] = mixed[m][k]
        BY <2>5, <3>2
      <4> QED
        BY <4>1
    <3> QED
      BY <3>1, <3>2
  <2>8. InBuffer'
    <3> SUFFICES ASSUME NEW m \in Notes, NEW k \in Keys, NEW i \in 1 .. Len(mixed'[m][k])
                 PROVE  mixed'[m][k][i][1] >= 0 /\ mixed'[m][k][i][2] <= RTBUFSAMPS
      BY DEF InBuffer
    <3>1. CASE i \in 1 .. Len(mixed[m][k]) /\ mixed'[m][k][i] = mixed[m][k][i]
      BY <3>1 DEF InBuffer
    <3>2. CASE m = n /\ mixed'[m][k][i] = slice
      BY <1>4, <2>3, <3>2
    <3> QED
      BY <2>7, <3>1, <3>2
  <2>9. EndsOnTime'
    <3> SUFFICES ASSUME NEW m \in Notes, NEW k \in Keys, NEW i \in 1 .. Len(mixed'[m][k]),
                        mixed'[m][k][i][1] < mixed'[m][k][i][2],
                        bufStartSamp - startsamp[m] <= EndOf(m)
                 PROVE  bufStartSamp + mixed'[m][k][i][2] <= EndOf(m)
      BY <1>1 DEF EndsOnTime, EndOf
    <3>1. CASE i \in 1 .. Len(mixed[m][k]) /\ mixed'[m][k][i] = mixed[m][k][i]
      BY <3>1 DEF EndsOnTime
    <3>2. CASE m = n /\ mixed'[m][k][i] = slice
      BY <1>4, <2>3, <3>2
    <3> QED
      BY <2>7, <3>1, <3>2
  <2> QED
    BY <2>8, <2>9
<1> QED
  BY <1>1, <1>5, <1>6

(* No other step mixes anything, nor moves the period or the end of a note *)
(* while something is mixed.                                               *)
LEMMA LateSilent ==
  ASSUME LateInv, InBuffer, EndsOnTime, [Next]_vars, ~ExecHead
  PROVE  InBuffer' /\ EndsOnTime'
<1>1. CASE \A n \in Notes : \A k \in Keys : mixed'[n][k] = <<>>
  BY <1>1 DEF InBuffer, EndsOnTime
<1>2. CASE UNCHANGED <<mixed, bufStartSamp, startsamp, nsamps>>
  BY <1>2 DEF InBuffer, EndsOnTime, EndOf
<1>3. CASE pc = "idle" /\ mixed' = mixed
  BY <1>1, <1>3 DEF LateInv, SilentBetween
<1>4. CASE UNCHANGED vars
  BY <1>2, <1>4 DEF vars, timeVars, histVars
<1>5. CASE \/ \E n \in Notes, s \in Starts, d \in Durs : Schedule(n, s, d)
           \/ \E n \in Notes : ScheduleFails(n)
           \/ Flush
  BY <1>3, <1>5 DEF Schedule, ScheduleFails, Flush
<1>6. CASE Send
  BY <1>1, <1>6 DEF Send
<1>7. CASE \/ Begin \/ HeapDone \/ PushNext \/ PushDone \/ SelectBus \/ NextClass \/ BusDone
           \/ \E e \in rtHeap : PopHeap(e)
  BY <1>2, <1>7 DEF Begin, PopHeap, HeapDone, PushNext, PushDone, SelectBus, NextClass,
                    BusDone, timeVars, histVars
<1> QED
  BY <1>4, <1>5, <1>6, <1>7 DEF Next, Traverse

LEMMA LateMixed ==
  Spec => [](LateInv /\ InBuffer /\ EndsOnTime)
<1>1. Init => LateInv /\ InBuffer /\ EndsOnTime
  BY LateInit DEF Init, InBuffer, EndsOnTime
<1>2. LateInv /\ InBuffer /\ EndsOnTime /\ [Next]_vars => (LateInv /\ InBuffer /\ EndsOnTime)'
  BY LateNext, LateMix, LateSilent
<1> QED
  BY <1>1, <1>2, PTL DEF Spec

(* However late the scheduler is for a note, addout() is never called with *)
(* a slice that leaves the buffers of the period: output_offset is trapped *)
(* at 0 and the chunk at RTBUFSAMPS.                                       *)
THEOREM LateInBuffer == Spec => []InBuffer
  BY LateMixed, PTL

(* A late note is cut at the frame it was to end at, unless it is so late  *)
(* that its lag exceeds endsamp itself.                                    *)
THEOREM LateEndsOnTime == Spec => []EndsOnTime
  BY LateMixed, PTL

(***************************************************************************)
(* Reference counts.                                                       *)
(***************************************************************************)

(* Elements(n), for any contents Q of the queues.                          *)
ElementsOf(Q, n) ==
  UNION {{<<k, i>> : i \in {j \in 1 .. Len(Q[k]) : Q[k][j].inst = n}} : k \in Keys}

LEMMA KeysFinite == IsFiniteSet(Keys)
<1>1. IsFiniteSet({"TO_AUX"})
  BY FS_Singleton
<1>2. IsFiniteSet({"TO_AUX"} \cup {"AUX_TO_AUX"})
  BY <1>1, FS_AddElement
<1>3. IsFiniteSet(({"TO_AUX"} \cup {"AUX_TO_AUX"}) \cup {"TO_OUT"})
  BY <1>2, FS_AddElement
<1>4. Classes = ({"TO_AUX"} \cup {"AUX_TO_AUX"}) \cup {"TO_OUT"}
  BY DEF Classes
<1> QED
  BY <1>3, <1>4, NonEmptyAssumption, FS_Product DEF Keys

LEMMA ElementsMembers ==
  ASSUME NEW Q, NEW n
  PROVE  /\ \A k, i : <<k, i>> \in ElementsOf(Q, n)
                       <=> k \in Keys /\ i \in 1 .. Len(Q[k]) /\ Q[k][i].inst = n
         /\ \A x \in ElementsOf(Q, n) : x = <<x[1], x[2]>>
<1> DEFINE elts(k) == {<<k, i>> : i \in {j \in 1 .. Len(Q[k]) : Q[k][j].inst = n}}
<1>1. \A x : x \in ElementsOf(Q, n) <=> \E k \in Keys : x \in elts(k)
  BY DEF ElementsOf
<1>2. \A k, x : x \in elts(k) <=> \E i \in 1 .. Len(Q[k]) : x = <<k, i>> /\ Q[k][i].inst = n
  OBVIOUS
<1> HIDE DEF elts
<1> QED
  BY <1>1, <1>2

LEMMA ElementsFinite ==
  ASSUME NEW Q \in [Keys -> Seq(QElts(Notes))], NEW n
  PROVE  IsFiniteSet(ElementsOf(Q, n)) /\ Cardinality(ElementsOf(Q, n)) \in Nat
<1> DEFINE elts(k) == {<<k, i>> : i \in {j \in 1 .. Len(Q[k]) : Q[k][j].inst = n}}
           S == {elts(k) : k \in Keys}
<1>1. ASSUME NEW k \in Keys PROVE IsFiniteSet(elts(k))
  <2> DEFINE J == {j \in 1 .. Len(Q[k]) : Q[k][j].inst = n}
             f == [i \in J |-> <<k, i>>]
  <2>1. IsFiniteSet(1 .. Len(Q[k]))
    <3>1. Len(Q[k]) \in Int
      OBVIOUS
    <3> QED
      BY <3>1, FS_Interval
  <2>2. IsFiniteSet(J)
    BY <2>1, FS_Subset
  <2>3. f \in Surjection(J, elts(k))
    BY DEF Surjection
  <2> QED
    BY <2>2, <2>3, FS_Surjection
<1>2. IsFiniteSet(S)
  <2> DEFINE f == [k \in Keys |-> elts(k)]
  <2> HIDE DEF elts
  <2>1. f \in Surjection(Keys, S)
    BY DEF Surjection
  <2> QED
    BY <2>1, KeysFinite, FS_Surjection
<1>3. IsFiniteSet(UNION S)
  BY <1>1, <1>2, FS_UNION
<1> QED
  BY <1>3, FS_CardinalityType DEF ElementsOf

(* Between contents Q and R of the queues, queue k gains an element.        *)
Gains(Q, R, k, n, t) ==
  /\ Q \in [Keys -> Seq(QElts(Notes))] /\ R \in [Keys -> Seq(QElts(Notes))] /\ k \in Keys
  /\ \E p \in 1 .. Len(Q[k]) + 1 : Inserted(Q[k], R[k], p, n, t)
  /\ \A j \in Keys \ {k} : R[j] = Q[j]

(* Its instrument then has one element more, and no other instrument any.  *)
LEMMA ElementsGained ==
  ASSUME NEW Q, NEW R, NEW k, NEW n, NEW t, Gains(Q, R, k, n, t), NEW m
  PROVE  Cardinality(ElementsOf(R, m)) =
           Cardinality(ElementsOf(Q, m)) + (IF m = n THEN 1 ELSE 0)
<1>0. /\ Q \in [Keys -> Seq(QElts(Notes))] /\ R \in [Keys -> Seq(QElts(Notes))] /\ k \in Keys
      /\ \A j \in Keys \ {k} : R[j] = Q[j]
  BY DEF Gains
<1>p. PICK p \in 1 .. Len(Q[k]) + 1 : Inserted(Q[k], R[k], p, n, t)
  BY DEF Gains
<1>s. Q[k] \in Seq(QElts(Notes)) /\ Len(Q[k]) \in Nat
  BY <1>0
<1> DEFINE A  == ElementsOf(Q, m)
           B  == ElementsOf(R, m)
           B0 == B \ {<<k, p>>}
           f  == [x \in A |-> IF x[1] = k /\ x[2] >= p THEN <<k, x[2] + 1>> ELSE x]
<1>1. /\ \A j, i : <<j, i>> \in A <=> j \in Keys /\ i \in 1 .. Len(Q[j]) /\ Q[j][i].inst = m
      /\ \A j, i : <<j, i>> \in B <=> j \in Keys /\ i \in 1 .. Len(R[j]) /\ R[j][i].inst = m
      /\ \A x \in A : x = <<x[1], x[2]>>
      /\ \A x \in B : x = <<x[1], x[2]>>
  BY ElementsMembers
<1>2. /\ Len(Q[k]) \in Nat /\ Len(R[k]) = Len(Q[k]) + 1 /\ p \in Nat
      /\ R[k][p].inst = n
      /\ \A i \in 1 .. Len(Q[k]) : /\ i < p => R[k][i].inst = Q[k][i].inst
                                   /\ i >= p => R[k][i + 1].inst = Q[k][i].inst
  BY <1>p, <1>s DEF Inserted
<1>3. <<k, p>> \in B <=> m = n
  BY <1>0, <1>1, <1>2
<1> HIDE DEF A, B
<1>4. ASSUME NEW x \in A
      PROVE  /\ f[x] \in B0
             /\ x[1] = k /\ x[2] >= p => f[x] = <<k, x[2] + 1>>
             /\ ~(x[1] = k /\ x[2] >= p) => f[x] = x
             /\ x[1] \in Keys /\ x[2] \in Nat
  <2>1. x = <<x[1], x[2]>> /\ x[1] \in Keys /\ x[2] \in 1 .. Len(Q[x[1]]) /\ Q[x[1]][x[2]].inst = m
    BY <1>1
  <2>2. x[2] \in Nat
    BY <2>1
  <2>3. CASE x[1] = k /\ x[2] >= p
    <3>1. x[2] + 1 \in 1 .. Len(R[k]) /\ R[k][x[2] + 1].inst = m /\ x[2] + 1 # p
      BY <1>2, <2>1, <2>3
    <3>2. <<k, x[2] + 1>> \in B0
      BY <1>0, <1>1, <3>1
    <3> QED
      BY <2>1, <2>2, <2>3, <3>2
  <2>4. CASE x[1] = k /\ x[2] < p
    <3>1. x[2] \in 1 .. Len(R[k]) /\ R[k][x[2]].inst = m /\ x[2] # p
      BY <1>2, <2>1, <2>4
    <3>2. <<x[1], x[2]>> \in B0
      BY <1>1, <2>4, <3>1
    <3> QED
      <4>1. ~(x[1] = k /\ x[2] >= p)
        BY <1>2, <2>2, <2>4
      <4>2. f[x] = x
        BY <4>1
      <4> QED
        BY <2>1, <2>2, <3>2, <4>1, <4>2
  <2>5. CASE x[1] # k
    <3>1. R[x[1]] = Q[x[1]]
      BY <1>0, <2>1, <2>5
    <3>2. <<x[1], x[2]>> \in B0
      BY <1>1, <2>1, <2>5, <3>1
    <3> QED
      BY <2>1, <2>2, <2>5, <3>2
  <2> QED
    BY <1>2, <2>2, <2>3, <2>4, <2>5
<1>5. f \in Injection(A, B0)
  <2>1. f \in [A -> B0]
    BY <1>4
  <2>2. ASSUME NEW x \in A, NEW y \in A, f[x] = f[y] PROVE x = y
    <3>1. x = <<x[1], x[2]>> /\ y = <<y[1], y[2]>>
      BY <1>1
    <3> HIDE DEF f
    <3>2. CASE x[1] = k /\ x[2] >= p /\ y[1] = k /\ y[2] >= p
      <4>1. <<k, x[2] + 1>> = <<k, y[2] + 1>>
        BY <1>4, <2>2, <3>2
      <4>2. x[2] + 1 = y[2] + 1
        BY <4>1
      <4>3. x[2] = y[2]
        BY <1>4, <4>2
      <4> QED
        BY <3>1, <3>2, <4>3
    <3>3. CASE x[1] = k /\ x[2] >= p /\ ~(y[1] = k /\ y[2] >= p)
      <4>1. <<k, x[2] + 1>> = <<y[1], y[2]>>
        BY <1>4, <2>2, <3>1, <3>3
      <4>2. y[1] = k /\ y[2] = x[2] + 1
        BY <4>1
      <4> QED
        BY <1>2, <1>4, <3>3, <4>2
    <3>4. CASE ~(x[1] = k /\ x[2] >= p) /\ y[1] = k /\ y[2] >= p
      <4>1. <<k, y[2] + 1>> = <<x[1], x[2]>>
        BY <1>4, <2>2, <3>1, <3>4
      <4>2. x[1] = k /\ x[2] = y[2] + 1
        BY <4>1
      <4> QED
        BY <1>2, <1>4, <3>4, <4>2
    <3>5. CASE ~(x[1] = k /\ x[2] >= p) /\ ~(y[1] = k /\ y[2] >= p)
      BY <1>4, <2>2, <3>5
    <3> QED
      BY <3>2, <3>3, <3>4, <3>5
  <2> QED
    BY <2>1, <2>2 DEF Injection, IsInjective
<1>6. f \in Surjection(A, B0)
  <2>1. f \in [A -> B0]
    BY <1>4
  <2>2. ASSUME NEW y \in B0 PROVE \E x \in A : f[x] = y
    <3>1. /\ y = <<y[1], y[2]>> /\ y[1] \in Keys /\ y[2] \in 1 .. Len(R[y[1]])
          /\ R[y[1]][y[2]].inst = m /\ (y[1] = k => y[2] # p)
      BY <1>1
    <3>2. y[2] \in Nat
      BY <3>1
    <3>3. CASE y[1] = k /\ y[2] > p
      <4> DEFINE x == <<k, y[2] - 1>>
      <4>1. y[2] - 1 \in 1 .. Len(Q[k]) /\ y[2] - 1 >= p /\ (y[2] - 1) + 1 = y[2]
        BY <1>2, <3>1, <3>2, <3>3
      <4>2. Q[k][y[2] - 1].inst = m
        BY <1>2, <3>1, <3>3, <4>1
      <4>3. x \in A
        BY <1>0, <1>1, <4>1, <4>2
      <4>4. f[x] = y
        BY <1>4, <3>1, <3>3, <4>1, <4>3
      <4> QED
        BY <4>3, <4>4
    <3>4. CASE y[1] = k /\ y[2] < p
      <4>1. y[2] \in 1 .. Len(Q[k]) /\ Q[k][y[2]].inst = m
        BY <1>2, <3>1, <3>2, <3>4
      <4>2. y \in A
        BY <1>1, <3>1, <3>4, <4>1
      <4>3. f[y] = y
        BY <1>2, <1>4, <3>4, <3>2, <4>2
      <4> QED
        BY <4>2, <4>3
    <3>5. CASE y[1] # k
      <4>1. y \in A
        BY <1>0, <1>1, <3>1, <3>5
      <4>2. f[y] = y
        BY <1>4, <3>5, <4>1
      <4> QED
        BY <4>1, <4>2
    <3> QED
      BY <1>2, <3>1, <3>2, <3>3, <3>4, <3>5
  <2> HIDE DEF f
  <2> QED
    BY <2>1, <2>2 DEF Surjection
<1>7. f \in Bijection(A, B0)
  BY <1>5, <1>6 DEF Bijection
<1>8. IsFiniteSet(A) /\ Cardinality(A) \in Nat
  BY <1>0, ElementsFinite DEF A
<1>9. IsFiniteSet(B0) /\ Cardinality(B0) = Cardinality(A)
  BY <1>7, <1>8, FS_Bijection DEF ExistsBijection
<1>10. CASE m = n
  <2>1. B = B0 \cup {<<k, p>>}
    BY <1>3, <1>10
  <2>2. Cardinality(B0 \cup {<<k, p>>}) = Cardinality(B0) + 1
    BY <1>9, FS_AddElement
  <2> QED
    BY <1>9, <1>10, <2>1, <2>2 DEF A, B
<1>11. CASE m # n
  <2>1. B = B0
    BY <1>3, <1>11
  <2> HIDE DEF f, B0
  <2>2. Cardinality(B) = Cardinality(A) /\ Cardinality(A) = Cardinality(A) + 0
    BY <1>8, <1>9, <2>1
  <2>3. (IF m = n THEN 1 ELSE 0) = 0
    BY <1>11
  <2> QED
    BY <2>2, <2>3 DEF A, B
<1> QED
  BY <1>10, <1>11

LEMMA RefsPush ==
  ASSUME LateInv, TypeOK', RefsCounted, PushNext
  PROVE  RefsCounted'
<1>0. TypeOK
  BY DEF LateInv
<1> SUFFICES ASSUME NEW m \in Notes, status'[m] = "live", fault' = "none"
             PROVE  refcount'[m] = 1 + Cardinality(ElementsOf(rtQueue', m))
  BY DEF RefsCounted, Elements, ElementsOf
<1>1. /\ fault = "none" /\ popped.inst \in Notes /\ status' = status
  BY <1>0, PushLate
<1>2. refcount[m] = 1 + Cardinality(ElementsOf(rtQueue, m))
  BY <1>1 DEF RefsCounted, Elements, ElementsOf
<1>3. PICK k \in Keys : \E p \in 1 .. Len(rtQueue[k]) + 1 :
        /\ Inserted(rtQueue[k], rtQueue'[k], p, popped.inst, popped.chunkStart)
        /\ \A j \in Keys \ {k} : rtQueue'[j] = rtQueue[j]
        /\ refcount' = [refcount EXCEPT ![popped.inst] = @ + 1]
  BY <1>0, PushLate
<1>4. /\ rtQueue \in [Keys -> Seq(QElts(Notes))] /\ rtQueue' \in [Keys -> Seq(QElts(Notes))]
      /\ refcount \in [Notes -> Int]
  BY <1>0 DEF TypeOK, QueueTypes, InstTypes, QElts
<1>5. Cardinality(ElementsOf(rtQueue', m)) =
        Cardinality(ElementsOf(rtQueue, m)) + (IF m = popped.inst THEN 1 ELSE 0)
  <2>1. Gains(rtQueue, rtQueue', k, popped.inst, popped.chunkStart)
    BY <1>3, <1>4 DEF Gains
  <2> QED
    BY <2>1, ElementsGained
<1>6. refcount'[m] = refcount[m] + (IF m = popped.inst THEN 1 ELSE 0)
  BY <1>1, <1>3, <1>4
<1>7. Cardinality(ElementsOf(rtQueue, m)) \in Nat
  BY <1>4, ElementsFinite
<1> QED
  BY <1>2, <1>5, <1>6, <1>7

LEMMA RefsExec ==
  ASSUME LateInv, TypeOK', RefsCounted, ExecHead
  PROVE  RefsCounted'
<1> DEFINE q    == rtQueue[Key]
           n    == q[1].inst
           cs   == q[1].chunkstart
           next == cs + ChunkSamps(n, cs)
<1>0. TypeOK
  BY DEF LateInv
<1> SUFFICES ASSUME NEW m \in Notes, status'[m] = "live", fault' = "none"
             PROVE  refcount'[m] = 1 + Cardinality(ElementsOf(rtQueue', m))
  BY DEF RefsCounted, Elements, ElementsOf
<1>1. Key \in Keys /\ fault = "none" /\ n \in Notes /\ status' = status
  BY <1>0, ExecLate
<1>2. PICK rest \in Seq(QElts(Notes)) :
        /\ Inserted(rest, q, 1, n, cs)
        /\ \A j \in Keys \ {Key} : rtQueue'[j] = rtQueue[j]
        /\ \/ /\ \E p \in 1 .. Len(rest) + 1 : Inserted(rest, rtQueue'[Key], p, n, next)
              /\ UNCHANGED refcount
           \/ /\ rtQueue'[Key] = rest
              /\ refcount' = [refcount EXCEPT ![n] = @ - 1]
  BY <1>0, ExecLate
<1> HIDE DEF n, cs, next
<1>3. refcount[m] = 1 + Cardinality(ElementsOf(rtQueue, m))
  BY <1>1 DEF RefsCounted, Elements, ElementsOf
<1>4. /\ rtQueue \in [Keys -> Seq(QElts(Notes))] /\ rtQueue' \in [Keys -> Seq(QElts(Notes))]
      /\ refcount \in [Notes -> Int]
  BY <1>0 DEF TypeOK, QueueTypes, InstTypes, QElts
<1> DEFINE P == [rtQueue EXCEPT ![Key] = rest]
<1>5. /\ P \in [Keys -> Seq(QElts(Notes))] /\ P[Key] = rest
      /\ \A j \in Keys \ {Key} : P[j] = rtQueue[j]
  BY <1>1, <1>4
<1> HIDE DEF P
<1>6. Cardinality(ElementsOf(rtQueue, m)) =
        Cardinality(ElementsOf(P, m)) + (IF m = n THEN 1 ELSE 0)
  <2>1. Gains(P, rtQueue, Key, n, cs)
    <3>1. 1 \in 1 .. Len(P[Key]) + 1
      BY <1>5
    <3> QED
      BY <1>1, <1>2, <1>4, <1>5, <3>1 DEF Gains
  <2> QED
    BY <2>1, ElementsGained
<1>7. Cardinality(ElementsOf(P, m)) \in Nat /\ Cardinality(ElementsOf(rtQueue, m)) \in Nat
  BY <1>4, <1>5, ElementsFinite
<1>8. ASSUME NEW p \in 1 .. Len(rest) + 1, Inserted(rest, rtQueue'[Key], p, n, next),
             UNCHANGED refcount
      PROVE  refcount'[m] = 1 + Cardinality(ElementsOf(rtQueue', m))
  <2>1. Gains(P, rtQueue', Key, n, next)
    BY <1>1, <1>2, <1>4, <1>5, <1>8 DEF Gains
  <2>2. Cardinality(ElementsOf(rtQueue', m)) =
          Cardinality(ElementsOf(P, m)) + (IF m = n THEN 1 ELSE 0)
    BY <2>1, ElementsGained
  <2>3. Cardinality(ElementsOf(rtQueue', m)) = Cardinality(ElementsOf(rtQueue, m))
    BY <1>6, <2>2
  <2>4. refcount'[m] = refcount[m]
    BY <1>8
  <2> QED
    BY <1>3, <2>3, <2>4
<1>9. CASE rtQueue'[Key] = rest /\ refcount' = [refcount EXCEPT ![n] = @ - 1]
  <2>1. rtQueue' = P
    <3>1. \A j \in Keys : rtQueue'[j] = P[j]
      BY <1>1, <1>2, <1>5, <1>9
    <3>2. rtQueue' = [j \in Keys |-> rtQueue'[j]] /\ P = [j \in Keys |-> P[j]]
      BY <1>4, <1>5
    <3> QED
      BY <3>1, <3>2
  <2>2. refcount'[m] = refcount[m] - (IF m = n THEN 1 ELSE 0)
    BY <1>1, <1>4, <1>9
  <2> QED
    BY <1>3, <1>6, <1>7, <2>1, <2>2
<1> QED
  BY <1>2, <1>8, <1>9

(* A note that comes into being has no element yet.                        *)
LEMMA RefsSchedule ==
  ASSUME LateInv, TypeOK', RefsCounted,
         NEW n \in Notes, NEW s \in Starts, NEW d \in Durs, Schedule(n, s, d)
  PROVE  RefsCounted'
<1>0. TypeOK
  BY DEF LateInv
<1>1. /\ fault = "none" /\ status[n] = "new" /\ UNCHANGED rtQueue
      /\ refcount' = [refcount EXCEPT ![n] = @ + 1]
      /\ status' = [status EXCEPT ![n] = "live"]
  BY DEF Schedule
<1>2. refcount \in [Notes -> Int] /\ refcount[n] = 0
  BY <1>0, <1>1 DEF LateInv, NewUncounted, TypeOK, InstTypes
<1>3. ElementsOf(rtQueue, n) = {}
  <2>1. \A k \in Keys : \A i \in 1 .. Len(rtQueue[k]) : rtQueue[k][i].inst # n
    BY <1>1 DEF LateInv, AllReached, Reached
  <2>2. /\ \A k, i : <<k, i>> \in ElementsOf(rtQueue, n)
                       <=> k \in Keys /\ i \in 1 .. Len(rtQueue[k]) /\ rtQueue[k][i].inst = n
        /\ \A x \in ElementsOf(rtQueue, n) : x = <<x[1], x[2]>>
    BY ElementsMembers
  <2> QED
    BY <2>1, <2>2
<1>4. Cardinality(ElementsOf(rtQueue, n)) = 0
  <2>1. Cardinality({}) = 0
    BY FS_EmptySet
  <2> QED
    BY <1>3, <2>1
<1> SUFFICES ASSUME NEW m \in Notes, status'[m] = "live"
             PROVE  refcount'[m] = 1 + Cardinality(ElementsOf(rtQueue', m))
  BY DEF RefsCounted, Elements, ElementsOf
<1>5. CASE m = n
  BY <1>1, <1>2, <1>4, <1>5
<1>6. CASE m # n
  <2>1. status[m] = "live" /\ refcount'[m] = refcount[m]
    BY <1>0, <1>1, <1>6 DEF TypeOK, InstTypes, HistoryTypes
  <2>2. refcount[m] = 1 + Cardinality(ElementsOf(rtQueue, m))
    BY <1>1, <2>1 DEF RefsCounted, Elements, ElementsOf
  <2> QED
    BY <1>1, <2>1, <2>2
<1> QED
  BY <1>5, <1>6

LEMMA RefsNext ==
  LateInv /\ RefsCounted /\ [Next]_vars => RefsCounted'
<1> SUFFICES ASSUME LateInv, RefsCounted, [Next]_vars PROVE RefsCounted'
  OBVIOUS
<1>0. TypeOK /\ TypeOK'
  BY TypeNext DEF LateInv
<1>1. CASE UNCHANGED <<rtQueue, refcount, status>> /\ (fault' = "none" => fault = "none")
  <2>1. \A n \in Notes : Elements(n)' = Elements(n)
    BY <1>1 DEF Elements
  <2> QED
    BY <1>1, <2>1 DEF RefsCounted
<1>2. CASE UNCHANGED vars
  BY <1>1, <1>2 DEF vars, histVars
<1>3. CASE \/ Begin \/ HeapDone \/ PushDone \/ SelectBus \/ NextClass \/ BusDone \/ Send
           \/ \E e \in rtHeap : PopHeap(e)
  BY <1>1, <1>3 DEF Begin, PopHeap, HeapDone, PushDone, SelectBus, NextClass, BusDone, Send,
                    histVars
<1>4. ASSUME NEW n \in Notes, ScheduleFails(n) PROVE RefsCounted'
  <2>1. /\ fault = "none" /\ UNCHANGED rtQueue
        /\ refcount' = [refcount EXCEPT ![n] = @ + 1]
        /\ status' = [status EXCEPT ![n] = "lost"]
    BY <1>4 DEF ScheduleFails
  <2>2. \A m \in Notes : status'[m] = "live" => /\ status[m] = "live"
                                                /\ refcount'[m] = refcount[m]
    BY <1>0, <2>1 DEF TypeOK, InstTypes, HistoryTypes
  <2> QED
    BY <2>1, <2>2 DEF RefsCounted, Elements
<1>5. ASSUME Flush PROVE RefsCounted'
  <2>1. \A n \in Notes : status'[n] # "live"
    BY <1>5 DEF Flush
  <2> QED
    BY <2>1 DEF RefsCounted
<1> QED
  BY <1>0, <1>2, <1>3, <1>4, <1>5, RefsSchedule, RefsPush, RefsExec DEF Next, Traverse

(* However late the notes and however they are re-queued, a live note      *)
(* holds the reference of checkInsts() and one per element of a queue: no  *)
(* unref() of the playing loop can free an instrument that is queued.      *)
THEOREM LateRefsCounted == Spec => []RefsCounted
<1>1. Init => LateInv /\ RefsCounted
  BY LateInit DEF Init, RefsCounted
<1>2. LateInv /\ RefsCounted /\ [Next]_vars => (LateInv /\ RefsCounted)'
  BY LateNext, RefsNext
<1> QED
  BY <1>1, <1>2, PTL DEF Spec

-----------------------------------------------------------------------------
(***************************************************************************)
(* The theorems the scheduler is for, about scores that are on time:       *)
(* every note is mixed exactly once into each of its buses, with exactly   *)
(* its frames, in every period; no instrument reads an aux bus that is not *)
(* complete yet; and run() computes each frame of a note exactly once.     *)
(***************************************************************************)

(* What the types say of notes.                                            *)
LEMMA NoteFacts ==
  ASSUME TypeOK, NEW n \in Notes
  PROVE  /\ startsamp[n] \in Int /\ nsamps[n] \in Nat /\ EndOf(n) \in Int
         /\ EndOf(n) = startsamp[n] + nsamps[n]
         /\ bufStartSamp \in Nat /\ RTBUFSAMPS \in Nat \ {0}
         /\ BufEnd = bufStartSamp + RTBUFSAMPS /\ BufEnd \in Nat
         /\ KeysOf(n) \subseteq Keys
<1>1. /\ startsamp[n] \in Int /\ nsamps[n] \in Nat /\ bufStartSamp \in Nat
      /\ RTBUFSAMPS \in Nat \ {0}
  BY BufsampsAssumption DEF TypeOK, HistoryTypes, ControlTypes
<1>2. KeysOf(n) \subseteq Keys
  <2>1. QueuesOf(n) \in Seq(Keys)
    BY KeysProperties
  <2> QED
    BY <2>1, ElementOfSeq DEF KeysOf
<1> QED
  BY <1>1, <1>2 DEF EndOf, BufEnd

(* The frames of a note in a period.                                       *)
LEMMA SliceFacts ==
  ASSUME TypeOK, NEW n \in Notes
  PROVE  /\ SliceOf(n)[1] = IF startsamp[n] < bufStartSamp THEN 0
                            ELSE startsamp[n] - bufStartSamp
         /\ SliceOf(n)[2] = (IF EndOf(n) < BufEnd THEN EndOf(n) ELSE BufEnd) - bufStartSamp
         /\ SliceOf(n) = <<SliceOf(n)[1], SliceOf(n)[2]>>
<1>1. startsamp[n] \in Int /\ bufStartSamp \in Nat
  BY NoteFacts
<1> QED
  BY <1>1 DEF SliceOf

LEMMA SliceInit == Init => SliceInv
<1> SUFFICES ASSUME Init
             PROVE  SliceInv
  OBVIOUS
<1>1. /\ rtHeap = {} /\ pc = "idle" /\ \A k \in Keys : rtQueue[k] = <<>>
      /\ \A n \in Notes : status[n] = "new"
      /\ \A n \in Notes : \A k \in Keys : mixed[n][k] = <<>>
  BY DEF Init
<1>2. Once /\ WaitingNotes /\ ComingNotes /\ QueuedNotes
  BY <1>1 DEF Once, WaitingNotes, ComingNotes, QueuedNotes
<1>3. DoneNotes /\ NothingElse /\ LiveEnds
  BY <1>1 DEF DoneNotes, NothingElse, LiveEnds
<1> QED
  BY <1>2, <1>3 DEF SliceInv

(* Where the clock and the notes stay, so do the slices.                   *)
LEMMA SameSlices ==
  ASSUME UNCHANGED <<bufStartSamp, status, startsamp, nsamps>>
  PROVE  /\ \A n : Sounding(n)' <=> Sounding(n)
         /\ \A n : SliceOf(n)' = SliceOf(n)
         /\ \A n : EndOf(n)' = EndOf(n)
         /\ BufEnd' = BufEnd
BY DEF Sounding, SliceOf, EndOf, BufEnd

(* Steps that move no note.                                                *)
LEMMA SliceSame ==
  ASSUME SliceInv, pc # "push", pc' # "push", pc' = "idle" => pc = "idle",
         UNCHANGED <<rtHeap, rtQueue, bufStartSamp, endsamp, status, startsamp,
                     nsamps, mixed>>
  PROVE  SliceInv'
<1>1. /\ (\A n : Sounding(n)' <=> Sounding(n)) /\ (\A n : SliceOf(n)' = SliceOf(n))
      /\ (\A n : EndOf(n)' = EndOf(n)) /\ BufEnd' = BufEnd
  BY SameSlices
<1>2. Once' /\ WaitingNotes' /\ ComingNotes'
  BY DEF SliceInv, Once, WaitingNotes, ComingNotes, Untouched, Queued
<1>3. QueuedNotes'
  BY <1>1 DEF SliceInv, QueuedNotes, Placed, Start
<1>4. DoneNotes'
  BY <1>1 DEF SliceInv, DoneNotes, Through, Waiting, Coming, Queued
<1>5. NothingElse' /\ LiveEnds'
  BY <1>1 DEF SliceInv, NothingElse, LiveEnds
<1> QED
  BY <1>2, <1>3, <1>4, <1>5 DEF SliceInv

(* A note that is scheduled waits on the heap.                             *)
LEMMA SliceSchedule ==
  ASSUME OnTime, OnTimeInv, SliceInv,
         NEW n \in Notes, NEW s \in Starts, NEW d \in Durs, Schedule(n, s, d)
  PROVE  SliceInv'
<1> DEFINE first == s + elapsed + RTBUFSAMPS
           item == [inst |-> n, chunkStart |-> first]
<1>0. TypeOK
  BY DEF OnTimeInv
<1>1. /\ s \in Int /\ d \in Nat /\ s >= -RTBUFSAMPS
      /\ elapsed \in Nat /\ elapsed = bufStartSamp
      /\ RTBUFSAMPS \in Nat /\ MaxSamp \in Nat /\ first + d <= MaxSamp
  BY TimesAssumption, BufsampsAssumption, BoundAssumption
     DEF OnTime, OnTimeInv, Clocks, TypeOK, ControlTypes, Schedule
<1>2. first \in 0 .. MaxSamp /\ first >= bufStartSamp
  BY <1>1
<1>3. Unsigned(first) = first
  BY <1>1, <1>2, UnsignedProperties
<1>4. /\ pc = "idle" /\ pc' = "idle" /\ status[n] = "new"
      /\ endsamp' = [endsamp EXCEPT ![n] = first + d]
      /\ rtHeap' = rtHeap \cup {item}
      /\ startsamp' = [startsamp EXCEPT ![n] = first]
      /\ nsamps' = [nsamps EXCEPT ![n] = d]
      /\ status' = [status EXCEPT ![n] = "live"]
      /\ UNCHANGED <<rtQueue, bufStartSamp, mixed>>
  BY <1>3 DEF Schedule, ctlVars, timeVars
<1> HIDE DEF first
<1>5. /\ startsamp \in [Notes -> Int] /\ nsamps \in [Notes -> Nat]
      /\ endsamp \in [Notes -> Int] /\ DOMAIN status = Notes
  BY <1>0 DEF TypeOK, HistoryTypes, InstTypes
<1>6. /\ status'[n] = "live" /\ startsamp'[n] = first /\ nsamps'[n] = d
      /\ endsamp'[n] = first + d
      /\ \A m \in Notes \ {n} :
           /\ status'[m] = status[m] /\ startsamp'[m] = startsamp[m]
           /\ nsamps'[m] = nsamps[m] /\ endsamp'[m] = endsamp[m]
  BY <1>4, <1>5
<1>7. /\ \A e \in rtHeap : e.inst \in Notes /\ e.inst # n
      /\ \A k \in Keys : \A i \in 1 .. Len(rtQueue[k]) :
           rtQueue[k][i].inst \in Notes /\ rtQueue[k][i].inst # n
      /\ \A k \in Keys : mixed[n][k] = <<>>
  BY <1>0, <1>4, QueueFacts
     DEF SliceInv, WaitingNotes, QueuedNotes, Placed, Sounding, NothingElse
<1>8. item.inst = n /\ item.chunkStart = first
  OBVIOUS
<1> HIDE DEF item
<1>9. ASSUME NEW m \in Notes \ {n}
      PROVE  /\ Sounding(m)' <=> Sounding(m)
             /\ SliceOf(m)' = SliceOf(m) /\ EndOf(m)' = EndOf(m)
  BY <1>4, <1>6, <1>9 DEF Sounding, SliceOf, EndOf, BufEnd
<1>10. Once'
  BY <1>4, <1>7, <1>8 DEF SliceInv, Once
<1>11. WaitingNotes'
  <2> SUFFICES ASSUME NEW e \in rtHeap'
               PROVE  /\ status'[e.inst] = "live" /\ startsamp'[e.inst] = e.chunkStart
                      /\ \A k \in Keys : ~Queued(e.inst, k)' /\ mixed'[e.inst][k] = <<>>
    BY <1>4 DEF WaitingNotes, Untouched
  <2>1. CASE e = item
    BY <1>4, <1>6, <1>7, <1>8, <2>1 DEF Queued
  <2>2. CASE e \in rtHeap
    <3>1. e.inst \in Notes \ {n}
      BY <1>7, <2>2
    <3> QED
      BY <1>4, <1>6, <2>2, <3>1 DEF SliceInv, WaitingNotes, Untouched, Queued
  <2> QED
    BY <1>4, <2>1, <2>2
<1>12. ComingNotes'
  BY <1>4 DEF ComingNotes
<1>13. QueuedNotes'
  <2> SUFFICES ASSUME NEW k \in Keys, NEW i \in 1 .. Len(rtQueue[k])
               PROVE  Placed(rtQueue[k][i].inst, k, Start(k, i))'
    BY <1>4 DEF QueuedNotes
  <2>1. PICK m \in Notes \ {n} : m = rtQueue[k][i].inst
    BY <1>7
  <2>2. PICK st : st = Start(k, i)
    OBVIOUS
  <2>3. Placed(m, k, st)
    BY <2>1, <2>2 DEF SliceInv, QueuedNotes
  <2>4. Placed(m, k, st)'
    BY <1>4, <1>9, <2>3 DEF Placed, BufEnd
  <2>5. st = Start(k, i)' /\ m = (rtQueue[k][i].inst)'
    BY <1>4, <2>1, <2>2 DEF Start
  <2> QED
    BY <2>4, <2>5
<1>14. DoneNotes'
  <2> SUFFICES ASSUME NEW m \in Notes, NEW k \in KeysOf(m), status'[m] = "live",
                      ~Waiting(m)', ~Coming(m, k)', ~Queued(m, k)'
               PROVE  Through(m, k)'
    BY DEF DoneNotes
  <2>1. m # n
    BY <1>4, <1>8 DEF Waiting
  <2>2. ~Waiting(m) /\ ~Coming(m, k) /\ ~Queued(m, k) /\ status[m] = "live"
    BY <1>4, <1>6, <2>1 DEF Waiting, Coming, Queued
  <2>3. Through(m, k)
    BY <2>2 DEF SliceInv, DoneNotes
  <2> QED
    BY <1>4, <1>6, <1>9, <2>1, <2>3 DEF Through, BufEnd
<1>15. NothingElse'
  BY <1>4 DEF SliceInv, NothingElse
<1>16. LiveEnds'
  <2>1. EndOf(n)' = first + d
    BY <1>6 DEF EndOf
  <2> QED
    BY <1>1, <1>6, <1>9, <2>1 DEF SliceInv, LiveEnds
<1> QED
  BY <1>10, <1>11, <1>12, <1>13, <1>14, <1>15, <1>16 DEF SliceInv

(* Nothing at all changes.                                                 *)
LEMMA SliceStutter ==
  ASSUME SliceInv,
         UNCHANGED <<rtHeap, rtQueue, bufStartSamp, pc, todo, popped, endsamp,
                     status, startsamp, nsamps, mixed>>
  PROVE  SliceInv'
<1>1. /\ (\A n : Sounding(n)' <=> Sounding(n)) /\ (\A n : SliceOf(n)' = SliceOf(n))
      /\ (\A n : EndOf(n)' = EndOf(n)) /\ BufEnd' = BufEnd
  BY SameSlices
<1>2. Once' /\ WaitingNotes' /\ ComingNotes'
  BY DEF SliceInv, Once, WaitingNotes, ComingNotes, Untouched, Queued
<1>3. QueuedNotes'
  BY <1>1 DEF SliceInv, QueuedNotes, Placed, Start
<1>4. DoneNotes'
  BY <1>1 DEF SliceInv, DoneNotes, Through, Waiting, Coming, Queued
<1>5. NothingElse' /\ LiveEnds'
  BY <1>1 DEF SliceInv, NothingElse, LiveEnds
<1> QED
  BY <1>2, <1>3, <1>4, <1>5 DEF SliceInv

(* Notes that are lost or flushed leave nothing behind.                    *)
LEMMA SliceGone ==
  ASSUME TypeOK, SliceInv
  PROVE  /\ \A n \in Notes : ScheduleFails(n) => SliceInv'
         /\ Flush => SliceInv'
<1>1. ASSUME NEW n \in Notes, ScheduleFails(n) PROVE SliceInv'
  <2>1. /\ pc = "idle" /\ pc' = "idle" /\ status[n] = "new"
        /\ status' = [status EXCEPT ![n] = "lost"]
        /\ UNCHANGED <<rtHeap, rtQueue, bufStartSamp, endsamp, startsamp, nsamps, mixed>>
    BY <1>1 DEF ScheduleFails, ctlVars, timeVars, instVars
  <2>2. /\ status'[n] = "lost" /\ \A m \in Notes \ {n} : status'[m] = status[m]
    BY <2>1 DEF TypeOK, HistoryTypes
  <2>3. /\ \A e \in rtHeap : e.inst \in Notes /\ e.inst # n
        /\ \A k \in Keys : \A i \in 1 .. Len(rtQueue[k]) :
             rtQueue[k][i].inst \in Notes /\ rtQueue[k][i].inst # n
    BY <2>1, QueueFacts DEF SliceInv, WaitingNotes, QueuedNotes, Placed, Sounding
  <2>4. ASSUME NEW m \in Notes \ {n}
        PROVE  /\ Sounding(m)' <=> Sounding(m)
               /\ SliceOf(m)' = SliceOf(m) /\ EndOf(m)' = EndOf(m)
    BY <2>1, <2>2 DEF Sounding, SliceOf, EndOf, BufEnd
  <2>5. Once' /\ ComingNotes'
    BY <2>1 DEF SliceInv, Once, ComingNotes
  <2>6. WaitingNotes'
    BY <2>1, <2>2, <2>3 DEF SliceInv, WaitingNotes, Untouched, Queued
  <2>7. QueuedNotes'
    <3> SUFFICES ASSUME NEW k \in Keys, NEW i \in 1 .. Len(rtQueue[k])
                 PROVE  Placed(rtQueue[k][i].inst, k, Start(k, i))'
      BY <2>1 DEF QueuedNotes
    <3>1. PICK m \in Notes \ {n} : m = rtQueue[k][i].inst
      BY <2>3
    <3>2. PICK st : st = Start(k, i)
      OBVIOUS
    <3>3. Placed(m, k, st)
      BY <3>1, <3>2 DEF SliceInv, QueuedNotes
    <3>4. Placed(m, k, st)'
      BY <2>1, <2>4, <3>3 DEF Placed, BufEnd
    <3>5. st = Start(k, i)' /\ m = (rtQueue[k][i].inst)'
      BY <2>1, <3>1, <3>2 DEF Start
    <3> QED
      BY <3>4, <3>5
  <2>8. DoneNotes'
    <3> SUFFICES ASSUME NEW m \in Notes, NEW k \in KeysOf(m), status'[m] = "live",
                        ~Waiting(m)', ~Coming(m, k)', ~Queued(m, k)'
                 PROVE  Through(m, k)'
      BY DEF DoneNotes
    <3>1. m # n
      BY <2>2
    <3>2. ~Waiting(m) /\ ~Coming(m, k) /\ ~Queued(m, k) /\ status[m] = "live"
      BY <2>1, <2>2, <3>1 DEF Waiting, Coming, Queued
    <3>3. Through(m, k)
      BY <3>2 DEF SliceInv, DoneNotes
    <3> QED
      BY <2>1, <2>2, <2>4, <3>1, <3>3 DEF Through, BufEnd
  <2>9. NothingElse' /\ LiveEnds'
    BY <2>1, <2>2, <2>4 DEF SliceInv, NothingElse, LiveEnds
  <2> QED
    BY <2>5, <2>6, <2>7, <2>8, <2>9 DEF SliceInv
<1>2. ASSUME Flush PROVE SliceInv'
  <2>1. /\ pc = "idle" /\ pc' = "idle" /\ rtHeap' = {} /\ mixed' = mixed
        /\ \A k \in Keys : rtQueue'[k] = <<>>
        /\ status' = [n \in Notes |-> IF status[n] = "live" THEN "flushed" ELSE status[n]]
    BY <1>2 DEF Flush, ctlVars
  <2>2. \A n \in Notes : status'[n] # "live"
    BY <2>1
  <2>3. Once' /\ WaitingNotes' /\ ComingNotes' /\ QueuedNotes'
    BY <2>1 DEF Once, WaitingNotes, ComingNotes, QueuedNotes
  <2>4. DoneNotes' /\ NothingElse' /\ LiveEnds'
    BY <2>1, <2>2 DEF SliceInv, DoneNotes, NothingElse, LiveEnds
  <2> QED
    BY <2>3, <2>4 DEF SliceInv
<1> QED
  BY <1>1, <1>2

(* A note leaves the heap for its buses.                                   *)
LEMMA SlicePop ==
  ASSUME DistinctBuses, TypeOK, SliceInv, NEW e \in rtHeap, PopHeap(e)
  PROVE  SliceInv'
<1>1. /\ pc = "pop" /\ pc' = "push" /\ rtHeap' = rtHeap \ {e} /\ popped' = e
      /\ todo' = QueuesOf(e.inst)
      /\ UNCHANGED <<rtQueue, bufStartSamp, endsamp, status, startsamp, nsamps, mixed>>
  BY DEF PopHeap, timeVars, instVars, histVars
<1>2. e.inst \in Notes
  BY DEF TypeOK, QueueTypes
<1>3. /\ (\A n : Sounding(n)' <=> Sounding(n)) /\ (\A n : SliceOf(n)' = SliceOf(n))
      /\ (\A n : EndOf(n)' = EndOf(n)) /\ BufEnd' = BufEnd
  BY <1>1, SameSlices
<1>4. Once'
  BY <1>1, <1>2 DEF SliceInv, Once, DistinctBuses
<1>5. WaitingNotes'
  BY <1>1 DEF SliceInv, WaitingNotes, Untouched, Queued, Once
<1>6. ComingNotes'
  <2>1. \A i \in 1 .. Len(QueuesOf(e.inst)) : QueuesOf(e.inst)[i] \in Keys
    BY <1>2, KeysProperties, ElementOfSeq
  <2>2. PICK keys : keys = QueuesOf(e.inst)
    OBVIOUS
  <2> QED
    BY <1>1, <2>1, <2>2 DEF SliceInv, WaitingNotes, ComingNotes, Untouched, Queued
<1>7. QueuedNotes'
  BY <1>1, <1>3 DEF SliceInv, QueuedNotes, Placed, Start
<1>8. DoneNotes'
  <2> SUFFICES ASSUME NEW n \in Notes, NEW k \in KeysOf(n), status'[n] = "live",
                      ~Waiting(n)', ~Coming(n, k)', ~Queued(n, k)'
               PROVE  Through(n, k)'
    BY DEF DoneNotes
  <2>1. n # e.inst
    BY <1>1 DEF Coming, KeysOf
  <2>2. ~Waiting(n) /\ ~Coming(n, k) /\ ~Queued(n, k)
    BY <1>1, <2>1 DEF Waiting, Coming, Queued
  <2>3. Through(n, k)
    BY <1>1, <2>2 DEF SliceInv, DoneNotes
  <2> QED
    BY <1>1, <1>3, <2>3 DEF Through
<1>9. NothingElse' /\ LiveEnds'
  BY <1>1, <1>3 DEF SliceInv, NothingElse, LiveEnds
<1> QED
  BY <1>4, <1>5, <1>6, <1>7, <1>8, <1>9 DEF SliceInv

(* It enters the queue of one of them, where it is still to be mixed.      *)
LEMMA SlicePush ==
  ASSUME OnTimeInv, SliceInv, PushNext
  PROVE  SliceInv'
<1>0. TypeOK
  BY DEF OnTimeInv
<1>1. /\ pc = "push" /\ pc' = "push" /\ todo' = Tail(todo)
      /\ UNCHANGED <<rtHeap, bufStartSamp, popped, endsamp, status, startsamp,
                     nsamps, mixed>>
  BY PushFacts DEF histVars
<1>2. /\ Len(todo) \in Nat \ {0} /\ Len(Tail(todo)) = Len(todo) - 1
      /\ \A i \in 1 .. Len(Tail(todo)) : Tail(todo)[i] = todo[i + 1]
      /\ \A i \in 1 .. Len(todo) : todo[i] \in Keys
  BY PushFacts
<1>3. PICK k \in Keys : k = todo[1]
  BY PushFacts
<1>4. PICK n \in Notes : n = popped.inst
  BY PushFacts
<1>5. PICK s \in Nat : s = popped.chunkStart
  BY PushFacts
<1>6. s >= bufStartSamp /\ s < BufEnd
  BY <1>5, PushFacts
<1>7. /\ Len(rtQueue'[k]) = Len(rtQueue[k]) + 1
      /\ \A i \in 1 .. Len(rtQueue[k]) : rtQueue'[k][i] = rtQueue[k][i]
      /\ rtQueue'[k][Len(rtQueue[k]) + 1].inst = n
      /\ rtQueue'[k][Len(rtQueue[k]) + 1].chunkstart = s
      /\ \A j \in Keys \ {k} : rtQueue'[j] = rtQueue[j]
      /\ Len(rtQueue[k]) \in Nat
  BY <1>0, <1>3, <1>4, <1>5, PushFacts, QueueFacts
<1>8. /\ (\A m : Sounding(m)' <=> Sounding(m)) /\ (\A m : SliceOf(m)' = SliceOf(m))
      /\ (\A m : EndOf(m)' = EndOf(m)) /\ BufEnd' = BufEnd
  BY <1>1, SameSlices
<1>9. \A j \in Keys : \A i \in 1 .. Len(rtQueue'[j]) :
        \/ i \in 1 .. Len(rtQueue[j]) /\ rtQueue'[j][i] = rtQueue[j][i]
        \/ /\ j = k /\ i = Len(rtQueue[k]) + 1
           /\ rtQueue'[j][i].inst = n /\ rtQueue'[j][i].chunkstart = s
  <2> TAKE j \in Keys
  <2> TAKE i \in 1 .. Len(rtQueue'[j])
  <2>2. CASE j # k
    BY <1>7, <2>2
  <2>3. CASE j = k
    BY <1>7, <2>3
  <2> QED
    BY <2>2, <2>3
<1>10. \A m, j : j \in Keys => (Queued(m, j)' <=> Queued(m, j) \/ (m = n /\ j = k))
  <2> SUFFICES ASSUME NEW m, NEW j \in Keys
               PROVE  Queued(m, j)' <=> Queued(m, j) \/ (m = n /\ j = k)
    OBVIOUS
  <2>1. CASE j # k
    BY <1>7, <2>1 DEF Queued
  <2>2. CASE j = k
    BY <1>7, <1>9, <2>2 DEF Queued
  <2> QED
    BY <2>1, <2>2
<1>11. /\ status[n] = "live" /\ startsamp[n] = s /\ ~Queued(n, k) /\ mixed[n][k] = <<>>
  <2>1. 1 \in 1 .. Len(todo)
    BY <1>2
  <2> QED
    BY <1>1, <1>3, <1>4, <1>5, <2>1 DEF SliceInv, ComingNotes, Untouched
<1>12. Once'
  <2>1. \A i, j \in 1 .. Len(Tail(todo)) : Tail(todo)[i] = Tail(todo)[j] => i = j
    <3> TAKE i, j \in 1 .. Len(Tail(todo))
    <3> HAVE Tail(todo)[i] = Tail(todo)[j]
    <3>1. todo[i + 1] = todo[j + 1] /\ i + 1 \in 1 .. Len(todo) /\ j + 1 \in 1 .. Len(todo)
      BY <1>2
    <3>2. i + 1 = j + 1
      BY <1>1, <3>1 DEF SliceInv, Once
    <3> QED
      BY <1>2, <3>2
  <2>2. ASSUME NEW l \in Keys, NEW i \in 1 .. Len(rtQueue'[l]),
               NEW j \in 1 .. Len(rtQueue'[l]),
               rtQueue'[l][i].inst = rtQueue'[l][j].inst
        PROVE  i = j
    <3>1. CASE l # k
      BY <1>7, <2>2, <3>1 DEF SliceInv, Once
    <3>2. CASE l = k
      <4>1. \A a \in 1 .. Len(rtQueue[k]) : rtQueue[k][a].inst # n
        BY <1>11 DEF Queued
      <4>2. CASE i \in 1 .. Len(rtQueue[k]) /\ j \in 1 .. Len(rtQueue[k])
        BY <1>7, <2>2, <3>2, <4>2 DEF SliceInv, Once
      <4>3. ASSUME NEW a \in 1 .. Len(rtQueue'[k])
            PROVE  \/ a \in 1 .. Len(rtQueue[k]) /\ rtQueue'[k][a].inst # n
                   \/ a = Len(rtQueue[k]) + 1 /\ rtQueue'[k][a].inst = n
        <5>1. CASE a \in 1 .. Len(rtQueue[k])
          BY <1>7, <4>1, <5>1
        <5>2. CASE a = Len(rtQueue[k]) + 1
          BY <1>7, <5>2
        <5> QED
          BY <1>7, <5>1, <5>2
      <4> QED
        BY <2>2, <3>2, <4>2, <4>3
    <3> QED
      BY <3>1, <3>2
  <2> QED
    BY <1>1, <2>1, <2>2 DEF SliceInv, Once
<1>13. WaitingNotes'
  <2> SUFFICES ASSUME NEW e \in rtHeap
               PROVE  /\ status[e.inst] = "live" /\ startsamp[e.inst] = e.chunkStart
                      /\ n # e.inst
                      /\ \A j \in Keys : ~Queued(e.inst, j)' /\ mixed[e.inst][j] = <<>>
    BY <1>1, <1>4 DEF WaitingNotes, Untouched
  <2> QED
    BY <1>1, <1>4, <1>10 DEF SliceInv, WaitingNotes, Untouched
<1>14. ComingNotes'
  <2>1. ASSUME NEW i \in 1 .. Len(todo') PROVE Untouched(popped.inst, todo[i])'
    <3>1. PICK j \in Keys : j = todo'[i] /\ j = todo[i + 1] /\ i + 1 \in 1 .. Len(todo)
      BY <1>1, <1>2
    <3>2. j # k
      BY <1>1, <1>2, <1>3, <3>1 DEF SliceInv, Once
    <3>3. ~Queued(n, j) /\ mixed[n][j] = <<>>
      BY <1>1, <1>4, <3>1 DEF SliceInv, ComingNotes, Untouched
    <3>4. ~Queued(n, j)'
      BY <1>10, <3>2, <3>3
    <3>5. Untouched(n, j)'
      BY <1>1, <3>3, <3>4 DEF Untouched
    <3> QED
      BY <1>1, <1>4, <3>1, <3>5
  <2> QED
    BY <1>1, <1>4, <1>5, <1>11, <2>1 DEF ComingNotes
<1>15. QueuedNotes'
  <2>1. Placed(n, k, s)'
    <3>1. Sounding(n)
      BY <1>6, <1>11 DEF Sounding
    <3>2. s = bufStartSamp + SliceOf(n)[1]
      BY <1>0, <1>6, <1>11, SliceFacts, NoteFacts
    <3> QED
      BY <1>1, <1>6, <1>8, <1>11, <3>1, <3>2 DEF Placed
  <2> SUFFICES ASSUME NEW j \in Keys, NEW i \in 1 .. Len(rtQueue'[j])
               PROVE  Placed(rtQueue[j][i].inst, j, Start(j, i))'
    BY DEF QueuedNotes
  <2>2. CASE i \in 1 .. Len(rtQueue[j]) /\ rtQueue'[j][i] = rtQueue[j][i]
    <3>1. PICK m, st : m = rtQueue[j][i].inst /\ st = Start(j, i)
      OBVIOUS
    <3>2. Placed(m, j, st)
      BY <2>2, <3>1 DEF SliceInv, QueuedNotes
    <3>3. Placed(m, j, st)'
      BY <1>1, <1>8, <3>2 DEF Placed
    <3> QED
      BY <2>2, <3>1, <3>3 DEF Start
  <2>3. CASE j = k /\ rtQueue'[j][i].inst = n /\ rtQueue'[j][i].chunkstart = s
    BY <2>1, <2>3 DEF Start
  <2> QED
    BY <1>9, <2>2, <2>3
<1>16. DoneNotes'
  <2> SUFFICES ASSUME NEW m \in Notes, NEW j \in KeysOf(m), status[m] = "live",
                      ~Waiting(m)', ~Coming(m, j)', ~Queued(m, j)'
               PROVE  Through(m, j)'
    BY <1>1 DEF DoneNotes
  <2>1. j \in Keys
    BY <1>0, NoteFacts
  <2>2. ~Waiting(m) /\ ~Queued(m, j) /\ ~(m = n /\ j = k)
    BY <1>1, <1>10, <2>1 DEF Waiting
  <2>3. ~Coming(m, j)
    <3> SUFFICES ASSUME m = n, NEW i \in 1 .. Len(todo), todo[i] = j PROVE FALSE
      BY <1>4 DEF Coming
    <3>1. i # 1
      BY <1>3, <2>2
    <3>2. i - 1 \in 1 .. Len(Tail(todo)) /\ Tail(todo)[i - 1] = j
      BY <1>2, <3>1
    <3> QED
      BY <1>1, <1>4, <3>2 DEF Coming
  <2>4. Through(m, j)
    BY <2>2, <2>3 DEF SliceInv, DoneNotes
  <2> QED
    BY <1>1, <1>8, <2>4 DEF Through
<1>17. NothingElse' /\ LiveEnds'
  BY <1>1, <1>8 DEF SliceInv, NothingElse, LiveEnds
<1> QED
  BY <1>12, <1>13, <1>14, <1>15, <1>16, <1>17 DEF SliceInv

LEMMA SlicePushDone ==
  ASSUME SliceInv, PushDone
  PROVE  SliceInv'
<1>1. /\ pc = "push" /\ pc' = "pop" /\ todo = <<>>
      /\ UNCHANGED <<rtHeap, rtQueue, bufStartSamp, endsamp, status, startsamp,
                     nsamps, mixed>>
  BY DEF PushDone, timeVars, instVars, histVars
<1>2. /\ (\A n : Sounding(n)' <=> Sounding(n)) /\ (\A n : SliceOf(n)' = SliceOf(n))
      /\ (\A n : EndOf(n)' = EndOf(n)) /\ BufEnd' = BufEnd
  BY <1>1, SameSlices
<1>3. Once' /\ WaitingNotes' /\ ComingNotes'
  BY <1>1 DEF SliceInv, Once, WaitingNotes, ComingNotes, Untouched, Queued
<1>4. QueuedNotes'
  BY <1>1, <1>2 DEF SliceInv, QueuedNotes, Placed, Start
<1>5. \A n, k : ~Coming(n, k)
  BY <1>1 DEF Coming
<1>6. DoneNotes'
  BY <1>1, <1>2, <1>5 DEF SliceInv, DoneNotes, Through, Waiting, Queued
<1>7. NothingElse' /\ LiveEnds'
  BY <1>1, <1>2 DEF SliceInv, NothingElse, LiveEnds
<1> QED
  BY <1>3, <1>4, <1>6, <1>7 DEF SliceInv

(* What exec() mixes of an instrument that is still to be mixed is its     *)
(* slice of the period.                                                    *)
LEMMA HeadSlice ==
  ASSUME OnTimeInv, SliceInv, NEW n \in Notes, NEW k \in Keys,
         NEW cs \in Nat, cs >= bufStartSamp, cs < BufEnd, Placed(n, k, cs)
  PROVE  /\ mixed[n][k] = <<>> /\ endsamp[n] = EndOf(n)
         /\ <<OutputOffset(cs), OutputOffset(cs) + ChunkSamps(n, cs)>> = SliceOf(n)
<1>0. TypeOK
  BY DEF OnTimeInv
<1>1. /\ RTBUFSAMPS \in Nat /\ bufStartSamp \in Nat /\ EndOf(n) \in Int
      /\ BufEnd = bufStartSamp + RTBUFSAMPS /\ BufEnd \in Nat /\ startsamp[n] \in Int
  BY <1>0, NoteFacts
<1>2. /\ status[n] = "live" /\ mixed[n][k] = <<>> /\ cs = bufStartSamp + SliceOf(n)[1]
  BY <1>1 DEF Placed, Sounding
<1>3. endsamp[n] = EndOf(n)
  BY <1>2 DEF SliceInv, LiveEnds
<1>4. LateEnd(n, cs) = EndOf(n)
  BY <1>0, <1>1, <1>3, NextIsBufEnd DEF OnTimeInv, LateEnd
<1>5. OutputOffset(cs) = cs - bufStartSamp
  BY <1>1 DEF OutputOffset
<1>6. SliceOf(n)[1] = cs - bufStartSamp
  <2>1. SliceOf(n)[1] \in Int
    BY <1>0, <1>1, SliceFacts
  <2> QED
    BY <1>1, <1>2, <2>1
<1>7. ChunkSamps(n, cs) = (IF EndOf(n) < BufEnd THEN EndOf(n) ELSE BufEnd) - cs
  <2> DEFINE end == IF EndOf(n) < BufEnd THEN EndOf(n) ELSE BufEnd
  <2>1. end \in Int /\ end <= BufEnd
    BY <1>1
  <2>2. ChunkSamps(n, cs) = IF end - cs > RTBUFSAMPS THEN RTBUFSAMPS ELSE end - cs
    BY <1>4 DEF ChunkSamps
  <2> HIDE DEF end
  <2>3. ChunkSamps(n, cs) = end - cs
    BY <1>1, <2>1, <2>2
  <2> QED
    BY <2>3 DEF end
<1>8. OutputOffset(cs) + ChunkSamps(n, cs) = SliceOf(n)[2]
  BY <1>0, <1>1, <1>5, <1>7, SliceFacts
<1>9. SliceOf(n) = <<SliceOf(n)[1], SliceOf(n)[2]>>
  BY <1>0, SliceFacts
<1> QED
  BY <1>2, <1>3, <1>5, <1>6, <1>8, <1>9

(* It is mixed into the bus that is played, once.                          *)
LEMMA SliceExec ==
  ASSUME OneKind, OnTimeInv, SliceInv, ExecHead
  PROVE  SliceInv'
<1>0. TypeOK
  BY DEF OnTimeInv
<1>1. /\ pc = "play" /\ pc' = "play"
      /\ UNCHANGED <<rtHeap, bufStartSamp, endsamp, status, startsamp, nsamps>>
  BY ExecFacts
<1>2. PICK k \in Keys : k = Key
  BY ExecFacts
<1>3. PICK q : q = rtQueue[k]
  OBVIOUS
<1>4. PICK n \in Notes : n = q[1].inst
  BY <1>2, <1>3, ExecFacts
<1>5. PICK cs \in Nat : cs = q[1].chunkstart /\ cs >= bufStartSamp /\ cs < BufEnd
  BY <1>2, <1>3, ExecFacts
<1>6. Len(q) \in Nat \ {0} /\ 1 \in 1 .. Len(q)
  BY <1>2, <1>3, ExecFacts
<1>7. /\ Exec(n, cs)
      /\ \A j \in Keys \ {k} : rtQueue'[j] = rtQueue[j]
      /\ \A i \in 1 .. Len(q) - 1 :
           /\ rtQueue'[k][i].inst = q[i + 1].inst
           /\ rtQueue'[k][i].chunkstart = q[i + 1].chunkstart
      /\ IF endsamp[n] > BufEnd
         THEN /\ Len(rtQueue'[k]) = Len(q)
              /\ rtQueue'[k][Len(q)].inst = n
              /\ rtQueue'[k][Len(q)].chunkstart = BufEnd
         ELSE Len(rtQueue'[k]) = Len(q) - 1
  BY <1>2, <1>3, <1>4, <1>5, ExecFacts
<1>8. Placed(n, k, cs)
  BY <1>3, <1>4, <1>5, <1>6 DEF SliceInv, QueuedNotes, Start
<1>9. /\ mixed[n][k] = <<>> /\ endsamp[n] = EndOf(n)
      /\ <<OutputOffset(cs), OutputOffset(cs) + ChunkSamps(n, cs)>> = SliceOf(n)
  BY <1>5, <1>8, HeadSlice
<1>10. /\ mixed'[n][k] = <<SliceOf(n)>>
       /\ \A m \in Notes, j \in Keys : m # n \/ j # k => mixed'[m][j] = mixed[m][j]
  <2>1. mixed' = [mixed EXCEPT ![n][k] =
                    Append(@, <<OutputOffset(cs), OutputOffset(cs) + ChunkSamps(n, cs)>>)]
    BY <1>2, <1>7 DEF Exec
  <2>2. mixed' = [mixed EXCEPT ![n][k] = Append(@, SliceOf(n))]
    BY <1>9, <2>1
  <2>3. PICK slice : slice = SliceOf(n)
    OBVIOUS
  <2>4. mixed \in [Notes -> [Keys -> Seq(Int \X Int)]]
    BY <1>0 DEF TypeOK, HistoryTypes
  <2>5. mixed'[n][k] = Append(mixed[n][k], slice)
    BY <2>2, <2>3, <2>4
  <2>6. mixed'[n][k] = <<slice>>
    BY <1>9, <2>5
  <2>7. \A m \in Notes, j \in Keys : m # n \/ j # k => mixed'[m][j] = mixed[m][j]
    BY <2>2, <2>4
  <2> QED
    BY <2>3, <2>6, <2>7
<1>11. /\ (\A m : Sounding(m)' <=> Sounding(m)) /\ (\A m : SliceOf(m)' = SliceOf(m))
       /\ (\A m : EndOf(m)' = EndOf(m)) /\ BufEnd' = BufEnd
  BY <1>1, SameSlices
<1>12. /\ n \notin {e.inst : e \in rtHeap} /\ status[n] = "live"
       /\ Sounding(n) /\ startsamp[n] < BufEnd
  <2>1. Queued(n, k)
    BY <1>3, <1>4, <1>6 DEF Queued
  <2> QED
    BY <1>8, <2>1 DEF SliceInv, WaitingNotes, Untouched, Placed, Sounding
<1>13. \A i \in 2 .. Len(q) : q[i].inst \in Notes /\ q[i].inst # n
  <2> TAKE i \in 2 .. Len(q)
  <2>1. i \in 1 .. Len(q) /\ i # 1
    BY <1>6
  <2> QED
    BY <1>0, <1>3, <1>4, <1>6, <2>1, QueueFacts DEF SliceInv, Once
<1>14. \A i \in 1 .. Len(rtQueue'[k]) :
         \/ /\ i + 1 \in 2 .. Len(q)
            /\ rtQueue'[k][i].inst = q[i + 1].inst
            /\ rtQueue'[k][i].chunkstart = q[i + 1].chunkstart
         \/ /\ endsamp[n] > BufEnd /\ i = Len(q)
            /\ rtQueue'[k][i].inst = n /\ rtQueue'[k][i].chunkstart = BufEnd
  BY <1>6, <1>7
<1>15. \A m, j : j \in Keys /\ (m # n \/ j # k) => (Queued(m, j)' <=> Queued(m, j))
  <2> SUFFICES ASSUME NEW m, NEW j \in Keys, m # n \/ j # k
               PROVE  Queued(m, j)' <=> Queued(m, j)
    OBVIOUS
  <2>1. CASE j # k
    BY <1>7, <2>1 DEF Queued
  <2>2. CASE j = k
    <3>1. Queued(m, k)' => Queued(m, k)
      BY <1>3, <1>6, <1>14, <2>2 DEF Queued
    <3>2. ASSUME Queued(m, k) PROVE Queued(m, k)'
      <4>1. PICK i \in 1 .. Len(q) : q[i].inst = m
        BY <1>3, <3>2 DEF Queued
      <4>2. i - 1 \in 1 .. Len(q) - 1 /\ i = (i - 1) + 1
        BY <1>4, <1>6, <2>2, <4>1
      <4>3. rtQueue'[k][i - 1].inst = m /\ i - 1 \in 1 .. Len(rtQueue'[k])
        BY <1>6, <1>7, <4>1, <4>2
      <4> QED
        BY <4>3 DEF Queued
    <3> QED
      BY <2>2, <3>1, <3>2
  <2> QED
    BY <2>1, <2>2
<1>16. Once'
  <2>1. ASSUME NEW l \in Keys, NEW i \in 1 .. Len(rtQueue'[l]),
               NEW j \in 1 .. Len(rtQueue'[l]),
               rtQueue'[l][i].inst = rtQueue'[l][j].inst
        PROVE  i = j
    <3>1. CASE l # k
      BY <1>7, <2>1, <3>1 DEF SliceInv, Once
    <3>2. CASE l = k
      <4>1. CASE i + 1 \in 2 .. Len(q) /\ j + 1 \in 2 .. Len(q)
        <5>1. /\ i \in 1 .. Len(q) - 1 /\ j \in 1 .. Len(q) - 1
              /\ i + 1 \in 1 .. Len(q) /\ j + 1 \in 1 .. Len(q)
          BY <1>6, <3>2, <4>1
        <5>2. q[i + 1].inst = q[j + 1].inst
          BY <1>7, <2>1, <3>2, <5>1
        <5>3. i + 1 = j + 1
          BY <1>3, <5>1, <5>2 DEF SliceInv, Once
        <5> QED
          BY <5>1, <5>3
      <4> QED
        BY <1>6, <1>13, <1>14, <2>1, <3>2, <4>1
    <3> QED
      BY <3>1, <3>2
  <2> QED
    BY <1>1, <2>1 DEF SliceInv, Once
<1>17. WaitingNotes'
  <2> SUFFICES ASSUME NEW e \in rtHeap
               PROVE  /\ status[e.inst] = "live" /\ startsamp[e.inst] = e.chunkStart
                      /\ \A j \in Keys : ~Queued(e.inst, j)' /\ mixed'[e.inst][j] = <<>>
    BY <1>1 DEF WaitingNotes, Untouched
  <2>1. e.inst \in Notes /\ e.inst # n
    BY <1>0, <1>12 DEF TypeOK, QueueTypes
  <2> QED
    BY <1>10, <1>15, <2>1 DEF SliceInv, WaitingNotes, Untouched
<1>18. ComingNotes'
  BY <1>1 DEF ComingNotes
<1>19. QueuedNotes'
  <2> SUFFICES ASSUME NEW j \in Keys, NEW i \in 1 .. Len(rtQueue'[j])
               PROVE  Placed(rtQueue[j][i].inst, j, Start(j, i))'
    BY DEF QueuedNotes
  <2>1. ASSUME NEW m \in Notes, NEW st, Placed(m, j, st), m # n \/ j # k
        PROVE  Placed(m, j, st)'
    BY <1>1, <1>10, <1>11, <2>1 DEF Placed
  <2>2. CASE j # k
    <3>1. i \in 1 .. Len(rtQueue[j]) /\ rtQueue'[j][i] = rtQueue[j][i]
      BY <1>7, <2>2
    <3>2. PICK m \in Notes, st \in Nat : m = rtQueue[j][i].inst /\ st = Start(j, i)
      BY <1>0, <3>1, QueueFacts
    <3>3. Placed(m, j, st)
      BY <3>1, <3>2 DEF SliceInv, QueuedNotes
    <3>4. Placed(m, j, st)'
      BY <2>1, <2>2, <3>3
    <3> QED
      BY <3>1, <3>2, <3>4 DEF Start
  <2>3. CASE /\ j = k /\ i + 1 \in 2 .. Len(q)
             /\ rtQueue'[k][i].inst = q[i + 1].inst
             /\ rtQueue'[k][i].chunkstart = q[i + 1].chunkstart
    <3>1. i + 1 \in 1 .. Len(q)
      BY <1>6, <2>3
    <3>2. PICK m \in Notes, st \in Nat : m = q[i + 1].inst /\ st = q[i + 1].chunkstart
      BY <1>0, <1>3, <3>1, QueueFacts DEF Start
    <3>3. Placed(m, k, st)
      BY <1>3, <3>1, <3>2 DEF SliceInv, QueuedNotes, Start
    <3>4. m # n
      BY <1>13, <2>3, <3>2
    <3>5. Placed(m, j, st)'
      BY <2>1, <2>3, <3>3, <3>4
    <3> QED
      BY <2>3, <3>2, <3>5 DEF Start
  <2>4. CASE /\ j = k /\ endsamp[n] > BufEnd
             /\ rtQueue'[k][i].inst = n /\ rtQueue'[k][i].chunkstart = BufEnd
    <3>1. Placed(n, k, BufEnd)'
      BY <1>9, <1>10, <1>11, <1>12, <2>4 DEF Placed
    <3> QED
      BY <1>11, <2>4, <3>1 DEF Start
  <2> QED
    BY <1>14, <2>2, <2>3, <2>4
<1>20. DoneNotes'
  <2> SUFFICES ASSUME NEW m \in Notes, NEW j \in KeysOf(m), status[m] = "live",
                      ~Waiting(m), ~Queued(m, j)'
               PROVE  Through(m, j)'
    BY <1>1 DEF DoneNotes, Waiting
  <2>1. j \in Keys
    BY <1>0, NoteFacts
  <2>2. CASE m # n \/ j # k
    <3>1. ~Queued(m, j) /\ ~Coming(m, j)
      BY <1>1, <1>15, <2>1, <2>2 DEF Coming
    <3>2. Through(m, j)
      BY <3>1 DEF SliceInv, DoneNotes
    <3> QED
      BY <1>1, <1>10, <1>11, <2>1, <2>2, <3>2 DEF Through
  <2>3. CASE m = n /\ j = k
    <3>1. ~(endsamp[n] > BufEnd)
      <4> SUFFICES ASSUME endsamp[n] > BufEnd PROVE Queued(n, k)'
        BY <2>3
      <4> QED
        BY <1>6, <1>7 DEF Queued
    <3>2. EndOf(n) <= BufEnd
      BY <1>0, <1>9, <3>1, NoteFacts
    <3> QED
      BY <1>1, <1>10, <1>11, <1>12, <2>3, <3>2 DEF Through
  <2> QED
    BY <2>2, <2>3
<1>21. k \in KeysOf(n)
  BY <1>3, <1>4, <1>6 DEF OnTimeInv, Members
<1>22. NothingElse' /\ LiveEnds'
  BY <1>1, <1>10, <1>11, <1>12, <1>21 DEF SliceInv, NothingElse, LiveEnds
<1> QED
  BY <1>16, <1>17, <1>18, <1>19, <1>20, <1>22 DEF SliceInv

(* Nothing is due any more when the period is sent; what is queued starts  *)
(* with the next one.                                                      *)
LEMMA SliceSend ==
  ASSUME OnTimeInv, SliceInv, Send
  PROVE  SliceInv'
<1>0. TypeOK
  BY DEF OnTimeInv
<1>1. /\ pc = "send" /\ pc' = "idle" /\ bufStartSamp' = BufEnd
      /\ \A n \in Notes : \A k \in Keys : mixed'[n][k] = <<>>
      /\ UNCHANGED <<rtHeap, rtQueue, endsamp, status, startsamp, nsamps>>
  BY DEF Send, instVars, BufEnd
<1>2. /\ BufEnd \in Nat /\ BufEnd' \in Nat /\ BufEnd < BufEnd'
      /\ \A n : EndOf(n)' = EndOf(n)
      /\ \A n \in Notes : startsamp[n] \in Int /\ EndOf(n) \in Int
  <2>1. /\ bufStartSamp \in Nat /\ RTBUFSAMPS \in Nat \ {0}
        /\ bufStartSamp' = bufStartSamp + RTBUFSAMPS
    BY <1>0, <1>1, BufsampsAssumption DEF TypeOK, ControlTypes, BufEnd
  <2>2. \A n : EndOf(n)' = EndOf(n)
    BY <1>1 DEF EndOf
  <2>3. \A n \in Notes : startsamp[n] \in Int /\ EndOf(n) \in Int
    BY <1>0, NoteFacts
  <2> QED
    BY <2>1, <2>2, <2>3 DEF BufEnd
<1>3. Once' /\ ComingNotes'
  BY <1>1 DEF SliceInv, Once, ComingNotes
<1>4. WaitingNotes'
  BY <1>0, <1>1 DEF SliceInv, WaitingNotes, Untouched, Queued, TypeOK, QueueTypes
<1>5. QueuedNotes'
  <2> SUFFICES ASSUME NEW k \in Keys, NEW i \in 1 .. Len(rtQueue[k])
               PROVE  Placed(rtQueue[k][i].inst, k, Start(k, i))'
    BY <1>1 DEF QueuedNotes
  <2>1. PICK n \in Notes : n = rtQueue[k][i].inst
    BY <1>0, QueueFacts
  <2>2. PICK st \in Nat : st = Start(k, i) /\ st = BufEnd
    BY <1>1, <1>2 DEF OnTimeInv, QueueTimes
  <2>3. Placed(n, k, st)
    BY <2>1, <2>2 DEF SliceInv, QueuedNotes
  <2>4. status[n] = "live" /\ startsamp[n] < BufEnd /\ EndOf(n) > BufEnd
    BY <2>2, <2>3 DEF Placed, Sounding
  <2>5. Sounding(n)'
    BY <1>1, <1>2, <2>4 DEF Sounding
  <2>6. SliceOf(n)'[1] = 0
    BY <1>1, <1>2, <2>4 DEF SliceOf
  <2>7. Placed(n, k, st)'
    BY <1>1, <1>2, <2>2, <2>5, <2>6 DEF Placed
  <2> QED
    BY <1>1, <2>1, <2>2, <2>7 DEF Start
<1>6. DoneNotes'
  <2> SUFFICES ASSUME NEW n \in Notes, NEW k \in KeysOf(n), status[n] = "live",
                      ~Waiting(n)', ~Queued(n, k)'
               PROVE  Through(n, k)'
    BY <1>1 DEF DoneNotes
  <2>1. k \in Keys
    BY <1>0, NoteFacts
  <2>2. ~Waiting(n) /\ ~Queued(n, k) /\ ~Coming(n, k)
    BY <1>1 DEF Waiting, Queued, Coming
  <2>3. startsamp[n] < BufEnd /\ EndOf(n) <= BufEnd
    BY <2>2 DEF SliceInv, DoneNotes, Through
  <2>4. ~Sounding(n)'
    BY <1>1, <1>2, <2>3 DEF Sounding
  <2> QED
    BY <1>1, <1>2, <2>1, <2>3, <2>4 DEF Through
<1>7. NothingElse' /\ LiveEnds'
  BY <1>1, <1>2 DEF SliceInv, NothingElse, LiveEnds
<1> QED
  BY <1>3, <1>4, <1>5, <1>6, <1>7 DEF SliceInv

(* The invariant is inductive. *)
LEMMA SliceNext ==
  ASSUME OnTime, AllPlayed, OneKind, DistinctBuses
  PROVE  OnTimeInv /\ SliceInv /\ [Next]_vars => SliceInv'
<1> SUFFICES ASSUME OnTimeInv, SliceInv, [Next]_vars PROVE SliceInv'
  OBVIOUS
<1>0. TypeOK
  BY DEF OnTimeInv
<1>1. CASE UNCHANGED vars
  BY <1>1, SliceStutter DEF vars, timeVars, ctlVars, instVars, histVars
<1>2. ASSUME NEW n \in Notes, NEW s \in Starts, NEW d \in Durs, Schedule(n, s, d)
      PROVE  SliceInv'
  BY <1>2, SliceSchedule
<1>3. ASSUME Begin PROVE SliceInv'
  BY <1>3, SliceSame DEF Begin, timeVars, instVars, histVars
<1>4. ASSUME HeapDone PROVE SliceInv'
  BY <1>4, SliceSame DEF HeapDone, timeVars, instVars, histVars
<1>5. ASSUME SelectBus PROVE SliceInv'
  BY <1>5, SliceSame DEF SelectBus, timeVars, instVars, histVars
<1>6. ASSUME NextClass PROVE SliceInv'
  <2>1. pc = "select" /\ pc' \in {"select", "send"}
    BY <1>6 DEF NextClass
  <2> QED
    BY <1>6, <2>1, SliceSame DEF NextClass, timeVars, instVars, histVars
<1>7. ASSUME BusDone PROVE SliceInv'
  BY <1>7, SliceSame DEF BusDone, timeVars, instVars, histVars
<1>8. CASE Next
  BY <1>0, <1>2, <1>3, <1>4, <1>5, <1>6, <1>7, <1>8, SliceGone, SlicePop, SlicePush,
     SlicePushDone, SliceExec, SliceSend DEF Next, Traverse
<1> QED
  BY <1>1, <1>8

(* A period that has been played out is complete.                          *)
LEMMA CompleteAtSend == OnTimeInv /\ SliceInv => SliceComplete
<1> SUFFICES ASSUME OnTimeInv, SliceInv, pc = "send", NEW n \in Notes, NEW k \in Keys
             PROVE  mixed[n][k] = IF Sounding(n) /\ k \in KeysOf(n) THEN <<SliceOf(n)>>
                                                                    ELSE <<>>
  BY DEF SliceComplete
<1>0. TypeOK
  BY DEF OnTimeInv
<1>1. CASE status[n] # "live" \/ k \notin KeysOf(n)
  BY <1>1 DEF SliceInv, NothingElse, Sounding
<1>2. CASE status[n] = "live" /\ k \in KeysOf(n)
  <2>1. CASE Waiting(n)
    <3>1. PICK e \in rtHeap : e.inst = n
      BY <2>1 DEF Waiting
    <3>2. startsamp[n] >= BufEnd /\ mixed[n][k] = <<>>
      BY <3>1 DEF SliceInv, WaitingNotes, Untouched, OnTimeInv, HeapTimes
    <3>3. ~Sounding(n)
      BY <1>0, <3>2, NoteFacts DEF Sounding
    <3> QED
      BY <3>2, <3>3
  <2>2. CASE Queued(n, k)
    <3>1. PICK i \in 1 .. Len(rtQueue[k]) : rtQueue[k][i].inst = n
      BY <2>2 DEF Queued
    <3>2. Start(k, i) = BufEnd /\ BufEnd \in Nat
      BY <1>0, NoteFacts DEF OnTimeInv, QueueTimes
    <3>3. Placed(n, k, BufEnd)
      BY <3>1, <3>2 DEF SliceInv, QueuedNotes
    <3> QED
      BY <1>2, <3>2, <3>3 DEF Placed
  <2>3. CASE ~Waiting(n) /\ ~Queued(n, k)
    BY <1>2, <2>3 DEF SliceInv, DoneNotes, Through, Coming
  <2> QED
    BY <2>1, <2>2, <2>3
<1> QED
  BY <1>1, <1>2

(* If no score schedules a note for a time already gone, every bus written *)
(* is on a play list, and no slot names a bus twice or mixes "out" with    *)
(* "aux-out", then in every period every note is mixed exactly once into   *)
(* each of its buses, with exactly its frames of the period, for every set *)
(* of notes, starts and lengths and every size of the buffers.             *)
THEOREM EveryNoteIsPlayed ==
  ASSUME OnTime, AllPlayed, OneKind, DistinctBuses
  PROVE  Spec => []SliceComplete
<1>1. Init => OnTimeInv /\ SliceInv
  BY OnTimeInit, SliceInit
<1>2. OnTimeInv /\ SliceInv /\ [Next]_vars => (OnTimeInv /\ SliceInv)'
  BY OnTimeNext, SliceNext
<1> QED
  BY <1>1, <1>2, CompleteAtSend, PTL DEF Spec

(* Steps outside the walk through the play lists: nothing is mixed yet.    *)
LEMMA TurnIdle ==
  ASSUME TurnInv, pc \in {"idle", "pop", "push"}, pc' # "play", mixed' = mixed
  PROVE  TurnInv'
<1>1. \A n \in Notes : \A k \in Keys : mixed[n][k] = <<>>
  BY DEF TurnInv, HadTurn
<1> QED
  BY <1>1 DEF TurnInv, AtBus

(* Walking the play lists.                                                 *)
LEMMA TurnWalk ==
  ASSUME TypeOK, TurnInv
  PROVE  /\ SelectBus => TurnInv'
         /\ NextClass => TurnInv'
         /\ BusDone => TurnInv'
         /\ Send => TurnInv'
<1>0. play_bus \in Nat \ {0} /\ qStatus \in Classes /\ Len(PlayList[qStatus]) \in Nat
  BY PlayListAssumption DEF TypeOK, ControlTypes
<1>1. ASSUME SelectBus PROVE TurnInv'
  <2>1. /\ pc = "select" /\ pc' = "play" /\ bus' = PlayList[qStatus][play_bus]
        /\ play_bus <= Len(PlayList[qStatus]) /\ play_bus' = play_bus + 1
        /\ qStatus' = qStatus /\ mixed' = mixed
    BY <1>1 DEF SelectBus, histVars
  <2>2. AtBus'
    BY <1>0, <2>1 DEF AtBus
  <2>3. \A k \in Keys : HadTurn(k) => HadTurn(k)'
    <3> SUFFICES ASSUME NEW k \in Keys, Played(k), k # Key' PROVE Played(k)'
      BY <2>1 DEF HadTurn
    <3>1. CASE Earlier(k[1], qStatus)
      BY <2>1, <3>1 DEF Played
    <3>2. CASE /\ k[1] = qStatus
               /\ \E i \in 1 .. Len(PlayList[k[1]]) :
                    i < play_bus /\ PlayList[k[1]][i] = k[2]
      <4>1. PICK i \in 1 .. Len(PlayList[k[1]]) : i < play_bus /\ PlayList[k[1]][i] = k[2]
        BY <3>2
      <4>2. i < play_bus + 1
        BY <1>0, <3>2, <4>1
      <4> QED
        BY <2>1, <3>2, <4>1, <4>2 DEF Played
    <3> QED
      BY <3>1, <3>2 DEF Played
  <2> QED
    BY <2>1, <2>2, <2>3 DEF TurnInv
<1>2. ASSUME NextClass PROVE TurnInv'
  <2>1. pc = "select" /\ mixed' = mixed
    BY <1>2 DEF NextClass, histVars
  <2>2. \/ qStatus = "TO_OUT" /\ pc' = "send"
        \/ qStatus = "TO_AUX" /\ pc' = "select" /\ qStatus' = "AUX_TO_AUX"
        \/ qStatus = "AUX_TO_AUX" /\ pc' = "select" /\ qStatus' = "TO_OUT"
    BY <1>0, <1>2, <2>1 DEF NextClass, Classes
  <2>3. \A k \in Keys : HadTurn(k) => HadTurn(k)'
    <3> SUFFICES ASSUME NEW k \in Keys, Played(k), pc' = "select" PROVE Played(k)'
      BY <2>1, <2>2 DEF HadTurn
    <3>1. k[1] = qStatus \/ Earlier(k[1], qStatus)
      BY DEF Played
    <3> QED
      BY <2>2, <3>1 DEF Played, Earlier
  <2> QED
    BY <2>1, <2>2, <2>3 DEF TurnInv, AtBus
<1>3. ASSUME BusDone PROVE TurnInv'
  <2>1. pc = "play" /\ pc' = "select" /\ UNCHANGED <<qStatus, play_bus, bus, mixed>>
    BY <1>3 DEF BusDone, histVars
  <2>2. \A k \in Keys : HadTurn(k) => HadTurn(k)'
    <3> SUFFICES ASSUME NEW k \in Keys, k = Key \/ Played(k) PROVE Played(k)'
      BY <2>1 DEF HadTurn
    <3>1. CASE k = Key
      <4>1. /\ play_bus - 1 \in 1 .. Len(PlayList[qStatus])
            /\ PlayList[qStatus][play_bus - 1] = bus /\ play_bus - 1 < play_bus
        BY <1>0, <2>1 DEF TurnInv, AtBus
      <4>2. k[1] = qStatus /\ k[2] = bus
        BY <3>1 DEF Key
      <4> QED
        BY <2>1, <4>1, <4>2 DEF Played
    <3>2. CASE Played(k)
      BY <2>1, <3>2 DEF Played
    <3> QED
      BY <3>1, <3>2
  <2> QED
    BY <2>1, <2>2 DEF TurnInv, AtBus
<1>4. ASSUME Send PROVE TurnInv'
  BY <1>4 DEF Send, TurnInv, AtBus
<1> QED
  BY <1>1, <1>2, <1>3, <1>4

(* The invariant is inductive.                                             *)
LEMMA TurnNext ==
  ASSUME OneKind, OnTimeInv, TurnInv, [Next]_vars
  PROVE  TurnInv'
<1>0. TypeOK
  BY DEF OnTimeInv
<1>1. CASE UNCHANGED vars
  <2>1. UNCHANGED <<pc, qStatus, play_bus, bus, mixed>>
    BY <1>1 DEF vars, ctlVars, histVars
  <2> QED
    BY <2>1 DEF TurnInv, AtBus, HadTurn, Played, Key
<1>2. CASE \E n \in Notes : ScheduleFails(n) \/ \E s \in Starts, d \in Durs : Schedule(n, s, d)
  <2>1. pc = "idle" /\ pc' = "idle" /\ mixed' = mixed
    BY <1>2 DEF ScheduleFails, Schedule, ctlVars
  <2> QED
    BY <2>1, TurnIdle
<1>3. CASE Flush
  BY <1>3, TurnIdle DEF Flush, ctlVars
<1>4. CASE Begin \/ HeapDone \/ PushNext \/ PushDone \/ \E e \in rtHeap : PopHeap(e)
  <2>1. pc \in {"idle", "pop", "push"} /\ pc' # "play" /\ mixed' = mixed
    BY <1>4 DEF Begin, HeapDone, PushNext, PushDone, PopHeap, histVars
  <2> QED
    BY <2>1, TurnIdle
<1>5. CASE ExecHead
  <2>1. /\ pc = "play" /\ pc' = "play" /\ UNCHANGED <<qStatus, play_bus, bus>>
    BY <1>5, ExecFacts
  <2>2. PICK n \in Notes, cs \in Nat : Exec(n, cs)
    BY <1>5, ExecFacts
  <2>3. PICK v : mixed' = [mixed EXCEPT ![n][Key] = v]
    <3>1. mixed' = [mixed EXCEPT ![n][Key] =
                      Append(mixed[n][Key], <<OutputOffset(cs), OutputOffset(cs) + ChunkSamps(n, cs)>>)]
      BY <2>2 DEF Exec
    <3> QED
      BY <3>1
  <2>4. PICK key : key = Key
    OBVIOUS
  <2>5. \A m \in Notes, k \in Keys : k # Key => mixed'[m][k] = mixed[m][k]
    BY <1>0, <2>3, <2>4 DEF TypeOK, HistoryTypes
  <2>6. AtBus' /\ \A k : HadTurn(k)' <=> HadTurn(k)
    BY <2>1 DEF TurnInv, AtBus, HadTurn, Played, Key
  <2>7. HadTurn(Key)
    BY <2>1 DEF HadTurn
  <2> QED
    BY <2>5, <2>6, <2>7 DEF TurnInv
<1> QED
  BY <1>0, <1>1, <1>2, <1>3, <1>4, <1>5, TurnWalk DEF Next, Traverse

(* A bus before one that has had its turn is played out.                   *)
LEMMA BeforePlayed ==
  ASSUME NoRepeats, TypeOK, TurnInv, NEW k \in Keys, NEW from \in Keys,
         Before(from, k), HadTurn(k), pc \in {"select", "play"}
  PROVE  Played(from)
<1>0. play_bus \in Nat \ {0} /\ qStatus \in Classes
  BY DEF TypeOK, ControlTypes
<1>1. from = <<from[1], from[2]>>
  BY DEF Keys
<1>2. CASE Earlier(from[1], k[1])
  <2>1. k[1] = qStatus \/ Earlier(k[1], qStatus)
    BY DEF HadTurn, Played, Key
  <2>2. Earlier(from[1], qStatus) /\ from[1] # qStatus
    BY <1>2, <2>1 DEF Earlier
  <2> QED
    BY <2>2 DEF Played, Key
<1>3. CASE from[1] = k[1] /\ Earlier(k[1], qStatus)
  <2>1. from[1] # qStatus
    BY <1>3 DEF Earlier
  <2> QED
    BY <1>3, <2>1 DEF Played, Key
<1>4. CASE from[1] = k[1] /\ k[1] = qStatus /\ ~Earlier(from[1], k[1]) /\ ~Earlier(k[1], qStatus)
  <2> DEFINE list == PlayList[qStatus]
  <2>1. Len(list) \in Nat
    BY <1>0, PlayListAssumption
  <2>2. PICK i \in 1 .. Len(list), j \in 1 .. Len(list) :
          i < j /\ list[i] = from[2] /\ list[j] = k[2]
    BY <1>4 DEF Before
  <2>3. \A a, b \in 1 .. Len(list) : list[a] = list[b] => a = b
    BY <1>0 DEF NoRepeats
  <2>4. j < play_bus
    <3>1. CASE pc = "play" /\ k = Key
      <4>1. play_bus - 1 \in 1 .. Len(list) /\ list[play_bus - 1] = k[2]
        BY <3>1 DEF TurnInv, AtBus, Key
      <4>2. j = play_bus - 1
        BY <2>2, <2>3, <4>1
      <4> QED
        BY <1>0, <4>2
    <3>2. CASE Played(k)
      <4>1. PICK a \in 1 .. Len(list) : a < play_bus /\ list[a] = k[2]
        BY <1>4, <3>2 DEF Played
      <4>2. j = a
        BY <2>2, <2>3, <4>1
      <4> QED
        BY <4>1, <4>2
    <3> QED
      BY <3>1, <3>2 DEF HadTurn
  <2>5. i < play_bus
    BY <1>0, <2>1, <2>2, <2>4
  <2>6. ASSUME pc = "play" PROVE from # Key
    <3>1. play_bus - 1 \in 1 .. Len(list) /\ list[play_bus - 1] = bus
      BY <2>6 DEF TurnInv, AtBus
    <3>2. i # play_bus - 1
      BY <1>0, <2>1, <2>2, <2>4
    <3>3. from[2] # bus
      BY <2>2, <2>3, <3>1, <3>2
    <3> QED
      BY <3>3 DEF Key
  <2> QED
    BY <1>4, <2>2, <2>5, <2>6 DEF Played
<1> QED
  BY <1>2, <1>3, <1>4 DEF Before, HadTurn, Played, Key

(* A note that sounds has been mixed into a bus that is played out.        *)
LEMMA PlayedIsMixed ==
  ASSUME OnTimeInv, SliceInv, NEW m \in Notes, NEW k \in KeysOf(m), Sounding(m),
         pc = "send" \/ (pc \in {"select", "play"} /\ Played(k))
  PROVE  mixed[m][k] # <<>>
<1>0. TypeOK /\ k \in Keys
  BY NoteFacts DEF OnTimeInv
<1>1. status[m] = "live" /\ startsamp[m] < BufEnd
  BY DEF Sounding
<1>2. ~Waiting(m)
  <2> SUFFICES ASSUME NEW e \in rtHeap, e.inst = m PROVE FALSE
    BY DEF Waiting
  <2>1. startsamp[m] = e.chunkStart /\ e.chunkStart >= BufEnd
    BY DEF SliceInv, WaitingNotes, OnTimeInv, HeapTimes
  <2> QED
    BY <1>0, <1>1, <2>1, NoteFacts
<1>3. ~Coming(m, k)
  BY DEF Coming
<1>4. <<SliceOf(m)>> # <<>>
  <2>1. \A slice : <<slice>> # <<>>
    OBVIOUS
  <2> QED
    BY <2>1
<1>5. CASE Queued(m, k)
  <2>1. PICK i \in 1 .. Len(rtQueue[k]) : rtQueue[k][i].inst = m
    BY <1>5 DEF Queued
  <2>2. Start(k, i) = BufEnd /\ BufEnd \in Nat
    BY <1>0, NoteFacts DEF OnTimeInv, QueueTimes, PlayedOut
  <2>3. Placed(m, k, BufEnd)
    BY <1>0, <2>1, <2>2 DEF SliceInv, QueuedNotes
  <2>4. mixed[m][k] = <<SliceOf(m)>>
    BY <2>2, <2>3 DEF Placed
  <2> QED
    BY <1>4, <2>4
<1>6. CASE ~Queued(m, k)
  <2>1. mixed[m][k] = <<SliceOf(m)>>
    BY <1>1, <1>2, <1>3, <1>6 DEF SliceInv, DoneNotes, Through
  <2> QED
    BY <1>4, <2>1
<1> QED
  BY <1>5, <1>6

(* If moreover no play list names a bus twice, and each puts a bus before  *)
(* those its readers write, then an instrument that reads an aux bus runs  *)
(* only when every instrument that writes this bus in this period has been *)
(* mixed into it.                                                          *)
THEOREM AuxIsReady ==
  ASSUME OnTime, AllPlayed, OneKind, DistinctBuses, NoRepeats, AuxOrdered
  PROVE  Spec => []AuxReady
<1>1. OnTimeInv /\ SliceInv /\ TurnInv => AuxReady
  <2> SUFFICES ASSUME OnTimeInv, SliceInv, TurnInv,
                      NEW n \in Notes, NEW m \in Notes, NEW k \in Keys,
                      NEW c \in {"TO_AUX", "AUX_TO_AUX"},
                      NEW i \in 1 .. Len(Slot[n].auxin),
                      mixed[n][k] # <<>>, Sounding(m),
                      <<c, Slot[n].auxin[i]>> \in KeysOf(m)
               PROVE  mixed[m][<<c, Slot[n].auxin[i]>>] # <<>>
    BY DEF AuxReady
  <2>0. TypeOK
    BY DEF OnTimeInv
  <2>1. PICK from \in KeysOf(m) : from = <<c, Slot[n].auxin[i]>>
    OBVIOUS
  <2>2. k \in KeysOf(n) /\ HadTurn(k)
    BY DEF SliceInv, NothingElse, TurnInv
  <2>3. Before(from, k) /\ from \in Keys
    BY <2>0, <2>1, <2>2, NoteFacts DEF AuxOrdered
  <2>4. pc = "send" \/ (pc \in {"select", "play"} /\ Played(from))
    BY <2>0, <2>2, <2>3, BeforePlayed DEF HadTurn
  <2>5. mixed[m][from] # <<>>
    BY <2>4, PlayedIsMixed
  <2> QED
    BY <2>1, <2>5
<1>2. Init => OnTimeInv /\ SliceInv /\ TurnInv
  BY OnTimeInit, SliceInit DEF Init, TurnInv, AtBus
<1>3. OnTimeInv /\ SliceInv /\ TurnInv /\ [Next]_vars => (OnTimeInv /\ SliceInv /\ TurnInv)'
  BY OnTimeNext, SliceNext, TurnNext
<1> QED
  BY <1>1, <1>2, <1>3, PTL DEF Spec

(* A slot writes one kind of bus.                                          *)
LEMMA OneOutputOneKind == OneOutput => OneKind
BY DEF OneOutput, OneKind, ClassOf

(* Such an instrument has one channel per queue, and addout() finds it.    *)
LEMMA Channels ==
  ASSUME OneOutput, DistinctBuses, NEW n \in Notes
  PROVE  /\ OutputChans(n) \in Nat \ {0}
         /\ \A k \in KeysOf(n) :
              /\ SrcChan(n, k[1], k[2]) \in 1 .. OutputChans(n)
              /\ QueuesOf(n)[SrcChan(n, k[1], k[2])] = k
         /\ \A i \in 1 .. OutputChans(n) :
              /\ QueuesOf(n)[i] \in KeysOf(n)
              /\ SrcChan(n, QueuesOf(n)[i][1], QueuesOf(n)[i][2]) = i
<1> DEFINE slot == Slot[n]
<1>1. slot.out \in Seq(Bus) /\ slot.auxout \in Seq(Bus)
  BY KeysProperties
<1>2. PICK c \in Classes, list \in Seq(Bus) :
        /\ QueuesOf(n) = On(c, list) /\ BusList(n, c) = list
        /\ OutputChans(n) = Len(list) /\ list # <<>>
  <2>1. \A s \in Seq(Bus) : s # <<>> => Len(s) \in Nat \ {0}
    BY EmptySeq
  <2>2. Len(<<>>) = 0
    OBVIOUS
  <2>3. CASE slot.out = <<>> /\ slot.auxout # <<>>
    <3>1. OutputChans(n) = Len(slot.auxout)
      BY <1>1, <2>1, <2>2, <2>3 DEF OutputChans
    <3>2. CASE slot.auxin = <<>>
      <4>1. ClassOf(slot) = "TO_AUX"
        BY <2>3, <3>2 DEF ClassOf
      <4>2. QueuesOf(n) = On("TO_AUX", slot.auxout) /\ BusList(n, "TO_AUX") = slot.auxout
        BY <4>1 DEF QueuesOf, BusList
      <4> QED
        BY <1>1, <2>3, <3>1, <4>2 DEF Classes
    <3>3. CASE slot.auxin # <<>>
      <4>1. ClassOf(slot) = "AUX_TO_AUX"
        BY <2>3, <3>3 DEF ClassOf
      <4>2. QueuesOf(n) = On("AUX_TO_AUX", slot.auxout) /\ BusList(n, "AUX_TO_AUX") = slot.auxout
        BY <4>1 DEF QueuesOf, BusList
      <4> QED
        BY <1>1, <2>3, <3>1, <4>2 DEF Classes
    <3> QED
      BY <3>2, <3>3
  <2>4. CASE slot.out # <<>> /\ slot.auxout = <<>>
    <3>1. OutputChans(n) = Len(slot.out)
      BY <1>1, <2>1, <2>2, <2>4 DEF OutputChans
    <3>2. ClassOf(slot) = "TO_OUT"
      BY <2>4 DEF ClassOf
    <3>3. QueuesOf(n) = On("TO_OUT", slot.out) /\ BusList(n, "TO_OUT") = slot.out
      BY <3>2 DEF QueuesOf, BusList
    <3> QED
      BY <1>1, <2>4, <3>1, <3>3 DEF Classes
  <2> QED
    BY <2>3, <2>4 DEF OneOutput
<1> HIDE DEF slot
<1>3. /\ Len(list) \in Nat \ {0} /\ Len(QueuesOf(n)) = Len(list)
      /\ \A i \in 1 .. Len(list) : QueuesOf(n)[i] = <<c, list[i]>>
  <2>1. Len(list) \in Nat \ {0}
    BY <1>2, EmptySeq
  <2>2. Len(On(c, list)) = Len(list) /\ \A i \in 1 .. Len(list) : On(c, list)[i] = <<c, list[i]>>
    BY <2>1 DEF On
  <2> QED
    BY <1>2, <2>1, <2>2
<1>4. \A i, j \in 1 .. Len(list) : list[i] = list[j] => i = j
  <2> SUFFICES ASSUME NEW i \in 1 .. Len(list), NEW j \in 1 .. Len(list), list[i] = list[j]
               PROVE  i = j
    OBVIOUS
  <2>1. QueuesOf(n)[i] = QueuesOf(n)[j]
    BY <1>3
  <2>2. i \in 1 .. Len(QueuesOf(n)) /\ j \in 1 .. Len(QueuesOf(n))
    BY <1>3
  <2> QED
    BY <2>1, <2>2 DEF DistinctBuses
<1>5. \A i \in 1 .. Len(list) : SrcChan(n, c, list[i]) = i
  <2> TAKE i \in 1 .. Len(list)
  <2>1. {j \in 1 .. Len(list) : list[j] = list[i]} = {i}
    BY <1>4
  <2>2. SrcChan(n, c, list[i]) = CHOOSE j \in {i} : \A l \in {i} : j <= l
    BY <1>2, <2>1 DEF SrcChan
  <2> QED
    BY <1>3, <2>2
<1>6. \A i \in 1 .. Len(list) : QueuesOf(n)[i][1] = c /\ QueuesOf(n)[i][2] = list[i]
  BY <1>3
<1> QED
  BY <1>2, <1>3, <1>5, <1>6 DEF KeysOf

(* All channels are out when all buses are mixed, and not before.          *)
LEMMA ChannelsOut ==
  ASSUME OneOutput, DistinctBuses, NEW n \in Notes, NEW M \in SUBSET KeysOf(n)
  PROVE  {SrcChan(n, k[1], k[2]) : k \in M} = 1 .. OutputChans(n) <=> M = KeysOf(n)
<1> DEFINE src(k) == SrcChan(n, k[1], k[2])
           N == OutputChans(n)
<1>1. /\ \A k \in KeysOf(n) : src(k) \in 1 .. N /\ QueuesOf(n)[src(k)] = k
      /\ \A i \in 1 .. N : QueuesOf(n)[i] \in KeysOf(n) /\ src(QueuesOf(n)[i]) = i
  BY Channels
<1> HIDE DEF src, N
<1>2. ASSUME {src(k) : k \in M} = 1 .. N PROVE M = KeysOf(n)
  <2> SUFFICES ASSUME NEW k \in KeysOf(n) PROVE k \in M
    OBVIOUS
  <2>1. PICK j \in M : src(j) = src(k)
    BY <1>1, <1>2
  <2>2. j = k
    BY <1>1, <2>1
  <2> QED
    BY <2>2
<1>3. ASSUME M = KeysOf(n) PROVE {src(k) : k \in M} = 1 .. N
  BY <1>1, <1>3
<1> QED
  BY <1>2, <1>3 DEF src, N

(* The frames of a period are those of the slice.                          *)
LEMMA FramesFacts ==
  ASSUME TypeOK, NEW n \in Notes, status[n] = "live"
  PROVE  /\ Sounding(n) =>
              /\ SliceOf(n)[2] - SliceOf(n)[1] \in Nat
              /\ FramesBefore(n, BufEnd) =
                   FramesBefore(n, bufStartSamp) + (SliceOf(n)[2] - SliceOf(n)[1])
         /\ ~Sounding(n) => FramesBefore(n, BufEnd) = FramesBefore(n, bufStartSamp)
         /\ FramesBefore(n, bufStartSamp) \in Nat
<1> DEFINE s == startsamp[n]
           e == EndOf(n)
<1>1. /\ s \in Int /\ nsamps[n] \in Nat /\ e = s + nsamps[n]
      /\ bufStartSamp \in Nat /\ RTBUFSAMPS \in Nat \ {0} /\ BufEnd = bufStartSamp + RTBUFSAMPS
  BY NoteFacts
<1>2. \A t \in Int : FramesBefore(n, t) =
        IF t <= s THEN 0 ELSE IF t >= e THEN nsamps[n] ELSE t - s
  BY <1>1 DEF FramesBefore
<1>3. /\ SliceOf(n)[1] = IF s < bufStartSamp THEN 0 ELSE s - bufStartSamp
      /\ SliceOf(n)[2] = (IF e < BufEnd THEN e ELSE BufEnd) - bufStartSamp
  BY SliceFacts
<1>4. Sounding(n) <=> s < BufEnd /\ (s >= bufStartSamp \/ e > bufStartSamp)
  BY DEF Sounding
<1> HIDE DEF s, e
<1> QED
  BY <1>1, <1>2, <1>3, <1>4

(* Before the period, during it and after it: what the steps of a walk     *)
(* leave alone.                                                            *)
LEMMA FramesSame ==
  ASSUME FramesInv,
         UNCHANGED <<bufStartSamp, status, startsamp, nsamps, cursamp, needs_to_run,
                     bufferWritten, mixed>>
  PROVE  FramesInv'
<1>1. \A n : \A t : FramesBefore(n, t)' = FramesBefore(n, t)
  BY DEF FramesBefore, EndOf
<1>2. BufEnd' = BufEnd /\ \A n : MixedKeys(n)' = MixedKeys(n)
  BY DEF BufEnd, MixedKeys
<1> QED
  BY <1>1, <1>2 DEF FramesInv

LEMMA FramesInit == Init => FramesInv
BY DEF Init, FramesInv

(* A note that is scheduled has run nothing, and starts no earlier than    *)
(* now; one that is gone is of no concern.                                 *)
LEMMA FramesHandlers ==
  ASSUME OnTime, OnTimeInv, SliceInv, FramesInv
  PROVE  /\ \A n \in Notes, s \in Starts, d \in Durs : Schedule(n, s, d) => FramesInv'
         /\ \A n \in Notes : ScheduleFails(n) => FramesInv'
         /\ Flush => FramesInv'
<1>0. TypeOK
  BY DEF OnTimeInv
<1>1. ASSUME NEW n \in Notes, NEW s \in Starts, NEW d \in Durs, Schedule(n, s, d)
      PROVE  FramesInv'
  <2> DEFINE first == s + elapsed + RTBUFSAMPS
  <2>1. /\ pc = "idle" /\ status[n] = "new"
        /\ startsamp' = [startsamp EXCEPT ![n] = first]
        /\ nsamps' = [nsamps EXCEPT ![n] = d]
        /\ status' = [status EXCEPT ![n] = "live"]
        /\ UNCHANGED <<bufStartSamp, cursamp, needs_to_run, bufferWritten, mixed>>
    BY <1>1 DEF Schedule, timeVars
  <2>2. first >= bufStartSamp /\ bufStartSamp \in Nat /\ first \in Int /\ d \in Nat
    BY TimesAssumption, BufsampsAssumption
       DEF OnTime, OnTimeInv, Clocks, TypeOK, ControlTypes
  <2> HIDE DEF first
  <2>3. /\ status'[n] = "live" /\ startsamp'[n] = first /\ nsamps'[n] = d
        /\ \A m \in Notes \ {n} :
             /\ status'[m] = status[m] /\ startsamp'[m] = startsamp[m]
             /\ nsamps'[m] = nsamps[m]
    BY <1>0, <2>1 DEF TypeOK, HistoryTypes
  <2>4. BufEnd' = BufEnd /\ \A m : MixedKeys(m)' = MixedKeys(m)
    BY <2>1 DEF BufEnd, MixedKeys
  <2>5. \A m \in Notes \ {n} : \A t : FramesBefore(m, t)' = FramesBefore(m, t)
    BY <2>3 DEF FramesBefore, EndOf
  <2>6. MixedKeys(n) = {}
    <3>1. \A k \in Keys : mixed[n][k] = <<>>
      BY <2>1 DEF SliceInv, NothingElse
    <3> QED
      BY <1>0, <3>1, NoteFacts DEF MixedKeys
  <2>7. FramesBefore(n, bufStartSamp)' = 0
    BY <2>1, <2>2, <2>3 DEF FramesBefore, EndOf
  <2>8. cursamp[n] = 0 /\ needs_to_run[n]
    BY <2>1 DEF FramesInv
  <2>9. ASSUME NEW m \in Notes \ {n}, status[m] = "live"
        PROVE  /\ needs_to_run'[m] <=> MixedKeys(m)' = {} \/ MixedKeys(m)' = KeysOf(m)
               /\ ~needs_to_run'[m] =>
                    bufferWritten'[m] = {SrcChan(m, k[1], k[2]) : k \in MixedKeys(m)'}
               /\ cursamp'[m] = (FramesBefore(m, IF MixedKeys(m) = {} THEN bufStartSamp
                                                                     ELSE BufEnd))'
    BY <2>1, <2>4, <2>5, <2>9 DEF FramesInv
  <2> QED
    BY <2>1, <2>3, <2>4, <2>6, <2>7, <2>8, <2>9 DEF FramesInv
<1>2. ASSUME NEW n \in Notes, ScheduleFails(n) PROVE FramesInv'
  <2>1. /\ status[n] = "new" /\ status' = [status EXCEPT ![n] = "lost"]
        /\ UNCHANGED <<bufStartSamp, startsamp, nsamps, cursamp, needs_to_run,
                       bufferWritten, mixed>>
    BY <1>2 DEF ScheduleFails, timeVars, instVars
  <2>2. status'[n] = "lost" /\ \A m \in Notes \ {n} : status'[m] = status[m]
    BY <1>0, <2>1 DEF TypeOK, HistoryTypes
  <2>3. \A m : \A t : FramesBefore(m, t)' = FramesBefore(m, t)
    BY <2>1 DEF FramesBefore, EndOf
  <2>4. BufEnd' = BufEnd /\ \A m : MixedKeys(m)' = MixedKeys(m)
    BY <2>1 DEF BufEnd, MixedKeys
  <2> QED
    BY <2>1, <2>2, <2>3, <2>4 DEF FramesInv
<1>3. ASSUME Flush PROVE FramesInv'
  <2>1. \A n \in Notes :
          /\ status'[n] # "live" /\ (status'[n] = "new" => status[n] = "new")
          /\ status[n] # "live" => cursamp'[n] = cursamp[n]
                                   /\ needs_to_run'[n] = needs_to_run[n]
    BY <1>3 DEF Flush
  <2> QED
    BY <2>1 DEF FramesInv
<1> QED
  BY <1>1, <1>2, <1>3

(* Mixing a note into one of its buses: the first time in a period it runs *)
(* and its frames are counted, the last time it is ready to run again.     *)
LEMMA FramesExec ==
  ASSUME OneOutput, DistinctBuses, OnTimeInv, SliceInv, FramesInv, ExecHead
  PROVE  FramesInv'
<1>0. TypeOK /\ OneKind
  BY OneOutputOneKind DEF OnTimeInv
<1>1. UNCHANGED <<bufStartSamp, status, startsamp, nsamps>>
  BY <1>0, ExecFacts
<1>2. PICK k \in Keys : k = Key
  BY <1>0, ExecFacts
<1>3. PICK n \in Notes, cs \in Nat :
        /\ n = rtQueue[k][1].inst /\ cs = rtQueue[k][1].chunkstart
        /\ cs >= bufStartSamp /\ cs < BufEnd /\ Exec(n, cs)
  BY <1>0, <1>2, ExecFacts
<1>4. 1 \in 1 .. Len(rtQueue[k])
  BY <1>0, <1>2, ExecFacts
<1>5. Placed(n, k, cs) /\ k \in KeysOf(n)
  BY <1>3, <1>4 DEF SliceInv, QueuedNotes, Start, OnTimeInv, Members
<1>6. /\ mixed[n][k] = <<>>
      /\ <<OutputOffset(cs), OutputOffset(cs) + ChunkSamps(n, cs)>> = SliceOf(n)
  BY <1>3, <1>5, HeadSlice
<1>7. Sounding(n) /\ status[n] = "live"
  BY <1>5 DEF Placed, Sounding
<1> DEFINE chunk == ChunkSamps(n, cs)
           was == MixedKeys(n)
           now == MixedKeys(n) \cup {k}
           src(j) == SrcChan(n, j[1], j[2])
           written == (IF needs_to_run[n] THEN {} ELSE bufferWritten[n]) \cup {src(k)}
<1>8. chunk \in Nat /\ FramesBefore(n, BufEnd) = FramesBefore(n, bufStartSamp) + chunk
  <2>1. chunk \in Int /\ OutputOffset(cs) \in Int
    BY <1>0, <1>3, NextProperties DEF OutputOffset, TypeOK, ControlTypes
  <2>2. SliceOf(n)[1] = OutputOffset(cs) /\ SliceOf(n)[2] = OutputOffset(cs) + chunk
    BY <1>6
  <2> HIDE DEF chunk
  <2>3. SliceOf(n)[2] - SliceOf(n)[1] = chunk
    BY <2>1, <2>2
  <2> QED
    BY <1>0, <1>7, <2>3, FramesFacts
<1>9. /\ cursamp' = [cursamp EXCEPT ![n] =
                       IF needs_to_run[n] /\ chunk > 0 THEN @ + chunk ELSE @]
      /\ bufferWritten' = [bufferWritten EXCEPT ![n] = written]
      /\ needs_to_run' = [needs_to_run EXCEPT ![n] = (written = 1 .. OutputChans(n))]
  BY <1>2, <1>3 DEF Exec, Key
<1>10. PICK new : mixed' = [mixed EXCEPT ![n][k] = new] /\ new # <<>>
  <2>1. \A v : Append(<<>>, v) # <<>>
    OBVIOUS
  <2>2. PICK slice : mixed' = [mixed EXCEPT ![n][k] = Append(@, slice)]
    BY <1>2, <1>3 DEF Exec
  <2> QED
    BY <1>6, <2>1, <2>2
<1>11. was \subseteq KeysOf(n) /\ k \notin was /\ now \subseteq KeysOf(n) /\ now # {}
  BY <1>5, <1>6 DEF MixedKeys
<1>12. /\ MixedKeys(n)' = now
       /\ \A m \in Notes \ {n} : MixedKeys(m)' = MixedKeys(m)
  <2>1. mixed \in [Notes -> [Keys -> Seq(Int \X Int)]]
    BY <1>0 DEF TypeOK, HistoryTypes
  <2>2. /\ mixed'[n][k] = new
        /\ \A m \in Notes, j \in Keys : m # n \/ j # k => mixed'[m][j] = mixed[m][j]
    BY <1>10, <2>1
  <2>3. \A m \in Notes : KeysOf(m) \subseteq Keys
    BY <1>0, NoteFacts
  <2> QED
    BY <1>5, <1>10, <2>2, <2>3 DEF MixedKeys
<1>13. /\ BufEnd' = BufEnd /\ \A m, t : FramesBefore(m, t)' = FramesBefore(m, t)
  BY <1>1 DEF BufEnd, FramesBefore, EndOf
<1>14. /\ cursamp \in [Notes -> Nat] /\ needs_to_run \in [Notes -> BOOLEAN]
       /\ DOMAIN bufferWritten = Notes
  BY <1>0 DEF TypeOK, InstTypes
<1> HIDE DEF chunk, was, now
<1>15. ASSUME NEW m \in Notes \ {n}
       PROVE  /\ cursamp'[m] = cursamp[m] /\ bufferWritten'[m] = bufferWritten[m]
              /\ needs_to_run'[m] = needs_to_run[m]
  BY <1>9, <1>14
<1>16. /\ cursamp'[n] = IF needs_to_run[n] /\ chunk > 0 THEN cursamp[n] + chunk ELSE cursamp[n]
       /\ bufferWritten'[n] = written
       /\ needs_to_run'[n] = (written = 1 .. OutputChans(n))
  BY <1>9, <1>14
<1>17. /\ needs_to_run[n] <=> was = {} \/ was = KeysOf(n)
       /\ ~needs_to_run[n] => bufferWritten[n] = {src(j) : j \in was}
       /\ cursamp[n] = FramesBefore(n, IF was = {} THEN bufStartSamp ELSE BufEnd)
  BY <1>7 DEF FramesInv, was
<1>18. written = {src(j) : j \in now}
  <2>1. CASE needs_to_run[n]
    <3>1. was = {}
      BY <1>5, <1>11, <1>17, <2>1
    <3> QED
      BY <2>1, <3>1 DEF now, was
  <2>2. CASE ~needs_to_run[n]
    BY <1>17, <2>2 DEF now, was
  <2> QED
    BY <2>1, <2>2
<1>19. needs_to_run'[n] <=> now = KeysOf(n)
  BY <1>11, <1>16, <1>18, ChannelsOut
<1>20. cursamp'[n] = FramesBefore(n, BufEnd)
  <2>1. CASE needs_to_run[n]
    <3>1. was = {}
      BY <1>5, <1>11, <1>17, <2>1
    <3>2. cursamp[n] = FramesBefore(n, bufStartSamp) /\ cursamp[n] \in Nat
      BY <1>14, <1>17, <3>1
    <3> QED
      BY <1>8, <1>16, <2>1, <3>2
  <2>2. CASE ~needs_to_run[n]
    BY <1>16, <1>17, <2>2
  <2> QED
    BY <2>1, <2>2
<1> HIDE DEF written
<1>21. ASSUME NEW m \in Notes, status[m] = "new"
       PROVE  cursamp'[m] = 0 /\ needs_to_run'[m]
  BY <1>7, <1>15, <1>21 DEF FramesInv
<1>22. ASSUME NEW m \in Notes, status[m] = "live"
       PROVE  /\ needs_to_run'[m] <=> MixedKeys(m)' = {} \/ MixedKeys(m)' = KeysOf(m)
              /\ ~needs_to_run'[m] =>
                   bufferWritten'[m] = {SrcChan(m, j[1], j[2]) : j \in MixedKeys(m)'}
              /\ cursamp'[m] = FramesBefore(m, IF MixedKeys(m)' = {} THEN bufStartSamp
                                                                     ELSE BufEnd)
  <2>1. CASE m = n
    BY <1>11, <1>12, <1>16, <1>18, <1>19, <1>20, <2>1
  <2>2. CASE m # n
    BY <1>12, <1>15, <1>22, <2>2 DEF FramesInv
  <2> QED
    BY <2>1, <2>2
<1> QED
  BY <1>1, <1>13, <1>21, <1>22 DEF FramesInv

(* When a period is sent each note has been mixed into all of its buses or *)
(* does not sound in it: the frames up to its end have been run.           *)
LEMMA FramesSend ==
  ASSUME OneOutput, DistinctBuses, OnTimeInv, SliceInv, FramesInv, Send
  PROVE  FramesInv'
<1>0. TypeOK
  BY DEF OnTimeInv
<1>1. /\ pc = "send" /\ bufStartSamp' = BufEnd
      /\ \A n \in Notes : \A k \in Keys : mixed'[n][k] = <<>>
      /\ UNCHANGED <<status, startsamp, nsamps, cursamp, needs_to_run, bufferWritten>>
  BY DEF Send, instVars, BufEnd
<1>2. \A n \in Notes : MixedKeys(n)' = {}
  BY <1>0, <1>1, NoteFacts DEF MixedKeys
<1>3. \A n, t : FramesBefore(n, t)' = FramesBefore(n, t)
  BY <1>1 DEF FramesBefore, EndOf
<1>4. ASSUME NEW n \in Notes, status[n] = "live"
      PROVE  needs_to_run[n] /\ cursamp[n] = FramesBefore(n, BufEnd)
  <2>1. \A k \in KeysOf(n) :
          mixed[n][k] = IF Sounding(n) THEN <<SliceOf(n)>> ELSE <<>>
    BY <1>0, <1>1, CompleteAtSend, NoteFacts DEF SliceComplete, OnTimeInv, NoFault
  <2>2. CASE Sounding(n)
    <3>1. \A slice : <<slice>> # <<>>
      OBVIOUS
    <3>2. MixedKeys(n) = KeysOf(n)
      BY <2>1, <2>2, <3>1 DEF MixedKeys
    <3>3. KeysOf(n) # {}
      BY Channels
    <3> QED
      BY <1>4, <3>2, <3>3 DEF FramesInv
  <2>3. CASE ~Sounding(n)
    <3>1. MixedKeys(n) = {}
      BY <2>1, <2>3 DEF MixedKeys
    <3> QED
      BY <1>0, <1>4, <2>3, <3>1, FramesFacts DEF FramesInv
  <2> QED
    BY <2>2, <2>3
<1>5. \A n \in Notes : status[n] = "new" => cursamp[n] = 0 /\ needs_to_run[n]
  BY DEF FramesInv
<1> QED
  BY <1>1, <1>2, <1>3, <1>4, <1>5 DEF FramesInv

(* The invariant is inductive.                                             *)
LEMMA FramesNext ==
  ASSUME OnTime, OneOutput, DistinctBuses
  PROVE  OnTimeInv /\ SliceInv /\ FramesInv /\ [Next]_vars => FramesInv'
<1> SUFFICES ASSUME OnTimeInv, SliceInv, FramesInv, [Next]_vars PROVE FramesInv'
  OBVIOUS
<1>1. CASE UNCHANGED vars
  BY <1>1, FramesSame DEF vars, timeVars, instVars, histVars
<1>2. CASE \/ Begin \/ HeapDone \/ PushNext \/ PushDone \/ SelectBus \/ NextClass \/ BusDone
           \/ \E e \in rtHeap : PopHeap(e)
  <2>1. UNCHANGED <<timeVars, instVars, histVars>>
    BY <1>2 DEF Begin, HeapDone, PushNext, PushDone, SelectBus, NextClass, BusDone, PopHeap
  <2> QED
    BY <2>1, FramesSame DEF timeVars, instVars, histVars
<1>3. CASE Next
  BY <1>2, <1>3, FramesHandlers, FramesExec, FramesSend DEF Next, Traverse
<1> QED
  BY <1>1, <1>3

(* If no score schedules a note for a time already gone, every bus written *)
(* is on a play list, and every slot writes buses of one kind, each once,  *)
(* then between periods every live note has run exactly its frames before  *)
(* now: run() is called once per period, however many buses it is mixed    *)
(* into and however many notes share them.                                 *)
THEOREM EveryFrameIsRun ==
  ASSUME OnTime, AllPlayed, OneOutput, DistinctBuses
  PROVE  Spec => []FramesRun
<1>0. OneKind
  BY OneOutputOneKind
<1>1. OnTimeInv /\ SliceInv /\ FramesInv => FramesRun
  <2> SUFFICES ASSUME OnTimeInv, SliceInv, FramesInv, pc = "idle",
                      NEW n \in Notes, status[n] = "live"
               PROVE  cursamp[n] = FramesBefore(n, bufStartSamp)
    BY DEF FramesRun
  <2>1. KeysOf(n) \subseteq Keys
    BY NoteFacts DEF OnTimeInv
  <2>2. MixedKeys(n) = {}
    BY <2>1 DEF MixedKeys, SliceInv, NothingElse
  <2> QED
    BY <2>2 DEF FramesInv
<1>2. Init => OnTimeInv /\ SliceInv /\ FramesInv
  BY OnTimeInit, SliceInit, FramesInit
<1>3. /\ OnTimeInv /\ SliceInv /\ FramesInv /\ [Next]_vars
      => (OnTimeInv /\ SliceInv /\ FramesInv)'
  BY <1>0, OnTimeNext, SliceNext, FramesNext
<1> QED
  BY <1>1, <1>2, <1>3, PTL DEF Spec
=============================================================================

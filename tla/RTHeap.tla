------------------------------- MODULE RTHeap -------------------------------
(***************************************************************************)
(* Class heap (heap/heap.cpp): a binary heap of linked heapslots with an   *)
(* explicit queue `leaves` of the empty slots the next insertions use.     *)
(* Slots are numbered as the code fills them, the right child first: the   *)
(* children of slot i are 2i (right) and 2i+1 (left).  insert() and        *)
(* deleteMin() run under a lock; their loops are cut into iterations, and  *)
(* pc says which loop is running.                                          *)
(***************************************************************************)
EXTENDS Integers, Sequences

CONSTANTS Insts, Starts, Maxs, Cap, None

ASSUME StartsAssumption == Starts \subseteq Nat /\ Maxs \subseteq Nat
ASSUME CapAssumption == Cap \in Nat \ {0}
ASSUME NoneAssumption == None \notin Insts

Slots == 1 .. 2 * Cap + 1
Parent(i) == i \div 2
Right(i) == 2 * i
Left(i) == 2 * i + 1

Item(inst, start) == [inst |-> inst, chunkStart |-> start]
Empty == Item(None, 0)

VARIABLES
  slot,             \* slot[i]: inst and chunkStart of a heapslot
  kids,             \* slots whose left and right are not NULL
  leaves,           \* the queue of slots for insertion
  bot,              \* the slot filled last (0 is NULL)
  size,
  pc,               \* "idle", "up" or "down"
  cur,              \* tempHeapElt
  sift,             \* the flag of deleteMin()'s loop
  ret               \* what the last deleteMin() returned

vars == <<slot, kids, leaves, bot, size, pc, cur, sift, ret>>

Init ==
  /\ slot = [i \in Slots |-> Empty]
  /\ kids = {} /\ leaves = <<>> /\ bot = 0 /\ size = 0
  /\ pc = "idle" /\ cur = 1 /\ sift = FALSE
  /\ ret = Empty

Occupied(i) == slot[i].inst # None
Held == {slot[i].inst : i \in Slots} \ {None}

(* Mutant: one half of the exchange. *)
Overwrite(s, i, j) == [s EXCEPT ![i] = s[j]]
Swap(s, i, j) == [s EXCEPT ![i] = s[j], ![j] = s[i]]

(* An empty heap starts over with one leaf, the new top. *)
OldLeaves == IF size = 0 THEN <<1>> ELSE leaves
OldKids   == IF size = 0 THEN {} ELSE kids

(* Mutant: the left child first. *)
LeftFirst(new) == <<Left(new), Right(new)>>
NewLeaves(new) == <<Right(new), Left(new)>>

(* insert() up to its loop: the first leaf takes the instrument and gets   *)
(* two children, which become the last leaves.                             *)
Insert(inst, start) ==
  /\ pc = "idle"
  /\ inst \notin Held                \* an instrument is scheduled once
  /\ size < Cap                      \* bound
  /\ LET new == Head(OldLeaves)
     IN  /\ slot' = [slot EXCEPT ![new] = Item(inst, start)]
         /\ kids' = OldKids \cup {new}
         /\ leaves' = Tail(OldLeaves) \o NewLeaves(new)
         /\ bot' = new /\ cur' = new
  /\ size' = size + 1
  /\ pc' = "up"
  /\ UNCHANGED <<sift, ret>>

(* Mutant: the slot moves above its equals and those before it. *)
SiftsUpAlways == cur # 1 /\ slot[Parent(cur)].chunkStart < slot[cur].chunkStart
(* while (parent && parent->chunkStart > chunkStart) swap *)
SiftsUp == cur # 1 /\ slot[Parent(cur)].chunkStart > slot[cur].chunkStart
SiftUp ==
  /\ pc = "up"
  /\ IF SiftsUp
     THEN /\ slot' = Swap(slot, cur, Parent(cur))
          /\ cur' = Parent(cur)
          /\ pc' = pc
     ELSE pc' = "idle" /\ UNCHANGED <<slot, cur>>
  /\ UNCHANGED <<kids, leaves, bot, size, sift, ret>>

(* deleteMin() with nothing to return. *)
Refuse(max) ==
  /\ pc = "idle"
  /\ size = 0 \/ slot[1].chunkStart >= max
  /\ ret' = IF size = 0 THEN Empty ELSE Item(None, slot[1].chunkStart)
  /\ UNCHANGED <<slot, kids, leaves, bot, size, pc, cur, sift>>

(* deleteMin() up to its loop: the contents of bot move to the top, bot    *)
(* becomes the first leaf and its children, the last leaves, go.           *)
DeleteMin(max) ==
  /\ pc = "idle"
  /\ size # 0 /\ slot[1].chunkStart < max
  /\ ret' = slot[1]
  /\ slot' = [slot EXCEPT ![1] = slot[bot], ![bot] = Empty]
  /\ kids' = kids \ {bot}
  /\ LET gone == IF size > 1 THEN 2 ELSE 1
         left == SubSeq(leaves, 1, Len(leaves) - gone)
     IN  /\ leaves' = <<bot>> \o left
         /\ bot' = Parent(left[Len(left)])
  /\ size' = size - 1
  /\ cur' = 1 /\ sift' = TRUE
  /\ pc' = "down"

(* The part of an iteration for a slot with one occupied child, and the    *)
(* part for a slot with two; each yields the slots, tempHeapElt and sift.  *)
Step(s, c, g) == [slot |-> s, cur |-> c, sift |-> g]
(* Mutant: tempHeapElt does not follow the instrument. *)
SinkToStays(s, c, child) ==
  IF s[child].chunkStart < s[c].chunkStart THEN Step(Swap(s, c, child), c, TRUE)
                                           ELSE Step(s, c, FALSE)
SinkTo(s, c, child) ==
  IF s[child].chunkStart < s[c].chunkStart THEN Step(Swap(s, c, child), child, TRUE)
                                           ELSE Step(s, c, FALSE)
OneChild(s, c) ==
  IF s[Left(c)].inst = None THEN SinkTo(s, c, Right(c))
  ELSE IF s[Right(c)].inst = None THEN SinkTo(s, c, Left(c))
  ELSE Step(s, c, TRUE)
(* Mutant: the children are compared whether or not they are occupied. *)
TwoChildrenUnchecked(t) ==
  SinkTo(t.slot, t.cur,
         IF t.slot[Left(t.cur)].chunkStart < t.slot[Right(t.cur)].chunkStart
         THEN Left(t.cur) ELSE Right(t.cur))
TwoChildren(t) ==
  LET l == t.slot[Left(t.cur)]
      r == t.slot[Right(t.cur)]
  IN  IF l.inst = None \/ r.inst = None THEN t
      ELSE SinkTo(t.slot, t.cur,
                  IF l.chunkStart < r.chunkStart THEN Left(t.cur) ELSE Right(t.cur))

SiftsDown ==
  /\ Occupied(cur)
  /\ Occupied(Left(cur)) \/ Occupied(Right(cur))
  /\ sift
SiftDown ==
  /\ pc = "down"
  /\ IF SiftsDown
     THEN LET t == TwoChildren(OneChild(slot, cur))
          IN  /\ slot' = t.slot /\ cur' = t.cur /\ sift' = t.sift
              /\ pc' = pc
     ELSE pc' = "idle" /\ UNCHANGED <<slot, cur, sift>>
  /\ UNCHANGED <<kids, leaves, bot, size, ret>>

Next ==
  \/ \E i \in Insts, s \in Starts : Insert(i, s)
  \/ SiftUp
  \/ \E m \in Maxs : Refuse(m) \/ DeleteMin(m)
  \/ SiftDown

Spec == Init /\ [][Next]_vars

(***************************************************************************)
(* Properties.                                                             *)
(***************************************************************************)
TypeOK ==
  /\ slot \in [Slots -> [inst : Insts \cup {None}, chunkStart : Nat]]
  /\ kids \subseteq Slots
  /\ leaves \in Seq(Slots)
  /\ bot \in 0 .. 2 * Cap + 1 /\ size \in 0 .. Cap
  /\ pc \in {"idle", "up", "down"}
  /\ cur \in Slots /\ sift \in BOOLEAN
  /\ ret \in [inst : Insts \cup {None}, chunkStart : Nat]

(* The instruments fill the first slots without a gap, and exactly these   *)
(* slots have children: the loop of deleteMin() follows no NULL pointer.   *)
Shape ==
  /\ \A i \in Slots : Occupied(i) <=> i <= size
  /\ kids = 1 .. size

(* The leaves are the children of the filled slots, in filling order, so   *)
(* that the next insertion keeps the shape and the last two leaves are the *)
(* children of bot.                                                        *)
Frontier ==
  size > 0 => /\ leaves = [i \in 1 .. size + 1 |-> size + i]
              /\ bot = size

(* Outside of a loop no slot starts later than its children. *)
Ordered(i) == slot[Parent(i)].chunkStart <= slot[i].chunkStart
HeapOrder == pc = "idle" => \A i \in 2 .. size : Ordered(i)

(* What makes these three inductive, for the proofs.  In insert()'s loop    *)
(* only cur may start before its parent, in deleteMin()'s only after its   *)
(* children; in both the parent of cur starts no later than its children.  *)
Bypassed ==
  cur # 1 => \A i \in 2 .. size :
    Parent(i) = cur => slot[Parent(cur)].chunkStart <= slot[i].chunkStart
Rising ==
  pc = "up" => /\ cur \in 1 .. size
               /\ \A i \in 2 .. size : i # cur => Ordered(i)
               /\ Bypassed
Sinking ==
  pc = "down" => /\ size > 0 => cur \in 1 .. size
                 /\ \A i \in 2 .. size : Parent(i) # cur \/ ~sift => Ordered(i)
                 /\ Bypassed
Distinct == \A i, j \in 1 .. size : slot[i].inst = slot[j].inst => i = j

IInv == TypeOK /\ Shape /\ Frontier /\ HeapOrder /\ Rising /\ Sinking /\ Distinct

(* The heap implements the priority queue: it loses, invents and doubles   *)
(* no instrument, and deleteMin() returns one of least start.              *)
Contents == {slot[i] : i \in {j \in Slots : Occupied(j)}}
Abstract == INSTANCE PrioQueue WITH items <- Contents
PrioQueueSpec == Abstract!Spec

(* Every iteration of deleteMin()'s loop takes the instrument down the     *)
(* heap, or is the last: the loop ends after at most as many iterations as *)
(* there are levels.                                                       *)
Descends == [][pc = "down" /\ pc' = "down" => cur' > cur \/ ~sift']_vars
=============================================================================

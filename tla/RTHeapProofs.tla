---------------------------- MODULE RTHeapProofs ----------------------------
(***************************************************************************)
(* Theorems of RTHeap, for heaps of any size, any instruments and any      *)
(* start times: its shape, its order, and that it implements PrioQueue.    *)
(***************************************************************************)
EXTENDS RTHeap, WellFoundedInduction, SequenceTheorems, TLAPS

(* A set of natural numbers has a least one.                               *)
LEMMA LeastNatural ==
  ASSUME NEW T \in SUBSET Nat, T # {}
  PROVE  \E m \in T : \A k \in T : m <= k
<1> DEFINE R == {p \in Nat \X Nat : p[1] < p[2]}
<1>1. IsWellFoundedOn(R, Nat)
  BY NatLessThanWellFounded DEF OpToRel
<1> HIDE DEF R
<1>2. PICK m \in T : \A k \in T : <<k, m>> \notin R
  BY <1>1, WFMin
<1>3. ASSUME NEW k \in T
      PROVE  m <= k
  <2>1. ~ (k < m)
    BY <1>2 DEF R
  <2> QED
    BY <2>1
<1> QED
  BY <1>3

USE CapAssumption, StartsAssumption, NoneAssumption

(* A slot is one of the children of its parent, which was filled before.   *)
LEMMA Parents ==
  ASSUME NEW i \in Nat, i >= 2
  PROVE  /\ Parent(i) \in Nat /\ 1 <= Parent(i) /\ Parent(i) < i
         /\ i = Right(Parent(i)) \/ i = Left(Parent(i))
BY DEF Parent, Right, Left

LEMMA Children ==
  ASSUME NEW i \in Nat
  PROVE  /\ Right(i) = 2 * i /\ Left(i) = 2 * i + 1
         /\ Parent(Right(i)) = i /\ Parent(Left(i)) = i
BY DEF Parent, Right, Left

(***************************************************************************)
(* Exchanging two occupied slots.                                          *)
(***************************************************************************)
Cells == [inst : Insts \cup {None}, chunkStart : Nat]

LEMMA Swapped ==
  ASSUME NEW s \in [Slots -> Cells], NEW i \in Slots, NEW j \in Slots, i # j
  PROVE  /\ Swap(s, i, j) \in [Slots -> Cells]
         /\ Swap(s, i, j)[i] = s[j] /\ Swap(s, i, j)[j] = s[i]
         /\ \A k \in Slots \ {i, j} : Swap(s, i, j)[k] = s[k]
BY DEF Swap

(* It moves instruments, and changes neither which slots are filled nor    *)
(* what the heap holds.                                                    *)
LEMMA SwapKeeps ==
  ASSUME IInv, NEW i \in 1 .. size, NEW j \in 1 .. size, i # j,
         slot' = Swap(slot, i, j), size' = size
  PROVE  /\ slot' \in [Slots -> Cells]
         /\ \A k \in Slots : Occupied(k)' <=> k <= size
         /\ Distinct'
         /\ Contents' = Contents
<1>1. /\ slot \in [Slots -> Cells] /\ i \in Slots /\ j \in Slots /\ 1 .. size \subseteq Slots
      /\ \A k \in Slots : slot[k].inst # None <=> k <= size
      /\ \A k, l \in 1 .. size : slot[k].inst = slot[l].inst => k = l
      /\ i <= size /\ j <= size
  BY DEF IInv, TypeOK, Shape, Occupied, Distinct, Slots, Cells
<1>2. /\ slot' \in [Slots -> Cells] /\ slot'[i] = slot[j] /\ slot'[j] = slot[i]
      /\ \A k \in Slots \ {i, j} : slot'[k] = slot[k]
  BY <1>1, Swapped
<1>3. \A k \in Slots : Occupied(k)' <=> k <= size
  BY <1>1, <1>2 DEF Occupied
<1>4. Distinct'
  BY <1>1, <1>2 DEF Distinct
<1>5. Contents' \subseteq Contents
  BY <1>1, <1>2 DEF Contents, Occupied
<1>6. Contents \subseteq Contents'
  BY <1>1, <1>2 DEF Contents, Occupied
<1> QED
  BY <1>2, <1>3, <1>4, <1>5, <1>6

(***************************************************************************)
(* The invariant.                                                          *)
(***************************************************************************)
LEMMA InitIInv == Init => IInv
<1> SUFFICES ASSUME Init
             PROVE  IInv
  OBVIOUS
<1>1. Empty \in Cells /\ Slots \subseteq Nat /\ 1 \in Slots
  BY DEF Empty, Item, Cells, Slots
<1>2. TypeOK
  <2>1. slot \in [Slots -> Cells] /\ ret \in Cells
    BY <1>1 DEF Init
  <2>2. leaves \in Seq(Slots) /\ bot \in 0 .. 2 * Cap + 1 /\ size \in 0 .. Cap
    BY DEF Init
  <2>3. pc \in {"idle", "up", "down"} /\ sift \in BOOLEAN /\ kids \subseteq Slots
    BY DEF Init
  <2>4. cur \in Slots
    BY <1>1 DEF Init
  <2> QED
    BY <2>1, <2>2, <2>3, <2>4, Zenon DEF TypeOK, Cells
<1>3. Shape
  BY <1>1 DEF Init, Shape, Occupied, Empty, Item, Slots
<1> QED
  BY <1>2, <1>3 DEF Init, IInv, Frontier, HeapOrder, Rising, Sinking, Distinct

(* insert() takes the next slot and leaves its children at the end.        *)
LEMMA LeavesOfInsert ==
  ASSUME IInv, size < Cap
  PROVE  LET new == Head(OldLeaves)
         IN  /\ new = size + 1
             /\ OldKids = 1 .. size
             /\ Tail(OldLeaves) \o NewLeaves(new)
                  = [i \in 1 .. size + 2 |-> size + 1 + i]
             /\ Tail(OldLeaves) \o NewLeaves(new) \in Seq(Slots)
<1>1. size \in Nat /\ kids = 1 .. size
  BY DEF IInv, TypeOK, Shape
<1>2. OldLeaves = [i \in 1 .. size + 1 |-> size + i]
  <2>1. CASE size = 0
    <3>1. OldLeaves = <<1>>
      BY <2>1 DEF OldLeaves
    <3>2. <<1>> \in Seq(Nat) /\ Len(<<1>>) = 1 /\ <<1>>[1] = 1
      OBVIOUS
    <3>3. [i \in 1 .. 1 |-> i] \in Seq(Nat) /\ Len([i \in 1 .. 1 |-> i]) = 1
      OBVIOUS
    <3>4. <<1>> = [i \in 1 .. 1 |-> i]
      BY <3>2, <3>3, SeqEqual
    <3> QED
      BY <2>1, <3>1, <3>4
  <2>2. CASE size # 0
    BY <1>1, <2>2 DEF IInv, Frontier, OldLeaves
  <2> QED
    BY <2>1, <2>2
<1> DEFINE old == [i \in 1 .. size + 1 |-> size + i]
           new == size + 1
           two == <<Right(new), Left(new)>>
           all == [i \in 1 .. size + 2 |-> size + 1 + i]
<1>3. old \in Seq(Nat) /\ Len(old) = size + 1 /\ old # <<>>
  BY <1>1
<1>4. Head(old) = new
  BY <1>1, <1>3
<1>5. /\ Tail(old) \in Seq(Nat) /\ Len(Tail(old)) = size
      /\ \A i \in 1 .. size : Tail(old)[i] = size + i + 1
  BY <1>1, <1>3, HeadTailProperties
<1>6. /\ two \in Seq(Nat) /\ Len(two) = 2
      /\ two[1] = 2 * size + 2 /\ two[2] = 2 * size + 3
  BY <1>1 DEF Right, Left
<1>7. /\ all \in Seq(Nat) /\ Len(all) = size + 2
      /\ \A i \in 1 .. size + 2 : all[i] = size + 1 + i
  BY <1>1
<1> DEFINE rest == Tail(old)
<1> HIDE DEF rest, two, all, old
<1>8. /\ rest \o two \in Seq(Nat) /\ Len(rest \o two) = size + 2
      /\ \A i \in 1 .. size + 2 : (rest \o two)[i] = size + 1 + i
  <2>1. /\ rest \o two \in Seq(Nat) /\ Len(rest \o two) = Len(rest) + Len(two)
        /\ \A i \in 1 .. Len(rest) + Len(two) : (rest \o two)[i] =
             IF i <= Len(rest) THEN rest[i] ELSE two[i - Len(rest)]
    BY <1>5, <1>6, ConcatProperties, Zenon DEF rest
  <2>2. Len(rest \o two) = size + 2
    BY <1>1, <1>5, <1>6, <2>1 DEF rest
  <2>3. ASSUME NEW i \in 1 .. size + 2
        PROVE  (rest \o two)[i] = size + 1 + i
    <3>1. (rest \o two)[i] = IF i <= size THEN rest[i] ELSE two[i - size]
      <4>1. Len(rest) = size /\ Len(two) = 2
        BY <1>5, <1>6 DEF rest
      <4> QED
        BY <2>1, <4>1, Zenon
    <3>2. CASE i <= size
      BY <1>1, <1>5, <3>1, <3>2 DEF rest
    <3>3. CASE i = size + 1
      BY <1>1, <1>6, <3>1, <3>3
    <3>4. CASE i = size + 2
      BY <1>1, <1>6, <3>1, <3>4
    <3>5. i <= size \/ i = size + 1 \/ i = size + 2
      BY <1>1
    <3> QED
      BY <3>2, <3>3, <3>4, <3>5, Zenon DEF new
  <2> QED
    BY <2>1, <2>2, <2>3
<1>9. rest \o two = all
  BY <1>7, <1>8, SeqEqual
<1>10. all \in Seq(Slots)
  <2>1. \A i \in 1 .. size + 2 : size + 1 + i \in Slots
    BY <1>1 DEF Slots, IInv, TypeOK
  <2> QED
    BY <1>1, <2>1 DEF all
<1>11. OldLeaves = old /\ Head(OldLeaves) = new /\ Tail(OldLeaves) = rest
  BY <1>2, <1>4 DEF old, rest
<1>12. NewLeaves(new) = two
  BY DEF NewLeaves, two
<1>13. OldKids = 1 .. size
  BY <1>1 DEF OldKids
<1> HIDE DEF new
<1> QED
  BY <1>9, <1>10, <1>11, <1>12, <1>13, Zenon DEF new, all

(* deleteMin() gives back the last filled slot as the first leaf.          *)
LEMMA LeavesOfDelete ==
  ASSUME IInv, size # 0
  PROVE  LET gone == IF size > 1 THEN 2 ELSE 1
             left == SubSeq(leaves, 1, Len(leaves) - gone)
         IN  /\ <<bot>> \o left \in Seq(Slots)
             /\ Parent(left[Len(left)]) \in 0 .. 2 * Cap + 1
             /\ size > 1 => /\ <<bot>> \o left = [i \in 1 .. size |-> size - 1 + i]
                            /\ Parent(left[Len(left)]) = size - 1
<1> DEFINE gone == IF size > 1 THEN 2 ELSE 1
           n == Len(leaves) - gone
           left == SubSeq(leaves, 1, n)
<1>1. /\ size \in Nat /\ size >= 1 /\ size <= Cap /\ bot = size
      /\ leaves \in Seq(Slots) /\ leaves = [i \in 1 .. size + 1 |-> size + i]
      /\ Slots \subseteq Nat /\ bot \in Slots
  BY DEF IInv, TypeOK, Frontier, Slots
<1>2. Len(leaves) = size + 1 /\ \A i \in 1 .. size + 1 : leaves[i] = size + i
  BY <1>1
<1>3. /\ n \in Int /\ 1 <= n /\ n <= size
      /\ (size > 1 => n = size - 1) /\ (size = 1 => n = 1)
  BY <1>1, <1>2
<1> HIDE DEF n
<1>4. left \in Seq(Slots) /\ Len(left) = n /\ \A i \in 1 .. n : left[i] = size + i
  <2>1. \A i \in 1 .. n : leaves[i] \in Slots
    BY <1>1, <1>2, <1>3
  <2>2. /\ left \in Seq(Slots) /\ Len(left) = IF 1 <= n THEN n - 1 + 1 ELSE 0
        /\ \A i \in 1 .. n - 1 + 1 : left[i] = leaves[1 + i - 1]
    BY <1>3, <2>1, SubSeqProperties
  <2> HIDE DEF left
  <2>3. n - 1 + 1 = n /\ \A i \in 1 .. n : 1 + i - 1 = i
    BY <1>3
  <2>4. \A i \in 1 .. n : left[i] = leaves[i]
    BY <2>2, <2>3, Zenon
  <2>5. Len(left) = n
    BY <1>3, <2>2
  <2>6. \A i \in 1 .. n : left[i] = size + i
    BY <1>1, <1>2, <1>3, <2>4
  <2> QED
    BY <2>2, <2>5, <2>6, Zenon DEF left
<1> HIDE DEF left
<1>5. left[Len(left)] = size + n
  BY <1>3, <1>4
<1>6. /\ Parent(size + n) \in 0 .. 2 * Cap + 1
      /\ size > 1 => Parent(size + n) = size - 1
  BY <1>1, <1>3 DEF Parent
<1> DEFINE one == <<bot>>
           all == [i \in 1 .. size |-> size - 1 + i]
<1>7. one \in Seq(Slots) /\ Len(one) = 1 /\ one[1] = size
  BY <1>1
<1> HIDE DEF one
<1>8. /\ one \o left \in Seq(Slots) /\ Len(one \o left) = 1 + n
      /\ \A i \in 1 .. 1 + n : (one \o left)[i] = IF i <= 1 THEN one[i] ELSE left[i - 1]
  <2>1. /\ one \o left \in Seq(Slots) /\ Len(one \o left) = Len(one) + Len(left)
        /\ \A i \in 1 .. Len(one) + Len(left) :
             (one \o left)[i] = IF i <= Len(one) THEN one[i] ELSE left[i - Len(one)]
    BY <1>4, <1>7, ConcatProperties, Zenon
  <2>2. Len(one) = 1 /\ Len(left) = n
    BY <1>4, <1>7
  <2> QED
    BY <2>1, <2>2, Zenon
<1>9. size > 1 => one \o left = all
  <2> SUFFICES ASSUME size > 1
               PROVE  one \o left = all
    OBVIOUS
  <2>1. n = size - 1
    BY <1>3
  <2>2. \A i \in 1 .. size : size - 1 + i \in Slots
    BY <1>1 DEF Slots
  <2>3. /\ all \in Seq(Slots) /\ Len(all) = size
        /\ \A i \in 1 .. size : all[i] = size - 1 + i
    BY <1>1, <2>2
  <2> HIDE DEF all
  <2>4. \A i \in 1 .. size : (one \o left)[i] = size - 1 + i
    <3> SUFFICES ASSUME NEW i \in 1 .. size
                 PROVE  (one \o left)[i] = size - 1 + i
      OBVIOUS
    <3>1. size \in Nat /\ i \in 1 .. 1 + n
      BY <1>1, <2>1
    <3>2. (one \o left)[i] = IF i <= 1 THEN one[i] ELSE left[i - 1]
      BY <1>8, <3>1
    <3>3. CASE i = 1
      BY <1>7, <3>1, <3>2, <3>3
    <3>4. CASE i # 1
      <4>1. i - 1 \in 1 .. n
        BY <3>1, <3>4, <2>1
      <4>2. left[i - 1] = size + (i - 1)
        BY <1>4, <4>1
      <4> QED
        BY <3>1, <3>2, <3>4, <4>2
    <3> QED
      BY <3>3, <3>4
  <2>5. Len(one \o left) = Len(all)
    BY <1>1, <1>8, <2>1, <2>3
  <2>6. \A i \in 1 .. Len(one \o left) : (one \o left)[i] = all[i]
    BY <2>3, <2>4, <2>5
  <2> QED
    BY <1>8, <2>3, <2>5, <2>6, SeqEqual, Zenon
<1> QED
  BY <1>5, <1>6, <1>8, <1>9 DEF one, left, n

(* What the proofs below use of the invariant.                             *)
LEMMA Facts ==
  ASSUME IInv
  PROVE  /\ slot \in [Slots -> Cells] /\ size \in Nat /\ size <= Cap
         /\ \A i \in Slots : slot[i].inst # None <=> i <= size
         /\ \A i \in Slots : slot[i].chunkStart \in Nat /\ slot[i] \in Cells
         /\ \A i, j \in 1 .. size : slot[i].inst = slot[j].inst => i = j
         /\ Slots \subseteq Nat /\ 1 .. size \subseteq Slots
         /\ \A i \in 1 .. size : Right(i) \in Slots /\ Left(i) \in Slots
<1>1. /\ slot \in [Slots -> Cells] /\ size \in Nat /\ size <= Cap
      /\ Slots \subseteq Nat /\ 1 .. size \subseteq Slots
  BY DEF IInv, TypeOK, Cells, Slots
<1>2. \A i \in Slots : slot[i].chunkStart \in Nat /\ slot[i] \in Cells
  BY <1>1 DEF Cells
<1>3. \A i \in 1 .. size : Right(i) \in Slots /\ Left(i) \in Slots
  BY <1>1 DEF Right, Left, Slots
<1> QED
  BY <1>1, <1>2, <1>3 DEF IInv, Shape, Occupied, Distinct

LEMMA InsertKeeps ==
  ASSUME IInv, NEW inst \in Insts, NEW start \in Starts, Insert(inst, start)
  PROVE  IInv'
<1> DEFINE new == size + 1
           item == Item(inst, start)
<1>1. /\ size' = size + 1 /\ size < Cap /\ pc = "idle" /\ pc' = "up"
      /\ cur' = new /\ bot' = new /\ slot' = [slot EXCEPT ![new] = item]
      /\ kids' = (1 .. size) \cup {new}
      /\ leaves' = [i \in 1 .. size + 2 |-> size + 1 + i]
      /\ leaves' \in Seq(Slots)
      /\ inst \notin Held /\ sift' = sift /\ ret' = ret
  BY LeavesOfInsert DEF Insert
<1>2. /\ item \in Cells /\ item.inst = inst /\ item.chunkStart = start /\ inst # None
      /\ inst \in Insts
  BY DEF Item, Cells
<1>3. /\ slot \in [Slots -> Cells] /\ size \in Nat /\ new \in Slots /\ Slots \subseteq Nat
      /\ \A i \in Slots : slot[i].inst # None <=> i <= size
      /\ \A i, j \in 1 .. size : slot[i].inst = slot[j].inst => i = j
      /\ 1 .. new \subseteq Slots
  BY <1>1, Facts DEF Slots
<1>4. /\ slot' \in [Slots -> Cells] /\ slot'[new] = item
      /\ \A i \in Slots \ {new} : slot'[i] = slot[i]
  BY <1>1, <1>2, <1>3
<1>5. TypeOK'
  <2>1. kids' \subseteq Slots /\ cur' \in Slots /\ size' \in 0 .. Cap
    BY <1>1, <1>3
  <2>2. bot' \in 0 .. 2 * Cap + 1
    BY <1>1, <1>3 DEF Slots
  <2>3. sift' \in BOOLEAN /\ ret' \in Cells /\ pc' \in {"idle", "up", "down"}
    BY <1>1 DEF IInv, TypeOK, Cells
  <2> QED
    BY <1>1, <1>4, <2>1, <2>2, <2>3, Zenon DEF TypeOK, Cells
<1>6. Shape'
  BY <1>1, <1>2, <1>3, <1>4 DEF Shape, Occupied
<1>7. Frontier'
  BY <1>1, <1>3 DEF Frontier
<1>8. Distinct'
  <2>1. \A i \in 1 .. size : slot[i].inst # inst
    BY <1>1, <1>2, <1>3 DEF Held
  <2> QED
    BY <1>1, <1>2, <1>3, <1>4, <2>1 DEF Distinct
<1>9. Rising'
  <2>1. ASSUME NEW i \in 2 .. new
        PROVE  Parent(i) \in 1 .. size /\ i \in Slots /\ Parent(i) \in Slots
    BY <1>3, <2>1, Parents
  <2>2. ASSUME NEW i \in 2 .. size
        PROVE  Ordered(i)'
    BY <1>1, <1>3, <1>4, <2>1, <2>2 DEF IInv, HeapOrder, Ordered
  <2>3. \A i \in 2 .. size' : i # cur' => Ordered(i)'
    BY <1>1, <1>3, <2>2
  <2>4. \A i \in 2 .. size' : Parent(i) # cur'
    BY <1>1, <1>3, <2>1
  <2> QED
    BY <1>1, <1>3, <2>3, <2>4 DEF Rising, Bypassed
<1> QED
  BY <1>1, <1>5, <1>6, <1>7, <1>8, <1>9 DEF IInv, HeapOrder, Sinking

(* What a step of a loop leaves alone, and what it may do to the slots.    *)
LEMMA LoopStep ==
  ASSUME IInv, UNCHANGED <<kids, leaves, bot, size, ret>>,
         \/ slot' = slot
         \/ \E i, j \in 1 .. size : i # j /\ slot' = Swap(slot, i, j),
         cur' \in Slots, sift' \in BOOLEAN, pc' \in {"idle", "up", "down"}
  PROVE  TypeOK' /\ Shape' /\ Frontier' /\ Distinct' /\ Contents' = Contents
<1>1. /\ slot' \in [Slots -> Cells] /\ \A k \in Slots : Occupied(k)' <=> k <= size
      /\ Distinct' /\ Contents' = Contents
  <2>1. CASE slot' = slot
    BY <2>1, Facts DEF Occupied, Distinct, Contents
  <2>2. CASE \E i, j \in 1 .. size : i # j /\ slot' = Swap(slot, i, j)
    BY <2>2, SwapKeeps
  <2> QED
    BY <2>1, <2>2
<1>2. TypeOK'
  <2>1. /\ kids' \subseteq Slots /\ leaves' \in Seq(Slots) /\ bot' \in 0 .. 2 * Cap + 1
        /\ size' \in 0 .. Cap /\ ret' \in Cells
    BY Zenon DEF IInv, TypeOK, Cells
  <2> QED
    BY <1>1, <2>1, Zenon DEF TypeOK, Cells
<1>3. Shape'
  BY <1>1 DEF IInv, Shape, Occupied
<1>4. Frontier'
  BY DEF IInv, Frontier
<1> QED
  BY <1>1, <1>2, <1>3, <1>4

LEMMA SiftUpKeeps ==
  ASSUME IInv, SiftUp
  PROVE  IInv' /\ Contents' = Contents
<1> DEFINE p == Parent(cur)
           at(i) == slot[i].chunkStart
<1>1. /\ pc = "up" /\ cur \in 1 .. size /\ \A i \in 2 .. size : i # cur => Ordered(i)
      /\ Bypassed /\ size' = size
      /\ UNCHANGED <<kids, leaves, bot, size, ret, sift>> /\ sift \in BOOLEAN
  BY DEF SiftUp, IInv, Rising, TypeOK
<1>2. /\ slot \in [Slots -> Cells] /\ size \in Nat /\ 1 .. size \subseteq Slots
      /\ Slots \subseteq Nat /\ \A i \in Slots : at(i) \in Nat
  BY Facts
<1>3. \A i \in 2 .. size : /\ Parent(i) \in 1 .. size /\ Parent(i) < i
                           /\ Parent(i) \in Slots /\ i \in Slots
  BY <1>2, Parents
<1>4. CASE SiftsUp
  <2>1. /\ cur # 1 /\ at(p) > at(cur) /\ cur \in 2 .. size /\ p \in 1 .. size /\ p < cur
        /\ p # cur /\ slot' = Swap(slot, cur, p) /\ cur' = p /\ pc' = "up"
    BY <1>1, <1>2, <1>3, <1>4 DEF SiftUp, SiftsUp
  <2>2. TypeOK' /\ Shape' /\ Frontier' /\ Distinct' /\ Contents' = Contents
    BY <1>1, <1>2, <2>1, LoopStep
  <2>3. /\ slot'[cur] = slot[p] /\ slot'[p] = slot[cur]
        /\ \A k \in Slots \ {cur, p} : slot'[k] = slot[k]
    BY <1>2, <2>1, Swapped
  <2>4. ASSUME NEW i \in 2 .. size, i # p
        PROVE  Ordered(i)'
    <3> DEFINE q == Parent(i)
    <3>1. q \in 1 .. size /\ q < i /\ q \in Slots /\ i \in Slots
          /\ (i # cur => at(q) <= at(i))
          /\ (q = cur => at(p) <= at(i))
      BY <1>1, <1>3, <2>1 DEF Ordered, Bypassed
    <3> SUFFICES slot'[q].chunkStart <= slot'[i].chunkStart
      BY DEF Ordered
    <3> HIDE DEF q
    <3>2. CASE i = cur
      <4>1. q = p
        BY <3>2 DEF q
      <4> QED
        BY <1>2, <2>1, <2>3, <3>1, <3>2, <4>1
    <3>3. CASE i # cur /\ q = cur
      BY <1>2, <2>1, <2>3, <2>4, <3>1, <3>3
    <3>4. CASE i # cur /\ q = p
      BY <1>2, <2>1, <2>3, <2>4, <3>1, <3>4
    <3>5. CASE i # cur /\ q # cur /\ q # p
      BY <1>2, <2>1, <2>3, <2>4, <3>1, <3>5
    <3> QED
      BY <3>2, <3>3, <3>4, <3>5
  <2>5. Bypassed'
    <3> SUFFICES ASSUME p # 1, NEW i \in 2 .. size, Parent(i) = p
                 PROVE  slot'[Parent(p)].chunkStart <= slot'[i].chunkStart
      BY <1>1, <2>1 DEF Bypassed
    <3> DEFINE pp == Parent(p)
    <3>1. p \in 2 .. size /\ pp \in Slots /\ pp < p /\ at(pp) <= at(p)
      BY <1>1, <1>2, <1>3, <2>1 DEF Ordered
    <3>2. i \in Slots /\ i # p /\ (i # cur => at(p) <= at(i))
      BY <1>1, <1>3, <2>1 DEF Ordered
    <3> HIDE DEF p, pp
    <3>3. slot'[pp] = slot[pp]
      BY <1>2, <2>1, <2>3, <3>1
    <3>4. CASE i = cur
      BY <2>3, <3>1, <3>3, <3>4 DEF pp
    <3>5. CASE i # cur
      <4>1. slot'[i] = slot[i]
        BY <2>3, <3>2, <3>5
      <4>2. at(pp) \in Nat /\ at(p) \in Nat /\ at(i) \in Nat
        BY <1>2, <2>1, <3>1, <3>2
      <4> QED
        BY <3>1, <3>2, <3>3, <3>5, <4>1, <4>2 DEF pp
    <3> QED
      BY <3>4, <3>5
  <2>6. Rising'
    BY <1>1, <2>1, <2>4, <2>5 DEF Rising
  <2> QED
    BY <2>1, <2>2, <2>6 DEF IInv, HeapOrder, Sinking
<1>5. CASE ~SiftsUp
  <2>1. slot' = slot /\ cur' = cur /\ pc' = "idle"
    BY <1>5 DEF SiftUp
  <2>2. TypeOK' /\ Shape' /\ Frontier' /\ Distinct' /\ Contents' = Contents
    BY <1>1, <1>2, <2>1, LoopStep
  <2>3. \A i \in 2 .. size : Ordered(i)
    <3>1. cur \in 2 .. size => Ordered(cur)
      BY <1>2, <1>3, <1>5 DEF SiftsUp, Ordered
    <3> QED
      BY <1>1, <3>1
  <2> QED
    BY <1>1, <2>1, <2>2, <2>3 DEF IInv, HeapOrder, Ordered, Rising, Sinking
<1> QED
  BY <1>4, <1>5

LEMMA DeleteMinKeeps ==
  ASSUME IInv, NEW max \in Maxs, DeleteMin(max)
  PROVE  IInv'
<1>1. /\ pc = "idle" /\ size # 0 /\ ret' = slot[1] /\ bot = size
      /\ slot' = [slot EXCEPT ![1] = slot[size], ![size] = Empty]
      /\ kids' = (1 .. size) \ {size} /\ size' = size - 1
      /\ cur' = 1 /\ sift' = TRUE /\ pc' = "down"
      /\ leaves' \in Seq(Slots) /\ bot' \in 0 .. 2 * Cap + 1
      /\ size > 1 => /\ leaves' = [i \in 1 .. size |-> size - 1 + i]
                     /\ bot' = size - 1
  <2>1. bot = size /\ kids = 1 .. size /\ size # 0
    BY DEF DeleteMin, IInv, Shape, Frontier, TypeOK
  <2> QED
    BY <2>1, LeavesOfDelete DEF DeleteMin
<1>2. /\ slot \in [Slots -> Cells] /\ size \in Nat /\ 1 .. size \subseteq Slots
      /\ size <= Cap /\ Slots \subseteq Nat
      /\ \A i \in Slots : slot[i].chunkStart \in Nat
      /\ \A i \in Slots : slot[i].inst # None <=> i <= size
      /\ \A i, j \in 1 .. size : slot[i].inst = slot[j].inst => i = j
  BY Facts
<1>3. Empty \in Cells /\ Empty.inst = None /\ 1 \in Slots /\ size \in Slots
  BY <1>1, <1>2 DEF Empty, Item, Cells
<1>4. /\ slot' \in [Slots -> Cells] /\ slot'[size] = Empty
      /\ size # 1 => slot'[1] = slot[size]
      /\ \A i \in Slots \ {1, size} : slot'[i] = slot[i]
  BY <1>1, <1>2, <1>3
<1>5. TypeOK'
  <2>1. kids' \subseteq Slots /\ cur' \in Slots /\ size' \in 0 .. Cap
    BY <1>1, <1>2, <1>3
  <2>2. sift' \in BOOLEAN /\ ret' \in Cells /\ pc' \in {"idle", "up", "down"}
    BY <1>1, <1>2, <1>3
  <2> QED
    BY <1>1, <1>4, <2>1, <2>2, Zenon DEF TypeOK, Cells
<1>6. Shape'
  BY <1>1, <1>2, <1>3, <1>4 DEF Shape, Occupied
<1>7. Frontier'
  BY <1>1, <1>2 DEF Frontier
<1>8. Distinct'
  BY <1>1, <1>2, <1>4 DEF Distinct
<1>9. Sinking'
  <2>1. ASSUME NEW i \in 2 .. size', Parent(i) # 1
        PROVE  Ordered(i)'
    <3>1. /\ i \in 2 .. size /\ i # size /\ Parent(i) \in 2 .. size /\ Parent(i) # size
          /\ i \in Slots /\ Parent(i) \in Slots
      BY <1>1, <1>2, <2>1, Parents
    <3> QED
      BY <1>1, <1>4, <3>1 DEF IInv, HeapOrder, Ordered
  <2>2. size' > 0 => cur' \in 1 .. size'
    BY <1>1, <1>2
  <2>3. Bypassed'
    BY <1>1 DEF Bypassed
  <2>4. \A i \in 2 .. size' : (Parent(i) # cur \/ ~sift)' => Ordered(i)'
    BY <1>1, <2>1 DEF Parent
  <2> QED
    BY <1>1, <2>2, <2>3, <2>4 DEF Sinking
<1> QED
  BY <1>1, <1>5, <1>6, <1>7, <1>8, <1>9 DEF IInv, HeapOrder, Rising

(* One iteration of deleteMin()'s loop compares the instrument with the    *)
(* child of least start: the two parts of the code never both move it.     *)
LEMMA SinksToLeastChild ==
  ASSUME IInv, pc = "down", SiftsDown
  PROVE  /\ cur \in 1 .. size
         /\ \E k \in 1 .. size :
              /\ Parent(k) = cur /\ k > cur
              /\ \A i \in 2 .. size : Parent(i) = cur =>
                   slot[k].chunkStart <= slot[i].chunkStart
              /\ TwoChildren(OneChild(slot, cur)) = SinkTo(slot, cur, k)
<1> DEFINE r == Right(cur)
           l == Left(cur)
<1>1. /\ slot \in [Slots -> Cells] /\ size \in Nat /\ 1 .. size \subseteq Slots
      /\ size <= Cap /\ Slots \subseteq Nat
      /\ \A i \in Slots : slot[i].chunkStart \in Nat
      /\ \A i \in Slots : slot[i].inst # None <=> i <= size
      /\ \A i \in 1 .. size : Right(i) \in Slots /\ Left(i) \in Slots
  BY Facts
<1>2. cur \in 1 .. size /\ cur \in Slots
  BY <1>1 DEF SiftsDown, Occupied, IInv, TypeOK, Slots
<1>3. /\ r = 2 * cur /\ l = 2 * cur + 1 /\ r \in Slots /\ l \in Slots
      /\ Parent(r) = cur /\ Parent(l) = cur /\ r \in 1 .. size
      /\ \A i \in 2 .. size : Parent(i) = cur => i = r \/ i = l
  <2>1. \A i \in 2 .. size : Parent(i) = cur => i = r \/ i = l
    BY <1>1, Parents
  <2>2. r = 2 * cur /\ l = 2 * cur + 1 /\ Parent(r) = cur /\ Parent(l) = cur
    BY <1>1, <1>2, Children
  <2>3. r \in Slots /\ l \in Slots
    BY <1>1, <1>2
  <2>4. r <= size \/ l <= size
    BY <1>1, <2>3 DEF SiftsDown, Occupied
  <2> QED
    BY <1>1, <1>2, <2>1, <2>2, <2>3, <2>4
<1>4. CASE l > size
  <2>1. slot[l].inst = None
    BY <1>1, <1>3, <1>4
  <2>2. OneChild(slot, cur) = SinkTo(slot, cur, r)
    BY <2>1 DEF OneChild
  <2>3. TwoChildren(SinkTo(slot, cur, r)) = SinkTo(slot, cur, r)
    <3>1. CASE slot[r].chunkStart < slot[cur].chunkStart
      <4> DEFINE s == Swap(slot, cur, r)
      <4>1. SinkTo(slot, cur, r) = Step(s, r, TRUE)
        BY <3>1 DEF SinkTo
      <4>2. /\ Left(r) \in Slots /\ Left(r) > size /\ Left(r) # cur /\ Left(r) # r
            /\ r # cur
        BY <1>1, <1>2, <1>3, <1>4 DEF Left
      <4>3. \A i \in Slots \ {cur, r} : s[i] = slot[i]
        <5> HIDE DEF r
        <5>1. slot \in [Slots -> Cells] /\ cur \in Slots /\ r \in Slots /\ cur # r
          BY <1>1, <1>2, <1>3, <4>2
        <5> QED
          BY <5>1, Swapped
      <4>4. s[Left(r)].inst = None
        <5> DEFINE m == Left(r)
        <5>1. m \in Slots /\ m # cur /\ m # r /\ m > size
          BY <4>2
        <5> HIDE DEF m, s
        <5>2. slot[m].inst = None /\ s[m] = slot[m]
          BY <1>1, <4>3, <5>1
        <5> QED
          BY <5>2 DEF m
      <4> HIDE DEF s
      <4> QED
        BY <4>1, <4>4 DEF TwoChildren, Step
    <3>2. CASE ~(slot[r].chunkStart < slot[cur].chunkStart)
      <4>1. SinkTo(slot, cur, r) = Step(slot, cur, FALSE)
        BY <3>2 DEF SinkTo
      <4> QED
        BY <2>1, <4>1 DEF TwoChildren, Step
    <3> QED
      BY <3>1, <3>2
  <2>4. \A i \in 2 .. size : Parent(i) = cur => i = r
    BY <1>1, <1>3, <1>4
  <2>5. r > cur /\ slot[r].chunkStart <= slot[r].chunkStart
    BY <1>1, <1>2, <1>3
  <2> QED
    BY <1>2, <1>3, <2>2, <2>3, <2>4, <2>5
<1>5. CASE l <= size
  <2>1. slot[l].inst # None /\ slot[r].inst # None
    BY <1>1, <1>3, <1>5
  <2> DEFINE k == IF slot[l].chunkStart < slot[r].chunkStart THEN l ELSE r
  <2>2. OneChild(slot, cur) = Step(slot, cur, TRUE)
    BY <2>1 DEF OneChild
  <2>3. TwoChildren(Step(slot, cur, TRUE)) = SinkTo(slot, cur, k)
    BY <2>1 DEF TwoChildren, Step
  <2>4. /\ k \in 1 .. size /\ Parent(k) = cur /\ k > cur
        /\ slot[k].chunkStart <= slot[l].chunkStart
        /\ slot[k].chunkStart <= slot[r].chunkStart
    BY <1>1, <1>2, <1>3, <1>5
  <2>5. \A i \in 2 .. size : Parent(i) = cur => slot[k].chunkStart <= slot[i].chunkStart
    BY <1>3, <2>4
  <2> HIDE DEF k
  <2> QED
    BY <1>2, <2>2, <2>3, <2>4, <2>5
<1> QED
  BY <1>1, <1>3, <1>4, <1>5

LEMMA SiftDownKeeps ==
  ASSUME IInv, SiftDown
  PROVE  IInv' /\ Contents' = Contents
<1> DEFINE at(i) == slot[i].chunkStart
<1>1. /\ pc = "down" /\ UNCHANGED <<kids, leaves, bot, size, ret>> /\ size' = size
      /\ \A i \in 2 .. size : Parent(i) # cur \/ ~sift => Ordered(i)
      /\ Bypassed /\ cur \in Slots /\ sift \in BOOLEAN
  BY DEF SiftDown, IInv, Sinking, TypeOK
<1>2. /\ slot \in [Slots -> Cells] /\ size \in Nat /\ 1 .. size \subseteq Slots
      /\ Slots \subseteq Nat /\ (\A i \in Slots : at(i) \in Nat)
      /\ \A i \in Slots : slot[i].inst # None <=> i <= size
  BY Facts
<1>3. \A i \in 2 .. size : /\ Parent(i) \in 1 .. size /\ Parent(i) < i
                           /\ Parent(i) \in Slots /\ i \in Slots
  BY <1>2, Parents
<1>4. CASE SiftsDown
  <2>1. /\ cur \in 1 .. size
        /\ \E k \in 1 .. size :
             /\ Parent(k) = cur /\ k > cur
             /\ \A i \in 2 .. size : Parent(i) = cur => at(k) <= at(i)
             /\ TwoChildren(OneChild(slot, cur)) = SinkTo(slot, cur, k)
    BY <1>1, <1>4, SinksToLeastChild
  <2>2. PICK k \in 1 .. size :
          /\ Parent(k) = cur /\ k > cur
          /\ \A i \in 2 .. size : Parent(i) = cur => at(k) <= at(i)
          /\ TwoChildren(OneChild(slot, cur)) = SinkTo(slot, cur, k)
    BY <2>1
  <2>3. /\ slot' = SinkTo(slot, cur, k).slot /\ cur' = SinkTo(slot, cur, k).cur
        /\ sift' = SinkTo(slot, cur, k).sift /\ pc' = "down"
    BY <1>1, <1>4, <2>2 DEF SiftDown
  <2>4. CASE at(k) < at(cur)
    <3>1. slot' = Swap(slot, cur, k) /\ cur' = k /\ sift' = TRUE /\ cur # k
      BY <1>2, <2>1, <2>2, <2>3, <2>4 DEF SinkTo, Step
    <3>2. TypeOK' /\ Shape' /\ Frontier' /\ Distinct' /\ Contents' = Contents
      BY <1>1, <1>2, <2>1, <2>2, <2>3, <3>1, LoopStep
    <3>3. /\ slot'[cur] = slot[k] /\ slot'[k] = slot[cur]
          /\ \A i \in Slots \ {cur, k} : slot'[i] = slot[i]
      BY <1>2, <2>1, <2>2, <3>1, Swapped
    <3>4. ASSUME NEW i \in 2 .. size, Parent(i) # k
          PROVE  Ordered(i)'
      <4> DEFINE q == Parent(i)
      <4>1. /\ q \in Slots /\ i \in Slots /\ q # k /\ q < i
            /\ (q # cur => at(q) <= at(i))
            /\ (q = cur => at(k) <= at(i))
        BY <1>1, <1>3, <2>2, <3>4 DEF Ordered
      <4>2. i = cur => at(q) <= at(k)
        BY <1>1, <1>2, <2>1, <2>2 DEF Bypassed
      <4>3. i = k => q = cur
        BY <2>2
      <4> SUFFICES slot'[q].chunkStart <= slot'[i].chunkStart
        BY DEF Ordered
      <4> HIDE DEF q
      <4>4. CASE q = cur
        BY <1>2, <2>1, <2>2, <2>4, <3>3, <4>1, <4>4
      <4>5. CASE q # cur /\ i = cur
        BY <1>2, <2>1, <2>2, <3>3, <4>1, <4>2, <4>5
      <4>6. CASE q # cur /\ i # cur
        BY <1>2, <3>3, <4>1, <4>3, <4>6
      <4> QED
        BY <4>4, <4>5, <4>6
    <3>5. Bypassed'
      <4> SUFFICES ASSUME NEW i \in 2 .. size, Parent(i) = k
                   PROVE  slot'[cur].chunkStart <= slot'[i].chunkStart
        BY <1>1, <2>2, <3>1 DEF Bypassed, Parent
      <4>1. i \in Slots /\ i # k /\ i # cur /\ at(k) <= at(i)
        BY <1>1, <1>2, <1>3, <2>2 DEF Ordered
      <4> QED
        BY <3>3, <4>1
    <3>6. Sinking'
      BY <1>1, <2>2, <3>1, <3>4, <3>5 DEF Sinking
    <3> QED
      BY <2>3, <3>2, <3>6 DEF IInv, HeapOrder, Rising
  <2>5. CASE ~(at(k) < at(cur))
    <3>1. slot' = slot /\ cur' = cur /\ sift' = FALSE
      BY <2>3, <2>5 DEF SinkTo, Step
    <3>2. TypeOK' /\ Shape' /\ Frontier' /\ Distinct' /\ Contents' = Contents
      BY <1>1, <1>2, <2>3, <3>1, LoopStep
    <3>3. ASSUME NEW i \in 2 .. size
          PROVE  Ordered(i)
      <4>1. CASE Parent(i) = cur
        <5>1. at(k) \in Nat /\ at(cur) \in Nat /\ at(i) \in Nat /\ at(k) <= at(i)
          BY <1>1, <1>2, <2>2, <3>3, <4>1
        <5> QED
          BY <2>5, <4>1, <5>1 DEF Ordered
      <4>2. CASE Parent(i) # cur
        BY <1>1, <3>3, <4>2
      <4> QED
        BY <4>1, <4>2
    <3>4. Sinking'
      BY <1>1, <2>1, <2>3, <3>1, <3>3 DEF Sinking, Ordered, Bypassed
    <3> QED
      BY <2>3, <3>2, <3>4 DEF IInv, HeapOrder, Rising
  <2> QED
    BY <2>4, <2>5
<1>5. CASE ~SiftsDown
  <2>1. slot' = slot /\ cur' = cur /\ sift' = sift /\ pc' = "idle"
    BY <1>5 DEF SiftDown
  <2>2. TypeOK' /\ Shape' /\ Frontier' /\ Distinct' /\ Contents' = Contents
    BY <1>1, <1>2, <2>1, LoopStep
  <2>3. ASSUME NEW i \in 2 .. size
        PROVE  Ordered(i)
    <3>1. CASE Parent(i) # cur \/ ~sift
      BY <1>1, <2>3, <3>1
    <3>2. CASE Parent(i) = cur /\ sift
      <4>1. i \in Slots /\ cur \in Slots /\ cur <= size /\ (i = Right(cur) \/ i = Left(cur))
        BY <1>2, <1>3, <2>3, <3>2, Parents
      <4>2. Occupied(i) /\ Occupied(cur)
        BY <1>2, <2>3, <4>1 DEF Occupied
      <4> QED
        BY <1>5, <3>2, <4>1, <4>2 DEF SiftsDown
    <3> QED
      BY <3>1, <3>2
  <2> QED
    BY <1>1, <2>1, <2>2, <2>3 DEF IInv, HeapOrder, Ordered, Rising, Sinking
<1> QED
  BY <1>4, <1>5

LEMMA RefuseKeeps ==
  ASSUME IInv, NEW max \in Maxs, Refuse(max)
  PROVE  IInv' /\ Contents' = Contents
<1>1. UNCHANGED <<slot, kids, leaves, bot, size, pc, cur, sift>>
  BY DEF Refuse
<1>2. ret' \in Cells
  <2>1. 1 \in Slots /\ slot[1].chunkStart \in Nat
    BY Facts DEF Slots
  <2> QED
    BY <2>1 DEF Refuse, Empty, Item, Cells
<1>3. TypeOK'
  BY <1>1, <1>2, Zenon DEF IInv, TypeOK, Cells
<1> QED
  BY <1>1, <1>3 DEF IInv, Shape, Frontier, HeapOrder, Rising, Sinking, Bypassed, Distinct,
                    Occupied, Ordered, Contents

LEMMA NextIInv == IInv /\ [Next]_vars => IInv'
<1> SUFFICES ASSUME IInv, [Next]_vars
             PROVE  IInv'
  OBVIOUS
<1>1. ASSUME NEW i \in Insts, NEW s \in Starts, Insert(i, s)
      PROVE  IInv'
  BY <1>1, InsertKeeps
<1>2. CASE SiftUp
  BY <1>2, SiftUpKeeps
<1>3. ASSUME NEW m \in Maxs, Refuse(m)
      PROVE  IInv'
  BY <1>3, RefuseKeeps
<1>4. ASSUME NEW m \in Maxs, DeleteMin(m)
      PROVE  IInv'
  BY <1>4, DeleteMinKeeps
<1>5. CASE SiftDown
  BY <1>5, SiftDownKeeps
<1>6. CASE UNCHANGED vars
  BY <1>6 DEF vars, IInv, TypeOK, Shape, Frontier, HeapOrder, Rising, Sinking, Bypassed,
              Distinct, Occupied, Ordered
<1> QED
  BY <1>1, <1>2, <1>3, <1>4, <1>5, <1>6 DEF Next

LEMMA Invariance == Spec => []IInv
<1>1. Init => IInv
  BY InitIInv
<1>2. IInv /\ [Next]_vars => IInv'
  BY NextIInv
<1> QED
  BY <1>1, <1>2, PTL DEF Spec

(* Every variable of the heap has its type: class heap (heap/heap.cpp)     *)
(* never follows a slot that its linked structure has not made.            *)
THEOREM TypeCorrect == Spec => []TypeOK
<1>1. IInv => TypeOK
  BY DEF IInv
<1> QED
  BY <1>1, Invariance, PTL

(* The instruments fill the first slots, and the slots with children are   *)
(* exactly these: insert() and deleteMin() follow no NULL child.           *)
THEOREM KeepsShape == Spec => []Shape
<1>1. IInv => Shape
  BY DEF IInv
<1> QED
  BY <1>1, Invariance, PTL

(* The queue `leaves` lists the children of the filled slots in order:     *)
(* what insert() and deleteMin() take from its two ends is right.          *)
THEOREM KeepsFrontier == Spec => []Frontier
<1>1. IInv => Frontier
  BY DEF IInv
<1> QED
  BY <1>1, Invariance, PTL

(* When insert() or deleteMin() has returned, no slot starts later than    *)
(* its children.                                                           *)
THEOREM KeepsOrder == Spec => []HeapOrder
<1>1. IInv => HeapOrder
  BY DEF IInv
<1> QED
  BY <1>1, Invariance, PTL

(* The loop of deleteMin() ends: each iteration goes down or is the last.  *)
THEOREM Terminates == Spec => Descends
<1>1. IInv /\ [Next]_vars => [pc = "down" /\ pc' = "down" => cur' > cur \/ ~sift']_vars
  <2> SUFFICES ASSUME IInv, Next, pc = "down", pc' = "down"
               PROVE  cur' > cur \/ ~sift'
    OBVIOUS
  <2>1. SiftDown /\ SiftsDown
    BY DEF Next, Insert, SiftUp, Refuse, DeleteMin, SiftDown
  <2>2. PICK k \in 1 .. size :
          k > cur /\ TwoChildren(OneChild(slot, cur)) = SinkTo(slot, cur, k)
    BY <2>1, SinksToLeastChild
  <2>3. cur' = SinkTo(slot, cur, k).cur /\ sift' = SinkTo(slot, cur, k).sift
    BY <2>1, <2>2 DEF SiftDown
  <2> QED
    BY <2>2, <2>3 DEF SinkTo, Step
<1> QED
  BY <1>1, Invariance, PTL DEF Spec, Descends

(***************************************************************************)
(* The refinement.                                                         *)
(***************************************************************************)

(* The first slot starts first: a slot of least number that started before *)
(* it would start before its parent.                                       *)
LEMMA RootIsLeast ==
  ASSUME IInv, pc = "idle", size # 0
  PROVE  \A i \in 1 .. size : slot[1].chunkStart <= slot[i].chunkStart
<1> DEFINE Earlier == {i \in 1 .. size : slot[i].chunkStart < slot[1].chunkStart}
<1>1. /\ size \in Nat /\ 1 .. size \subseteq Slots /\ 1 \in Slots
      /\ \A i \in Slots : slot[i].chunkStart \in Nat
      /\ \A i \in 2 .. size : slot[Parent(i)].chunkStart <= slot[i].chunkStart
  BY Facts DEF IInv, HeapOrder, Ordered, Slots
<1>2. Earlier = {}
  <2> SUFFICES ASSUME Earlier # {}
               PROVE  FALSE
    OBVIOUS
  <2>1. Earlier \in SUBSET Nat
    BY <1>1
  <2>2. PICK m \in Earlier : \A k \in Earlier : m <= k
    BY <2>1, LeastNatural
  <2>3. m \in 2 .. size /\ m \in Nat
    BY <1>1
  <2>4. Parent(m) \in 1 .. size /\ Parent(m) < m
    BY <1>1, <2>3, Parents
  <2>5. slot[Parent(m)].chunkStart <= slot[m].chunkStart
    BY <1>1, <2>3
  <2>6. Parent(m) \in Earlier
    <3> DEFINE p == Parent(m)
    <3>1. p \in 1 .. size /\ p \in Slots /\ slot[p].chunkStart <= slot[m].chunkStart
      BY <1>1, <2>4, <2>5
    <3> HIDE DEF p
    <3>2. slot[p].chunkStart < slot[1].chunkStart
      BY <1>1, <2>3, <3>1
    <3>3. p \in Earlier
      BY <3>1, <3>2
    <3> QED
      BY <3>3 DEF p
  <2>7. m <= Parent(m)
    BY <2>2, <2>6
  <2> QED
    BY <1>1, <2>3, <2>4, <2>7
<1>3. ASSUME NEW i \in 1 .. size
      PROVE  slot[1].chunkStart <= slot[i].chunkStart
  <2>1. slot[1].chunkStart \in Nat /\ slot[i].chunkStart \in Nat
    BY <1>1
  <2>2. ~(slot[i].chunkStart < slot[1].chunkStart)
    BY <1>2
  <2> QED
    BY <2>1, <2>2
<1> QED
  BY <1>3

LEMMA InsertAdds ==
  ASSUME IInv, NEW inst \in Insts, NEW start \in Starts, Insert(inst, start)
  PROVE  Abstract!Insert(inst, start)
<1> DEFINE new == size + 1
<1>1. slot' = [slot EXCEPT ![new] = Item(inst, start)] /\ inst \notin Held /\ ret' = ret
      /\ size < Cap
  BY LeavesOfInsert DEF Insert
<1>2. /\ slot \in [Slots -> Cells] /\ size \in Nat /\ new \in Slots
      /\ \A i \in Slots : slot[i].inst # None <=> i <= size
  BY <1>1, Facts DEF Slots
<1>3. slot'[new] = Item(inst, start) /\ \A i \in Slots \ {new} : slot'[i] = slot[i]
  BY <1>1, <1>2
<1>4. Item(inst, start).inst # None /\ slot[new].inst = None
  BY <1>2 DEF Item
<1>5. Contents' = Contents \cup {Item(inst, start)}
  BY <1>2, <1>3, <1>4 DEF Contents, Occupied
<1>6. inst \notin {e.inst : e \in Contents}
  BY <1>1 DEF Contents, Held, Occupied
<1> QED
  BY <1>1, <1>5, <1>6 DEF Abstract!Insert, Abstract!Held, Abstract!Item, Item

LEMMA DeleteTakesLeast ==
  ASSUME IInv, NEW max \in Maxs, Refuse(max) \/ DeleteMin(max)
  PROVE  Abstract!DeleteMin(max)
<1> DEFINE e == slot[1]
<1>1. /\ slot \in [Slots -> Cells] /\ size \in Nat /\ 1 .. size \subseteq Slots
      /\ 1 \in Slots /\ Slots \subseteq Nat /\ \A i \in Slots : i >= 1
      /\ \A i \in Slots : slot[i].chunkStart \in Nat
      /\ \A i \in Slots : slot[i].inst # None <=> i <= size
      /\ \A i, j \in 1 .. size : slot[i].inst = slot[j].inst => i = j
  BY Facts DEF Slots
<1>2. Contents = {slot[i] : i \in 1 .. size}
  <2>1. (\A j \in 1 .. size : j \in Slots /\ j <= size)
        /\ (\A j \in Slots : j <= size => j \in 1 .. size)
    BY <1>1
  <2>2. \A j \in Slots : Occupied(j) <=> j <= size
    BY <1>1 DEF Occupied
  <2>3. {j \in Slots : Occupied(j)} = 1 .. size
    BY <2>1, <2>2, Zenon
  <2> QED
    BY <2>3 DEF Contents
<1>3. CASE size = 0
  <2>1. Contents = {}
    BY <1>1, <1>2, <1>3
  <2>2. ret' = Empty /\ slot' = slot
    BY <1>3 DEF Refuse, DeleteMin
  <2>3. Contents' = Contents
    BY <2>2 DEF Contents, Occupied
  <2> QED
    BY <2>1, <2>2, <2>3 DEF Abstract!DeleteMin, Abstract!Item, Empty, Item
<1>4. CASE size # 0
  <2>1. pc = "idle"
    BY DEF Refuse, DeleteMin
  <2>2. e \in Contents /\ \A f \in Contents : e.chunkStart <= f.chunkStart
    BY <1>1, <1>2, <1>4, <2>1, RootIsLeast
  <2>3. e.chunkStart \in Nat /\ max \in Nat
    BY <1>1
  <2>4. CASE Refuse(max)
    <3>1. e.chunkStart >= max /\ ret' = Item(None, e.chunkStart) /\ slot' = slot
      BY <1>4, <2>4 DEF Refuse
    <3>2. Contents' = Contents
      BY <3>1 DEF Contents, Occupied
    <3> QED
      BY <2>2, <3>1, <3>2 DEF Abstract!DeleteMin, Abstract!IsMin, Abstract!Item, Item
  <2>5. CASE DeleteMin(max)
    <3>1. /\ e.chunkStart < max /\ ret' = e /\ bot = size
          /\ slot' = [slot EXCEPT ![1] = slot[size], ![size] = Empty]
      <4>1. bot = size
        BY <1>1, <1>4 DEF IInv, Frontier
      <4> QED
        BY <2>5, <4>1, Zenon DEF DeleteMin
    <3>2. Empty.inst = None /\ size \in Slots
      BY <1>1, <1>4 DEF Empty, Item
    <3>3. /\ slot'[size] = Empty /\ (size # 1 => slot'[1] = slot[size])
          /\ \A i \in Slots \ {1, size} : slot'[i] = slot[i]
      BY <1>1, <3>1, <3>2
    <3>4. Contents' \subseteq Contents \ {e}
      <4> SUFFICES ASSUME NEW i \in Slots, slot'[i].inst # None
                   PROVE  slot'[i] \in Contents \ {e}
        BY Zenon DEF Contents, Occupied
      <4>1. i # size
        BY <3>2, <3>3
      <4>2. CASE i = 1
        <5>1. size \in 2 .. size /\ slot'[i] = slot[size]
          BY <1>1, <1>4, <3>3, <4>1, <4>2
        <5>2. slot[size].inst # e.inst
          BY <1>1, <5>1
        <5> QED
          BY <1>1, <1>2, <5>1, <5>2
      <4>3. CASE i # 1
        <5>1. slot'[i] = slot[i] /\ i \in 2 .. size
          BY <1>1, <3>3, <4>1, <4>3
        <5>2. slot[i].inst # e.inst
          BY <1>1, <5>1
        <5> QED
          BY <1>1, <1>2, <5>1, <5>2
      <4> QED
        BY <4>2, <4>3
    <3>5. Contents \ {e} \subseteq Contents'
      <4> SUFFICES ASSUME NEW i \in 2 .. size
                   PROVE  slot[i] \in Contents'
        BY <1>1, <1>2
      <4>1. CASE i = size
        <5>1. slot'[1] = slot[i] /\ slot[i].inst # None
          BY <1>1, <3>3, <4>1
        <5> QED
          BY <1>1, <5>1 DEF Contents, Occupied
      <4>2. CASE i # size
        <5>1. slot'[i] = slot[i] /\ slot[i].inst # None /\ i \in Slots
          BY <1>1, <3>3, <4>2
        <5> QED
          BY <5>1 DEF Contents, Occupied
      <4> QED
        BY <4>1, <4>2
    <3>6. ~(e.chunkStart >= max)
      BY <2>3, <3>1
    <3> QED
      BY <2>2, <3>1, <3>4, <3>5, <3>6 DEF Abstract!DeleteMin, Abstract!IsMin
  <2> QED
    BY <2>4, <2>5
<1> QED
  BY <1>3, <1>4

(* class heap is a priority queue: it loses, invents and doubles no        *)
(* instrument, and deleteMin() returns one of least start, or none if that *)
(* is not before maxChunkStart.                                            *)
THEOREM Implements == Spec => PrioQueueSpec
<1>1. Init => Abstract!Init
  BY DEF Init, Abstract!Init, Abstract!Item, Contents, Occupied, Empty, Item
<1>2. IInv /\ [Next]_vars => [Abstract!Next]_<<Contents, ret>>
  <2> SUFFICES ASSUME IInv, [Next]_vars
               PROVE  Abstract!Next \/ UNCHANGED <<Contents, ret>>
    OBVIOUS
  <2>1. ASSUME NEW i \in Insts, NEW s \in Starts, Insert(i, s)
        PROVE  Abstract!Next
    BY <2>1, InsertAdds DEF Abstract!Next
  <2>2. CASE SiftUp
    BY <2>2, SiftUpKeeps DEF SiftUp
  <2>3. ASSUME NEW m \in Maxs, Refuse(m) \/ DeleteMin(m)
        PROVE  Abstract!Next
    BY <2>3, DeleteTakesLeast DEF Abstract!Next
  <2>4. CASE SiftDown
    BY <2>4, SiftDownKeeps DEF SiftDown
  <2>5. CASE UNCHANGED vars
    BY <2>5 DEF vars, Contents, Occupied
  <2> QED
    BY <2>1, <2>2, <2>3, <2>4, <2>5 DEF Next
<1> QED
  BY <1>1, <1>2, Invariance, PTL DEF Spec, PrioQueueSpec, Abstract!Spec
=============================================================================

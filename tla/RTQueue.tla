------------------------------ MODULE RTQueue ------------------------------
(***************************************************************************)
(* The doubly linked list of class RTQueue (heap/rtQueue.cpp) as operators *)
(* on sequences.  An element is [inst, chunkstart, prev]; `next` is the    *)
(* order of the sequence, but `prev` is kept apart because the code does   *)
(* not keep it in step with `next`:                                        *)
(*   "null"     the constructor's value, never assigned since              *)
(*   "linked"   points to the element before this one                      *)
(*   "dangling" points to an element that pop() has deleted                *)
(* An RTQueue is empty of everything when created, so its state is just    *)
(* this sequence; `size` is its length and head/tail its two ends.         *)
(***************************************************************************)
EXTENDS Naturals, Sequences

Links == {"null", "linked", "dangling"}

Elt(inst, start, prev) == [inst |-> inst, chunkstart |-> start, prev |-> prev]

(* pop(): the head is deleted and nothing else is written, so the new head *)
(* keeps a prev that now points to freed memory.                           *)
Pop(q) ==
  [i \in 1 .. Len(q) - 1 |->
     IF i = 1 /\ q[2].prev = "linked" THEN [q[2] EXCEPT !.prev = "dangling"]
                                      ELSE q[i + 1]]

(* Mutant: the comparison the other way round. *)
AppendsEarlier(q, start) == q = <<>> \/ q[Len(q)].chunkstart >= start
(* push() appends when the tail starts no later than the new element. *)
Appends(q, start) == q = <<>> \/ q[Len(q)].chunkstart <= start

(* Mutant: a queue that has a head is taken for an empty one. *)
RestartElt(q, inst, start) == <<Elt(inst, start, "null")>>
AppendElt(q, inst, start) ==
  Append(q, Elt(inst, start, IF q = <<>> THEN "null" ELSE "linked"))

(* Otherwise push() walks back from the tail while elements start later,   *)
(* following prev, and stops at index Stop(q, start): at an element that   *)
(* starts no later, at a null or dangling prev, or after `size` elements.  *)
Stop(q, start) ==
  LET stops == {k \in 1 .. Len(q) : \/ k = 1
                                    \/ q[k].chunkstart <= start
                                    \/ q[k].prev # "linked"}
  IN  CHOOSE k \in stops : \A j \in stops : j <= k

(* The walk reads freed memory: it must continue past an element whose     *)
(* prev dangles.                                                           *)
ReadsFreed(q, start) ==
  /\ ~Appends(q, start)
  /\ LET k == Stop(q, start)
     IN  k > 1 /\ q[k].chunkstart > start /\ q[k].prev = "dangling"

(* "normal" insertion after element k. *)
InsertAfter(q, k, inst, start) ==
  [i \in 1 .. Len(q) + 1 |->
     CASE i <= k     -> q[i]
       [] i = k + 1  -> Elt(inst, start, "linked")
       [] i = k + 2  -> [q[k + 1] EXCEPT !.prev = "linked"]
       [] OTHER      -> q[i - 1]]

(* Insertion at the head, which leaves the prev of the old head alone. *)
InsertHead(q, inst, start) == <<Elt(inst, start, "null")>> \o q

(* push(): the queue afterwards, where ReadsFreed(q, start) is FALSE. *)
Push(q, inst, start) ==
  IF Appends(q, start) THEN AppendElt(q, inst, start)
  ELSE LET k == Stop(q, start)
       IN  IF k > 1 /\ q[k].prev # "null"
           THEN InsertAfter(q, k, inst, start)
           ELSE InsertHead(q, inst, start)

(* nextChunk() and getSize(). *)
NextChunk(q) == q[1].chunkstart
=============================================================================

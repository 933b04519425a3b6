----------------------------- MODULE PrioQueue -----------------------------
(***************************************************************************)
(* What class heap promises the scheduler: a collection of instruments and *)
(* start times from which deleteMin() takes one of least start, provided   *)
(* it starts before the given time.  Between equal starts the choice is    *)
(* free.                                                                   *)
(***************************************************************************)
EXTENDS Naturals

CONSTANTS
  Insts,            \* the instruments that can be scheduled
  Starts,           \* start times
  Maxs,             \* the times deleteMin() is called with
  Cap,              \* bound: no more instruments at a time
  None              \* the NULL instrument

VARIABLES
  items,            \* the instruments held, [inst, chunkStart]
  ret               \* what the last deleteMin() returned

Item(inst, start) == [inst |-> inst, chunkStart |-> start]
Held == {e.inst : e \in items}

Init == items = {} /\ ret = Item(None, 0)

Insert(inst, start) ==
  /\ inst \notin Held
  /\ items' = items \cup {Item(inst, start)}
  /\ UNCHANGED ret

IsMin(e) == e \in items /\ \A f \in items : e.chunkStart <= f.chunkStart

DeleteMin(max) ==
  \/ /\ items = {}
     /\ ret' = Item(None, 0)
     /\ UNCHANGED items
  \/ \E e \in items :
       /\ IsMin(e)
       /\ IF e.chunkStart >= max
          THEN ret' = Item(None, e.chunkStart) /\ UNCHANGED items
          ELSE ret' = e /\ items' = items \ {e}

Next ==
  \/ \E i \in Insts, s \in Starts : Insert(i, s)
  \/ \E m \in Maxs : DeleteMin(m)

Spec == Init /\ [][Next]_<<items, ret>>
=============================================================================

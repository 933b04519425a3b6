----------------------------- MODULE BusQueues -----------------------------
(***************************************************************************)
(* Which of the scheduler's queues an instrument is pushed on, given its   *)
(* BusSlot, and what the scheduler needs of slots and play lists to do     *)
(* what it is for.  The module has no state: Scheduler takes slots and     *)
(* lists as constants, and BusConfig computes them.                        *)
(***************************************************************************)
EXTENDS Integers, Sequences

CONSTANTS
  Notes,            \* the instruments (notes) scores can create
  Slot,             \* Slot[n]: the BusSlot the note is created with
  Bus,              \* bus numbers
  PlayList          \* PlayList[class]: buses in playing order, up to the -1

Classes == {"TO_AUX", "AUX_TO_AUX", "TO_OUT"}

ASSUME SlotAssumption ==
  Slot \in [Notes -> [auxin : Seq(Bus), out : Seq(Bus), auxout : Seq(Bus)]]
ASSUME PlayListAssumption == PlayList \in [Classes -> Seq(Bus)]

Keys == Classes \X Bus          \* rtQueue[bus + offset of the class]

(* BusSlot::Class() *)
ClassOf(slot) ==
  CASE slot.auxin # <<>> /\ slot.auxout # <<>> -> "AUX_TO_AUX"
    [] slot.auxin = <<>> /\ slot.auxout # <<>> /\ slot.out # <<>> ->
                                                  "TO_AUX_AND_OUT"
    [] slot.auxin = <<>> /\ slot.auxout # <<>> /\ slot.out = <<>> -> "TO_AUX"
    [] slot.auxout = <<>> /\ slot.out # <<>>   -> "TO_OUT"
    [] OTHER                                   -> "UNKNOWN"

On(class, buses) == [i \in 1 .. Len(buses) |-> <<class, buses[i]>>]

(* The queues an instrument is pushed on when it leaves the heap; the      *)
(* offsets of TO_AUX_AND_OUT are those the code uses.                      *)
QueuesOf(n) ==
  LET slot == Slot[n]
  IN  CASE ClassOf(slot) = "TO_AUX"     -> On("TO_AUX", slot.auxout)
        [] ClassOf(slot) = "AUX_TO_AUX" -> On("AUX_TO_AUX", slot.auxout)
        [] ClassOf(slot) = "TO_OUT"     -> On("TO_OUT", slot.out)
        [] ClassOf(slot) = "TO_AUX_AND_OUT" ->
             On("AUX_TO_AUX", slot.out) \o On("TO_OUT", slot.auxout)
        [] ClassOf(slot) = "UNKNOWN"    -> <<>>

KeysOf(n) == {QueuesOf(n)[i] : i \in 1 .. Len(QueuesOf(n))}

-----------------------------------------------------------------------------
(* What the theorems of Scheduler rely on.                                 *)

(* No note stays in a queue that is never played.                          *)
AllPlayed ==
  \A n \in Notes : \A k \in KeysOf(n) :
    \E i \in 1 .. Len(PlayList[k[1]]) : PlayList[k[1]][i] = k[2]
(* bus_configs do not mix "out" with "aux-out": of such a slot the buses    *)
(* are pushed on queues of the wrong class.                                *)
OneKind == \A n \in Notes : ClassOf(Slot[n]) # "TO_AUX_AND_OUT"
(* No slot names a bus twice.                                              *)
DistinctBuses ==
  \A n \in Notes : \A i, j \in 1 .. Len(QueuesOf(n)) :
    QueuesOf(n)[i] = QueuesOf(n)[j] => i = j
(* A slot writes either "out" or "aux-out".                                *)
OneOutput == \A n \in Notes : (Slot[n].out = <<>>) # (Slot[n].auxout = <<>>)

(* The classes are played in this order.                                   *)
Earlier(c, d) ==
  <<c, d>> \in {<<"TO_AUX", "AUX_TO_AUX">>, <<"TO_AUX", "TO_OUT">>,
               <<"AUX_TO_AUX", "TO_OUT">>}
(* Play lists name no bus twice, and put a bus before those that its        *)
(* readers write.                                                          *)
NoRepeats ==
  \A c \in Classes : \A i, j \in 1 .. Len(PlayList[c]) :
    PlayList[c][i] = PlayList[c][j] => i = j
Before(from, to) ==
  \/ Earlier(from[1], to[1])
  \/ /\ from[1] = to[1]
     /\ \E i, j \in 1 .. Len(PlayList[to[1]]) :
          i < j /\ PlayList[to[1]][i] = from[2] /\ PlayList[to[1]][j] = to[2]
AuxOrdered ==
  \A n, m \in Notes : \A k \in KeysOf(n), c \in {"TO_AUX", "AUX_TO_AUX"} :
    \A i \in 1 .. Len(Slot[n].auxin) :
      <<c, Slot[n].auxin[i]>> \in KeysOf(m) => Before(<<c, Slot[n].auxin[i]>>, k)
=============================================================================

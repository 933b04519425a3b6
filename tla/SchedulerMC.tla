---------------------------- MODULE SchedulerMC ----------------------------
(***************************************************************************)
(* Instances of Scheduler, each a small score: who plays into which buses, *)
(* and which start times and durations the score passes.                   *)
(***************************************************************************)
EXTENDS Scheduler

SlotOf(auxin, out, auxout) == [auxin |-> auxin, out |-> out, auxout |-> auxout]

(* A source into an aux bus, an effect from there to the next aux bus, and *)
(* an instrument from that one to two output channels.  Starts and lengths *)
(* fall on and between period boundaries.                                  *)
ChainNotes == {"osc", "fx", "mix"}
ChainSlot ==
  [n \in ChainNotes |->
     CASE n = "osc" -> SlotOf(<<>>, <<>>, <<0>>)
       [] n = "fx"  -> SlotOf(<<0>>, <<>>, <<1>>)
       [] n = "mix" -> SlotOf(<<1>>, <<0, 1>>, <<>>)]
ChainBus == {0, 1}
ChainPlayList == [c \in Classes |-> <<0, 1>>]

(* The same, and an instrument that shares an output queue with the last.  *)
MixNotes == ChainNotes \cup {"right"}
MixSlot ==
  [n \in MixNotes |->
     IF n = "right" THEN SlotOf(<<>>, <<1>>, <<>>) ELSE ChainSlot[n]]
MixStarts == {-2, 1}
MixDurs == {0, 3}

(* Instruments on one output bus, with start times a score computed before *)
(* now: by up to a period and a half more than the scheduler looks ahead.  *)
LateNotes == {"a", "b", "c"}
LateSlot == [n \in LateNotes |-> SlotOf(<<>>, <<0>>, <<>>)]
LateBus == {0}
LatePlayList == [c \in Classes |-> <<0>>]
LateStarts == {-5, -4, -3, 0}
LateDurs == {1, 4}
=============================================================================

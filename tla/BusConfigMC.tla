---------------------------- MODULE BusConfigMC ----------------------------
(***************************************************************************)
(* Instances of BusConfig: the slots scores ask for.                       *)
(***************************************************************************)
EXTENDS BusConfig

Slot(auxin, out, auxout) == [auxin |-> auxin, out |-> out, auxout |-> auxout]

(* Four buses, and an instrument between every two of them, the same bus   *)
(* included.                                                               *)
EdgeSlots == {Slot(<<a>>, <<>>, <<b>>) : a, b \in 0 .. 3}

(* Edges between four buses, a source, an effect that reads two buses and  *)
(* a mixer.                                                                *)
AllSlots ==
  {e \in EdgeSlots : e.auxin # e.auxout \/ e.auxin = <<0>>} \cup
  {Slot(<<>>, <<>>, <<2>>), Slot(<<1, 0>>, <<>>, <<2>>), Slot(<<1>>, <<0, 1>>, <<>>)}
=============================================================================

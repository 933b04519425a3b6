----------------------------- MODULE PdObjectMC -----------------------------
(* Instances of PdObject: a bang now and one a vector later, two messages  *)
(* with values and one without, and a note that plays for two vectors.     *)
EXTENDS PdObject

Score(i, v, d, l) == [inst |-> i, val |-> v, due |-> d, len |-> l]
SomeScores ==
  {Score("MAXBANG", "none", 0, 1), Score("MAXBANG", "none", 1, 1),
   Score("MAXMESSAGE", "v1", 0, 1), Score("MAXMESSAGE", "v2", 0, 1),
   Score("MAXMESSAGE", "none", 0, 1), Score("SOUND", "none", 1, 2)}
=============================================================================

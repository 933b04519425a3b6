-------------------------- MODULE ScriptManagerMC --------------------------
(***************************************************************************)
(* Instances of ScriptManager: two scripts, one of which is edited, and    *)
(* two scores, which are only ever compared for identity.                  *)
(***************************************************************************)
EXTENDS ScriptManager, TLC

CONSTANTS f1, t1, t2
OneFile == {f1}
TwoTexts == {t1, t2}
TextSymmetry == Permutations(TwoTexts)
Wide == {-1, 3}
FirstOnly == {0}
=============================================================================

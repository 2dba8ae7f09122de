-------------------------- MODULE MCSkillCommandRun --------------------------
(* A small instance of SkillCommandRun.                                    *)
EXTENDS SkillCommandRun, TLC

CONSTANTS f1, f2, i1, i2

MCTwoFinalizers == {f1, f2}
MCTwoInterrupters == {i1, i2}
MCSymmetry == Permutations(Finalizers) \cup Permutations(Interrupters)
=============================================================================

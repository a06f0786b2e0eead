---------------------------- MODULE MCJudgeManager ----------------------------
(***************************************************************************)
(* Instances of JudgeManager for TLC.                                      *)
(***************************************************************************)
EXTENDS JudgeManager, TLC

CONSTANTS t1, t2, w1, w2

TwoThreads == {t1, t2}
TwoEndpoints == {w1, w2}
OneConfigured == <<w1>>
SlowAndCrash == {"slow", "crash"}
AllButCrash == {"db", "slow", "shutdown"}

ThreadSymmetry == Permutations(TwoThreads)
=============================================================================

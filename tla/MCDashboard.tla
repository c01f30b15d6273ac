------------------------------ MODULE MCDashboard ------------------------------
(* Four lessons in the shape of Days 10 to 13: lesson 2 and its successor 3  *)
(* need a native toolchain, lesson 4 branches off lesson 1 and does not.     *)
(* The two leaves have no check: nothing builds on their gates.  The loader  *)
(* does not ask that a lesson needs what its prerequisites need, so lesson 3 *)
(* may also be offered where lesson 2 is not.                                *)
EXTENDS Dashboard

ChainPrerequisites == <<{}, {1}, {2}, {1}>>
ChainAvailabilities == {1..4, {1, 4}, {1, 3, 4}}
ChainBlocks == <<{"verify"}, {"verify"}, {}, {}>>
ChainNone == [l \in 1..4 |-> {}]
ChainHints == [l \in 1..4 |-> 0]
ChainQuestions == {{}}
================================================================================

--------------------------- MODULE MCInterviewDrill ---------------------------
(* One drill lesson, one hint, one learn block.                              *)
EXTENDS InterviewDrill

DrillNone == <<{}>>
DrillVerify == <<{"drill"}>>
DrillHints == <<1>>
DrillAvailable == {{1}}
DrillQuestions == {{}}
================================================================================

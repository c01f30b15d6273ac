---------------------------- MODULE MCProgressStore ----------------------------
(* A small curriculum for ProgressStore.                                     *)
EXTENDS ProgressStore

\* One lesson with every kind of block and a hint, in the shape of
\* d2-add-ping-test-first with a demonstration check added.
OneNone == <<{}>>
OneAvailable == {{1}, {}}
OneVerify == <<{"vfail", "vpass", "vdemo"}>>
OneMandatory == <<{"vfail", "vpass"}>>
OneHistorical == <<{"vfail"}>>
OneQuiz == <<{"quiz"}>>
OneExplain == <<{"explain"}>>
OneHints == <<1>>
================================================================================

------------------------------- MODULE LessonView -------------------------------
(***************************************************************************)
(* The lesson page of app.js: which lesson is on the screen, its hints and *)
(* the requests behind its buttons.  The script runs one piece at a time,  *)
(* up to its next await; the server answers each request on a thread of    *)
(* its own, so replies arrive in any order, and between two pieces the     *)
(* learner may press whatever is not disabled.                             *)
(*                                                                         *)
(* renderFocus replaces the whole page, buttons and all; a handler that is *)
(* still waiting then works on elements nobody sees.  Pages are numbered,  *)
(* so that a reply can tell whether its own page is still there.           *)
(***************************************************************************)
EXTENDS Integers

CONSTANTS
  ViewLessons,    \* the lessons of the roadmap
  HintCount,      \* hint_count of each
  MaxRuns,        \* bound: checks that are run
  MaxLoads        \* bound: lesson loads and checks, which may load the lesson again

ASSUME LessonViewAssumption ==
  /\ 0 \notin ViewLessons
  /\ {HintCount, MaxRuns, MaxLoads} \subseteq Nat

VARIABLES
  navigation,  \* state.navigation
  shown,       \* state.lesson.id, 0 before the first
  hintIndex,   \* state.hintIndex
  page,        \* the number of the page that renderFocus made last
  zone,        \* the hints to be seen on it
  pressed,     \* the buttons of it that are disabled for a request
  requests,    \* requests under way
  used,        \* the server's hints_used of each lesson
  runs,        \* history: checks run so far
  picks,       \* history: lessons picked from the roadmap so far
  wanted       \* history: the lesson the learner asked for last

viewVars ==
  <<navigation, shown, hintIndex, page, zone, pressed, requests, used, runs, picks, wanted>>

screenVars == <<shown, hintIndex, page, zone>>

Nothing == 0

LessonViewInit ==
  /\ navigation = 0
  /\ shown = Nothing
  /\ hintIndex = 0
  /\ page = 0
  /\ zone = {}
  /\ pressed = {}
  /\ requests = {}
  /\ used = [l \in ViewLessons |-> 0]
  /\ runs = 0
  /\ picks = 0
  /\ wanted = Nothing

\* A handler at its await: its closure, and the reply once the server has made it.
Request(kind, lesson, index) ==
  [kind |-> kind, lesson |-> lesson, index |-> index, token |-> navigation', page |-> page,
   picks |-> picks, answered |-> FALSE, reply |-> 0]

Ask(r) == requests' = requests \cup {r}

\* renderFocus: a new page, with the hints that the payload says are revealed.
RenderFocus(lesson, revealed) ==
  /\ shown' = lesson
  /\ zone' = 0..(revealed - 1)
  /\ page' = page + 1
  /\ pressed' = {}

--------------------------------------------------------------------------------
(* Navigation.                                                               *)

\* A row of the roadmap is clicked, or the page is opened: loadLesson, up to its await.
PickLesson(l) ==
  /\ navigation + runs < MaxLoads
  /\ navigation' = navigation + 1
  /\ Ask(Request("start", l, 0))
  /\ picks' = picks + 1
  /\ wanted' = l
  /\ UNCHANGED <<screenVars, pressed, used, runs>>

\* The rest of loadLesson: a newer navigation wins.
LessonArrives(r) ==
  /\ r \in requests /\ r.kind = "start" /\ r.answered
  /\ requests' = requests \ {r}
  /\ IF r.token = navigation
     THEN RenderFocus(r.lesson, r.reply) /\ hintIndex' = r.reply
     ELSE UNCHANGED <<screenVars, pressed>>
  /\ UNCHANGED <<navigation, used, runs, picks, wanted>>

\* Continue, up to its await (guardedClick disables it before).
PressContinue ==
  /\ shown # Nothing
  /\ "continue" \notin pressed
  /\ pressed' = pressed \cup {"continue"}
  /\ UNCHANGED <<navigation, screenVars, used, runs, picks, wanted>>
  /\ Ask(Request("complete", shown, 0))

\* Mutant: no handler looks at the token again.
Stale_Never(r) == FALSE

\* A lesson load has begun since the button was pressed.
Stale(r) == r.token # navigation

\* The reply to Continue: refused, or the lesson to go to.  When the learner has
\* picked another lesson since it was pressed, that is still what the learner wants.
ContinueArrives(r) ==
  /\ r \in requests /\ r.kind = "complete" /\ r.answered
  /\ CASE Stale(r) ->
            /\ requests' = requests \ {r}
            /\ UNCHANGED <<navigation, pressed, wanted>>
       [] ~Stale(r) /\ r.reply = Nothing ->
            /\ requests' = requests \ {r}
            /\ pressed' = IF r.page = page THEN pressed \ {"continue"} ELSE pressed
            /\ UNCHANGED <<navigation, wanted>>
       [] OTHER ->
            /\ navigation + runs < MaxLoads
            /\ navigation' = navigation + 1
            /\ requests' = (requests \ {r}) \cup {Request("start", r.reply, 0)}
            /\ wanted' = IF r.picks = picks THEN r.reply ELSE wanted
            /\ UNCHANGED pressed
  /\ UNCHANGED <<screenVars, used, runs, picks>>

--------------------------------------------------------------------------------
(* Hints and checks.                                                         *)

\* Hint, up to its await.
PressHint ==
  /\ shown # Nothing
  /\ hintIndex < HintCount
  /\ "hint" \notin pressed
  /\ pressed' = pressed \cup {"hint"}
  /\ UNCHANGED <<navigation, screenVars, used, runs, picks, wanted>>
  /\ Ask(Request("hint", shown, hintIndex))

\* Mutant: the reply is appended to the zone that is on the screen.
HintArrives_AnyZone(r) ==
  /\ r \in requests /\ r.kind = "hint" /\ r.answered
  /\ requests' = requests \ {r}
  /\ IF Stale(r)
     THEN UNCHANGED <<screenVars, pressed>>
     ELSE /\ hintIndex' = r.reply
          /\ zone' = zone \cup {r.index} /\ pressed' = pressed \ {"hint"}
          /\ UNCHANGED <<shown, page>>
  /\ UNCHANGED <<navigation, used, runs, picks, wanted>>

\* The reply: the position comes from the server.  On a page that has been replaced
\* the hint is appended to a zone that nobody sees.
HintArrives(r) ==
  /\ r \in requests /\ r.kind = "hint" /\ r.answered
  /\ requests' = requests \ {r}
  /\ IF Stale(r)
     THEN UNCHANGED <<screenVars, pressed>>
     ELSE /\ hintIndex' = r.reply
          /\ IF r.page = page
             THEN zone' = zone \cup {r.index} /\ pressed' = pressed \ {"hint"}
             ELSE UNCHANGED <<zone, pressed>>
          /\ UNCHANGED <<shown, page>>
  /\ UNCHANGED <<navigation, used, runs, picks, wanted>>

\* Run check, up to its first await.
PressRun ==
  /\ shown # Nothing
  /\ runs < MaxRuns
  /\ navigation + runs < MaxLoads
  /\ "run" \notin pressed
  /\ runs' = runs + 1
  /\ pressed' = pressed \cup {"run"}
  /\ UNCHANGED <<navigation, screenVars, used, picks, wanted>>
  /\ Ask(Request("validate", shown, 0))

\* The verdict.  When the check is mandatory or passed, the lesson is fetched again,
\* to the second await; otherwise, or with an error, the button is enabled.
VerdictArrives(r) ==
  /\ r \in requests /\ r.kind = "validate" /\ r.answered
  /\ \/ /\ requests' = (requests \ {r}) \cup {[r EXCEPT !.kind = "lesson", !.answered = FALSE]}
        /\ UNCHANGED pressed
     \/ /\ requests' = requests \ {r}
        /\ pressed' = IF r.page = page THEN pressed \ {"run"} ELSE pressed
  /\ UNCHANGED <<navigation, screenVars, used, runs, picks, wanted>>

\* The lesson again: the page is made anew when it is still that lesson's.
FreshArrives(r) ==
  /\ r \in requests /\ r.kind = "lesson" /\ r.answered
  /\ requests' = requests \ {r}
  /\ IF shown = r.lesson
     THEN RenderFocus(r.lesson, r.reply) /\ UNCHANGED hintIndex
     ELSE UNCHANGED <<screenVars, pressed>>
  /\ UNCHANGED <<navigation, used, runs, picks, wanted>>

--------------------------------------------------------------------------------
(* The server, one thread per request.                                       *)

Replied(r, reply) ==
  requests' = (requests \ {r}) \cup {[r EXCEPT !.answered = TRUE, !.reply = reply]}

Larger(a, b) == IF a > b THEN a ELSE b

\* What each handler does to hints_used, and what its reply says.
Serve(r) ==
  /\ r \in requests /\ ~r.answered
  /\ CASE r.kind = "hint" ->
            /\ used' = [used EXCEPT ![r.lesson] = Larger(@, r.index + 1)]
            /\ Replied(r, used'[r.lesson])
       [] r.kind \in {"start", "lesson"} -> Replied(r, used[r.lesson]) /\ UNCHANGED used
       [] r.kind = "complete" ->
            (\E next \in ViewLessons \cup {Nothing} : Replied(r, next)) /\ UNCHANGED used
       [] OTHER -> Replied(r, 0) /\ UNCHANGED used
  /\ UNCHANGED <<navigation, screenVars, pressed, runs, picks, wanted>>

LessonViewNext ==
  \/ \E l \in ViewLessons : PickLesson(l)
  \/ PressContinue
  \/ PressHint
  \/ PressRun
  \/ \E r \in requests :
       \/ LessonArrives(r) \/ ContinueArrives(r) \/ HintArrives(r)
       \/ VerdictArrives(r) \/ FreshArrives(r)
       \/ Serve(r)

LessonViewSpec == LessonViewInit /\ [][LessonViewNext]_viewVars

--------------------------------------------------------------------------------

\* "Two overlapping navigations can finish out of order, and the slower one would then
\* paint the lesson the learner already moved away from"; "stand down if the learner
\* has since picked a lesson": when no load is under way and no Continue either, the
\* lesson on the screen is the one that was asked for last.
NewestChoiceShown ==
  (\A r \in requests : r.kind \notin {"start", "complete"}) => shown = wanted

\* "A hint you already spent should still be readable" (app.js:191), and none that was not
\* spent: whatever replies overtake one another, every hint on the screen is one of the
\* lesson on the screen and is counted by the server.
ShownHintsAreCounted == shown # Nothing => zone \subseteq 0..(used[shown] - 1)

\* "A reply for this lesson arriving after the learner moved to another one would
\* overwrite the position that lesson had just initialised - and its first hint would be
\* skipped" (app.js:205-208): the position on the page is one that the server's count of
\* the lesson on the page allows for.  Not so in the code.
PositionIsItsLessons == shown # Nothing => hintIndex <= used[shown]

\* Every hint that the page counts as revealed is to be read on it.  Not so in the code
\* either, and not only for want of the above: a page that is made anew (the same lesson
\* picked again, or fetched again after a check) while a hint is on its way shows the hints
\* of a moment ago, and the hint goes to the page that is gone.
NoHintSkipped == 0..(hintIndex - 1) \subseteq zone
================================================================================

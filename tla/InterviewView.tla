----------------------------- MODULE InterviewView -----------------------------
(***************************************************************************)
(* The interview page of app.js: a question on the screen, a field and a   *)
(* button, and the requests behind them.  The script runs one piece at a   *)
(* time, up to its next await; the server answers each request on a thread *)
(* of its own, so replies arrive in any order, and between two pieces the  *)
(* learner may press whatever is not disabled.                             *)
(*                                                                         *)
(* A question is named by the token of the request that brought it: what   *)
(* counts here is which showing an answer and its feedback belong to.      *)
(***************************************************************************)
EXTENDS Integers

CONSTANT MaxQuestions  \* bound: questions asked for

ASSUME InterviewViewAssumption == MaxQuestions \in Nat

VARIABLES
  token,     \* interviewToken
  loading,   \* the tokens of GET /api/interview requests under way
  question,  \* interviewCurrent, 0 before the first
  disabled,  \* interview-submit is disabled
  feedback,  \* the question whose feedback is on the screen, 0 for none
  posts,     \* answers under way: [token, question, copy, recorded]
  posted,    \* history: how often each question's answer was posted
  recorded,  \* history: how often the server recorded it
  lost       \* history: has a request or a reply been lost?

interviewVars ==
  <<token, loading, question, disabled, feedback, posts, posted, recorded, lost>>

Questions == 1..MaxQuestions

InterviewInit ==
  /\ token = 0
  /\ loading = {}
  /\ question = 0
  /\ disabled = FALSE
  /\ feedback = 0
  /\ posts = {}
  /\ posted = [q \in Questions |-> 0]
  /\ recorded = [q \in Questions |-> 0]
  /\ lost = FALSE

\* nextInterviewQuestion, up to its await: the page is opened, or Next is pressed.
NextQuestion ==
  /\ token < MaxQuestions
  /\ token' = token + 1
  /\ loading' = loading \cup {token'}
  /\ UNCHANGED <<question, disabled, feedback, posts, posted, recorded, lost>>

\* The rest of it: only the newest question is put on the screen.
QuestionArrives(t) ==
  /\ t \in loading
  /\ loading' = loading \ {t}
  /\ IF t = token
     THEN question' = t /\ disabled' = FALSE /\ feedback' = 0
     ELSE UNCHANGED <<question, disabled, feedback>>
  /\ UNCHANGED <<token, posts, posted, recorded, lost>>

Post == [token |-> token, question |-> question, copy |-> posted[question], recorded |-> FALSE]

\* GET /api/interview fails: the old question stays.
QuestionFails(t) ==
  /\ t \in loading
  /\ loading' = loading \ {t}
  /\ lost' = TRUE
  /\ UNCHANGED <<token, question, disabled, feedback, posts, posted, recorded>>

\* Mutant: the button is looked at after the await, not before it.
SubmitAnswer_StillEnabled ==
  /\ question # 0
  /\ posts' = posts \cup {Post}
  /\ posted' = [posted EXCEPT ![question] = @ + 1]
  /\ disabled' = TRUE
  /\ UNCHANGED <<token, loading, question, feedback, recorded, lost>>

\* submitInterviewAnswer, up to its await.  Bound: an answer is posted twice at most.
SubmitAnswer ==
  /\ question # 0
  /\ ~disabled
  /\ posted[question] < 2
  /\ posts' = posts \cup {Post}
  /\ posted' = [posted EXCEPT ![question] = @ + 1]
  /\ disabled' = TRUE
  /\ UNCHANGED <<token, loading, question, feedback, recorded, lost>>

\* record_interview, on the server.
RecordAnswer(p) ==
  /\ p \in posts
  /\ ~p.recorded
  /\ posts' = (posts \ {p}) \cup {[p EXCEPT !.recorded = TRUE]}
  /\ recorded' = [recorded EXCEPT ![p.question] = @ + 1]
  /\ UNCHANGED <<token, loading, question, disabled, feedback, posted, lost>>

\* The reply: its feedback is shown unless another question was asked for since.
FeedbackArrives(p) ==
  /\ p \in posts
  /\ p.recorded
  /\ posts' = posts \ {p}
  /\ IF p.token = token
     THEN feedback' = p.question /\ disabled' = TRUE
     ELSE UNCHANGED <<feedback, disabled>>
  /\ UNCHANGED <<token, loading, question, posted, recorded, lost>>

\* fetch rejects, before the server has the answer or after: the button is enabled.
AnswerFails(p) ==
  /\ p \in posts
  /\ lost' = TRUE
  /\ posts' = posts \ {p}
  /\ disabled' = FALSE
  /\ UNCHANGED <<token, loading, question, feedback, posted, recorded>>

InterviewNext ==
  \/ NextQuestion
  \/ \E t \in loading : QuestionArrives(t) \/ QuestionFails(t)
  \/ SubmitAnswer
  \/ \E p \in posts : RecordAnswer(p) \/ FeedbackArrives(p) \/ AnswerFails(p)

InterviewSpec == InterviewInit /\ [][InterviewNext]_interviewVars

--------------------------------------------------------------------------------

\* "One answer was recorded several times - inflating concept mastery and letting a
\* single answer submitted five times satisfy the Day 14 drill": as long as no request
\* is lost, the answer to a question that was shown is recorded once, however fast
\* the learner clicks and however late the replies are.
AnsweredOnce == ~lost => \A q \in Questions : recorded[q] <= 1

\* "Its feedback must not land under a different question": what is on the screen
\* belongs together.
FeedbackUnderItsQuestion == feedback \in {0, question}
================================================================================

----------------------------- MODULE BrowserProofs ------------------------------
(***************************************************************************)
(* Proofs about the two pages of the dashboard.                            *)
(*                                                                         *)
(* The lesson page shows what the learner chose last, and on it the hints  *)
(* that the server counts for it, for any set of lessons, any number of    *)
(* hints, navigations and checks, and replies in any order.  The interview *)
(* page counts an answer once, whatever the number of questions and the    *)
(* order of the replies.                                                   *)
(***************************************************************************)
EXTENDS InterviewView, LessonView, TLAPS

--------------------------------------------------------------------------------
(* The interview page.                                                       *)

Posts ==
  [token : Nat, question : Questions, copy : Nat, recorded : BOOLEAN]

InterviewTyped ==
  /\ token \in 0..MaxQuestions
  /\ loading \subseteq Questions
  /\ question \in 0..MaxQuestions
  /\ disabled \in BOOLEAN
  /\ posts \subseteq Posts
  /\ posted \in [Questions -> Nat]
  /\ recorded \in [Questions -> Nat]
  /\ lost \in BOOLEAN

\* Tokens are handed out in order: what is on the screen or being loaded has been
\* asked for, and what is being loaded is not on the screen.
Ordered ==
  /\ question <= token
  /\ \A t \in loading : t <= token /\ t # question

\* A question that is not yet on the screen has no answer, and one that is has none
\* as long as its button is enabled.
Unanswered ==
  /\ \A q \in Questions : q > token \/ q \in loading => posted[q] = 0
  /\ question # 0 /\ ~disabled => posted[question] = 0

\* Every question has at most one post, and the server has recorded it only once that
\* post says so.
OnePost ==
  /\ \A q \in Questions : recorded[q] <= posted[q] /\ posted[q] <= 1
  /\ \A p \in posts : posted[p.question] = 1
  /\ \A p \in posts : ~p.recorded => recorded[p.question] = 0
  /\ \A p, r \in posts : p.question = r.question => p = r

AnswerInv == InterviewTyped /\ Ordered /\ (~lost => Unanswered /\ OnePost)

--------------------------------------------------------------------------------

\* The page as it is loaded.
LEMMA InterviewInitHolds == InterviewInit => AnswerInv
<1> SUFFICES ASSUME InterviewInit
             PROVE  AnswerInv
  OBVIOUS
<1> USE InterviewViewAssumption DEF InterviewInit, Questions
<1>1. InterviewTyped
  <2>1. posts \subseteq Posts /\ loading \subseteq Questions
    OBVIOUS
  <2>2. 0 \in Nat /\ 0 \in 0..MaxQuestions
    OBVIOUS
  <2>3. posted \in [Questions -> Nat] /\ recorded \in [Questions -> Nat]
    OBVIOUS
  <2> QED
    BY <2>1, <2>2, <2>3 DEF InterviewTyped
<1>2. Ordered
  BY DEF Ordered
<1>3. Unanswered
  <2>1. \A q \in Questions : posted[q] = 0
    OBVIOUS
  <2> QED
    BY <2>1 DEF Unanswered
<1>4. OnePost
  BY DEF OnePost
<1> QED
  BY <1>1, <1>2, <1>3, <1>4 DEF AnswerInv

\* No step loses the order, and none, as long as nothing is lost, makes a second post.
LEMMA InterviewStep == AnswerInv /\ [InterviewNext]_interviewVars => AnswerInv'
<1> SUFFICES ASSUME AnswerInv, [InterviewNext]_interviewVars
             PROVE  AnswerInv'
  OBVIOUS
<1> USE InterviewViewAssumption DEF AnswerInv, InterviewTyped, Ordered, Questions
<1>1. CASE NextQuestion
  BY <1>1 DEF NextQuestion, Unanswered, OnePost
<1>2. ASSUME NEW t \in loading, QuestionArrives(t)
      PROVE  AnswerInv'
  BY <1>2 DEF QuestionArrives, Unanswered, OnePost
<1>3. ASSUME NEW t \in loading, QuestionFails(t)
      PROVE  AnswerInv'
  BY <1>3 DEF QuestionFails
<1>4. CASE SubmitAnswer
  <2>1. question \in Questions /\ posted[question] \in Nat /\ Post \in Posts
    BY <1>4 DEF SubmitAnswer, Post, Posts
  <2>2. /\ posts' = posts \cup {Post}
        /\ Post.question = question /\ Post.recorded = FALSE
        /\ posted' = [posted EXCEPT ![question] = posted[question] + 1]
        /\ disabled' = TRUE
        /\ UNCHANGED <<token, loading, question, recorded, lost>>
    BY <1>4 DEF SubmitAnswer, Post
  <2> HIDE DEF Post
  <2>3. InterviewTyped' /\ Ordered'
    BY <2>1, <2>2
  <2>4. ASSUME ~lost
        PROVE  Unanswered' /\ OnePost'
    <3>1. posted[question] = 0
      BY <1>4, <2>1, <2>4 DEF SubmitAnswer, Unanswered
    <3>2. \A p \in posts : p.question # question /\ p.question \in Questions
      BY <2>4, <3>1 DEF OnePost, Posts
    <3>3. \A q \in Questions : posted'[q] = IF q = question THEN 1 ELSE posted[q]
      BY <2>1, <2>2, <3>1
    <3>4. Unanswered'
      BY <2>1, <2>2, <2>4, <3>3 DEF Unanswered
    <3>5. OnePost'
      BY <2>1, <2>2, <2>4, <3>1, <3>2, <3>3 DEF OnePost
    <3> QED
      BY <3>4, <3>5
  <2> QED
    BY <2>2, <2>3, <2>4
<1>5. ASSUME NEW p \in posts, RecordAnswer(p)
      PROVE  AnswerInv'
  <2> DEFINE r == [p EXCEPT !.recorded = TRUE]
  <2>1. /\ p.question \in Questions /\ ~p.recorded
        /\ r \in Posts /\ r.question = p.question /\ r.recorded
    BY <1>5 DEF RecordAnswer, Posts
  <2>2. /\ posts' = (posts \ {p}) \cup {r}
        /\ recorded' = [recorded EXCEPT ![p.question] = recorded[p.question] + 1]
        /\ UNCHANGED <<token, loading, question, disabled, posted, lost>>
    BY <1>5 DEF RecordAnswer
  <2> HIDE DEF r
  <2>3. InterviewTyped' /\ Ordered'
    BY <2>1, <2>2
  <2>4. ASSUME ~lost
        PROVE  Unanswered' /\ OnePost'
    <3>1. recorded[p.question] = 0 /\ posted[p.question] = 1
      BY <2>1, <2>4 DEF OnePost
    <3>2. \A s \in posts \ {p} : s.question # p.question /\ s.question \in Questions
      BY <2>4 DEF OnePost, Posts
    <3>3. \A q \in Questions : recorded'[q] = IF q = p.question THEN 1 ELSE recorded[q]
      BY <2>1, <2>2, <3>1
    <3>4. Unanswered'
      BY <2>2, <2>4 DEF Unanswered
    <3>5. OnePost'
      BY <2>1, <2>2, <2>4, <3>1, <3>2, <3>3 DEF OnePost
    <3> QED
      BY <3>4, <3>5
  <2> QED
    BY <2>2, <2>3, <2>4
<1>6. ASSUME NEW p \in posts, FeedbackArrives(p)
      PROVE  AnswerInv'
  BY <1>6 DEF FeedbackArrives, Unanswered, OnePost
<1>7. ASSUME NEW p \in posts, AnswerFails(p)
      PROVE  AnswerInv'
  BY <1>7 DEF AnswerFails
<1>8. CASE UNCHANGED interviewVars
  BY <1>8 DEF interviewVars, Unanswered, OnePost
<1> QED
  BY <1>1, <1>2, <1>3, <1>4, <1>5, <1>6, <1>7, <1>8 DEF InterviewNext

\* The invariant of the page, for any number of questions.
THEOREM AnswerInvariance == InterviewSpec => []AnswerInv
<1>1. InterviewInit => AnswerInv
  BY InterviewInitHolds
<1>2. AnswerInv /\ [InterviewNext]_interviewVars => AnswerInv'
  BY InterviewStep
<1> QED
  BY <1>1, <1>2, PTL DEF InterviewSpec

\* As long as no request is lost, the answer to a question that was shown is recorded
\* once, however often its button is pressed and however late the replies are.
THEOREM AnswersCountOnce == InterviewSpec => []AnsweredOnce
<1>1. AnswerInv => AnsweredOnce
  BY DEF AnswerInv, InterviewTyped, OnePost, AnsweredOnce
<1> QED
  BY <1>1, AnswerInvariance, PTL

--------------------------------------------------------------------------------
(* The lesson page: requests and replies.                                    *)

Requests ==
  [kind : {"start", "complete", "hint", "validate", "lesson"}, lesson : ViewLessons,
   index : Nat, token : Nat, page : Nat, picks : Nat, answered : BOOLEAN,
   reply : Nat \cup ViewLessons]

\* Continue is answered with a lesson or a refusal, everything else with a number.
ReplyTyped(r) ==
  r.reply \in IF r.kind = "complete" THEN ViewLessons \cup {Nothing} ELSE Nat

TypeOK ==
  /\ navigation \in Nat
  /\ shown \in ViewLessons \cup {Nothing}
  /\ hintIndex \in Nat
  /\ page \in Nat
  /\ zone \subseteq Nat
  /\ requests \subseteq Requests
  /\ \A r \in requests : ReplyTyped(r)
  /\ used \in [ViewLessons -> Nat]
  /\ runs \in Nat
  /\ picks \in Nat
  /\ wanted \in ViewLessons \cup {Nothing}

\* A load of the newest navigation that is under way.
Loading(r) == r.kind = "start" /\ r.token = navigation

\* Requests are of navigations so far; a load under way that is not outdated is of the
\* lesson asked for last, and without one that lesson is on the screen; a Continue that
\* is not outdated was pressed after the last pick.
NewestInv ==
  /\ \A r \in requests :
       /\ r.token <= navigation
       /\ Loading(r) => r.lesson = wanted
       /\ r.kind = "complete" /\ ~Stale(r) => r.picks = picks
  /\ shown = wanted \/ \E r \in requests : Loading(r)

\* A request is of this page or of an earlier one; a hint asked for on this page is of
\* the lesson on it.  A hint that was served is counted, and no reply about a lesson is
\* ahead of the server.
RequestInv(r) ==
  /\ r.page <= page
  /\ r.kind = "hint" /\ r.page = page => r.lesson = shown
  /\ r.kind = "hint" /\ r.answered => r.index < used[r.lesson]
  /\ r.kind \in {"start", "lesson"} /\ r.answered => r.reply <= used[r.lesson]

HintInv == ShownHintsAreCounted /\ \A r \in requests : RequestInv(r)

--------------------------------------------------------------------------------
(* Types.                                                                    *)

\* The closure of a handler at its await.
LEMMA RequestTyped ==
  ASSUME TypeOK, NEW kind \in {"start", "complete", "hint", "validate", "lesson"},
         NEW lesson \in ViewLessons, NEW index \in Nat, navigation' \in Nat
  PROVE  /\ Request(kind, lesson, index) \in Requests
         /\ ReplyTyped(Request(kind, lesson, index))
  BY DEF Request, Requests, ReplyTyped, TypeOK, Nothing

\* A reply leaves everything else of a request as it was.
LEMMA ReplyMade ==
  ASSUME NEW r \in Requests, NEW reply \in Nat \cup ViewLessons,
         reply \in IF r.kind = "complete" THEN ViewLessons \cup {Nothing} ELSE Nat
  PROVE  LET q == [r EXCEPT !.answered = TRUE, !.reply = reply]
         IN  /\ q \in Requests /\ ReplyTyped(q)
             /\ q.kind = r.kind /\ q.lesson = r.lesson /\ q.index = r.index
             /\ q.token = r.token /\ q.page = r.page /\ q.picks = r.picks
             /\ q.answered = TRUE /\ q.reply = reply
  BY DEF Requests, ReplyTyped

\* Fetching the lesson again goes on from the request for the verdict.
LEMMA LessonFetched ==
  ASSUME NEW r \in Requests, ReplyTyped(r), r.kind = "validate"
  PROVE  LET q == [r EXCEPT !.kind = "lesson", !.answered = FALSE]
         IN  /\ q \in Requests /\ ReplyTyped(q)
             /\ q.kind = "lesson" /\ q.token = r.token /\ ~q.answered
  BY DEF Requests, ReplyTyped

\* renderFocus keeps the page's variables typed.
LEMMA RenderTyped ==
  ASSUME TypeOK, NEW l \in ViewLessons, NEW n \in Nat, RenderFocus(l, n)
  PROVE  shown' \in ViewLessons /\ page' \in Nat /\ zone' \subseteq Nat
  BY DEF TypeOK, RenderFocus

\* Serving a request, in one disjunct for each kind of it.
LEMMA ServeCases ==
  ASSUME TypeOK, NEW r \in requests, Serve(r)
  PROVE  /\ ~r.answered
         /\ UNCHANGED <<navigation, screenVars, pressed, runs, picks, wanted>>
         /\ used' \in [ViewLessons -> Nat]
         /\ \/ /\ r.kind = "hint"
               /\ used' = [used EXCEPT ![r.lesson] = Larger(@, r.index + 1)]
               /\ Replied(r, used'[r.lesson])
            \/ r.kind \in {"start", "lesson"} /\ Replied(r, used[r.lesson]) /\ UNCHANGED used
            \/ /\ r.kind = "complete" /\ UNCHANGED used
               /\ \E next \in ViewLessons \cup {Nothing} : Replied(r, next)
            \/ r.kind = "validate" /\ Replied(r, 0) /\ UNCHANGED used
<1>1. r \in Requests
  BY DEF TypeOK
<1>2. CASE r.kind = "hint"
  <2>1. /\ used' = [used EXCEPT ![r.lesson] = Larger(@, r.index + 1)]
        /\ Replied(r, used'[r.lesson])
    BY <1>2 DEF Serve
  <2>2. used' \in [ViewLessons -> Nat]
    BY <1>1, <2>1 DEF Requests, Larger, TypeOK
  <2> QED
    BY <1>2, <2>1, <2>2 DEF Serve
<1>3. CASE r.kind \in {"start", "lesson"}
  <2>1. Replied(r, used[r.lesson]) /\ UNCHANGED used
    BY <1>3 DEF Serve
  <2> QED
    BY <1>3, <2>1 DEF Serve, TypeOK
<1>4. CASE r.kind = "complete"
  <2>1. (\E next \in ViewLessons \cup {Nothing} : Replied(r, next)) /\ UNCHANGED used
    BY <1>4 DEF Serve
  <2> QED
    BY <1>4, <2>1 DEF Serve, TypeOK
<1>5. CASE r.kind = "validate"
  <2>1. Replied(r, 0) /\ UNCHANGED used
    BY <1>5 DEF Serve
  <2> QED
    BY <1>5, <2>1 DEF Serve, TypeOK
<1> QED
  BY <1>1, <1>2, <1>3, <1>4, <1>5 DEF Requests

\* A served request is replaced by itself with its reply.
LEMMA ServedIsReplied ==
  ASSUME TypeOK, NEW r \in requests, Serve(r)
  PROVE  \E q \in Requests :
           /\ requests' = (requests \ {r}) \cup {q}
           /\ ReplyTyped(q) /\ q.answered
           /\ q.kind = r.kind /\ q.lesson = r.lesson /\ q.index = r.index
           /\ q.token = r.token /\ q.page = r.page /\ q.picks = r.picks
           /\ q.kind = "hint" => q.reply = used'[r.lesson]
           /\ q.kind \in {"start", "lesson"} => q.reply = used[r.lesson]
<1>1. r \in Requests /\ r.lesson \in ViewLessons
  BY DEF TypeOK, Requests
<1>2. PICK reply \in Nat \cup ViewLessons \cup {Nothing} :
        /\ Replied(r, reply)
        /\ reply \in IF r.kind = "complete" THEN ViewLessons \cup {Nothing} ELSE Nat
        /\ r.kind = "hint" => reply = used'[r.lesson]
        /\ r.kind \in {"start", "lesson"} => reply = used[r.lesson]
  BY <1>1, ServeCases DEF TypeOK
<1>3. reply \in Nat \cup ViewLessons
  BY <1>2 DEF Nothing
<1> DEFINE q == [r EXCEPT !.answered = TRUE, !.reply = reply]
<1>4. requests' = (requests \ {r}) \cup {q}
  BY <1>2 DEF Replied
<1>5. /\ q \in Requests /\ ReplyTyped(q)
      /\ q.kind = r.kind /\ q.lesson = r.lesson /\ q.index = r.index
      /\ q.token = r.token /\ q.page = r.page /\ q.picks = r.picks
      /\ q.answered = TRUE /\ q.reply = reply
  BY <1>1, <1>2, <1>3, ReplyMade
<1> HIDE DEF q
<1> QED
  BY <1>2, <1>4, <1>5

\* The reply to Continue: outdated, refused, or the next lesson.
LEMMA ContinueCases ==
  ASSUME NEW r, ContinueArrives(r)
  PROVE  /\ r \in requests /\ r.kind = "complete" /\ r.answered
         /\ UNCHANGED <<screenVars, used, runs, picks>>
         /\ \/ Stale(r) /\ requests' = requests \ {r} /\ UNCHANGED <<navigation, wanted>>
            \/ ~Stale(r) /\ requests' = requests \ {r} /\ UNCHANGED <<navigation, wanted>>
            \/ /\ ~Stale(r) /\ r.reply # Nothing /\ navigation' = navigation + 1
               /\ requests' = (requests \ {r}) \cup {Request("start", r.reply, 0)}
               /\ wanted' = IF r.picks = picks THEN r.reply ELSE wanted
<1>1. CASE Stale(r)
  BY <1>1 DEF ContinueArrives
<1>2. CASE ~Stale(r) /\ r.reply = Nothing
  BY <1>2 DEF ContinueArrives
<1>3. CASE ~Stale(r) /\ r.reply # Nothing
  BY <1>3 DEF ContinueArrives
<1> QED
  BY <1>1, <1>2, <1>3

\* Pressing Hint, Run check or Continue sends a request of this page's lesson.
LEMMA PressCases ==
  ASSUME TypeOK, PressHint \/ PressRun \/ PressContinue
  PROVE  \E kind \in {"hint", "validate", "complete"} :
           /\ shown \in ViewLessons
           /\ requests' = requests \cup {Request(kind, shown, IF kind = "hint" THEN hintIndex
                                                              ELSE 0)}
           /\ UNCHANGED <<navigation, screenVars, used, picks, wanted>> /\ runs' \in Nat
<1>1. CASE PressHint
  BY <1>1 DEF PressHint, Ask, TypeOK
<1>2. CASE PressRun
  BY <1>2 DEF PressRun, Ask, TypeOK
<1>3. CASE PressContinue
  BY <1>3 DEF PressContinue, Ask, TypeOK
<1> QED
  BY <1>1, <1>2, <1>3

\* Every step keeps the types.
LEMMA TypeStep == TypeOK /\ [LessonViewNext]_viewVars => TypeOK'
<1> SUFFICES ASSUME TypeOK, [LessonViewNext]_viewVars PROVE TypeOK'
  OBVIOUS
<1>1. ASSUME NEW l \in ViewLessons, PickLesson(l) PROVE TypeOK'
  <2>1. /\ navigation' \in Nat /\ picks' \in Nat /\ wanted' = l
        /\ UNCHANGED <<shown, hintIndex, page, zone, used, runs>>
        /\ requests' = requests \cup {Request("start", l, 0)}
    BY <1>1 DEF PickLesson, TypeOK, screenVars, Ask
  <2>2. requests' \subseteq Requests /\ \A q \in requests' : ReplyTyped(q)
    BY <2>1, RequestTyped DEF TypeOK
  <2> QED
    BY <2>1, <2>2 DEF TypeOK
<1>2. CASE PressHint \/ PressRun \/ PressContinue
  <2>1. PICK kind \in {"hint", "validate", "complete"} :
           /\ shown \in ViewLessons
           /\ requests' = requests \cup {Request(kind, shown, IF kind = "hint" THEN hintIndex
                                                              ELSE 0)}
           /\ UNCHANGED <<navigation, screenVars, used, picks, wanted>> /\ runs' \in Nat
    BY <1>2, PressCases
  <2>2. (IF kind = "hint" THEN hintIndex ELSE 0) \in Nat /\ navigation' \in Nat
    BY <2>1 DEF TypeOK
  <2>3. requests' \subseteq Requests /\ \A q \in requests' : ReplyTyped(q)
    BY <2>1, <2>2, RequestTyped DEF TypeOK
  <2> QED
    BY <2>1, <2>3 DEF TypeOK, screenVars
<1>3. ASSUME NEW r \in requests, LessonArrives(r) PROVE TypeOK'
  <2>1. r.lesson \in ViewLessons /\ r.reply \in Nat
    BY <1>3 DEF LessonArrives, TypeOK, Requests, ReplyTyped
  <2>2. UNCHANGED <<navigation, used, runs, picks, wanted>> /\ requests' \subseteq requests
    BY <1>3 DEF LessonArrives
  <2>3. shown' \in ViewLessons \cup {Nothing} /\ page' \in Nat /\ zone' \subseteq Nat
          /\ hintIndex' \in Nat
    BY <1>3, <2>1, RenderTyped DEF LessonArrives, TypeOK, screenVars
  <2> QED
    BY <2>2, <2>3 DEF TypeOK
<1>4. ASSUME NEW r \in requests, ContinueArrives(r) PROVE TypeOK'
  <2>1. /\ UNCHANGED <<shown, hintIndex, page, zone, used, runs, picks>>
        /\ navigation' \in Nat
    BY <1>4, ContinueCases DEF TypeOK, screenVars
  <2>2. r.reply \in ViewLessons \cup {Nothing}
    BY <1>4, ContinueCases DEF TypeOK, ReplyTyped
  <2>3. wanted' \in ViewLessons \cup {Nothing}
    BY <1>4, <2>2, ContinueCases DEF TypeOK
  <2>4. requests' \subseteq Requests /\ \A q \in requests' : ReplyTyped(q)
    BY <1>4, <2>1, <2>2, ContinueCases, RequestTyped DEF TypeOK
  <2> QED
    BY <2>1, <2>3, <2>4 DEF TypeOK
<1>5. ASSUME NEW r \in requests, HintArrives(r) PROVE TypeOK'
  <2>1. r.index \in Nat /\ r.reply \in Nat
    BY <1>5 DEF HintArrives, TypeOK, Requests, ReplyTyped
  <2>2. UNCHANGED <<navigation, used, runs, picks, wanted>> /\ requests' \subseteq requests
    BY <1>5 DEF HintArrives
  <2>3. shown' = shown /\ page' = page /\ zone' \subseteq Nat /\ hintIndex' \in Nat
    BY <1>5, <2>1 DEF HintArrives, TypeOK, screenVars
  <2> QED
    BY <2>2, <2>3 DEF TypeOK
<1>6. ASSUME NEW r \in requests, VerdictArrives(r) PROVE TypeOK'
  <2>1. UNCHANGED <<navigation, screenVars, used, runs, picks, wanted>> /\ r.kind = "validate"
    BY <1>6 DEF VerdictArrives
  <2>2. \/ requests' = requests \ {r}
        \/ requests' = (requests \ {r}) \cup {[r EXCEPT !.kind = "lesson", !.answered = FALSE]}
    BY <1>6 DEF VerdictArrives
  <2>3. requests' \subseteq Requests /\ \A q \in requests' : ReplyTyped(q)
    BY <2>1, <2>2, LessonFetched DEF TypeOK
  <2> QED
    BY <2>1, <2>3 DEF TypeOK, screenVars
<1>7. ASSUME NEW r \in requests, FreshArrives(r) PROVE TypeOK'
  <2>1. r.lesson \in ViewLessons /\ r.reply \in Nat
    BY <1>7 DEF FreshArrives, TypeOK, Requests, ReplyTyped
  <2>2. UNCHANGED <<navigation, used, runs, picks, wanted>> /\ requests' \subseteq requests
    BY <1>7 DEF FreshArrives
  <2>3. shown' \in ViewLessons \cup {Nothing} /\ page' \in Nat /\ zone' \subseteq Nat
          /\ hintIndex' \in Nat
    BY <1>7, <2>1, RenderTyped DEF FreshArrives, TypeOK, screenVars
  <2> QED
    BY <2>2, <2>3 DEF TypeOK
<1>8. ASSUME NEW r \in requests, Serve(r) PROVE TypeOK'
  <2>1. UNCHANGED <<navigation, screenVars, runs, picks, wanted>>
          /\ used' \in [ViewLessons -> Nat]
    BY <1>8, ServeCases
  <2>2. requests' \subseteq Requests /\ \A q \in requests' : ReplyTyped(q)
    BY <1>8, ServedIsReplied DEF TypeOK
  <2> QED
    BY <2>1, <2>2 DEF TypeOK, screenVars
<1>9. CASE UNCHANGED viewVars
  BY <1>9 DEF viewVars, TypeOK, ReplyTyped
<1> QED
  BY <1>1, <1>2, <1>3, <1>4, <1>5, <1>6, <1>7, <1>8, <1>9 DEF LessonViewNext

--------------------------------------------------------------------------------
(* The newest choice.                                                        *)

\* A request that is served or fetched anew is as outdated as it was.
LEMMA NewestAfterReply ==
  ASSUME TypeOK, NewestInv, NEW r \in requests, NEW q,
         requests' = (requests \ {r}) \cup {q},
         q.token = r.token, q.lesson = r.lesson, q.picks = r.picks,
         q.kind = r.kind \/ (r.kind = "validate" /\ q.kind = "lesson"),
         UNCHANGED <<navigation, shown, picks, wanted>>
  PROVE  NewestInv'
<1>1. \A s \in requests' :
        /\ s.token <= navigation
        /\ s.kind = "start" /\ s.token = navigation => s.lesson = wanted
        /\ s.kind = "complete" /\ s.token = navigation => s.picks = picks
  BY DEF NewestInv, Loading, Stale
<1>2. ASSUME NEW s \in requests, Loading(s) PROVE \E t \in requests' : Loading(t)
  BY <1>2 DEF Loading
<1> QED
  BY <1>1, <1>2 DEF NewestInv, Loading, Stale

\* Every step keeps the newest choice on the screen or on its way there.
LEMMA NewestStep == TypeOK /\ NewestInv /\ [LessonViewNext]_viewVars => NewestInv'
<1> SUFFICES ASSUME TypeOK, NewestInv, [LessonViewNext]_viewVars PROVE NewestInv'
  OBVIOUS
<1>0. \A q \in requests : q.token \in Nat
  BY DEF TypeOK, Requests
<1>1. ASSUME NEW l \in ViewLessons, PickLesson(l) PROVE NewestInv'
  <2> DEFINE n == Request("start", l, 0)
  <2>1. /\ requests' = requests \cup {n} /\ navigation' = navigation + 1
        /\ wanted' = l /\ picks' = picks + 1
    BY <1>1 DEF PickLesson, Ask
  <2>2. n.kind = "start" /\ n.token = navigation' /\ n.lesson = l
    BY DEF Request
  <2> HIDE DEF n
  <2>3. \A q \in requests : q.token <= navigation' /\ q.token # navigation'
    BY <1>0, <2>1 DEF NewestInv, TypeOK
  <2>4. navigation' <= navigation'
    BY <2>1 DEF TypeOK
  <2> QED
    BY <2>1, <2>2, <2>3, <2>4 DEF NewestInv, Loading, Stale
<1>2. CASE PressHint \/ PressRun \/ PressContinue
  <2>1. PICK kind \in {"hint", "validate", "complete"} :
           /\ requests' = requests \cup {Request(kind, shown, IF kind = "hint" THEN hintIndex
                                                              ELSE 0)}
           /\ UNCHANGED <<navigation, screenVars, used, picks, wanted>>
    BY <1>2, PressCases
  <2> DEFINE n == Request(kind, shown, IF kind = "hint" THEN hintIndex ELSE 0)
  <2>2. n.kind = kind /\ n.token = navigation' /\ n.picks = picks
    BY DEF Request
  <2> HIDE DEF n
  <2>3. requests' = requests \cup {n} /\ UNCHANGED <<navigation, shown, picks, wanted>>
    BY <2>1 DEF n, screenVars
  <2>4. navigation <= navigation
    BY DEF TypeOK
  <2> QED
    BY <2>2, <2>3, <2>4 DEF NewestInv, Loading, Stale
<1>3. ASSUME NEW r \in requests, LessonArrives(r) PROVE NewestInv'
  <2>1. /\ r.kind = "start" /\ requests' = requests \ {r}
        /\ UNCHANGED <<navigation, picks, wanted>>
        /\ IF Loading(r) THEN shown' = r.lesson ELSE shown' = shown
    BY <1>3 DEF LessonArrives, RenderFocus, screenVars, Loading
  <2> QED
    BY <2>1 DEF NewestInv, Loading, Stale
<1>4. ASSUME NEW r \in requests, ContinueArrives(r) PROVE NewestInv'
  <2>1. r.kind = "complete" /\ UNCHANGED <<shown, picks>>
    BY <1>4, ContinueCases DEF screenVars
  <2>2. CASE requests' = requests \ {r} /\ UNCHANGED <<navigation, wanted>>
    BY <2>1, <2>2 DEF NewestInv, Loading, Stale
  <2>3. CASE /\ ~Stale(r) /\ navigation' = navigation + 1
             /\ requests' = (requests \ {r}) \cup {Request("start", r.reply, 0)}
             /\ wanted' = IF r.picks = picks THEN r.reply ELSE wanted
    <3> DEFINE n == Request("start", r.reply, 0)
    <3>1. n.kind = "start" /\ n.token = navigation' /\ n.lesson = r.reply
      BY DEF Request
    <3>2. requests' = (requests \ {r}) \cup {n}
      BY <2>3
    <3> HIDE DEF n
    <3>3. wanted' = r.reply
      BY <2>1, <2>3 DEF NewestInv
    <3>4. \A q \in requests : q.token <= navigation' /\ q.token # navigation'
      BY <1>0, <2>3 DEF NewestInv, TypeOK
    <3>5. navigation' <= navigation'
      BY <2>3 DEF TypeOK
    <3> QED
      BY <3>1, <3>2, <3>3, <3>4, <3>5 DEF NewestInv, Loading, Stale
  <2> QED
    BY <1>4, <2>2, <2>3, ContinueCases
<1>5. ASSUME NEW r \in requests, HintArrives(r) PROVE NewestInv'
  <2>1. /\ r.kind = "hint" /\ requests' = requests \ {r}
        /\ UNCHANGED <<navigation, shown, picks, wanted>>
    BY <1>5 DEF HintArrives, screenVars
  <2> QED
    BY <2>1 DEF NewestInv, Loading, Stale
<1>6. ASSUME NEW r \in requests, VerdictArrives(r) PROVE NewestInv'
  <2>1. /\ r.kind = "validate" /\ UNCHANGED <<navigation, shown, picks, wanted>>
    BY <1>6 DEF VerdictArrives, screenVars
  <2>2. CASE requests' = requests \ {r}
    BY <2>1, <2>2 DEF NewestInv, Loading, Stale
  <2>3. CASE requests' = (requests \ {r}) \cup {[r EXCEPT !.kind = "lesson", !.answered = FALSE]}
    <3> DEFINE q == [r EXCEPT !.kind = "lesson", !.answered = FALSE]
    <3>1. /\ q.kind = "lesson" /\ q.token = r.token /\ q.lesson = r.lesson
          /\ q.picks = r.picks
      BY DEF TypeOK, Requests
    <3>2. requests' = (requests \ {r}) \cup {q}
      BY <2>3
    <3> HIDE DEF q
    <3> QED
      BY <2>1, <3>1, <3>2, NewestAfterReply
  <2> QED
    BY <1>6, <2>2, <2>3 DEF VerdictArrives
<1>7. ASSUME NEW r \in requests, FreshArrives(r) PROVE NewestInv'
  <2>1. /\ r.kind = "lesson" /\ requests' = requests \ {r}
        /\ UNCHANGED <<navigation, shown, picks, wanted>>
    BY <1>7 DEF FreshArrives, RenderFocus, screenVars
  <2> QED
    BY <2>1 DEF NewestInv, Loading, Stale
<1>8. ASSUME NEW r \in requests, Serve(r) PROVE NewestInv'
  <2>1. UNCHANGED <<navigation, shown, picks, wanted>>
    BY <1>8, ServeCases DEF screenVars
  <2>2. PICK q \in Requests :
           /\ requests' = (requests \ {r}) \cup {q} /\ q.kind = r.kind
           /\ q.lesson = r.lesson /\ q.token = r.token /\ q.picks = r.picks
    BY <1>8, ServedIsReplied
  <2> QED
    BY <2>1, <2>2, NewestAfterReply
<1>9. CASE UNCHANGED viewVars
  BY <1>9 DEF viewVars, NewestInv, Loading, Stale
<1> QED
  BY <1>1, <1>2, <1>3, <1>4, <1>5, <1>6, <1>7, <1>8, <1>9 DEF LessonViewNext

\* The initial page satisfies the invariants.
LEMMA InitHolds == LessonViewInit => TypeOK /\ NewestInv /\ HintInv
<1>1. LessonViewInit => TypeOK
  BY DEF LessonViewInit, TypeOK
<1>2. LessonViewInit => NewestInv
  BY DEF LessonViewInit, NewestInv
<1>3. LessonViewInit => HintInv
  BY DEF LessonViewInit, HintInv, ShownHintsAreCounted
<1> QED
  BY <1>1, <1>2, <1>3

\* The types and the newest choice, in every reachable state.
THEOREM TypeCorrect == LessonViewSpec => []TypeOK
<1> QED
  BY InitHolds, TypeStep, PTL DEF LessonViewSpec

THEOREM NewestInvariance == LessonViewSpec => []NewestInv
<1> QED
  BY InitHolds, NewestStep, TypeCorrect, PTL DEF LessonViewSpec

\* app.js, loadLesson and the Continue handler: whatever order the replies come in,
\* when nothing is under way the page shows the lesson asked for last.
THEOREM NewestChoiceIsShown == LessonViewSpec => []NewestChoiceShown
<1>1. NewestInv => NewestChoiceShown
  BY DEF NewestInv, NewestChoiceShown, Loading
<1> QED
  BY <1>1, NewestInvariance, PTL

--------------------------------------------------------------------------------
(* The hints on the screen.                                                  *)

\* A request of the same screen that was not answered when it was sent, or that is gone,
\* leaves the screen and the server as they were.
LEMMA HintAfterSend ==
  ASSUME TypeOK, HintInv, NEW n, requests' \subseteq requests \cup {n},
         n \in requests \/ (~n.answered /\ n.page \in Nat /\ n.page <= page),
         n.kind = "hint" /\ n.page = page => n.lesson = shown,
         UNCHANGED <<shown, page, zone, used>>
  PROVE  HintInv'
<1>1. ShownHintsAreCounted'
  BY DEF HintInv, ShownHintsAreCounted
<1>2. ASSUME NEW r \in requests' PROVE RequestInv(r)'
  <2>1. CASE r \in requests
    BY <2>1 DEF HintInv, RequestInv
  <2>2. CASE r = n /\ n \notin requests
    BY <2>2 DEF RequestInv
  <2> QED
    BY <2>1, <2>2
<1> QED
  BY <1>1, <1>2 DEF HintInv

\* A request that is gone.
LEMMA HintAfterDrop ==
  ASSUME TypeOK, HintInv, requests' \subseteq requests, UNCHANGED <<shown, page, zone, used>>
  PROVE  HintInv'
<1>1. ShownHintsAreCounted'
  BY DEF HintInv, ShownHintsAreCounted
<1>2. \A r \in requests' : RequestInv(r)'
  BY DEF HintInv, RequestInv
<1> QED
  BY <1>1, <1>2 DEF HintInv

\* A page made anew shows the hints that its reply counts, and no request is of it yet.
LEMMA HintAfterRender ==
  ASSUME TypeOK, HintInv, NEW r \in requests, r.kind \in {"start", "lesson"}, r.answered,
         requests' \subseteq requests, RenderFocus(r.lesson, r.reply), UNCHANGED used
  PROVE  HintInv'
<1>1. /\ r.lesson \in ViewLessons /\ r.reply \in Nat /\ used[r.lesson] \in Nat
      /\ r.reply <= used[r.lesson]
  BY DEF TypeOK, Requests, ReplyTyped, HintInv, RequestInv
<1>2. shown' = r.lesson /\ zone' = 0..(r.reply - 1) /\ page' = page + 1
  BY DEF RenderFocus
<1>3. ShownHintsAreCounted'
  BY <1>1, <1>2 DEF ShownHintsAreCounted
<1>4. ASSUME NEW q \in requests' PROVE RequestInv(q)'
  <2>1. RequestInv(q) /\ q.page \in Nat /\ page \in Nat
    BY DEF HintInv, TypeOK, Requests
  <2>2. q.page <= page' /\ q.page # page'
    BY <1>2, <2>1 DEF RequestInv
  <2> QED
    BY <2>1, <2>2 DEF RequestInv
<1> QED
  BY <1>3, <1>4 DEF HintInv

\* A hint that arrives on its own page is of the lesson there, and is counted.
LEMMA HintKeepsHints ==
  ASSUME TypeOK, HintInv, NEW h \in requests, HintArrives(h)
  PROVE  HintInv'
<1>1. /\ h.kind = "hint" /\ h.answered /\ requests' = requests \ {h}
      /\ UNCHANGED <<shown, page, used>>
  BY DEF HintArrives, screenVars
<1>2. CASE zone' = zone
  BY <1>1, <1>2, HintAfterDrop
<1>3. CASE h.page = page /\ zone' = zone \cup {h.index}
  <2>1. h.lesson = shown /\ h.index < used[shown]
    BY <1>1, <1>3 DEF HintInv, RequestInv
  <2>2. shown \in ViewLessons /\ used[shown] \in Nat /\ h.index \in Nat
    BY <2>1 DEF TypeOK, Requests
  <2>3. shown # Nothing
    BY <2>2, LessonViewAssumption DEF Nothing
  <2>4. zone \subseteq 0..(used[shown] - 1) /\ h.index \in 0..(used[shown] - 1)
    BY <2>1, <2>2, <2>3 DEF HintInv, ShownHintsAreCounted
  <2>5. ShownHintsAreCounted'
    BY <1>1, <1>3, <2>4 DEF ShownHintsAreCounted
  <2>6. \A r \in requests' : RequestInv(r)'
    BY <1>1 DEF HintInv, RequestInv
  <2> QED
    BY <2>5, <2>6 DEF HintInv
<1> QED
  BY <1>2, <1>3 DEF HintArrives, screenVars

\* The server's counts only grow, and a hint is counted before it is sent.
LEMMA ServeKeepsHints ==
  ASSUME TypeOK, HintInv, NEW r \in requests, Serve(r)
  PROVE  HintInv'
<1>1. UNCHANGED <<shown, page, zone>> /\ used' \in [ViewLessons -> Nat]
  BY ServeCases DEF screenVars
<1>2. PICK q \in Requests :
        /\ requests' = (requests \ {r}) \cup {q}
        /\ q.kind = r.kind /\ q.lesson = r.lesson /\ q.index = r.index /\ q.page = r.page
        /\ q.kind \in {"start", "lesson"} => q.reply = used[r.lesson]
  BY ServedIsReplied
<1>3. \A t \in requests : t.lesson \in ViewLessons /\ t.index \in Nat /\ ReplyTyped(t)
  BY DEF TypeOK, Requests
<1>4. \A l \in ViewLessons : used[l] \in Nat /\ used'[l] \in Nat
  BY <1>1 DEF TypeOK
<1>5. /\ \A l \in ViewLessons : used[l] <= used'[l]
      /\ r.kind = "hint" => r.index < used'[r.lesson]
  <2>1. CASE r.kind = "hint"
    <3>1. used' = [used EXCEPT ![r.lesson] = Larger(@, r.index + 1)]
      BY <2>1, ServeCases
    <3>2. used'[r.lesson] = Larger(used[r.lesson], r.index + 1)
      BY <1>3, <3>1 DEF TypeOK
    <3>3. \A l \in ViewLessons : l # r.lesson => used'[l] = used[l]
      BY <3>1 DEF TypeOK
    <3>4. used[r.lesson] <= used'[r.lesson] /\ r.index < used'[r.lesson]
      BY <1>3, <1>4, <3>2 DEF Larger
    <3> QED
      BY <1>4, <3>3, <3>4
  <2>2. CASE r.kind # "hint"
    BY <1>4, <2>2, ServeCases
  <2> QED
    BY <2>1, <2>2
<1>6. ShownHintsAreCounted'
  <2> SUFFICES ASSUME shown # Nothing PROVE zone \subseteq 0..(used'[shown] - 1)
    BY <1>1 DEF ShownHintsAreCounted
  <2>1. shown \in ViewLessons /\ zone \subseteq 0..(used[shown] - 1)
    BY DEF TypeOK, HintInv, ShownHintsAreCounted
  <2> QED
    BY <1>4, <1>5, <2>1
<1>7. ASSUME NEW t \in requests' PROVE RequestInv(t)'
  <2>1. CASE t = q
    BY <1>1, <1>2, <1>3, <1>5, <2>1 DEF HintInv, RequestInv
  <2>2. CASE t \in requests
    <3>1. RequestInv(t) /\ used[t.lesson] <= used'[t.lesson]
      BY <1>3, <1>5, <2>2 DEF HintInv
    <3>2. t.kind \in {"start", "lesson"} => t.reply \in Nat
      BY <1>3, <2>2 DEF ReplyTyped
    <3>3. t.index \in Nat /\ used[t.lesson] \in Nat /\ used'[t.lesson] \in Nat
      BY <1>3, <1>4, <2>2
    <3> QED
      BY <1>1, <3>1, <3>2, <3>3 DEF RequestInv
  <2> QED
    BY <1>2, <2>1, <2>2
<1> QED
  BY <1>6, <1>7 DEF HintInv

\* Every step keeps the hints on the screen counted.
LEMMA HintStep == TypeOK /\ HintInv /\ [LessonViewNext]_viewVars => HintInv'
<1> SUFFICES ASSUME TypeOK, HintInv, [LessonViewNext]_viewVars PROVE HintInv'
  OBVIOUS
<1>0. page \in Nat /\ page <= page
  BY DEF TypeOK
<1>1. ASSUME NEW l \in ViewLessons, PickLesson(l) PROVE HintInv'
  <2> DEFINE n == Request("start", l, 0)
  <2>1. n.kind = "start" /\ ~n.answered /\ n.page = page
    BY DEF Request
  <2>2. requests' = requests \cup {n} /\ UNCHANGED <<shown, page, zone, used>>
    BY <1>1 DEF PickLesson, Ask, screenVars
  <2> HIDE DEF n
  <2> QED
    BY <1>0, <2>1, <2>2, HintAfterSend
<1>2. CASE PressHint \/ PressRun \/ PressContinue
  <2>1. PICK kind \in {"hint", "validate", "complete"} :
           /\ requests' = requests \cup {Request(kind, shown, IF kind = "hint" THEN hintIndex
                                                              ELSE 0)}
           /\ UNCHANGED <<navigation, screenVars, used, picks, wanted>>
    BY <1>2, PressCases
  <2> DEFINE n == Request(kind, shown, IF kind = "hint" THEN hintIndex ELSE 0)
  <2>2. ~n.answered /\ n.page = page /\ n.lesson = shown
    BY DEF Request
  <2>3. requests' = requests \cup {n} /\ UNCHANGED <<shown, page, zone, used>>
    BY <2>1 DEF screenVars
  <2> HIDE DEF n
  <2> QED
    BY <1>0, <2>2, <2>3, HintAfterSend
<1>3. ASSUME NEW r \in requests, LessonArrives(r) PROVE HintInv'
  <2>1. r.kind = "start" /\ r.answered /\ requests' = requests \ {r} /\ UNCHANGED used
    BY <1>3 DEF LessonArrives
  <2> QED
    BY <1>3, <2>1, HintAfterRender, HintAfterDrop DEF LessonArrives, screenVars
<1>4. ASSUME NEW r \in requests, ContinueArrives(r) PROVE HintInv'
  <2>1. UNCHANGED <<shown, page, zone, used>>
    BY <1>4, ContinueCases DEF screenVars
  <2>2. CASE requests' = requests \ {r}
    BY <2>1, <2>2, HintAfterDrop
  <2>3. CASE requests' = (requests \ {r}) \cup {Request("start", r.reply, 0)}
    <3> DEFINE n == Request("start", r.reply, 0)
    <3>1. n.kind = "start" /\ ~n.answered /\ n.page = page
      BY DEF Request
    <3>2. requests' \subseteq requests \cup {n}
      BY <2>3
    <3> HIDE DEF n
    <3> QED
      BY <1>0, <2>1, <3>1, <3>2, HintAfterSend
  <2> QED
    BY <1>4, <2>2, <2>3, ContinueCases
<1>5. ASSUME NEW r \in requests, HintArrives(r) PROVE HintInv'
  BY <1>5, HintKeepsHints
<1>6. ASSUME NEW r \in requests, VerdictArrives(r) PROVE HintInv'
  <2>1. /\ r.kind = "validate" /\ r \in Requests /\ ReplyTyped(r) /\ RequestInv(r)
        /\ UNCHANGED <<shown, page, zone, used>>
    BY <1>6 DEF VerdictArrives, screenVars, TypeOK, HintInv
  <2> DEFINE q == [r EXCEPT !.kind = "lesson", !.answered = FALSE]
  <2>2. q.kind = "lesson" /\ ~q.answered /\ q.page = r.page /\ r.page \in Nat
    BY <2>1 DEF Requests
  <2>3. requests' \subseteq requests \cup {q}
    BY <1>6 DEF VerdictArrives
  <2> HIDE DEF q
  <2> QED
    BY <2>1, <2>2, <2>3, HintAfterSend DEF RequestInv
<1>7. ASSUME NEW r \in requests, FreshArrives(r) PROVE HintInv'
  <2>1. r.kind = "lesson" /\ r.answered /\ requests' = requests \ {r} /\ UNCHANGED used
    BY <1>7 DEF FreshArrives
  <2> QED
    BY <1>7, <2>1, HintAfterRender, HintAfterDrop DEF FreshArrives, screenVars
<1>8. ASSUME NEW r \in requests, Serve(r) PROVE HintInv'
  BY <1>8, ServeKeepsHints
<1>9. CASE UNCHANGED viewVars
  BY <1>9, HintAfterDrop DEF viewVars
<1> QED
  BY <1>1, <1>2, <1>3, <1>4, <1>5, <1>6, <1>7, <1>8, <1>9 DEF LessonViewNext

THEOREM HintInvariance == LessonViewSpec => []HintInv
<1> QED
  BY InitHolds, HintStep, TypeCorrect, PTL DEF LessonViewSpec

\* app.js, the hint handler and renderFocus: whatever is pressed while a request is under
\* way and whatever order the replies come in, a hint on the screen is one of the lesson
\* on the screen, and the server counts it.
THEOREM HintsOnScreenAreCounted == LessonViewSpec => []ShownHintsAreCounted
<1>1. HintInv => ShownHintsAreCounted
  BY DEF HintInv
<1> QED
  BY <1>1, HintInvariance, PTL
================================================================================

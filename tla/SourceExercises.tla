---------------------------- MODULE SourceExercises ----------------------------
(***************************************************************************)
(* Two exercises whose bug no run of the program shows reliably, so that   *)
(* source_check reads the learner's code instead: the shared counter of    *)
(* Day 9 (must_hold_lock) and BenchLock.acquire of Day 13                  *)
(* (must_create_exclusively).  The module has the two rules of the check   *)
(* and the code they judge: a file that the check accepts is then run by   *)
(* two threads (two contenders), which is what the verdict is about.       *)
(*                                                                         *)
(* A branch is its reads and writes of the counter and its `with`s in the  *)
(* order of the text, each `with` followed by its body and by its end.  An *)
(* acquire() is a sequence of calls that give up when the lock file is     *)
(* already there.                                                          *)
(***************************************************************************)
EXTENDS Integers, Sequences

CONSTANTS
  EmptyFiles,     \* may the learner's file be empty?
  SplitSections,  \* may a branch take the lock twice, one use in each?
  HonestNames,    \* is everything called ...lock... a lock?
  Links           \* may acquire() call os.link?

ASSUME ExercisesAssumption == {EmptyFiles, SplitSections, HonestNames, Links} \subseteq BOOLEAN

Threads == {1, 2}
Nobody == 0
Locks == {"a", "b"}

--------------------------------------------------------------------------------
(* must_hold_lock: the branch that counts.                                   *)

\* The header of a `with`: whether a name in it contains "lock", the lock it
\* really takes, and whether it mentions the counter itself.
Header(named, lock, uses) == [named |-> named, lock |-> lock, uses |-> uses]
LockA == Header(TRUE, "a", FALSE)

Headers ==
  {h \in {LockA, Header(TRUE, "b", FALSE), Header(FALSE, "none", FALSE),
          Header(TRUE, "a", TRUE), Header(TRUE, "none", FALSE)} :
     HonestNames => (h.named => h.lock # "none")}

ReadCounter == <<[kind |-> "read"]>>
WriteCounter == <<[kind |-> "write"]>>
End(h) == [kind |-> "end", header |-> h]
With(h, body) ==
  <<[kind |-> "with", header |-> h, size |-> Len(body)]>> \o body \o <<End(h)>>

\* Every way to put one read and one write under at most two `with`s.
Bodies ==
  {ReadCounter \o WriteCounter}
  \cup {With(h, ReadCounter \o WriteCounter) : h \in Headers}
  \cup {ReadCounter \o With(h, WriteCounter) : h \in Headers}
  \cup {With(h, ReadCounter) \o WriteCounter : h \in Headers}
  \cup {With(h, ReadCounter \o With(g, WriteCounter)) : h, g \in Headers}
  \cup {With(h, With(g, ReadCounter \o WriteCounter)) : h, g \in Headers}
  \cup (IF SplitSections
        THEN {With(h, ReadCounter) \o With(g, WriteCounter) : h, g \in Headers}
        ELSE {})

\* The `with`s whose body has the i-th entry.
Within(code, i) == {j \in 1..(i - 1) : code[j].kind = "with" /\ i <= j + code[j].size}

\* Does one of them mention a lock?
Guarded(code, i) == \E j \in Within(code, i) : code[j].header.named

\* Mutant: only the store has to be guarded.
UnguardedUse_WritesOnly(code, i) == code[i].kind = "write" /\ ~Guarded(code, i)

\* _unguarded_uses: reads count too, and what a header mentions is evaluated
\* before the lock is taken.
UnguardedUse(code, i) ==
  /\ code[i].kind \in {"read", "write"} \/ (code[i].kind = "with" /\ code[i].header.uses)
  /\ ~Guarded(code, i)

\* must_hold_lock.  A file without text is not looked at; every body in Bodies
\* touches the counter, <<>> stands for a branch that does not.
MustHoldLock(f) ==
  \/ ~f.text
  \/ /\ f.parses
     /\ f.found
     /\ f.code # <<>>
     /\ \A i \in DOMAIN f.code : ~UnguardedUse(f.code, i)

--------------------------------------------------------------------------------
(* must_create_exclusively: acquire().                                       *)

\* A call: the path it is aimed at (its receiver or first argument), the path
\* it creates, and how: `exist_ok` of touch and mkdir, "x" or O_EXCL of open.
Call(name, subject, creates, how) ==
  [kind |-> "call", name |-> name, subject |-> subject, creates |-> creates, how |-> how]

Calls ==
  {Call("exists", "lock", "none", "none")}
  \cup {Call("open", "lock", "lock", how) : how \in {"none", "exclusive"}}
  \cup {Call("touch", "lock", "lock", how) : how \in {"none", "exist_ok=False"}}
  \cup {Call("mkdir", p, p, how) : p \in {"lock", "parent"}, how \in {"none", "exist_ok=True"}}
  \cup (IF Links THEN {Call("link", "other", "lock", "none"),
                       Call("link", "lock", "other", "none")} ELSE {})

\* _creates_exclusively.  The names of the lock are learned from __init__; when
\* no parameter there mentions "path" there are none, and nothing is accepted.
CreatesExclusively(call, lockPathsKnown) ==
  /\ lockPathsKnown
  /\ call.subject = "lock"
  /\ CASE call.name = "open"  -> call.how = "exclusive"
       [] call.name = "touch" -> call.how = "exist_ok=False"
       [] call.name = "mkdir" -> call.how # "exist_ok=True"
       [] call.name = "link"  -> TRUE
       [] OTHER -> FALSE

MustCreateExclusively(f) ==
  \/ ~f.text
  \/ /\ f.parses
     /\ f.found
     /\ \E i \in DOMAIN f.code : CreatesExclusively(f.code[i], f.pathNamed)

\* What the operating system does: does the call fail when its path exists?
FailsIfExists(call) ==
  \/ call.name = "open" /\ call.how = "exclusive"
  \/ call.name = "touch" /\ call.how = "exist_ok=False"
  \/ call.name = "mkdir" /\ call.how # "exist_ok=True"
  \/ call.name = "link"

--------------------------------------------------------------------------------

\* The learner's file, as far as the rules look into it: text, syntax, the
\* branch or function being there, and its code.
SourceFile(text, parses, found, pathNamed, code) ==
  [text |-> text, parses |-> parses, found |-> found, pathNamed |-> pathNamed, code |-> code]

BadFiles ==
  {SourceFile(TRUE, FALSE, FALSE, TRUE, <<>>), SourceFile(TRUE, TRUE, FALSE, TRUE, <<>>),
   SourceFile(TRUE, TRUE, TRUE, TRUE, <<>>)}
  \cup (IF EmptyFiles THEN {SourceFile(FALSE, TRUE, FALSE, TRUE, <<>>)} ELSE {})

Acquires == {<<c>> : c \in Calls} \cup (Calls \X Calls) \cup (Calls \X Calls \X Calls)

ExercisesTried ==
  {[rule |-> "lock", file |-> f] :
     f \in BadFiles \cup {SourceFile(TRUE, TRUE, TRUE, TRUE, b) : b \in Bodies}}
  \cup {[rule |-> "exclusive", file |-> f] :
     f \in BadFiles \cup {SourceFile(TRUE, TRUE, TRUE, k, p) : k \in BOOLEAN, p \in Acquires}}

VARIABLES
  exercise,  \* the rule and the learner's file
  ruling,   \* "none", "passed" or "failed"
  pc,        \* next step of each thread
  local,     \* the value a thread has read
  counter,   \* the shared counter
  held,      \* holder of each lock
  paths,     \* paths that exist
  result     \* what acquire() returned to each contender

sourceVars == <<exercise, ruling, pc, local, counter, held, paths, result>>

Code == exercise.file.code

Done(t) == pc[t] > Len(Code)

SourceInit(exercises) ==
  /\ exercise \in exercises
  /\ ruling = "none"
  /\ pc = [t \in Threads |-> 1]
  /\ local = [t \in Threads |-> 0]
  /\ counter = 0
  /\ held = [k \in Locks |-> Nobody]
  /\ paths = {}
  /\ result = [t \in Threads |-> "none"]

\* source_check.run
CheckSource ==
  /\ ruling = "none"
  /\ ruling' = IF \/ exercise.rule = "lock" /\ MustHoldLock(exercise.file)
                  \/ exercise.rule = "exclusive" /\ MustCreateExclusively(exercise.file)
                THEN "passed" ELSE "failed"
  /\ UNCHANGED <<exercise, pc, local, counter, held, paths, result>>

Advance(t) == pc' = [pc EXCEPT ![t] = @ + 1]

\* One step of a thread in the counting branch.
RunBranch(t) ==
  /\ ruling = "passed"
  /\ exercise.rule = "lock"
  /\ ~Done(t)
  /\ LET s == Code[pc[t]]
     IN  \/ /\ s.kind = "read"
            /\ local' = [local EXCEPT ![t] = counter]
            /\ UNCHANGED <<counter, held>>
         \/ /\ s.kind = "write"
            /\ counter' = local[t] + 1
            /\ UNCHANGED <<local, held>>
         \/ /\ s.kind = "with" /\ s.header.lock \in Locks
            /\ held[s.header.lock] = Nobody
            /\ held' = [held EXCEPT ![s.header.lock] = t]
            /\ UNCHANGED <<local, counter>>
         \/ /\ s.kind = "end" /\ s.header.lock \in Locks
            /\ held' = [held EXCEPT ![s.header.lock] = Nobody]
            /\ UNCHANGED <<local, counter>>
         \/ /\ s.kind \in {"with", "end"} /\ s.header.lock = "none"
            /\ UNCHANGED <<local, counter, held>>
  /\ Advance(t)
  /\ UNCHANGED <<exercise, ruling, paths, result>>

\* One call of a contender in acquire().  It returns False when the lock is
\* there, and True behind its last call; a failure about another path is ignored.
RunAcquire(t) ==
  /\ ruling = "passed"
  /\ exercise.rule = "exclusive"
  /\ ~Done(t)
  /\ result[t] = "none"
  /\ LET c == Code[pc[t]]
         taken == /\ "lock" \in paths
                  /\ c.name = "exists" \/ (c.creates = "lock" /\ FailsIfExists(c))
     IN  /\ paths' = paths \cup ({c.creates} \ {"none"})
         /\ result' = [result EXCEPT ![t] = IF taken THEN "False"
                                            ELSE IF pc[t] = Len(Code) THEN "True"
                                            ELSE "none"]
  /\ Advance(t)
  /\ UNCHANGED <<exercise, ruling, local, counter, held>>

SourceNext == CheckSource \/ \E t \in Threads : RunBranch(t) \/ RunAcquire(t)

ExercisesSpec == SourceInit(ExercisesTried) /\ [][SourceNext]_sourceVars

--------------------------------------------------------------------------------

\* The exercises of any size: every end is that of a `with`, and a branch counts by one
\* read and one write that follows it.
SomeHeaders == [named : BOOLEAN, lock : Locks \cup {"none"}, uses : BOOLEAN]
Entries ==
  [kind : {"read", "write"}] \cup [kind : {"with"}, header : SomeHeaders, size : Nat]
  \cup [kind : {"end"}, header : SomeHeaders]

IsBranch(code) ==
  /\ code \in Seq(Entries)
  /\ \A i \in DOMAIN code :
       code[i].kind = "end" =>
         \E j \in 1..(i - 1) : /\ code[j].kind = "with" /\ i = j + code[j].size + 1
                               /\ code[j].header = code[i].header
  /\ \E r, w \in DOMAIN code :
       /\ \A i \in DOMAIN code : /\ code[i].kind = "read" <=> i = r
                                 /\ code[i].kind = "write" <=> i = w
       /\ r < w

IsExercise(e) ==
  /\ e.rule = "lock" => e.file.code = <<>> \/ IsBranch(e.file.code)
  /\ e.rule = "exclusive" => e.file.code \in Seq(Calls)

\* What the rules do not see: a file without text, which they skip; a use that is under
\* names which mention a lock and are none; a read and a write in sections of their own,
\* neither inside the `with`s of the other; and an acquire() accepted for its links only,
\* which may create something else than the lock.
Uses(code, kind) == {i \in DOMAIN code : code[i].kind = kind}
UnderNamesOnly(code) ==
  \E i \in Uses(code, "read") \cup Uses(code, "write") :
    /\ Guarded(code, i)
    /\ \A j \in Within(code, i) : code[j].header.named => code[j].header.lock = "none"
Split(code) ==
  \E i \in Uses(code, "read"), j \in Uses(code, "write") :
    ~(Within(code, i) \subseteq Within(code, j)) /\ ~(Within(code, j) \subseteq Within(code, i))
LinksOnly(code) ==
  \A i \in DOMAIN code : CreatesExclusively(code[i], TRUE) => code[i].name = "link"

OutOfSight(e) ==
  \/ ~e.file.text
  \/ e.rule = "lock" /\ (UnderNamesOnly(e.file.code) \/ Split(e.file.code))
  \/ e.rule = "exclusive" /\ LinksOnly(e.file.code)

LosesAnUpdate == exercise.rule = "lock" /\ (\A t \in Threads : Done(t)) /\ counter # 2
TwoHolders == exercise.rule = "exclusive" /\ \A t \in Threads : result[t] = "True"

\* Whatever the learner writes: when the rules accept it and an update is lost, or both
\* contenders are told that they hold the lock, then it is by one of the things the rules
\* do not see.  Nothing else gets wrong code past must_hold_lock and
\* must_create_exclusively (source_check.py).
WrongOnlyOutOfSight ==
  ruling = "passed" /\ (LosesAnUpdate \/ TwoHolders) => OutOfSight(exercise)

\* "The whole read-modify-write is under the lock, not just the store" (day09.json:143),
\* and one contender for the bench lock: what the rules accept loses no update and has no
\* two holders.  Not so in the code.
AcceptedCodeExcludes == ruling = "passed" => ~LosesAnUpdate /\ ~TwoHolders

\* "falls back to accepting any target rather than rejecting a correct
\* implementation for being differently written" (source_check.py, _lock_path_names):
\* whoever creates the lock file exclusively is not turned down.
CorrectAcquireAccepted ==
  exercise.rule = "exclusive" /\ ruling = "failed"
    => \A i \in DOMAIN exercise.file.code :
         ~(exercise.file.code[i].creates = "lock" /\ FailsIfExists(exercise.file.code[i]))
================================================================================

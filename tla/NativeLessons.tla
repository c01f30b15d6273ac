----------------------------- MODULE NativeLessons -----------------------------
(***************************************************************************)
(* The native lessons of Days 11 and 12: the toolchain a server detected   *)
(* at its start decides which of them it offers; the checks configure and  *)
(* build cpp/build and run gdb on the result, in a tree that the learner   *)
(* may have configured, edited or deleted in between.                      *)
(*                                                                         *)
(* A configured tree is the compiler and the build type in its cache.  An  *)
(* executable is absent, built from the present sources or left over, and  *)
(* its symbols can be read by gdb or not.                                  *)
(***************************************************************************)
EXTENDS Toolchain

CONSTANT
  DropTargets  \* may the learner's edit remove an executable from the build?

ASSUME NativeAssumption == DropTargets \in BOOLEAN

Executables == {"dut", "dut_tests"}

NoTree == [compiler |-> "none", type |-> "none"]
Trees == [compiler : {"gnu", "renamed", "msvc"}, type : {"debug", "release"}]

NotBuilt == [state |-> "absent", readable |-> FALSE]

VARIABLES
  detected,  \* what cached_toolchain found when this server first asked
  tree,      \* cpp/build
  exe,       \* cpp/build/bin
  targets,   \* the executables CMakeLists.txt describes
  nativeVerdict,   \* of the mandatory checks
  ours,      \* history: the tree is the work of the configure check alone
  configured,\* history: the configure check passed on this tree, with gdb known
  built      \* history: the build check passed since

nativeVars == <<machine, detected, tree, exe, targets, nativeVerdict, ours, configured, built>>

Offers(requirement) == Satisfies(detected, requirement)

\* What gdb needs: DWARF, and a trigger_crash that was not optimised away.
Readable(t) == t.compiler # "msvc" /\ t.type # "release"

\* Mutant: only the compiler is looked at.
Incompatible_CompilerOnly(t, m) ==
  t # NoTree /\ "gdb" \in Detected(m) /\ t.compiler # "gnu"

\* _incompatible_cached_compiler: the file name of the compiler has to say gcc,
\* g++, clang or c++.  Without a gdb there is nothing to protect.
Incompatible(t, m) ==
  /\ t # NoTree
  /\ "gdb" \in Detected(m)
  /\ t.type = "release" \/ t.compiler # "gnu"

\* A fresh configure names the detected compiler and a build tool it found.
\* CMake fails without one.
FreshTree(m) ==
  IF Detected(m) \cap {"ninja", "make"} # {}
  THEN [compiler |-> CompilerName(m), type |-> "debug"]
  ELSE NoTree

NativeInit ==
  /\ machine \in MachinesTried
  /\ detected = machine
  /\ tree = NoTree
  /\ exe = [e \in Executables |-> NotBuilt]
  /\ targets = Executables
  /\ nativeVerdict = [c \in {"configure", "build", "backtrace"} |-> "none"]
  /\ ours = FALSE
  /\ configured = FALSE
  /\ built = FALSE

Judge(check, passed) ==
  nativeVerdict' = [nativeVerdict EXCEPT ![check] = IF passed THEN "passed" ELSE "failed"]

\* toolchain_check with tool cmake-configure
CheckConfigure ==
  /\ Offers("cpp-build")
  /\ IF Incompatible(tree, detected)
     THEN /\ Judge("configure", FALSE)
          /\ UNCHANGED <<tree, ours, configured, built>>
     ELSE /\ tree' = IF tree = NoTree THEN FreshTree(detected) ELSE tree
          /\ Judge("configure", tree' # NoTree)
          /\ ours' = (ours \/ (tree = NoTree /\ tree' # NoTree))
          /\ configured' = (tree' # NoTree /\ "gdb" \in Detected(detected))
          /\ built' = FALSE
  /\ UNCHANGED <<machine, detected, exe, targets>>

\* tool cmake, --build: every target is brought up to date, a file that is no
\* target any more stays; both executables are then looked for by path.
CheckBuild ==
  /\ Offers("cpp-build")
  /\ exe' = IF tree = NoTree THEN exe
            ELSE [e \in Executables |->
                    IF e \in targets
                    THEN [state |-> "current", readable |-> Readable(tree)]
                    ELSE IF exe[e] = NotBuilt THEN NotBuilt
                    ELSE [exe[e] EXCEPT !.state = "leftover"]]
  /\ Judge("build", tree # NoTree /\ \A e \in Executables : exe'[e] # NotBuilt)
  /\ built' = (tree # NoTree /\ \A e \in Executables : exe'[e] # NotBuilt)
  /\ UNCHANGED <<machine, detected, tree, targets, ours, configured>>

\* tool gdb: the crash has to show trigger_crash, run_server and main.
CheckBacktrace ==
  /\ Offers("cpp-build") /\ Offers("gdb")
  /\ Judge("backtrace", exe["dut"] # NotBuilt /\ exe["dut"].readable)
  /\ UNCHANGED <<machine, detected, tree, exe, targets, ours, configured, built>>

\* The learner runs cmake by hand: a fresh tree gets whatever compiler CMake
\* prefers or is told, an old one can only change its build type.
LearnerConfigure(t) ==
  /\ tree # NoTree => t.compiler = tree.compiler
  /\ tree' = t
  /\ ours' = FALSE
  /\ configured' = FALSE
  /\ built' = FALSE
  /\ UNCHANGED <<machine, detected, exe, targets, nativeVerdict>>

\* The remedy every message names: rm -rf cpp/build
DeleteTree ==
  /\ tree' = NoTree
  /\ exe' = [e \in Executables |-> NotBuilt]
  /\ ours' = FALSE
  /\ configured' = FALSE
  /\ built' = FALSE
  /\ UNCHANGED <<machine, detected, targets, nativeVerdict>>

DropTarget(e) ==
  /\ DropTargets
  /\ targets' = targets \ {e}
  /\ UNCHANGED <<machine, detected, tree, exe, nativeVerdict, ours, configured, built>>

\* Installing a tool takes effect when the server is started again.
Install(m) ==
  /\ machine.found \subseteq m.found
  /\ machine' = m
  /\ UNCHANGED <<detected, tree, exe, targets, nativeVerdict, ours, configured, built>>

Restart ==
  /\ detected' = machine
  /\ UNCHANGED <<machine, tree, exe, targets, nativeVerdict, ours, configured, built>>

NativeNext ==
  \/ CheckConfigure
  \/ CheckBuild
  \/ CheckBacktrace
  \/ \E t \in Trees : LearnerConfigure(t)
  \/ DeleteTree
  \/ \E e \in Executables : DropTarget(e)
  \/ \E m \in MachinesTried : Install(m)
  \/ Restart

NativeSpec == NativeInit /\ [][NativeNext]_nativeVars

--------------------------------------------------------------------------------

\* A compiler that FTL_CXX names, and whose name does not say what it is, where gdb is known.
UnusualName == tree.compiler = "renamed" /\ "gdb" \in Detected(detected)

\* "A lesson the machine cannot verify is shown as unavailable, never as content
\* that quietly fails when you press Verify" (toolchain.py): for a lesson that is
\* offered, on any machine, the configure check succeeds where there is no tree yet, and
\* never rejects a tree that it has made itself, but for the name of its compiler.
OfferedLessonConfigures ==
  [][tree = NoTree \/ (ours /\ ~UnusualName) =>
       \/ nativeVerdict'["configure"] = nativeVerdict["configure"]
       \/ nativeVerdict'["configure"] = "passed"]_nativeVars

\* The same without the exception.  Not so in the code: the compiler that FTL_CXX names is
\* used for a fresh tree (_configure_argv), which the next configure check then rejects
\* (_incompatible_cached_compiler).
OwnTreeIsAccepted == ours => nativeVerdict["configure"] # "failed"

\* Green configure and build checks mean that gdb can read the crash: whatever the
\* learner configured, edited and deleted before, the backtrace check cannot fail
\* behind them for want of symbols.
GreenBuildIsDebuggable == configured /\ built => exe["dut"].readable

\* "Each executable is checked by path" (day11.json): a green build check means that
\* the present sources build both.  A leftover passes: see the README.
BuildVerdictIsCurrent ==
  built => \A e \in Executables : e \in targets
================================================================================

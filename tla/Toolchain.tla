------------------------------- MODULE Toolchain -------------------------------
(***************************************************************************)
(* Detection of the native tools (toolchain.py) and what a lesson may      *)
(* require of them.  A machine is the set of tools that some search finds, *)
(* with what the FTL_CXX variable says of the compiler.                    *)
(***************************************************************************)
EXTENDS Integers, Sequences, FiniteSets

Tools == {"cmake", "ctest", "cxx", "gdb", "ninja", "make"}

\* FTL_CXX: not set; an existing file whose name says g++, gcc, clang or c++; an
\* existing file with another name; or a file that does not exist.  What it names is taken
\* to be such a compiler, whatever its name: gdb reads the symbols that it writes.
Overrides == {"unset", "named", "renamed", "dangling"}

Machines == [found : SUBSET Tools, ftlCxx : Overrides]

CONSTANT MachinesTried  \* bound: what may be installed

ASSUME MachinesAssumption == MachinesTried \subseteq Machines

VARIABLE machine  \* what is installed

\* detect_toolchain: an override that names a file wins, everything else is
\* searched for.  The search only knows compilers by their usual names.
Detected(m) ==
  IF m.ftlCxx \in {"named", "renamed"} THEN m.found \cup {"cxx"} ELSE m.found

CompilerName(m) == IF m.ftlCxx = "renamed" THEN "renamed" ELSE "gnu"

\* Mutant: CMake is trusted to find its own build tool.
CanBuildCpp_AnyBackend(m) == {"cmake", "ctest", "cxx"} \subseteq Detected(m)

CanBuildCpp(m) ==
  /\ {"cmake", "ctest", "cxx"} \subseteq Detected(m)
  /\ Detected(m) \cap {"ninja", "make"} # {}

KnownRequirements == {"cpp-build", "gdb"}

Satisfies(m, requirement) ==
  \/ requirement = "cpp-build" /\ CanBuildCpp(m)
  \/ requirement = "gdb" /\ "gdb" \in Detected(m)
================================================================================

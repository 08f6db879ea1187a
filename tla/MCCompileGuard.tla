---------------------------- MODULE MCCompileGuard ----------------------------
(* Two threads, a kernel that is watched, and one of the same name in the same *)
(* file that never is.                                                         *)
EXTENDS CompileGuard, TLC

CONSTANTS t1, t2, kernel, namesake, label

MCThreads == {t1, t2}
MCKernels == {kernel, namesake}
MCWatchable == {kernel}
MCNameOf == [k \in MCKernels |-> "kernel"]

Symmetry == Permutations(MCThreads)
===============================================================================

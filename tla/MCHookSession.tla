---------------------------- MODULE MCHookSession ---------------------------
(* Values of HookSession's constants for TLC. *)
EXTENDS HookSession, TLC

CONSTANTS f, p1, p2

Read(x) == [kind |-> "read", target |-> x]
Range(x) == [kind |-> "range", target |-> x]
Dump(x) == [kind |-> "dump", target |-> x]
Search == [kind |-> "search", target |-> "pattern"]
ShellSearch == [kind |-> "shellsearch", target |-> "pattern"]

CrashCalls == {ShellSearch}
OneRead == {Read(f)}
RangeThenRead == {Range(f), Read(f)}

ReadsOnly == {ReadTool}
ProcSymmetry == Permutations(Procs)
=============================================================================

--------------------------- MODULE ProcParameters ---------------------------
(***************************************************************************)
(* What the process tree is a tree of, and its root: the parameters of     *)
(* ProcTable and of ProcTree, which implements it.                         *)
(***************************************************************************)
CONSTANTS
  Pid,        \* pids of processes
  Name,       \* names of processes
  RootPid,    \* pid of pmanager
  RootPpid,   \* pid of the parent of pmanager
  RootName    \* name of pmanager

\* pmanager is a process of the shell, its own parent is not.
ASSUME RootAssumption == RootPid \in Pid /\ RootPpid \notin Pid
=============================================================================

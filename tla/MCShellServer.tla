---------------------------- MODULE MCShellServer ----------------------------
(* Small instances of ShellServer. *)
EXTENDS ShellServer, TLC

\* Only the safety run uses it.
Symmetry == Permutations(Clients)
==============================================================================

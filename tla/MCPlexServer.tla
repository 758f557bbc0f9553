---------------------------- MODULE MCPlexServer ----------------------------
(* Small instances of PlexServer. *)
EXTENDS PlexServer, TLC
ProcSymmetry == Permutations(Procs)
=============================================================================

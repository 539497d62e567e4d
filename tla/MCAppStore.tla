---------------------------- MODULE MCAppStore ----------------------------
(* AppStore for TLC: two loads of a source, two requests, two jobs.        *)
EXTENDS AppStore, TLC

Identities == Permutations(SourceIds) \cup Permutations(JobIds)
              \cup Permutations(RequestIds) \cup Permutations(Settings)
===========================================================================

-------------------------- MODULE MCJobLifecycle --------------------------
(* JobLifecycle for TLC: the identities of loads and jobs are the          *)
(* requests' as well.  Where there are two loads and two jobs, three of    *)
(* the four at most are used in one behaviour.                             *)
EXTENDS JobLifecycle, TLC, FiniteSets

Identities == Permutations(SourceIds) \cup Permutations(JobIds)
              \cup Permutations(Settings)

MaxIdentities == 3
Bounded ==
    Cardinality({s \in SourceIds : loads[s] # "UNUSED"})
    + Cardinality({j \in JobIds : ~Unused(j)}) <= MaxIdentities
===========================================================================

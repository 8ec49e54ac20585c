---------------------------- MODULE MCProfileFile ----------------------------
(***************************************************************************)
(* An instance of ProfileFile for TLC.                                     *)
(***************************************************************************)
EXTENDS ProfileFile

Cost(kib, passes, lanes) ==
    [memory_kib |-> kib, iterations |-> passes, parallelism |-> lanes]

\* The costs of this build, those of a build that prefers memory, both limits at
\* once, and those of the tests.
MCCosts == {production, Cost(131072, 3, 1), Cost(131072, 6, 4), Cost(32, 1, 1)}
=============================================================================

--------------------------- MODULE MCLogDispatch ---------------------------
(* Instances of LogDispatch for TLC. *)
EXTENDS LogDispatch, TLC

CONSTANTS t1, t2

MCThreads == {t1, t2}

\* The threads are interchangeable.
ThreadSymmetry == Permutations(MCThreads)

\* One call per way of logging that the code distinguishes, with the preset that
\* sends most to Sentry and the disk; and calls while config is assigned twice,
\* between two presets that differ at every destination.
MCScenarios ==
    {[presets |-> {"releaseAdvanced"}, kinds |-> {"debug", "error", "fatal"},
      calls |-> 3, changes |-> 0, failures |-> 1],
     [presets |-> {"releaseAdvanced"}, kinds |-> {"error", "userReport"},
      calls |-> 2, changes |-> 0, failures |-> 1],
     [presets |-> {"debug", "release"}, kinds |-> {"debug", "error"},
      calls |-> 2, changes |-> 2, failures |-> 0]}
=============================================================================

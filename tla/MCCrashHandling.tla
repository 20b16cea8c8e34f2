--------------------------- MODULE MCCrashHandling ---------------------------
EXTENDS CrashHandling
CONSTANTS t1, t2
MCThreads == {t1, t2}

\* One event of any kind with two faults inside handlers; and two events,
\* racing each other, of the handlers that suspend the other threads.
MCBudgets == {[events |-> 1, faults |-> 2, kinds |-> EventKinds],
              [events |-> 2, faults |-> 0, kinds |-> EventKinds \ {"userTerm"}]}
TwoSignals == {[events |-> 2, faults |-> 0, kinds |-> {"abort"}]}
=============================================================================

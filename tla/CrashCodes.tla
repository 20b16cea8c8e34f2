------------------------------- MODULE CrashCodes ------------------------------
(***************************************************************************)
(* What a report says of a crash in the words of Mach and of Unix: the     *)
(* monitor that saw it knows one of them, the monitors that are enabled    *)
(* add the other, and the report names both.                               *)
(***************************************************************************)
EXTENDS Naturals, Sequences

CONSTANTS Codes     \* of Mach exceptions

VARIABLES
    crash,          \* [type, exception, code, signal, sigcode]
    overflow,       \* isStackOverflow of the machine context
    enabled,        \* the monitors that are enabled, of {"mach", "signal"}
    step,           \* "captured", "mach", "signal", "written"
    report          \* the names: [exception, signal, sigcode]

vars == <<crash, overflow, enabled, step, report>>

None == "none"
\* machExceptionForSignal.
ExceptionFor(s) ==
    CASE s = "SIGFPE" -> "EXC_ARITHMETIC" [] s \in {"SIGSEGV", "SIGBUS"} -> "EXC_BAD_ACCESS"
      [] s = "SIGILL" -> "EXC_BAD_INSTRUCTION" [] s = "SIGTRAP" -> "EXC_BREAKPOINT"
      [] s = "SIGSYS" -> "EXC_UNIX_BAD_SYSCALL" [] s = "SIGPIPE" -> "EXC_UNIX_BAD_PIPE"
      [] s = "SIGABRT" -> "EXC_CRASH" [] OTHER -> None

\* Mutant of SignalFor: a breakpoint is an instruction that is bad.
SignalForAll(e, code) ==
    CASE e = "EXC_ARITHMETIC" -> "SIGFPE"
      [] e = "EXC_BAD_ACCESS" -> IF code = "KERN_INVALID_ADDRESS" THEN "SIGSEGV" ELSE "SIGBUS"
      [] e \in {"EXC_BAD_INSTRUCTION", "EXC_BREAKPOINT"} -> "SIGILL" [] OTHER -> None

\* signalForMachException.
SignalFor(e, code) ==
    CASE e = "EXC_ARITHMETIC" -> "SIGFPE"
      [] e = "EXC_BAD_ACCESS" -> IF code = "KERN_INVALID_ADDRESS" THEN "SIGSEGV" ELSE "SIGBUS"
      [] e = "EXC_BAD_INSTRUCTION" -> "SIGILL" [] e = "EXC_BREAKPOINT" -> "SIGTRAP"
      [] e = "EXC_SOFTWARE" /\ code = "EXC_UNIX_BAD_SYSCALL" -> "SIGSYS"
      [] e = "EXC_SOFTWARE" /\ code = "EXC_UNIX_BAD_PIPE" -> "SIGPIPE"
      [] e = "EXC_SOFTWARE" /\ code = "EXC_UNIX_ABORT" -> "SIGABRT"
      [] e = "EXC_SOFTWARE" /\ code = "EXC_SOFT_SIGNAL" -> "SIGKILL"
      [] OTHER -> None

\* g_fatalSignals, and the signals that have names: where SIGTRAP is wanted there is SIGTERM.
FatalSignals == {"SIGABRT", "SIGBUS", "SIGFPE", "SIGILL", "SIGPIPE", "SIGSEGV", "SIGSYS", "SIGTRAP"}
NamedSignals == (FatalSignals \ {"SIGTRAP"}) \cup {"SIGTERM"}
SignalName(s) == IF s \in NamedSignals THEN s ELSE None
SignalCodeName(s, c) ==
    IF <<s, c>> \in {<<"SIGILL", "ILL_ILLOPC">>, <<"SIGTERM", "TRAP_BRKPT">>, <<"SIGSEGV", "SEGV_MAPERR">>,
                     <<"SIGBUS", "BUS_ADRERR">>, <<"SIGFPE", "FPE_INTDIV">>} THEN c ELSE None
ExceptionName(e) == IF e \in {"EXC_BAD_ACCESS", "EXC_BAD_INSTRUCTION", "EXC_ARITHMETIC", "EXC_SOFTWARE",
                              "EXC_BREAKPOINT", "EXC_CRASH"} THEN e ELSE None
\* The exceptions the Mach monitor asks for.
Mask == {"EXC_BAD_ACCESS", "EXC_BAD_INSTRUCTION", "EXC_ARITHMETIC", "EXC_SOFTWARE", "EXC_BREAKPOINT"}
Sigcodes == {"0", "ILL_ILLOPC", "TRAP_BRKPT", "SEGV_MAPERR", "BUS_ADRERR", "FPE_INTDIV"}

TypeOK == crash.exception # "" /\ crash.signal # "" /\ step \in {"captured", "mach", "signal", "written"}

\* A monitor that is enabled has filled in what it knows.  Only the context of the machine says that
\* the stack overflowed, the context of the crash never does.
ContextSaysOverflow == FALSE
Corrected(code) == IF code = "KERN_PROTECTION_FAILURE" /\ ContextSaysOverflow THEN "KERN_INVALID_ADDRESS" ELSE code

Init ==
    /\ overflow \in BOOLEAN /\ enabled \in SUBSET {"mach", "signal"}
    /\ step = "captured" /\ report = [exception |-> None, signal |-> None, sigcode |-> None]
    /\ \/ /\ "mach" \in enabled
          /\ \E e \in Mask, c \in Codes :
                crash = [type |-> "mach", exception |-> e, code |-> Corrected(c),
                         signal |-> SignalFor(e, Corrected(c)), sigcode |-> "0"]
       \/ /\ "signal" \in enabled
          /\ \E s \in FatalSignals, c \in Sigcodes :
                crash = [type |-> "signal", exception |-> None, code |-> "0", signal |-> s, sigcode |-> c]
       \/ crash = [type |-> "exception", exception |-> None, code |-> "0", signal |-> None, sigcode |-> "0"]

\* sentrycrashcm_handleException: the monitors add what they know, in the order of g_monitors.
AddMach ==
    /\ step = "captured" /\ step' = "mach" /\ UNCHANGED <<overflow, enabled, report>>
    /\ crash' = IF "mach" \notin enabled \/ crash.type = "mach" THEN crash
                ELSE [crash EXCEPT !.exception = IF crash.type = "signal" THEN ExceptionFor(crash.signal)
                                                 ELSE "EXC_CRASH"]
AddSignal ==
    /\ step = "mach" /\ step' = "signal" /\ UNCHANGED <<overflow, enabled, report>>
    /\ crash' = IF "signal" \notin enabled \/ crash.type # "exception" THEN crash
                ELSE [crash EXCEPT !.signal = "SIGABRT"]
Write ==
    /\ step = "signal" /\ step' = "written" /\ UNCHANGED <<crash, overflow, enabled>>
    /\ report' = [exception |-> ExceptionName(crash.exception), signal |-> SignalName(crash.signal),
                  sigcode |-> SignalCodeName(crash.signal, crash.sigcode)]

Next == AddMach \/ AddSignal \/ Write
Spec == Init /\ [][Next]_vars
-----------------------------------------------------------------------------
\* If both monitors are enabled, the exception and the signal of a report tell of the same crash,
\* whoever saw it, but for those the kernel makes of a software exception.
BothTellTheSame ==
    step = "written" /\ enabled = {"mach", "signal"} /\ crash.exception # "EXC_SOFTWARE" =>
        /\ crash.exception = ExceptionFor(crash.signal)
        /\ crash.type = "mach" => SignalFor(crash.exception, crash.code) = crash.signal

(* What the code does not keep. *)

\* A signal that is caught has a name.
CaughtIsNamed == step = "written" /\ crash.type = "signal" => report.signal = crash.signal
\* A comment of the Mach handler: "A stack overflow should return KERN_INVALID_ADDRESS".
OverflowIsInvalidAddress ==
    step = "written" /\ crash.type = "mach" /\ overflow => crash.code # "KERN_PROTECTION_FAILURE"
\* Software exceptions, too, tell the same.
SoftwareTellsTheSame ==
    step = "written" /\ crash.exception = "EXC_SOFTWARE" => crash.exception = ExceptionFor(crash.signal)
=============================================================================

----------------------------- MODULE Redaction -----------------------------
(***************************************************************************)
(* What of an object a call prints.  Each level has an overload for        *)
(* Encodable and one for Redacted values, warn, error and fatal one for    *)
(* errors too; which one a call takes is decided by the compiler from the  *)
(* static type, which may promise less than the value is.  SteamcLog is a  *)
(* struct: a copy, the one Netable's adapter holds for example, keeps the  *)
(* config it was copied with.                                              *)
(***************************************************************************)
EXTENDS Naturals, FiniteSets

CONSTANT MaxSteps    \* bound: calls and assignments of config

VARIABLES config,    \* of "original" and, once the adapter is made, of its "copy"
          shown,     \* the last call and what it printed of its object
          steps

vars == <<config, shown, steps>>

Traits  == {"encodable", "redacted", "error", "describes", "encodes"}
Configs == [requireRedacted : BOOLEAN, suppressError : BOOLEAN]
\* Values: the protocols a type conforms to; whether it has a description of its own
\* (CustomStringConvertible), and whether JSONEncoder can encode it.
Values  == {v \in SUBSET Traits : v \cap {"encodable", "redacted", "error"} # {}
                                  /\ ("encodes" \in v => "encodable" \in v)}
Levels  == {"verbose", "debug", "info", "warn", "userReport", "error", "fatal"}
Overloads(level) == IF level \in {"warn", "error", "fatal"}
                    THEN {"encodable", "redacted", "error"} ELSE {"encodable", "redacted"}

-----------------------------------------------------------------------------
\* String interpolation: the type's own description, else debugDescription, which Redacted
\* provides, else everything.
Interpolated(v) ==
    CASE "describes" \in v -> "own"
      [] "describes" \notin v /\ "redacted" \in v -> "safe"
      [] OTHER -> "whole"

\* JSONEncoder, or the message alone when it throws.
Encoded(v) == IF "encodes" \in v THEN "whole" ELSE "nothing"

\* Under requireRedacted: object as? Redacted.
Guarded(v) == IF "redacted" \in v THEN Interpolated(v) ELSE "nothing"

\* Mutant of Shown: a suppressed error is handed on as its description.
ShownUnguardedIfSuppressed(level, overload, c, v) ==
    LET suppressed == level = "error" /\ "error" \in v /\ c.suppressError IN
    CASE overload = "redacted" -> IF level \in {"userReport", "error"} THEN "safe" ELSE Interpolated(v)
      [] overload # "redacted" /\ suppressed -> Interpolated(v)
      [] overload # "redacted" /\ c.requireRedacted /\ ~suppressed -> Guarded(v)
      [] overload = "encodable" /\ ~c.requireRedacted /\ ~suppressed -> Encoded(v)
      [] OTHER -> Interpolated(v)

\* What an overload of a level prints of v.  userReport and error call debugDescription
\* themselves.  A suppressed error goes to the same overload of warn.
Shown(level, overload, c, v) ==
    CASE overload = "redacted" -> IF level \in {"userReport", "error"} THEN "safe" ELSE Interpolated(v)
      [] overload # "redacted" /\ c.requireRedacted -> Guarded(v)
      [] overload = "encodable" /\ ~c.requireRedacted -> Encoded(v)
      [] OTHER -> Interpolated(v)

\* track(id:encodable:) warns when the value can not be encoded to a dictionary.
ShownByTrack(v) == IF "encodes" \in v THEN "nothing" ELSE Interpolated(v)

\* Mutant of ShownByNetable: the result is logged as any other value.
ShownByNetableEncoded(c, v) ==
    IF "encodable" \in v THEN Shown("info", "encodable", c, v) ELSE "nothing"

\* requestSuccess: only a result that is Redacted is printed, by the overload for it.
ShownByNetable(c, v) ==
    IF "redacted" \in v THEN Shown("info", "redacted", c, v) ELSE "nothing"
-----------------------------------------------------------------------------
None == [via |-> "none", value |-> {}, required |-> FALSE, text |-> "nothing"]

Init == /\ config \in [{"original"} -> Configs]
        /\ shown = None /\ steps = 0

Step == steps < MaxSteps /\ steps' = steps + 1

\* RedactedLogDestination(clog:) copies the struct.
MakeAdapter == /\ Step /\ "copy" \notin DOMAIN config
               /\ config' = [i \in {"original", "copy"} |-> config["original"]]
               /\ UNCHANGED shown

\* config is assigned on one of the copies; the destinations' levels are those of both.
AssignConfig == /\ Step
                /\ \E i \in DOMAIN config, c \in Configs : config' = [config EXCEPT ![i] = c]
                /\ UNCHANGED shown

Printed(via, v, c, text) ==
    shown' = [via |-> via, value |-> v, required |-> c.requireRedacted, text |-> text]

\* Any call on the original; its static type promises at least what the overload asks for.
Call == /\ Step
        /\ \E v \in Values, level \in Levels : \E overload \in Overloads(level) \cap v :
              Printed(level, v, config["original"], Shown(level, overload, config["original"], v))
        /\ UNCHANGED config

Track == /\ Step
         /\ \E v \in Values : "encodable" \in v /\ Printed("track", v, config["original"], ShownByTrack(v))
         /\ UNCHANGED config

\* The adapter logs a finished request through its copy.
RequestSuccess == /\ Step /\ "copy" \in DOMAIN config
                  /\ \E v \in Values : Printed("netable", v, config["original"], ShownByNetable(config["copy"], v))
                  /\ UNCHANGED config

\* The adapter's other events: a request that starts has its URL printed, and of its headers and
\* parameters those declared safe; one that fails the error's description.
RequestEvent == /\ Step /\ "copy" \in DOMAIN config
                /\ \E text \in {"whole", "safe", "own"} : Printed("event", {}, config["original"], text)
                /\ UNCHANGED config

Next == MakeAdapter \/ AssignConfig \/ Call \/ Track \/ RequestSuccess \/ RequestEvent
Spec == Init /\ [][Next]_vars
-----------------------------------------------------------------------------
\* More than what is declared safe.
Exposed == shown.text \in {"own", "whole"}

\* With requireRedacted an object is printed beyond its safe properties in two cases only, whichever
\* overload the compiler picks and wherever an error is suppressed to: by the description that a
\* Redacted type has of its own, and by track, if it does not encode.
RequireRedactedHolds ==
    shown.required /\ Exposed /\ shown.via # "event" =>
        \/ shown.text = "own" /\ "redacted" \in shown.value
        \/ shown.via = "track" /\ "encodes" \notin shown.value

\* Of what a request returned nothing is printed that is not Redacted, and never all of it, even
\* through a copy whose config is stale.
StaleCopyIsSafe ==
    shown.via = "netable" /\ Exposed => shown.text = "own" /\ "redacted" \in shown.value

(* What the code does not keep. *)

\* README: requireRedacted is to "require that all logged objects conform to Redacted or are all
\* redacted by default": track logs an object that does neither.
AllRedacted ==
    shown.required /\ shown.via # "event" /\ "redacted" \notin shown.value => shown.text = "nothing"

\* Only safe properties of a Redacted value are printed: one with a description of its own is
\* printed by that.
OnlySafeProperties == shown.required /\ "redacted" \in shown.value => ~Exposed

\* A Redacted value is never printed whole: without requireRedacted the overload for Encodable
\* values encodes all of it.
RedactedIsNeverWhole == "redacted" \in shown.value => shown.text # "whole"

\* Nothing but safe headers and parameters is printed of a request: its URL and its error are.
RequestsAreSafe == shown.via = "event" => ~Exposed
=============================================================================

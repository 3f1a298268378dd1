---------------------------- MODULE DaemonConfig ----------------------------
(***************************************************************************)
(* load_config, and what the constructors make of its result.  A field     *)
(* that is missing, no number, or out of range takes its default, and two  *)
(* pairs of times that do not fit each other are repaired afterwards.  But *)
(* an integer too large for float() ends load_config: nothing catches the  *)
(* OverflowError.                                                          *)
(*                                                                         *)
(* Times are in tenths of a second.  A field that is missing or no number  *)
(* is treated like one out of range, and a file that is absent, unreadable *)
(* or no object like one without fields, so a file gives every field an    *)
(* integer or TooLarge.  (What json.load itself may raise besides          *)
(* JSONDecodeError, on thousands of digits or levels, ends load_config in  *)
(* the same way and counts as TooLarge too.)  Switches and the log level   *)
(* meet nothing else and are left out.                                     *)
(***************************************************************************)
EXTENDS Integers

CONSTANTS
    Files,    \* the files somebody may write
    TooLarge  \* an integer that is too large for float(); no member of Int

\* _RANGES, with the defaults of Config.
Limits(minimum, maximum, default) ==
    [min |-> minimum, max |-> maximum, default |-> default]
Ranges ==
    [brightness |-> Limits(0, 7, 5),
     frame_interval_ms |-> Limits(50, 150, 100),
     heartbeat_interval_s |-> Limits(20, 50, 30),
     offline_timeout_s |-> Limits(60, 1200, 120),
     success_hold_s |-> Limits(10, 600, 80),
     transient_error_s |-> Limits(2, 100, 15),
     stale_session_s |-> Limits(600, 6048000, 432000),
     quota_refresh_interval_s |-> Limits(300, 36000, 600),
     quota_stale_after_s |-> Limits(600, 864000, 9000)]
Field == DOMAIN Ranges
File == [Field -> Int \cup {TooLarge}]
\* No float(value) raises.
Loadable(raw) == \A f \in Field : raw[f] # TooLarge
InRange(f, value) == Ranges[f].min <= value /\ value <= Ranges[f].max

Fitting(f, value) == IF InRange(f, value) THEN value ELSE Ranges[f].default
\* A time that is shorter than two of another takes its default.
Repaired(f, value, interval) ==
    IF value < 2 * interval THEN Ranges[f].default ELSE value

\* The result of load_config, of the fields in a file on which it returns.
LoadConfig(raw) ==
    LET field == [f \in Field |-> Fitting(f, raw[f])]
    IN  [field EXCEPT
            !["offline_timeout_s"] =
                Repaired("offline_timeout_s", @, field["heartbeat_interval_s"]),
            !["quota_stale_after_s"] =
                Repaired("quota_stale_after_s", @, field["quota_refresh_interval_s"])]

\* The checks in CodexQuotaSource.__init__ and SessionAggregator.__init__.
QuotaTimingOK(values) ==
    /\ values["quota_refresh_interval_s"] > 0
    /\ values["quota_stale_after_s"] >= values["quota_refresh_interval_s"]
DurationsOK(values) ==
    /\ values["success_hold_s"] >= 0
    /\ values["transient_error_s"] >= 0
    /\ values["stale_session_s"] > 0
-----------------------------------------------------------------------------
VARIABLES
    file,     \* config.json as the administrator left it
    config,   \* the result of load_config
    process   \* where the service is

vars == <<file, config, process>>

Init ==
    /\ file \in Files
    /\ config = [f \in Field |-> Ranges[f].default]
    /\ process = "loading"

\* main: load_config returns, or raises.
Load ==
    /\ process = "loading"
    /\ IF Loadable(file)
       THEN config' = LoadConfig(file) /\ process' = "constructing"
       ELSE process' = "failed" /\ UNCHANGED config
    /\ UNCHANGED file
\* MatrixDaemon.__init__.
Construct ==
    /\ process = "constructing"
    /\ process' = IF QuotaTimingOK(config) /\ DurationsOK(config)
                THEN "running" ELSE "failed"
    /\ UNCHANGED <<file, config>>
\* Restart=on-failure: the same file is loaded again.
Restart ==
    /\ process = "failed"
    /\ process' = "loading"
    /\ UNCHANGED <<file, config>>
\* The administrator edits the file and restarts the service.
Edit(new) ==
    /\ process \in {"running", "failed"}
    /\ file' = new /\ process' = "loading"
    /\ UNCHANGED config

Next == Load \/ Construct \/ Restart \/ \E new \in Files : Edit(new)
Spec == Init /\ [][Next]_vars
-----------------------------------------------------------------------------
\* What a reader of the README expects: whatever is in the file, the daemon
\* starts with values that are safe.
SafeDefaults == process # "failed"
=============================================================================

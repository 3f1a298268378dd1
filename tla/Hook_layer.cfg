\* Four runs of the scripts within two seconds, two edits by others.
SPECIFICATION Spec
CONSTANTS
    Events = {"PreToolUse", "Stop"}
    Ours = "ours"
    Others = {"lint"}
    Absent = Absent
    UserJson <- MCUserJson
    UserConfig <- MCUserConfig
    MaxRuns = 4
    MaxEdits = 2
    MaxTime = 1
INVARIANTS NoHandlerTwice InstallCovers UninstallRemovesAll OriginalRecoverable
PROPERTY ForeignKept
\* Runs and edits are bounded: every behaviour stops.
CHECK_DEADLOCK FALSE

--------------------------- MODULE MatrixProtocol ---------------------------
(***************************************************************************)
(* The vocabulary shared by the hook, the daemon and the firmware: display *)
(* states, their fixed ranking, and the lifecycle event categories with    *)
(* the state a hook attaches to each of them.                              *)
(***************************************************************************)
EXTENDS Integers

State ==
    {"OFF", "IDLE", "THINKING", "READING", "WRITING", "COMMAND", "TESTING",
     "BUILDING", "FLASHING", "WAITING", "SUCCESS", "ERROR", "OFFLINE",
     "SUBAGENT"}

\* Larger values win when several sessions compete for the one display.
STATE_PRIORITY ==
    [OFF |-> -1, IDLE |-> 0, SUCCESS |-> 10, THINKING |-> 20,
     SUBAGENT |-> 30, COMMAND |-> 40, READING |-> 50, WRITING |-> 60,
     BUILDING |-> 70, TESTING |-> 80, FLASHING |-> 90, WAITING |-> 100,
     ERROR |-> 110, OFFLINE |-> 120]

EventCategory ==
    {"session_start", "user_prompt", "pre_tool", "permission", "post_tool",
     "pre_compact", "post_compact", "subagent_start", "subagent_stop",
     "stop", "session_end"}

\* The results classify_tool can return for a "pre_tool" event.
ToolState ==
    {"COMMAND", "READING", "WRITING", "BUILDING", "TESTING", "FLASHING",
     "SUBAGENT"}

STATE_BY_EVENT ==
    [session_start |-> "IDLE", user_prompt |-> "THINKING",
     permission |-> "WAITING", post_tool |-> "THINKING",
     pre_compact |-> "THINKING", post_compact |-> "THINKING",
     subagent_start |-> "SUBAGENT", subagent_stop |-> "THINKING",
     stop |-> "SUCCESS", session_end |-> "IDLE"]

\* The states normalize_hook_payload may attach to an event of category e.
StatesOfEvent(e, failed) ==
    IF e = "pre_tool" THEN ToolState
    ELSE IF failed THEN {"ERROR"} ELSE {STATE_BY_EVENT[e]}
=============================================================================

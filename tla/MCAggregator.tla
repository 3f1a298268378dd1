---------------------------- MODULE MCAggregator ----------------------------
(***************************************************************************)
(* Small instances of Aggregator.  One session exercises every timer, and  *)
(* two sessions share the key cache and the display.                       *)
(***************************************************************************)
EXTENDS Aggregator

CONSTANTS S1, S2, NoRef, R1, R2

OneSession == {S1}
TwoSessions == {S1, S2}
NoAndOneRef == {NoRef, R1}
AllRefs == {NoRef, R1, R2}

Call(e, s, r, st, f) ==
    [event |-> e, session |-> s, ref |-> r, state |-> st, failed |-> f]

\* One session whose tool call fails, and which then stops and ends.
OneLife ==
    {Call("post_tool", S1, R1, "ERROR", TRUE),
     Call("stop", S1, R1, "SUCCESS", FALSE),
     Call("session_end", S1, NoRef, "IDLE", FALSE)}

\* One session that is given a prompt, and ends, as often as it likes: nothing
\* in it fades, so only hooks change the time of its record.
Resumable ==
    {Call("user_prompt", S1, R1, "THINKING", FALSE),
     Call("session_end", S1, NoRef, "IDLE", FALSE)}

\* Two sessions: one works and fails, the other stops and ends.
TwoLives ==
    {Call("post_tool", S1, R1, "ERROR", TRUE),
     Call("stop", S2, R1, "SUCCESS", FALSE),
     Call("session_end", S2, NoRef, "IDLE", FALSE)}
=============================================================================

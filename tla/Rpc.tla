-------------------------------- MODULE Rpc --------------------------------
(***************************************************************************)
(* What a caller of RouterBridge.request may rely on, without ids, frames, *)
(* connections or timeouts.  One call is open at a time.  It ends with the *)
(* result of its own execution on the board, or it fails; a call that      *)
(* failed may have been carried out, may be carried out later, behind      *)
(* newer calls, or never.  No call is carried out twice.                   *)
(***************************************************************************)
EXTENDS Naturals

VARIABLES
    calls,     \* how many calls were made; the last one is number `calls'
    open,      \* the last call has not ended yet
    executed,  \* the calls the board has carried out
    result     \* the call whose execution gave the last result, 0 before one

Init == calls = 0 /\ open = FALSE /\ executed = {} /\ result = 0

Call ==
    /\ ~open
    /\ calls' = calls + 1 /\ open' = TRUE
    /\ UNCHANGED <<executed, result>>

Execute(c) ==
    /\ executed' = executed \cup {c}
    /\ UNCHANGED <<calls, open, result>>

Return ==
    /\ open /\ calls \in executed
    /\ open' = FALSE /\ result' = calls
    /\ UNCHANGED <<calls, executed>>

Fail ==
    /\ open
    /\ open' = FALSE
    /\ UNCHANGED <<calls, executed, result>>

Next ==
    \/ Call \/ Return \/ Fail
    \/ \E c \in (1..calls) \ executed : Execute(c)

Spec == Init /\ [][Next]_<<calls, open, executed, result>>
=============================================================================

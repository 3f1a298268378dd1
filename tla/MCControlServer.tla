-------------------------- MODULE MCControlServer --------------------------
(* A client that may try twice, and one that never finishes its request, or *)
(* asks for too much; or several daemons and one call.                      *)
(* With two descriptors both clients are accepted, the one beside the other, *)
(* until a call that was given up, and is still counted, leaves none.        *)
EXTENDS ControlServer

MCKinds ==
    [p \in Peers |-> IF p = "user" THEN {"good", "malformed"} ELSE {"partial", "large"}]
Budget(starts, kills, user, script) ==
    [starts |-> starts, kills |-> kills,
     calls |-> [p \in Peers |-> IF p = "user" THEN user ELSE script]]
MCBudgets ==
    {Budget(1, 0, 2, 1), Budget(1, 1, 1, 1), Budget(2, 1, 1, 0), Budget(3, 2, 0, 0)}
=============================================================================

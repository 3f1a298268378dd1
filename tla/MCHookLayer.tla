---------------------------- MODULE MCHookLayer ----------------------------
(* Two events, one handler of others; files as users have them.             *)
EXTENDS HookLayer

MCUserJson ==
    {Absent,
     [hooks |-> Absent],
     [hooks |-> [e \in Events |-> IF e = "Stop" THEN <<{"lint"}>> ELSE <<>>]]}
Plain(inl) ==
    [inline |-> inl, marks |-> "none", own |-> {}, loose |-> {}, guest |-> FALSE]
MCUserConfig == {Absent, Plain({}), Plain({"Stop"})}
=============================================================================

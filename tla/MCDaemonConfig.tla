-------------------------- MODULE MCDaemonConfig --------------------------
(* The four fields that meet each other, in every combination; the others   *)
(* are out of range.  No number is too large for float(): such a file fails *)
(* in any case, whatever its other fields hold.                             *)
EXTENDS DaemonConfig

Paired == {"heartbeat_interval_s", "offline_timeout_s",
           "quota_refresh_interval_s", "quota_stale_after_s"}
Values(f) == {-1, Ranges[f].min, Ranges[f].default, Ranges[f].max}
Given == {given \in [Paired -> UNION {Values(f) : f \in Paired}] :
              \A f \in Paired : given[f] \in Values(f)}
MCFiles == {[f \in Field |-> IF f \in Paired THEN given[f] ELSE -1] : given \in Given}
=============================================================================

\* The service and a daemon started by hand; two clients.
SPECIFICATION Spec
CONSTANTS
    Daemons = {"service", "manual"}
    Service = "service"
    Peers = {"user", "script"}
    Kinds <- MCKinds
    Absent = Absent
    Listener = Listener
    MaxClients = 2
    Backlog = 1
    Budgets <- MCBudgets
INVARIANT ReachableWhenAlone
PROPERTIES ImplementsRpc CallEnds AloneComesUp ServiceComesBack
\* Starts and calls are bounded: every behaviour may stop.
CHECK_DEADLOCK FALSE

CONSTANTS
    Objects <- MC_Objects
    Requests <- MC_Requests
    MapFunc <- MC_MapFunc
    Workers <- MC_Workers
    None = None
    MaxEvents = 3
    MaxErrors = 1
SPECIFICATION Spec
\* The controller idles once all events are handled.
CHECK_DEADLOCK FALSE
INVARIANTS OwedIsQueued OneBackoffStepPerEvent
PROPERTIES EventuallyReconciled ImplementsWorkSet

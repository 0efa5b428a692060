------------------------------ MODULE MCChain ------------------------------
(* One timer list before the notifier, the monitor's after it.             *)
EXTENDS Chain

CONSTANTS sessions, notifier, monitor

MCModules == <<sessions, notifier, monitor>>
=============================================================================

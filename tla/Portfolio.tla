------------------------------ MODULE Portfolio ------------------------------
(***************************************************************************)
(* What the control plane (ControlPlane) and the work queue (WorkQueue)    *)
(* both speak of: the applications of the portfolio, the tasks of their    *)
(* batons, and the hosts, which own the one and call the other.            *)
(***************************************************************************)
CONSTANTS
  App,          \* enabled application ids
  Task,         \* task names of the batons
  Host,         \* WorkerHost processes; each calls QueuedAppAdapter.execute
  None          \* SQL NULL, no lease row
=============================================================================

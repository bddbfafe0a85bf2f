------------------------- MODULE WorkspaceLifecycle -------------------------
(***************************************************************************)
(* What the status column of the workspaces table promises: a workspace    *)
(* moves along allowedTransitions, or is forced to failed before it is     *)
(* terminal, one workspace at a time, and nothing else happens to a status. *)
(* The detailed modules are compared with this specification by            *)
(* instantiating it with their own status variable.                        *)
(***************************************************************************)
EXTENDS WorkspaceState

CONSTANTS
  Workspaces,
  InitialStatus   \* statuses a workspace may start from

VARIABLE status

Init == status \in [Workspaces -> InitialStatus]

Transition(w, to) ==
  /\ CanTransition(status[w], to)
  /\ status' = [status EXCEPT ![w] = to]

\* markFailed ("forcing failed transition") and SweepOrphans.
ForceFailed(w) ==
  /\ ~IsTerminal(status[w])
  /\ status' = [status EXCEPT ![w] = "failed"]

Next ==
  \E w \in Workspaces :
    ForceFailed(w) \/ \E to \in WorkspaceStatus : Transition(w, to)

Spec == Init /\ [][Next]_status
=============================================================================

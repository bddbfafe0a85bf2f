--------------------------- MODULE WorkspaceState ---------------------------
(***************************************************************************)
(* The workspace status machine of internal/workspace/state.go: the        *)
(* statuses a row of the workspaces table may hold, the table of allowed   *)
(* transitions, and the set of terminal statuses.                          *)
(***************************************************************************)

WorkspaceStatus ==
  { "queued", "preparing", "idle", "running", "awaiting_input",
    "awaiting_approval", "completed", "merged", "failed", "cancelled",
    "resolving_conflict", "conflict_stuck" }

\* A status that is not a key of the Go map (a terminal status, and also
\* awaiting_approval) has no outgoing transition.
allowedTransitions ==
  [ s \in WorkspaceStatus |->
      CASE s = "queued"             -> {"preparing", "cancelled"}
        [] s = "preparing"          -> {"idle", "failed", "cancelled"}
        [] s = "idle"               -> {"completed", "cancelled", "preparing", "running"}
        [] s = "running"            -> {"awaiting_input", "failed", "cancelled",
                                        "resolving_conflict"}
        [] s = "awaiting_input"     -> {"running", "completed", "cancelled"}
        [] s = "completed"          -> {"merged", "cancelled", "resolving_conflict",
                                        "conflict_stuck"}
        [] s = "resolving_conflict" -> {"completed", "conflict_stuck", "cancelled",
                                        "merged"}
        [] OTHER                    -> {} ]

CanTransition(from, to) == to \in allowedTransitions[from]

IsTerminal(s) == s \in {"merged", "failed", "cancelled", "conflict_stuck"}
=============================================================================

---------------------------- MODULE MCEventBus ----------------------------
(***************************************************************************)
(* Small instances of EventBus for TLC.                                    *)
(***************************************************************************)
EXTENDS EventBus

\* One client follows v and resumes by header; a second follows w.
TwoVaultsFollows == [c \in {"c1", "c2"} |-> IF c = "c1" THEN "v" ELSE "w"]

\* c2's URL names a cursor, so that it starts past event 1 on every connect.
OneUrlCursor == [c \in {"c1", "c2"} |-> IF c = "c1" THEN NoCursor ELSE 1]

\* A single client of vault v that resumes by header.
OneFollows == [c \in {"c1"} |-> "v"]
NoUrlCursors == [c \in {"c1"} |-> NoCursor]

=============================================================================

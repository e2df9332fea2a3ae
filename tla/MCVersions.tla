----------------------------- MODULE MCVersions -----------------------------
(* Small instances of VersionGraph: attempts of agents next to edits, and    *)
(* two actors that may both work or edit.                                    *)
EXTENDS VersionGraph

CONSTANTS a1, a2

AgentsAndEdits == [a \in {a1, a2} |-> IF a = a1 THEN {"job", "rerun"} ELSE {"edit", "replace"}]
Either == [a \in {a1, a2} |-> {"job", "edit"}]
=============================================================================

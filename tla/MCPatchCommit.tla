--------------------------- MODULE MCPatchCommit ---------------------------
(* Instances of PatchCommit for TLC. *)
EXTENDS PatchCommit, TLC

CONSTANTS p1, p2

\* One process per writer.
OneEach == (p1 :> 1) @@ (p2 :> 2)
\* Two processes that run under the same writer id.
Contended == (p1 :> 1) @@ (p2 :> 1)
\* One process, whose builders race with each other.
Alone == p1 :> 1

=============================================================================

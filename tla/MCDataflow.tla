------------------------------ MODULE MCDataflow ------------------------------
(***************************************************************************)
(* Small packages for TLC: which datasets each task reads.                 *)
(***************************************************************************)
EXTENDS DataflowProperties, TLC

CONSTANTS a, b, e, f, g, h, p1, p2, none

\* g reads a root input and what was computed from it.
Join  == (f :> {a}) @@ (g :> {f, a})
\* The same beside a task that reads the derived dataset alone, which no vector
\* of its own inputs tells is stale, and one whose completions invalidate while
\* a launch pass goes on: what makes the loop defer.
Side  == (e :> {f}) @@ (f :> {a}) @@ (g :> {f, a}) @@ (h :> {a})
\* Two tasks that read one input and run beside each other.
Pair  == (f :> {a}) @@ (g :> {a})
\* Tasks of two inputs, a task that reads the outputs of both, and one beside it.
Waits == (e :> {a}) @@ (f :> {b}) @@ (g :> {e, f}) @@ (h :> {f})
=============================================================================

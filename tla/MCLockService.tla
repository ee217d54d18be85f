---------------------------- MODULE MCLockService ----------------------------
(***************************************************************************)
(* A few processes on one resource.                                        *)
(***************************************************************************)
EXTENDS LockService

CONSTANTS h1, h2, h3, none

\* Two that take the lock either way, and one that shares it or asks who has it.
TwoAndOne ==
  [h \in Holders |-> IF h = h3 THEN {"shared", "query"} ELSE {"exclusive", "shared"}]
=============================================================================

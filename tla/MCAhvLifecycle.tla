--------------------------- MODULE MCAhvLifecycle ---------------------------
(***************************************************************************)
(* Two connections that are interchangeable.                                *)
(***************************************************************************)
EXTENDS AhvLifecycle, TLC

Swap == Permutations(Connections)
=============================================================================

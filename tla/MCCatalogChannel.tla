-------------------------- MODULE MCCatalogChannel --------------------------
(***************************************************************************)
(* Three callers that are alike and call as often as they wish, within four *)
(* sessions.                                                                *)
(***************************************************************************)
EXTENDS CatalogChannel, TLC

CONSTANTS c1, c2, c3

Perms == Permutations(Callers)
=============================================================================

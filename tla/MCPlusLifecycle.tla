-------------------------- MODULE MCPlusLifecycle --------------------------
(* One dll plugin, or one dll plugin and one py plugin, enabled a few      *)
(* times; one event task at a time.                                        *)
EXTENDS PlusLifecycle

CONSTANTS p1, p2, d1, none
=============================================================================

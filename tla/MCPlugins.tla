----------------------------- MODULE MCPlugins -----------------------------
(* The plugin registry with two plugins of two versions each.               *)
EXTENDS Plugins

CONSTANTS p1, p2, v1, v2
=============================================================================

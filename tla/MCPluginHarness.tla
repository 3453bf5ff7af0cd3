--------------------------- MODULE MCPluginHarness ---------------------------
(***************************************************************************)
(* A small instance of PluginHarness: the bounds are in the .cfg file.     *)
(***************************************************************************)
EXTENDS PluginHarness
===============================================================================

-------------------------- MODULE MCInterfaceHarness --------------------------
(***************************************************************************)
(* Small instances of InterfaceHarness: the bounds are in the .cfg files.  *)
(***************************************************************************)
EXTENDS InterfaceHarness
===============================================================================

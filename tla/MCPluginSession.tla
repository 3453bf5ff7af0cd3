--------------------------- MODULE MCPluginSession ---------------------------
(***************************************************************************)
(* Small instances of PluginSession.  The bounds are in the .cfg files.    *)
(***************************************************************************)
EXTENDS PluginSession, TLC

\* The author's callers are told apart by nothing.
AuthorSymmetry == Permutations(Authors)
==============================================================================

-------------------------------- MODULE MCRing --------------------------------
(***************************************************************************)
(* Small instances of Ring: the bounds are in the .cfg files.              *)
(***************************************************************************)
EXTENDS Ring
===============================================================================

----------------------------- MODULE MCAttachment -----------------------------
(***************************************************************************)
(* Small instances of Attachment: the bounds are in the .cfg files.        *)
(***************************************************************************)
EXTENDS Attachment
===============================================================================

------------------------------ MODULE Optional ------------------------------
(***************************************************************************)
(* Fields, objects and answers that may be absent.                         *)
(***************************************************************************)
CONSTANT None   \* what is not there
=============================================================================

-------------------------------- MODULE MCLab --------------------------------
(***************************************************************************)
(* Lab for TLC.  The constants have their values in the .cfg.              *)
(***************************************************************************)
EXTENDS Lab
=============================================================================

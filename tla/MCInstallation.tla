--------------------------- MODULE MCInstallation ---------------------------
(***************************************************************************)
(* Installation for TLC; its constants are given in Installation.cfg.      *)
(***************************************************************************)
EXTENDS Installation
=============================================================================

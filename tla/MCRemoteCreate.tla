--------------------------- MODULE MCRemoteCreate ---------------------------
(* RemoteCreate for TLC; all its constants are given in the cfg.           *)
EXTENDS RemoteCreate
=============================================================================

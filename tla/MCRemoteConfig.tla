--------------------------- MODULE MCRemoteConfig ---------------------------
(* Model-checking instance of RemoteConfig.                                *)
EXTENDS RemoteConfig, TLC
==============================================================================

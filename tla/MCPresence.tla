------------------------------ MODULE MCPresence ------------------------------
(* Model-checking instance of Presence: payloads for two derived states.   *)
EXTENDS Presence, TLC

MCPayloads == {<<"ONLINE", "FAILED">>, <<"STOPPING", "HEALTHY">>}
==============================================================================

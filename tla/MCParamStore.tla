---------------------------- MODULE MCParamStore ----------------------------
(* Two of the five records at the end of the parameters, in their order.   *)
EXTENDS ParamStore

MCTails == <<"filter", "speed_pi">>
=============================================================================

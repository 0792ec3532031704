-------------------------- MODULE MCSessionLifecycle --------------------------
(***************************************************************************)
(* SessionLifecycle for TLC: the names of the streams are strings, so that *)
(* the order in which run_loop treats them can be given.                   *)
(***************************************************************************)
EXTENDS SessionLifecycle

UserAndClient == <<"user", "client">>
UserOnly      == <<"user">>
================================================================================

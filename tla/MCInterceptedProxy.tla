-------------------------- MODULE MCInterceptedProxy --------------------------
(* TLC instances of InterceptedProxy. *)
EXTENDS InterceptedProxy

(* Two interceptor files, in the order they were loaded. *)
MCInterceptors == <<"auth", "mocks">>

=============================================================================

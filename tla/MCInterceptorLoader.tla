--------------------------- MODULE MCInterceptorLoader ---------------------------
(* TLC instances of InterceptorLoader. *)
EXTENDS InterceptorLoader, TLC

CONSTANTS file1, file2

TwoFiles == <<file1, file2>>

=============================================================================

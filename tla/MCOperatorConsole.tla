-------------------------- MODULE MCOperatorConsole --------------------------
(* Constants for checking OperatorConsole with TLC: two generations, of    *)
(* which the first may hang; two routes of one length and different ends.  *)
EXTENDS OperatorConsole

MCBuilders == 1 .. 2
MCMayHang == {1}
MCRoutes == {1, 2}
MCSignature == [r \in MCRoutes |-> r]
=============================================================================

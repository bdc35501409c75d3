------------------------------ MODULE MCRoutines ------------------------------
(* A routine whose last two runs could not sign in, under five calls of the   *)
(* user on either Device.                                                    *)
EXTENDS Routines

TwiceFailed == {[check |-> NoCheck, policy |-> "skip", fails |-> 2, misses |-> 0]}
===============================================================================

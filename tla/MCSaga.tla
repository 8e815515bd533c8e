-------------------------------- MODULE MCSaga --------------------------------
(***************************************************************************)
(* Instances of Saga for TLC.  Not every step has a Compensate, as in the  *)
(* refund saga of saga_test.go.                                            *)
(***************************************************************************)
EXTENDS Saga

MCCompensable == {0, 2}

===============================================================================

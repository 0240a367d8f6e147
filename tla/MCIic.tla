------------------------------- MODULE MCIic -------------------------------
(* Model-checking instances of the IIC driver. *)
EXTENDS Iic

CONSTANTS t1, t2

Two    == {t1, t2}
One    == {t1}
Nobody == {}
=============================================================================

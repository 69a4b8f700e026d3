----------------------------- MODULE MCHandles -----------------------------
(* Model values and small sets for checking Handles with TLC.              *)
EXTENDS Handles

CONSTANTS e1, u1

MCEnums == {e1}
MCCurs == {u1}
====

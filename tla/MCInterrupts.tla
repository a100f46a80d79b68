---------------------------- MODULE MCInterrupts ----------------------------
(* Masks at entry: everything masked, as stivale2 leaves them; the timer   *)
(* and line 3 open; the same with the cascade and a line of the slave.     *)
EXTENDS Interrupts

Masks(m, s) == [c \in {"master", "slave"} |-> IF c = "master" THEN m ELSE s]

SomeMasks == {Masks(255, 255), Masks(246, 255), Masks(242, 239)}
AllMasked == {Masks(255, 255)}
=============================================================================

------------------------------ MODULE MCClock -------------------------------
(* A small calendar that TLC runs through month after month.               *)
EXTENDS Clock

AnyTick == 0 .. (Month - 1)
=============================================================================

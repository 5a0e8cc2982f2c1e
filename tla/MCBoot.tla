------------------------------- MODULE MCBoot -------------------------------
(***************************************************************************)
(* Two controllers; a kernel of two bytes in a field of two or six, and    *)
(* modules that lie right behind the kernel, overlap where they go, or     *)
(* are too large.  The boot starts at every tick of a second, or one       *)
(* second before the month ends.                                           *)
(***************************************************************************)
EXTENDS Boot

SomeVectors == {0, 8, 13, 32, 128, 158}
SomeNumbers == {0, 1, 6, 7, 255, 256}
FieldSizes == {2, 6}
SomeSizes == {0, 3, 5}
SomeStarts == {2, 3}
SomeTicks == (0 .. TPS - 1) \union {Month - TPS}
=============================================================================

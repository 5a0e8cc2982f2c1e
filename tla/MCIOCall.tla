------------------------------ MODULE MCIOCall ------------------------------
(* Instances of IOCall for TLC: four-byte blocks with a one-byte word, so  *)
(* that a device queues three keys or one packet of the mouse.             *)
EXTENDS IOCall

CONSTANTS dev, keyboard, mouse, f, g, s, x, y, k1, k2, p1, p2

MCDev == [names |-> <<dev>>, dir |-> TRUE]
MCKeyboard == [names |-> <<dev, keyboard>>, dir |-> FALSE]
MCMouse == [names |-> <<dev, mouse>>, dir |-> FALSE]
FileF == [names |-> <<f>>, dir |-> FALSE]
FileG == [names |-> <<g>>, dir |-> FALSE]

MCNamePrefix == {<<n, n>> : n \in {dev, keyboard, mouse, f, g}}
MCPacket == <<s, x, y>>

MCOpens == { <<FileF, {O_RDWR, O_CREAT}>>, <<FileF, {O_WRONLY, O_TRUNC}>>,
             <<FileG, {O_WRONLY, O_CREAT, O_EXCL}>>, <<MCMouse, {O_RDWR}>> }
NoOpens == {}
AppendOpens == { <<FileF, {O_WRONLY, O_CREAT, O_APPEND}>> }
=============================================================================

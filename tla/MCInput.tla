------------------------------ MODULE MCInput -------------------------------
(* An instance of Input for TLC: codes with and without prefixes, packets  *)
(* whose bytes look like scan codes and prefixes, machines with and        *)
(* without a controller.                                                   *)
EXTENDS Input

CONSTANTS dev, keyboard, mouse

MCDev == [names |-> <<dev>>, dir |-> TRUE]
MCKeyboard == [names |-> <<dev, keyboard>>, dir |-> FALSE]
MCMouse == [names |-> <<dev, mouse>>, dir |-> FALSE]
MCNamePrefix == {<<n, n>> : n \in {dev, keyboard, mouse}}
NoOpens == {}
MCPacket == <<8, 28, 224>>

MCCodes == { [ext |-> FALSE, rel |-> FALSE, scan |-> 28],
             [ext |-> TRUE, rel |-> TRUE, scan |-> 117] }
MCPackets == {MCPacket, <<72, 9, 1>>}
MCMachines == { [ctl |-> TRUE, acpi |-> FALSE, flag |-> FALSE],
                [ctl |-> FALSE, acpi |-> FALSE, flag |-> FALSE],
                [ctl |-> FALSE, acpi |-> TRUE, flag |-> FALSE] }
=============================================================================

------------------------------- MODULE Input --------------------------------
(***************************************************************************)
(* From the PS/2 devices to the kernel's loop: the controller's driver     *)
(* (I8042) and the device files (IOCall) on the one thread of the kernel.  *)
(* A call of key_send or mouse_send by i8042_proc writes the file in the   *)
(* same step; after i8042_proc the loop reads both files.                  *)
(***************************************************************************)
EXTENDS IOCall, I8042

\* The loop reads as many bytes at a time as i8042_proc sends in a packet.
ASSUME InputAssumption == Len(Packet) = 3

InputVars == <<vars, i8042_vars>>

InputInit == Init /\ I8042Init

\* What i8042_proc hands on, key or packet, goes into its file.
Feed ==
  /\ i8042_proc
  /\ CASE got'["kbd"] # got["kbd"] -> key_send(Last(got'["kbd"]))
       [] got'["aux"] # got["aux"] -> mouse_send(Last(got'["aux"]))
       [] OTHER -> UNCHANGED vars

\* kernel_main makes the device files between the initialisation and the loop.
MakeFiles == FilesMade /\ InitDevices

\* Mutant: the loop goes round again without reading the files.
Drain_Skipped == Drained /\ UNCHANGED vars

Drain == Drained /\ KernelLoop

InputNext ==
  \/ i8042_init /\ UNCHANGED vars
  \/ MakeFiles \/ Feed \/ Drain
  \/ Hardware /\ UNCHANGED vars

\* Fairness is that of the kernel's thread and the hardware: nothing that
\* IOCall adds to a step of the thread can hold it up.
InputSpec == InputInit /\ [][InputNext]_InputVars /\ I8042Fairness

-----------------------------------------------------------------------------
(* Properties *)

\* One pass of the loop gives each file at most one key or packet and takes
\* as much out: the files never fill up, nothing is dropped there, and at
\* each poll all that the drivers were given has been read.
NothingDropped ==
  phase = "run" =>
    /\ Len(Queue(fs, Keyboard)) <= 1
    /\ Len(Queue(fs, Mouse)) <= Len(Packet)
    /\ at = "poll" => \A p \in Devices : taken[p] = accepted[p]
=============================================================================

------------------------------- MODULE I8042 --------------------------------
(***************************************************************************)
(* The PS/2 controller's driver, hw/i8042.c: i8042_init at boot, and       *)
(* i8042_proc, which the kernel's loop calls.  The driver polls: it and    *)
(* the hardware take turns in any order, so a wait may end either way.     *)
(*                                                                         *)
(* Hardware (external): the controller shows one byte at a time, with its  *)
(* source; reading an empty port gives the last byte again; where there is *)
(* no controller every port reads as 255.                                  *)
(***************************************************************************)
EXTENDS Integers, SequencesExt

CONSTANTS
  Codes,        \* keyboard codes: [ext, rel : BOOLEAN, scan : Nat]
  Packets,      \* packets of the mouse
  MaxEvents,    \* bound: keys and packets the devices send
  Machines      \* [ctl, acpi, flag : BOOLEAN]: a controller, ACPI, its FADT bit

VARIABLES
  at,                  \* where the kernel's thread is
  i8042_InitLock, support,
  loc,                 \* locals of i8042_proc
  machine, obuf, last, pending, enabled, events,
  sent,                \* ghost: what the devices have sent
  got,                 \* the calls of key_send and mouse_send
  trouble              \* ghost: "mixed", a unit was cut short or mixed with
                       \* another; "foreign", an answer was not the
                       \* controller's; "sick", the hardware let us down

drv == <<i8042_InitLock, support, loc>>
hw == <<machine, obuf, last, pending, enabled, events>>
ghost == <<sent, got, trouble>>
i8042_vars == <<at, drv, hw, ghost>>

Byte == 0 .. 255
Sources == {"ctl", "kbd", "aux"}

I8042_KEY_EXTENDED == 224
I8042_KEY_RELEASE == 240
KEY_UNKNOWN == 0
KEY_RELEASE == 128
SELFTEST_SUCCESS == 85
DEVRET_ACKNOW == 250
DEVRET_TESTPASS == 170
DEVRET_TESTFAIL == 252
CFG_2NDPORTCLOCK == 32

\* Keys by scan code, sixteen to a row; their numbers are those of keyboard.h.
i8042_Keys ==
  <<
    0, 10, 0, 6, 4, 2, 3, 13, 0, 11, 9, 7, 5, 28, 14, 0,
    0, 68, 55, 0, 66, 29, 15, 0, 0, 0, 56, 44, 43, 30, 16, 0,
    0, 58, 57, 45, 31, 18, 17, 0, 0, 69, 59, 46, 33, 32, 19, 0,
    0, 61, 60, 48, 47, 34, 20, 0, 0, 0, 62, 49, 35, 21, 22, 0,
    0, 63, 50, 36, 37, 24, 23, 0, 0, 64, 65, 51, 52, 38, 25, 0,
    0, 0, 53, 0, 39, 26, 0, 0, 42, 55, 41, 40, 0, 54, 0, 0,
    0, 0, 0, 0, 0, 0, 27, 0, 0, 95, 0, 92, 89, 0, 0, 0,
    98, 99, 96, 93, 94, 90, 1, 84, 12, 88, 97, 87, 86, 91, 72, 0,
    0, 0, 0, 8 >>
i8042_ExtKeys ==
  (17 :> 70) @@ (20 :> 66) @@ (31 :> 67) @@ (39 :> 67) @@ (74 :> 85)
  @@ (90 :> 100) @@ (105 :> 77) @@ (107 :> 82) @@ (108 :> 76) @@ (112 :> 74)
  @@ (113 :> 75) @@ (114 :> 81) @@ (116 :> 83) @@ (117 :> 80) @@ (122 :> 79)
  @@ (125 :> 78)

\* The enumeration of keyboard.h.
KeyCodes == 0 .. 100

i8042_KeyTable(scan) ==
  IF scan + 1 \in DOMAIN i8042_Keys THEN i8042_Keys[scan + 1] ELSE KEY_UNKNOWN
i8042_ExtKeyTable(scan) ==
  IF scan \in DOMAIN i8042_ExtKeys THEN i8042_ExtKeys[scan] ELSE KEY_UNKNOWN

\* No key of the tables has the bit that marks a release, so no two scan
\* codes, pressed or released, send the same byte unless they are one key; and
\* no scan code is a prefix.
ASSUME I8042Assumption ==
  /\ Range(i8042_Keys) \cup Range(i8042_ExtKeys) \subseteq KeyCodes
  /\ KeyCodes \subseteq 0 .. (KEY_RELEASE - 1)
  /\ Codes \subseteq [ext : BOOLEAN, rel : BOOLEAN, scan : Byte \ {I8042_KEY_EXTENDED, I8042_KEY_RELEASE}]
  /\ Packets \subseteq Byte \X Byte \X Byte
  /\ MaxEvents \in Nat

InitStages == {"init", "config", "self", "channels", "test1", "test2", "reset1",
               "ack1", "verdict1", "reset2", "ack2", "verdict2", "report"}
NoUnits == [src \in Sources |-> <<>>]

-----------------------------------------------------------------------------
(* The hardware (external) *)

NoByte == [src |-> "none", byte |-> 0, unit |-> 0]
Units(src, bytes, n) == [i \in DOMAIN bytes |-> [src |-> src, byte |-> bytes[i], unit |-> n]]

Full == ~ machine.ctl \/ obuf # NoByte
AuxFull == ~ machine.ctl \/ obuf.src = "aux"
Data == IF ~ machine.ctl THEN 255 ELSE IF obuf # NoByte THEN obuf.byte ELSE last

\* port_inb(I8042_DATAPORT)
ReadData == obuf' = NoByte /\ last' = Data

\* A command: the answer that is hoped for or another, in its own time.
Ask(src, good, others, more) ==
  \E a \in others \cup {good} :
    /\ pending' = [pending EXCEPT ![src] = Units(src, a, 0)]
    /\ trouble' = trouble \cup more \cup (IF a = good THEN {} ELSE {"sick"})

Fill(src) ==
  /\ machine.ctl /\ obuf = NoByte /\ pending[src] # <<>>
  /\ src \in enabled \cup {"ctl"}
  /\ obuf' = Head(pending[src])
  /\ pending' = [pending EXCEPT ![src] = Tail(@)]
  /\ UNCHANGED <<at, drv, machine, last, enabled, events, ghost>>

Quiet == at = "poll" /\ obuf = NoByte /\ \A src \in Sources : pending[src] = <<>>

KeyBytes(c) ==
  (IF c.ext THEN <<I8042_KEY_EXTENDED>> ELSE <<>>)
  \o (IF c.rel THEN <<I8042_KEY_RELEASE>> ELSE <<>>) \o <<c.scan>>

\* A device sends a unit, which is numbered among those it has sent; after a
\* quiet moment the books start afresh.
Event(src, unit, bytes) ==
  /\ machine.ctl /\ events < MaxEvents
  /\ events' = events + 1
  /\ sent' = [IF Quiet THEN NoUnits ELSE sent EXCEPT ![src] = Append(@, unit)]
  /\ pending' = [pending EXCEPT ![src] = @ \o Units(src, bytes, Len(sent'[src]))]
  /\ got' = IF Quiet THEN NoUnits ELSE got
  /\ trouble' = IF Quiet THEN trouble \ {"mixed"}
                ELSE IF at \in InitStages THEN trouble \cup {"sick", "mixed"} ELSE trouble
  /\ UNCHANGED <<at, drv, machine, obuf, last, enabled>>

KeyEvent(c) == Event("kbd", c, KeyBytes(c))
MouseEvent(p) == "reports" \in enabled /\ Event("aux", p, p)

-----------------------------------------------------------------------------
(* i8042_init *)

Trouble(what, cond) == trouble' = IF cond THEN trouble \cup {what} ELSE trouble

\* Mutant: what the controller held before is not flushed.
InitStart_NoFlush ==
  /\ at = "init"
  /\ i8042_InitLock' = TRUE
  /\ support' = [support EXCEPT !["kbd"] = TRUE]
  /\ enabled' = {}
  /\ Ask("ctl", <<0>>, {<<>>}, {})
  /\ at' = "config"
  /\ UNCHANGED <<loc, machine, obuf, last, events, sent, got>>

\* The support check, ports off, one read to flush, the configuration asked.
InitStart ==
  /\ at = "init"
  /\ i8042_InitLock' = TRUE
  /\ IF machine.acpi /\ ~ machine.flag
     THEN at' = "files" /\ UNCHANGED <<support, hw, trouble>>
     ELSE /\ at' = "config"
          /\ support' = [support EXCEPT !["kbd"] = TRUE]
          /\ enabled' = {}
          /\ ReadData
          /\ Ask("ctl", <<0>>, {<<>>}, {})
          /\ UNCHANGED <<machine, events>>
  /\ UNCHANGED <<loc, sent, got>>

\* Stages 1 to 5 give up when no byte comes, stages 6 to 8 when the
\* controller's input stays full.
InitTimedOut ==
  /\ \/ at \in {"config", "self", "channels", "test1", "test2"} /\ ~ Full
     \/ at \in {"reset1", "reset2", "report"}
  /\ at' = "files"
  /\ Trouble("sick", TRUE)
  /\ UNCHANGED <<drv, hw, sent, got>>

Answered(stage) == at = stage /\ Full /\ ReadData

\* An answer that the controller did not give.
Foreign == IF machine.ctl /\ obuf.src # "ctl" THEN {"foreign"} ELSE {}

ConfigRead ==
  /\ Answered("config")
  /\ Ask("ctl", <<SELFTEST_SUCCESS>>, {<<DEVRET_TESTFAIL>>, <<>>}, Foreign)
  /\ at' = "self"
  /\ UNCHANGED <<drv, machine, enabled, events, sent, got>>

\* The configuration written back starts the first port's clock again.
SelfTest ==
  /\ Answered("self")
  /\ IF Data = SELFTEST_SUCCESS
     THEN /\ at' = "channels"
          /\ enabled' = {"kbd", "aux"}
          /\ Ask("ctl", <<0>>, {<<CFG_2NDPORTCLOCK>>, <<>>}, Foreign)
     ELSE /\ at' = "files"
          /\ trouble' = trouble \cup Foreign
          /\ UNCHANGED <<enabled, pending>>
  /\ UNCHANGED <<drv, machine, events, sent, got>>

Channels ==
  /\ Answered("channels")
  /\ support' = [support EXCEPT !["aux"] = (Data \div CFG_2NDPORTCLOCK) % 2 = 0]
  /\ Ask("ctl", <<0>>, {<<1>>, <<>>}, {})
  /\ at' = "test1"
  /\ UNCHANGED <<i8042_InitLock, loc, machine, enabled, events, sent, got>>

AfterTests(sup) ==
  IF sup["kbd"] THEN "reset1" ELSE IF sup["aux"] THEN "reset2" ELSE "files"

PortTest(stage, port) ==
  /\ Answered(stage)
  /\ support' = [support EXCEPT ![port] = Data = 0]
  /\ IF stage = "test1" /\ support["aux"]
     THEN at' = "test2" /\ Ask("ctl", <<0>>, {<<1>>, <<>>}, {})
     ELSE at' = AfterTests(support') /\ UNCHANGED <<pending, trouble>>
  /\ UNCHANGED <<i8042_InitLock, loc, machine, enabled, events, sent, got>>

ResetReply(port) ==
  <<DEVRET_ACKNOW, DEVRET_TESTPASS>> \o (IF port = "kbd" THEN <<>> ELSE <<0>>)

Reset(stage, port, next) ==
  /\ at = stage
  /\ Ask(port, ResetReply(port), {<<>>, <<DEVRET_ACKNOW, DEVRET_TESTFAIL>>}, {})
  /\ at' = next
  /\ UNCHANGED <<drv, machine, obuf, last, enabled, events, sent, got>>

\* Mutant: the acknowledgement is not taken out of the port.
Acknowledge_NotRead(stage, port, next, after) ==
  /\ at = stage
  /\ at' = IF Full THEN next ELSE after
  /\ support' = [support EXCEPT ![port] = Full]
  /\ Trouble("sick", ~ Full)
  /\ UNCHANGED <<i8042_InitLock, loc, hw, sent, got>>

\* The byte after the reset, whatever it is, is the acknowledgement.
Acknowledge(stage, port, next, after) ==
  /\ at = stage
  /\ IF Full THEN at' = next /\ ReadData /\ UNCHANGED <<support, trouble>>
     ELSE /\ at' = after
          /\ support' = [support EXCEPT ![port] = FALSE]
          /\ Trouble("sick", TRUE)
          /\ UNCHANGED <<obuf, last>>
  /\ UNCHANGED <<i8042_InitLock, loc, machine, pending, enabled, events, sent, got>>

Verdict(stage, port, after) ==
  /\ at = stage
  /\ IF Full THEN ReadData ELSE UNCHANGED <<obuf, last>>
  /\ support' = [support EXCEPT ![port] = Full /\ Data = DEVRET_TESTPASS]
  /\ Trouble("sick", ~ Full)
  /\ at' = after
  /\ UNCHANGED <<i8042_InitLock, loc, machine, pending, enabled, events, sent, got>>

\* The second device is told to report, also when its reset has failed; its
\* acknowledgement, like the identity after the reset, is left unread.
Report ==
  /\ at = "report"
  /\ at' = "files"
  /\ enabled' = enabled \cup {"reports"}
  /\ pending' = [pending EXCEPT !["aux"] = @ \o Units("aux", <<DEVRET_ACKNOW>>, 0)]
  /\ UNCHANGED <<drv, machine, obuf, last, events, ghost>>

AfterKbd == IF support["aux"] THEN "reset2" ELSE "files"

i8042_init ==
  \/ InitStart \/ InitTimedOut \/ ConfigRead \/ SelfTest \/ Channels
  \/ PortTest("test1", "kbd") \/ PortTest("test2", "aux")
  \/ Reset("reset1", "kbd", "ack1") \/ Reset("reset2", "aux", "ack2")
  \/ Acknowledge("ack1", "kbd", "verdict1", AfterKbd)
  \/ Acknowledge("ack2", "aux", "verdict2", "report")
  \/ Verdict("verdict1", "kbd", AfterKbd) \/ Verdict("verdict2", "aux", "report")
  \/ Report

-----------------------------------------------------------------------------
(* i8042_proc and the kernel's loop *)

NoLocals == [s |-> 0, x |-> 0, ext |-> FALSE, rel |-> FALSE, unit |-> 0]

BitSet(byte, i) == (byte \div 2 ^ i) % 2 = 1
ValidStatus(s) == BitSet(s, 3) /\ ~ BitSet(s, 6) /\ ~ BitSet(s, 7)

\* A byte that belongs to no unit, to another device's, or to another one
\* than that begun.
Mixes ==
  /\ machine.ctl /\ obuf # NoByte
  /\ \/ obuf.unit = 0
     \/ obuf.src # IF at = "scan" THEN "kbd" ELSE "aux"
     \/ loc.unit \notin {0, obuf.unit}

\* The unit being read: the port may be empty.
Unit == IF obuf = NoByte THEN loc.unit ELSE obuf.unit

Poll ==
  /\ at = "poll"
  /\ CASE ~ Full -> at' = "drain" /\ UNCHANGED <<loc, obuf, last, trouble>>
       [] Full /\ AuxFull ->
            /\ at' = "x"
            /\ loc' = [NoLocals EXCEPT !.s = Data, !.unit = obuf.unit]
            /\ ReadData
            /\ Trouble("mixed", Mixes)
       [] OTHER -> at' = "scan" /\ loc' = NoLocals /\ UNCHANGED <<obuf, last, trouble>>
  /\ UNCHANGED <<got, i8042_InitLock, support, machine, pending, enabled, events, sent>>

\* Mutant: the rest of a packet is waited for without a time-out.
PacketTimedOut_Never == FALSE /\ UNCHANGED i8042_vars

\* Waiting for the rest of a packet ends with a byte or with a time-out.
PacketTimedOut ==
  /\ at \in {"x", "y"} /\ ~ Full
  /\ at' = "drain"
  /\ loc' = NoLocals
  /\ Trouble("mixed", TRUE)
  /\ UNCHANGED <<got, i8042_InitLock, support, hw, sent>>

PacketX ==
  /\ Answered("x")
  /\ at' = "y"
  /\ loc' = [loc EXCEPT !.x = Data]
  /\ Trouble("mixed", Mixes)
  /\ UNCHANGED <<got, i8042_InitLock, support, machine, pending, enabled, events, sent>>

PacketY ==
  /\ Answered("y")
  /\ at' = "drain"
  /\ loc' = NoLocals
  /\ Trouble("mixed", Mixes)
  /\ LET p == <<loc.s, loc.x, Data>> IN
     IF ValidStatus(loc.s)
     THEN got' = [got EXCEPT !["aux"] = Append(@, p)]
     ELSE UNCHANGED got
  /\ UNCHANGED <<i8042_InitLock, support, machine, pending, enabled, events, sent>>

\* Mutant: a prefix flips its flag.
Scan_Flips ==
  /\ at = "scan"
  /\ ReadData
  /\ Trouble("mixed", Mixes)
  /\ LET key == IF loc.ext THEN i8042_ExtKeyTable(Data) ELSE i8042_KeyTable(Data)
         code == IF loc.rel THEN key + KEY_RELEASE ELSE key
     IN CASE Data = I8042_KEY_EXTENDED ->
               at' = at /\ loc' = [loc EXCEPT !.ext = ~ @, !.unit = Unit] /\ UNCHANGED got
          [] Data = I8042_KEY_RELEASE ->
               at' = at /\ loc' = [loc EXCEPT !.rel = ~ @, !.unit = Unit] /\ UNCHANGED got
          [] OTHER ->
               /\ at' = "drain" /\ loc' = NoLocals
               /\ IF key = KEY_UNKNOWN THEN UNCHANGED got
                  ELSE got' = [got EXCEPT !["kbd"] = Append(@, code)]
  /\ UNCHANGED <<i8042_InitLock, support, machine, pending, enabled, events, sent>>

\* The rescan loop does not test whether there is a byte to read.
Scan ==
  /\ at = "scan"
  /\ ReadData
  /\ Trouble("mixed", Mixes)
  /\ LET key == IF loc.ext THEN i8042_ExtKeyTable(Data) ELSE i8042_KeyTable(Data)
         code == IF loc.rel THEN key + KEY_RELEASE ELSE key
     IN CASE Data = I8042_KEY_EXTENDED ->
               at' = at /\ loc' = [loc EXCEPT !.ext = TRUE, !.unit = Unit] /\ UNCHANGED got
          [] Data = I8042_KEY_RELEASE ->
               at' = at /\ loc' = [loc EXCEPT !.rel = TRUE, !.unit = Unit] /\ UNCHANGED got
          [] OTHER ->
               /\ at' = "drain" /\ loc' = NoLocals
               /\ IF key = KEY_UNKNOWN THEN UNCHANGED got
                  ELSE got' = [got EXCEPT !["kbd"] = Append(@, code)]
  /\ UNCHANGED <<i8042_InitLock, support, machine, pending, enabled, events, sent>>

i8042_proc == Poll \/ PacketX \/ PacketY \/ PacketTimedOut \/ Scan

\* The loop's other half, and what lies between the initialisation and the
\* loop, belong to IOCall.
FilesMade == at = "files" /\ at' = "poll" /\ UNCHANGED <<drv, hw, ghost>>
Drained == at = "drain" /\ at' = "poll" /\ UNCHANGED <<drv, hw, ghost>>

I8042Init ==
  /\ at = "init"
  /\ i8042_InitLock = FALSE
  /\ support = [port \in {"kbd", "aux"} |-> FALSE]
  /\ loc = NoLocals
  /\ machine \in Machines
  /\ obuf \in {NoByte} \cup {[src |-> "kbd", byte |-> c.scan, unit |-> 0] : c \in Codes}
  /\ last = 0
  /\ pending = NoUnits
  /\ enabled = {"kbd"}
  /\ events = 0
  /\ sent = NoUnits /\ got = NoUnits /\ trouble = {}

\* The kernel's one thread.
Kernel == i8042_init \/ FilesMade \/ i8042_proc \/ Drained

Hardware ==
  \/ \E src \in Sources : Fill(src)
  \/ \E c \in Codes : KeyEvent(c)
  \/ \E p \in Packets : MouseEvent(p)

\* The kernel runs on, and a device that has begun to send a unit sends all
\* of it; nothing is assumed about when.
I8042Fairness ==
  /\ WF_i8042_vars(Kernel)
  /\ \A src \in Sources : WF_i8042_vars(Fill(src))

-----------------------------------------------------------------------------
(* Properties *)

\* What a key, or a packet, is to its driver: nothing if the key is not known
\* or the packet not valid.
Meaning(src, u) ==
  IF src = "kbd"
  THEN LET key == IF u.ext THEN i8042_ExtKeyTable(u.scan) ELSE i8042_KeyTable(u.scan) IN
       IF key = KEY_UNKNOWN THEN <<>> ELSE <<IF u.rel THEN key + KEY_RELEASE ELSE key>>
  ELSE IF ValidStatus(u[1]) THEN <<u>> ELSE <<>>

Expected(src) == FlattenSeq([i \in DOMAIN sent[src] |-> Meaning(src, sent[src][i])])

\* Since the last quiet moment, unless bytes of two units were read as one or
\* a packet was given up, the drivers were given what the devices sent: the
\* same keys and packets in the same order, none twice, and all of them once
\* it is quiet again; however slowly the bytes of a key come, whatever the
\* initialisation left unread, and also where there is no controller.
UnitsExact ==
  "mixed" \notin trouble =>
    \A src \in Sources :
      /\ IsPrefix(got[src], Expected(src))
      /\ Quiet => got[src] = Expected(src)

\* The configuration and the verdict of the self test are the controller's
\* own words: one read is enough to flush what was there before.
AnswersOwn == "foreign" \notin trouble

\* Where every device answers well and in time and nobody types, the
\* initialisation finds both ports and the mouse reports.
BothPortsFound ==
  /\ at \notin InitStages /\ machine.ctl /\ (machine.acpi => machine.flag)
  /\ "sick" \notin trouble
  => support["kbd"] /\ support["aux"] /\ "reports" \in enabled

\* Once the devices fall silent, everything that came through the ports has
\* been read and handed on: i8042_proc comes back although its loop over
\* prefixes has no time-out, and no byte is left behind to meet the next.
Settles ==
  at = "poll" /\ machine.ctl
  ~> at = "poll" /\ obuf = NoByte /\ \A src \in enabled \cap Sources : pending[src] = <<>>
=============================================================================

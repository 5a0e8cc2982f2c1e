----------------------------- MODULE InputProofs -----------------------------
(***************************************************************************)
(* Theorems about the input path, for any keyboard codes, any mouse        *)
(* packets, any number of events and any machine: what i8042_init finds    *)
(* out about the controller, whatever the hardware answers and whenever,   *)
(* that the device files lose nothing between i8042_proc and the loop, and *)
(* that i8042_proc hands on the keys and packets that were sent.           *)
(***************************************************************************)
EXTENDS Input, IOCallProofs

(***************************************************************************)
(* The steps of the controller's driver and of the hardware, which Input   *)
(* joins with the device files.                                            *)
(***************************************************************************)
I8042Next == Kernel \/ Hardware

LEMMA InputSteps == [InputNext]_InputVars => [I8042Next]_i8042_vars
  BY DEF InputNext, InputVars, MakeFiles, Feed, Drain, I8042Next, Kernel

-----------------------------------------------------------------------------
(* What is on its way from the devices to the driver. *)

PortBytes == [src : Sources, byte : Byte, unit : Nat]
OwnBytes == {u \in PortBytes : u.src = "ctl"}

Stages == InitStages \cup {"files", "poll", "x", "y", "scan", "drain"}

PipeTypes ==
  /\ at \in Stages
  /\ pending \in [Sources -> Seq(PortBytes)]
  /\ pending["ctl"] \in Seq(OwnBytes)
  /\ obuf \in PortBytes \cup {NoByte}
  /\ support \in [{"kbd", "aux"} -> BOOLEAN]
  /\ sent \in [Sources -> Seq(Codes \cup Packets)]

\* Until the self test has passed both ports are off: whatever comes is the
\* controller's answer.
OwnInv ==
  /\ PipeTypes
  /\ at \in {"config", "self"} => enabled = {} /\ obuf \in OwnBytes \cup {NoByte}
  /\ "foreign" \notin trouble

\* The answer `bytes' of src is on its way, from its first byte on, and
\* nothing else is.
Flow(src, bytes) ==
  /\ \A s \in Sources \ {src} : pending[s] = <<>>
  /\ \/ obuf = NoByte /\ pending[src] = Units(src, bytes, 0)
     \/ /\ bytes # <<>>
        /\ obuf = [src |-> src, byte |-> Head(bytes), unit |-> 0]
        /\ pending[src] = Units(src, Tail(bytes), 0)

Healthy ==
  machine.ctl /\ (machine.acpi => machine.flag) /\ "sick" \notin trouble

\* What a healthy machine has said by each stage of the initialisation and
\* is about to say.
PortsInv ==
  Healthy =>
    /\ at = "init" => \A s \in Sources : pending[s] = <<>>
    /\ at = "config" => Flow("ctl", <<0>>)
    /\ at = "self" => Flow("ctl", <<SELFTEST_SUCCESS>>)
    /\ at = "channels" => Flow("ctl", <<0>>)
    /\ at = "test1" => Flow("ctl", <<0>>) /\ support["aux"]
    /\ at = "test2" => Flow("ctl", <<0>>) /\ support["kbd"]
    /\ at = "reset1" => Flow("kbd", <<>>) /\ support["kbd"] /\ support["aux"]
    /\ at = "ack1" => Flow("kbd", <<DEVRET_ACKNOW, DEVRET_TESTPASS>>) /\ support["aux"]
    /\ at = "verdict1" => Flow("kbd", <<DEVRET_TESTPASS>>) /\ support["aux"]
    /\ at = "reset2" => Flow("aux", <<>>) /\ support["kbd"]
    /\ at = "ack2" => Flow("aux", <<DEVRET_ACKNOW, DEVRET_TESTPASS, 0>>) /\ support["kbd"]
    /\ at = "verdict2" => Flow("aux", <<DEVRET_TESTPASS, 0>>) /\ support["kbd"]
    /\ at = "report" => support["kbd"] /\ support["aux"]
    /\ at \notin InitStages => support["kbd"] /\ support["aux"] /\ "reports" \in enabled
-----------------------------------------------------------------------------
(* Facts about sequences of bytes. *)

LEMMA UnitsType ==
  ASSUME NEW src \in Sources, NEW bytes \in Seq(Byte), NEW n \in Nat
  PROVE  /\ Units(src, bytes, n) \in Seq(PortBytes)
         /\ src = "ctl" => Units(src, bytes, n) \in Seq(OwnBytes)
  <1> DEFINE u == Units(src, bytes, n)
             m == Len(bytes)
  <1>1. m \in Nat /\ bytes \in [1 .. m -> Byte]
    OBVIOUS
  <1>2. u = [i \in 1 .. m |-> [src |-> src, byte |-> bytes[i], unit |-> n]]
    BY <1>1 DEF Units
  <1>3. \A i \in 1 .. m : [src |-> src, byte |-> bytes[i], unit |-> n] \in PortBytes
    BY <1>1 DEF PortBytes
  <1>4. u \in [1 .. m -> PortBytes]
    BY <1>2, <1>3
  <1>5. src = "ctl" => u \in [1 .. m -> OwnBytes]
    BY <1>2, <1>3 DEF OwnBytes
  <1> HIDE DEF u
  <1>6. u \in Seq(PortBytes)
    BY <1>1, <1>4
  <1>7. src = "ctl" => u \in Seq(OwnBytes)
    BY <1>1, <1>5
  <1> QED BY <1>6, <1>7 DEF u

\* The first unit is that of the first byte, the others are those of the
\* other bytes.
LEMMA UnitsSplit ==
  ASSUME NEW src \in Sources, NEW bytes \in Seq(Byte), bytes # <<>>
  PROVE  /\ Units(src, bytes, 0) # <<>>
         /\ Head(Units(src, bytes, 0)) = [src |-> src, byte |-> Head(bytes), unit |-> 0]
         /\ Tail(Units(src, bytes, 0)) = Units(src, Tail(bytes), 0)
  <1> DEFINE u == Units(src, bytes, 0)
             v == Units(src, Tail(bytes), 0)
             n == Len(bytes)
  <1>1. n \in Nat \ {0} /\ DOMAIN bytes = 1 .. n /\ Head(bytes) = bytes[1]
    OBVIOUS
  <1>2. /\ Tail(bytes) \in Seq(Byte) /\ Len(Tail(bytes)) = n - 1
        /\ DOMAIN Tail(bytes) = 1 .. (n - 1)
        /\ \A i \in 1 .. (n - 1) : Tail(bytes)[i] = bytes[i + 1]
    BY <1>1
  <1>3. u \in Seq(PortBytes) /\ v \in Seq(PortBytes)
    BY <1>2, UnitsType
  <1>4. /\ DOMAIN u = 1 .. n /\ DOMAIN v = 1 .. (n - 1)
        /\ \A i \in 1 .. n : u[i] = [src |-> src, byte |-> bytes[i], unit |-> 0]
        /\ \A i \in 1 .. (n - 1) : v[i] = [src |-> src, byte |-> bytes[i + 1], unit |-> 0]
    BY <1>1, <1>2 DEF Units
  <1> HIDE DEF u, v, n
  <1>5. Len(u) = n /\ Len(v) = n - 1
    BY <1>1, <1>3, <1>4
  <1>6. u # <<>> /\ Head(u) = u[1]
    BY <1>1, <1>3, <1>5
  <1>7. Tail(u) = v
    <2>1. /\ Tail(u) \in Seq(PortBytes) /\ Len(Tail(u)) = n - 1
          /\ \A i \in 1 .. (n - 1) : Tail(u)[i] = u[i + 1]
      BY <1>1, <1>3, <1>5, <1>6
    <2>2. \A i \in 1 .. (n - 1) : Tail(u)[i] = v[i]
      BY <1>1, <1>4, <2>1
    <2> QED BY <1>3, <1>5, <2>1, <2>2
  <1>8. Head(u) = [src |-> src, byte |-> Head(bytes), unit |-> 0]
    BY <1>1, <1>4, <1>6
  <1> QED BY <1>6, <1>7, <1>8 DEF u, v

LEMMA KeyBytesType ==
  ASSUME NEW c \in Codes PROVE KeyBytes(c) \in Seq(Byte)
  <1>1. c.scan \in Byte
    BY I8042Assumption
  <1>2. <<I8042_KEY_EXTENDED>> \in Seq(Byte) /\ <<I8042_KEY_RELEASE>> \in Seq(Byte)
    BY DEF I8042_KEY_EXTENDED, I8042_KEY_RELEASE, Byte
  <1>3. <<>> \in Seq(Byte) /\ <<c.scan>> \in Seq(Byte)
    BY <1>1
  <1>4. \A q, r \in Seq(Byte) : q \o r \in Seq(Byte)
    OBVIOUS
  <1> QED BY <1>2, <1>3, <1>4 DEF KeyBytes

LEMMA PacketType ==
  ASSUME NEW p \in Packets PROVE p \in Seq(Byte)
  <1>1. p \in Byte \X Byte \X Byte
    BY I8042Assumption
  <1>2. PICK a \in Byte, b \in Byte, c \in Byte : p = <<a, b, c>>
    BY <1>1
  <1> QED BY <1>2

\* The answers of the controller and of the devices.
LEMMA AnswerTypes ==
  /\ "ctl" \in Sources /\ "kbd" \in Sources /\ "aux" \in Sources
  /\ <<0>> \in Seq(Byte) /\ <<SELFTEST_SUCCESS>> \in Seq(Byte) /\ <<DEVRET_ACKNOW>> \in Seq(Byte)
  /\ {<<>>} \in SUBSET Seq(Byte)
  /\ {<<DEVRET_TESTFAIL>>, <<>>} \in SUBSET Seq(Byte)
  /\ {<<CFG_2NDPORTCLOCK>>, <<>>} \in SUBSET Seq(Byte)
  /\ {<<1>>, <<>>} \in SUBSET Seq(Byte)
  /\ {<<>>, <<DEVRET_ACKNOW, DEVRET_TESTFAIL>>} \in SUBSET Seq(Byte)
  /\ <<DEVRET_ACKNOW, DEVRET_TESTPASS>> \in Seq(Byte)
  /\ <<DEVRET_ACKNOW, DEVRET_TESTPASS, 0>> \in Seq(Byte)
  <1>1. {0, 1, SELFTEST_SUCCESS, DEVRET_ACKNOW, DEVRET_TESTPASS, DEVRET_TESTFAIL,
         CFG_2NDPORTCLOCK} \subseteq Byte
    BY DEF Byte, SELFTEST_SUCCESS, DEVRET_ACKNOW, DEVRET_TESTPASS, DEVRET_TESTFAIL,
           CFG_2NDPORTCLOCK
  <1>2. /\ \A b \in Byte : <<b>> \in Seq(Byte)
        /\ <<>> \in Seq(Byte)
        /\ \A b, c \in Byte : <<b, c>> \in Seq(Byte)
        /\ \A b, c, d \in Byte : <<b, c, d>> \in Seq(Byte)
    OBVIOUS
  <1> QED BY <1>1, <1>2 DEF Sources

LEMMA ResetReplies ==
  /\ ResetReply("kbd") = <<DEVRET_ACKNOW, DEVRET_TESTPASS>>
  /\ ResetReply("aux") = <<DEVRET_ACKNOW, DEVRET_TESTPASS, 0>>
  <1> DEFINE a == <<DEVRET_ACKNOW, DEVRET_TESTPASS>>
  <1>1. a \in Seq(Byte) /\ <<0>> \in Seq(Byte)
    BY AnswerTypes
  <1>2. Len(a) = 2 /\ a[1] = DEVRET_ACKNOW /\ a[2] = DEVRET_TESTPASS
    OBVIOUS
  <1>3. a \o <<>> = a
    BY <1>1
  <1>4. /\ a \o <<0>> \in Seq(Byte) /\ Len(a \o <<0>>) = 3
        /\ (a \o <<0>>)[1] = DEVRET_ACKNOW
        /\ (a \o <<0>>)[2] = DEVRET_TESTPASS
        /\ (a \o <<0>>)[3] = 0
    <2>1. \A q, r \in Seq(Byte) :
            /\ q \o r \in Seq(Byte) /\ Len(q \o r) = Len(q) + Len(r)
            /\ \A i \in 1 .. Len(q) : (q \o r)[i] = q[i]
            /\ \A i \in 1 .. Len(r) : (q \o r)[Len(q) + i] = r[i]
      OBVIOUS
    <2>2. Len(<<0>>) = 1 /\ <<0>>[1] = 0
      OBVIOUS
    <2> DEFINE z == <<0>>
    <2>3. z \in Seq(Byte) /\ Len(z) = 1 /\ z[1] = 0
      BY <1>1, <2>2
    <2> HIDE DEF a, z
    <2>4. /\ a \o z \in Seq(Byte) /\ Len(a \o z) = 3
          /\ (a \o z)[1] = a[1] /\ (a \o z)[2] = a[2] /\ (a \o z)[3] = z[1]
      <3>1. /\ a \o z \in Seq(Byte) /\ Len(a \o z) = Len(a) + Len(z)
            /\ \A i \in 1 .. Len(a) : (a \o z)[i] = a[i]
            /\ \A i \in 1 .. Len(z) : (a \o z)[Len(a) + i] = z[i]
        BY <1>1, <2>1, <2>3
      <3>2. 1 \in 1 .. Len(a) /\ 2 \in 1 .. Len(a) /\ 1 \in 1 .. Len(z) /\ Len(a) + 1 = 3
        BY <1>2, <2>3
      <3>3. (a \o z)[1] = a[1] /\ (a \o z)[2] = a[2]
        BY <3>1, <3>2
      <3>4. (a \o z)[Len(a) + 1] = z[1]
        BY <3>1, <3>2
      <3> QED BY <1>2, <2>3, <3>1, <3>2, <3>3, <3>4
    <2> QED BY <1>2, <2>3, <2>4 DEF z
  <1>5. a \o <<0>> = <<DEVRET_ACKNOW, DEVRET_TESTPASS, 0>>
    <2> DEFINE d == a \o <<0>>
    <2>1. d \in Seq(Byte) /\ Len(d) = 3
      BY <1>4
    <2> HIDE DEF d
    <2>2. d = <<d[1], d[2], d[3]>>
      BY <2>1
    <2> QED BY <1>4, <2>2 DEF d
  <1> QED BY <1>3, <1>5 DEF ResetReply

-----------------------------------------------------------------------------
(* The answers are the controller's own. *)

LEMMA AskTypes ==
  ASSUME PipeTypes, NEW src \in Sources, NEW good \in Seq(Byte), NEW others \in SUBSET Seq(Byte),
         NEW more, Ask(src, good, others, more)
  PROVE  /\ pending' \in [Sources -> Seq(PortBytes)]
         /\ pending'["ctl"] \in Seq(OwnBytes)
         /\ trouble' \subseteq trouble \cup more \cup {"sick"}
  <1>1. PICK a \in others \cup {good} :
          /\ pending' = [pending EXCEPT ![src] = Units(src, a, 0)]
          /\ trouble' = trouble \cup more \cup (IF a = good THEN {} ELSE {"sick"})
    BY DEF Ask
  <1>2. a \in Seq(Byte)
    OBVIOUS
  <1>3. /\ Units(src, a, 0) \in Seq(PortBytes)
        /\ src = "ctl" => Units(src, a, 0) \in Seq(OwnBytes)
    BY <1>2, UnitsType
  <1> QED BY <1>1, <1>3 DEF PipeTypes, Sources

LEMMA FillTypes ==
  ASSUME PipeTypes, NEW src \in Sources, Fill(src)
  PROVE  /\ PipeTypes'
         /\ src = "ctl" => obuf' \in OwnBytes
  <1>1. /\ pending[src] \in Seq(PortBytes) /\ pending[src] # <<>>
        /\ obuf' = Head(pending[src])
        /\ pending' = [pending EXCEPT ![src] = Tail(@)]
        /\ UNCHANGED <<at, drv, sent>>
    BY DEF PipeTypes, Fill, ghost
  <1>2. Head(pending[src]) \in PortBytes /\ Tail(pending[src]) \in Seq(PortBytes)
    BY <1>1
  <1>3. src = "ctl" => /\ Head(pending[src]) \in OwnBytes
                       /\ Tail(pending[src]) \in Seq(OwnBytes)
    <2> SUFFICES ASSUME src = "ctl" PROVE /\ Head(pending[src]) \in OwnBytes
                                          /\ Tail(pending[src]) \in Seq(OwnBytes)
      OBVIOUS
    <2>1. pending[src] \in Seq(OwnBytes)
      BY DEF PipeTypes
    <2> QED BY <1>1, <2>1
  <1> QED BY <1>1, <1>2, <1>3 DEF PipeTypes, drv, Sources

\* The units sent since the books last started, with one more.
LEMMA EventSends ==
  ASSUME PipeTypes, NEW src \in Sources, NEW unit \in Codes \cup Packets, NEW bytes,
         Event(src, unit, bytes)
  PROVE  LET old == IF Quiet THEN NoUnits ELSE sent
         IN  /\ old \in [Sources -> Seq(Codes \cup Packets)]
             /\ sent' \in [Sources -> Seq(Codes \cup Packets)]
             /\ sent'[src] = Append(old[src], unit)
             /\ \A t \in Sources \ {src} : sent'[t] = old[t]
             /\ Len(sent'[src]) = Len(old[src]) + 1 /\ Len(old[src]) \in Nat
  <1> DEFINE old == IF Quiet THEN NoUnits ELSE sent
             us == Append(old[src], unit)
  <1>1. old \in [Sources -> Seq(Codes \cup Packets)]
    BY DEF PipeTypes, NoUnits
  <1>2. sent' = [old EXCEPT ![src] = us]
    BY DEF Event
  <1> HIDE DEF old
  <1>3. old[src] \in Seq(Codes \cup Packets)
    BY <1>1
  <1>4. us \in Seq(Codes \cup Packets) /\ Len(us) = Len(old[src]) + 1 /\ Len(old[src]) \in Nat
    BY <1>3
  <1> HIDE DEF us
  <1>5. /\ sent' \in [Sources -> Seq(Codes \cup Packets)] /\ sent'[src] = us
        /\ \A t \in Sources \ {src} : sent'[t] = old[t]
    BY <1>1, <1>2, <1>4
  <1> QED BY <1>1, <1>4, <1>5 DEF us, old

LEMMA EventTypes ==
  ASSUME PipeTypes, NEW src \in {"kbd", "aux"}, NEW unit \in Codes \cup Packets,
         NEW bytes \in Seq(Byte), Event(src, unit, bytes)
  PROVE  PipeTypes'
  <1> DEFINE n == Len(sent'[src])
  <1>1. /\ pending' = [pending EXCEPT ![src] = @ \o Units(src, bytes, n)]
        /\ UNCHANGED <<at, drv, obuf>>
    BY DEF Event
  <1>2. src \in Sources /\ pending[src] \in Seq(PortBytes)
    BY DEF Sources, PipeTypes
  <1>3. n \in Nat /\ sent' \in [Sources -> Seq(Codes \cup Packets)]
    BY <1>2, EventSends
  <1> HIDE DEF n
  <1>4. Units(src, bytes, n) \in Seq(PortBytes)
    BY <1>2, <1>3, UnitsType
  <1>5. pending[src] \o Units(src, bytes, n) \in Seq(PortBytes)
    BY <1>2, <1>4
  <1> QED BY <1>1, <1>2, <1>3, <1>5 DEF PipeTypes, drv, Sources

\* Where the ports are off, an answer is the controller's.
LEMMA NotForeign ==
  ASSUME OwnInv, at \in {"config", "self"}, Full
  PROVE  Foreign = {}
  BY DEF OwnInv, Full, Foreign, OwnBytes

LEMMA OwnStep == OwnInv /\ [I8042Next]_i8042_vars => OwnInv'
  <1> SUFFICES ASSUME OwnInv, [I8042Next]_i8042_vars PROVE OwnInv'
    OBVIOUS
  <1>0. PipeTypes /\ "foreign" \notin trouble
    BY DEF OwnInv
  <1>1. CASE InitStart
    <2>1. CASE at' = "files"
      BY <1>0, <1>1, <2>1 DEF InitStart, OwnInv, PipeTypes, hw, Stages
    <2>2. CASE at' = "config"
      <3>1. /\ Ask("ctl", <<0>>, {<<>>}, {}) /\ ReadData /\ enabled' = {}
            /\ support' = [support EXCEPT !["kbd"] = TRUE] /\ sent' = sent
        BY <1>1, <2>2 DEF InitStart
      <3>2. /\ pending' \in [Sources -> Seq(PortBytes)]
            /\ pending'["ctl"] \in Seq(OwnBytes)
            /\ trouble' \subseteq trouble \cup {} \cup {"sick"}
        BY <1>0, <3>1, AskTypes, AnswerTypes
      <3> QED BY <1>0, <2>2, <3>1, <3>2 DEF OwnInv, PipeTypes, ReadData, Stages, InitStages
    <2> QED BY <1>1, <2>1, <2>2 DEF InitStart
  <1>2. CASE InitTimedOut
    BY <1>0, <1>2 DEF InitTimedOut, OwnInv, PipeTypes, drv, hw, Trouble, Stages
  <1>3. CASE ConfigRead
    <2>1. Foreign = {}
      BY <1>3, NotForeign DEF ConfigRead, Answered
    <2>2. /\ pending' \in [Sources -> Seq(PortBytes)]
          /\ pending'["ctl"] \in Seq(OwnBytes)
          /\ trouble' \subseteq trouble \cup Foreign \cup {"sick"}
      BY <1>0, <1>3, AskTypes, AnswerTypes DEF ConfigRead
    <2>3. enabled = {}
      BY <1>3 DEF ConfigRead, Answered, OwnInv
    <2> QED BY <1>0, <1>3, <2>1, <2>2, <2>3
         DEF ConfigRead, Answered, ReadData, OwnInv, PipeTypes, drv, Stages, InitStages
  <1>4. CASE SelfTest
    <2>1. Foreign = {}
      BY <1>4, NotForeign DEF SelfTest, Answered
    <2>2. CASE Data = SELFTEST_SUCCESS
      <3>1. /\ pending' \in [Sources -> Seq(PortBytes)]
            /\ pending'["ctl"] \in Seq(OwnBytes)
            /\ trouble' \subseteq trouble \cup Foreign \cup {"sick"}
        BY <1>0, <1>4, <2>2, AskTypes, AnswerTypes DEF SelfTest
      <3> QED BY <1>0, <1>4, <2>1, <2>2, <3>1
           DEF SelfTest, Answered, ReadData, OwnInv, PipeTypes, drv, Stages, InitStages
    <2>3. CASE Data # SELFTEST_SUCCESS
      BY <1>0, <1>4, <2>1, <2>3
         DEF SelfTest, Answered, ReadData, OwnInv, PipeTypes, drv, Stages
    <2> QED BY <2>2, <2>3
  <1>5. CASE Channels
    <2>1. /\ pending' \in [Sources -> Seq(PortBytes)]
          /\ pending'["ctl"] \in Seq(OwnBytes)
          /\ trouble' \subseteq trouble \cup {} \cup {"sick"}
      BY <1>0, <1>5, AskTypes, AnswerTypes DEF Channels
    <2> QED BY <1>0, <1>5, <2>1
         DEF Channels, Answered, ReadData, OwnInv, PipeTypes, Stages, InitStages
  <1>6. ASSUME NEW stage \in {"test1", "test2"}, NEW port \in {"kbd", "aux"}, PortTest(stage, port)
        PROVE  OwnInv'
    <2>1. /\ pending' \in [Sources -> Seq(PortBytes)]
          /\ pending'["ctl"] \in Seq(OwnBytes)
          /\ trouble' \subseteq trouble \cup {} \cup {"sick"}
      <3>1. CASE stage = "test1" /\ support["aux"]
        BY <1>0, <1>6, <3>1, AskTypes, AnswerTypes DEF PortTest
      <3>2. CASE ~ (stage = "test1" /\ support["aux"])
        BY <1>0, <1>6, <3>2 DEF PortTest, PipeTypes
      <3> QED BY <3>1, <3>2
    <2>2. at' \in {"test2", "reset1", "reset2", "files"}
      BY <1>6 DEF PortTest, AfterTests
    <2> QED BY <1>0, <1>6, <2>1, <2>2
         DEF PortTest, Answered, ReadData, OwnInv, PipeTypes, Stages, InitStages
  <1>7. ASSUME NEW stage, NEW port \in {"kbd", "aux"}, NEW next \in {"ack1", "ack2"},
               Reset(stage, port, next)
        PROVE  OwnInv'
    <2>1. ResetReply(port) \in Seq(Byte)
      BY AnswerTypes, ResetReplies
    <2>2. /\ pending' \in [Sources -> Seq(PortBytes)]
          /\ pending'["ctl"] \in Seq(OwnBytes)
          /\ trouble' \subseteq trouble \cup {} \cup {"sick"}
      BY <1>0, <1>7, <2>1, AskTypes, AnswerTypes DEF Reset
    <2> QED BY <1>0, <1>7, <2>2 DEF Reset, OwnInv, PipeTypes, drv, Stages, InitStages
  <1>8. ASSUME NEW stage, NEW port \in {"kbd", "aux"}, NEW next \in {"verdict1", "verdict2"},
               NEW after \in {"reset2", "files", "report"},
               Acknowledge(stage, port, next, after) \/ Verdict(stage, port, after)
        PROVE  OwnInv'
    <2>1. CASE Acknowledge(stage, port, next, after)
      <3>1. /\ at' \in {next, after} /\ obuf' \in {obuf, NoByte}
            /\ support' \in {support, [support EXCEPT ![port] = FALSE]}
            /\ trouble' \in {trouble, trouble \cup {"sick"}}
            /\ UNCHANGED <<pending, sent>>
        BY <2>1 DEF Acknowledge, ReadData, Trouble
      <3> QED BY <1>0, <3>1 DEF OwnInv, PipeTypes, Stages, InitStages
    <2>2. CASE Verdict(stage, port, after)
      BY <1>0, <2>2
         DEF Verdict, ReadData, Trouble, OwnInv, PipeTypes, Stages, InitStages
    <2> QED BY <1>8, <2>1, <2>2
  <1>9. CASE Report
    <2>1. /\ pending' = [pending EXCEPT !["aux"] = @ \o Units("aux", <<DEVRET_ACKNOW>>, 0)]
          /\ pending["aux"] \in Seq(PortBytes)
      BY <1>0, <1>9 DEF Report, PipeTypes, Sources
    <2>2. Units("aux", <<DEVRET_ACKNOW>>, 0) \in Seq(PortBytes)
      BY UnitsType, AnswerTypes
    <2>3. pending["aux"] \o Units("aux", <<DEVRET_ACKNOW>>, 0) \in Seq(PortBytes)
      BY <2>1, <2>2
    <2>4. pending' \in [Sources -> Seq(PortBytes)] /\ pending'["ctl"] \in Seq(OwnBytes)
      BY <1>0, <2>1, <2>3 DEF PipeTypes, Sources
    <2> QED BY <1>0, <1>9, <2>4 DEF Report, OwnInv, PipeTypes, drv, ghost, Stages
  <1>10. CASE FilesMade \/ Drained
    BY <1>0, <1>10 DEF FilesMade, Drained, OwnInv, PipeTypes, drv, hw, ghost, Stages
  <1>11. CASE i8042_proc
    <2>1. /\ at' \in {"poll", "drain", "x", "y", "scan"}
          /\ obuf' \in {obuf, NoByte}
          /\ trouble' \in {trouble, trouble \cup {"mixed"}}
          /\ UNCHANGED <<support, pending, sent>>
      <3>1. CASE Poll
        BY <3>1 DEF Poll, ReadData, Trouble
      <3>2. CASE PacketX \/ PacketY \/ PacketTimedOut
        BY <3>2 DEF PacketX, PacketY, PacketTimedOut, Answered, ReadData, Trouble, hw
      <3>3. CASE Scan
        BY <3>3 DEF Scan, ReadData, Trouble
      <3> QED BY <1>11, <3>1, <3>2, <3>3 DEF i8042_proc
    <2> QED BY <1>0, <2>1 DEF OwnInv, PipeTypes, Stages
  <1>12. ASSUME NEW src \in Sources, Fill(src) PROVE OwnInv'
    <2>1. PipeTypes' /\ (src = "ctl" => obuf' \in OwnBytes)
      BY <1>0, <1>12, FillTypes
    <2>2. /\ at' = at /\ enabled' = enabled /\ trouble' = trouble
          /\ src \in enabled \cup {"ctl"}
      BY <1>12 DEF Fill, ghost
    <2> QED BY <2>1, <2>2 DEF OwnInv
  <1>13. ASSUME NEW src \in {"kbd", "aux"}, NEW unit \in Codes \cup Packets,
                NEW bytes \in Seq(Byte), Event(src, unit, bytes)
         PROVE  OwnInv'
    <2>1. PipeTypes'
      BY <1>0, <1>13, EventTypes
    <2>2. /\ at' = at /\ enabled' = enabled /\ obuf' = obuf
          /\ trouble' \subseteq trouble \cup {"sick", "mixed"}
      BY <1>13 DEF Event
    <2> QED BY <2>1, <2>2 DEF OwnInv
  <1>14. CASE UNCHANGED i8042_vars
    BY <1>14 DEF i8042_vars, drv, hw, ghost, OwnInv, PipeTypes
  <1>15. CASE i8042_init
    <2>1. AfterKbd \in {"reset2", "files"}
      BY DEF AfterKbd
    <2> QED BY <1>15, <1>1, <1>2, <1>3, <1>4, <1>5, <1>6, <1>7, <1>8, <1>9, <2>1 DEF i8042_init
  <1>16. CASE Hardware
    BY <1>12, <1>13, <1>16, KeyBytesType, PacketType DEF Hardware, KeyEvent, MouseEvent
  <1> QED BY <1>10, <1>11, <1>14, <1>15, <1>16 DEF I8042Next, Kernel

LEMMA OwnStart == I8042Init => OwnInv
  <1> SUFFICES ASSUME I8042Init PROVE OwnInv
    OBVIOUS
  <1>1. obuf \in PortBytes \cup {NoByte}
    <2>1. \A c \in Codes : c.scan \in Byte
      BY I8042Assumption
    <2> QED BY <2>1 DEF I8042Init, PortBytes, Sources
  <1>2. pending \in [Sources -> Seq(PortBytes)] /\ pending["ctl"] \in Seq(OwnBytes)
    BY DEF I8042Init, NoUnits, Sources
  <1>3. sent \in [Sources -> Seq(Codes \cup Packets)]
    BY DEF I8042Init, NoUnits
  <1> QED BY <1>1, <1>2, <1>3 DEF I8042Init, OwnInv, PipeTypes, Stages, InitStages

\* The configuration byte and the verdict of the self test that i8042_init
\* reads are the controller's own, whatever was typed before and during the
\* initialisation: one read flushes the port, and both ports stay off until
\* the verdict is in (i8042.c:226-245).
THEOREM AnswersAlwaysOwn == InputSpec => []AnswersOwn
  <1>1. InputInit => OwnInv
    BY OwnStart DEF InputInit
  <1>2. OwnInv => AnswersOwn
    BY DEF OwnInv, AnswersOwn
  <1> QED BY <1>1, <1>2, InputSteps, OwnStep, PTL DEF InputSpec
-----------------------------------------------------------------------------
(* Both ports are found. *)

LEMMA NoUnitsLeft ==
  ASSUME NEW src PROVE Units(src, <<>>, 0) = <<>>
  BY DEF Units

\* A byte moves from the device into the port.
LEMMA FlowFill ==
  ASSUME PipeTypes, NEW src \in Sources, NEW bytes \in Seq(Byte), Flow(src, bytes),
         NEW s \in Sources, Fill(s)
  PROVE  Flow(src, bytes)'
  <1>1. /\ obuf = NoByte /\ pending[s] # <<>> /\ obuf' = Head(pending[s])
        /\ pending' = [pending EXCEPT ![s] = Tail(@)]
        /\ pending \in [Sources -> Seq(PortBytes)]
    BY DEF Fill, PipeTypes
  <1>2. s = src
    BY <1>1 DEF Flow
  <1>3. pending[src] = Units(src, bytes, 0)
    BY <1>1 DEF Flow, NoByte, Sources
  <1>4. bytes # <<>>
    BY <1>1, <1>2, <1>3, NoUnitsLeft
  <1>5. /\ obuf' = [src |-> src, byte |-> Head(bytes), unit |-> 0]
        /\ pending'[src] = Units(src, Tail(bytes), 0)
    BY <1>1, <1>2, <1>3, <1>4, UnitsSplit
  <1>6. \A t \in Sources \ {src} : pending'[t] = <<>>
    BY <1>1, <1>2 DEF Flow
  <1> QED BY <1>4, <1>5, <1>6 DEF Flow

\* What the driver finds in the port.
LEMMA FlowRead ==
  ASSUME machine.ctl, NEW src \in Sources, NEW bytes \in Seq(Byte), Flow(src, bytes), Full
  PROVE  /\ Data = Head(bytes)
         /\ pending[src] = Units(src, Tail(bytes), 0)
         /\ \A s \in Sources \ {src} : pending[s] = <<>>
  <1>1. obuf # NoByte
    BY DEF Full
  <1>2. /\ obuf = [src |-> src, byte |-> Head(bytes), unit |-> 0]
        /\ pending[src] = Units(src, Tail(bytes), 0)
        /\ \A s \in Sources \ {src} : pending[s] = <<>>
    BY <1>1 DEF Flow
  <1> QED BY <1>1, <1>2 DEF Data

\* The same, where the answer is one byte.
LEMMA FlowReadLast ==
  ASSUME machine.ctl, NEW src \in Sources, NEW b \in Byte, Flow(src, <<b>>), Full
  PROVE  Data = b /\ \A s \in Sources : pending[s] = <<>>
  <1>1. <<b>> \in Seq(Byte) /\ Head(<<b>>) = b /\ Tail(<<b>>) = <<>>
    OBVIOUS
  <1> QED BY <1>1, FlowRead, NoUnitsLeft

\* A command to a healthy machine.
LEMMA FlowAsk ==
  ASSUME PipeTypes, NEW src \in Sources, NEW good, NEW others, NEW more,
         Ask(src, good, others, more), "sick" \notin trouble',
         obuf' = NoByte, \A s \in Sources : pending[s] = <<>>
  PROVE  Flow(src, good)'
  <1>1. pending' = [pending EXCEPT ![src] = Units(src, good, 0)]
    BY DEF Ask
  <1> QED BY <1>1 DEF Flow, PipeTypes

\* A machine that is not healthy stays so.
LEMMA HealthyBefore ==
  ASSUME [I8042Next]_i8042_vars, Healthy' PROVE Healthy
  <1>1. machine' = machine /\ ("sick" \in trouble => "sick" \in trouble')
    <2>1. CASE i8042_init
      BY <2>1 DEF i8042_init, InitStart, InitTimedOut, ConfigRead, SelfTest, Channels, PortTest,
                  Reset, Acknowledge, Verdict, Report, Ask, Trouble, hw, ghost
    <2>2. CASE FilesMade \/ Drained \/ UNCHANGED i8042_vars
      BY <2>2 DEF FilesMade, Drained, hw, ghost, i8042_vars
    <2>3. CASE i8042_proc
      <3>1. CASE Poll
        BY <3>1 DEF Poll, Trouble
      <3>2. CASE PacketX \/ PacketY \/ PacketTimedOut
        BY <3>2 DEF PacketX, PacketY, PacketTimedOut, Trouble, hw
      <3>3. CASE Scan
        BY <3>3 DEF Scan, Trouble
      <3> QED BY <2>3, <3>1, <3>2, <3>3 DEF i8042_proc
    <2>4. CASE Hardware
      BY <2>4 DEF Hardware, Fill, KeyEvent, MouseEvent, Event, ghost
    <2> QED BY <2>1, <2>2, <2>3, <2>4 DEF I8042Next, Kernel
  <1> QED BY <1>1 DEF Healthy
LEMMA PortsStep == OwnInv /\ PortsInv /\ [I8042Next]_i8042_vars => PortsInv'
  <1> SUFFICES ASSUME OwnInv, PortsInv, [I8042Next]_i8042_vars, Healthy' PROVE PortsInv'
    BY DEF PortsInv
  <1>0. /\ PipeTypes /\ Healthy /\ machine.ctl /\ (machine.acpi => machine.flag)
        /\ "sick" \notin trouble /\ "sick" \notin trouble'
    BY HealthyBefore DEF OwnInv, Healthy
  <1>t. 0 \in Byte /\ SELFTEST_SUCCESS \in Byte /\ DEVRET_TESTPASS \in Byte
    BY DEF Byte, SELFTEST_SUCCESS, DEVRET_TESTPASS
  <1>1. CASE InitStart
    <2>1. /\ at = "init" /\ at' = "config" /\ obuf' = NoByte
          /\ Ask("ctl", <<0>>, {<<>>}, {})
      BY <1>0, <1>1 DEF InitStart, ReadData
    <2>2. Flow("ctl", <<0>>)'
      BY <1>0, <2>1, FlowAsk, AnswerTypes DEF PortsInv
    <2> QED BY <2>1, <2>2 DEF PortsInv, InitStages
  <1>2. CASE InitTimedOut
    BY <1>0, <1>2 DEF InitTimedOut, Trouble
  <1>3. CASE ConfigRead
    <2>1. /\ at' = "self" /\ obuf' = NoByte /\ Full /\ Flow("ctl", <<0>>)
          /\ Ask("ctl", <<SELFTEST_SUCCESS>>, {<<DEVRET_TESTFAIL>>, <<>>}, Foreign)
      BY <1>0, <1>3 DEF ConfigRead, Answered, ReadData, PortsInv
    <2>2. \A s \in Sources : pending[s] = <<>>
      BY <1>0, <1>t, <2>1, FlowReadLast, AnswerTypes
    <2>3. Flow("ctl", <<SELFTEST_SUCCESS>>)'
      <3>1. Foreign = {}
        BY <1>3, NotForeign DEF ConfigRead, Answered
      <3> QED BY <1>0, <2>1, <2>2, <3>1, FlowAsk, AnswerTypes
    <2> QED BY <2>1, <2>3 DEF PortsInv, InitStages
  <1>4. CASE SelfTest
    <2>1. /\ Full /\ Flow("ctl", <<SELFTEST_SUCCESS>>)
      BY <1>0, <1>4 DEF SelfTest, Answered, PortsInv
    <2>2. Data = SELFTEST_SUCCESS /\ \A s \in Sources : pending[s] = <<>>
      BY <1>0, <1>t, <2>1, FlowReadLast, AnswerTypes
    <2>3. /\ at' = "channels" /\ obuf' = NoByte
          /\ Ask("ctl", <<0>>, {<<CFG_2NDPORTCLOCK>>, <<>>}, Foreign)
      BY <1>4, <2>2 DEF SelfTest, Answered, ReadData
    <2>4. Flow("ctl", <<0>>)'
      <3>1. Foreign = {}
        BY <1>4, NotForeign DEF SelfTest, Answered
      <3> QED BY <1>0, <2>2, <2>3, <3>1, FlowAsk, AnswerTypes
    <2> QED BY <2>3, <2>4 DEF PortsInv, InitStages
  <1>5. CASE Channels
    <2>1. /\ Full /\ Flow("ctl", <<0>>)
          /\ at' = "test1" /\ obuf' = NoByte
          /\ Ask("ctl", <<0>>, {<<1>>, <<>>}, {})
      BY <1>0, <1>5 DEF Channels, Answered, ReadData, PortsInv
    <2>2. Data = 0 /\ \A s \in Sources : pending[s] = <<>>
      BY <1>0, <1>t, <2>1, FlowReadLast, AnswerTypes
    <2>3. support'["aux"]
      <3>1. (0 \div CFG_2NDPORTCLOCK) % 2 = 0
        BY DEF CFG_2NDPORTCLOCK
      <3> QED BY <1>0, <1>5, <2>2, <3>1 DEF Channels, PipeTypes
    <2>4. Flow("ctl", <<0>>)'
      BY <1>0, <2>1, <2>2, FlowAsk, AnswerTypes
    <2> QED BY <2>1, <2>3, <2>4 DEF PortsInv, InitStages
  <1>6. CASE PortTest("test1", "kbd")
    <2>1. /\ Full /\ Flow("ctl", <<0>>) /\ support["aux"]
          /\ at' = "test2" /\ obuf' = NoByte
          /\ Ask("ctl", <<0>>, {<<1>>, <<>>}, {})
      BY <1>0, <1>6 DEF PortTest, Answered, ReadData, PortsInv
    <2>2. Data = 0 /\ \A s \in Sources : pending[s] = <<>>
      BY <1>0, <1>t, <2>1, FlowReadLast, AnswerTypes
    <2>3. support'["kbd"]
      BY <1>0, <1>6, <2>2 DEF PortTest, PipeTypes
    <2>4. Flow("ctl", <<0>>)'
      BY <1>0, <2>1, <2>2, FlowAsk, AnswerTypes
    <2> QED BY <2>1, <2>3, <2>4 DEF PortsInv, InitStages
  <1>7. CASE PortTest("test2", "aux")
    <2>1. /\ Full /\ Flow("ctl", <<0>>) /\ support["kbd"]
          /\ obuf' = NoByte /\ pending' = pending /\ at' = AfterTests(support')
      BY <1>0, <1>7 DEF PortTest, Answered, ReadData, PortsInv
    <2>2. Data = 0 /\ \A s \in Sources : pending[s] = <<>>
      BY <1>0, <1>t, <2>1, FlowReadLast, AnswerTypes
    <2>3. support'["aux"] /\ support'["kbd"]
      BY <1>0, <1>7, <2>1, <2>2 DEF PortTest, PipeTypes
    <2>4. at' = "reset1"
      BY <2>1, <2>3 DEF AfterTests
    <2>5. Flow("kbd", <<>>)'
      BY <2>1, <2>2, NoUnitsLeft, AnswerTypes DEF Flow
    <2> QED BY <2>3, <2>4, <2>5 DEF PortsInv, InitStages
  <1>8. CASE Reset("reset1", "kbd", "ack1")
    <2>1. /\ at = "reset1" /\ at' = "ack1" /\ UNCHANGED <<support, obuf>>
          /\ Ask("kbd", ResetReply("kbd"), {<<>>, <<DEVRET_ACKNOW, DEVRET_TESTFAIL>>}, {})
      BY <1>8 DEF Reset, drv
    <2>2. Flow("kbd", <<>>) /\ support["aux"]
      BY <1>0, <2>1 DEF PortsInv
    <2>3. obuf = NoByte /\ \A s \in Sources : pending[s] = <<>>
      BY <2>2, NoUnitsLeft, AnswerTypes DEF Flow
    <2>4. Flow("kbd", <<DEVRET_ACKNOW, DEVRET_TESTPASS>>)'
      BY <1>0, <2>1, <2>3, FlowAsk, AnswerTypes, ResetReplies
    <2> QED BY <2>1, <2>2, <2>4 DEF PortsInv, InitStages
  <1>9. CASE Reset("reset2", "aux", "ack2")
    <2>1. /\ at = "reset2" /\ at' = "ack2" /\ UNCHANGED <<support, obuf>>
          /\ Ask("aux", ResetReply("aux"), {<<>>, <<DEVRET_ACKNOW, DEVRET_TESTFAIL>>}, {})
      BY <1>9 DEF Reset, drv
    <2>2. Flow("aux", <<>>) /\ support["kbd"]
      BY <1>0, <2>1 DEF PortsInv
    <2>3. obuf = NoByte /\ \A s \in Sources : pending[s] = <<>>
      BY <2>2, NoUnitsLeft, AnswerTypes DEF Flow
    <2>4. Flow("aux", <<DEVRET_ACKNOW, DEVRET_TESTPASS, 0>>)'
      BY <1>0, <2>1, <2>3, FlowAsk, AnswerTypes, ResetReplies
    <2> QED BY <2>1, <2>2, <2>4 DEF PortsInv, InitStages
  <1>10. CASE Acknowledge("ack1", "kbd", "verdict1", AfterKbd)
    <2>1. Full /\ at = "ack1" /\ at' = "verdict1" /\ obuf' = NoByte /\ UNCHANGED <<support, pending>>
      BY <1>0, <1>10 DEF Acknowledge, ReadData, Trouble
    <2>2. Flow("kbd", <<DEVRET_ACKNOW, DEVRET_TESTPASS>>) /\ support["aux"]
      BY <1>0, <2>1 DEF PortsInv
    <2>3. Tail(<<DEVRET_ACKNOW, DEVRET_TESTPASS>>) = <<DEVRET_TESTPASS>>
      OBVIOUS
    <2>4. Flow("kbd", <<DEVRET_TESTPASS>>)'
      BY <1>0, <2>1, <2>2, <2>3, FlowRead, AnswerTypes DEF Flow
    <2> QED BY <2>1, <2>2, <2>4 DEF PortsInv, InitStages
  <1>11. CASE Acknowledge("ack2", "aux", "verdict2", "report")
    <2>1. Full /\ at = "ack2" /\ at' = "verdict2" /\ obuf' = NoByte /\ UNCHANGED <<support, pending>>
      BY <1>0, <1>11 DEF Acknowledge, ReadData, Trouble
    <2>2. Flow("aux", <<DEVRET_ACKNOW, DEVRET_TESTPASS, 0>>) /\ support["kbd"]
      BY <1>0, <2>1 DEF PortsInv
    <2>3. Tail(<<DEVRET_ACKNOW, DEVRET_TESTPASS, 0>>) = <<DEVRET_TESTPASS, 0>>
      OBVIOUS
    <2>4. Flow("aux", <<DEVRET_TESTPASS, 0>>)'
      BY <1>0, <2>1, <2>2, <2>3, FlowRead, AnswerTypes DEF Flow
    <2> QED BY <2>1, <2>2, <2>4 DEF PortsInv, InitStages
  <1>12. CASE Verdict("verdict1", "kbd", AfterKbd)
    <2>1. /\ Full /\ at = "verdict1" /\ at' = AfterKbd /\ obuf' = NoByte /\ pending' = pending
          /\ support' = [support EXCEPT !["kbd"] = Full /\ Data = DEVRET_TESTPASS]
      BY <1>0, <1>12 DEF Verdict, ReadData, Trouble
    <2>2. Flow("kbd", <<DEVRET_TESTPASS>>) /\ support["aux"]
      BY <1>0, <2>1 DEF PortsInv
    <2>3. Data = DEVRET_TESTPASS /\ \A s \in Sources : pending[s] = <<>>
      BY <1>0, <1>t, <2>1, <2>2, FlowReadLast, AnswerTypes
    <2>4. at' = "reset2" /\ support'["kbd"]
      BY <1>0, <2>1, <2>2, <2>3 DEF AfterKbd, PipeTypes
    <2>5. Flow("aux", <<>>)'
      BY <2>1, <2>3, NoUnitsLeft, AnswerTypes DEF Flow
    <2> QED BY <2>4, <2>5 DEF PortsInv, InitStages
  <1>13. CASE Verdict("verdict2", "aux", "report")
    <2>1. /\ Full /\ at = "verdict2" /\ at' = "report"
          /\ support' = [support EXCEPT !["aux"] = Full /\ Data = DEVRET_TESTPASS]
      BY <1>0, <1>13 DEF Verdict, Trouble
    <2>2. Flow("aux", <<DEVRET_TESTPASS, 0>>) /\ support["kbd"]
      BY <1>0, <2>1 DEF PortsInv
    <2>3. <<DEVRET_TESTPASS, 0>> \in Seq(Byte) /\ Head(<<DEVRET_TESTPASS, 0>>) = DEVRET_TESTPASS
      BY <1>t
    <2>4. Data = DEVRET_TESTPASS
      BY <1>0, <2>1, <2>2, <2>3, FlowRead, AnswerTypes
    <2>5. support'["kbd"] /\ support'["aux"]
      BY <1>0, <2>1, <2>2, <2>4 DEF PipeTypes
    <2> QED BY <2>1, <2>5 DEF PortsInv, InitStages
  <1>14. CASE Report
    BY <1>0, <1>14 DEF Report, drv, PortsInv, InitStages
  <1>15. CASE FilesMade \/ Drained
    BY <1>0, <1>15 DEF FilesMade, Drained, drv, hw, PortsInv, InitStages
  <1>16. CASE i8042_proc
    <2>1. /\ at \in {"poll", "x", "y", "scan"}
          /\ at' \in {"poll", "drain", "x", "y", "scan"}
          /\ UNCHANGED <<support, enabled>>
      <3>1. CASE Poll
        BY <3>1 DEF Poll
      <3>2. CASE PacketX \/ PacketY \/ PacketTimedOut
        BY <3>2 DEF PacketX, PacketY, PacketTimedOut, Answered, hw
      <3>3. CASE Scan
        BY <3>3 DEF Scan
      <3> QED BY <1>16, <3>1, <3>2, <3>3 DEF i8042_proc
    <2> QED BY <1>0, <2>1 DEF PortsInv, InitStages
  <1>17. ASSUME NEW s \in Sources, Fill(s) PROVE PortsInv'
    <2>1. UNCHANGED <<at, support, enabled>>
      BY <1>17 DEF Fill, drv
    <2>2. \A src \in Sources, bytes \in Seq(Byte) : Flow(src, bytes) => Flow(src, bytes)'
      BY <1>0, <1>17, FlowFill
    <2>3. at # "init"
      BY <1>0, <1>17 DEF Fill, PortsInv
    <2>4. <<>> \in Seq(Byte) /\ <<DEVRET_TESTPASS>> \in Seq(Byte)
          /\ <<DEVRET_TESTPASS, 0>> \in Seq(Byte)
      BY <1>t
    <2> QED BY <1>0, <2>1, <2>2, <2>3, <2>4, AnswerTypes DEF PortsInv
  <1>18. ASSUME NEW src, NEW unit, NEW bytes, Event(src, unit, bytes) PROVE PortsInv'
    <2>1. at' = at /\ at \notin InitStages /\ UNCHANGED <<support, enabled>>
      BY <1>0, <1>18 DEF Event, Quiet, drv, InitStages
    <2> QED BY <1>0, <2>1 DEF PortsInv, InitStages
  <1>19. CASE UNCHANGED i8042_vars
    BY <1>0, <1>19 DEF i8042_vars, drv, hw, ghost, PortsInv, Flow
  <1>20. CASE i8042_init
    BY <1>20, <1>1, <1>2, <1>3, <1>4, <1>5, <1>6, <1>7, <1>8, <1>9, <1>10, <1>11, <1>12, <1>13,
       <1>14 DEF i8042_init
  <1>21. CASE Hardware
    BY <1>17, <1>18, <1>21 DEF Hardware, KeyEvent, MouseEvent
  <1> QED BY <1>15, <1>16, <1>19, <1>20, <1>21 DEF I8042Next, Kernel

\* On a machine whose controller and devices answer well and in time, and
\* where nobody types meanwhile, i8042_init ends with both ports in use and
\* the mouse told to report: no answer is taken for that of another command,
\* although the second port is reset while the first may still be talking
\* (i8042.c:219-359).
THEOREM BothPortsAlwaysFound == InputSpec => []BothPortsFound
  <1>1. InputInit => OwnInv /\ PortsInv
    <2>1. I8042Init => PortsInv
      BY DEF I8042Init, PortsInv, NoUnits, InitStages
    <2> QED BY <2>1, OwnStart DEF InputInit
  <1>2. PortsInv => BothPortsFound
    BY DEF PortsInv, Healthy, BothPortsFound
  <1> QED BY <1>1, <1>2, InputSteps, OwnStep, PortsStep, PTL DEF InputSpec

-----------------------------------------------------------------------------
(* Nothing is dropped on the way to the loop. *)

Triples == Byte \X Byte \X Byte
Locals == [s : Byte, x : Byte, ext : BOOLEAN, rel : BOOLEAN, unit : Nat]

\* What the driver has read and handed on.
RegsInv ==
  /\ last \in Byte
  /\ loc \in Locals
  /\ got \in [Sources -> Seq(Byte) \cup Seq(Triples)]
  /\ got["kbd"] \in Seq(Byte)
  /\ got["aux"] \in Seq(Triples)

\* The device files are fed with bytes.
Fed8 == [p \in Devices |-> Byte]

LoopStages == {"poll", "x", "y", "scan", "drain"}

\* Outside of "drain" the loop has read all that i8042_proc has handed on.
QueuesInv ==
  /\ at \notin LoopStages => phase = "boot"
  /\ phase = "run" =>
       /\ at # "drain" => \A p \in Devices : Queue(fs, p) = <<>>
       /\ Len(Queue(fs, Keyboard)) <= 1
       /\ Len(Queue(fs, Mouse)) <= 3

DropInv == OwnInv /\ RegsInv /\ IOCallInv(Fed8) /\ QueuesInv

LEMMA DataByte ==
  ASSUME PipeTypes, RegsInv PROVE Data \in Byte
  <1>1. obuf # NoByte => obuf.byte \in Byte
    BY DEF PipeTypes, PortBytes
  <1>2. 255 \in Byte
    BY DEF Byte
  <1> QED BY <1>1, <1>2 DEF Data, RegsInv

\* A key's code is a byte, pressed or released.
LEMMA KeyByte ==
  ASSUME NEW scan \in Byte
  PROVE  /\ i8042_KeyTable(scan) \in KeyCodes /\ i8042_ExtKeyTable(scan) \in KeyCodes
         /\ \A key \in KeyCodes : key \in Byte /\ key + KEY_RELEASE \in Byte
  <1>1. KEY_UNKNOWN \in KeyCodes
    BY DEF KEY_UNKNOWN, KeyCodes
  <1>2. \A i \in DOMAIN i8042_Keys : i8042_Keys[i] \in KeyCodes
    BY I8042Assumption DEF Range
  <1>3. \A i \in DOMAIN i8042_ExtKeys : i8042_ExtKeys[i] \in KeyCodes
    BY I8042Assumption DEF Range
  <1>4. \A key \in KeyCodes : key \in Byte /\ key + KEY_RELEASE \in Byte
    BY DEF KeyCodes, Byte, KEY_RELEASE
  <1> QED BY <1>1, <1>2, <1>3, <1>4 DEF i8042_KeyTable, i8042_ExtKeyTable

LEMMA RegsStart == I8042Init => RegsInv
  <1> SUFFICES ASSUME I8042Init PROVE RegsInv
    OBVIOUS
  <1>1. last \in Byte /\ loc \in Locals
    BY DEF I8042Init, NoLocals, Locals, Byte
  <1>2. got = [src \in Sources |-> <<>>] /\ <<>> \in Seq(Byte) /\ <<>> \in Seq(Triples)
    BY DEF I8042Init, NoUnits
  <1> QED BY <1>1, <1>2, AnswerTypes DEF RegsInv

\* A reading step keeps the last byte a byte.
LEMMA ReadByte ==
  ASSUME PipeTypes, RegsInv, ReadData PROVE last' \in Byte
  BY DataByte DEF ReadData

\* One step of i8042_proc: where it goes on, and what it hands on.
Handed ==
  \/ got' = got
  \/ /\ at' = "drain"
     /\ \E code \in Byte : got' = [got EXCEPT !["kbd"] = Append(@, code)]
  \/ /\ at' = "drain"
     /\ \E p \in Triples : got' = [got EXCEPT !["aux"] = Append(@, p)]

LEMMA ProcStep ==
  ASSUME PipeTypes, RegsInv, i8042_proc
  PROVE  /\ at \in LoopStages \ {"drain"} /\ at' \in LoopStages
         /\ last' \in Byte /\ loc' \in Locals /\ Handed
  <1>1. Data \in Byte
    BY DataByte
  <1>2. loc \in Locals /\ last \in Byte
    BY DEF RegsInv
  <1>3. NoLocals \in Locals
    BY DEF NoLocals, Locals, Byte
  <1>4. obuf.unit \in Nat /\ Unit \in Nat
    BY <1>2 DEF PipeTypes, PortBytes, NoByte, Unit, Locals
  <1>5. CASE Poll
    <2>1. at = "poll" /\ got' = got
      BY <1>5 DEF Poll
    <2>2. CASE ~ Full
      BY <1>2, <1>5, <2>1, <2>2, Zenon DEF Poll, LoopStages, Handed
    <2>3. CASE Full /\ AuxFull
      <3>1. at' = "x" /\ loc' = [NoLocals EXCEPT !.s = Data, !.unit = obuf.unit] /\ ReadData
        BY <1>5, <2>3, Zenon DEF Poll
      <3>2. loc' \in Locals
        BY <1>1, <1>3, <1>4, <3>1 DEF Locals
      <3> QED BY <2>1, <3>1, <3>2, ReadByte DEF LoopStages, Handed
    <2>4. CASE Full /\ ~ AuxFull
      <3>1. at' = "scan" /\ loc' = NoLocals /\ last' = last
        BY <1>5, <2>4, Zenon DEF Poll
      <3> QED BY <1>2, <1>3, <2>1, <3>1 DEF LoopStages, Handed
    <2> QED BY <2>2, <2>3, <2>4
  <1>6. CASE PacketX
    <2>1. /\ at = "x" /\ at' = "y" /\ got' = got /\ ReadData
          /\ loc' = [loc EXCEPT !.x = Data]
      BY <1>6 DEF PacketX, Answered
    <2>2. loc' \in Locals
      BY <1>1, <1>2, <2>1 DEF Locals
    <2> QED BY <2>1, <2>2, ReadByte DEF LoopStages, Handed
  <1>7. CASE PacketY
    <2> DEFINE p == <<loc.s, loc.x, Data>>
    <2>1. /\ at = "y" /\ at' = "drain" /\ ReadData /\ loc' = NoLocals
          /\ got' = got \/ got' = [got EXCEPT !["aux"] = Append(@, p)]
      BY <1>7 DEF PacketY, Answered
    <2>2. p \in Triples
      BY <1>1, <1>2 DEF Locals, Triples
    <2> HIDE DEF p
    <2> QED BY <1>3, <2>1, <2>2, ReadByte DEF LoopStages, Handed
  <1>8. CASE PacketTimedOut
    BY <1>2, <1>3, <1>8 DEF PacketTimedOut, LoopStages, Handed, hw
  <1>9. CASE Scan
    <2> DEFINE key == IF loc.ext THEN i8042_ExtKeyTable(Data) ELSE i8042_KeyTable(Data)
               code == IF loc.rel THEN key + KEY_RELEASE ELSE key
    <2>1. at = "scan" /\ ReadData
      BY <1>9 DEF Scan
    <2>2. code \in Byte
      <3>1. key \in KeyCodes
        BY <1>1, KeyByte
      <3> HIDE DEF key
      <3> QED BY <1>1, <3>1, KeyByte
    <2>3. CASE Data = I8042_KEY_EXTENDED
      <3>0. Data # I8042_KEY_RELEASE
        BY <2>3 DEF I8042_KEY_EXTENDED, I8042_KEY_RELEASE
      <3>1. at' = at /\ loc' = [loc EXCEPT !.ext = TRUE, !.unit = Unit] /\ got' = got
        BY <1>9, <2>3, <3>0, Zenon DEF Scan
      <3>2. loc' \in Locals
        BY <1>2, <1>4, <3>1 DEF Locals
      <3> QED BY <2>1, <3>1, <3>2, ReadByte DEF LoopStages, Handed
    <2>4. CASE Data # I8042_KEY_EXTENDED /\ Data = I8042_KEY_RELEASE
      <3>1. at' = at /\ loc' = [loc EXCEPT !.rel = TRUE, !.unit = Unit] /\ got' = got
        BY <1>9, <2>4, Zenon DEF Scan
      <3>2. loc' \in Locals
        BY <1>2, <1>4, <3>1 DEF Locals
      <3> QED BY <2>1, <3>1, <3>2, ReadByte DEF LoopStages, Handed
    <2>5. CASE Data # I8042_KEY_EXTENDED /\ Data # I8042_KEY_RELEASE
      <3>1. /\ at' = "drain" /\ loc' = NoLocals
            /\ IF key = KEY_UNKNOWN THEN UNCHANGED got
               ELSE got' = [got EXCEPT !["kbd"] = Append(@, code)]
        BY <1>9, <2>5, Zenon DEF Scan
      <3> HIDE DEF key, code
      <3> QED BY <1>3, <2>1, <2>2, <3>1, ReadByte DEF LoopStages, Handed
    <2> QED BY <2>3, <2>4, <2>5
  <1> QED BY <1>5, <1>6, <1>7, <1>8, <1>9 DEF i8042_proc

\* What is handed on keeps the types, and only it changes the end of `got'.
LEMMA HandedTypes ==
  ASSUME RegsInv, Handed
  PROVE  /\ got' \in [Sources -> Seq(Byte) \cup Seq(Triples)]
         /\ got'["kbd"] \in Seq(Byte) /\ got'["aux"] \in Seq(Triples)
         /\ got'["kbd"] # got["kbd"] =>
              at' = "drain" /\ got'["aux"] = got["aux"] /\ Last(got'["kbd"]) \in Byte
         /\ got'["aux"] # got["aux"] =>
              at' = "drain" /\ got'["kbd"] = got["kbd"] /\ Last(got'["aux"]) \in Triples
  <1>1. /\ got \in [Sources -> Seq(Byte) \cup Seq(Triples)]
        /\ got["kbd"] \in Seq(Byte) /\ got["aux"] \in Seq(Triples)
        /\ "kbd" \in Sources /\ "aux" \in Sources
    BY AnswerTypes DEF RegsInv
  <1>2. CASE got' = got
    BY <1>1, <1>2
  <1>3. ASSUME at' = "drain", NEW code \in Byte, got' = [got EXCEPT !["kbd"] = Append(@, code)]
        PROVE  /\ got' \in [Sources -> Seq(Byte) \cup Seq(Triples)]
               /\ got'["kbd"] \in Seq(Byte) /\ got'["aux"] = got["aux"]
               /\ Last(got'["kbd"]) \in Byte
    <2> DEFINE s == Append(got["kbd"], code)
    <2>1. s \in Seq(Byte) /\ Last(s) = code
      BY <1>1 DEF Last
    <2>2. got' = [got EXCEPT !["kbd"] = s]
      BY <1>3
    <2> HIDE DEF s
    <2> QED BY <1>1, <2>1, <2>2
  <1>4. ASSUME at' = "drain", NEW p \in Triples, got' = [got EXCEPT !["aux"] = Append(@, p)]
        PROVE  /\ got' \in [Sources -> Seq(Byte) \cup Seq(Triples)]
               /\ got'["aux"] \in Seq(Triples) /\ got'["kbd"] = got["kbd"]
               /\ Last(got'["aux"]) \in Triples
    <2> DEFINE s == Append(got["aux"], p)
    <2>1. s \in Seq(Triples) /\ Last(s) = p
      BY <1>1 DEF Last
    <2>2. got' = [got EXCEPT !["aux"] = s]
      BY <1>4
    <2> HIDE DEF s
    <2> QED BY <1>1, <2>1, <2>2
  <1> QED BY <1>1, <1>2, <1>3, <1>4 DEF Handed

\* The steps of the initialisation and of the hardware.
LEMMA RegsKept ==
  ASSUME PipeTypes, RegsInv, i8042_init \/ FilesMade \/ Drained \/ Hardware \/ UNCHANGED i8042_vars
  PROVE  RegsInv'
  <1> SUFFICES /\ loc' = loc
               /\ last' \in Byte
               /\ got' \in {got, NoUnits}
    <2>1. NoUnits = [src \in Sources |-> <<>>] /\ <<>> \in Seq(Byte) /\ <<>> \in Seq(Triples)
      BY DEF NoUnits
    <2>2. /\ NoUnits \in [Sources -> Seq(Byte) \cup Seq(Triples)]
          /\ NoUnits["kbd"] \in Seq(Byte) /\ NoUnits["aux"] \in Seq(Triples)
      BY <2>1, AnswerTypes
    <2> QED BY <2>2 DEF RegsInv
  <1>0. last \in Byte /\ (ReadData => last' \in Byte)
    BY ReadByte DEF RegsInv
  <1>1. CASE InitStart
    BY <1>0, <1>1 DEF InitStart, hw
  <1>2. CASE InitTimedOut
    BY <1>0, <1>2 DEF InitTimedOut, drv, hw
  <1>3. CASE ConfigRead
    BY <1>0, <1>3 DEF ConfigRead, Answered, drv
  <1>4. CASE SelfTest
    BY <1>0, <1>4 DEF SelfTest, Answered, drv
  <1>5. CASE Channels
    BY <1>0, <1>5 DEF Channels, Answered
  <1>6. CASE PortTest("test1", "kbd") \/ PortTest("test2", "aux")
    BY <1>0, <1>6 DEF PortTest, Answered
  <1>7. CASE Reset("reset1", "kbd", "ack1") \/ Reset("reset2", "aux", "ack2")
    BY <1>0, <1>7 DEF Reset, drv
  <1>8. CASE \/ Acknowledge("ack1", "kbd", "verdict1", AfterKbd)
             \/ Acknowledge("ack2", "aux", "verdict2", "report")
    BY <1>0, <1>8 DEF Acknowledge
  <1>9. CASE Verdict("verdict1", "kbd", AfterKbd) \/ Verdict("verdict2", "aux", "report")
    BY <1>0, <1>9 DEF Verdict
  <1>10. CASE Report
    BY <1>0, <1>10 DEF Report, drv, ghost
  <1>11. CASE FilesMade \/ Drained
    BY <1>0, <1>11 DEF FilesMade, Drained, drv, hw, ghost
  <1>12. CASE Hardware
    <2>1. ASSUME NEW src, Fill(src) PROVE loc' = loc /\ last' = last /\ got' = got
      BY <2>1 DEF Fill, drv, ghost
    <2>2. ASSUME NEW src, NEW unit, NEW bytes, Event(src, unit, bytes)
          PROVE  loc' = loc /\ last' = last /\ got' \in {got, NoUnits}
      BY <2>2 DEF Event, drv
    <2> QED BY <1>0, <1>12, <2>1, <2>2 DEF Hardware, KeyEvent, MouseEvent
  <1>13. CASE UNCHANGED i8042_vars
    BY <1>0, <1>13 DEF i8042_vars, drv, hw, ghost
  <1> QED BY <1>1, <1>2, <1>3, <1>4, <1>5, <1>6, <1>7, <1>8, <1>9, <1>10, <1>11, <1>12, <1>13
          DEF i8042_init

\* The initialisation ends before the files are made.
LEMMA InitStays ==
  ASSUME i8042_init
  PROVE  at \notin LoopStages /\ at' \notin LoopStages
  <1> USE DEF LoopStages
  <1>1. CASE InitStart
    BY <1>1 DEF InitStart
  <1>2. CASE InitTimedOut
    BY <1>2 DEF InitTimedOut
  <1>3. CASE ConfigRead
    BY <1>3 DEF ConfigRead, Answered
  <1>4. CASE SelfTest
    BY <1>4 DEF SelfTest, Answered
  <1>5. CASE Channels
    BY <1>5 DEF Channels, Answered
  <1>6. CASE PortTest("test1", "kbd") \/ PortTest("test2", "aux")
    BY <1>6 DEF PortTest, Answered, AfterTests
  <1>7. CASE Reset("reset1", "kbd", "ack1") \/ Reset("reset2", "aux", "ack2")
    BY <1>7 DEF Reset
  <1>8. CASE \/ Acknowledge("ack1", "kbd", "verdict1", AfterKbd)
             \/ Acknowledge("ack2", "aux", "verdict2", "report")
    BY <1>8 DEF Acknowledge, AfterKbd
  <1>9. CASE Verdict("verdict1", "kbd", AfterKbd) \/ Verdict("verdict2", "aux", "report")
    BY <1>9 DEF Verdict, AfterKbd
  <1>10. CASE Report
    BY <1>10 DEF Report
  <1> QED BY <1>1, <1>2, <1>3, <1>4, <1>5, <1>6, <1>7, <1>8, <1>9, <1>10 DEF i8042_init

LEMMA FeedCases ==
  ASSUME Feed
  PROVE  /\ i8042_proc
         /\ \/ got'["kbd"] # got["kbd"] /\ got'["aux"] = got["aux"] /\ key_send(Last(got'["kbd"]))
            \/ got'["aux"] # got["aux"] /\ got'["kbd"] = got["kbd"] /\ mouse_send(Last(got'["aux"]))
            \/ got'["kbd"] # got["kbd"] /\ got'["aux"] # got["aux"]
            \/ UNCHANGED vars
  <1>1. i8042_proc
    BY DEF Feed
  <1>2. CASE got'["kbd"] # got["kbd"] /\ got'["aux"] = got["aux"]
    BY <1>1, <1>2, Zenon DEF Feed
  <1>3. CASE got'["kbd"] = got["kbd"] /\ got'["aux"] # got["aux"]
    BY <1>1, <1>3, Zenon DEF Feed
  <1>4. CASE got'["kbd"] = got["kbd"] /\ got'["aux"] = got["aux"]
    BY <1>1, <1>4, Zenon DEF Feed
  <1> QED BY <1>1, <1>2, <1>3, <1>4

\* A queue that was empty holds what the driver has sent.
LEMMA SendToEmpty ==
  ASSUME IOCallInv(Fed8), NEW path \in Devices, NEW bytes \in Seq(Byte), Send(path, bytes),
         \A p \in Devices : Queue(fs, p) = <<>>
  PROVE  /\ IOCallInv(Fed8)' /\ phase = "run" /\ phase' = "run"
         /\ Len(Queue(fs', path)) <= Len(bytes)
         /\ \A p \in Devices \ {path} : Queue(fs', p) = <<>>
  <1> DEFINE o == open(fs, iocall_FileDesc, path, {O_WRONLY}, TRUE)
             w == write(o.st, o.fdv, o.ret, bytes, TRUE)
             c == close(w.st, w.fdv, o.ret)
             n == Fitting(fs, path, bytes)
  <1>1. phase = "run" /\ fs' = c.st /\ phase' = "run"
    BY DEF Send
  <1>2. bytes \in Seq(Fed8[path])
    BY DEF Fed8
  <1>3. IOCallInv(Fed8)'
    BY <1>2, StepSend
  <1>4. PICK K \in {{}, {0}} : Ready(fs, Fed8, K)
    BY <1>1, Running DEF IOCallInv
  <1>5. Sent(Fed8, K, fs, path, bytes, w, c)
    BY <1>2, <1>4, SendEffect
  <1> HIDE DEF w, c
  <1>6. /\ Queue(fs', path) = Queue(fs, path) \o SubSeq(bytes, 1, n)
        /\ \A p \in Devices \ {path} : Queue(fs', p) = <<>>
    BY <1>1, <1>5 DEF Sent, Puts
  <1>7. /\ n \in 0 .. Len(bytes)
        /\ Len(Queue(fs, path) \o SubSeq(bytes, 1, n)) = Len(Queue(fs, path)) + n
    BY <1>2, <1>4, FittingIs
  <1>8. Len(Queue(fs, path)) = 0
    <2>1. Len(<<>>) = 0 /\ Queue(fs, path) = <<>>
      OBVIOUS
    <2> QED BY <2>1
  <1> HIDE DEF n
  <1> QED BY <1>1, <1>3, <1>6, <1>7, <1>8

\* The loop's reads empty the queues.
LEMMA DrainEmpties ==
  ASSUME IOCallInv(Fed8), QueuesInv, Drain
  PROVE  /\ IOCallInv(Fed8)' /\ phase' = "run"
         /\ \A p \in Devices : Queue(fs', p) = <<>>
  <1> DEFINE o1 == open(fs, iocall_FileDesc, Keyboard, {O_RDONLY}, FALSE)
             r1 == read(o1.st, o1.fdv, o1.ret, 1, FALSE)
             o2 == open(r1.st, r1.fdv, Mouse, {O_RDONLY}, FALSE)
             r2 == read(o2.st, o2.fdv, o2.ret, Len(Packet), FALSE)
  <1>1. phase = "run" /\ fs' = r2.st /\ phase' = "run"
    BY DEF Drain, KernelLoop
  <1>2. IOCallInv(Fed8)'
    BY StepLoop DEF Drain
  <1>3. PICK K \in {{}, {0}} : Ready(fs, Fed8, K)
    BY <1>1, Running DEF IOCallInv
  <1>4. Looped(Fed8, K, fs, r1, r2)
    BY <1>3, LoopEffect
  <1> HIDE DEF r1, r2
  <1>5. /\ Took(Queue(fs, Keyboard), Queue(fs', Keyboard), r1.bytes, 1)
        /\ Took(Queue(fs, Mouse), Queue(fs', Mouse), r2.bytes, 3)
    BY <1>1, <1>4, InputAssumption DEF Looped
  <1>6. ASSUME NEW p \in Devices, NEW n \in Nat, NEW bytes, Len(Queue(fs, p)) <= n,
               Took(Queue(fs, p), Queue(fs', p), bytes, n)
        PROVE  Queue(fs', p) = <<>>
    <2> DEFINE q == Queue(fs, p)
               rest == Queue(fs', p)
               S == Bytes(Fed8)
    <2>1. q \in Seq(S)
      BY <1>3, QueueTypes
    <2> HIDE DEF q, rest, S
    <2>2. Took(q, rest, bytes, n) /\ Len(q) <= n
      BY <1>6 DEF q, rest
    <2>3. rest \in Seq(S) /\ Len(rest) = Len(q) - Least(n, Len(q))
      BY <2>1, <2>2, TookSplits
    <2>4. Least(n, Len(q)) = Len(q)
      BY <2>1, <2>2 DEF Least
    <2>5. Len(rest) = 0
      BY <2>1, <2>3, <2>4
    <2>6. rest = <<>>
      BY <2>3, <2>5
    <2> QED BY <2>6 DEF rest
  <1>7. Len(Queue(fs, Keyboard)) <= 1 /\ Len(Queue(fs, Mouse)) <= 3
    BY <1>1 DEF QueuesInv
  <1>8. Queue(fs', Keyboard) = <<>> /\ Queue(fs', Mouse) = <<>>
    BY <1>5, <1>6, <1>7, FedBytes
  <1> QED BY <1>1, <1>2, <1>8 DEF Devices

LEMMA SendKept ==
  ASSUME NEW path \in Devices, NEW bytes \in Seq(Byte), Send(path, bytes),
         IOCallInv(Fed8), QueuesInv, at \in LoopStages \ {"drain"}, at' = "drain",
         path = Keyboard => Len(bytes) <= 1, path = Mouse => Len(bytes) <= 3
  PROVE  IOCallInv(Fed8)' /\ QueuesInv'
  <1>0. \A p \in Devices : Queue(fs, p) = <<>>
    BY DEF QueuesInv, Send
  <1>1. /\ IOCallInv(Fed8)' /\ phase' = "run"
        /\ Len(Queue(fs', path)) <= Len(bytes)
        /\ \A p \in Devices \ {path} : Queue(fs', p) = <<>>
    BY <1>0, SendToEmpty
  <1>2. Len(<<>>) = 0
    OBVIOUS
  <1>3. PICK K \in {{}, {0}} : Ready(fs', Fed8, K)
    BY <1>1 DEF IOCallInv, StoreInv, Ready
  <1>4. Queue(fs', path) \in Seq(Bytes(Fed8))
    BY <1>3, QueueTypes
  <1>5. Len(Queue(fs', path)) \in Nat /\ Len(bytes) \in Nat
    BY <1>4
  <1>6. Len(Queue(fs', Keyboard)) <= 1
    BY <1>1, <1>2, <1>5, FedBytes
  <1>7. Len(Queue(fs', Mouse)) <= 3
    BY <1>1, <1>2, <1>5, FedBytes
  <1> QED BY <1>1, <1>6, <1>7 DEF QueuesInv, Queue, LoopStages

LEMMA DropStep ==
  ASSUME DropInv, [InputNext]_InputVars PROVE DropInv'
  <1>1. OwnInv'
    BY InputSteps, OwnStep DEF DropInv
  <1>2. PipeTypes /\ RegsInv /\ IOCallInv(Fed8) /\ QueuesInv
    BY DEF DropInv, OwnInv
  <1>3. ASSUME UNCHANGED vars PROVE IOCallInv(Fed8)' /\ fs' = fs /\ phase' = phase
    BY <1>2, <1>3, StepSame DEF vars
  <1>4. ASSUME fs' = fs, phase' = phase, at' = at \/ (at \in LoopStages \ {"drain"} /\ at' \in LoopStages)
        PROVE  QueuesInv'
    BY <1>2, <1>4 DEF QueuesInv, Queue
  <1>5. CASE i8042_init /\ UNCHANGED vars
    <2>1. RegsInv'
      BY <1>2, <1>5, RegsKept
    <2>2. QueuesInv'
      BY <1>2, <1>3, <1>5, InitStays DEF QueuesInv
    <2> QED BY <1>1, <1>3, <1>5, <2>1, <2>2 DEF DropInv
  <1>6. CASE MakeFiles
    <2>1. RegsInv' /\ IOCallInv(Fed8)' /\ at' = "poll"
      BY <1>2, <1>6, RegsKept, StepInitDevices DEF MakeFiles, FilesMade
    <2>2. phase' = "run" => \A p \in Devices : Queue(fs', p) = <<>>
      BY <1>2, <1>6, NewDevicesEmpty DEF MakeFiles
    <2>3. QueuesInv'
      <3>1. Len(<<>>) = 0
        OBVIOUS
      <3>2. phase' = "run" => /\ \A p \in Devices : Queue(fs', p) = <<>>
                              /\ Len(Queue(fs', Keyboard)) <= 1 /\ Len(Queue(fs', Mouse)) <= 3
        BY <2>2, <3>1, FedBytes
      <3> QED BY <2>1, <3>2 DEF QueuesInv, Queue, LoopStages
    <2> QED BY <1>1, <2>1, <2>3 DEF DropInv
  <1>7. CASE Feed
    <2>1. /\ at \in LoopStages \ {"drain"} /\ at' \in LoopStages
          /\ last' \in Byte /\ loc' \in Locals /\ Handed
      BY <1>2, <1>7, FeedCases, ProcStep
    <2>2. /\ got' \in [Sources -> Seq(Byte) \cup Seq(Triples)]
          /\ got'["kbd"] \in Seq(Byte) /\ got'["aux"] \in Seq(Triples)
          /\ got'["kbd"] # got["kbd"] =>
               at' = "drain" /\ got'["aux"] = got["aux"] /\ Last(got'["kbd"]) \in Byte
          /\ got'["aux"] # got["aux"] =>
               at' = "drain" /\ got'["kbd"] = got["kbd"] /\ Last(got'["aux"]) \in Triples
      BY <1>2, <2>1, HandedTypes
    <2>3. RegsInv'
      BY <2>1, <2>2 DEF RegsInv
    <2>5. CASE got'["kbd"] # got["kbd"] /\ key_send(Last(got'["kbd"]))
      <3> DEFINE k == Last(got'["kbd"])
                 b == <<k>>
      <3>1. k \in Byte /\ at' = "drain"
        BY <2>2, <2>5
      <3>2. b \in Seq(Byte) /\ Len(b) = 1 /\ Send(Keyboard, b) /\ Keyboard \in Devices
        BY <2>5, <3>1, FedBytes DEF key_send
      <3>3. PICK bytes \in Seq(Byte) : Len(bytes) = 1 /\ Send(Keyboard, bytes)
        <4>1. \E bytes : bytes = b
          OBVIOUS
        <4> QED BY <3>2, <4>1 DEF Send
      <3>4. IOCallInv(Fed8)' /\ QueuesInv'
        <4>1. Keyboard # Mouse
          BY FedBytes
        <4> HIDE DEF b
        <4>2. /\ Keyboard = Keyboard => Len(bytes) <= 1
              /\ Keyboard = Mouse => Len(bytes) <= 3
          BY <3>3, <4>1
        <4> QED BY <1>2, <2>1, <3>1, <3>2, <3>3, <4>2, SendKept
      <3> QED BY <1>1, <2>3, <3>4 DEF DropInv
    <2>6. CASE got'["aux"] # got["aux"] /\ mouse_send(Last(got'["aux"]))
      <3> DEFINE b == Last(got'["aux"])
      <3>1. b \in Triples /\ at' = "drain"
        BY <2>2, <2>6
      <3>2. PICK x \in Byte, y \in Byte, z \in Byte : b = <<x, y, z>>
        BY <3>1 DEF Triples
      <3>3. b \in Seq(Byte) /\ Len(b) = 3
        BY <3>2
      <3>4. Send(Mouse, b) /\ Mouse \in Devices /\ Mouse # Keyboard
        BY <2>6, FedBytes DEF mouse_send
      <3>5. PICK bytes \in Seq(Byte) : Len(bytes) = 3 /\ Send(Mouse, bytes)
        <4>1. \E bytes : bytes = b
          OBVIOUS
        <4> QED BY <3>3, <3>4, <4>1 DEF Send
      <3>6. IOCallInv(Fed8)' /\ QueuesInv'
        <4> HIDE DEF b
        <4>2. /\ Mouse = Keyboard => Len(bytes) <= 1
              /\ Mouse = Mouse => Len(bytes) <= 3
          BY <3>4, <3>5
        <4> QED BY <1>2, <2>1, <3>1, <3>4, <3>5, <4>2, SendKept
      <3> QED BY <1>1, <2>3, <3>6 DEF DropInv
    <2>7. CASE UNCHANGED vars
      <3>1. QueuesInv'
        BY <1>3, <1>4, <2>1, <2>7
      <3> QED BY <1>1, <1>3, <2>3, <2>7, <3>1 DEF DropInv
    <2> QED BY <1>7, <2>2, <2>5, <2>6, <2>7, FeedCases
  <1>8. CASE Drain
    <2>1. RegsInv' /\ at' = "poll"
      BY <1>2, <1>8, RegsKept DEF Drain, Drained
    <2>2. /\ IOCallInv(Fed8)' /\ phase' = "run"
          /\ \A p \in Devices : Queue(fs', p) = <<>>
      BY <1>2, <1>8, DrainEmpties
    <2>3. QueuesInv'
      <3>1. Len(<<>>) = 0
        OBVIOUS
      <3>2. Len(Queue(fs', Keyboard)) <= 1 /\ Len(Queue(fs', Mouse)) <= 3
        BY <2>2, <3>1, FedBytes
      <3> QED BY <2>1, <2>2, <3>2 DEF QueuesInv, Queue, LoopStages
    <2> QED BY <1>1, <2>1, <2>2, <2>3 DEF DropInv
  <1>9. CASE Hardware /\ UNCHANGED vars
    <2>1. RegsInv'
      BY <1>2, <1>9, RegsKept
    <2>2. at' = at
      <3>1. ASSUME NEW src, Fill(src) PROVE at' = at
        BY <3>1 DEF Fill
      <3>2. ASSUME NEW src, NEW unit, NEW bytes, Event(src, unit, bytes) PROVE at' = at
        BY <3>2 DEF Event
      <3> QED BY <1>9, <3>1, <3>2 DEF Hardware, KeyEvent, MouseEvent
    <2>3. QueuesInv'
      BY <1>3, <1>4, <1>9, <2>2
    <2> QED BY <1>1, <1>3, <1>9, <2>1, <2>3 DEF DropInv
  <1>10. CASE UNCHANGED InputVars
    <2>1. UNCHANGED vars /\ UNCHANGED i8042_vars /\ at' = at
      BY <1>10 DEF InputVars, i8042_vars
    <2>2. RegsInv'
      BY <1>2, <2>1, RegsKept
    <2>3. QueuesInv'
      BY <1>3, <1>4, <2>1
    <2> QED BY <1>1, <1>3, <2>1, <2>2, <2>3 DEF DropInv
  <1> QED BY <1>5, <1>6, <1>7, <1>8, <1>9, <1>10 DEF InputNext

\* The loop keeps up with the drivers: a device file never holds more than
\* one key or packet, so that none is dropped for want of room, and whenever
\* the loop polls again it has read all that i8042_proc was given, however
\* the hardware interleaves keys, packets and silences (kernel.c:366-379,
\* i8042.c:184-217).
THEOREM NothingEverDropped == InputSpec => []NothingDropped
  <1>1. InputInit => DropInv
    <2> SUFFICES ASSUME InputInit PROVE DropInv
      OBVIOUS
    <2>1. OwnInv /\ RegsInv /\ at = "init"
      BY OwnStart, RegsStart DEF InputInit, I8042Init
    <2>2. IOCallInv(Fed8) /\ phase = "boot"
      BY StepInit DEF InputInit, Init
    <2> QED BY <2>1, <2>2 DEF DropInv, QueuesInv
  <1>2. DropInv /\ [InputNext]_InputVars => DropInv'
    BY DropStep
  <1>3. DropInv => NothingDropped
    <2> SUFFICES ASSUME DropInv, phase = "run"
                 PROVE  /\ Len(Queue(fs, Keyboard)) <= 1
                        /\ Len(Queue(fs, Mouse)) <= Len(Packet)
                        /\ at = "poll" => \A p \in Devices : taken[p] = accepted[p]
      BY DEF NothingDropped
    <2>1. Len(Queue(fs, Keyboard)) <= 1 /\ Len(Queue(fs, Mouse)) <= Len(Packet)
      BY InputAssumption DEF DropInv, QueuesInv
    <2>2. ASSUME at = "poll", NEW p \in Devices PROVE taken[p] = accepted[p]
      <3>1. Queue(fs, p) = <<>>
        BY <2>2 DEF DropInv, QueuesInv
      <3>2. accepted[p] = taken[p] \o Queue(fs, p) /\ taken[p] \in Seq(Bytes(Fed8))
        BY DEF DropInv, IOCallInv, HistoryInv, DeviceFIFO
      <3>3. taken[p] \o <<>> = taken[p]
        BY <3>2, ConcatEmptySeq
      <3> QED BY <3>1, <3>2, <3>3
    <2> QED BY <2>1, <2>2
  <1> QED BY <1>1, <1>2, <1>3, PTL DEF InputSpec

-----------------------------------------------------------------------------
(***************************************************************************)
(* Joining sequences: FlattenSeq, one sequence at a time.                  *)
(***************************************************************************)
Joins(s, n, g) == g = [i \in 1 .. n |-> IF i = 1 THEN s[i] ELSE g[i - 1] \o s[i]]

LEMMA JoinsAt ==
  ASSUME NEW s, NEW n \in Nat, NEW g, Joins(s, n, g), NEW i \in 1 .. n
  PROVE  g[i] = IF i = 1 THEN s[i] ELSE g[i - 1] \o s[i]
  <1>1. g = [l \in 1 .. n |-> IF l = 1 THEN s[l] ELSE g[l - 1] \o s[l]]
    BY DEF Joins
  <1> DEFINE h == [l \in 1 .. n |-> IF l = 1 THEN s[l] ELSE g[l - 1] \o s[l]]
  <1>2. h[i] = IF i = 1 THEN s[i] ELSE g[i - 1] \o s[i]
    OBVIOUS
  <1>3. g = h
    BY <1>1
  <1> HIDE DEF h
  <1> QED BY <1>2, <1>3

LEMMA JoinsExist == ASSUME NEW s, NEW n \in Nat PROVE \E g : Joins(s, n, g)
  <1> DEFINE bad == {m \in Nat : ~ \E g : Joins(s, m, g)}
  <1> SUFFICES ASSUME bad # {} PROVE FALSE
    OBVIOUS
  <1>1. bad \in SUBSET Nat
    OBVIOUS
  <1> HIDE DEF bad
  <1>2. PICK m \in bad : \A l \in bad : m <= l
    BY <1>1, NatLeast
  <1>3. m \in Nat /\ ~ \E g : Joins(s, m, g)
    BY <1>2 DEF bad
  <1>4. CASE m = 0
    <2> DEFINE e == [i \in 1 .. 0 |-> 0]
    <2>1. \A i : i \notin 1 .. 0
      OBVIOUS
    <2>2. Joins(s, 0, e)
      BY <2>1 DEF Joins
    <2> QED BY <1>3, <1>4, <2>2
  <1>5. CASE m # 0
    <2>1. m - 1 \in Nat /\ ~ (m <= m - 1) /\ m >= 1
      BY <1>3, <1>5
    <2>2. PICK g : Joins(s, m - 1, g)
      BY <1>2, <2>1 DEF bad
    <2> DEFINE h == [i \in 1 .. m |-> IF i < m THEN g[i] ELSE IF i = 1 THEN s[i] ELSE g[i - 1] \o s[i]]
               e == [i \in 1 .. m |-> IF i = 1 THEN s[i] ELSE h[i - 1] \o s[i]]
    <2>3. ASSUME NEW i \in 1 .. m PROVE h[i] = e[i]
      <3>1. CASE i = 1
        <4>1. e[i] = s[i]
          BY <3>1
        <4>2. CASE i < m
          <5>1. i \in 1 .. (m - 1)
            BY <1>3, <3>1, <4>2
          <5>2. g[i] = s[i]
            BY <2>1, <2>2, <3>1, <5>1, JoinsAt
          <5>3. h[i] = g[i]
            BY <4>2
          <5> QED BY <4>1, <5>2, <5>3
        <4>3. CASE ~ (i < m)
          BY <3>1, <4>1, <4>3
        <4> QED BY <4>2, <4>3
      <3>2. CASE i # 1
        <4>1. i - 1 \in 1 .. m /\ i - 1 < m
          BY <1>3, <3>2
        <4>2. h[i - 1] = g[i - 1]
          BY <4>1
        <4>3. e[i] = g[i - 1] \o s[i]
          BY <3>2, <4>2
        <4>4. CASE i < m
          <5>1. i \in 1 .. (m - 1)
            BY <1>3, <4>4
          <5>2. g[i] = IF i = 1 THEN s[i] ELSE g[i - 1] \o s[i]
            BY <2>1, <2>2, <5>1, JoinsAt
          <5>3. h[i] = g[i]
            BY <4>4
          <5> QED BY <3>2, <4>3, <5>2, <5>3
        <4>5. CASE ~ (i < m)
          BY <3>2, <4>3, <4>5
        <4> QED BY <4>4, <4>5
      <3> QED BY <3>1, <3>2
    <2>4. h = e
      BY <2>3
    <2>5. Joins(s, m, h)
      <3>1. e = [i \in 1 .. m |-> IF i = 1 THEN s[i] ELSE h[i - 1] \o s[i]]
        OBVIOUS
      <3> HIDE DEF h, e
      <3> QED BY <2>4, <3>1 DEF Joins
    <2> QED BY <1>3, <2>5
  <1> QED BY <1>4, <1>5

AgreeTo(k, g, h) == \A i \in 1 .. k : g[i] = h[i]

LEMMA JoinsAgree ==
  ASSUME NEW s, NEW t, NEW n \in Nat, NEW m \in Nat, NEW g, NEW h,
         Joins(s, n, g), Joins(t, m, h), NEW k \in Nat, k <= n, k <= m,
         AgreeTo(k, s, t)
  PROVE  AgreeTo(k, g, h)
  <1> DEFINE bad == {i \in 1 .. k : g[i] # h[i]}
  <1> SUFFICES ASSUME bad # {} PROVE FALSE
    BY DEF AgreeTo
  <1>1. bad \in SUBSET Nat
    OBVIOUS
  <1> HIDE DEF bad
  <1>2. PICK i \in bad : \A l \in bad : i <= l
    BY <1>1, NatLeast
  <1>3. i \in 1 .. k /\ g[i] # h[i] /\ i \in 1 .. n /\ i \in 1 .. m
    BY <1>2 DEF bad
  <1>4. /\ g[i] = IF i = 1 THEN s[i] ELSE g[i - 1] \o s[i]
        /\ h[i] = IF i = 1 THEN t[i] ELSE h[i - 1] \o t[i]
    BY <1>3, JoinsAt
  <1>5. s[i] = t[i] /\ i # 1
    BY <1>3, <1>4 DEF AgreeTo
  <1>6. i - 1 \in 1 .. k /\ ~ (i <= i - 1)
    BY <1>3, <1>5
  <1>7. g[i - 1] = h[i - 1]
    BY <1>2, <1>6 DEF bad
  <1> QED BY <1>3, <1>4, <1>5, <1>7

LEMMA FlattenIs ==
  ASSUME NEW S, NEW n \in Nat \ {0}, NEW s \in [1 .. n -> S]
  PROVE  \E g : Joins(s, n, g) /\ FlattenSeq(s) = g[n]
  <1> DEFINE Joined(g) == [i \in 1 .. n |-> IF i = 1 THEN s[i] ELSE g[i - 1] \o s[i]]
             joined == CHOOSE g : g = Joined(g)
  <1>1. Len(s) = n
    BY LenProperties, SeqDef
  <1>2. FlattenSeq(s) = joined[n]
    BY <1>1 DEF FlattenSeq
  <1>3. \E g : g = Joined(g)
    BY JoinsExist DEF Joins
  <1>4. joined = Joined(joined)
    BY <1>3, Zenon
  <1> HIDE DEF joined
  <1>5. Joins(s, n, joined)
    BY <1>4 DEF Joins
  <1> QED BY <1>2, <1>5

LEMMA FlattenNone == FlattenSeq(<<>>) = <<>>
  BY DEF FlattenSeq

\* The last sequence comes last.
LEMMA FlattenNext ==
  ASSUME NEW S, NEW k \in Nat, NEW s \in [1 .. k + 1 -> Seq(S)], NEW t \in [1 .. k -> Seq(S)],
         \A i \in 1 .. k : t[i] = s[i], FlattenSeq(t) \in Seq(S)
  PROVE  FlattenSeq(s) = FlattenSeq(t) \o s[k + 1] /\ FlattenSeq(s) \in Seq(S)
  <1>0. k + 1 \in Nat \ {0} /\ k + 1 \in 1 .. k + 1
    OBVIOUS
  <1>1. PICK g : Joins(s, k + 1, g) /\ FlattenSeq(s) = g[k + 1]
    BY <1>0, FlattenIs
  <1>2. g[k + 1] = IF k + 1 = 1 THEN s[k + 1] ELSE g[k + 1 - 1] \o s[k + 1]
    BY <1>0, <1>1, JoinsAt
  <1>3. s[k + 1] \in Seq(S)
    BY <1>0
  <1>4. CASE k = 0
    <2>1. t = <<>>
      BY <1>4
    <2>2. FlattenSeq(t) = <<>>
      BY <2>1, FlattenNone
    <2>3. <<>> \o s[k + 1] = s[k + 1]
      BY <1>3
    <2>4. FlattenSeq(s) = s[k + 1]
      BY <1>1, <1>2, <1>4
    <2> QED BY <1>3, <2>2, <2>3, <2>4
  <1>5. CASE k # 0
    <2>1. k \in Nat \ {0} /\ k \in 1 .. k /\ k + 1 # 1 /\ k + 1 - 1 = k /\ k <= k + 1 /\ k <= k
      BY <1>5
    <2>2. PICK h : Joins(t, k, h) /\ FlattenSeq(t) = h[k]
      BY <2>1, FlattenIs
    <2>3. \A i \in 1 .. k : h[i] = g[i]
      <3> DEFINE m == k + 1
      <3>1. Joins(s, m, g) /\ m \in Nat /\ k <= m /\ k <= k
        BY <1>1, <2>1
      <3>2. AgreeTo(k, t, s)
        BY DEF AgreeTo
      <3> HIDE DEF m
      <3>3. AgreeTo(k, h, g)
        BY <2>2, <3>1, <3>2, JoinsAgree
      <3> QED BY <3>3 DEF AgreeTo
    <2>4. FlattenSeq(s) = FlattenSeq(t) \o s[k + 1]
      BY <1>1, <1>2, <2>1, <2>2, <2>3
    <2>5. \A q, r \in Seq(S) : q \o r \in Seq(S)
      OBVIOUS
    <2> QED BY <1>3, <2>4, <2>5
  <1> QED BY <1>4, <1>5

-----------------------------------------------------------------------------
(***************************************************************************)
(* What the first units of a device mean to its driver.                    *)
(***************************************************************************)
UnitsOf(src) == IF src = "kbd" THEN Codes ELSE IF src = "aux" THEN Packets ELSE {}
Meant(src, us, k) == FlattenSeq([i \in 1 .. k |-> Meaning(src, us[i])])
Meanings == Byte \cup Triples

LEMMA MeaningType ==
  ASSUME NEW src \in Sources, NEW u \in UnitsOf(src) PROVE Meaning(src, u) \in Seq(Meanings)
  <1>0. \A x \in Meanings : <<x>> \in Seq(Meanings)
    OBVIOUS
  <1>1. <<>> \in Seq(Meanings)
    OBVIOUS
  <1>2. CASE src = "kbd"
    <2> DEFINE key == IF u.ext THEN i8042_ExtKeyTable(u.scan) ELSE i8042_KeyTable(u.scan)
               code == IF u.rel THEN key + KEY_RELEASE ELSE key
    <2>1. u.scan \in Byte
      BY <1>2, I8042Assumption DEF UnitsOf
    <2>2. key \in KeyCodes
      BY <2>1, KeyByte
    <2> HIDE DEF key
    <2>3. code \in Byte
      BY <2>1, <2>2, KeyByte
    <2>4. Meaning(src, u) = IF key = KEY_UNKNOWN THEN <<>> ELSE <<code>>
      BY <1>2 DEF Meaning, key
    <2> HIDE DEF code
    <2>5. code \in Meanings
      BY <2>3 DEF Meanings
    <2> QED BY <1>0, <1>1, <2>4, <2>5
  <1>3. CASE src # "kbd"
    <2>1. u \in Triples
      BY <1>3, I8042Assumption DEF UnitsOf, Triples
    <2>2. u \in Meanings
      BY <2>1 DEF Meanings
    <2>3. Meaning(src, u) = IF ValidStatus(u[1]) THEN <<u>> ELSE <<>>
      BY <1>3 DEF Meaning
    <2> HIDE DEF Meanings
    <2> QED BY <1>0, <1>1, <2>2, <2>3
  <1> QED BY <1>2, <1>3

LEMMA MeantNone == ASSUME NEW src, NEW us PROVE Meant(src, us, 0) = <<>>
  <1>1. [i \in 1 .. 0 |-> Meaning(src, us[i])] = <<>>
    OBVIOUS
  <1> QED BY <1>1, FlattenNone DEF Meant

\* Only the units named matter.
LEMMA MeantSame ==
  ASSUME NEW src, NEW us, NEW vs, NEW k \in Nat, \A i \in 1 .. k : us[i] = vs[i]
  PROVE  Meant(src, us, k) = Meant(src, vs, k)
  <1>1. [i \in 1 .. k |-> Meaning(src, us[i])] = [i \in 1 .. k |-> Meaning(src, vs[i])]
    OBVIOUS
  <1> QED BY <1>1 DEF Meant

MeantGrows(src, us, k) ==
  Meant(src, us, k + 1) = Meant(src, us, k) \o Meaning(src, us[k + 1])

LEMMA MeantNext ==
  ASSUME NEW src \in Sources, NEW us \in Seq(UnitsOf(src)), NEW k \in Nat, k < Len(us),
         Meant(src, us, k) \in Seq(Meanings)
  PROVE  MeantGrows(src, us, k) /\ Meant(src, us, k + 1) \in Seq(Meanings)
  <1> DEFINE s == [i \in 1 .. k + 1 |-> Meaning(src, us[i])]
             t == [i \in 1 .. k |-> Meaning(src, us[i])]
  <1>1. \A i \in 1 .. k + 1 : us[i] \in UnitsOf(src)
    <2>1. \A i \in 1 .. k + 1 : i \in 1 .. Len(us)
      BY LenProperties
    <2> QED BY <2>1, ElementOfSeq
  <1>2. \A i \in 1 .. k + 1 : Meaning(src, us[i]) \in Seq(Meanings)
    BY <1>1, MeaningType
  <1>3. s \in [1 .. k + 1 -> Seq(Meanings)] /\ t \in [1 .. k -> Seq(Meanings)]
    BY <1>2
  <1>4. (\A i \in 1 .. k : t[i] = s[i]) /\ s[k + 1] = Meaning(src, us[k + 1])
    OBVIOUS
  <1>5. FlattenSeq(t) \in Seq(Meanings)
    BY DEF Meant
  <1> HIDE DEF s, t
  <1>6. FlattenSeq(s) = FlattenSeq(t) \o s[k + 1] /\ FlattenSeq(s) \in Seq(Meanings)
    BY <1>3, <1>4, <1>5, FlattenNext
  <1>7. Meant(src, us, k + 1) = FlattenSeq(s) /\ Meant(src, us, k) = FlattenSeq(t)
    BY DEF Meant, s, t
  <1> QED BY <1>4, <1>6, <1>7 DEF MeantGrows

LEMMA MeantType ==
  ASSUME NEW src \in Sources, NEW us \in Seq(UnitsOf(src)), NEW k \in Nat, k <= Len(us)
  PROVE  Meant(src, us, k) \in Seq(Meanings)
  <1> DEFINE bad == {m \in 0 .. k : Meant(src, us, m) \notin Seq(Meanings)}
  <1> SUFFICES ASSUME bad # {} PROVE FALSE
    OBVIOUS
  <1>1. bad \in SUBSET Nat
    OBVIOUS
  <1> HIDE DEF bad
  <1>2. PICK m \in bad : \A l \in bad : m <= l
    BY <1>1, NatLeast
  <1>3. m \in 0 .. k /\ Meant(src, us, m) \notin Seq(Meanings)
    BY <1>2 DEF bad
  <1>4. m # 0
    <2>1. <<>> \in Seq(Meanings)
      OBVIOUS
    <2> QED BY <1>3, <2>1, MeantNone
  <1>5. Len(us) \in Nat
    BY LenProperties
  <1>6. m - 1 \in 0 .. k /\ ~ (m <= m - 1) /\ m - 1 \in Nat /\ m - 1 < Len(us) /\ (m - 1) + 1 = m
    BY <1>3, <1>4, <1>5
  <1>7. Meant(src, us, m - 1) \in Seq(Meanings)
    BY <1>2, <1>6 DEF bad
  <1>8. Meant(src, us, (m - 1) + 1) \in Seq(Meanings)
    BY <1>6, <1>7, MeantNext
  <1> QED BY <1>3, <1>6, <1>8

LEMMA PrefixOfLonger ==
  ASSUME NEW S, NEW a \in Seq(S), NEW b \in Seq(S), NEW c \in Seq(S), IsPrefix(a, b)
  PROVE  IsPrefix(a, b \o c)
  <1>1. Len(a) \in Nat /\ Len(b) \in Nat /\ Len(c) \in Nat
    OBVIOUS
  <1>2. Len(a) <= Len(b) /\ SubSeq(a, 1, Len(a)) = SubSeq(b, 1, Len(a))
    BY DEF IsPrefix
  <1>3. Len(b \o c) = Len(b) + Len(c) /\ \A i \in 1 .. Len(b) : (b \o c)[i] = b[i]
    OBVIOUS
  <1>4. SubSeq(b \o c, 1, Len(a)) = SubSeq(b, 1, Len(a))
    <2>1. \A i \in 1 .. Len(a) : (b \o c)[i] = b[i]
      BY <1>1, <1>2, <1>3
    <2> QED BY <1>1, <1>2, <1>3, <2>1
  <1>5. Len(a) <= Len(b \o c)
    BY <1>1, <1>2, <1>3
  <1> QED BY <1>2, <1>4, <1>5 DEF IsPrefix

LEMMA MeantPrefix ==
  ASSUME NEW src \in Sources, NEW us \in Seq(UnitsOf(src)), NEW k \in Nat, k <= Len(us)
  PROVE  IsPrefix(Meant(src, us, k), Meant(src, us, Len(us)))
  <1>0. Len(us) \in Nat
    BY LenProperties
  <1> DEFINE bad == {m \in k .. Len(us) : ~ IsPrefix(Meant(src, us, k), Meant(src, us, m))}
  <1> SUFFICES ASSUME bad # {} PROVE FALSE
    BY <1>0
  <1>1. bad \in SUBSET Nat
    BY <1>0
  <1> HIDE DEF bad
  <1>2. PICK m \in bad : \A l \in bad : m <= l
    BY <1>1, NatLeast
  <1>3. m \in k .. Len(us) /\ ~ IsPrefix(Meant(src, us, k), Meant(src, us, m))
    BY <1>2 DEF bad
  <1>4. Meant(src, us, k) \in Seq(Meanings)
    BY MeantType
  <1>5. m # k
    <2>1. IsPrefix(Meant(src, us, k), Meant(src, us, k))
      <3> DEFINE a == Meant(src, us, k)
      <3>1. a \in Seq(Meanings)
        BY <1>4
      <3> HIDE DEF a
      <3>2. Len(a) \in Nat
        BY <3>1
      <3>3. IsPrefix(a, a)
        BY <3>2 DEF IsPrefix
      <3> QED BY <3>3 DEF a
    <2> QED BY <1>3, <2>1
  <1>6. /\ m - 1 \in k .. Len(us) /\ ~ (m <= m - 1) /\ m - 1 \in Nat /\ m - 1 < Len(us)
        /\ m - 1 <= Len(us) /\ (m - 1) + 1 = m /\ m \in 1 .. Len(us)
    BY <1>0, <1>3, <1>5
  <1>7. IsPrefix(Meant(src, us, k), Meant(src, us, m - 1))
    BY <1>2, <1>6 DEF bad
  <1>8. Meant(src, us, m - 1) \in Seq(Meanings)
    BY <1>6, MeantType
  <1>9. MeantGrows(src, us, m - 1)
    BY <1>6, <1>8, MeantNext
  <1>10. Meant(src, us, m) = Meant(src, us, m - 1) \o Meaning(src, us[m])
    BY <1>6, <1>9 DEF MeantGrows
  <1>11. Meaning(src, us[m]) \in Seq(Meanings)
    BY <1>6, ElementOfSeq, MeaningType
  <1>12. IsPrefix(Meant(src, us, k), Meant(src, us, m - 1) \o Meaning(src, us[m]))
    BY <1>4, <1>7, <1>8, <1>11, PrefixOfLonger
  <1> QED BY <1>3, <1>10, <1>12

-----------------------------------------------------------------------------
(***************************************************************************)
(* What is on its way from a device: bytes F, those of units us from the   *)
(* (j+1)st byte of the (k+1)st unit on, to the end.  Bytes of no unit may  *)
(* come before the first.  off says which byte of its unit each one is.    *)
(***************************************************************************)
Wire(src, u) == IF src = "kbd" THEN KeyBytes(u) ELSE u
Size(src, u) == Len(Wire(src, u))

Follows(src, us, a, x, b, y) ==
  IF a = 0 THEN b = 0 \/ (b = 1 /\ y = 1)
  ELSE IF x < Size(src, us[a]) THEN b = a /\ y = x + 1 ELSE b = a + 1 /\ y = 1

PlacedAt(src, us, F, off, m) ==
  /\ F[m].src = src
  /\ F[m].unit \in 0 .. Len(us)
  /\ F[m].unit # 0 => /\ off[m] \in 1 .. Size(src, us[F[m].unit])
                      /\ F[m].byte = Wire(src, us[F[m].unit])[off[m]]
  /\ m < Len(F) => Follows(src, us, F[m].unit, off[m], F[m + 1].unit, off[m + 1])

Placed(src, us, F, off) == \A m \in 1 .. Len(F) : PlacedAt(src, us, F, off, m)

Begins(F, off, k, j) ==
  F # <<>> => (F[1].unit = 0 /\ k = 0 /\ j = 0) \/ (F[1].unit = k + 1 /\ off[1] = j + 1)

Ends(src, us, F, off, k, j) ==
  /\ F = <<>> => k = Len(us) /\ j = 0
  /\ F # <<>> => /\ F[Len(F)].unit = Len(us)
                 /\ Len(us) # 0 => off[Len(F)] = Size(src, us[Len(us)])

Stream(src, us, F, k, j) ==
  \E off \in [1 .. Len(F) -> Nat] :
    Placed(src, us, F, off) /\ Begins(F, off, k, j) /\ Ends(src, us, F, off, k, j)

Way(src) == (IF obuf.src = src THEN <<obuf>> ELSE <<>>) \o pending[src]

LEMMA WireType ==
  ASSUME NEW src \in Sources, NEW u \in UnitsOf(src)
  PROVE  Wire(src, u) \in Seq(Byte) /\ Size(src, u) \in Nat \ {0}
  <1>1. CASE src = "kbd"
    <2>1. u \in Codes /\ Wire(src, u) = KeyBytes(u)
      BY <1>1 DEF UnitsOf, Wire
    <2>2. KeyBytes(u) \in Seq(Byte)
      BY <2>1, KeyBytesType
    <2>3. Len(KeyBytes(u)) \in Nat \ {0}
      <3> DEFINE a == (IF u.ext THEN <<I8042_KEY_EXTENDED>> ELSE <<>>)
                      \o (IF u.rel THEN <<I8042_KEY_RELEASE>> ELSE <<>>)
                 b == <<u.scan>>
      <3>1. u.scan \in Byte
        BY <2>1, I8042Assumption
      <3>2. a \in Seq(Byte)
        <4>1. <<I8042_KEY_EXTENDED>> \in Seq(Byte) /\ <<I8042_KEY_RELEASE>> \in Seq(Byte) /\ <<>> \in Seq(Byte)
          BY DEF I8042_KEY_EXTENDED, I8042_KEY_RELEASE, Byte
        <4>2. \A q, r \in Seq(Byte) : q \o r \in Seq(Byte)
          OBVIOUS
        <4> QED BY <4>1, <4>2
      <3>3. b \in Seq(Byte) /\ Len(b) = 1
        BY <3>1
      <3>4. KeyBytes(u) = a \o b
        BY DEF KeyBytes
      <3> HIDE DEF a, b
      <3>5. Len(a \o b) = Len(a) + Len(b) /\ Len(a) \in Nat
        <4>1. b \in Seq(Byte)
          BY <3>3
        <4> QED BY <3>2, <4>1, ConcatProperties
      <3> QED BY <3>3, <3>4, <3>5
    <2> QED BY <2>1, <2>2, <2>3 DEF Size
  <1>2. CASE src # "kbd"
    <2>1. u \in Packets /\ Wire(src, u) = u
      BY <1>2 DEF UnitsOf, Wire
    <2>2. u \in Seq(Byte)
      BY <2>1, PacketType
    <2>3. Len(u) = 3
      <3>1. u \in Byte \X Byte \X Byte
        BY <2>1, I8042Assumption
      <3> QED BY <3>1
    <2> QED BY <2>1, <2>2, <2>3 DEF Size
  <1> QED BY <1>1, <1>2

\* The first byte of the stream, if it is one of a unit.
HeadIs(src, us, F, k, j) ==
  /\ F[1].src = src /\ F[1].unit = k + 1 /\ k + 1 \in 1 .. Len(us)
  /\ j + 1 \in 1 .. Size(src, us[k + 1])
  /\ F[1].byte = Wire(src, us[k + 1])[j + 1]

LEMMA StreamHead ==
  ASSUME NEW src \in Sources, NEW us \in Seq(UnitsOf(src)), NEW F \in Seq(PortBytes),
         NEW k \in Nat, NEW j \in Nat, Stream(src, us, F, k, j), F # <<>>, F[1].unit # 0
  PROVE  HeadIs(src, us, F, k, j)
  <1>1. PICK off \in [1 .. Len(F) -> Nat] : Placed(src, us, F, off) /\ Begins(F, off, k, j)
    BY DEF Stream
  <1>2. Len(us) \in Nat /\ Len(F) \in Nat /\ 1 \in 1 .. Len(F)
    OBVIOUS
  <1>3. F[1].unit = k + 1 /\ off[1] = j + 1
    BY <1>1 DEF Begins
  <1>4. PlacedAt(src, us, F, off, 1)
    BY <1>1, <1>2 DEF Placed
  <1> QED BY <1>2, <1>3, <1>4 DEF PlacedAt, HeadIs

\* The rest of the stream, when that byte has been read.
RestIs(src, us, F, k, j) ==
  /\ j + 1 < Size(src, us[k + 1]) => Stream(src, us, Tail(F), k, j + 1)
  /\ j + 1 = Size(src, us[k + 1]) => Stream(src, us, Tail(F), k + 1, 0)

LEMMA StreamRest ==
  ASSUME NEW src \in Sources, NEW us \in Seq(UnitsOf(src)), NEW F \in Seq(PortBytes),
         NEW k \in Nat, NEW j \in Nat, Stream(src, us, F, k, j), F # <<>>, F[1].unit # 0
  PROVE  RestIs(src, us, F, k, j)
  <1>1. PICK off \in [1 .. Len(F) -> Nat] :
          Placed(src, us, F, off) /\ Begins(F, off, k, j) /\ Ends(src, us, F, off, k, j)
    BY DEF Stream
  <1>2. HeadIs(src, us, F, k, j)
    BY StreamHead
  <1> DEFINE n == Len(F)
             T == Tail(F)
             rest == [m \in 1 .. (n - 1) |-> off[m + 1]]
  <1>3. /\ n \in Nat \ {0} /\ 1 \in 1 .. n /\ Len(us) \in Nat
        /\ T \in Seq(PortBytes) /\ Len(T) = n - 1 /\ \A m \in 1 .. (n - 1) : T[m] = F[m + 1]
    OBVIOUS
  <1>4. rest \in [1 .. Len(T) -> Nat] /\ \A m \in 1 .. (n - 1) : rest[m] = off[m + 1]
    BY <1>3
  <1>5. F[1].unit = k + 1 /\ off[1] = j + 1
    BY <1>1 DEF Begins
  <1> HIDE DEF n, T, rest
  <1>6. Placed(src, us, T, rest)
    <2> SUFFICES ASSUME NEW m \in 1 .. (n - 1) PROVE PlacedAt(src, us, T, rest, m)
      BY <1>3 DEF Placed
    <2>1. m + 1 \in 1 .. n /\ T[m] = F[m + 1] /\ rest[m] = off[m + 1]
      BY <1>3, <1>4
    <2>2. PlacedAt(src, us, F, off, m + 1)
      BY <1>1, <2>1 DEF Placed, n
    <2>3. ASSUME m < n - 1
          PROVE  m + 1 < n /\ T[m + 1] = F[(m + 1) + 1] /\ rest[m + 1] = off[(m + 1) + 1]
      <3> DEFINE l == m + 1
      <3>1. l \in 1 .. (n - 1) /\ l < n
        BY <1>3, <2>3
      <3> HIDE DEF l
      <3>2. T[l] = F[l + 1] /\ rest[l] = off[l + 1]
        BY <1>3, <1>4, <3>1
      <3> QED BY <3>1, <3>2 DEF l
    <2>4. m < Len(T) => Follows(src, us, T[m].unit, rest[m], T[m + 1].unit, rest[m + 1])
      BY <1>3, <2>1, <2>2, <2>3 DEF PlacedAt, n
    <2> QED BY <2>1, <2>2, <2>4 DEF PlacedAt
  <1>7. Size(src, us[k + 1]) \in Nat
    <2>1. us[k + 1] \in UnitsOf(src)
      BY <1>2, ElementOfSeq DEF HeadIs
    <2> QED BY <2>1, WireType
  <1>8. T # <<>> =>
          /\ j + 1 < Size(src, us[k + 1]) => T[1].unit = k + 1 /\ rest[1] = j + 2
          /\ j + 1 = Size(src, us[k + 1]) => T[1].unit = k + 2 /\ rest[1] = 1
    <2> SUFFICES ASSUME T # <<>>
                 PROVE  /\ j + 1 < Size(src, us[k + 1]) => T[1].unit = k + 1 /\ rest[1] = j + 2
                        /\ j + 1 = Size(src, us[k + 1]) => T[1].unit = k + 2 /\ rest[1] = 1
      OBVIOUS
    <2>1. 1 \in 1 .. (n - 1) /\ 1 < n
      BY <1>3
    <2>2. PlacedAt(src, us, F, off, 1)
      BY <1>1, <1>3 DEF Placed, n
    <2>3. Follows(src, us, k + 1, j + 1, F[1 + 1].unit, off[1 + 1])
      BY <1>5, <2>1, <2>2 DEF PlacedAt, n
    <2>4. T[1] = F[1 + 1] /\ rest[1] = off[1 + 1]
      BY <1>3, <1>4, <2>1
    <2>5. k + 1 # 0
      OBVIOUS
    <2> QED BY <1>7, <2>3, <2>4, <2>5 DEF Follows
  <1>9. T # <<>> => /\ T[Len(T)].unit = Len(us)
                    /\ Len(us) # 0 => rest[Len(T)] = Size(src, us[Len(us)])
    <2> SUFFICES ASSUME T # <<>>
                 PROVE  /\ T[Len(T)].unit = Len(us)
                        /\ Len(us) # 0 => rest[Len(T)] = Size(src, us[Len(us)])
      OBVIOUS
    <2>1. Len(T) \in 1 .. (n - 1) /\ Len(T) + 1 = n
      BY <1>3
    <2>2. T[Len(T)] = F[n] /\ rest[Len(T)] = off[n]
      BY <1>3, <1>4, <2>1
    <2> QED BY <1>1, <2>2 DEF Ends, n
  <1>10. T = <<>> => k + 1 = Len(us) /\ j + 1 = Size(src, us[k + 1])
    <2> SUFFICES ASSUME T = <<>> PROVE k + 1 = Len(us) /\ j + 1 = Size(src, us[k + 1])
      OBVIOUS
    <2>1. n = 1
      BY <1>3
    <2>2. F[1].unit = Len(us) /\ (Len(us) # 0 => off[1] = Size(src, us[Len(us)]))
      BY <1>1, <2>1 DEF Ends, n
    <2> QED BY <1>3, <1>5, <2>2
  <1>11. ASSUME j + 1 < Size(src, us[k + 1]) PROVE Stream(src, us, T, k, j + 1)
    <2>1. T # <<>>
      BY <1>7, <1>10, <1>11
    <2>2. Begins(T, rest, k, j + 1)
      BY <1>8, <1>11, <2>1 DEF Begins
    <2>3. Ends(src, us, T, rest, k, j + 1)
      BY <1>9, <2>1 DEF Ends
    <2> QED BY <1>4, <1>6, <2>2, <2>3 DEF Stream
  <1>12. ASSUME j + 1 = Size(src, us[k + 1]) PROVE Stream(src, us, T, k + 1, 0)
    <2>1. Begins(T, rest, k + 1, 0)
      BY <1>8, <1>12 DEF Begins
    <2>2. Ends(src, us, T, rest, k + 1, 0)
      BY <1>9, <1>10 DEF Ends
    <2> QED BY <1>4, <1>6, <2>1, <2>2 DEF Stream
  <1> QED BY <1>11, <1>12 DEF RestIs, T

LEMMA UnitsAt ==
  ASSUME NEW src \in Sources, NEW bytes \in Seq(Byte), NEW n \in Nat
  PROVE  /\ Units(src, bytes, n) \in Seq(PortBytes) /\ Len(Units(src, bytes, n)) = Len(bytes)
         /\ \A i \in 1 .. Len(bytes) :
              /\ Units(src, bytes, n)[i].src = src /\ Units(src, bytes, n)[i].unit = n
              /\ Units(src, bytes, n)[i].byte = bytes[i]
  <1> DEFINE u == Units(src, bytes, n)
             m == Len(bytes)
  <1>1. m \in Nat /\ DOMAIN bytes = 1 .. m
    OBVIOUS
  <1>2. u = [i \in 1 .. m |-> [src |-> src, byte |-> bytes[i], unit |-> n]]
    BY <1>1 DEF Units
  <1>3. u \in Seq(PortBytes)
    BY UnitsType
  <1>4. DOMAIN u = 1 .. m
    BY <1>2
  <1>5. Len(u) = m
    BY <1>1, <1>3, <1>4, LenProperties
  <1> QED BY <1>2, <1>3, <1>5

\* A unit that is sent goes to the end of the stream.
Longer(src, us, F, u) == F \o Units(src, Wire(src, u), Len(us) + 1)

LEMMA StreamSend ==
  ASSUME NEW src \in Sources, NEW us \in Seq(UnitsOf(src)), NEW u \in UnitsOf(src),
         NEW F \in Seq(PortBytes), NEW k \in Nat, NEW j \in Nat, Stream(src, us, F, k, j)
  PROVE  Stream(src, Append(us, u), Longer(src, us, F, u), k, j)
  <1>1. PICK off \in [1 .. Len(F) -> Nat] :
          Placed(src, us, F, off) /\ Begins(F, off, k, j) /\ Ends(src, us, F, off, k, j)
    BY DEF Stream
  <1> DEFINE n == Len(us)
             f == Len(F)
             w == Wire(src, u)
             z == Len(w)
             U == Units(src, w, n + 1)
             G == F \o U
             vs == Append(us, u)
             go == [m \in 1 .. f + z |-> IF m <= f THEN off[m] ELSE m - f]
  <1>2. n \in Nat /\ f \in Nat /\ n + 1 \in Nat
    OBVIOUS
  <1>3. w \in Seq(Byte) /\ z \in Nat \ {0} /\ z = Size(src, u)
    BY WireType DEF Size
  <1> HIDE DEF w
  <1>4. /\ U \in Seq(PortBytes) /\ Len(U) = z
        /\ \A i \in 1 .. z : U[i].src = src /\ U[i].unit = n + 1 /\ U[i].byte = w[i]
    <2> DEFINE e == n + 1
    <2>1. e \in Nat
      BY <1>2
    <2> HIDE DEF e
    <2>2. /\ Units(src, w, e) \in Seq(PortBytes) /\ Len(Units(src, w, e)) = Len(w)
          /\ \A i \in 1 .. Len(w) :
               /\ Units(src, w, e)[i].src = src /\ Units(src, w, e)[i].unit = e
               /\ Units(src, w, e)[i].byte = w[i]
      BY <1>3, <2>1, UnitsAt
    <2> QED BY <2>2 DEF e
  <1> HIDE DEF U, z
  <1>5. /\ G \in Seq(PortBytes) /\ Len(G) = f + z
        /\ \A m \in 1 .. f + z : G[m] = IF m <= f THEN F[m] ELSE U[m - f]
    BY <1>4, ConcatProperties
  <1>6. /\ vs \in Seq(UnitsOf(src)) /\ Len(vs) = n + 1 /\ vs[n + 1] = u
        /\ \A i \in 1 .. n : vs[i] = us[i]
    BY AppendProperties
  <1>7. /\ go \in [1 .. Len(G) -> Nat]
        /\ \A m \in 1 .. f + z : go[m] = IF m <= f THEN off[m] ELSE m - f
    <2>1. \A m \in 1 .. f + z : m <= f => m \in 1 .. f
      BY <1>2, <1>3
    <2>2. \A m \in 1 .. f + z : m <= f => off[m] \in Nat
      BY <2>1
    <2>3. \A m \in 1 .. f + z : ~ (m <= f) => m - f \in Nat
      BY <1>2, <1>3
    <2> QED BY <1>5, <2>2, <2>3
  <1>8. \A m \in 1 .. f : m \in 1 .. f + z /\ m <= f /\ G[m] = F[m] /\ go[m] = off[m]
    <2>1. \A m \in 1 .. f : m \in 1 .. f + z /\ m <= f
      BY <1>2, <1>3
    <2> QED BY <1>5, <1>7, <2>1
  <1>9. \A i \in 1 .. z : f + i \in 1 .. f + z /\ G[f + i] = U[i] /\ go[f + i] = i
    <2> SUFFICES ASSUME NEW i \in 1 .. z
                 PROVE  f + i \in 1 .. f + z /\ G[f + i] = U[i] /\ go[f + i] = i
      OBVIOUS
    <2>1. f + i \in 1 .. f + z /\ ~ (f + i <= f) /\ (f + i) - f = i
      BY <1>2, <1>3
    <2> QED BY <1>5, <1>7, <2>1
  <1> HIDE DEF n, f, G, vs, go
  <1>10. Placed(src, vs, G, go)
    <2> SUFFICES ASSUME NEW m \in 1 .. f + z PROVE PlacedAt(src, vs, G, go, m)
      BY <1>5 DEF Placed
    <2>1. CASE m \in 1 .. f
      <3>1. PlacedAt(src, us, F, off, m) /\ G[m] = F[m] /\ go[m] = off[m]
        BY <1>1, <1>8, <2>1 DEF Placed, f
      <3>2. F[m].unit \in 0 .. n /\ F[m].src = src
        BY <3>1 DEF PlacedAt, n
      <3>3. F[m].unit # 0 => vs[F[m].unit] = us[F[m].unit]
        BY <1>2, <1>6, <3>2
      <3>4. G[m].unit \in 0 .. Len(vs)
        BY <1>2, <1>6, <3>1, <3>2
      <3>5. CASE m < f
        <4>1. m + 1 \in 1 .. f
          BY <1>2, <2>1, <3>5
        <4>2. G[m + 1] = F[m + 1] /\ go[m + 1] = off[m + 1]
          BY <1>8, <4>1
        <4>3. Follows(src, us, F[m].unit, off[m], F[m + 1].unit, off[m + 1])
          BY <3>1, <3>5 DEF PlacedAt, f
        <4>4. Follows(src, vs, F[m].unit, off[m], F[m + 1].unit, off[m + 1])
          BY <3>3, <4>3 DEF Follows
        <4> QED BY <3>1, <3>2, <3>3, <3>4, <4>2, <4>4 DEF PlacedAt
      <3>6. CASE m = f
        <4>1. 1 \in 1 .. z
          BY <1>3
        <4>2. G[m + 1] = U[1] /\ go[m + 1] = 1 /\ U[1].unit = n + 1
          BY <1>4, <1>9, <3>6, <4>1
        <4>3. F # <<>>
          BY <2>1, <3>6 DEF f
        <4>4. F[m].unit = n /\ (n # 0 => off[m] = Size(src, us[n]))
          BY <1>1, <3>6, <4>3 DEF Ends, f, n
        <4>5. ASSUME n # 0 PROVE ~ (off[m] < Size(src, vs[n]))
          <5>1. n \in 1 .. n
            BY <1>2, <4>5
          <5>2. us[n] \in UnitsOf(src)
            BY <5>1, ElementOfSeq DEF n
          <5>3. Size(src, us[n]) \in Nat
            BY <5>2, WireType
          <5>4. off[m] = Size(src, vs[n])
            BY <1>6, <4>4, <4>5, <5>1
          <5>5. vs[n] = us[n]
            BY <1>6, <5>1
          <5> QED BY <5>3, <5>4, <5>5
        <4>6. Follows(src, vs, F[m].unit, off[m], G[m + 1].unit, go[m + 1])
          BY <1>2, <4>2, <4>4, <4>5 DEF Follows
        <4> QED BY <3>1, <3>2, <3>3, <3>4, <4>6 DEF PlacedAt
      <3> QED BY <1>2, <2>1, <3>5, <3>6
    <2>2. CASE m \notin 1 .. f
      <3>1. PICK i \in 1 .. z : m = f + i
        <4>1. m - f \in 1 .. z /\ m = f + (m - f)
          BY <1>2, <1>3, <2>2
        <4> QED BY <4>1
      <3>2. /\ G[m] = U[i] /\ go[m] = i /\ U[i].src = src /\ U[i].unit = n + 1 /\ U[i].byte = w[i]
        BY <1>4, <1>9, <3>1
      <3>3. n + 1 # 0 /\ n + 1 \in 0 .. Len(vs)
        BY <1>2, <1>6
      <3>4. Size(src, vs[n + 1]) = z /\ Wire(src, vs[n + 1]) = w
        BY <1>3, <1>6 DEF w
      <3>5. m < Len(G) => Follows(src, vs, G[m].unit, go[m], G[m + 1].unit, go[m + 1])
        <4> SUFFICES ASSUME m < Len(G)
                     PROVE  Follows(src, vs, G[m].unit, go[m], G[m + 1].unit, go[m + 1])
          OBVIOUS
        <4>1. i + 1 \in 1 .. z /\ i < z /\ m + 1 = f + (i + 1)
          <5>1. m < f + z /\ z \in Nat
            BY <1>3, <1>5
          <5> QED BY <1>2, <3>1, <5>1
        <4>2. G[m + 1] = U[i + 1] /\ go[m + 1] = i + 1 /\ U[i + 1].unit = n + 1
          BY <1>4, <1>9, <4>1
        <4> QED BY <3>2, <3>3, <3>4, <4>1, <4>2 DEF Follows
      <3> QED BY <3>2, <3>3, <3>4, <3>5 DEF PlacedAt
    <2> QED BY <2>1, <2>2
  <1>11. Begins(G, go, k, j)
    <2>1. CASE F = <<>>
      <3>1. f = 0 /\ k = n /\ j = 0 /\ 1 \in 1 .. z
        BY <1>1, <1>3, <2>1 DEF Ends, f, n
      <3>2. G[1] = U[1] /\ go[1] = 1 /\ U[1].unit = n + 1
        BY <1>4, <1>9, <3>1
      <3> QED BY <3>1, <3>2 DEF Begins
    <2>2. CASE F # <<>>
      <3>1. 1 \in 1 .. f
        BY <2>2 DEF f
      <3>2. G[1] = F[1] /\ go[1] = off[1]
        BY <1>8, <3>1
      <3> QED BY <1>1, <2>2, <3>2 DEF Begins
    <2> QED BY <2>1, <2>2
  <1>12. Ends(src, vs, G, go, k, j)
    <2>1. z \in 1 .. z /\ f + z # 0
      BY <1>2, <1>3
    <2>2. G # <<>>
      BY <1>5, <2>1
    <2>3. G[f + z] = U[z] /\ go[f + z] = z /\ U[z].unit = n + 1
      BY <1>4, <1>9, <2>1
    <2> QED BY <1>3, <1>5, <1>6, <2>2, <2>3 DEF Ends
  <1>13. Stream(src, vs, G, k, j)
    BY <1>7, <1>10, <1>11, <1>12 DEF Stream
  <1> QED BY <1>13 DEF vs, G, U, w, n, Longer

\* Before the first unit there are only bytes of none.
NoneYet(src, F) == \A m \in 1 .. Len(F) : F[m].src = src /\ F[m].unit = 0

LEMMA StreamNone ==
  ASSUME NEW src \in Sources, NEW F \in Seq(PortBytes), NoneYet(src, F)
  PROVE  Stream(src, <<>>, F, 0, 0)
  <1> DEFINE off == [m \in 1 .. Len(F) |-> 0]
  <1>1. Len(F) \in Nat /\ off \in [1 .. Len(F) -> Nat] /\ Len(<<>>) = 0
    OBVIOUS
  <1> HIDE DEF off
  <1>2. Placed(src, <<>>, F, off)
    <2> SUFFICES ASSUME NEW m \in 1 .. Len(F) PROVE PlacedAt(src, <<>>, F, off, m)
      BY DEF Placed
    <2>1. F[m].src = src /\ F[m].unit = 0
      BY DEF NoneYet
    <2>2. m < Len(F) => F[m + 1].unit = 0
      BY <1>1 DEF NoneYet
    <2> QED BY <1>1, <2>1, <2>2 DEF PlacedAt, Follows
  <1>3. F # <<>> => F[1].unit = 0 /\ F[Len(F)].unit = 0
    BY <1>1 DEF NoneYet
  <1>4. Begins(F, off, 0, 0) /\ Ends(src, <<>>, F, off, 0, 0)
    BY <1>1, <1>3 DEF Begins, Ends
  <1> QED BY <1>1, <1>2, <1>4 DEF Stream

LEMMA StreamOfNone ==
  ASSUME NEW src, NEW F \in Seq(PortBytes), NEW k, NEW j, Stream(src, <<>>, F, k, j)
  PROVE  NoneYet(src, F)
  <1>1. Len(<<>>) = 0
    OBVIOUS
  <1> QED BY <1>1 DEF Stream, Placed, PlacedAt, NoneYet

LEMMA StreamSource ==
  ASSUME NEW src, NEW us, NEW F \in Seq(PortBytes), NEW k, NEW j, Stream(src, us, F, k, j), F # <<>>
  PROVE  F[1].src = src
  <1>1. 1 \in 1 .. Len(F)
    OBVIOUS
  <1> QED BY <1>1 DEF Stream, Placed, PlacedAt

-----------------------------------------------------------------------------
(* The driver in the middle of a unit. *)

\* The j-th byte of a key: a prefix, or the scan code when all of them came.
KeyAt(c, j) ==
  \/ /\ Wire("kbd", c)[j] = I8042_KEY_EXTENDED
     /\ c.ext /\ j = 1 /\ j < Size("kbd", c)
  \/ /\ Wire("kbd", c)[j] = I8042_KEY_RELEASE
     /\ c.rel /\ j = (IF c.ext THEN 2 ELSE 1) /\ j < Size("kbd", c)
  \/ /\ Wire("kbd", c)[j] = c.scan /\ j = Size("kbd", c)
     /\ j = (IF c.ext THEN (IF c.rel THEN 3 ELSE 2) ELSE (IF c.rel THEN 2 ELSE 1))

LEMMA KeyBytesAt ==
  ASSUME NEW c \in Codes, NEW j \in 1 .. Size("kbd", c)
  PROVE  KeyAt(c, j)
  <1> DEFINE P == IF c.ext THEN <<I8042_KEY_EXTENDED>> ELSE <<>>
             Q == IF c.rel THEN <<I8042_KEY_RELEASE>> ELSE <<>>
             R == <<c.scan>>
             p == IF c.ext THEN 1 ELSE 0
             q == IF c.rel THEN 1 ELSE 0
  <1>1. c.scan \in Byte /\ c.ext \in BOOLEAN /\ c.rel \in BOOLEAN
    BY I8042Assumption
  <1>2. I8042_KEY_EXTENDED \in Byte /\ I8042_KEY_RELEASE \in Byte
    BY DEF I8042_KEY_EXTENDED, I8042_KEY_RELEASE, Byte
  <1>3. \A b \in Byte : <<b>> \in Seq(Byte) /\ Len(<<b>>) = 1 /\ <<b>>[1] = b
    OBVIOUS
  <1>4. <<>> \in Seq(Byte) /\ Len(<<>>) = 0
    OBVIOUS
  <1>5. P \in Seq(Byte) /\ Len(P) = p /\ (c.ext => P[1] = I8042_KEY_EXTENDED)
    BY <1>1, <1>2, <1>3, <1>4
  <1>6. Q \in Seq(Byte) /\ Len(Q) = q /\ (c.rel => Q[1] = I8042_KEY_RELEASE)
    BY <1>1, <1>2, <1>3, <1>4
  <1>7. R \in Seq(Byte) /\ Len(R) = 1 /\ R[1] = c.scan
    BY <1>1, <1>3
  <1>8. Wire("kbd", c) = (P \o Q) \o R
    BY DEF Wire, KeyBytes
  <1>9. p \in {0, 1} /\ q \in {0, 1}
    OBVIOUS
  <1> HIDE DEF P, Q, R
  <1>10. /\ P \o Q \in Seq(Byte) /\ Len(P \o Q) = Len(P) + Len(Q)
         /\ \A i \in 1 .. Len(P) + Len(Q) : (P \o Q)[i] = IF i <= Len(P) THEN P[i] ELSE Q[i - Len(P)]
    BY <1>5, <1>6, ConcatProperties
  <1> DEFINE PQ == P \o Q
  <1>11. PQ \in Seq(Byte) /\ Len(PQ) = p + q
    BY <1>5, <1>6, <1>10
  <1> HIDE DEF PQ
  <1>12. /\ Len(PQ \o R) = Len(PQ) + Len(R)
         /\ \A i \in 1 .. Len(PQ) + Len(R) : (PQ \o R)[i] = IF i <= Len(PQ) THEN PQ[i] ELSE R[i - Len(PQ)]
    BY <1>7, <1>11, ConcatProperties
  <1> DEFINE W == PQ \o R
  <1>13. /\ Len(W) = p + q + 1
         /\ \A i \in 1 .. p + q + 1 : W[i] = IF i <= p + q THEN PQ[i] ELSE R[i - (p + q)]
    BY <1>7, <1>9, <1>11, <1>12
  <1>14. Wire("kbd", c) = W /\ Size("kbd", c) = p + q + 1
    BY <1>8, <1>13 DEF Size, PQ
  <1>15. \A i \in 1 .. p + q : PQ[i] = IF i <= p THEN P[i] ELSE Q[i - p]
    BY <1>5, <1>6, <1>10 DEF PQ
  <1> HIDE DEF W
  <1>16. CASE j = p + q + 1
    <2>1. W[j] = R[1]
      BY <1>9, <1>13, <1>16
    <2>2. Wire("kbd", c)[j] = c.scan
      BY <1>7, <1>14, <2>1
    <2>3. j = (IF c.ext THEN (IF c.rel THEN 3 ELSE 2) ELSE (IF c.rel THEN 2 ELSE 1))
      BY <1>1, <1>16
    <2> QED BY <1>14, <1>16, <2>2, <2>3 DEF KeyAt
  <1>17. CASE j \in 1 .. p
    <2>1. c.ext /\ j = 1 /\ p = 1
      BY <1>1, <1>17
    <2>2. W[j] = P[1]
      BY <1>9, <1>13, <1>15, <2>1
    <2>3. Wire("kbd", c)[j] = I8042_KEY_EXTENDED
      BY <1>5, <1>14, <2>1, <2>2
    <2>4. j < Size("kbd", c)
      BY <1>9, <1>14, <2>1
    <2> QED BY <2>1, <2>3, <2>4 DEF KeyAt
  <1>18. CASE j \in p + 1 .. p + q
    <2>1. c.rel /\ j = p + 1 /\ q = 1
      BY <1>1, <1>9, <1>18
    <2>2. W[j] = Q[1]
      <3>1. j \in 1 .. p + q + 1 /\ j \in 1 .. p + q /\ j <= p + q /\ ~ (j <= p) /\ j - p = 1
        BY <1>9, <1>18, <2>1
      <3> QED BY <1>13, <1>15, <3>1
    <2>3. Wire("kbd", c)[j] = I8042_KEY_RELEASE
      BY <1>6, <1>14, <2>1, <2>2
    <2>4. j < Size("kbd", c) /\ j = (IF c.ext THEN 2 ELSE 1)
      BY <1>1, <1>9, <1>14, <2>1
    <2> QED BY <2>1, <2>3, <2>4 DEF KeyAt
  <1> QED BY <1>9, <1>14, <1>16, <1>17, <1>18

\* The flags of the loop over prefixes when j bytes of the key were read.
KeyFlags(c, j) ==
  /\ loc.ext <=> c.ext /\ j >= 1
  /\ loc.rel <=> c.rel /\ j >= (IF c.ext THEN 2 ELSE 1)

\* In the loop over prefixes: nothing is read yet, or all that was read are
\* prefixes of the key begun.
ScanAt(k, j) ==
  LET c == sent["kbd"][k + 1] IN
  \/ j = 0 /\ loc = NoLocals /\ obuf # NoByte
  \/ /\ k < Len(sent["kbd"]) /\ j \in 1 .. Size("kbd", c) - 1
     /\ loc.unit = k + 1 /\ KeyFlags(c, j) /\ last = Wire("kbd", c)[j]

\* After the first byte of a packet, or its second.
PacketAt(k, j) ==
  LET p == sent["aux"][k + 1] IN
  /\ k < Len(sent["aux"]) /\ loc.unit = k + 1 /\ loc.s = p[1]
  /\ IF at = "x" THEN j = 1 ELSE j = 2 /\ loc.x = p[2]

Reader(src, k, j) ==
  IF src = "kbd" /\ at = "scan" THEN ScanAt(k, j)
  ELSE IF src = "aux" /\ at \in {"x", "y"} THEN PacketAt(k, j)
  ELSE j = 0

\* The driver has handed on the first k units, has read j bytes of the next,
\* and the rest is on its way.
Along(src, k, j) ==
  /\ k <= Len(sent[src])
  /\ Stream(src, sent[src], Way(src), k, j)
  /\ Reader(src, k, j)
  /\ got[src] = Meant(src, sent[src], k)

InStep(src) == \E k, j \in Nat : Along(src, k, j)

\* Without a controller nothing is sent and every byte is 255, no status.
NoController ==
  /\ \A src \in Sources : sent[src] = <<>> /\ got[src] = <<>>
  /\ at # "scan"
  /\ at \in {"x", "y"} => loc.s = 255

UnitTypes == \A src \in Sources : sent[src] \in Seq(UnitsOf(src))

UnitsInv ==
  /\ UnitTypes
  /\ ~ machine.ctl => NoController
  /\ machine.ctl /\ "mixed" \notin trouble =>
       /\ at \in InitStages => \A src \in Sources : sent[src] = <<>>
       /\ \A src \in Sources : InStep(src)

LEMMA WayType ==
  ASSUME PipeTypes, NEW src \in Sources
  PROVE  /\ Way(src) \in Seq(PortBytes) /\ pending[src] \in Seq(PortBytes)
         /\ obuf.src = src => obuf \in PortBytes /\ obuf # NoByte /\ Way(src) = <<obuf>> \o pending[src]
         /\ obuf.src # src => Way(src) = pending[src]
  <1>1. pending[src] \in Seq(PortBytes) /\ obuf \in PortBytes \cup {NoByte}
    BY DEF PipeTypes
  <1>2. obuf.src = src => obuf \in PortBytes /\ obuf # NoByte
    BY <1>1 DEF NoByte, Sources
  <1>3. \A b \in PortBytes : <<b>> \in Seq(PortBytes)
    OBVIOUS
  <1>4. <<>> \o pending[src] = pending[src]
    BY <1>1
  <1>5. \A q, r \in Seq(PortBytes) : q \o r \in Seq(PortBytes)
    OBVIOUS
  <1> QED BY <1>1, <1>2, <1>3, <1>4, <1>5 DEF Way

LEMMA WayRead ==
  ASSUME PipeTypes, NEW src \in Sources, obuf' = NoByte, pending' = pending
  PROVE  /\ obuf.src = src => /\ Way(src) # <<>> /\ Way(src)[1] = obuf
                              /\ Way(src)' = Tail(Way(src))
         /\ obuf.src # src => Way(src)' = Way(src)
  <1>1. pending[src] \in Seq(PortBytes)
    BY DEF PipeTypes
  <1>2. Way(src)' = pending[src]
    <2>1. obuf'.src # src
      BY DEF NoByte, Sources
    <2>2. <<>> \o pending[src] = pending[src]
      BY <1>1
    <2> QED BY <2>1, <2>2 DEF Way
  <1>3. obuf.src # src => Way(src) = pending[src]
    BY WayType
  <1>4. ASSUME obuf.src = src PROVE Way(src) # <<>> /\ Way(src)[1] = obuf /\ Tail(Way(src)) = pending[src]
    <2> DEFINE q == pending[src]
    <2>1. obuf \in PortBytes /\ q \in Seq(PortBytes) /\ Way(src) = <<obuf>> \o q
      BY <1>4, WayType
    <2> HIDE DEF q
    <2>2. ASSUME NEW b \in PortBytes
          PROVE  <<b>> \o q # <<>> /\ (<<b>> \o q)[1] = b /\ Tail(<<b>> \o q) = q
      <3> DEFINE e == <<b>>
                 r == e \o q
      <3>1. e \in Seq(PortBytes) /\ Len(e) = 1 /\ e[1] = b
        OBVIOUS
      <3> HIDE DEF e
      <3>2. /\ r \in Seq(PortBytes) /\ Len(r) = Len(e) + Len(q)
            /\ \A i \in 1 .. Len(e) + Len(q) : r[i] = IF i <= Len(e) THEN e[i] ELSE q[i - Len(e)]
        BY <2>1, <3>1, ConcatProperties
      <3> HIDE DEF r
      <3>3. Len(q) \in Nat
        BY <2>1
      <3>4. r # <<>> /\ r[1] = b
        BY <3>1, <3>2, <3>3
      <3>5. /\ Tail(r) \in Seq(PortBytes) /\ Len(Tail(r)) = Len(q)
            /\ \A i \in 1 .. Len(q) : Tail(r)[i] = r[i + 1]
        BY <3>1, <3>2, <3>3, <3>4
      <3>6. \A i \in 1 .. Len(q) : r[i + 1] = q[i]
        BY <3>1, <3>2, <3>3
      <3>7. Tail(r) = q
        BY <2>1, <3>5, <3>6
      <3> QED BY <3>4, <3>7 DEF r, e
    <2> QED BY <2>1, <2>2 DEF q
  <1> QED BY <1>2, <1>3, <1>4

\* A byte of a unit is read: it is the next one, and the rest follows.
NextByteIs(src, k, j) ==
  LET u == sent[src][k + 1] IN
  /\ obuf.unit = k + 1 /\ k + 1 \in 1 .. Len(sent[src])
  /\ u \in UnitsOf(src) /\ j + 1 \in 1 .. Size(src, u)
  /\ obuf.byte = Wire(src, u)[j + 1]
  /\ j + 1 < Size(src, u) => Stream(src, sent[src], Way(src)', k, j + 1)
  /\ j + 1 = Size(src, u) => Stream(src, sent[src], Way(src)', k + 1, 0)

LEMMA ReadAlong ==
  ASSUME PipeTypes, UnitTypes, NEW src \in Sources, NEW k \in Nat, NEW j \in Nat,
         Stream(src, sent[src], Way(src), k, j),
         obuf.src = src, obuf.unit # 0, obuf' = NoByte, pending' = pending
  PROVE  NextByteIs(src, k, j)
  <1> DEFINE us == sent[src]
             F == Way(src)
             T == Way(src)'
  <1>1. us \in Seq(UnitsOf(src))
    BY DEF UnitTypes
  <1>2. F \in Seq(PortBytes)
    BY WayType
  <1>3. F # <<>> /\ F[1] = obuf /\ T = Tail(F)
    BY WayRead
  <1>4. Stream(src, us, F, k, j) /\ F[1].unit # 0
    BY <1>3
  <1> HIDE DEF us, F, T
  <1>5. HeadIs(src, us, F, k, j) /\ RestIs(src, us, F, k, j)
    BY <1>1, <1>2, <1>3, <1>4, StreamHead, StreamRest
  <1>6. k + 1 \in 1 .. Len(us)
    BY <1>5 DEF HeadIs
  <1>7. us[k + 1] \in UnitsOf(src)
    BY <1>1, <1>6, ElementOfSeq
  <1>8. /\ obuf.unit = k + 1 /\ j + 1 \in 1 .. Size(src, us[k + 1])
        /\ obuf.byte = Wire(src, us[k + 1])[j + 1]
    BY <1>3, <1>5 DEF HeadIs
  <1>9. /\ j + 1 < Size(src, us[k + 1]) => Stream(src, us, T, k, j + 1)
        /\ j + 1 = Size(src, us[k + 1]) => Stream(src, us, T, k + 1, 0)
    BY <1>3, <1>5 DEF RestIs
  <1> QED BY <1>6, <1>7, <1>8, <1>9 DEF NextByteIs, us, T

-----------------------------------------------------------------------------
(* The steps of the hardware. *)

\* What was sent stays, and more may follow.
Grown(t) ==
  /\ Len(sent[t]) <= Len(sent'[t])
  /\ \A i \in 1 .. Len(sent[t]) : sent'[t][i] = sent[t][i]

\* A step of the hardware leaves the driver where it is.
LEMMA ReaderStays ==
  ASSUME UnitTypes, UnitTypes', NEW src \in Sources, NEW k \in Nat, NEW j \in Nat,
         Reader(src, k, j), UNCHANGED <<at, loc, last>>, obuf' = obuf \/ obuf' # NoByte, Grown(src)
  PROVE  Reader(src, k, j)'
  <1>0. Len(sent[src]) \in Nat /\ Len(sent'[src]) \in Nat
    BY DEF UnitTypes
  <1>1. k < Len(sent[src]) => k < Len(sent'[src]) /\ sent'[src][k + 1] = sent[src][k + 1]
    BY <1>0 DEF Grown
  <1>2. CASE src = "kbd" /\ at = "scan"
    <2>1. ScanAt(k, j)
      BY <1>2 DEF Reader
    <2>2. ScanAt(k, j)'
      <3>1. CASE j = 0 /\ loc = NoLocals /\ obuf # NoByte
        <4>1. (j = 0 /\ loc = NoLocals /\ obuf # NoByte)'
          BY <3>1
        <4> QED BY <4>1 DEF ScanAt
      <3>2. CASE /\ k < Len(sent["kbd"]) /\ j \in 1 .. Size("kbd", sent["kbd"][k + 1]) - 1
                 /\ loc.unit = k + 1 /\ KeyFlags(sent["kbd"][k + 1], j)
                 /\ last = Wire("kbd", sent["kbd"][k + 1])[j]
        <4>1. k < Len(sent'["kbd"]) /\ sent'["kbd"][k + 1] = sent["kbd"][k + 1]
          BY <1>1, <1>2, <3>2
        <4> QED BY <3>2, <4>1 DEF ScanAt, KeyFlags
      <3> QED BY <2>1, <3>1, <3>2 DEF ScanAt
    <2> QED BY <1>2, <2>2 DEF Reader
  <1>3. CASE src = "aux" /\ at \in {"x", "y"}
    <2>1. PacketAt(k, j)
      BY <1>3 DEF Reader
    <2>2. k < Len(sent'["aux"]) /\ sent'["aux"][k + 1] = sent["aux"][k + 1]
      BY <1>1, <1>3, <2>1 DEF PacketAt
    <2>3. PacketAt(k, j)'
      BY <2>1, <2>2 DEF PacketAt
    <2> QED BY <1>3, <2>3 DEF Reader
  <1>4. CASE ~ (src = "kbd" /\ at = "scan") /\ ~ (src = "aux" /\ at \in {"x", "y"})
    BY <1>4 DEF Reader
  <1> QED BY <1>2, <1>3, <1>4

LEMMA FillInStep ==
  ASSUME PipeTypes, UnitTypes, NEW s \in Sources, Fill(s), \A src \in Sources : InStep(src)
  PROVE  UnitTypes' /\ \A src \in Sources : InStep(src)'
  <1>1. /\ obuf = NoByte /\ pending[s] # <<>> /\ obuf' = Head(pending[s])
        /\ pending' = [pending EXCEPT ![s] = Tail(@)]
        /\ UNCHANGED <<at, loc, last, sent, got>>
    BY DEF Fill, drv, ghost
  <1>2. UnitTypes'
    BY <1>1 DEF UnitTypes
  <1>3. NoByte.src \notin Sources
    BY DEF NoByte, Sources
  <1>4. /\ pending \in [Sources -> Seq(PortBytes)] /\ pending[s] \in Seq(PortBytes)
        /\ Way(s) = pending[s]
    BY <1>1, <1>3, WayType DEF PipeTypes
  <1>5. Head(pending[s]).src = s
    <2>1. PICK k, j \in Nat : Along(s, k, j)
      BY DEF InStep
    <2>2. Way(s)[1].src = s
      BY <1>1, <1>4, <2>1, StreamSource DEF Along
    <2> QED BY <1>1, <1>4, <2>2
  <1>6. obuf' # NoByte /\ obuf'.src = s
    BY <1>1, <1>3, <1>5
  <1>7. ASSUME NEW src \in Sources PROVE Way(src)' = Way(src)
    <2>1. CASE src = s
      <3>1. pending'[s] = Tail(pending[s])
        BY <1>1, <1>4
      <3>2. Way(s)' = <<Head(pending[s])>> \o Tail(pending[s])
        BY <1>1, <1>6, <3>1 DEF Way
      <3>3. ASSUME NEW q \in Seq(PortBytes), q # <<>> PROVE <<Head(q)>> \o Tail(q) = q
        BY <3>3
      <3> QED BY <1>1, <1>4, <2>1, <3>2, <3>3
    <2>2. CASE src # s
      <3>1. pending'[src] = pending[src] /\ obuf'.src # src /\ obuf.src # src
        BY <1>1, <1>3, <1>4, <1>6, <2>2
      <3> QED BY <3>1 DEF Way
    <2> QED BY <2>1, <2>2
  <1>8. ASSUME NEW src \in Sources PROVE InStep(src)'
    <2>1. PICK k, j \in Nat : Along(src, k, j)
      BY DEF InStep
    <2>2. Grown(src)
      <3>1. Len(sent[src]) \in Nat
        BY DEF UnitTypes
      <3> QED BY <1>1, <3>1 DEF Grown
    <2>3. Reader(src, k, j)'
      BY <1>1, <1>2, <1>6, <2>1, <2>2, ReaderStays DEF Along
    <2>4. Along(src, k, j)'
      BY <1>1, <1>7, <2>1, <2>3 DEF Along
    <2> QED BY <2>4 DEF InStep
  <1> QED BY <1>2, <1>8

LEMMA EventUnitTypes ==
  ASSUME PipeTypes, UnitTypes, NEW src \in {"kbd", "aux"}, NEW u \in UnitsOf(src), NEW bytes,
         Event(src, u, bytes)
  PROVE  UnitTypes'
  <1> DEFINE old == IF Quiet THEN NoUnits ELSE sent
  <1>1. src \in Sources /\ u \in Codes \cup Packets
    BY DEF Sources, UnitsOf
  <1>2. sent'[src] = Append(old[src], u) /\ \A t \in Sources \ {src} : sent'[t] = old[t]
    BY <1>1, EventSends
  <1>3. \A t \in Sources : old[t] \in Seq(UnitsOf(t))
    BY DEF UnitTypes, NoUnits
  <1> HIDE DEF old
  <1>4. Append(old[src], u) \in Seq(UnitsOf(src))
    BY <1>1, <1>3, AppendProperties
  <1> QED BY <1>1, <1>2, <1>3, <1>4 DEF UnitTypes

\* What a device adds comes after all that is on its way.
LEMMA WayAdd ==
  ASSUME PipeTypes, NEW src \in Sources, NEW U \in Seq(PortBytes),
         obuf' = obuf, pending'[src] = pending[src] \o U
  PROVE  Way(src)' = Way(src) \o U
  <1> DEFINE h == IF obuf.src = src THEN <<obuf>> ELSE <<>>
             q == pending[src]
  <1>1. h \in Seq(PortBytes)
    <2>1. obuf.src = src => obuf \in PortBytes
      BY WayType
    <2>2. \A b \in PortBytes : <<b>> \in Seq(PortBytes)
      OBVIOUS
    <2>3. <<>> \in Seq(PortBytes)
      OBVIOUS
    <2> QED BY <2>1, <2>2, <2>3
  <1>2. q \in Seq(PortBytes)
    BY WayType
  <1>3. Way(src) = h \o q /\ Way(src)' = h \o (q \o U)
    BY DEF Way
  <1> HIDE DEF h, q
  <1>4. h \o (q \o U) = (h \o q) \o U
    BY <1>1, <1>2, ConcatAssociative
  <1> QED BY <1>3, <1>4

\* A unit sent after a quiet moment is the first in the books.
LEMMA EventWhenQuiet ==
  ASSUME PipeTypes, NEW src \in {"kbd", "aux"}, NEW u \in UnitsOf(src),
         Event(src, u, Wire(src, u)), Quiet
  PROVE  \A t \in Sources : InStep(t)'
  <1>1. src \in Sources /\ u \in Codes \cup Packets
    BY DEF Sources, UnitsOf
  <1>2. at = "poll" /\ obuf = NoByte /\ \A t \in Sources : pending[t] = <<>>
    BY DEF Quiet
  <1>3. /\ obuf' = obuf /\ at' = at /\ got' = NoUnits
        /\ pending' = [pending EXCEPT ![src] = @ \o Units(src, Wire(src, u), Len(sent'[src]))]
    BY DEF Event
  <1>4. NoUnits \in [Sources -> {<<>>}] /\ \A t \in Sources : NoUnits[t] = <<>>
    BY DEF NoUnits
  <1>5. /\ sent'[src] = Append(<<>>, u) /\ \A t \in Sources \ {src} : sent'[t] = <<>>
        /\ Len(sent'[src]) = Len(<<>>) + 1
    BY <1>1, <1>4, EventSends
  <1> DEFINE n == Len(<<>>) + 1
             U == Units(src, Wire(src, u), n)
  <1>6. U \in Seq(PortBytes)
    <2>1. n \in Nat
      OBVIOUS
    <2> HIDE DEF n
    <2> QED BY <1>1, <2>1, WireType, UnitsType
  <1>7. pending'[src] = pending[src] \o U /\ \A t \in Sources \ {src} : pending'[t] = pending[t]
    BY <1>1, <1>3, <1>5 DEF PipeTypes
  <1> HIDE DEF U
  <1>8. \A t \in Sources : Way(t) = <<>>
    <2>1. \A t \in Sources : obuf.src # t
      BY <1>2 DEF NoByte, Sources
    <2> QED BY <1>2, <2>1, WayType
  <1>9. ASSUME NEW t \in Sources PROVE Stream(t, <<>>, <<>>, 0, 0)
    <2>1. <<>> \in Seq(PortBytes) /\ Len(<<>>) = 0
      OBVIOUS
    <2>2. NoneYet(t, <<>>)
      BY <2>1 DEF NoneYet
    <2> QED BY <2>1, <2>2, StreamNone
  <1>10. Stream(src, Append(<<>>, u), Longer(src, <<>>, <<>>, u), 0, 0)
    <2>1. <<>> \in Seq(UnitsOf(src)) /\ <<>> \in Seq(PortBytes)
      OBVIOUS
    <2> QED BY <1>1, <1>9, <2>1, StreamSend
  <1>11. Way(src)' = Longer(src, <<>>, <<>>, u)
    <2>1. Way(src)' = Way(src) \o U
      BY <1>1, <1>3, <1>6, <1>7, WayAdd
    <2> QED BY <1>1, <1>8, <2>1 DEF Longer, U
  <1>12. ASSUME NEW t \in Sources PROVE Stream(t, sent'[t], Way(t)', 0, 0)
    <2>1. CASE t = src
      BY <1>5, <1>10, <1>11, <2>1
    <2>2. CASE t # src
      <3>1. Way(t)' = Way(t)
        BY <1>3, <1>7, <2>2 DEF Way
      <3> QED BY <1>5, <1>8, <1>9, <2>2, <3>1
    <2> QED BY <2>1, <2>2
  <1>13. ASSUME NEW t \in Sources PROVE Along(t, 0, 0)'
    <2>1. Reader(t, 0, 0)'
      BY <1>2, <1>3 DEF Reader
    <2>2. got'[t] = Meant(t, sent'[t], 0)
      BY <1>3, <1>4, MeantNone
    <2>3. 0 <= Len(sent'[t])
      <3>1. sent'[t] \in Seq(Codes \cup Packets)
        BY <1>1, EventSends
      <3> QED BY <3>1, LenProperties
    <2> QED BY <1>12, <2>1, <2>2, <2>3 DEF Along
  <1> QED BY <1>13 DEF InStep

LEMMA EventInStep ==
  ASSUME PipeTypes, UnitTypes, NEW src \in {"kbd", "aux"}, NEW u \in UnitsOf(src),
         Event(src, u, Wire(src, u)), ~ Quiet, \A t \in Sources : InStep(t)
  PROVE  \A t \in Sources : InStep(t)'
  <1>1. src \in Sources /\ u \in Codes \cup Packets
    BY DEF Sources, UnitsOf
  <1>2. /\ UNCHANGED <<at, loc, last, obuf, got>>
        /\ pending' = [pending EXCEPT ![src] = @ \o Units(src, Wire(src, u), Len(sent'[src]))]
    BY DEF Event, drv
  <1>3. /\ sent'[src] = Append(sent[src], u) /\ \A t \in Sources \ {src} : sent'[t] = sent[t]
        /\ Len(sent'[src]) = Len(sent[src]) + 1
    BY <1>1, EventSends
  <1> DEFINE n == Len(sent[src]) + 1
             U == Units(src, Wire(src, u), n)
  <1>4. U \in Seq(PortBytes)
    <2>1. n \in Nat
      BY <1>1 DEF UnitTypes
    <2> HIDE DEF n
    <2> QED BY <1>1, <2>1, WireType, UnitsType
  <1>5. pending'[src] = pending[src] \o U /\ \A t \in Sources \ {src} : pending'[t] = pending[t]
    BY <1>1, <1>2, <1>3 DEF PipeTypes
  <1> HIDE DEF U
  <1>6. Way(src)' = Longer(src, sent[src], Way(src), u)
    <2>1. Way(src)' = Way(src) \o U
      BY <1>1, <1>2, <1>4, <1>5, WayAdd
    <2> QED BY <2>1 DEF Longer, U
  <1>7. UnitTypes'
    BY EventUnitTypes
  <1>8. ASSUME NEW t \in Sources PROVE InStep(t)'
    <2>1. PICK k, j \in Nat : Along(t, k, j)
      BY DEF InStep
    <2>2. sent[t] \in Seq(UnitsOf(t)) /\ Way(t) \in Seq(PortBytes)
      BY WayType DEF UnitTypes
    <2>3. Grown(t)
      <3>1. CASE t = src
        <4> DEFINE us == sent[t]
                   vs == Append(us, u)
        <4>1. sent'[t] = vs /\ us \in Seq(UnitsOf(t)) /\ u \in UnitsOf(t)
          BY <1>3, <2>2, <3>1
        <4> HIDE DEF us
        <4>2. Len(us) \in Nat /\ Len(vs) = Len(us) + 1 /\ \A i \in 1 .. Len(us) : vs[i] = us[i]
          BY <4>1, AppendProperties, LenProperties
        <4>3. Len(us) <= Len(vs)
          BY <4>2
        <4> QED BY <4>1, <4>2, <4>3 DEF Grown, us
      <3>2. CASE t # src
        BY <1>3, <2>2, <3>2 DEF Grown
      <3> QED BY <3>1, <3>2
    <2>4. Reader(t, k, j)'
      BY <1>2, <1>7, <2>1, <2>3, ReaderStays DEF Along
    <2>5. Stream(t, sent'[t], Way(t)', k, j)
      <3>1. CASE t = src
        <4>1. Stream(src, sent[src], Way(src), k, j)
          BY <2>1, <3>1 DEF Along
        <4> QED BY <1>1, <1>3, <1>6, <2>2, <3>1, <4>1, StreamSend
      <3>2. CASE t # src
        <4>1. Way(t)' = Way(t)
          BY <1>2, <1>5, <3>2 DEF Way
        <4> QED BY <1>3, <2>1, <3>2, <4>1 DEF Along
      <3> QED BY <3>1, <3>2
    <2>6. k <= Len(sent[t]) /\ got[t] = Meant(t, sent[t], k)
      BY <2>1 DEF Along
    <2>7. Len(sent[t]) \in Nat /\ Len(sent'[t]) \in Nat
      BY <1>7 DEF UnitTypes
    <2>8. k <= Len(sent'[t]) /\ \A i \in 1 .. k : sent[t][i] = sent'[t][i]
      BY <2>3, <2>6, <2>7 DEF Grown
    <2>9. Meant(t, sent[t], k) = Meant(t, sent'[t], k)
      BY <2>8, MeantSame
    <2>10. Along(t, k, j)'
      BY <1>2, <2>4, <2>5, <2>6, <2>8, <2>9 DEF Along
    <2> QED BY <2>10 DEF InStep
  <1> QED BY <1>8

-----------------------------------------------------------------------------
(* The steps of i8042_proc. *)

\* The driver is not in the middle of a unit of this device.
NotReading(src) == ~ (src = "kbd" /\ at = "scan") /\ ~ (src = "aux" /\ at \in {"x", "y"})

\* A step that reads no byte of this device and hands on nothing of it.
LEMMA OtherStays ==
  ASSUME PipeTypes, NEW src \in Sources, InStep(src), NotReading(src), NotReading(src)',
         sent' = sent, pending' = pending, got'[src] = got[src],
         obuf' = obuf \/ (obuf' = NoByte /\ obuf.src # src)
  PROVE  InStep(src)'
  <1>1. PICK k, j \in Nat : Along(src, k, j)
    BY DEF InStep
  <1>2. Reader(src, k, j)'
    BY <1>1 DEF Along, Reader, NotReading
  <1>3. Way(src)' = Way(src)
    <2>1. CASE obuf' = obuf
      BY <2>1 DEF Way
    <2>2. CASE obuf' = NoByte /\ obuf.src # src
      BY <2>2, WayRead
    <2> QED BY <2>1, <2>2
  <1>4. Along(src, k, j)'
    BY <1>1, <1>2, <1>3 DEF Along
  <1> QED BY <1>4 DEF InStep

\* The last byte of a unit is read, and the unit handed on.
LEMMA UnitDone ==
  ASSUME UnitTypes, NEW src \in Sources, NEW k \in Nat, NEW j \in Nat, Along(src, k, j),
         NextByteIs(src, k, j), j + 1 = Size(src, sent[src][k + 1]),
         got'[src] = got[src] \o Meaning(src, sent[src][k + 1]),
         NotReading(src)', sent' = sent
  PROVE  InStep(src)'
  <1> DEFINE us == sent[src]
             m == k + 1
  <1>1. us \in Seq(UnitsOf(src)) /\ Len(us) \in Nat
    BY DEF UnitTypes
  <1>2. m \in Nat /\ m \in 1 .. Len(us) /\ Stream(src, us, Way(src)', m, 0)
    BY DEF NextByteIs
  <1>3. k <= Len(us) /\ k < Len(us) /\ m <= Len(us)
    BY <1>1, <1>2
  <1>4. Meant(src, us, k) \in Seq(Meanings)
    <2> HIDE DEF us
    <2> QED BY <1>1, <1>3, MeantType
  <1>5. MeantGrows(src, us, k)
    <2> HIDE DEF us
    <2> QED BY <1>1, <1>3, <1>4, MeantNext
  <1>6. got'[src] = Meant(src, us, m)
    BY <1>5 DEF MeantGrows, Along
  <1>7. Reader(src, m, 0)'
    BY DEF Reader, NotReading
  <1> HIDE DEF m
  <1>8. Along(src, m, 0)'
    BY <1>2, <1>3, <1>6, <1>7 DEF Along
  <1> QED BY <1>2, <1>8 DEF InStep

\* The port is not empty and what is read belongs to the unit begun.
Belongs(src) == obuf # NoByte /\ obuf.src = src /\ obuf.unit # 0

LEMMA NotMixed ==
  ASSUME machine.ctl, Trouble("mixed", Mixes), "mixed" \notin trouble'
  PROVE  /\ "mixed" \notin trouble
         /\ obuf # NoByte => Belongs(IF at = "scan" THEN "kbd" ELSE "aux") /\ Data = obuf.byte
  BY DEF Trouble, Mixes, Belongs, Data

\* A packet has three bytes, its own.
LEMMA PacketWire ==
  ASSUME NEW u \in UnitsOf("aux")
  PROVE  Size("aux", u) = 3 /\ Wire("aux", u) = u /\ u \in Triples
  <1>1. u \in Packets /\ Wire("aux", u) = u
    BY DEF UnitsOf, Wire
  <1>2. u \in Triples
    BY <1>1, I8042Assumption DEF Triples
  <1>3. Len(u) = 3
    BY <1>2 DEF Triples
  <1> QED BY <1>1, <1>2, <1>3 DEF Size

LEMMA PollInStep ==
  ASSUME PipeTypes, UnitTypes, machine.ctl, Poll, "mixed" \notin trouble',
         \A src \in Sources : InStep(src)
  PROVE  \A src \in Sources : InStep(src)'
  <1>1. at = "poll" /\ UNCHANGED <<got, pending, sent>>
    BY DEF Poll
  <1>2. \A src \in Sources : NotReading(src)
    BY <1>1 DEF NotReading
  <1>3. CASE ~ Full
    <2>1. at' = "drain" /\ obuf' = obuf
      BY <1>3, Zenon DEF Poll
    <2>2. \A src \in Sources : NotReading(src)'
      BY <2>1 DEF NotReading
    <2> QED BY <1>1, <1>2, <2>1, <2>2, OtherStays
  <1>4. CASE Full /\ AuxFull
    <2>1. /\ at' = "x" /\ loc' = [NoLocals EXCEPT !.s = Data, !.unit = obuf.unit]
          /\ ReadData /\ Trouble("mixed", Mixes)
      BY <1>4, Zenon DEF Poll
    <2>2. obuf' = NoByte
      BY <2>1 DEF ReadData
    <2>3. obuf # NoByte /\ Belongs("aux") /\ Data = obuf.byte
      BY <1>1, <1>4, <2>1, NotMixed DEF Full
    <2>4. \A src \in Sources \ {"aux"} : InStep(src)'
      <3>1. \A src \in Sources \ {"aux"} : NotReading(src)' /\ obuf.src # src
        BY <2>1, <2>3 DEF NotReading, Belongs
      <3> QED BY <1>1, <1>2, <2>2, <3>1, OtherStays
    <2>5. InStep("aux")'
      <3>0. "aux" \in Sources
        BY DEF Sources
      <3>1. PICK k, j \in Nat : Along("aux", k, j)
        BY <3>0 DEF InStep
      <3>2. j = 0
        BY <1>1, <3>1 DEF Along, Reader
      <3> DEFINE p == sent["aux"][k + 1]
      <3>3. NextByteIs("aux", k, 0)
        <4>1. Stream("aux", sent["aux"], Way("aux"), k, j) /\ obuf.src = "aux" /\ obuf.unit # 0
          BY <2>3, <3>1 DEF Along, Belongs
        <4>2. NextByteIs("aux", k, j)
          BY <1>1, <2>2, <3>0, <4>1, ReadAlong
        <4> QED BY <3>2, <4>2
      <3>4. p \in UnitsOf("aux") /\ obuf.unit = k + 1 /\ k + 1 \in 1 .. Len(sent["aux"])
        BY <3>3 DEF NextByteIs
      <3>5. Size("aux", p) = 3 /\ Wire("aux", p) = p
        BY <3>4, PacketWire
      <3>6. Stream("aux", sent["aux"], Way("aux")', k, 1) /\ Data = p[1]
        BY <2>3, <3>3, <3>5 DEF NextByteIs
      <3>7. loc'.s = p[1] /\ loc'.unit = k + 1
        BY <2>1, <3>4, <3>6 DEF NoLocals
      <3>8. Len(sent["aux"]) \in Nat
        BY <3>0 DEF UnitTypes
      <3>9. k < Len(sent["aux"])
        BY <3>4, <3>8
      <3>10. Reader("aux", k, 1)'
        BY <1>1, <2>1, <3>7, <3>9 DEF Reader, PacketAt
      <3>11. Along("aux", k, 1)'
        BY <1>1, <3>1, <3>6, <3>10 DEF Along
      <3> QED BY <3>11 DEF InStep
    <2> QED BY <2>4, <2>5
  <1>5. CASE Full /\ ~ AuxFull
    <2>1. at' = "scan" /\ loc' = NoLocals /\ obuf' = obuf
      BY <1>5, Zenon DEF Poll
    <2>2. obuf # NoByte
      BY <1>5 DEF Full
    <2>3. \A src \in Sources \ {"kbd"} : InStep(src)'
      <3>1. \A src \in Sources \ {"kbd"} : NotReading(src)'
        BY <2>1 DEF NotReading
      <3> QED BY <1>1, <1>2, <2>1, <3>1, OtherStays
    <2>4. InStep("kbd")'
      <3>1. PICK k, j \in Nat : Along("kbd", k, j)
        BY DEF InStep, Sources
      <3>2. j = 0
        BY <1>1, <3>1 DEF Along, Reader
      <3>3. Reader("kbd", k, j)'
        BY <2>1, <2>2, <3>2 DEF Reader, ScanAt
      <3>4. Way("kbd")' = Way("kbd")
        BY <1>1, <2>1 DEF Way
      <3>5. Along("kbd", k, j)'
        BY <1>1, <3>1, <3>3, <3>4 DEF Along
      <3> QED BY <3>5 DEF InStep
    <2> QED BY <2>3, <2>4
  <1> QED BY <1>3, <1>4, <1>5

LEMMA PacketInStep ==
  ASSUME PipeTypes, RegsInv, UnitTypes, machine.ctl, PacketX \/ PacketY, "mixed" \notin trouble',
         \A src \in Sources : InStep(src)
  PROVE  \A src \in Sources : InStep(src)'
  <1>1. /\ at \in {"x", "y"} /\ Full /\ obuf' = NoByte /\ UNCHANGED <<pending, sent>>
        /\ Trouble("mixed", Mixes)
    BY DEF PacketX, PacketY, Answered, ReadData
  <1>2. Belongs("aux") /\ Data = obuf.byte
    BY <1>1, NotMixed DEF Full
  <1>3. "aux" \in Sources /\ got \in [Sources -> Seq(Byte) \cup Seq(Triples)] /\ loc \in Locals
    BY DEF Sources, RegsInv
  <1>4. \A src \in Sources \ {"aux"} : got'[src] = got[src]
    BY <1>3 DEF PacketX, PacketY
  <1>5. \A src \in Sources \ {"aux"} : InStep(src)'
    <2>1. at' \in {"y", "drain"}
      BY DEF PacketX, PacketY
    <2>2. \A src \in Sources \ {"aux"} : NotReading(src) /\ NotReading(src)' /\ obuf.src # src
      BY <1>1, <1>2, <2>1 DEF NotReading, Belongs
    <2> QED BY <1>1, <1>4, <2>2, OtherStays
  <1>6. PICK k, j \in Nat : Along("aux", k, j)
    BY <1>3 DEF InStep
  <1> DEFINE p == sent["aux"][k + 1]
  <1>7. /\ loc.unit = k + 1 /\ loc.s = p[1] /\ k < Len(sent["aux"])
        /\ at = "x" => j = 1
        /\ at = "y" => j = 2 /\ loc.x = p[2]
    BY <1>1, <1>6 DEF Along, Reader, PacketAt
  <1>8. NextByteIs("aux", k, j)
    <2>1. Stream("aux", sent["aux"], Way("aux"), k, j) /\ obuf.src = "aux" /\ obuf.unit # 0
      BY <1>2, <1>6 DEF Along, Belongs
    <2> QED BY <1>1, <1>3, <2>1, ReadAlong
  <1>9. p \in UnitsOf("aux")
    BY <1>8 DEF NextByteIs
  <1>10. Size("aux", p) = 3 /\ Wire("aux", p) = p /\ p \in Triples
    BY <1>9, PacketWire
  <1>11. CASE PacketX
    <2>1. at = "x" /\ at' = "y" /\ got' = got /\ loc' = [loc EXCEPT !.x = Data]
      BY <1>11 DEF PacketX, Answered
    <2>2. Stream("aux", sent["aux"], Way("aux")', k, 2) /\ Data = p[2]
      BY <1>2, <1>7, <1>8, <1>10, <2>1 DEF NextByteIs
    <2>3. loc'.s = p[1] /\ loc'.x = p[2] /\ loc'.unit = k + 1
      BY <1>3, <1>7, <2>1, <2>2 DEF Locals
    <2>4. Reader("aux", k, 2)'
      BY <1>1, <1>7, <2>1, <2>3 DEF Reader, PacketAt
    <2>5. Along("aux", k, 2)'
      BY <1>1, <1>6, <2>1, <2>2, <2>4 DEF Along
    <2> QED BY <1>5, <2>5 DEF InStep
  <1>12. CASE PacketY
    <2> DEFINE packet == <<loc.s, loc.x, Data>>
    <2>1. /\ at = "y" /\ at' = "drain"
          /\ IF ValidStatus(loc.s) THEN got' = [got EXCEPT !["aux"] = Append(@, packet)] ELSE got' = got
      BY <1>12 DEF PacketY, Answered
    <2>2. j = 2 /\ j + 1 = Size("aux", p) /\ Data = p[3]
      BY <1>2, <1>7, <1>8, <1>10, <2>1 DEF NextByteIs
    <2>3. packet = p
      <3>1. packet = <<p[1], p[2], p[3]>>
        BY <1>7, <2>1, <2>2
      <3>2. ASSUME NEW q \in Triples PROVE q = <<q[1], q[2], q[3]>>
        BY DEF Triples
      <3> QED BY <1>10, <3>1, <3>2
    <2> HIDE DEF packet
    <2>4. got'["aux"] = got["aux"] \o Meaning("aux", p)
      <3> HIDE DEF p
      <3>1. Meaning("aux", p) = IF ValidStatus(p[1]) THEN <<p>> ELSE <<>>
        BY DEF Meaning
      <3>2. got["aux"] \in Seq(Triples)
        BY DEF RegsInv
      <3>3. Append(got["aux"], p) = got["aux"] \o <<p>> /\ got["aux"] \o <<>> = got["aux"]
        BY <1>10, <3>2, AppendIsConcat, ConcatEmptySeq
      <3>4. loc.s = p[1]
        BY <1>7 DEF p
      <3>5. CASE ValidStatus(loc.s)
        <4>1. got'["aux"] = Append(got["aux"], p)
          BY <1>3, <2>1, <2>3, <3>5
        <4> QED BY <3>1, <3>3, <3>4, <3>5, <4>1
      <3>6. CASE ~ ValidStatus(loc.s)
        BY <2>1, <3>1, <3>3, <3>4, <3>6
      <3> QED BY <3>5, <3>6
    <2>5. NotReading("aux")'
      BY <2>1 DEF NotReading
    <2>6. InStep("aux")'
      BY <1>1, <1>3, <1>6, <1>8, <2>2, <2>4, <2>5, UnitDone
    <2> QED BY <1>5, <2>6
  <1> QED BY <1>11, <1>12

\* The j-th byte of a key is read, for the first time or again: the port does
\* not say which.
KeyRead(c, j) ==
  /\ j < Size("kbd", c) => at' = "scan" /\ got' = got /\ loc'.unit = Unit /\ KeyFlags(c, j)'
  /\ j = Size("kbd", c) =>
       /\ at' = "drain" /\ \A src \in Sources \ {"kbd"} : got'[src] = got[src]
       /\ got'["kbd"] = got["kbd"] \o Meaning("kbd", c)

LEMMA ScanReads ==
  ASSUME PipeTypes, RegsInv, Scan, NEW c \in Codes, NEW i \in Nat, i < Size("kbd", c), KeyFlags(c, i),
         NEW j \in {i, i + 1}, j # 0, Data = Wire("kbd", c)[j]
  PROVE  KeyRead(c, j)
  <1>1. loc \in Locals /\ got \in [Sources -> Seq(Byte) \cup Seq(Triples)] /\ got["kbd"] \in Seq(Byte)
    BY DEF RegsInv
  <1>2. /\ c.ext \in BOOLEAN /\ c.rel \in BOOLEAN /\ c.scan \in Byte
        /\ c.scan # I8042_KEY_EXTENDED /\ c.scan # I8042_KEY_RELEASE
    BY I8042Assumption
  <1>3. Size("kbd", c) \in Nat /\ j \in 1 .. Size("kbd", c) /\ at = "scan"
    <2>1. c \in UnitsOf("kbd") /\ "kbd" \in Sources
      BY DEF UnitsOf, Sources
    <2>2. Size("kbd", c) \in Nat
      BY <2>1, WireType
    <2> QED BY <2>2 DEF Scan
  <1>4. KeyAt(c, j)
    BY <1>3, KeyBytesAt
  <1>5. CASE Data = I8042_KEY_EXTENDED
    <2>0. Data # I8042_KEY_RELEASE
      BY <1>5 DEF I8042_KEY_EXTENDED, I8042_KEY_RELEASE
    <2>1. at' = at /\ loc' = [loc EXCEPT !.ext = TRUE, !.unit = Unit] /\ got' = got
      BY <1>5, <2>0, Zenon DEF Scan
    <2>2. loc'.unit = Unit /\ loc'.ext /\ (loc'.rel <=> loc.rel)
      BY <1>1, <2>1 DEF Locals
    <2>3. c.ext /\ j = 1 /\ j < Size("kbd", c)
      BY <1>2, <1>4, <1>5, <2>0 DEF KeyAt
    <2>4. ~ loc.rel
      BY <2>3 DEF KeyFlags
    <2>5. KeyFlags(c, j)'
      BY <2>2, <2>3, <2>4 DEF KeyFlags
    <2> QED BY <1>3, <2>1, <2>2, <2>3, <2>5 DEF KeyRead
  <1>6. CASE Data # I8042_KEY_EXTENDED /\ Data = I8042_KEY_RELEASE
    <2>1. at' = at /\ loc' = [loc EXCEPT !.rel = TRUE, !.unit = Unit] /\ got' = got
      BY <1>6, Zenon DEF Scan
    <2>2. loc'.unit = Unit /\ loc'.rel /\ (loc'.ext <=> loc.ext)
      BY <1>1, <2>1 DEF Locals
    <2>3. c.rel /\ j = (IF c.ext THEN 2 ELSE 1) /\ j < Size("kbd", c)
      BY <1>2, <1>4, <1>6 DEF KeyAt
    <2>4. KeyFlags(c, j)'
      BY <2>2, <2>3 DEF KeyFlags
    <2> QED BY <1>3, <2>1, <2>2, <2>3, <2>4 DEF KeyRead
  <1>7. CASE Data # I8042_KEY_EXTENDED /\ Data # I8042_KEY_RELEASE
    <2> DEFINE key == IF loc.ext THEN i8042_ExtKeyTable(Data) ELSE i8042_KeyTable(Data)
               code == IF loc.rel THEN key + KEY_RELEASE ELSE key
               named == IF c.ext THEN i8042_ExtKeyTable(c.scan) ELSE i8042_KeyTable(c.scan)
               coded == IF c.rel THEN named + KEY_RELEASE ELSE named
    <2>1. /\ at' = "drain"
          /\ IF key = KEY_UNKNOWN THEN UNCHANGED got
             ELSE got' = [got EXCEPT !["kbd"] = Append(@, code)]
      BY <1>7, Zenon DEF Scan
    <2>2. /\ Data = c.scan /\ j = Size("kbd", c)
          /\ j = (IF c.ext THEN (IF c.rel THEN 3 ELSE 2) ELSE (IF c.rel THEN 2 ELSE 1))
      BY <1>4, <1>7 DEF KeyAt
    <2>3. i = j - 1
      BY <2>2
    <2>4. (loc.ext <=> c.ext) /\ (loc.rel <=> c.rel)
      BY <1>2, <2>2, <2>3 DEF KeyFlags
    <2>5. key = named
      BY <2>2, <2>4
    <2>6. code = coded
      BY <2>4, <2>5
    <2>7. code \in Byte
      <3>1. Data \in Byte
        BY DataByte
      <3>2. key \in KeyCodes
        BY <3>1, KeyByte
      <3> HIDE DEF key
      <3> QED BY <3>1, <3>2, KeyByte
    <2>8. Meaning("kbd", c) = IF named = KEY_UNKNOWN THEN <<>> ELSE <<coded>>
      BY DEF Meaning
    <2> HIDE DEF key, code, named, coded
    <2>9. Append(got["kbd"], code) = got["kbd"] \o <<code>> /\ got["kbd"] \o <<>> = got["kbd"]
      BY <1>1, <2>7, AppendIsConcat, ConcatEmptySeq
    <2>10. got'["kbd"] = got["kbd"] \o Meaning("kbd", c)
      <3>1. CASE key = KEY_UNKNOWN
        BY <2>1, <2>5, <2>8, <2>9, <3>1
      <3>2. CASE key # KEY_UNKNOWN
        <4>1. got'["kbd"] = Append(got["kbd"], code)
          BY <1>1, <2>1, <3>2 DEF Sources
        <4> QED BY <2>5, <2>6, <2>8, <2>9, <3>2, <4>1
      <3> QED BY <3>1, <3>2
    <2>11. \A src \in Sources \ {"kbd"} : got'[src] = got[src]
      BY <1>1, <2>1
    <2> QED BY <1>3, <2>1, <2>2, <2>10, <2>11 DEF KeyRead
  <1> QED BY <1>5, <1>6, <1>7

LEMMA ScanInStep ==
  ASSUME PipeTypes, RegsInv, UnitTypes, machine.ctl, Scan, "mixed" \notin trouble',
         \A src \in Sources : InStep(src)
  PROVE  \A src \in Sources : InStep(src)'
  <1>1. /\ at = "scan" /\ obuf' = NoByte /\ last' = Data /\ UNCHANGED <<pending, sent>>
        /\ Trouble("mixed", Mixes)
    BY DEF Scan, ReadData
  <1>2. obuf # NoByte => Belongs("kbd") /\ Data = obuf.byte
    BY <1>1, NotMixed
  <1>3. "kbd" \in Sources /\ loc \in Locals /\ Len(sent["kbd"]) \in Nat
    BY DEF Sources, RegsInv, UnitTypes
  <1>4. PICK k, j \in Nat : Along("kbd", k, j)
    BY <1>3 DEF InStep
  <1>5. ScanAt(k, j)
    BY <1>1, <1>4 DEF Along, Reader
  <1>6. PICK c : c = sent["kbd"][k + 1]
    OBVIOUS
  <1>7. ASSUME at' \in {"scan", "drain"}, \A src \in Sources \ {"kbd"} : got'[src] = got[src]
        PROVE  \A src \in Sources \ {"kbd"} : InStep(src)'
    <2>1. \A src \in Sources \ {"kbd"} : NotReading(src) /\ NotReading(src)'
      BY <1>1, <1>7 DEF NotReading
    <2>2. obuf' = obuf \/ \A src \in Sources \ {"kbd"} : obuf.src # src
      BY <1>1, <1>2 DEF Belongs
    <2> QED BY <1>1, <1>7, <2>1, <2>2, OtherStays
  <1>8. CASE obuf = NoByte
    <2>1. /\ k < Len(sent["kbd"]) /\ j \in 1 .. Size("kbd", c) - 1
          /\ loc.unit = k + 1 /\ KeyFlags(c, j) /\ last = Wire("kbd", c)[j]
      BY <1>5, <1>8, <1>6 DEF ScanAt
    <2>2. Data = Wire("kbd", c)[j] /\ Unit = k + 1
      BY <1>8, <2>1 DEF Data, Unit
    <2>3. c \in Codes
      <3>1. sent["kbd"] \in Seq(Codes)
        BY <1>3 DEF UnitTypes, UnitsOf
      <3>2. k + 1 \in 1 .. Len(sent["kbd"])
        BY <1>3, <2>1
      <3> QED BY <1>6, <3>1, <3>2, ElementOfSeq
    <2>4. Size("kbd", c) \in Nat
      <3>1. c \in UnitsOf("kbd")
        BY <2>3 DEF UnitsOf
      <3> QED BY <1>3, <3>1, WireType
    <2>5. j < Size("kbd", c) /\ j # 0 /\ j \in {j, j + 1}
      BY <2>1, <2>4
    <2>6. KeyRead(c, j)
      BY <2>1, <2>2, <2>3, <2>5, ScanReads
    <2>7. at' = "scan" /\ got' = got /\ loc'.unit = Unit /\ KeyFlags(c, j)'
      BY <2>5, <2>6 DEF KeyRead
    <2>8. Reader("kbd", k, j)'
      BY <1>1, <1>6, <2>1, <2>2, <2>7 DEF Reader, ScanAt, KeyFlags
    <2>9. Way("kbd")' = Way("kbd")
      BY <1>1, <1>8 DEF Way
    <2>10. Along("kbd", k, j)'
      BY <1>1, <1>4, <2>7, <2>8, <2>9 DEF Along
    <2> QED BY <1>7, <2>7, <2>10 DEF InStep
  <1>9. CASE obuf # NoByte
    <2>1. NextByteIs("kbd", k, j)
      <3>1. Stream("kbd", sent["kbd"], Way("kbd"), k, j) /\ obuf.src = "kbd" /\ obuf.unit # 0
        BY <1>2, <1>4, <1>9 DEF Along, Belongs
      <3> QED BY <1>1, <1>3, <3>1, ReadAlong
    <2> DEFINE i == j + 1
    <2>2. /\ c \in Codes /\ Unit = k + 1 /\ k + 1 \in 1 .. Len(sent["kbd"])
          /\ i \in 1 .. Size("kbd", c) /\ Data = Wire("kbd", c)[i]
      BY <1>2, <1>9, <1>6, <2>1 DEF NextByteIs, UnitsOf, Unit
    <2>3. c.ext \in BOOLEAN /\ c.rel \in BOOLEAN
      BY <2>2, I8042Assumption
    <2>4. KeyFlags(c, j)
      <3>1. CASE j = 0 /\ loc = NoLocals
        <4>1. ~ loc.ext /\ ~ loc.rel
          BY <3>1 DEF NoLocals
        <4>2. ~ (j >= 1) /\ ~ (j >= (IF c.ext THEN 2 ELSE 1))
          BY <3>1
        <4> QED BY <4>1, <4>2 DEF KeyFlags
      <3> QED BY <1>5, <1>6, <3>1 DEF ScanAt
    <2>5. Size("kbd", c) \in Nat
      <3>1. c \in UnitsOf("kbd")
        BY <2>2 DEF UnitsOf
      <3> QED BY <1>3, <3>1, WireType
    <2>6. j < Size("kbd", c) /\ i # 0 /\ i \in {j, j + 1} /\ i \in Nat
      BY <2>2, <2>5
    <2>7. KeyRead(c, i)
      <3> HIDE DEF i
      <3> QED BY <2>2, <2>4, <2>6, ScanReads
    <2>8. CASE i < Size("kbd", c)
      <3>1. at' = "scan" /\ got' = got /\ loc'.unit = Unit /\ KeyFlags(c, i)'
        BY <2>7, <2>8 DEF KeyRead
      <3>2. Stream("kbd", sent["kbd"], Way("kbd")', k, i)
        BY <1>6, <2>1, <2>8 DEF NextByteIs
      <3>3. k < Len(sent["kbd"]) /\ i \in 1 .. Size("kbd", c) - 1
        BY <1>3, <2>2, <2>5, <2>8
      <3> HIDE DEF i
      <3>4. Reader("kbd", k, i)'
        BY <1>1, <1>6, <2>2, <3>1, <3>3 DEF Reader, ScanAt, KeyFlags
      <3>5. Along("kbd", k, i)'
        BY <1>1, <1>4, <3>1, <3>2, <3>4 DEF Along
      <3> QED BY <1>7, <2>6, <3>1, <3>5 DEF InStep
    <2>9. CASE i = Size("kbd", c)
      <3>1. /\ at' = "drain" /\ \A src \in Sources \ {"kbd"} : got'[src] = got[src]
            /\ got'["kbd"] = got["kbd"] \o Meaning("kbd", c)
        BY <2>7, <2>9 DEF KeyRead
      <3>2. NotReading("kbd")'
        BY <3>1 DEF NotReading
      <3>3. InStep("kbd")'
        BY <1>1, <1>3, <1>4, <1>6, <2>1, <2>9, <3>1, <3>2, UnitDone
      <3> QED BY <1>7, <3>1, <3>3
    <2> QED BY <2>2, <2>5, <2>8, <2>9
  <1> QED BY <1>8, <1>9

-----------------------------------------------------------------------------
(* The steps of i8042_init: only bytes of no unit are added or read. *)

\* What is pending from a device is as it was, a new answer, or followed by
\* one.
Replied(src) ==
  \/ pending'[src] = pending[src]
  \/ \E a \in Seq(Byte) : \/ pending'[src] = Units(src, a, 0)
                          \/ pending'[src] = pending[src] \o Units(src, a, 0)

LEMMA AskReplies ==
  ASSUME PipeTypes, NEW port \in Sources, NEW good \in Seq(Byte), NEW others \in SUBSET Seq(Byte),
         NEW more, Ask(port, good, others, more)
  PROVE  trouble \subseteq trouble' /\ \A src \in Sources : Replied(src)
  <1>1. PICK a \in others \cup {good} :
          /\ pending' = [pending EXCEPT ![port] = Units(port, a, 0)]
          /\ trouble' = trouble \cup more \cup (IF a = good THEN {} ELSE {"sick"})
    BY DEF Ask
  <1>2. a \in Seq(Byte)
    OBVIOUS
  <1> QED BY <1>1, <1>2 DEF PipeTypes, Replied

\* What a step of the initialisation leaves of the books.
InitLeaves ==
  /\ at \in InitStages /\ UNCHANGED <<machine, sent, got>> /\ trouble \subseteq trouble'
  /\ obuf' \in {obuf, NoByte} /\ \A src \in Sources : Replied(src)

LEMMA InitEffect ==
  ASSUME PipeTypes, i8042_init PROVE InitLeaves
  <1>0. pending' = pending => \A src \in Sources : Replied(src)
    BY DEF Replied
  <1> USE DEF InitLeaves, InitStages
  <1>1. CASE InitStart
    <2>1. Ask("ctl", <<0>>, {<<>>}, {}) => trouble \subseteq trouble' /\ \A src \in Sources : Replied(src)
      BY AskReplies, AnswerTypes
    <2> QED BY <1>0, <1>1, <2>1 DEF InitStart, ReadData, hw
  <1>2. CASE InitTimedOut
    BY <1>0, <1>2 DEF InitTimedOut, Trouble, hw
  <1>3. CASE ConfigRead
    <2>1. trouble \subseteq trouble' /\ \A src \in Sources : Replied(src)
      BY <1>3, AskReplies, AnswerTypes DEF ConfigRead
    <2> QED BY <1>3, <2>1 DEF ConfigRead, Answered, ReadData
  <1>4. CASE SelfTest
    <2>1. Ask("ctl", <<0>>, {<<CFG_2NDPORTCLOCK>>, <<>>}, Foreign)
            => trouble \subseteq trouble' /\ \A src \in Sources : Replied(src)
      BY AskReplies, AnswerTypes
    <2> QED BY <1>0, <1>4, <2>1 DEF SelfTest, Answered, ReadData
  <1>5. CASE Channels
    <2>1. trouble \subseteq trouble' /\ \A src \in Sources : Replied(src)
      BY <1>5, AskReplies, AnswerTypes DEF Channels
    <2> QED BY <1>5, <2>1 DEF Channels, Answered, ReadData
  <1>6. CASE PortTest("test1", "kbd") \/ PortTest("test2", "aux")
    <2>1. Ask("ctl", <<0>>, {<<1>>, <<>>}, {})
            => trouble \subseteq trouble' /\ \A src \in Sources : Replied(src)
      BY AskReplies, AnswerTypes
    <2> QED BY <1>0, <1>6, <2>1 DEF PortTest, Answered, ReadData
  <1>7. CASE Reset("reset1", "kbd", "ack1") \/ Reset("reset2", "aux", "ack2")
    <2>1. ASSUME NEW port \in {"kbd", "aux"},
                 Ask(port, ResetReply(port), {<<>>, <<DEVRET_ACKNOW, DEVRET_TESTFAIL>>}, {})
          PROVE  trouble \subseteq trouble' /\ \A src \in Sources : Replied(src)
      <3>1. ResetReply(port) \in Seq(Byte) /\ port \in Sources
        BY ResetReplies, AnswerTypes
      <3> QED BY <2>1, <3>1, AskReplies, AnswerTypes
    <2> QED BY <1>7, <2>1 DEF Reset
  <1>8. CASE \/ Acknowledge("ack1", "kbd", "verdict1", AfterKbd)
             \/ Acknowledge("ack2", "aux", "verdict2", "report")
    BY <1>0, <1>8 DEF Acknowledge, ReadData, Trouble
  <1>9. CASE Verdict("verdict1", "kbd", AfterKbd) \/ Verdict("verdict2", "aux", "report")
    BY <1>0, <1>9 DEF Verdict, ReadData, Trouble
  <1>10. CASE Report
    <2>1. \A src \in Sources : Replied(src)
      <3>1. pending' = [pending EXCEPT !["aux"] = @ \o Units("aux", <<DEVRET_ACKNOW>>, 0)]
        BY <1>10 DEF Report
      <3>2. <<DEVRET_ACKNOW>> \in Seq(Byte)
        BY AnswerTypes
      <3> QED BY <3>1, <3>2 DEF PipeTypes, Replied
    <2> QED BY <1>10, <2>1 DEF Report, ghost
  <1> QED BY <1>1, <1>2, <1>3, <1>4, <1>5, <1>6, <1>7, <1>8, <1>9, <1>10 DEF i8042_init

LEMMA RepliedNone ==
  ASSUME PipeTypes, NEW src \in Sources, NoneYet(src, pending[src]), Replied(src)
  PROVE  NoneYet(src, pending'[src])
  <1> DEFINE q == pending[src]
  <1>1. q \in Seq(PortBytes)
    BY DEF PipeTypes
  <1>2. ASSUME NEW a \in Seq(Byte)
        PROVE  NoneYet(src, Units(src, a, 0)) /\ NoneYet(src, q \o Units(src, a, 0))
    <2> DEFINE U == Units(src, a, 0)
    <2>1. U \in Seq(PortBytes)
      BY UnitsType
    <2>2. NoneYet(src, U)
      BY DEF Units, NoneYet
    <2> HIDE DEF U, q
    <2>3. /\ Len(q \o U) = Len(q) + Len(U) /\ Len(q) \in Nat /\ Len(U) \in Nat
          /\ \A i \in 1 .. Len(q) + Len(U) : (q \o U)[i] = IF i <= Len(q) THEN q[i] ELSE U[i - Len(q)]
      BY <1>1, <2>1, ConcatProperties, LenProperties
    <2>4. NoneYet(src, q)
      BY DEF q
    <2>5. NoneYet(src, q \o U)
      <3> SUFFICES ASSUME NEW m \in 1 .. Len(q) + Len(U)
                   PROVE  (q \o U)[m].src = src /\ (q \o U)[m].unit = 0
        BY <2>3 DEF NoneYet
      <3>1. CASE m <= Len(q)
        <4>1. m \in 1 .. Len(q) /\ (q \o U)[m] = q[m]
          BY <2>3, <3>1
        <4> QED BY <2>4, <4>1 DEF NoneYet
      <3>2. CASE ~ (m <= Len(q))
        <4>1. m - Len(q) \in 1 .. Len(U) /\ (q \o U)[m] = U[m - Len(q)]
          BY <2>3, <3>2
        <4> QED BY <2>2, <4>1 DEF NoneYet
      <3> QED BY <3>1, <3>2
    <2> QED BY <2>2, <2>5 DEF U
  <1> QED BY <1>2 DEF Replied

\* The byte in the port and those that are to come.
PortNone(src, o, q) == (o.src = src => o.unit = 0) /\ NoneYet(src, q)

LEMMA WayNone ==
  ASSUME NEW src \in Sources, NEW o \in PortBytes \cup {NoByte}, NEW q \in Seq(PortBytes)
  PROVE  LET F == (IF o.src = src THEN <<o>> ELSE <<>>) \o q
         IN  F \in Seq(PortBytes) /\ (NoneYet(src, F) <=> PortNone(src, o, q))
  <1> DEFINE F == (IF o.src = src THEN <<o>> ELSE <<>>) \o q
  <1>1. CASE o.src # src
    <2>1. F = q
      BY <1>1
    <2> QED BY <1>1, <2>1 DEF PortNone
  <1>2. CASE o.src = src
    <2> DEFINE h == <<o>>
               r == h \o q
    <2>1. o \in PortBytes
      BY <1>2 DEF NoByte, Sources
    <2>2. h \in Seq(PortBytes) /\ Len(h) = 1 /\ h[1] = o
      BY <2>1
    <2>3. F = r
      BY <1>2
    <2> HIDE DEF h, F
    <2>4. /\ r \in Seq(PortBytes) /\ Len(r) = Len(h) + Len(q) /\ Len(q) \in Nat
          /\ \A i \in 1 .. Len(h) + Len(q) : r[i] = IF i <= Len(h) THEN h[i] ELSE q[i - Len(h)]
      BY <2>2, ConcatProperties, LenProperties
    <2> HIDE DEF r
    <2>5. r[1] = o /\ 1 \in 1 .. Len(r) /\ \A i \in 1 .. Len(q) : r[i + 1] = q[i] /\ i + 1 \in 1 .. Len(r)
      BY <2>2, <2>4
    <2>6. \A m \in 1 .. Len(r) : m = 1 \/ (m - 1 \in 1 .. Len(q) /\ r[m] = q[m - 1])
      BY <2>2, <2>4
    <2>7. NoneYet(src, r) => PortNone(src, o, q)
      BY <2>5 DEF NoneYet, PortNone
    <2>8. PortNone(src, o, q) => NoneYet(src, r)
      BY <1>2, <2>5, <2>6 DEF NoneYet, PortNone
    <2> QED BY <2>3, <2>4, <2>7, <2>8 DEF F
  <1> QED BY <1>1, <1>2

\* Nothing was sent yet, and nothing is handed on.
LEMMA NoneInStep ==
  ASSUME NEW src \in Sources, sent[src] = <<>>, got[src] = <<>>,
         PipeTypes, PortNone(src, obuf, pending[src]), NotReading(src)
  PROVE  InStep(src)
  <1>1. obuf \in PortBytes \cup {NoByte} /\ pending[src] \in Seq(PortBytes)
    BY DEF PipeTypes
  <1>2. Way(src) \in Seq(PortBytes) /\ NoneYet(src, Way(src))
    BY <1>1, WayNone DEF Way
  <1>3. Stream(src, sent[src], Way(src), 0, 0)
    BY <1>2, StreamNone
  <1>4. Along(src, 0, 0)
    BY <1>3, MeantNone DEF Along, Reader, NotReading
  <1> QED BY <1>4 DEF InStep

LEMMA InitInStep ==
  ASSUME PipeTypes, PipeTypes', UnitTypes, i8042_init,
         \A src \in Sources : InStep(src) /\ sent[src] = <<>>
  PROVE  \A src \in Sources : InStep(src)' /\ sent'[src] = <<>>
  <1>1. InitLeaves
    BY InitEffect
  <1>2. sent' = sent /\ got' = got /\ obuf' \in {obuf, NoByte} /\ at \in InitStages
    BY <1>1 DEF InitLeaves
  <1>3. ASSUME NEW src \in Sources PROVE InStep(src)'
    <2>1. PICK k, j \in Nat : Along(src, k, j)
      BY DEF InStep
    <2>2. NoneYet(src, Way(src))
      BY <2>1, StreamOfNone, WayType DEF Along
    <2>3. PortNone(src, obuf, pending[src])
      <3>1. obuf \in PortBytes \cup {NoByte} /\ pending[src] \in Seq(PortBytes)
        BY DEF PipeTypes
      <3> QED BY <2>2, <3>1, WayNone DEF Way
    <2>4. NoneYet(src, pending'[src])
      BY <1>1, <2>3, RepliedNone DEF InitLeaves, PortNone
    <2>5. PortNone(src, obuf', pending'[src])
      BY <1>2, <2>3, <2>4 DEF PortNone, NoByte, Sources
    <2>6. k = 0
      BY <2>1 DEF Along
    <2>7. got'[src] = <<>>
      BY <1>2, <2>1, <2>6, MeantNone DEF Along
    <2>8. obuf' \in PortBytes \cup {NoByte} /\ pending'[src] \in Seq(PortBytes)
      BY DEF PipeTypes
    <2>9. Way(src)' \in Seq(PortBytes) /\ NoneYet(src, Way(src)')
      BY <2>5, <2>8, WayNone DEF Way
    <2>10. Stream(src, <<>>, Way(src)', 0, 0)
      BY <2>9, StreamNone
    <2>11. Reader(src, 0, 0)'
      BY InitStays DEF Reader, LoopStages
    <2>12. Along(src, 0, 0)'
      BY <1>2, <2>7, <2>10, <2>11, MeantNone DEF Along
    <2> QED BY <2>12 DEF InStep
  <1> QED BY <1>2, <1>3

-----------------------------------------------------------------------------
(* Every step, and the theorem. *)

LEMMA NoStatus == ~ ValidStatus(255)
  <1>1. (255 \div 2 ^ 7) % 2 = 1
    OBVIOUS
  <1> QED BY <1>1 DEF ValidStatus, BitSet

LEMMA SilentStep ==
  ASSUME PipeTypes, RegsInv, ~ machine.ctl, NoController, [I8042Next]_i8042_vars
  PROVE  machine' = machine /\ sent' = sent /\ NoController'
  <1>0. /\ \A src \in Sources : sent[src] = <<>> /\ got[src] = <<>>
        /\ at # "scan" /\ Full /\ AuxFull /\ Data = 255
    BY DEF NoController, Full, AuxFull, Data
  <1> SUFFICES machine' = machine /\ sent' = sent /\ got' = got
               /\ at' # "scan" /\ (at' \in {"x", "y"} => loc'.s = 255)
    BY <1>0 DEF NoController
  <1>1. CASE i8042_init
    BY <1>1, InitEffect, InitStays DEF InitLeaves, LoopStages
  <1>2. CASE FilesMade \/ Drained
    BY <1>2 DEF FilesMade, Drained, hw, ghost
  <1>3. CASE Poll
    <2>1. at' = "x" /\ loc' = [NoLocals EXCEPT !.s = Data, !.unit = obuf.unit]
      BY <1>0, <1>3, Zenon DEF Poll
    <2>2. loc'.s = 255
      BY <1>0, <2>1 DEF NoLocals
    <2>3. UNCHANGED <<machine, sent, got>>
      BY <1>3 DEF Poll
    <2> QED BY <2>1, <2>2, <2>3
  <1>4. CASE PacketX
    <2>1. loc \in Locals /\ loc.s = 255
      BY <1>4 DEF PacketX, Answered, NoController, RegsInv
    <2> QED BY <1>4, <2>1 DEF PacketX, Locals
  <1>5. CASE PacketY
    <2>1. loc.s = 255
      BY <1>5 DEF PacketY, Answered, NoController
    <2> QED BY <1>5, <2>1, NoStatus DEF PacketY
  <1>6. CASE PacketTimedOut \/ Scan
    BY <1>0, <1>6 DEF PacketTimedOut, Scan
  <1>7. CASE Hardware
    BY <1>7 DEF Hardware, Fill, KeyEvent, MouseEvent, Event
  <1>8. CASE UNCHANGED i8042_vars
    BY <1>0, <1>8 DEF i8042_vars, hw, ghost, drv, NoController
  <1> QED BY <1>1, <1>2, <1>3, <1>4, <1>5, <1>6, <1>7, <1>8 DEF I8042Next, Kernel, i8042_proc

\* A step of i8042_proc.
LEMMA ProcLeaves ==
  ASSUME i8042_proc
  PROVE  machine' = machine /\ sent' = sent /\ trouble \subseteq trouble'
  <1>1. CASE Poll
    <2>1. machine' = machine /\ sent' = sent
      BY <1>1 DEF Poll
    <2>2. trouble' = trouble \/ Trouble("mixed", Mixes)
      BY <1>1, Zenon DEF Poll
    <2> QED BY <2>1, <2>2 DEF Trouble
  <1>2. CASE PacketX
    BY <1>2 DEF PacketX, Trouble
  <1>3. CASE PacketY
    BY <1>3 DEF PacketY, Trouble
  <1>4. CASE PacketTimedOut
    BY <1>4 DEF PacketTimedOut, Trouble, hw
  <1>5. CASE Scan
    <2>1. machine' = machine /\ sent' = sent /\ Trouble("mixed", Mixes)
      BY <1>5 DEF Scan
    <2> QED BY <2>1 DEF Trouble
  <1> QED BY <1>1, <1>2, <1>3, <1>4, <1>5 DEF i8042_proc

LEMMA ProcInStep ==
  ASSUME PipeTypes, RegsInv, UnitTypes, machine.ctl, i8042_proc, "mixed" \notin trouble',
         \A src \in Sources : InStep(src)
  PROVE  \A src \in Sources : InStep(src)'
  <1>1. ~ PacketTimedOut
    BY DEF PacketTimedOut, Trouble
  <1> QED BY <1>1, PollInStep, PacketInStep, ScanInStep DEF i8042_proc

\* The unit that a step of the hardware adds to the books, if any.
Sends(src, u) == src \in {"kbd", "aux"} /\ u \in UnitsOf(src) /\ Event(src, u, Wire(src, u))

LEMMA HardwareSteps ==
  ASSUME Hardware
  PROVE  (\E src \in Sources : Fill(src)) \/ (\E src, u : Sends(src, u))
  <1>1. ASSUME NEW c \in Codes, KeyEvent(c) PROVE Sends("kbd", c)
    BY <1>1 DEF KeyEvent, Sends, UnitsOf, Wire
  <1>2. ASSUME NEW p \in Packets, MouseEvent(p) PROVE Sends("aux", p)
    BY <1>2 DEF MouseEvent, Sends, UnitsOf, Wire
  <1> QED BY <1>1, <1>2 DEF Hardware

\* What UnitsInv says of a machine with a controller.
Books ==
  /\ at \in InitStages => \A src \in Sources : sent[src] = <<>>
  /\ \A src \in Sources : InStep(src)

LEMMA BooksStep ==
  ASSUME OwnInv, RegsInv, UnitTypes, machine.ctl, [I8042Next]_i8042_vars,
         "mixed" \notin trouble => Books
  PROVE  machine' = machine /\ UnitTypes' /\ ("mixed" \notin trouble' => Books')
  <1>0. PipeTypes /\ PipeTypes'
    BY OwnStep DEF OwnInv
  <1>1. sent' = sent => UnitTypes'
    BY DEF UnitTypes
  <1>2. CASE i8042_init
    <2>1. InitLeaves
      BY <1>0, <1>2, InitEffect
    <2>2. ASSUME "mixed" \notin trouble' PROVE Books'
      <3>1. \A src \in Sources : InStep(src) /\ sent[src] = <<>>
        BY <2>1, <2>2 DEF InitLeaves, Books
      <3> QED BY <1>0, <1>2, <3>1, InitInStep DEF Books
    <2> QED BY <1>1, <2>1, <2>2 DEF InitLeaves
  <1>3. CASE FilesMade \/ Drained
    <2>1. at \in {"files", "drain"} /\ at' = "poll" /\ UNCHANGED <<machine, obuf, pending, sent, got, trouble>>
      BY <1>3 DEF FilesMade, Drained, hw, ghost
    <2>2. \A src \in Sources : NotReading(src) /\ NotReading(src)'
      BY <2>1 DEF NotReading
    <2>3. at' \notin InitStages
      BY <2>1 DEF InitStages
    <2>4. ASSUME "mixed" \notin trouble' PROVE \A src \in Sources : InStep(src)'
      BY <1>0, <2>1, <2>2, <2>4, OtherStays DEF Books
    <2> QED BY <1>1, <2>1, <2>3, <2>4 DEF Books
  <1>4. CASE i8042_proc
    <2>1. machine' = machine /\ sent' = sent /\ trouble \subseteq trouble'
      BY <1>4, ProcLeaves
    <2>2. at' \notin InitStages
      BY <1>0, <1>4, ProcStep DEF LoopStages, InitStages
    <2>3. ASSUME "mixed" \notin trouble' PROVE \A src \in Sources : InStep(src)'
      BY <1>0, <1>4, <2>1, <2>3, ProcInStep DEF Books
    <2> QED BY <1>1, <2>1, <2>2, <2>3 DEF Books
  <1>5. ASSUME NEW s \in Sources, Fill(s)
        PROVE  machine' = machine /\ UnitTypes' /\ ("mixed" \notin trouble' => Books')
    <2>1. UNCHANGED <<at, machine, sent, trouble>>
      BY <1>5 DEF Fill, ghost
    <2>2. ASSUME "mixed" \notin trouble' PROVE \A src \in Sources : InStep(src)'
      BY <1>0, <1>5, <2>1, <2>2, FillInStep DEF Books
    <2> QED BY <1>1, <2>1, <2>2 DEF Books
  <1>6. ASSUME NEW src, NEW u, Sends(src, u)
        PROVE  machine' = machine /\ UnitTypes' /\ ("mixed" \notin trouble' => Books')
    <2>1. src \in {"kbd", "aux"} /\ u \in UnitsOf(src) /\ Event(src, u, Wire(src, u))
      BY <1>6 DEF Sends
    <2>2. /\ UNCHANGED <<at, machine>>
          /\ ~ Quiet => (trouble' = IF at \in InitStages THEN trouble \cup {"sick", "mixed"} ELSE trouble)
      BY <2>1 DEF Event
    <2>3. UnitTypes'
      BY <1>0, <2>1, EventUnitTypes
    <2>4. CASE Quiet
      <3>1. at' \notin InitStages
        BY <2>2, <2>4 DEF Quiet, InitStages
      <3>2. \A t \in Sources : InStep(t)'
        BY <1>0, <2>1, <2>4, EventWhenQuiet
      <3> QED BY <2>2, <2>3, <3>1, <3>2 DEF Books
    <2>5. CASE ~ Quiet
      <3>1. ASSUME "mixed" \notin trouble' PROVE Books'
        <4>1. at' \notin InitStages /\ "mixed" \notin trouble
          BY <2>2, <2>5, <3>1
        <4>2. \A t \in Sources : InStep(t)'
          BY <1>0, <2>1, <2>5, <4>1, EventInStep DEF Books
        <4> QED BY <4>1, <4>2 DEF Books
      <3> QED BY <2>2, <2>3, <3>1
    <2> QED BY <2>4, <2>5
  <1>7. CASE UNCHANGED i8042_vars
    <2>1. UNCHANGED <<at, loc, machine, obuf, last, pending, sent, got, trouble>>
      BY <1>7 DEF i8042_vars, drv, hw, ghost
    <2>2. ASSUME NEW src \in Sources, InStep(src) PROVE InStep(src)'
      <3>1. PICK k, j \in Nat : Along(src, k, j)
        BY <2>2 DEF InStep
      <3>2. Way(src)' = Way(src)
        BY <2>1 DEF Way
      <3>3. Grown(src)
        <4>1. Len(sent[src]) \in Nat
          BY DEF UnitTypes
        <4> QED BY <2>1, <4>1 DEF Grown
      <3>4. Reader(src, k, j)'
        BY <1>1, <2>1, <3>1, <3>3, ReaderStays DEF Along
      <3>5. Along(src, k, j)'
        BY <2>1, <3>1, <3>2, <3>4 DEF Along
      <3> QED BY <3>5 DEF InStep
    <2> QED BY <1>1, <2>1, <2>2 DEF Books
  <1> QED BY <1>2, <1>3, <1>4, <1>5, <1>6, <1>7, HardwareSteps DEF I8042Next, Kernel

LEMMA UnitsStep ==
  ASSUME OwnInv, RegsInv, UnitsInv, [I8042Next]_i8042_vars
  PROVE  OwnInv' /\ RegsInv' /\ UnitsInv'
  <1>0. PipeTypes
    BY DEF OwnInv
  <1>1. OwnInv'
    BY OwnStep
  <1>2. RegsInv'
    <2>1. CASE i8042_proc
      <3>1. last' \in Byte /\ loc' \in Locals /\ Handed
        BY <1>0, <2>1, ProcStep
      <3> QED BY <3>1, HandedTypes DEF RegsInv
    <2>2. CASE ~ i8042_proc
      BY <1>0, <2>2, RegsKept DEF I8042Next, Kernel
    <2> QED BY <2>1, <2>2
  <1>3. CASE ~ machine.ctl
    <2>1. machine' = machine /\ sent' = sent /\ NoController'
      BY <1>0, <1>3, SilentStep DEF UnitsInv
    <2>2. UnitTypes'
      BY <2>1 DEF UnitsInv, UnitTypes
    <2> QED BY <1>1, <1>2, <1>3, <2>1, <2>2 DEF UnitsInv
  <1>4. CASE machine.ctl
    <2>1. machine' = machine /\ UnitTypes' /\ ("mixed" \notin trouble' => Books')
      BY <1>4, BooksStep DEF UnitsInv, Books
    <2> QED BY <1>1, <1>2, <1>4, <2>1 DEF UnitsInv, Books
  <1> QED BY <1>3, <1>4

LEMMA UnitsStart == I8042Init => UnitsInv
  <1> SUFFICES ASSUME I8042Init PROVE UnitsInv
    OBVIOUS
  <1>1. /\ at = "init" /\ pending = NoUnits /\ sent = NoUnits /\ got = NoUnits
        /\ obuf \in {NoByte} \cup {[src |-> "kbd", byte |-> c.scan, unit |-> 0] : c \in Codes}
    BY DEF I8042Init
  <1>2. \A src \in Sources : NoUnits[src] = <<>>
    BY DEF NoUnits
  <1>3. PipeTypes
    BY OwnStart DEF OwnInv
  <1>4. UnitTypes
    <2>1. \A src \in Sources : <<>> \in Seq(UnitsOf(src))
      OBVIOUS
    <2> QED BY <1>1, <1>2, <2>1 DEF UnitTypes
  <1>5. ASSUME NEW src \in Sources PROVE InStep(src)
    <2>1. PortNone(src, obuf, pending[src])
      <3>1. obuf.unit = 0
        BY <1>1 DEF NoByte
      <3>2. NoneYet(src, <<>>)
        <4>1. Len(<<>>) = 0
          OBVIOUS
        <4> QED BY <4>1 DEF NoneYet
      <3> QED BY <1>1, <1>2, <3>1, <3>2 DEF PortNone
    <2>2. NotReading(src)
      BY <1>1 DEF NotReading
    <2> QED BY <1>1, <1>2, <1>3, <2>1, <2>2, NoneInStep
  <1> QED BY <1>1, <1>2, <1>4, <1>5 DEF UnitsInv, NoController

LEMMA UnitsAreExact ==
  ASSUME OwnInv, UnitsInv PROVE UnitsExact
  <1> SUFFICES ASSUME "mixed" \notin trouble, NEW src \in Sources
               PROVE  /\ IsPrefix(got[src], Expected(src))
                      /\ Quiet => got[src] = Expected(src)
    BY DEF UnitsExact
  <1>0. PipeTypes
    BY DEF OwnInv
  <1> DEFINE us == sent[src]
             n == Len(us)
  <1>1. us \in Seq(UnitsOf(src)) /\ n \in Nat
    BY DEF UnitsInv, UnitTypes
  <1>2. Expected(src) = Meant(src, us, n)
    <2>1. DOMAIN us = 1 .. n
      BY <1>1
    <2> QED BY <2>1 DEF Expected, Meant
  <1> HIDE DEF us
  <1>3. \E k \in 0 .. n : got[src] = Meant(src, us, k) /\ (Quiet => k = n)
    <2>1. CASE ~ machine.ctl
      <3>1. us = <<>> /\ got[src] = <<>>
        BY <2>1 DEF UnitsInv, NoController, us
      <3>2. n = 0
        BY <3>1
      <3> QED BY <3>1, <3>2, MeantNone
    <2>2. CASE machine.ctl
      <3>1. PICK k, j \in Nat : Along(src, k, j)
        BY <2>2 DEF UnitsInv, InStep
      <3>2. k <= n /\ got[src] = Meant(src, us, k) /\ Stream(src, us, Way(src), k, j)
        BY <3>1 DEF Along, us
      <3>3. ASSUME Quiet PROVE k = n
        <4>1. obuf.src # src /\ pending[src] = <<>>
          BY <3>3 DEF Quiet, NoByte, Sources
        <4>2. Way(src) = <<>>
          BY <1>0, <4>1, WayType
        <4> QED BY <3>2, <4>2 DEF Stream, Ends
      <3> QED BY <1>1, <3>2, <3>3
    <2> QED BY <2>1, <2>2
  <1>4. PICK k \in 0 .. n : got[src] = Meant(src, us, k) /\ (Quiet => k = n)
    BY <1>3
  <1>5. k \in Nat /\ k <= Len(us)
    BY <1>1, <1>4
  <1>6. IsPrefix(Meant(src, us, k), Meant(src, us, n))
    BY <1>1, <1>5, MeantPrefix
  <1> QED BY <1>2, <1>4, <1>6

\* For every set of keys and packets, every number of events, every machine
\* and every order of the hardware's and the driver's steps: unless bytes of
\* two units were read as one or a packet was given up, i8042_proc hands on
\* what the devices sent, in order and once, and all of it by the time it is
\* quiet; also when the loop over prefixes reads an empty port again.
THEOREM UnitsAlwaysExact == InputSpec => []UnitsExact
  <1>1. InputInit => OwnInv /\ RegsInv /\ UnitsInv
    BY OwnStart, RegsStart, UnitsStart DEF InputInit
  <1>2. (OwnInv /\ RegsInv /\ UnitsInv) /\ [InputNext]_InputVars => (OwnInv /\ RegsInv /\ UnitsInv)'
    BY InputSteps, UnitsStep
  <1>3. OwnInv /\ RegsInv /\ UnitsInv => UnitsExact
    BY UnitsAreExact
  <1> QED BY <1>1, <1>2, <1>3, PTL DEF InputSpec
=============================================================================

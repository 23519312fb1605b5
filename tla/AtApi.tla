------------------------------- MODULE AtApi --------------------------------
(***************************************************************************)
(* The conversions in atk_net.c between the arguments of its functions and *)
(* the parameters of AT commands and answers.  A text is a sequence of     *)
(* characters and of words whose spelling does not matter; the parameters  *)
(* of an answer are the sequence of its quoted texts, << >> when it has no *)
(* '='; a value is the tuple of what a function takes or returns.          *)
(***************************************************************************)
EXTENDS Integers, Sequences

Text == Seq(STRING)
Words(v) == [i \in DOMAIN v |-> <<v[i]>>]

\* Settings that are texts, in the order of atk_net.c.
Interface == {"netmask", "mac", "gateway"}
Peer == {"dns", "localport", "remoteport", "remoteip", "staticip"}
Identity == {"version", "moduname"}
XcomPort == {"xcomport"}
Cloud == {"cloudport", "clouddomain", "atklinkpwd", "atkyundevid"}
LinkInfo == {"remotelinkinfo", "locallinkinfo"}
Multicast == {"multcastip", "multcastport"}

\* The get functions of these do not look for quotes but take the answer from behind
\* its '=': of the MAC 17 characters, of the others the line short of one character.
LineRead == {"mac", "remoteip", "moduname"}
FromLine(x, line) == IF x = "mac" THEN SubSeq(line, 1, 17) ELSE Tail(line)

Verbatim ==
    (Interface \cup Peer \cup Identity \cup XcomPort \cup Cloud \cup Multicast) \ LineRead

\* Enumerations.  An enumerator is named by the text the header gives it.
Echo == {"ON", "OFF"}
Dhcp == {"ON", "OFF"}
CloudLink == {"ON", "OFF"}
NetLkSta == {"ON", "OFF"}
EthMod == {"UDP_CLIENT", "UDP_SERVER", "TCP_CLIENT", "TCP_SERVER", "TCP_CLOUD",
           "UDP_MULTICAST"}
Enum == [echo |-> Echo, dhcp |-> Dhcp, cloudlinken |-> CloudLink,
         netlksta |-> NetLkSta, ethmod |-> EthMod]

Baudrate == {"2400", "4800", "9600", "14400", "19200", "38400", "43000", "57600",
             "76800", "115200", "128000", "230400", "256000", "460800", "921600"}
Stop == {"1", "2"}
Data == {"8"}
Parity == {"NONE", "EVEN", "ODD"}

\* atk_ide01_set_uart: the text for each baud rate; get_uart: the texts it knows.
BaudText == [b \in Baudrate |-> IF b = "128000" THEN "120000" ELSE b]
BaudKnown == Baudrate \ {"19200"}

\* rt_uint16_t numbers, printed with %d and read with atoi into a buffer of six.
Number == 0..65535
PackTime == Number
PackLen == 1..1450
LinkNum == Number
Numeric == [uartpacktime |-> PackTime, uartpacklen |-> PackLen, linknum |-> LinkNum]

Digit == [d \in 0..9 |->
    <<"0", "1", "2", "3", "4", "5", "6", "7", "8", "9">>[d + 1]]
DigitOf(c) == CHOOSE d \in 0..9 : Digit[d] = c

Decimal(i) ==
    LET d(k) == Digit[(i \div k) % 10]
    IN  CASE i < 10 -> <<d(1)>>
          [] 10 <= i /\ i < 100 -> <<d(10), d(1)>>
          [] 100 <= i /\ i < 1000 -> <<d(100), d(10), d(1)>>
          [] 1000 <= i /\ i < 10000 -> <<d(1000), d(100), d(10), d(1)>>
          [] 10000 <= i -> <<d(10000), d(1000), d(100), d(10), d(1)>>

\* One step of atoi, which ends at the first character that is not a digit.
Digits(t) == {j \in 1..Len(t) : \A h \in 1..j : t[h] \in {Digit[d] : d \in 0..9}}
Shift(a, t, j) == IF j \in Digits(t) THEN 10 * a + DigitOf(t[j]) ELSE a
Atoi(t) == Shift(Shift(Shift(Shift(Shift(0, t, 1), t, 2), t, 3), t, 4), t, 5) % 65536

-----------------------------------------------------------------------------
\* Mutant: the argument is not looked at.
AcceptsAll(x, v) == TRUE

\* atk_ide01_set_atkyundevid: the device number has 20 characters.
DevId(t) == Len(t) = 20

\* The arguments that the set function of x takes; others are EINVAL.
Accepts(x, v) ==
    CASE x = "uart" -> v \in Baudrate \X Stop \X Data \X Parity
      [] x \in DOMAIN Enum -> v[1] \in Enum[x]
      [] x \in DOMAIN Numeric -> v[1] \in Numeric[x]
      [] x = "atkyundevid" -> DevId(v[1])
      [] OTHER -> TRUE

\* The parameters of the command that the set function of x sends for v.
ArgText(x, v) ==
    CASE x = "uart" -> Words(<<BaudText[v[1]], v[2], v[3], v[4]>>)
      [] x \in DOMAIN Enum -> Words(v)
      [] x \in DOMAIN Numeric -> <<Decimal(v[1])>>
      [] OTHER -> v

\* atk_ide01_get_parameter: a parameter that is not there is reported as found,
\* with an index and a length nobody has set.
JUNK == <<"junk">>
Param(p, i) == IF i <= Len(p) THEN p[i] ELSE JUNK

\* The values among V whose words the parameters p are, or << >> for none.
Known(p, V) ==
    IF \E v \in V : \A i \in DOMAIN v : Param(p, i) = <<v[i]>>
      THEN CHOOSE v \in V : \A i \in DOMAIN v : Param(p, i) = <<v[i]>>
      ELSE << >>

\* What the get function of x makes of the parameters p of an answer: the value,
\* or << >> for ATK_IDE01_ERROR.
Decode(x, p) ==
    CASE x = "uart" -> Known(p, BaudKnown \X Stop \X Data \X Parity)
      [] x = "search" -> <<Param(p, 2)>>
      [] x \in LinkInfo -> <<Param(p, 1), Param(p, 2)>>
      [] x \in DOMAIN Enum -> Known(p, {<<e>> : e \in Enum[x]})
      [] x \in DOMAIN Numeric -> <<Atoi(p[1])>>
      [] x \in LineRead -> <<FromLine(x, p[1])>>
      [] x \in Verbatim -> <<p[1]>>

\* Mutant: an answer without '=' is not refused.
ValueUnchecked(x, p) == IF p = << >> THEN <<JUNK>> ELSE Decode(x, p)

Value(x, p) == IF p = << >> THEN << >> ELSE Decode(x, p)
=============================================================================

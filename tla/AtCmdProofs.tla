----------------------------- MODULE AtCmdProofs ----------------------------
(* What atk_ide01_send_at_cmd and the functions on it can be relied on for,  *)
(* for every set of calls, every module and every time-out, and what a sum   *)
(* of 0 from usart_net_init means.                                           *)
EXTENDS NetInit, SequenceTheorems, TLAPS

-----------------------------------------------------------------------------
(* The invariant *)

\* The command that ends a call: its answer is the call's.  atk_ide01_enter_at_mode
\* sends a search before it.
Final(c) ==
    CASE c.fn = "set" -> Command("set", c.x, ArgText(c.x, c.v))
      [] c.fn = "get" -> Command("get", c.x, << >>)
      [] OTHER -> Command("do", c.x, << >>)

Search == Command("get", "search", << >>)

Accepted == {c \in Calls : c.fn = "set" => Accepts(c.x, c.v)}

Parcels == {Search} \cup {Final(c) : c \in Accepted}

Listed(p) == \E S : p \in Seq(S)

\* What holds whatever is lost, refused or late.
CallInv ==
    /\ TypeOK
    /\ pc # "idle" => call \in Accepted
    /\ pc \in {"send", "wait"} =>
           todo = <<Final(call)>> \/ todo = <<Search, Final(call)>>
    /\ wire \in Seq(Parcels)
    /\ \A x \in Settings : Listed(setting[x]) /\ Listed(saved[x])

\* The parameters with which the module answers c, and the effect of c on it.
AnswerTo(c) == IF c.op = "get" THEN Answer(c.x, setting[c.x]) ELSE << >>
Applied(c) ==
    /\ c.op = "set" => setting[c.x] = c.p
    /\ c.op = "do" /\ c.x = "update" => saved = setting

Refusal == Chunk(<< >>, FALSE)
OneChunk(c) == Chunk(AnswerTo(c), TRUE)
FirstChunk(c) == Chunk(AnswerTo(c), FALSE)
LastChunk == Chunk(<< >>, TRUE)

Silence == wire = << >> /\ back = << >>

\* The buffer holds the end of the answer to c, and c was carried out.
Heard(c) == Applied(c) /\ rx \in {<<OneChunk(c)>>, <<FirstChunk(c), LastChunk>>, <<LastChunk>>}

\* While c is waited for, it is under way, or what came of it is.
UnderWay(c) ==
    \/ wire = <<c>> /\ back = << >> /\ rx = << >>
    \/ /\ wire = << >>
       /\ \/ back = << >> /\ rx \in {<< >>, <<Refusal>>}
          \/ back = <<Refusal>> /\ rx = << >>
          \/ /\ Applied(c)
             /\ \/ back \in {<<OneChunk(c)>>, <<FirstChunk(c), LastChunk>>, <<LastChunk>>} /\ rx = << >>
                \/ back \in {<<LastChunk>>, << >>} /\ rx = <<FirstChunk(c)>>
          \/ back = << >> /\ Heard(c)

\* Nothing is left over from one command to the next.
Awaited(c) == pc = "wait" /\ c = Head(todo)
Answered(c) == pc = "ready" /\ c = Final(call)
Steady ==
    /\ pc # "wait" => Silence
    /\ \A c \in Parcels : (Awaited(c) => UnderWay(c)) /\ (Answered(c) => Heard(c))

-----------------------------------------------------------------------------
(* The conversions of AtApi *)

\* A setting is of one kind.
LEMMA Kinds ==
    ASSUME NEW x
    PROVE  /\ DOMAIN Enum = {"echo", "dhcp", "cloudlinken", "netlksta", "ethmod"}
           /\ DOMAIN Numeric = {"uartpacktime", "uartpacklen", "linknum"}
           /\ x = "uart" =>
                x \notin DOMAIN Enum \cup DOMAIN Numeric \cup Verbatim \cup LineRead
           /\ x \in DOMAIN Enum => x \notin DOMAIN Numeric \cup Verbatim \cup LineRead
           /\ x \in DOMAIN Numeric => x \notin Verbatim \cup LineRead
           /\ x \in Verbatim => x \notin LineRead
           /\ x \in {"uart"} \cup DOMAIN Enum \cup DOMAIN Numeric \cup Verbatim \cup LineRead
                => x # "search" /\ x \notin LinkInfo
<1>1. /\ DOMAIN Enum = {"echo", "dhcp", "cloudlinken", "netlksta", "ethmod"}
      /\ DOMAIN Numeric = {"uartpacktime", "uartpacklen", "linknum"}
  BY DEF Enum, Numeric
<1>2. /\ x \in Verbatim => /\ x \notin LineRead \cup LinkInfo \cup {"uart", "search"}
                           /\ x \notin {"echo", "dhcp", "cloudlinken", "netlksta", "ethmod"}
                           /\ x \notin {"uartpacktime", "uartpacklen", "linknum"}
      /\ LineRead = {"mac", "remoteip", "moduname"}
      /\ LinkInfo = {"remotelinkinfo", "locallinkinfo"}
  BY DEF Verbatim, LineRead, Interface, Peer, Identity, XcomPort, Cloud, Multicast, LinkInfo
<1> QED BY <1>1, <1>2

\* The kinds of settings that have a set function, and the values these take.
LEMMA SetKinds ==
    ASSUME NEW c \in Calls, c.fn = "set", Accepts(c.x, c.v)
    PROVE  \/ c.x = "uart" /\ c.v \in Baudrate \X Stop \X Data \X Parity
           \/ c.x \in DOMAIN Enum /\ c.v = <<c.v[1]>> /\ c.v[1] \in Enum[c.x]
           \/ c.x \in DOMAIN Numeric /\ c.v = <<c.v[1]>> /\ c.v[1] \in Numeric[c.x]
           \/ c.x \in Verbatim /\ c.v = <<c.v[1]>> /\ c.v[1] \in Text
           \/ /\ c.x \in LineRead /\ c.v = <<c.v[1]>> /\ c.v[1] \in Text
              /\ c.v[1] # << >> /\ c.v[1][1] \notin {BLANK, QUOTE}
              /\ c.x = "mac" => Len(c.v[1]) = 17
<1>1. c.x \in {"uart"} \cup DOMAIN Enum \cup DOMAIN Numeric \cup Verbatim \cup LineRead
  BY CallsAssumption DEF Settable
<1>2. c.x # "uart" => c.v = <<c.v[1]>> BY ArgsAssumption
<1>3. CASE c.x = "uart"
  <2>1. c.x \notin DOMAIN Enum /\ c.x \notin DOMAIN Numeric /\ c.x # "atkyundevid"
    BY <1>3, Kinds
  <2>2. c.v \in Baudrate \X Stop \X Data \X Parity BY <1>3, <2>1, Zenon DEF Accepts
  <2> QED BY <1>3, <2>2
<1>4. CASE c.x \in DOMAIN Enum
  <2>1. c.x # "uart" /\ c.x \notin DOMAIN Numeric /\ c.x # "atkyundevid" BY <1>4, Kinds
  <2>2. c.v[1] \in Enum[c.x] BY <1>4, <2>1, Zenon DEF Accepts
  <2> QED BY <1>2, <1>4, <2>1, <2>2
<1>5. CASE c.x \in DOMAIN Numeric
  <2>1. c.x # "uart" /\ c.x \notin DOMAIN Enum /\ c.x # "atkyundevid" BY <1>5, Kinds
  <2>2. c.v[1] \in Numeric[c.x] BY <1>5, <2>1, Zenon DEF Accepts
  <2> QED BY <1>2, <1>5, <2>1, <2>2
<1>6. CASE c.x \in Verbatim \cup LineRead
  <2>1. c.x # "uart" BY <1>6, Kinds
  <2> QED BY <1>2, <1>6, <2>1, ArgsAssumption
<1> QED BY <1>1, <1>3, <1>4, <1>5, <1>6

LEMMA TupleListed ==
    \A a, b, c, d : Listed(<<a>>) /\ Listed(Words(<<a>>)) /\ Listed(Words(<<a, b, c, d>>))
<1> SUFFICES ASSUME NEW a, NEW b, NEW c, NEW d
             PROVE  Listed(<<a>>) /\ Listed(Words(<<a>>)) /\ Listed(Words(<<a, b, c, d>>))
  OBVIOUS
<1>1. Words(<<a>>) = << <<a>> >> BY DEF Words
<1>2. Words(<<a, b, c, d>>) = << <<a>>, <<b>>, <<c>>, <<d>> >> BY DEF Words
<1>3. <<a>> \in Seq({a}) /\ << <<a>> >> \in Seq({<<a>>}) OBVIOUS
<1>4. << <<a>>, <<b>>, <<c>>, <<d>> >> \in Seq({<<a>>, <<b>>, <<c>>, <<d>>}) OBVIOUS
<1>5. Listed(<<a>>) /\ Listed(Words(<<a>>)) BY <1>1, <1>3 DEF Listed
<1>6. Listed(Words(<<a, b, c, d>>)) BY <1>2, <1>4 DEF Listed
<1> QED BY <1>5, <1>6

\* The digits are ten different characters.
LEMMA TenDigits ==
    ASSUME NEW d \in 0..9
    PROVE  DigitOf(Digit[d]) = d
<1>1. /\ Digit[0] = "0" /\ Digit[1] = "1" /\ Digit[2] = "2" /\ Digit[3] = "3"
      /\ Digit[4] = "4" /\ Digit[5] = "5" /\ Digit[6] = "6" /\ Digit[7] = "7"
      /\ Digit[8] = "8" /\ Digit[9] = "9"
  BY DEF Digit
<1>2. ASSUME NEW i \in 0..9
      PROVE  i \in {0, 1, 2, 3, 4, 5, 6, 7, 8, 9}
  OBVIOUS
<1>3. ASSUME NEW i \in 0..9, NEW j \in 0..9, Digit[i] = Digit[j] PROVE i = j
  BY <1>1, <1>2, <1>3
<1> QED BY <1>3 DEF DigitOf

\* atoi takes one digit after the other.
LEMMA AtoiTakes ==
    ASSUME NEW t, NEW n \in 1..5, Len(t) = n, NEW f \in [1..n -> 0..9],
           \A j \in 1..n : t[j] = Digit[f[j]],
           NEW a, NEW j \in 1..5
    PROVE  /\ j <= n => Shift(a, t, j) = 10 * a + f[j]
           /\ j > n => Shift(a, t, j) = a
<1>1. ASSUME NEW k \in 1..n
      PROVE  t[k] \in {Digit[d] : d \in 0..9} /\ DigitOf(t[k]) = f[k]
  <2>1. f[k] \in 0..9 /\ t[k] = Digit[f[k]] OBVIOUS
  <2> QED BY <2>1, TenDigits
<1>2. Digits(t) = 1..n BY <1>1 DEF Digits
<1> QED BY <1>1, <1>2 DEF Shift

\* atoi undoes %d on every rt_uint16_t: the digits of a number make it up.
LEMMA NumberRead == ASSUME NEW i \in Nat, i < 65536 PROVE Atoi(Decimal(i)) = i
<1> DEFINE a == (i \div 10000) % 10
           b == (i \div 1000) % 10
           c == (i \div 100) % 10
           d == (i \div 10) % 10
           e == (i \div 1) % 10
           p == i \div 10
           q == i \div 100
           r == i \div 1000
           s == i \div 10000
<1>1. /\ a \in 0..9 /\ b \in 0..9 /\ c \in 0..9 /\ d \in 0..9 /\ e \in 0..9
      /\ p \in Nat /\ q \in Nat /\ r \in Nat /\ s \in Nat
  BY SMT
<1>2. i = 10 * p + e BY SMT
<1>3. p = 10 * q + d BY SMT
<1>4. q = 10 * r + c BY SMT
<1>5. r = 10 * s + b BY SMT
<1>6. s = a BY SMT
<1>7. i < 10 => p = 0 BY SMT
<1>8. i < 100 => q = 0 BY SMT
<1>9. i < 1000 => r = 0 BY SMT
<1>10. i < 10000 => s = 0 BY SMT
<1>11. i % 65536 = i BY SMT
<1>12. /\ i < 10 => Decimal(i) = <<Digit[e]>>
       /\ 10 <= i /\ i < 100 => Decimal(i) = <<Digit[d], Digit[e]>>
       /\ 100 <= i /\ i < 1000 => Decimal(i) = <<Digit[c], Digit[d], Digit[e]>>
       /\ 1000 <= i /\ i < 10000 => Decimal(i) = <<Digit[b], Digit[c], Digit[d], Digit[e]>>
       /\ 10000 <= i => Decimal(i) = <<Digit[a], Digit[b], Digit[c], Digit[d], Digit[e]>>
  BY SMT DEF Decimal
<1> HIDE DEF a, b, c, d, e, p, q, r, s
<1> DEFINE t == Decimal(i)
<1>13. CASE i < 10
  <2> DEFINE f == <<e>>
  <2>1. i = e BY <1>1, <1>2, <1>7, <1>13, SMT
  <2>2. /\ Len(t) = 1 /\ f \in [1..1 -> 0..9] /\ \A k \in 1..1 : t[k] = Digit[f[k]]
        /\ f[1] = e
    BY <1>1, <1>12, <1>13, SMT
  <2> HIDE DEF t, f
  <2>3. Shift(0, t, 1) = e BY <1>1, <2>2, AtoiTakes, SMT
  <2>4. Shift(e, t, 2) = e BY <1>1, <2>2, AtoiTakes, SMT
  <2>5. Shift(e, t, 3) = e BY <1>1, <2>2, AtoiTakes, SMT
  <2>6. Shift(e, t, 4) = e BY <1>1, <2>2, AtoiTakes, SMT
  <2>7. Shift(e, t, 5) = e BY <1>1, <2>2, AtoiTakes, SMT
  <2>8. Atoi(t) = (e) % 65536 BY <2>3, <2>4, <2>5, <2>6, <2>7, SMT DEF Atoi
  <2> QED BY <1>11, <2>1, <2>8, SMT DEF t
<1>14. CASE 10 <= i /\ i < 100
  <2> DEFINE f == <<d, e>>
  <2>1. i = 10 * d + e BY <1>1, <1>2, <1>3, <1>8, <1>14, SMT
  <2>2. /\ Len(t) = 2 /\ f \in [1..2 -> 0..9] /\ \A k \in 1..2 : t[k] = Digit[f[k]]
        /\ f[1] = d /\ f[2] = e
    BY <1>1, <1>12, <1>14, SMT
  <2> HIDE DEF t, f
  <2>3. Shift(0, t, 1) = d BY <1>1, <2>2, AtoiTakes, SMT
  <2>4. Shift(d, t, 2) = 10 * d + e BY <1>1, <2>2, AtoiTakes, SMT
  <2>5. Shift(10 * d + e, t, 3) = 10 * d + e BY <1>1, <2>2, AtoiTakes, SMT
  <2>6. Shift(10 * d + e, t, 4) = 10 * d + e BY <1>1, <2>2, AtoiTakes, SMT
  <2>7. Shift(10 * d + e, t, 5) = 10 * d + e BY <1>1, <2>2, AtoiTakes, SMT
  <2>8. Atoi(t) = (10 * d + e) % 65536 BY <2>3, <2>4, <2>5, <2>6, <2>7, SMT DEF Atoi
  <2> QED BY <1>11, <2>1, <2>8, SMT DEF t
<1>15. CASE 100 <= i /\ i < 1000
  <2> DEFINE f == <<c, d, e>>
  <2>1. i = 10 * (10 * c + d) + e BY <1>1, <1>2, <1>3, <1>4, <1>9, <1>15, SMT
  <2>2. /\ Len(t) = 3 /\ f \in [1..3 -> 0..9] /\ \A k \in 1..3 : t[k] = Digit[f[k]]
        /\ f[1] = c /\ f[2] = d /\ f[3] = e
    BY <1>1, <1>12, <1>15, SMT
  <2> HIDE DEF t, f
  <2>3. Shift(0, t, 1) = c BY <1>1, <2>2, AtoiTakes, SMT
  <2>4. Shift(c, t, 2) = 10 * c + d BY <1>1, <2>2, AtoiTakes, SMT
  <2>5. Shift(10 * c + d, t, 3) = 10 * (10 * c + d) + e BY <1>1, <2>2, AtoiTakes, SMT
  <2>6. Shift(10 * (10 * c + d) + e, t, 4) = 10 * (10 * c + d) + e
    BY <1>1, <2>2, AtoiTakes, SMT
  <2>7. Shift(10 * (10 * c + d) + e, t, 5) = 10 * (10 * c + d) + e
    BY <1>1, <2>2, AtoiTakes, SMT
  <2>8. Atoi(t) = (10 * (10 * c + d) + e) % 65536
    BY <2>3, <2>4, <2>5, <2>6, <2>7, SMT DEF Atoi
  <2> QED BY <1>11, <2>1, <2>8, SMT DEF t
<1>16. CASE 1000 <= i /\ i < 10000
  <2> DEFINE f == <<b, c, d, e>>
  <2>1. i = 10 * (10 * (10 * b + c) + d) + e
    BY <1>1, <1>2, <1>3, <1>4, <1>5, <1>10, <1>16, SMT
  <2>2. /\ Len(t) = 4 /\ f \in [1..4 -> 0..9] /\ \A k \in 1..4 : t[k] = Digit[f[k]]
        /\ f[1] = b /\ f[2] = c /\ f[3] = d /\ f[4] = e
    BY <1>1, <1>12, <1>16, SMT
  <2> HIDE DEF t, f
  <2>3. Shift(0, t, 1) = b BY <1>1, <2>2, AtoiTakes, SMT
  <2>4. Shift(b, t, 2) = 10 * b + c BY <1>1, <2>2, AtoiTakes, SMT
  <2>5. Shift(10 * b + c, t, 3) = 10 * (10 * b + c) + d BY <1>1, <2>2, AtoiTakes, SMT
  <2>6. Shift(10 * (10 * b + c) + d, t, 4) = 10 * (10 * (10 * b + c) + d) + e
    BY <1>1, <2>2, AtoiTakes, SMT
  <2>7. Shift(10 * (10 * (10 * b + c) + d) + e, t, 5) = 10 * (10 * (10 * b + c) + d) + e
    BY <1>1, <2>2, AtoiTakes, SMT
  <2>8. Atoi(t) = (10 * (10 * (10 * b + c) + d) + e) % 65536
    BY <2>3, <2>4, <2>5, <2>6, <2>7, SMT DEF Atoi
  <2> QED BY <1>11, <2>1, <2>8, SMT DEF t
<1>17. CASE 10000 <= i
  <2> DEFINE f == <<a, b, c, d, e>>
  <2>1. i = 10 * (10 * (10 * (10 * a + b) + c) + d) + e
    BY <1>1, <1>2, <1>3, <1>4, <1>5, <1>6, <1>17, SMT
  <2>2. /\ Len(t) = 5 /\ f \in [1..5 -> 0..9] /\ \A k \in 1..5 : t[k] = Digit[f[k]]
        /\ f[1] = a /\ f[2] = b /\ f[3] = c /\ f[4] = d /\ f[5] = e
    BY <1>1, <1>12, <1>17, SMT
  <2> HIDE DEF t, f
  <2>3. Shift(0, t, 1) = a BY <1>1, <2>2, AtoiTakes, SMT
  <2>4. Shift(a, t, 2) = 10 * a + b BY <1>1, <2>2, AtoiTakes, SMT
  <2>5. Shift(10 * a + b, t, 3) = 10 * (10 * a + b) + c BY <1>1, <2>2, AtoiTakes, SMT
  <2>6. Shift(10 * (10 * a + b) + c, t, 4) = 10 * (10 * (10 * a + b) + c) + d
    <3>1. ASSUME NEW y PROVE Shift(y, t, 4) = 10 * y + f[4] BY <2>2, AtoiTakes, SMT
    <3> QED BY <2>2, <3>1, SMT
  <2>7. Shift(10 * (10 * (10 * a + b) + c) + d, t, 5)
          = 10 * (10 * (10 * (10 * a + b) + c) + d) + e
    BY <1>1, <2>2, AtoiTakes, SMT
  <2>8. Atoi(t) = (10 * (10 * (10 * (10 * a + b) + c) + d) + e) % 65536
    BY <2>3, <2>4, <2>5, <2>6, <2>7, SMT DEF Atoi
  <2> QED BY <1>11, <2>1, <2>8, SMT DEF t
<1> QED BY <1>13, <1>14, <1>15, <1>16, <1>17, SMT

\* What a set function sends is a sequence, and so is what the module answers.
LEMMA ArgTexts ==
    ASSUME NEW c \in Calls, c.fn = "set", Accepts(c.x, c.v)
    PROVE  Listed(ArgText(c.x, c.v))
<1>1. CASE c.x = "uart"
  <2>1. c.x \notin DOMAIN Enum /\ c.x \notin DOMAIN Numeric BY <1>1, Kinds
  <2>2. ArgText(c.x, c.v) = Words(<<BaudText[c.v[1]], c.v[2], c.v[3], c.v[4]>>)
    BY <1>1, <2>1 DEF ArgText
  <2> QED BY <2>2, TupleListed, Zenon
<1>2. CASE c.x \in DOMAIN Enum /\ c.v = <<c.v[1]>>
  <2>1. c.x # "uart" /\ c.x \notin DOMAIN Numeric BY <1>2, Kinds
  <2>2. ArgText(c.x, c.v) = Words(c.v) BY <1>2, <2>1 DEF ArgText
  <2> QED BY <1>2, <2>2, TupleListed
<1>3. CASE c.x \in DOMAIN Numeric
  <2>1. c.x # "uart" /\ c.x \notin DOMAIN Enum BY <1>3, Kinds
  <2>2. ArgText(c.x, c.v) = <<Decimal(c.v[1])>> BY <1>3, <2>1 DEF ArgText
  <2> QED BY <2>2, TupleListed
<1>4. CASE c.x \in Verbatim \cup LineRead /\ c.v = <<c.v[1]>>
  <2>1. c.x # "uart" /\ c.x \notin DOMAIN Enum /\ c.x \notin DOMAIN Numeric
    BY <1>4, Kinds
  <2>2. ArgText(c.x, c.v) = <<c.v[1]>> BY <1>4, <2>1 DEF ArgText
  <2> QED BY <2>2, TupleListed
<1> QED BY <1>1, <1>2, <1>3, <1>4, SetKinds

LEMMA AnswerTexts ==
    ASSUME NEW x, NEW p, Listed(p) PROVE Listed(Answer(x, p))
<1>1. CASE x \notin LineRead BY <1>1 DEF Answer
<1>2. CASE x \in LineRead
  <2>1. Len(p) \in Nat /\ DOMAIN p = 1..Len(p) BY DEF Listed
  <2> DEFINE S == {Laid(Layout[x], p[i]) : i \in 1..Len(p)}
  <2>2. Answer(x, p) = [i \in 1..Len(p) |-> Laid(Layout[x], p[i])] BY <1>2, <2>1 DEF Answer
  <2>3. Answer(x, p) \in [1..Len(p) -> S] BY <2>2
  <2>4. Answer(x, p) \in Seq(S) BY <2>1, <2>3
  <2> QED BY <2>4 DEF Listed
<1> QED BY <1>1, <1>2

-----------------------------------------------------------------------------
(* Commands and chunks *)

\* One command and its position in a call.
LEMMA CommandsAre ==
    ASSUME NEW c \in Calls
    PROVE  Commands(c) = <<Final(c)>> \/ Commands(c) = <<Search, Final(c)>>
<1>1. c.fn \in {"set", "get", "do"} BY CallsAssumption DEF Fns
<1>2. CASE c.fn = "set" BY <1>2 DEF Commands, Final
<1>3. CASE c.fn = "get" BY <1>3 DEF Commands, Final
<1>4. CASE c.fn = "do"
  <2>1. Final(c) = Command("do", c.x, << >>) BY <1>4 DEF Final
  <2>2. CASE c.x = "enter" BY <1>4, <2>1, <2>2 DEF Commands, Search
  <2>3. CASE c.x # "enter" BY <1>4, <2>1, <2>3 DEF Commands
  <2> QED BY <2>2, <2>3
<1> QED BY <1>1, <1>2, <1>3, <1>4

LEMMA CommandFields ==
    ASSUME NEW op, NEW x, NEW p
    PROVE  /\ Command(op, x, p).op = op
           /\ Command(op, x, p).x = x
           /\ Command(op, x, p).p = p
BY DEF Command

\* The fields of the commands that are ever sent.
LEMMA ParcelFields ==
    ASSUME NEW c \in Parcels
    PROVE  /\ c.op = "set" => c.x \in Settings /\ Listed(c.p)
           /\ c.op \in {"set", "get", "do"}
<1>1. CASE c = Search BY <1>1, CommandFields DEF Search
<1>2. ASSUME NEW d \in Accepted, c = Final(d) PROVE c.op = "set" => c.x \in Settings /\ Listed(c.p)
  <2>1. d \in Calls /\ (d.fn = "set" => Accepts(d.x, d.v)) BY DEF Accepted
  <2>2. CASE d.fn = "set"
    <3>1. c = Command("set", d.x, ArgText(d.x, d.v)) BY <1>2, <2>2 DEF Final
    <3>2. c.x = d.x /\ c.p = ArgText(d.x, d.v) BY <3>1, CommandFields
    <3> QED BY <2>1, <2>2, <3>2, CallsAssumption, ArgTexts
  <2>3. CASE d.fn # "set"
    <3>1. c = Command("get", d.x, << >>) \/ c = Command("do", d.x, << >>)
      BY <1>2, <2>3 DEF Final
    <3> QED BY <3>1, CommandFields
  <2> QED BY <2>2, <2>3
<1>3. ASSUME NEW d \in Accepted, c = Final(d) PROVE c.op \in {"set", "get", "do"}
  BY <1>3, CommandFields DEF Final
<1> QED BY <1>1, <1>2, <1>3, CommandFields DEF Parcels, Search

LEMMA FinalFields ==
    ASSUME NEW c \in Calls
    PROVE  /\ c.fn = "set" => /\ Final(c).op = "set" /\ Final(c).x = c.x
                              /\ Final(c).p = ArgText(c.x, c.v)
           /\ c.fn = "get" => Final(c).op = "get" /\ Final(c).x = c.x
           /\ c.fn = "do" => Final(c).op = "do" /\ Final(c).x = c.x
<1>1. CASE c.fn = "set" BY <1>1, CommandFields DEF Final
<1>2. CASE c.fn = "get" BY <1>2, CommandFields DEF Final
<1>3. CASE c.fn = "do" BY <1>3, CommandFields DEF Final
<1> QED BY <1>1, <1>2, <1>3

LEMMA ChunkFields ==
    ASSUME NEW p, NEW ok PROVE Chunk(p, ok).par = p /\ Chunk(p, ok).ok = ok
BY DEF Chunk

\* Which buffers end the polling loop.
LEMMA AckedIn ==
    /\ rx = << >> => ~Acked
    /\ \A a : rx = <<a>> => (Acked <=> a.ok)
    /\ \A a, b : rx = <<a, b>> => (Acked <=> a.ok \/ b.ok)
BY DEF Acked

\* The parameters in a buffer of one chunk, and of one that was cut in two.
LEMMA ParamsOne == ASSUME NEW a PROVE ParamsOf(<<a>>) = a.par
<1>1. [i \in DOMAIN <<a>> |-> <<a>>[i].par] = <<a.par>> OBVIOUS
<1>2. ASSUME NEW p PROVE FlattenSeq(<<p>>) = p BY DEF FlattenSeq
<1> QED BY <1>1, <1>2 DEF ParamsOf

LEMMA ParamsTwo ==
    ASSUME NEW a, NEW b, Listed(a.par), b.par = << >>
    PROVE  ParamsOf(<<a, b>>) = a.par
<1> DEFINE s == <<a.par, << >> >>
           fix(f) == f = [i \in 1..Len(s) |-> IF i = 1 THEN s[i] ELSE f[i-1] \o s[i]]
           flat == CHOOSE f : fix(f)
<1>0. PICK S : a.par \in Seq(S) BY DEF Listed
<1>1. [i \in DOMAIN <<a, b>> |-> <<a, b>>[i].par] = s OBVIOUS
<1>2. FlattenSeq(s) = flat[Len(s)] BY DEF FlattenSeq
<1>3. fix(<<a.par, a.par \o << >> >>) BY <1>0
<1>4. fix(flat) BY <1>3
<1>5. ASSUME NEW f, fix(f) PROVE f[2] = a.par \o << >>
  <2>1. f[1] = a.par BY <1>5
  <2>2. f[2] = f[1] \o << >> BY <1>0, <1>5
  <2> QED BY <2>1, <2>2
<1> HIDE DEF flat, fix
<1>6. flat[2] = a.par \o << >> BY <1>4, <1>5
<1>7. a.par \o << >> = a.par /\ Len(s) = 2 BY <1>0
<1>8. ParamsOf(<<a, b>>) = FlattenSeq(s) BY <1>1 DEF ParamsOf
<1> HIDE DEF s
<1> QED BY <1>2, <1>6, <1>7, <1>8

-----------------------------------------------------------------------------
(* CallInv *)

LEMMA CallInvInit == Init => CallInv
<1> SUFFICES ASSUME Init PROVE CallInv
  OBVIOUS
<1> USE DEF Init
<1>1. /\ \A x \in Settings : Listed(setting[x]) /\ Listed(saved[x])
      /\ DOMAIN setting = Settings /\ DOMAIN saved = Settings
  BY StartAssumption DEF Listed
<1>2. TypeOK BY <1>1, TimeoutAssumption DEF TypeOK
<1> QED BY <1>1, <1>2 DEF CallInv

\* The last call's result and the settings are the only fields a return changes.
LEMMA ReturnOK ==
    ASSUME CallInv, NEW res \in {"EOK", "ERROR", "EINVAL"}, NEW heard, NEW val,
           Return(res, heard, val), UNCHANGED <<wire, module>>
    PROVE  CallInv'
<1> USE DEF CallInv, Return, module
<1>1. last'.res = res OBVIOUS
<1>2. timeout' \in 0..Timeout BY TimeoutAssumption
<1>3. TypeOK' BY <1>1, <1>2 DEF TypeOK
<1> QED BY <1>3

LEMMA NotEmpty == \A a, b : <<a>> # << >> /\ <<a, b>> # << >>
OBVIOUS

LEMMA CallStep ==
    ASSUME CallInv, NEW c \in Calls, Call(c) PROVE CallInv'
<1> USE DEF CallInv, Call, module
<1>1. CASE c.fn = "set" /\ ~Accepts(c.x, c.v)
  <2>1. last'.res = "EINVAL" BY <1>1
  <2>2. TypeOK' BY <1>1, <2>1 DEF TypeOK
  <2> QED BY <1>1, <2>2
<1>2. CASE ~(c.fn = "set" /\ ~Accepts(c.x, c.v))
  <2>1. pc' = "send" /\ call' = c /\ todo' = Commands(c) BY <1>2
  <2>2. c \in Accepted BY <1>2 DEF Accepted
  <2>3. todo' = <<Final(c)>> \/ todo' = <<Search, Final(c)>> BY <2>1, CommandsAre
  <2>4. todo' # << >> BY <2>3, NotEmpty
  <2>5. UNCHANGED <<timeout, last, setting, saved, atmode>> BY <1>2
  <2>6. TypeOK' BY <2>1, <2>4, <2>5 DEF TypeOK
  <2> QED BY <2>1, <2>2, <2>3, <2>6
<1> QED BY <1>1, <1>2

\* The command that is being sent or waited for.
LEMMA HeadIs ==
    ASSUME CallInv, pc \in {"send", "wait"}
    PROVE  /\ Head(todo) \in Parcels
           /\ \/ todo = <<Final(call)>> /\ Head(todo) = Final(call) /\ Len(todo) = 1
              \/ /\ todo = <<Search, Final(call)>> /\ Head(todo) = Search
                 /\ Len(todo) = 2 /\ Tail(todo) = <<Final(call)>>
<1>1. call \in Accepted BY DEF CallInv
<1>2. Final(call) \in Parcels /\ Search \in Parcels BY <1>1 DEF Parcels
<1>3. CASE todo = <<Final(call)>> BY <1>2, <1>3
<1>4. CASE todo = <<Search, Final(call)>> BY <1>2, <1>4
<1> QED BY <1>3, <1>4 DEF CallInv

LEMMA StepStep ==
    ASSUME CallInv, Step PROVE CallInv'
<1> USE DEF CallInv, module
<1>1. CASE Send
  <2> USE <1>1 DEF Send
  <2>0. wire \in Seq(Parcels) /\ Head(todo) \in Parcels BY HeadIs
  <2>1. wire' \in Seq(Parcels)
    <3>1. wire' = Append(wire, Head(todo)) \/ wire' = wire OBVIOUS
    <3> HIDE DEF Send, CallInv
    <3> QED BY <2>0, <3>1
  <2>2. TypeOK' BY TimeoutAssumption DEF TypeOK
  <2> QED BY <2>1, <2>2
<1>2. CASE Ack
  <2> USE <1>2 DEF Ack
  <2>1. CASE Len(todo) > 1
    <3>1. pc' = "send" /\ todo' = <<Final(call)>> BY <2>1, HeadIs
    <3>2. TypeOK' BY <3>1 DEF TypeOK
    <3> QED BY <3>1, <3>2
  <2>2. CASE ~(Len(todo) > 1)
    <3>1. pc' = "ready" BY <2>2
    <3>2. TypeOK' BY <3>1 DEF TypeOK
    <3> QED BY <3>1, <3>2
  <2> QED BY <2>1, <2>2
<1>3. CASE Tick
  <2>1. CASE timeout > 1
    <3> USE <1>3, <2>1 DEF Tick
    <3>1. TypeOK' BY TimeoutAssumption DEF TypeOK
    <3> QED BY <3>1
  <2>2. CASE ~(timeout > 1)
    BY <1>3, <2>2, ReturnOK DEF Tick
  <2> QED BY <2>1, <2>2
<1>4. CASE SetDone BY <1>4, ReturnOK DEF SetDone
<1>5. CASE GetDone
  <2> DEFINE p == ParamsOf(rx)
             val == Value(call.x, p)
             res == IF val = << >> THEN "ERROR" ELSE "EOK"
  <2>1. Return(res, p, val) /\ UNCHANGED <<wire, module>> BY <1>5 DEF GetDone
  <2>2. res \in {"EOK", "ERROR", "EINVAL"} OBVIOUS
  <2> HIDE DEF p, val, res
  <2> QED BY <2>1, <2>2, ReturnOK
<1> QED BY <1>1, <1>2, <1>3, <1>4, <1>5 DEF Step

\* What the module does with a command keeps its settings texts.
LEMMA ApplyTypes ==
    ASSUME CallInv, NEW c \in Parcels, Apply(c)
    PROVE  /\ \A x \in Settings : Listed(setting'[x]) /\ Listed(saved'[x])
           /\ DOMAIN setting' = Settings /\ DOMAIN saved' = Settings /\ atmode' \in BOOLEAN
<1>0. /\ \A x \in Settings : Listed(setting[x]) /\ Listed(saved[x])
      /\ DOMAIN setting = Settings /\ DOMAIN saved = Settings
  BY DEF CallInv, TypeOK
<1>1. DOMAIN setting' = Settings /\ \A x \in Settings : Listed(setting'[x])
  <2>1. CASE c.op = "set"
    <3>1. setting' = [setting EXCEPT ![c.x] = c.p] BY <2>1 DEF Apply
    <3>2. c.x \in Settings /\ Listed(c.p) BY <2>1, ParcelFields
    <3>3. ASSUME NEW x \in Settings PROVE setting'[x] = c.p \/ setting'[x] = setting[x]
      BY <1>0, <3>1
    <3>4. DOMAIN setting' = Settings BY <1>0, <3>1
    <3> HIDE DEF Listed
    <3> QED BY <1>0, <3>2, <3>3, <3>4
  <2>2. CASE c.op # "set"
    <3>1. setting' = saved \/ setting' = setting BY <2>2 DEF Apply
    <3> QED BY <1>0, <3>1
  <2> QED BY <2>1, <2>2
<1>2. saved' = saved \/ saved' = setting BY DEF Apply
<1>3. atmode' \in BOOLEAN BY DEF Apply, CallInv, TypeOK
<1> QED BY <1>0, <1>1, <1>2, <1>3

LEMMA WorldStep ==
    ASSUME CallInv, World PROVE CallInv'
<1>1. CASE Execute
  <2>1. Head(wire) \in Parcels /\ wire' \in Seq(Parcels) BY <1>1 DEF Execute, CallInv
  <2>2. /\ \A x \in Settings : Listed(setting'[x]) /\ Listed(saved'[x])
        /\ DOMAIN setting' = Settings /\ DOMAIN saved' = Settings /\ atmode' \in BOOLEAN
    <3>1. CASE Apply(Head(wire)) BY <2>1, <3>1, ApplyTypes
    <3>2. CASE UNCHANGED module BY <3>2 DEF module, CallInv, TypeOK
    <3> QED BY <1>1, <3>1, <3>2 DEF Execute
  <2>3. UNCHANGED driver BY <1>1 DEF Execute
  <2>4. TypeOK' BY <2>2, <2>3 DEF TypeOK, CallInv, driver
  <2> QED BY <2>1, <2>2, <2>3, <2>4 DEF CallInv, driver
<1>2. CASE Deliver
  <2> USE <1>2 DEF Deliver, CallInv, module
  <2>1. TypeOK' BY DEF TypeOK
  <2> QED BY <2>1
<1>3. CASE Lose
  <2> USE <1>3 DEF Lose, CallInv, module, driver
  <2>1. TypeOK' BY DEF TypeOK
  <2> QED BY <2>1
<1> QED BY <1>1, <1>2, <1>3 DEF World

LEMMA CallInvNext == CallInv /\ [Next]_vars => CallInv'
<1> SUFFICES ASSUME CallInv, [Next]_vars PROVE CallInv'
  OBVIOUS
<1>1. CASE UNCHANGED vars
  <2> USE <1>1 DEF vars, driver, module, CallInv
  <2>1. TypeOK' BY DEF TypeOK
  <2> QED BY <2>1
<1> QED BY <1>1, StepStep, WorldStep, CallStep DEF Next

\* A call of atk_net.c that has been made has a command to send or to wait for, and its
\* count of rounds is in range until it returns.
THEOREM AtTypes == Spec => []TypeOK
<1>1. CallInv => TypeOK BY DEF CallInv
<1> QED BY <1>1, CallInvInit, CallInvNext, PTL DEF Spec

-----------------------------------------------------------------------------
(* Steady *)

LEMMA SteadyInit == Init => Steady
BY DEF Init, Steady, Silence, Awaited, Answered

\* What the module answers and what it has done stay as they are while it is left alone.
LEMMA SameAnswer ==
    ASSUME UNCHANGED module, NEW c
    PROVE  /\ AnswerTo(c)' = AnswerTo(c) /\ Applied(c)' = Applied(c)
           /\ OneChunk(c)' = OneChunk(c) /\ FirstChunk(c)' = FirstChunk(c)
BY DEF module, AnswerTo, Applied, OneChunk, FirstChunk, Chunk

\* A command that is carried out has its effect, and its answer is the one of now.
LEMMA Effect ==
    ASSUME CallInv, NEW c \in Parcels, Apply(c)
    PROVE  Applied(c)' /\ AnswerTo(c)' = AnswerTo(c)
<1>1. c.op = "set" => setting'[c.x] = c.p
  <2> SUFFICES ASSUME c.op = "set" PROVE setting'[c.x] = c.p
    OBVIOUS
  <2>1. setting' = [setting EXCEPT ![c.x] = c.p] BY DEF Apply
  <2>2. c.x \in Settings BY ParcelFields
  <2> QED BY <2>1, <2>2 DEF CallInv, TypeOK
<1>2. c.op = "do" /\ c.x = "update" => saved' = setting'
  <2> SUFFICES ASSUME c.op = "do", c.x = "update" PROVE saved' = setting'
    OBVIOUS
  <2> QED BY DEF Apply
<1>3. c.op = "get" => setting' = setting BY DEF Apply
<1> QED BY <1>1, <1>2, <1>3 DEF Applied, AnswerTo

LEMMA ExecuteSteady ==
    ASSUME CallInv, NEW c \in Parcels, UnderWay(c), Execute
    PROVE  UnderWay(c)' /\ (Apply(c) \/ UNCHANGED module)
<1>1. wire = <<c>> /\ back = << >> /\ rx = << >> BY DEF UnderWay, Execute
<1>2. Head(wire) = c /\ wire' = << >> /\ rx' = << >>
  BY <1>1 DEF Execute, driver
<1> DEFINE p == IF c.op = "get" THEN Answer(c.x, setting[c.x]) ELSE << >>
<1>3. p = AnswerTo(c) BY DEF AnswerTo
<1>4. \/ /\ Apply(c)
         /\ \E split \in Split :
               back' = back \o IF split /\ p # << >>
                                 THEN <<Chunk(p, FALSE), Chunk(<< >>, TRUE)>>
                                 ELSE <<Chunk(p, TRUE)>>
      \/ back' = Append(back, Chunk(<< >>, FALSE)) /\ UNCHANGED module
      \/ UNCHANGED <<back, module>>
  BY <1>2 DEF Execute
<1> HIDE DEF p
<1>5. CASE /\ Apply(c)
           /\ \E split \in Split :
                 back' = back \o IF split /\ p # << >>
                                   THEN <<Chunk(p, FALSE), Chunk(<< >>, TRUE)>>
                                   ELSE <<Chunk(p, TRUE)>>
  <2>1. Applied(c)' /\ AnswerTo(c)' = AnswerTo(c) BY <1>5, Effect
  <2>2. \A a, b : << >> \o <<a>> = <<a>> /\ << >> \o <<a, b>> = <<a, b>>
    OBVIOUS
  <2>3. PICK split \in Split :
            back' = back \o IF split /\ p # << >>
                              THEN <<Chunk(p, FALSE), Chunk(<< >>, TRUE)>>
                              ELSE <<Chunk(p, TRUE)>>
    BY <1>5
  <2>4. CASE split /\ p # << >>
    <3>1. back' = << >> \o <<Chunk(p, FALSE), Chunk(<< >>, TRUE)>> BY <1>1, <2>3, <2>4
    <3>2. back' = <<Chunk(p, FALSE), Chunk(<< >>, TRUE)>> BY <3>1, <2>2
    <3>3. back' = <<FirstChunk(c)', LastChunk>>
      BY <1>3, <2>1, <3>2 DEF FirstChunk, LastChunk
    <3> QED BY <1>2, <1>5, <2>1, <3>3 DEF UnderWay, LastChunk, Chunk
  <2>5. CASE ~(split /\ p # << >>)
    <3>1. back' = << >> \o <<Chunk(p, TRUE)>> BY <1>1, <2>3, <2>5
    <3>2. back' = <<Chunk(p, TRUE)>> BY <3>1, <2>2
    <3>3. back' = <<OneChunk(c)'>> BY <1>3, <2>1, <3>2 DEF OneChunk
    <3> QED BY <1>2, <1>5, <2>1, <3>3 DEF UnderWay
  <2> QED BY <2>4, <2>5
<1>6. CASE back' = Append(back, Chunk(<< >>, FALSE)) /\ UNCHANGED module
  <2>1. back' = <<Refusal>> BY <1>1, <1>6 DEF Refusal
  <2> QED BY <1>2, <1>6, <2>1 DEF UnderWay, Refusal, Chunk
<1>7. CASE UNCHANGED <<back, module>>
  BY <1>1, <1>2, <1>7 DEF UnderWay
<1> QED BY <1>4, <1>5, <1>6, <1>7

LEMMA ArrivalSteady ==
    ASSUME NEW c, UnderWay(c), Deliver \/ Lose
    PROVE  UnderWay(c)'
<1>1. UNCHANGED <<wire, module>> BY DEF Deliver, Lose
<1>2. wire = << >> /\ back # << >> BY DEF UnderWay, Deliver, Lose
<1>3. back' = Tail(back) /\ (rx' = Append(rx, Head(back)) \/ rx' = rx)
  BY DEF Deliver, Lose, driver
<1>4. /\ Applied(c)' = Applied(c) /\ OneChunk(c)' = OneChunk(c)
      /\ FirstChunk(c)' = FirstChunk(c)
  BY <1>1, SameAnswer
<1>5. LastChunk' = LastChunk /\ Refusal' = Refusal BY DEF LastChunk, Refusal, Chunk
<1>6. CASE back = <<Refusal>> /\ rx = << >>
  <2>1. back' = << >> /\ (rx' = <<Refusal>> \/ rx' = << >>) BY <1>3, <1>6
  <2> QED BY <1>1, <1>2, <1>5, <2>1 DEF UnderWay
<1>7. CASE Applied(c) /\ rx = << >> /\ back = <<OneChunk(c)>>
  <2>1. back' = << >> /\ (rx' = <<OneChunk(c)>> \/ rx' = << >>) BY <1>3, <1>7
  <2> QED BY <1>1, <1>2, <1>4, <1>7, <2>1 DEF UnderWay, Heard
<1>8. CASE Applied(c) /\ rx = << >> /\ back = <<FirstChunk(c), LastChunk>>
  <2>1. back' = <<LastChunk>> /\ (rx' = <<FirstChunk(c)>> \/ rx' = << >>) BY <1>3, <1>8
  <2> QED BY <1>1, <1>2, <1>4, <1>5, <1>8, <2>1 DEF UnderWay
<1>9. CASE Applied(c) /\ rx = << >> /\ back = <<LastChunk>>
  <2>1. back' = << >> /\ (rx' = <<LastChunk>> \/ rx' = << >>) BY <1>3, <1>9
  <2> QED BY <1>1, <1>2, <1>4, <1>5, <1>9, <2>1 DEF UnderWay, Heard
<1>10. CASE Applied(c) /\ rx = <<FirstChunk(c)>> /\ back = <<LastChunk>>
  <2>1. back' = << >> /\ (rx' = <<FirstChunk(c), LastChunk>> \/ rx' = <<FirstChunk(c)>>)
    BY <1>3, <1>10
  <2> QED BY <1>1, <1>2, <1>4, <1>5, <1>10, <2>1 DEF UnderWay, Heard
<1> QED BY <1>2, <1>6, <1>7, <1>8, <1>9, <1>10 DEF UnderWay

\* A round of the polling loop: what it drops is never the end of an answer.
LEMMA RoundSteady ==
    ASSUME NEW c, UnderWay(c), ~Acked, rx' = << >>, UNCHANGED <<wire, back, module>>
    PROVE  UnderWay(c)'
<1>1. /\ Applied(c)' = Applied(c) /\ OneChunk(c)' = OneChunk(c)
      /\ FirstChunk(c)' = FirstChunk(c)
  BY SameAnswer
<1>2. LastChunk' = LastChunk /\ Refusal' = Refusal BY DEF LastChunk, Refusal, Chunk
<1>3. ~Heard(c)
  <2>1. OneChunk(c).ok /\ LastChunk.ok BY ChunkFields DEF OneChunk, LastChunk
  <2> QED BY <2>1, AckedIn DEF Heard
<1> QED BY <1>1, <1>2, <1>3 DEF UnderWay

\* The loop ends on the end of the answer only, when the command was carried out.
LEMMA AckHeard ==
    ASSUME NEW c, UnderWay(c), Acked
    PROVE  Silence /\ Heard(c)
<1>1. ~FirstChunk(c).ok /\ ~Refusal.ok BY ChunkFields DEF FirstChunk, Refusal
<1>2. rx # << >> /\ rx # <<Refusal>> /\ rx # <<FirstChunk(c)>> BY <1>1, AckedIn
<1> QED BY <1>2 DEF UnderWay, Silence

\* Only what the module does while a command is waited for changes its settings.
LEMMA ModuleStep ==
    ASSUME CallInv, Steady, [Next]_vars
    PROVE  \/ UNCHANGED module
           \/ /\ pc = "wait" /\ Apply(Head(todo))
              /\ UNCHANGED driver
<1>1. CASE Execute
  <2>1. wire # << >> BY <1>1 DEF Execute
  <2>2. pc = "wait" BY <2>1 DEF Steady, Silence
  <2>3. PICK c \in Parcels : c = Head(todo) BY <2>2, HeadIs
  <2>4. UnderWay(c) BY <2>2, <2>3 DEF Steady, Awaited
  <2>5. Apply(c) \/ UNCHANGED module BY <1>1, <2>4, ExecuteSteady
  <2>6. UNCHANGED driver BY <1>1 DEF Execute
  <2> QED BY <2>2, <2>3, <2>5, <2>6
<1>2. CASE Deliver \/ Lose BY <1>2 DEF Deliver, Lose
<1>3. CASE Step BY <1>3 DEF Step, Send, Ack, Tick, SetDone, GetDone
<1>4. ASSUME NEW c \in Calls, Call(c) PROVE UNCHANGED module BY <1>4 DEF Call
<1>5. CASE UNCHANGED vars BY <1>5 DEF vars
<1> QED BY <1>1, <1>2, <1>3, <1>4, <1>5 DEF Next, World

\* As long as no command times out before its answer, nothing is left over.
LEMMA SteadyNext ==
    ASSUME CallInv, Steady, [Next]_vars, Tick => Timely \/ timeout # 1
    PROVE  Steady'
<1>1. CASE UNCHANGED vars
  <2>1. UNCHANGED module /\ UNCHANGED <<rx, pc, call, todo, wire, back>>
    BY <1>1 DEF vars, driver
  <2>2. ASSUME NEW c \in Parcels
        PROVE  (UnderWay(c) => UnderWay(c)') /\ (Heard(c) => Heard(c)')
    BY <2>1, SameAnswer DEF UnderWay, Heard, LastChunk, Refusal, Chunk
  <2> QED BY <2>1, <2>2 DEF Steady, Silence, Awaited, Answered
<1>2. ASSUME NEW d \in Calls, Call(d) PROVE Steady'
  <2>1. pc = "idle" /\ pc' \in {"idle", "send"} /\ UNCHANGED <<wire, back>>
    BY <1>2 DEF Call
  <2> QED BY <2>1 DEF Steady, Silence, Awaited, Answered
<1>3. CASE Send
  <2>1. pc = "send" /\ pc' = "wait" /\ rx' = << >> /\ todo' = todo /\ back' = back
    BY <1>3 DEF Send
  <2>2. Silence BY <2>1 DEF Steady
  <2>3. wire' = <<Head(todo)>> \/ wire' = << >> BY <1>3, <2>2 DEF Send, Silence
  <2>4. ASSUME NEW c \in Parcels, c = Head(todo) PROVE UnderWay(c)'
    BY <2>1, <2>2, <2>3, <2>4 DEF UnderWay, Silence
  <2> QED BY <2>1, <2>4 DEF Steady, Awaited, Answered
<1>4. CASE Ack
  <2>1. pc = "wait" /\ Acked /\ call' = call /\ UNCHANGED <<rx, wire, back, module>>
    BY <1>4 DEF Ack
  <2>2. PICK c \in Parcels : c = Head(todo) BY <2>1, HeadIs
  <2>3. UnderWay(c) BY <2>1, <2>2 DEF Steady, Awaited
  <2>4. Silence /\ Heard(c) BY <2>1, <2>3, AckHeard
  <2>5. Heard(c)' BY <2>1, <2>4, SameAnswer DEF Heard, LastChunk, Chunk
  <2>6. Silence' BY <2>1, <2>4 DEF Silence
  <2>7. CASE Len(todo) > 1
    <3>1. pc' = "send" BY <1>4, <2>7 DEF Ack
    <3> QED BY <2>6, <3>1 DEF Steady, Awaited, Answered
  <2>8. CASE ~(Len(todo) > 1)
    <3>1. pc' = "ready" BY <1>4, <2>8 DEF Ack
    <3>2. c = Final(call) BY <2>1, <2>2, <2>8, HeadIs
    <3> QED BY <2>1, <2>5, <2>6, <3>1, <3>2 DEF Steady, Awaited, Answered
  <2> QED BY <2>7, <2>8
<1>5. CASE Tick
  <2>1. /\ pc = "wait" /\ ~Acked /\ rx' = << >> /\ UNCHANGED <<wire, back, module>>
        /\ Timely /\ timeout = 1 => wire = << >> /\ back = << >>
    BY <1>5 DEF Tick
  <2>2. CASE timeout > 1
    <3>1. pc' = "wait" /\ todo' = todo BY <1>5, <2>1, <2>2 DEF Tick
    <3>2. ASSUME NEW c \in Parcels, c = Head(todo) PROVE UnderWay(c)'
      <4>1. UnderWay(c) BY <2>1, <3>2 DEF Steady, Awaited
      <4> QED BY <2>1, <4>1, RoundSteady
    <3> QED BY <3>1, <3>2 DEF Steady, Awaited, Answered
  <2>3. CASE ~(timeout > 1)
    <3>1. timeout = 1 BY <2>1, <2>3, TimeoutAssumption DEF CallInv, TypeOK
    <3>2. wire' = << >> /\ back' = << >> BY <1>5, <2>1, <3>1
    <3>3. pc' = "idle" BY <1>5, <2>3 DEF Tick, Return
    <3> QED BY <3>2, <3>3 DEF Steady, Silence, Awaited, Answered
  <2> QED BY <2>2, <2>3
<1>6. CASE SetDone \/ GetDone
  <2>1. pc = "ready" /\ pc' = "idle" /\ UNCHANGED <<wire, back>>
    BY <1>6 DEF SetDone, GetDone, Return
  <2> QED BY <2>1 DEF Steady, Silence, Awaited, Answered
<1>7. CASE World
  <2>1. wire # << >> \/ back # << >> BY <1>7 DEF World, Execute, Deliver, Lose
  <2>2. pc = "wait" BY <2>1 DEF Steady, Silence
  <2>3. pc' = "wait" /\ todo' = todo
    BY <1>7, <2>2 DEF World, Execute, Deliver, Lose, driver
  <2>4. ASSUME NEW c \in Parcels, c = Head(todo) PROVE UnderWay(c)'
    <3>1. UnderWay(c) BY <2>2, <2>4 DEF Steady, Awaited
    <3> QED BY <1>7, <3>1, ExecuteSteady, ArrivalSteady DEF World
  <2> QED BY <2>3, <2>4 DEF Steady, Awaited, Answered
<1> QED BY <1>1, <1>2, <1>3, <1>4, <1>5, <1>6, <1>7 DEF Next, Step

-----------------------------------------------------------------------------
(* Honest results *)

\* What a get function makes of the end of an answer: the parameters of its setting, or
\* none and an error.
LEMMA HeardParams ==
    ASSUME CallInv, pc = "ready", call.fn = "get", Heard(Final(call)),
           Value(call.x, ParamsOf(rx)) # << >>
    PROVE  ParamsOf(rx) = Answer(call.x, setting[call.x])
<1>1. call \in Calls BY DEF CallInv, Accepted
<1>2. AnswerTo(Final(call)) = Answer(call.x, setting[call.x])
  BY <1>1, FinalFields DEF AnswerTo
<1>3. Listed(Answer(call.x, setting[call.x]))
  <2>1. Listed(setting[call.x]) BY <1>1, CallsAssumption DEF CallInv
  <2> QED BY <2>1, AnswerTexts
<1>4. CASE rx = <<OneChunk(Final(call))>>
  <2>1. OneChunk(Final(call)).par = Answer(call.x, setting[call.x])
    BY <1>2, ChunkFields DEF OneChunk
  <2>2. ParamsOf(rx) = OneChunk(Final(call)).par BY <1>4, ParamsOne
  <2> QED BY <2>1, <2>2
<1>5. CASE rx = <<FirstChunk(Final(call)), LastChunk>>
  <2>1. /\ FirstChunk(Final(call)).par = Answer(call.x, setting[call.x])
        /\ LastChunk.par = << >>
    BY <1>2, ChunkFields DEF FirstChunk, LastChunk
  <2> QED BY <1>3, <1>5, <2>1, ParamsTwo
<1>6. CASE rx = <<LastChunk>>
  <2>0. LastChunk.par = << >> BY ChunkFields DEF LastChunk
  <2>1. ParamsOf(rx) = << >> BY <1>6, <2>0, ParamsOne
  <2> QED BY <2>1 DEF Value
<1> QED BY <1>4, <1>5, <1>6 DEF Heard

LEMMA HonestInit == Init => SetHonest /\ GetHonest
BY DEF Init, NoCall, SetHonest, GetHonest

LEMMA HonestNext ==
    ASSUME CallInv, Steady, SetHonest, GetHonest, [Next]_vars
    PROVE  SetHonest' /\ GetHonest'
<1>1. CASE pc' # "idle" BY <1>1 DEF SetHonest, GetHonest
<1>2. CASE pc' = "idle" /\ pc = "idle"
  <2>1. setting' = setting BY <1>2, ModuleStep DEF module
  <2>2. last' = last \/ last'.res # "EOK"
    <3>1. ASSUME NEW c \in Calls, Call(c) PROVE last' = last \/ last'.res = "EINVAL"
      BY <3>1 DEF Call
    <3>2. CASE World BY <3>2 DEF World, Execute, Deliver, Lose, driver
    <3>3. CASE Step BY <1>2, <3>3 DEF Step, Send, Ack, Tick, SetDone, GetDone
    <3> QED BY <3>1, <3>2, <3>3 DEF Next, vars, driver
  <2> QED BY <1>2, <2>1, <2>2 DEF SetHonest, GetHonest
<1>3. CASE pc' = "idle" /\ pc # "idle"
  <2>0. call \in Calls /\ Final(call) \in Parcels
    BY <1>3 DEF CallInv, Accepted, Parcels
  <2>1. Tick \/ SetDone \/ GetDone
    <3>1. ~World BY <1>3 DEF World, Execute, Deliver, Lose, driver
    <3>2. \A c \in Calls : ~Call(c) BY <1>3 DEF Call
    <3>3. ~Send /\ ~Ack BY <1>3 DEF Send, Ack
    <3> QED BY <1>3, <3>1, <3>2, <3>3 DEF Next, Step, vars, driver
  <2>2. CASE Tick
    <3>1. last'.res = "ERROR" BY <1>3, <2>2 DEF Tick, Return
    <3> QED BY <3>1 DEF SetHonest, GetHonest
  <2>3. CASE SetDone
    <3>1. /\ pc = "ready" /\ call.fn \in {"set", "do"} /\ setting' = setting
          /\ last' = [call |-> call, res |-> "EOK", heard |-> << >>, val |-> << >>]
      BY <2>3 DEF SetDone, Return, module
    <3>2. Heard(Final(call)) BY <2>0, <3>1 DEF Steady, Answered
    <3>3. call.fn = "set" => setting[call.x] = ArgText(call.x, call.v)
      BY <2>0, <3>2, FinalFields DEF Heard, Applied
    <3>4. last'.call = call BY <3>1
    <3> QED BY <3>1, <3>3, <3>4 DEF SetHonest, GetHonest
  <2>4. CASE GetDone
    <3> DEFINE p == ParamsOf(rx)
               res == IF Value(call.x, p) = << >> THEN "ERROR" ELSE "EOK"
    <3>1. /\ pc = "ready" /\ call.fn = "get" /\ setting' = setting
          /\ last' = [call |-> call, res |-> res, heard |-> p, val |-> Value(call.x, p)]
      BY <2>4 DEF GetDone, Return, module
    <3>2. Heard(Final(call)) BY <2>0, <3>1 DEF Steady, Answered
    <3>3. res = "EOK" => p = Answer(call.x, setting[call.x]) BY <3>1, <3>2, HeardParams
    <3> HIDE DEF p, res
    <3>4. last'.call = call /\ last'.res = res /\ last'.heard = p BY <3>1
    <3> QED BY <3>1, <3>3, <3>4 DEF SetHonest, GetHonest
  <2> QED BY <2>1, <2>2, <2>3, <2>4
<1> QED BY <1>1, <1>2, <1>3

\* With a module that answers in time, whatever it refuses and whatever is lost on the
\* UART, a set function of atk_net.c that returns EOK has set the setting.
THEOREM SetsHonest == ASSUME Timely PROVE Spec => []SetHonest
<1> DEFINE Inv == CallInv /\ Steady /\ SetHonest /\ GetHonest
<1>1. Init => Inv BY CallInvInit, SteadyInit, HonestInit
<1>2. Inv /\ [Next]_vars => Inv' BY CallInvNext, SteadyNext, HonestNext
<1>3. Inv => SetHonest OBVIOUS
<1> QED BY <1>1, <1>2, <1>3, PTL DEF Spec

\* ... and a get function that returns EOK has taken apart the answer to its own command,
\* all of it, also when the answer came in two frames or an earlier command failed.
THEOREM GetsHonest == ASSUME Timely PROVE Spec => []GetHonest
<1> DEFINE Inv == CallInv /\ Steady /\ SetHonest /\ GetHonest
<1>1. Init => Inv BY CallInvInit, SteadyInit, HonestInit
<1>2. Inv /\ [Next]_vars => Inv' BY CallInvNext, SteadyNext, HonestNext
<1>3. Inv => GetHonest OBVIOUS
<1> QED BY <1>1, <1>2, <1>3, PTL DEF Spec

-----------------------------------------------------------------------------
(* usart_net_init *)

LEMMA ScriptCalls ==
    /\ Script[1] = GetOf("search") /\ Script[2] = GetOf("search")
    /\ Script[3] = Perform("enter")
    /\ Script[4] = SetTo("echo", <<"ON">>)
    /\ Script[5] = SetTo("moduname", Word("ATK-IDE01"))
    /\ Script[6] = SetTo("uart", <<"115200", "1", "8", "NONE">>)
    /\ Script[7] = SetTo("uartpacklen", <<50>>)
    /\ Script[8] = SetTo("uartpacktime", <<50>>)
    /\ Script[9] = SetTo("ethmod", <<"TCP_CLIENT">>)
    /\ Script[10] = SetTo("dhcp", <<"OFF">>)
    /\ Script[11] = SetTo("dns", Word("114.114.114.114"))
    /\ Script[12] = SetTo("remoteip", Word("192.168.10.201"))
    /\ Script[13] = SetTo("remoteport", Word("8080"))
    /\ Script[14] = SetTo("staticip", Word("192.168.10.58"))
    /\ Script[15] = GetOf("staticip")
    /\ Script[16] = Perform("update")
    /\ DOMAIN Script = 1..16 /\ Len(Script) = 16
BY DEF Script

LEMMA CallFields ==
    /\ \A x, v : SetTo(x, v).fn = "set" /\ SetTo(x, v).x = x
    /\ \A x : GetOf(x).fn = "get"
    /\ \A x : Perform(x).fn = "do" /\ Perform(x).x = x
BY DEF SetTo, GetOf, Perform

\* No setting is set twice, and the module is not reset on the way.
LEMMA ScriptOnce ==
    /\ \A i, j \in 1..16 : Script[i].fn = "set" /\ Script[j].fn = "set" /\ i # j =>
           Script[i].x # Script[j].x
    /\ \A i \in 1..16 : Script[i].fn = "do" => Script[i].x # "reset"
    /\ Script[16].fn = "do" /\ Script[16].x = "update"
<1>1. \A i \in 1..16 : Script[i].fn = "set" => i \in 4..14
  <2>1. \A i \in 1..16 : i \in 4..14 \/ i = 1 \/ i = 2 \/ i = 3 \/ i = 15 \/ i = 16
    OBVIOUS
  <2>2. /\ Script[1].fn = "get" /\ Script[2].fn = "get" /\ Script[3].fn = "do"
        /\ Script[15].fn = "get" /\ Script[16].fn = "do"
    BY ScriptCalls, CallFields
  <2> QED BY <2>1, <2>2
<1>2. /\ Script[4].x = "echo" /\ Script[5].x = "moduname" /\ Script[6].x = "uart"
      /\ Script[7].x = "uartpacklen" /\ Script[8].x = "uartpacktime"
      /\ Script[9].x = "ethmod" /\ Script[10].x = "dhcp" /\ Script[11].x = "dns"
      /\ Script[12].x = "remoteip" /\ Script[13].x = "remoteport"
      /\ Script[14].x = "staticip"
  BY ScriptCalls, CallFields
<1>3. \A i \in 4..14 : i = 4 \/ i = 5 \/ i = 6 \/ i = 7 \/ i = 8 \/ i = 9 \/ i = 10
                       \/ i = 11 \/ i = 12 \/ i = 13 \/ i = 14
  OBVIOUS
<1>4. \A i, j \in 4..14 : i # j => Script[i].x # Script[j].x
  BY <1>2, <1>3
<1>5. \A i \in 1..16 : Script[i].fn = "do" => i = 3 \/ i = 16
  <2>1. \A i \in 4..14 : Script[i].fn = "set"
    BY <1>3, ScriptCalls, CallFields
  <2>2. \A i \in 1..16 : i \in 4..14 \/ i = 1 \/ i = 2 \/ i = 3 \/ i = 15 \/ i = 16
    OBVIOUS
  <2>3. Script[1].fn = "get" /\ Script[2].fn = "get" /\ Script[15].fn = "get"
    BY ScriptCalls, CallFields
  <2> QED BY <2>1, <2>2, <2>3
<1>6. Script[3].x = "enter" /\ Script[16].x = "update" /\ Script[16].fn = "do"
  BY ScriptCalls, CallFields
<1> QED BY <1>1, <1>4, <1>5, <1>6

\* How many calls of the script have returned, and whether all of them succeeded.
Completed == IF pc = "idle" THEN step - 1 ELSE step - 2
NoError == ret = 0 /\ (pc = "idle" /\ step <= 17 => last.res = "EOK")

\* The module has the setting that the i-th call is for.
Has(i) == setting[Script[i].x] = ArgText(Script[i].x, Script[i].v)

\* The settings of the calls that have returned are in the module, and in its flash at
\* the end, as long as no call failed; a failure stays in the sum, which cannot wrap.
ScriptInv ==
    /\ step \in 1..18 /\ ret \in 0..3*(step - 1)
    /\ pc # "idle" => step \in 2..17 /\ call = Script[step - 1]
    /\ NoError =>
         /\ Steady
         /\ \A i \in 1..16 : i <= Completed /\ Script[i].fn = "set" => Has(i)
         /\ Completed >= 16 => saved = setting

LEMMA ScriptInit == InitStart => CallInv /\ ScriptInv
<1> SUFFICES ASSUME InitStart PROVE CallInv /\ ScriptInv
  OBVIOUS
<1>1. CallInv /\ Steady BY CallInvInit, SteadyInit DEF InitStart
<1>2. step = 1 /\ ret = 0 /\ pc = "idle" BY DEF InitStart, Init
<1>3. Completed = 0 BY <1>2 DEF Completed
<1> QED BY <1>1, <1>2, <1>3 DEF ScriptInv

\* A result that is added to the sum shows in it from then on.
LEMMA AddResult ==
    ASSUME CallInv, ScriptInv, step \in 1..17, pc = "idle", Add(last.res)
    PROVE  /\ ret' \in 0..3*step
           /\ ret' = 0 => NoError
<1>1. Code[last.res] \in 0..3 /\ (Code[last.res] = 0 => last.res = "EOK")
  BY DEF CallInv, TypeOK, Code
<1>2. ret \in 0..3*(step - 1) BY DEF ScriptInv
<1>3. ret + Code[last.res] \in 0..3*step BY <1>1, <1>2
<1>4. ret + Code[last.res] < 256 BY <1>3
<1>5. ret' = ret + Code[last.res] BY <1>3, <1>4 DEF Add
<1> QED BY <1>1, <1>2, <1>3, <1>5 DEF NoError

\* What the module does for a call of the script leaves the other settings alone.
LEMMA OthersStay ==
    ASSUME CallInv, ScriptInv, pc = "wait", Apply(Head(todo)), UNCHANGED driver,
           NEW i \in 1..16, i <= step - 2, Script[i].fn = "set", Has(i)
    PROVE  Has(i)'
<1>1. step \in 2..17 /\ call = Script[step - 1] BY DEF ScriptInv
<1>2. call \in Calls /\ call.fn \in {"set", "get", "do"}
  BY CallsAssumption DEF CallInv, Accepted, Fns
<1>3. Script[i].x \in Settings
  BY ScriptAssumption, ScriptCalls, CallsAssumption
<1>4. setting'[Script[i].x] = setting[Script[i].x]
  <2>1. CASE Head(todo) = Search
    <3>1. setting' = setting BY <2>1, CommandFields DEF Apply, Search
    <3> QED BY <3>1
  <2>2. CASE Head(todo) = Final(call) /\ call.fn = "set"
    <3>1. setting' = [setting EXCEPT ![call.x] = Final(call).p]
      BY <1>2, <2>2, FinalFields DEF Apply
    <3>2. call.x # Script[i].x BY <1>1, <2>2, ScriptOnce
    <3> QED BY <1>3, <3>1, <3>2 DEF CallInv
  <2>3. CASE Head(todo) = Final(call) /\ call.fn = "get"
    <3>1. setting' = setting BY <1>2, <2>3, FinalFields DEF Apply
    <3> QED BY <3>1
  <2>4. CASE Head(todo) = Final(call) /\ call.fn = "do"
    <3>1. call.x # "reset" BY <1>1, <2>4, ScriptOnce
    <3>2. setting' = setting BY <1>2, <2>4, <3>1, FinalFields DEF Apply
    <3> QED BY <3>2
  <2> QED BY <1>2, <2>1, <2>2, <2>3, <2>4, HeadIs
<1> QED BY <1>4 DEF Has

\* A step of the driver or the module while the script is at a call.
LEMMA ScriptRuns ==
    ASSUME CallInv, ScriptInv, Step \/ World \/ UNCHANGED vars, UNCHANGED initVars
    PROVE  ScriptInv'
<1>0. step' = step /\ ret' = ret BY DEF initVars
<1>1. [Next]_vars BY DEF Next
<1>2. pc' # "idle" => pc # "idle" /\ call' = call
  BY DEF Step, World, Send, Ack, Tick, SetDone, GetDone, Return, Execute, Deliver, Lose,
         vars, driver
<1>3. /\ step' \in 1..18 /\ ret' \in 0..3*(step' - 1)
      /\ pc' # "idle" => step' \in 2..17 /\ call' = Script[step' - 1]
  BY <1>0, <1>2 DEF ScriptInv
<1>4. SUFFICES ASSUME NoError'
               PROVE  /\ Steady'
                      /\ \A i \in 1..16 : i <= Completed' /\ Script[i].fn = "set" => Has(i)'
                      /\ Completed' >= 16 => saved' = setting'
  BY <1>3 DEF ScriptInv
<1>5. NoError
  <2>1. CASE pc = "idle"
    <3>1. pc' = "idle" /\ last' = last
      BY <2>1 DEF Step, World, Send, Ack, Tick, SetDone, GetDone, Execute, Deliver, Lose,
                  vars, driver
    <3> QED BY <1>0, <1>4, <3>1 DEF NoError
  <2>2. CASE pc # "idle" BY <1>0, <1>4, <2>2 DEF NoError
  <2> QED BY <2>1, <2>2
<1>6. Tick => timeout # 1
  <2> SUFFICES ASSUME Tick, timeout = 1 PROVE FALSE
    OBVIOUS
  <2>1. pc' = "idle" /\ last'.res = "ERROR" /\ pc # "idle" BY DEF Tick, Return
  <2>2. step' <= 17 BY <1>0, <2>1 DEF ScriptInv
  <2> QED BY <1>4, <2>1, <2>2 DEF NoError
<1>7. /\ Steady
      /\ \A i \in 1..16 : i <= Completed /\ Script[i].fn = "set" => Has(i)
      /\ Completed >= 16 => saved = setting
  BY <1>5 DEF ScriptInv
<1>8. Steady' BY <1>1, <1>6, <1>7, SteadyNext
<1>9. CASE UNCHANGED module /\ Completed' = Completed
  BY <1>7, <1>8, <1>9 DEF module, Has
<1>10. CASE ~(UNCHANGED module)
  <2>1. pc = "wait" /\ Apply(Head(todo)) /\ UNCHANGED driver
    BY <1>1, <1>7, <1>10, ModuleStep
  <2>2. pc' = "wait" BY <2>1 DEF driver
  <2>3. step \in 2..17 BY <2>1 DEF ScriptInv
  <2>4. Completed = step - 2 /\ Completed' = step - 2 BY <1>0, <2>1, <2>2 DEF Completed
  <2>5. ASSUME NEW i \in 1..16, i <= Completed', Script[i].fn = "set" PROVE Has(i)'
    BY <1>7, <2>1, <2>4, <2>5, OthersStay
  <2> QED BY <1>8, <2>3, <2>4, <2>5
<1>11. CASE UNCHANGED module /\ Completed' # Completed
  <2>1. pc # "idle" /\ pc' = "idle" BY <1>0, <1>2, <1>11 DEF Completed
  <2>2. step \in 2..17 /\ call = Script[step - 1] BY <2>1 DEF ScriptInv
  <2>3. last'.res = "EOK" BY <1>0, <1>4, <2>1, <2>2 DEF NoError
  <2>4. Completed = step - 2 /\ Completed' = step - 1 BY <1>0, <2>1 DEF Completed
  <2>5. SetDone \/ GetDone
    <3>1. ~World /\ ~Send /\ ~Ack
      BY <2>1 DEF World, Execute, Deliver, Lose, driver, Send, Ack
    <3>2. ~Tick BY <2>1, <2>3 DEF Tick, Return
    <3> QED BY <2>1, <3>1, <3>2 DEF Step, vars, driver
  <2>6. pc = "ready" BY <2>5 DEF SetDone, GetDone
  <2>7. call \in Calls /\ Final(call) \in Parcels
    BY <2>1 DEF CallInv, Accepted, Parcels
  <2>8. Heard(Final(call)) BY <1>7, <2>6, <2>7 DEF Steady, Answered
  <2>9. call.fn = "set" => Has(step - 1)
    BY <2>2, <2>7, <2>8, FinalFields DEF Heard, Applied, Has
  <2>10. ASSUME NEW i \in 1..16, i <= Completed', Script[i].fn = "set" PROVE Has(i)'
    <3>1. Has(i)
      <4>1. CASE i = step - 1 BY <2>2, <2>9, <2>10, <4>1
      <4>2. CASE i # step - 1
        <5>1. i <= Completed BY <2>2, <2>4, <2>10, <4>2
        <5> QED BY <1>7, <2>10, <5>1
      <4> QED BY <4>1, <4>2
    <3> QED BY <1>11, <3>1 DEF module, Has
  <2>11. Completed' >= 16 => saved' = setting'
    <3> SUFFICES ASSUME Completed' >= 16 PROVE saved' = setting'
      OBVIOUS
    <3>1. step = 17 BY <2>2, <2>4
    <3>2. call.fn = "do" /\ call.x = "update" BY <2>2, <3>1, ScriptOnce
    <3>3. saved = setting BY <2>7, <2>8, <3>2, FinalFields DEF Heard, Applied
    <3> QED BY <1>11, <3>3 DEF module
  <2> QED BY <1>8, <2>10, <2>11
<1> QED BY <1>9, <1>10, <1>11

\* The next call is made.
LEMMA ScriptCall ==
    ASSUME CallInv, ScriptInv, NextCall PROVE CallInv' /\ ScriptInv'
<1>1. pc = "idle" /\ step \in 1..16 /\ step' = step + 1 /\ Call(Script[step])
  BY ScriptCalls DEF NextCall
<1>2. PICK c \in Calls : c = Script[step] BY <1>1, ScriptAssumption, ScriptCalls
<1>3. Call(c) BY <1>1, <1>2
<1>4. CallInv' BY <1>3, CallStep
<1>5. ret' \in 0..3*step /\ (ret' = 0 => NoError) BY <1>1, AddResult DEF NextCall
<1>6. UNCHANGED module BY <1>3 DEF Call
<1>7. \/ pc' = "idle" /\ last'.res = "EINVAL"
      \/ pc' = "send" /\ call' = c
  BY <1>1, <1>3 DEF Call
<1>8. CASE pc' = "idle" /\ last'.res = "EINVAL"
  <2>1. ~NoError' BY <1>1, <1>8 DEF NoError
  <2> QED BY <1>1, <1>4, <1>5, <1>8, <2>1 DEF ScriptInv
<1>9. CASE pc' = "send" /\ call' = c
  <2>1. step' \in 2..17 /\ call' = Script[step' - 1] BY <1>1, <1>2, <1>9
  <2>2. Completed' = Completed BY <1>1, <1>9 DEF Completed
  <2>3. ASSUME NoError'
        PROVE  /\ Steady'
               /\ \A i \in 1..16 : i <= Completed' /\ Script[i].fn = "set" => Has(i)'
               /\ Completed' >= 16 => saved' = setting'
    <3>1. NoError BY <1>5, <2>3 DEF NoError
    <3>2. [Next]_vars /\ ~Tick BY <1>1, <1>3 DEF Next, Tick
    <3>3. Steady' BY <3>1, <3>2, SteadyNext DEF ScriptInv
    <3> QED BY <1>6, <2>2, <3>1, <3>3 DEF ScriptInv, module, Has
  <2> QED BY <1>1, <1>4, <1>5, <2>1, <2>3 DEF ScriptInv
<1> QED BY <1>7, <1>8, <1>9

\* The last result is added.
LEMMA ScriptEnds ==
    ASSUME CallInv, ScriptInv, Finish PROVE CallInv' /\ ScriptInv'
<1>1. pc = "idle" /\ step = 17 /\ step' = 18 /\ UNCHANGED vars
  BY ScriptCalls DEF Finish
<1>2. CallInv' BY <1>1, CallInvNext
<1>3. ret' \in 0..3*step /\ (ret' = 0 => NoError) BY <1>1, AddResult DEF Finish
<1>4. pc' = "idle" /\ UNCHANGED <<setting, saved>> BY <1>1 DEF vars, driver, module
<1>5. Completed = 16 /\ Completed' = 17 BY <1>1, <1>4 DEF Completed
<1>6. ASSUME NoError'
      PROVE  /\ Steady'
             /\ \A i \in 1..16 : i <= Completed' /\ Script[i].fn = "set" => Has(i)'
             /\ Completed' >= 16 => saved' = setting'
  <2>1. NoError BY <1>3, <1>6 DEF NoError
  <2>2. ~Tick BY <1>1 DEF Tick
  <2>3. Steady' BY <1>1, <2>1, <2>2, SteadyNext DEF ScriptInv
  <2> QED BY <1>4, <1>5, <2>1, <2>3 DEF ScriptInv, Has
<1> QED BY <1>1, <1>2, <1>3, <1>4, <1>6 DEF ScriptInv

LEMMA ScriptNext ==
    CallInv /\ ScriptInv /\ [InitNext]_<<vars, initVars>> => (CallInv /\ ScriptInv)'
<1> SUFFICES ASSUME CallInv, ScriptInv, [InitNext]_<<vars, initVars>>
             PROVE  CallInv' /\ ScriptInv'
  OBVIOUS
<1>1. CASE NextCall BY <1>1, ScriptCall
<1>2. CASE Finish BY <1>2, ScriptEnds
<1>3. CASE (Step \/ World \/ UNCHANGED vars) /\ UNCHANGED initVars
  <2>1. CallInv' BY <1>3, CallInvNext DEF Next
  <2> QED BY <1>3, <2>1, ScriptRuns
<1> QED BY <1>1, <1>2, <1>3 DEF InitNext

\* usart_net_init adds up what its calls return and takes a sum of 0 for success
\* (usart_net.c:217).  However late, split, refused or lost the module's answers are, a
\* sum of 0 means that all the settings of the script are in the module's flash: the sum
\* cannot wrap around, and an answer that came late has left an error in it.
THEOREM InitSucceeds == InitSpec => []InitHonest
<1> DEFINE Inv == CallInv /\ ScriptInv
<1>1. InitStart => Inv BY ScriptInit
<1>2. Inv /\ [InitNext]_<<vars, initVars>> => Inv' BY ScriptNext
<1>3. Inv => InitHonest
  <2> SUFFICES ASSUME ScriptInv, Finished, ret = 0, NEW i \in DOMAIN Script,
                      Script[i].fn = "set"
               PROVE  saved[Script[i].x] = ArgText(Script[i].x, Script[i].v)
    BY DEF InitHonest
  <2>1. step = 18 /\ i \in 1..16 BY ScriptCalls DEF Finished
  <2>2. pc = "idle" BY <2>1 DEF ScriptInv
  <2>3. NoError /\ Completed = 17 BY <2>1, <2>2 DEF NoError, Completed
  <2> QED BY <2>1, <2>3 DEF ScriptInv, Has
<1> QED BY <1>1, <1>2, <1>3, PTL DEF InitSpec

-----------------------------------------------------------------------------
(* What was set can be read *)

\* get_uart knows what set_uart wrote, but for two rates.
LEMMA UartRead ==
    ASSUME NEW b \in Baudrate, NEW s \in Stop, NEW d \in Data, NEW y \in Parity,
           NEW v, v = <<b, s, d, y>>,
           NEW p, p = << <<BaudText[b]>>, <<s>>, <<d>>, <<y>> >>,
           NEW V, V = BaudKnown \X Stop \X Data \X Parity
    PROVE  /\ b \notin {"19200", "128000"} => Known(p, V) = v
           /\ b \in {"19200", "128000"} => Known(p, V) = << >>
<1> DEFINE match(u) == \A i \in DOMAIN u : Param(p, i) = <<u[i]>>
<1>1. /\ Param(p, 1) = <<BaudText[b]>> /\ Param(p, 2) = <<s>> /\ Param(p, 3) = <<d>>
      /\ Param(p, 4) = <<y>>
  BY DEF Param
<1>2. \A e, f : <<e>> = <<f>> <=> e = f OBVIOUS
<1>3. ASSUME NEW e, NEW f, NEW g, NEW h
      PROVE  match(<<e, f, g, h>>) <=> e = BaudText[b] /\ f = s /\ g = d /\ h = y
  <2>1. match(<<e, f, g, h>>) <=> /\ Param(p, 1) = <<e>> /\ Param(p, 2) = <<f>>
                                  /\ Param(p, 3) = <<g>> /\ Param(p, 4) = <<h>>
    OBVIOUS
  <2> HIDE DEF match
  <2> QED BY <1>1, <1>2, <2>1
<1>4. ASSUME NEW u \in V
      PROVE  \E e \in BaudKnown, f \in Stop, g \in Data, h \in Parity : u = <<e, f, g, h>>
  OBVIOUS
<1>5. Known(p, V) = IF \E u \in V : match(u) THEN CHOOSE u \in V : match(u) ELSE << >>
  BY DEF Known
<1>6. /\ b \notin {"19200", "128000"} => BaudText[b] = b /\ b \in BaudKnown
      /\ b \in {"19200", "128000"} => BaudText[b] \notin BaudKnown
  BY DEF BaudText, BaudKnown, Baudrate
<1> HIDE DEF match
<1>7. CASE b \notin {"19200", "128000"}
  <2>1. v \in V /\ match(v) BY <1>3, <1>6, <1>7
  <2>2. ASSUME NEW u \in V, match(u) PROVE u = v
    <3>1. PICK e \in BaudKnown, f \in Stop, g \in Data, h \in Parity : u = <<e, f, g, h>>
      BY <1>4
    <3>2. match(<<e, f, g, h>>) BY <2>2, <3>1, Zenon
    <3>3. e = BaudText[b] /\ f = s /\ g = d /\ h = y BY <1>3, <3>2
    <3> QED BY <1>6, <1>7, <3>1, <3>3
  <2>3. (CHOOSE u \in V : match(u)) = v BY <2>1, <2>2
  <2> QED BY <1>5, <1>7, <2>1, <2>3
<1>8. CASE b \in {"19200", "128000"}
  <2>1. ASSUME NEW u \in V, match(u) PROVE FALSE
    <3>1. PICK e \in BaudKnown, f \in Stop, g \in Data, h \in Parity : u = <<e, f, g, h>>
      BY <1>4
    <3>2. match(<<e, f, g, h>>) BY <2>1, <3>1, Zenon
    <3> QED BY <1>3, <1>6, <1>8, <3>2
  <2> QED BY <1>5, <1>8, <2>1
<1> QED BY <1>7, <1>8

\* What is read from behind '=' is the text that was set if it is laid out as the
\* function expects, and only then.
LEMMA LineReadBack ==
    ASSUME NEW x \in LineRead, NEW t \in Text, t # << >>, t[1] \notin {BLANK, QUOTE},
           x = "mac" => Len(t) = 17
    PROVE  FromLine(x, Laid(Layout[x], t)) = t
             <=> Layout[x] = IF x = "mac" THEN "plain" ELSE "blank"
<1>1. t \in Seq(STRING) /\ Len(t) \in Nat \ {0} BY EmptySeq DEF Text
<1>2. Layout[x] \in {"plain", "blank", "quoted"} BY LayoutAssumption DEF Layouts
<1>3. /\ Layout[x] = "plain" => Laid(Layout[x], t) = t
      /\ Layout[x] = "blank" => Laid(Layout[x], t) = <<BLANK>> \o t
      /\ Layout[x] = "quoted" => Laid(Layout[x], t) = (<<QUOTE>> \o t) \o <<QUOTE>>
  BY DEF Laid
<1>4. PICK S : t \in Seq(S) /\ BLANK \in S /\ QUOTE \in S
  <2>1. t \in Seq(STRING \cup {BLANK, QUOTE}) BY <1>1
  <2> QED BY <2>1
<1>5. <<BLANK>> \o t \in Seq(S) /\ (<<QUOTE>> \o t) \o <<QUOTE>> \in Seq(S) BY <1>4
<1>6. /\ Len(<<BLANK>> \o t) = Len(t) + 1 /\ (<<BLANK>> \o t)[1] = BLANK
      /\ \A i \in 1..Len(t) : (<<BLANK>> \o t)[i + 1] = t[i]
      /\ Len((<<QUOTE>> \o t) \o <<QUOTE>>) = Len(t) + 2
      /\ ((<<QUOTE>> \o t) \o <<QUOTE>>)[1] = QUOTE
  BY <1>4
<1>7. CASE x = "mac"
  <2>1. ASSUME NEW u \in Seq(S), Len(u) >= 17 PROVE SubSeq(u, 1, 17)[1] = u[1]
    BY <2>1
  <2>2. SubSeq(t, 1, 17) = t BY <1>1, <1>7
  <2>3. SubSeq(<<BLANK>> \o t, 1, 17)[1] = BLANK BY <1>1, <1>5, <1>6, <1>7, <2>1
  <2>4. SubSeq((<<QUOTE>> \o t) \o <<QUOTE>>, 1, 17)[1] = QUOTE
    BY <1>1, <1>5, <1>6, <1>7, <2>1
  <2>5. FromLine(x, Laid(Layout[x], t)) = SubSeq(Laid(Layout[x], t), 1, 17)
    BY <1>7 DEF FromLine
  <2> QED BY <1>2, <1>3, <1>7, <2>2, <2>3, <2>4, <2>5
<1>8. CASE x # "mac"
  <2>1. FromLine(x, Laid(Layout[x], t)) = Tail(Laid(Layout[x], t)) BY <1>8 DEF FromLine
  <2>2. Len(Tail(t)) = Len(t) - 1 BY <1>1
  <2>3. Tail(<<BLANK>> \o t) = t BY <1>4
  <2>4. Len(Tail((<<QUOTE>> \o t) \o <<QUOTE>>)) = Len(t) + 1 BY <1>1, <1>5, <1>6
  <2>5. Tail(t) # t /\ Tail((<<QUOTE>> \o t) \o <<QUOTE>>) # t
    <3>1. Len(t) - 1 # Len(t) /\ Len(t) + 1 # Len(t) BY <1>1
    <3> QED BY <2>2, <2>4, <3>1, Zenon
  <2> QED BY <1>2, <1>3, <1>8, <2>1, <2>3, <2>5
<1> QED BY <1>7, <1>8

\* A text of one parameter and the value of one.
LEMMA OneParameter ==
    ASSUME NEW x, NEW t, x \notin LineRead
    PROVE  Answer(x, <<t>>) = <<t>> /\ <<t>> # << >> /\ <<t>>[1] = t
BY DEF Answer

\* The conversions of a set and a get function of atk_net.c undo each other exactly where
\* they agree; of the two rates an error comes.
LEMMA RoundTrip ==
    ASSUME NEW c \in Calls, c.fn = "set", Accepts(c.x, c.v),
           NEW p, p = Answer(c.x, ArgText(c.x, c.v))
    PROVE  /\ c.v # << >>
           /\ Agree(c.x, c.v) => Value(c.x, p) = c.v
           /\ ~Agree(c.x, c.v) =>
                Value(c.x, p) # c.v /\ (c.x = "uart" => Value(c.x, p) = << >>)
<1> DEFINE x == c.x
           v == c.v
<1>1. CASE x = "uart" /\ v \in Baudrate \X Stop \X Data \X Parity
  <2>1. /\ x \notin DOMAIN Enum /\ x \notin DOMAIN Numeric /\ x \notin LineRead
        /\ x \notin Verbatim /\ x # "search" /\ x \notin LinkInfo
    BY <1>1, Kinds
  <2>2. PICK b \in Baudrate, s \in Stop, d \in Data, y \in Parity : v = <<b, s, d, y>>
    BY <1>1
  <2>3. v[1] = b /\ v[2] = s /\ v[3] = d /\ v[4] = y /\ v # << >> BY <2>2
  <2>4. ArgText(x, v) = Words(<<BaudText[b], s, d, y>>) BY <1>1, <2>1, <2>3 DEF ArgText
  <2>5. ASSUME NEW e PROVE Words(<<e, s, d, y>>) = << <<e>>, <<s>>, <<d>>, <<y>> >>
    BY DEF Words
  <2>6. p = << <<BaudText[b]>>, <<s>>, <<d>>, <<y>> >> BY <2>1, <2>4, <2>5 DEF Answer
  <2>7. p # << >> BY <2>6
  <2>8. Value(x, p) = Known(p, BaudKnown \X Stop \X Data \X Parity)
    BY <1>1, <2>1, <2>7 DEF Value, Decode
  <2>9. /\ b \notin {"19200", "128000"} => Value(x, p) = v
        /\ b \in {"19200", "128000"} => Value(x, p) = << >>
    BY <2>2, <2>6, <2>8, UartRead
  <2>10. Agree(x, v) <=> b \notin {"19200", "128000"} BY <1>1, <2>3, Zenon DEF Agree
  <2> QED BY <1>1, <2>3, <2>9, <2>10
<1>2. CASE x \in DOMAIN Enum /\ v = <<v[1]>> /\ v[1] \in Enum[x]
  <2>1. /\ x # "uart" /\ x \notin DOMAIN Numeric /\ x \notin LineRead
        /\ x \notin Verbatim /\ x # "search" /\ x \notin LinkInfo
        /\ x # "mac" /\ x \notin {"remoteip", "moduname"}
    BY <1>2, Kinds DEF LineRead
  <2>2. PICK e : e = v[1] /\ v = <<e>> BY <1>2
  <2>3. ArgText(x, v) = Words(<<e>>) BY <1>2, <2>1, <2>2 DEF ArgText
  <2>4. Words(<<e>>) = << <<e>> >> BY DEF Words
  <2>5. p = << <<e>> >> /\ p # << >> /\ p[1] = <<e>> BY <2>1, <2>3, <2>4, OneParameter
  <2>6. Value(x, p) = Known(p, {<<f>> : f \in Enum[x]})
    BY <1>2, <2>1, <2>5 DEF Value, Decode
  <2>7. Known(p, {<<f>> : f \in Enum[x]}) = <<e>>
    <3> DEFINE match(u) == \A i \in DOMAIN u : Param(p, i) = <<u[i]>>
               V == {<<f>> : f \in Enum[x]}
    <3>1. Param(p, 1) = <<e>> BY <2>5 DEF Param
    <3>2. \A f, g : <<f>> = <<g>> <=> f = g OBVIOUS
    <3>3. ASSUME NEW f PROVE match(<<f>>) <=> f = e
      <4>1. match(<<f>>) <=> Param(p, 1) = <<f>> OBVIOUS
      <4> HIDE DEF match
      <4> QED BY <3>1, <3>2, <4>1
    <3>4. <<e>> \in V /\ \A u \in V : \E f \in Enum[x] : u = <<f>> BY <1>2, <2>2
    <3>5. Known(p, V) = IF \E u \in V : match(u) THEN CHOOSE u \in V : match(u) ELSE << >>
      BY DEF Known
    <3> HIDE DEF match, V
    <3>6. match(<<e>>) /\ \A u \in V : match(u) => u = <<e>> BY <3>3, <3>4
    <3>7. (CHOOSE u \in V : match(u)) = <<e>> BY <3>4, <3>6
    <3>8. Known(p, V) = <<e>> BY <3>4, <3>5, <3>6, <3>7
    <3> QED BY <3>8 DEF V
  <2>8. Agree(x, v) BY <2>1, Zenon DEF Agree
  <2> QED BY <2>2, <2>6, <2>7, <2>8, NotEmpty
<1>3. CASE x \in DOMAIN Numeric /\ v = <<v[1]>> /\ v[1] \in Numeric[x]
  <2>1. /\ x # "uart" /\ x \notin DOMAIN Enum /\ x \notin LineRead
        /\ x \notin Verbatim /\ x # "search" /\ x \notin LinkInfo
        /\ x # "mac" /\ x \notin {"remoteip", "moduname"}
    BY <1>3, Kinds DEF LineRead
  <2>2. PICK e : e = v[1] /\ v = <<e>> BY <1>3
  <2>3. e \in Nat /\ e < 65536
    <3>1. Numeric[x] = PackTime \/ Numeric[x] = PackLen \/ Numeric[x] = LinkNum
      BY <1>3, Kinds DEF Numeric
    <3>2. e \in PackTime \/ e \in PackLen \/ e \in LinkNum BY <1>3, <2>2, <3>1
    <3>3. e \in PackLen => e \in Nat /\ e < 65536 BY SMT DEF PackLen
    <3>4. e \in Number => e \in Nat /\ e < 65536 BY SMT DEF Number
    <3> QED BY <3>2, <3>3, <3>4 DEF PackTime, LinkNum
  <2>4. ArgText(x, v) = <<Decimal(e)>> BY <1>3, <2>1, <2>2 DEF ArgText
  <2>5. p = <<Decimal(e)>> /\ p # << >> /\ p[1] = Decimal(e) BY <2>1, <2>4, OneParameter
  <2>6. Value(x, p) = <<Atoi(p[1])>> BY <1>3, <2>1, <2>5 DEF Value, Decode
  <2>7. Atoi(p[1]) = e BY <2>3, <2>5, NumberRead
  <2>8. Agree(x, v) BY <2>1, Zenon DEF Agree
  <2> QED BY <2>2, <2>6, <2>7, <2>8, NotEmpty
<1>4. CASE x \in Verbatim /\ v = <<v[1]>>
  <2>1. /\ x # "uart" /\ x \notin DOMAIN Enum /\ x \notin LineRead
        /\ x \notin DOMAIN Numeric /\ x # "search" /\ x \notin LinkInfo
        /\ x # "mac" /\ x \notin {"remoteip", "moduname"}
    BY <1>4, Kinds DEF LineRead
  <2>2. PICK e : e = v[1] /\ v = <<e>> BY <1>4
  <2>3. ArgText(x, v) = <<e>> BY <1>4, <2>1, <2>2 DEF ArgText
  <2>4. p = <<e>> /\ p # << >> /\ p[1] = e BY <2>1, <2>3, OneParameter
  <2>5. Value(x, p) = <<p[1]>> BY <1>4, <2>1, <2>4 DEF Value, Decode
  <2>6. Agree(x, v) BY <2>1, Zenon DEF Agree
  <2> QED BY <2>2, <2>4, <2>5, <2>6
<1>5. CASE /\ x \in LineRead /\ v = <<v[1]>> /\ v[1] \in Text
           /\ v[1] # << >> /\ v[1][1] \notin {BLANK, QUOTE}
           /\ x = "mac" => Len(v[1]) = 17
  <2>1. /\ x # "uart" /\ x \notin DOMAIN Enum /\ x \notin DOMAIN Numeric
        /\ x \notin Verbatim /\ x # "search" /\ x \notin LinkInfo
    BY <1>5, Kinds
  <2>2. PICK t : t = v[1] /\ v = <<t>> BY <1>5
  <2>3. ArgText(x, v) = <<t>> BY <1>5, <2>1, <2>2 DEF ArgText
  <2>4. Answer(x, <<t>>) = <<Laid(Layout[x], t)>> BY <1>5 DEF Answer
  <2>5. p = <<Laid(Layout[x], t)>> /\ p # << >> /\ p[1] = Laid(Layout[x], t)
    BY <2>3, <2>4
  <2>6. Value(x, p) = <<FromLine(x, p[1])>> BY <1>5, <2>1, <2>5 DEF Value, Decode
  <2>7. FromLine(x, p[1]) = t <=> Layout[x] = IF x = "mac" THEN "plain" ELSE "blank"
    BY <1>5, <2>2, <2>5, LineReadBack
  <2>8. Agree(x, v) <=> Layout[x] = IF x = "mac" THEN "plain" ELSE "blank"
    <3>1. x = "mac" \/ x \in {"remoteip", "moduname"} BY <1>5 DEF LineRead
    <3>2. CASE x = "mac"
      <4>1. x \notin {"remoteip", "moduname"} BY <3>2
      <4> QED BY <3>2, <4>1, <2>1, Zenon DEF Agree
    <3>3. CASE x \in {"remoteip", "moduname"}
      <4>1. x # "mac" BY <3>3
      <4> QED BY <3>3, <4>1, <2>1, Zenon DEF Agree
    <3> QED BY <3>1, <3>2, <3>3
  <2>9. <<FromLine(x, p[1])>> = <<t>> <=> FromLine(x, p[1]) = t OBVIOUS
  <2> QED BY <2>1, <2>2, <2>6, <2>7, <2>8, <2>9, NotEmpty
<1> QED BY <1>1, <1>2, <1>3, <1>4, <1>5, SetKinds
\* The value that a get function returned is made of what it heard.
ReadInv ==
    last.call.fn = "get" =>
        /\ last.val = Value(last.call.x, last.heard)
        /\ last.res = IF last.val = << >> THEN "ERROR" ELSE "EOK"

LEMMA ReadInit == Init => ReadInv
BY DEF Init, NoCall, ReadInv

LEMMA ReadNext == ReadInv /\ [Next]_vars => ReadInv'
<1> SUFFICES ASSUME ReadInv, [Next]_vars PROVE ReadInv'
  OBVIOUS
<1>1. CASE last' = last BY <1>1 DEF ReadInv
<1>2. ASSUME NEW c \in Calls, Call(c) PROVE ReadInv'
  <2>1. CASE c.fn = "set" /\ ~Accepts(c.x, c.v)
    <3>1. last'.call = c BY <1>2, <2>1 DEF Call
    <3> QED BY <2>1, <3>1 DEF ReadInv
  <2>2. CASE ~(c.fn = "set" /\ ~Accepts(c.x, c.v)) BY <1>1, <1>2, <2>2 DEF Call
  <2> QED BY <2>1, <2>2
<1>3. CASE Tick /\ last' # last
  <2>1. last' = [call |-> call, res |-> "ERROR", heard |-> << >>, val |-> << >>]
    BY <1>3 DEF Tick, Return
  <2>2. /\ last'.call = call /\ last'.res = "ERROR" /\ last'.heard = << >>
        /\ last'.val = << >>
    BY <2>1
  <2> QED BY <2>2 DEF ReadInv, Value
<1>4. CASE SetDone
  <2>1. last'.call = call /\ call.fn \in {"set", "do"} BY <1>4 DEF SetDone, Return
  <2> QED BY <2>1 DEF ReadInv
<1>5. CASE GetDone
  <2> DEFINE p == ParamsOf(rx)
             val == Value(call.x, p)
             res == IF val = << >> THEN "ERROR" ELSE "EOK"
  <2>1. last' = [call |-> call, res |-> res, heard |-> p, val |-> val]
    BY <1>5 DEF GetDone, Return
  <2>2. res = IF val = << >> THEN "ERROR" ELSE "EOK" OBVIOUS
  <2>3. val = Value(call.x, p) OBVIOUS
  <2> HIDE DEF p, val, res
  <2>4. last'.call = call /\ last'.res = res /\ last'.heard = p /\ last'.val = val
    BY <2>1
  <2> QED BY <2>2, <2>3, <2>4 DEF ReadInv
<1>6. CASE World \/ Send \/ Ack \/ UNCHANGED vars
  BY <1>1, <1>6 DEF World, Execute, Deliver, Lose, Send, Ack, vars, driver
<1> QED BY <1>1, <1>2, <1>3, <1>4, <1>5, <1>6 DEF Next, Step

\* For every baud rate, number, name and text that a set function of atk_net.c accepts,
\* and whatever happens on the UART: what the module was told and answers with, the get
\* function of the setting makes the same value of, but for the rates 19200 and 128000, of
\* which it makes an error, and the texts it reads from behind '=', of which it makes
\* another text unless the module lays its answer out as the function expects.
THEOREM ReadsBack == Spec => []Readable
<1>1. ReadInv => Readable
  <2> SUFFICES ASSUME ReadInv, last.call.fn = "get", NEW c \in Calls, c.fn = "set",
                      c.x = last.call.x, Accepts(c.x, c.v),
                      last.heard = Answer(c.x, ArgText(c.x, c.v))
               PROVE  /\ Agree(c.x, c.v) => last.res = "EOK" /\ last.val = c.v
                      /\ ~Agree(c.x, c.v) =>
                           last.val # c.v /\ (c.x = "uart" => last.res = "ERROR")
    BY DEF Readable
  <2>1. last.val = Value(c.x, last.heard) BY DEF ReadInv
  <2>2. /\ c.v # << >>
        /\ Agree(c.x, c.v) => last.val = c.v
        /\ ~Agree(c.x, c.v) => last.val # c.v /\ (c.x = "uart" => last.val = << >>)
    BY <2>1, RoundTrip
  <2> QED BY <2>2 DEF ReadInv
<1> QED BY <1>1, ReadInit, ReadNext, PTL DEF Spec

-----------------------------------------------------------------------------
(* A call ends *)

\* The steps that a call has at most before it, counted by the commands it still has to
\* send and the rounds it still waits for an answer.
CallLeft ==
    CASE pc = "send" -> 1 + (IF Len(todo) = 1 THEN 1 ELSE 2) * (Timeout + 2)
      [] pc = "wait" -> 1 + (IF Len(todo) = 1 THEN 0 ELSE Timeout + 2) + timeout
      [] pc = "ready" -> 1
      [] OTHER -> 0

\* Every step of the caller lowers what is left of its call.
LEMMA StepFalls ==
    ASSUME CallInv, CallInv', Step
    PROVE  CallLeft \in Nat /\ CallLeft' \in 0..CallLeft - 1
<1>1. Timeout \in Nat \ {0} /\ timeout \in 0..Timeout BY TimeoutAssumption DEF CallInv, TypeOK
<1>2. pc = "wait" => timeout > 0 BY DEF CallInv, TypeOK
<1>3. pc \in {"send", "wait"} => Len(todo) = 1 \/ Len(todo) = 2 BY HeadIs
<1>4. CASE Send
  <2>1. /\ pc = "send" /\ pc' = "wait" /\ timeout' = Timeout /\ todo' = todo BY <1>4 DEF Send
  <2>2. CASE Len(todo) = 1
    <3>1. CallLeft = 1 + 1 * (Timeout + 2) /\ CallLeft' = 1 + 0 + Timeout
      BY <2>1, <2>2 DEF CallLeft
    <3> QED BY <1>1, <3>1
  <2>3. CASE Len(todo) = 2
    <3>1. CallLeft = 1 + 2 * (Timeout + 2) /\ CallLeft' = 1 + (Timeout + 2) + Timeout
      BY <2>1, <2>3 DEF CallLeft
    <3> QED BY <1>1, <3>1
  <2> QED BY <1>3, <2>1, <2>2, <2>3
<1>5. CASE Ack
  <2>1. pc = "wait" /\ timeout > 0 BY <1>2, <1>5 DEF Ack
  <2>2. CASE Len(todo) = 1
    <3>1. pc' = "ready" BY <1>5, <2>2 DEF Ack
    <3>2. CallLeft = 1 + 0 + timeout /\ CallLeft' = 1 BY <2>1, <2>2, <3>1 DEF CallLeft
    <3> QED BY <1>1, <2>1, <3>2
  <2>3. CASE Len(todo) = 2
    <3>1. pc' = "send" /\ todo' = <<Final(call)>> BY <1>5, <2>1, <2>3, HeadIs DEF Ack
    <3>2. Len(todo') = 1 BY <3>1
    <3>3. CallLeft = 1 + (Timeout + 2) + timeout /\ CallLeft' = 1 + 1 * (Timeout + 2)
      BY <2>1, <2>3, <3>1, <3>2 DEF CallLeft
    <3> QED BY <1>1, <2>1, <3>3
  <2> QED BY <1>3, <2>1, <2>2, <2>3
<1>6. CASE Tick
  <2>1. pc = "wait" BY <1>6 DEF Tick
  <2>2. PICK k \in {0, Timeout + 2} : /\ k = IF Len(todo) = 1 THEN 0 ELSE Timeout + 2
                                      /\ CallLeft = 1 + k + timeout
    BY <2>1 DEF CallLeft
  <2>3. k \in Nat BY <1>1
  <2>4. CASE timeout > 1
    <3>1. pc' = "wait" /\ todo' = todo /\ timeout' = timeout - 1 BY <1>6, <2>1, <2>4 DEF Tick
    <3>2. CallLeft' = 1 + k + (timeout - 1) BY <2>2, <3>1 DEF CallLeft
    <3> QED BY <1>1, <2>2, <2>3, <2>4, <3>2
  <2>5. CASE ~(timeout > 1)
    <3>1. pc' = "idle" BY <1>6, <2>5 DEF Tick, Return
    <3>2. CallLeft' = 0 BY <3>1 DEF CallLeft
    <3> QED BY <1>1, <2>2, <2>3, <3>2
  <2> QED BY <2>4, <2>5
<1>7. CASE SetDone \/ GetDone
  <2>1. pc = "ready" /\ pc' = "idle" BY <1>7 DEF SetDone, GetDone, Return
  <2>2. CallLeft = 1 /\ CallLeft' = 0 BY <2>1 DEF CallLeft
  <2> QED BY <2>2
<1> QED BY <1>4, <1>5, <1>6, <1>7 DEF Step

\* What the module and the line do leaves it alone.
LEMMA WorldKeeps == World => CallLeft' = CallLeft
BY DEF World, Execute, Deliver, Lose, driver, CallLeft

\* Whatever is lost, late, refused or split: a call of atk_net.c takes boundedly many steps
\* (at most 2 * (ATK_IDE01_AT_TIMEOUT + 2) + 1, for atk_ide01_enter_at_mode with its two
\* commands), and nothing the module sends makes it wait longer.
THEOREM CallBounded ==
    Spec => [][/\ Step => CallLeft' \in 0..CallLeft - 1
               /\ World => CallLeft' = CallLeft
               /\ CallLeft' \in 0..2 * (Timeout + 2) + 1]_vars
<1>1. ASSUME CallInv PROVE CallLeft \in 0..2 * (Timeout + 2) + 1
  <2>1. Timeout \in Nat \ {0} /\ timeout \in 0..Timeout
    BY <1>1, TimeoutAssumption DEF CallInv, TypeOK
  <2>2. CallLeft \in {1 + 1 * (Timeout + 2), 1 + 2 * (Timeout + 2), 1 + 0 + timeout,
                      1 + (Timeout + 2) + timeout, 1, 0}
    BY DEF CallLeft
  <2> QED BY <2>1, <2>2
<1>2. (CallInv => CallLeft \in 0..2 * (Timeout + 2) + 1)' BY <1>1, PTL
<1>3. CallInv /\ CallInv' /\ [Next]_vars =>
          [/\ Step => CallLeft' \in 0..CallLeft - 1
           /\ World => CallLeft' = CallLeft
           /\ CallLeft' \in 0..2 * (Timeout + 2) + 1]_vars
  BY <1>2, StepFalls, WorldKeeps
<1> QED BY <1>3, CallInvInit, CallInvNext, PTL DEF Spec
=============================================================================

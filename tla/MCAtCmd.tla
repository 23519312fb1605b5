------------------------------ MODULE MCAtCmd -------------------------------
(* AtCmd for TLC: some settings of each kind.                              *)
EXTENDS AtCmd

Set(x, v) == [fn |-> "set", x |-> x, v |-> v]
Get(x) == [fn |-> "get", x |-> x, v |-> << >>]
Do(x) == [fn |-> "do", x |-> x, v |-> << >>]

Uart(b) == <<b, "1", "8", "NONE">>
Word(w) == << <<w>> >>
Name == << <<"A", "T", "K">> >>
Mac == << [i \in 1..17 |-> "F"] >>

MCStart ==
    [dns |-> Word("d1"), ethmod |-> Word("TCP_CLIENT"), uartpacklen |-> <<Decimal(1450)>>,
     uart |-> Words(Uart("115200")), search |-> Words(<<"ip", "mac">>),
     netmask |-> Word("mask"), mac |-> Mac, moduname |-> Name, remoteip |-> Name,
     xcomport |-> Word("9999"), atkyundevid |-> Word("id"), multcastip |-> Word("group"),
     remotelinkinfo |-> Words(<<"ip", "port">>), echo |-> Word("ON"),
     dhcp |-> Word("OFF"), cloudlinken |-> Word("OFF"), netlksta |-> Word("ON"),
     linknum |-> <<Decimal(3)>>, uartpacktime |-> <<Decimal(50)>>]

\* One answer of each layout: the name loses its first character.
MCLayout == [mac |-> "plain", remoteip |-> "blank", moduname |-> "plain"]

MCDo == {Do("enter"), Do("exit"), Do("reset"), Do("update")}

\* Calls of every shape and kind of setting: values as they were, the two rates as new
\* ones, and values that are not accepted.
MCCalls ==
    MCDo \cup {Set("uart", Uart(b)) : b \in {"115200", "19200", "128000"}}
         \cup {Set("uartpacklen", <<i>>) : i \in {1450, 1451}}
         \cup {Set("mac", Mac), Set("remoteip", Name), Set("moduname", Name)}
         \cup {Set("ethmod", <<"TCP_PEER">>), Set("atkyundevid", Name)}
         \cup {Get(x) : x \in DOMAIN MCStart}

\* Two settings are enough for answers to be mixed up.
MCLate == {Set("dns", Word("d2")), Set("ethmod", <<"TCP_CLOUD">>)}
=============================================================================

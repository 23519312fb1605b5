----------------------------- MODULE MCNetInit ------------------------------
(* NetInit for TLC: a module that has some of the script's settings from   *)
(* an earlier configuration and factory values for the others.             *)
EXTENDS NetInit

MCCalls == {Script[i] : i \in DOMAIN Script}
MCSettings == {c.x : c \in {d \in MCCalls : d.fn \in {"set", "get"}}}
MCEarlier == {"moduname", "ethmod", "dhcp", "dns", "remoteip", "remoteport"}
MCLayout == [x \in LineRead |-> "plain"]

MCStart ==
    [x \in MCSettings |->
        IF x = "search" THEN Words(<<"ip", "mac">>)
        ELSE IF x \in MCEarlier
          THEN LET c == CHOOSE d \in MCCalls : d.fn = "set" /\ d.x = x
               IN  ArgText(c.x, c.v)
          ELSE Word("factory")]
=============================================================================

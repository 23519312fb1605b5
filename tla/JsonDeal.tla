------------------------------ MODULE JsonDeal ------------------------------
(***************************************************************************)
(* json_deal_cmd of usart_net.c: a frame from the server is parsed and the *)
(* three fields of a person are shown on the console.                      *)
(*                                                                         *)
(* The names "age", "email" and "name" and the text "U2E SENT ERR" of the  *)
(* module are single characters here.                                      *)
(***************************************************************************)
EXTENDS JsmnUtil

CONSTANTS
    BufSz,      \* size of json_age
    Frames      \* well-formed frames: [text, values], the values in the order of Fields

Fields == <<"a", "e", "n">>
ERR == "U2E SENT ERR"
UNINIT == <<"uninit">>      \* json_age is an uninitialised local

ASSUME BufSzAssumption == BufSz \in Nat \ {0}
ASSUME FramesAssumption == \A f \in Frames : f.text \in Texts

VARIABLES
    step,       \* "check", "parse", "find", "show", "done"
    items,      \* item_array_age, item_array_email, item_array_name so far
    json_age,   \* the buffer the values are copied to
    shown,      \* the texts shown so far
    result      \* what json_deal_cmd returned

dealVars == <<step, items, json_age, shown, result>>
vars == <<parserVars, dealVars>>

Init ==
    /\ JsmnInit
    /\ step = "check" /\ items = <<>> /\ json_age = UNINIT
    /\ shown = <<>> /\ result = 0

Leave(r) ==
    /\ step' = "done" /\ result' = r
    /\ UNCHANGED <<parserVars, items, json_age, shown>>

GoOn(s) == step' = s /\ UNCHANGED <<parserVars, json_age, result>>

\* The module reports that the server is gone; TX_DISCONNECT is sent.
IsError == text # <<>> /\ text[1] = ERR

DealError == step = "check" /\ IsError /\ Leave(-2)

DealParse ==
    /\ step = "check" /\ ~IsError
    /\ GoOn("parse") /\ UNCHANGED <<items, shown>>

ParseStep == step = "parse" /\ Parse /\ UNCHANGED dealVars

IsObject == ret >= 1 /\ tokens[0].type = "object"

DealRefuse == step = "parse" /\ pc = "done" /\ ~IsObject /\ Leave(-1)

DealAccept ==
    /\ step = "parse" /\ pc = "done" /\ IsObject
    /\ GoOn("find") /\ UNCHANGED <<items, shown>>

Wanted == GetObjectItem(ItemInit(0, ret), <<Fields[Len(items) + 1]>>)

DealMissing == step = "find" /\ Wanted = NONE /\ Leave(-1)

DealFind ==
    /\ step = "find" /\ Wanted # NONE
    /\ items' = Append(items, Wanted)
    /\ GoOn(IF Len(items') = Len(Fields) THEN "show" ELSE "find")
    /\ UNCHANGED shown

\* The result of JSMN_GetValueStringBuffered is ignored.
DealShow ==
    /\ step = "show" /\ Len(shown) < Len(Fields)
    /\ json_age' = GetValueStringBuffered(items[Len(shown) + 1], BufSz, json_age)
    /\ shown' = Append(shown, json_age')
    /\ UNCHANGED <<parserVars, step, items, result>>

DealDone == step = "show" /\ Len(shown) = Len(Fields) /\ Leave(1)

Deal ==
    \/ DealError \/ DealParse \/ ParseStep \/ DealRefuse \/ DealAccept
    \/ DealMissing \/ DealFind \/ DealShow \/ DealDone

Next == Deal \/ (step = "done" /\ UNCHANGED vars)

\* The net thread runs: json_deal_cmd waits for nothing.
Spec == Init /\ [][Next]_vars /\ WF_vars(Deal)

-----------------------------------------------------------------------------
Used == 0..toknext - 1

\* jsmn.c:9: the token array is never left, parents come before their children
\* and every index the parser keeps is one of a token in use.
TypeOK ==
    /\ text \in Texts
    /\ pos \in 0..Len(text) /\ start \in 0..Len(text)
    /\ toknext \in 0..NumTokens
    /\ toksuper \in -1..toknext - 1
    /\ tokens \in [Slots -> Token]
    /\ \A i \in Used : tokens[i].parent \in -1..i - 1
    /\ count = toknext
    /\ pc \in {"scan", "string", "primitive", "close", "done"}
    /\ tok \in -1..toknext - 1 /\ (pc = "close" => tok >= 0 /\ ~AtEnd)
    /\ ret \in {NOMEM, INVAL, PART} \cup 0..NumTokens

\* Tokens nest: of two tokens the later one lies behind the earlier one or, once
\* the earlier one is closed, is closed and lies inside it.  A closing bracket
\* has thus always closed the innermost open one, although jsmn_parse finds it by
\* parent links that colons and commas move about.
Nested ==
    \A i \in Used : \A j \in i + 1..toknext - 1 :
        /\ tokens[i].start < tokens[j].start
        /\ tokens[i].end # -1 =>
               \/ tokens[j].start >= tokens[i].end
               \/ tokens[j].end # -1 /\ tokens[j].end <= tokens[i].end

\* jsmn_util.c:192 and :217 take the value of a key to be the token behind it, and
\* do not look at its parent: the first child of a token always is that token.
ValueIsNext ==
    \A i \in Used : tokens[i].size >= 1 =>
        i + 1 \in Used /\ tokens[i + 1].parent = i

\* What jsmn_parse accepts is complete: as many tokens in use as it says (the item
\* functions trust that number and would read uninitialised tokens behind it), and
\* none of them open.
AcceptedIsComplete ==
    pc = "done" /\ ret >= 0 =>
        ret = toknext /\ \A i \in Used : ~IsOpen(tokens[i])

\* JSMN_GetArrayItem finds exactly the children of an array (or of the array
\* that is the value of a key) below the size that
\* JSMN_GetArraySize reports, each once: size is counted while parsing, the
\* children are found by their parent links.
ArrayItems ==
    pc = "done" /\ ret >= 0 =>
        \A i \in Used :
            LET array == ItemInit(i, ret)
                box == Container(array, "array")
            IN  box # NONE =>
                    {GetArrayItem(array, n).index : n \in 0..GetArraySize(array) - 1}
                        = {j \in Used : tokens[j].parent = box.index}

\* The strings directly inside the outermost object that read like the name of field k.
Members(k) ==
    {i \in Used : /\ tokens[i].parent = 0 /\ tokens[i].type = "string"
                  /\ Content(tokens[i]) = <<Fields[k]>>}

\* Whatever text is accepted as an object, well-formed or not: json_deal_cmd shows the
\* fields exactly if the outermost object itself has a member of each name.  For each
\* it shows the value that is linked to the first of them, cut to json_age, although
\* jsmn_util.c:217 takes the token behind the name without looking at its link; only
\* where that member has not just one value does it show what json_age held before.
ShownAreMembers ==
    step = "done" /\ pc = "done" /\ IsObject =>
        /\ result = 1 <=> \A k \in DOMAIN Fields : Members(k) # {}
        /\ result = 1 => \A k \in DOMAIN Fields : \E i \in Members(k) :
               /\ \A j \in Members(k) : i <= j
               /\ tokens[i].size = 1 =>
                      /\ i + 1 \in Used /\ tokens[i + 1].parent = i
                      /\ shown[k] = IF tokens[i + 1].type \in {"string", "primitive"}
                                      THEN Cut(Content(tokens[i + 1]), BufSz) ELSE <<>>
               /\ tokens[i].size # 1 => shown[k] = IF k = 1 THEN UNINIT ELSE shown[k - 1]

\* Of a well-formed frame the fields shown are those of the outermost object, in
\* whatever order and between whatever other members they stand, cut to json_age.
FieldsShown ==
    step = "done" => \A f \in Frames : f.text = text =>
        result = 1 /\ shown = [k \in DOMAIN Fields |-> Cut(f.values[k], BufSz)]

\* json_deal_cmd returns for every text: the loop over parents, too, ends.
Returns == <>(step = "done")
=============================================================================

------------------------------ MODULE JsmnUtil ------------------------------
(***************************************************************************)
(* The item functions of json_deal/jsmn_util.c over the tokens of Jsmn.    *)
(* An item is a token index with the number of tokens behind it.           *)
(***************************************************************************)
EXTENDS Jsmn

NONE == [index |-> -1, left |-> -1]

\* JSMN_ItemInit
ItemInit(index, len) == [index |-> index, left |-> len - index - 1]

Tok(item) == tokens[item.index]
Behind(item, i) == [index |-> item.index + i, left |-> item.left - i]

\* Mutant: the number of values is not looked at.
HasValueUncounted(item) == Tok(item).type = "string" /\ item.left > 0

\* A key with one value, which is taken to be the token behind it.
HasValue(item) == Tok(item).type = "string" /\ Tok(item).size = 1 /\ item.left > 0

\* The container an item stands for: itself, or the value of the key.
Container(item, type) ==
    CASE Tok(item).type = type -> item
      [] /\ Tok(item).type # type /\ HasValue(item)
         /\ Tok(Behind(item, 1)).type = type
         /\ Tok(Behind(item, 1)).parent = item.index -> Behind(item, 1)
      [] OTHER -> NONE

\* The distances at which the children of a container lie.
Children(box) == {i \in 1..box.left : Tok(Behind(box, i)).parent = box.index}

Nth(S, n) == CHOOSE i \in S : Cardinality({j \in S : j < i}) = n

Content(t) == SubSeq(text, t.start + 1, t.end)

\* Mutant: every key of the text is looked at, however deep.
NamedAnywhere(box, key) ==
    {i \in 1..box.left : /\ Tok(Behind(box, i)).type = "string"
                         /\ Content(Tok(Behind(box, i))) = key}

\* json_token_streq, for the strings directly under the object
Named(box, key) ==
    {i \in Children(box) : /\ Tok(Behind(box, i)).type = "string"
                           /\ Content(Tok(Behind(box, i))) = key}

\* JSMN_GetObjectItem
GetObjectItem(object, key) ==
    LET box == Container(object, "object")
    IN  IF box = NONE \/ Named(box, key) = {} THEN NONE
        ELSE Behind(box, Nth(Named(box, key), 0))

\* JSMN_GetArraySize
GetArraySize(array) ==
    LET box == Container(array, "array")
    IN  IF box = NONE THEN -1 ELSE Tok(box).size

\* JSMN_GetArrayItem
GetArrayItem(array, n) ==
    LET box == Container(array, "array")
    IN  IF n >= GetArraySize(array) \/ n >= Cardinality(Children(box)) THEN NONE
        ELSE Behind(box, Nth(Children(box), n))

\* What is left of a text in a buffer of bufsz characters with its terminator.
Cut(s, bufsz) == SubSeq(s, 1, IF Len(s) >= bufsz THEN bufsz - 1 ELSE Len(s))

\* JSMN_GetStringBuffered: the buffer afterwards.
GetStringBuffered(item, bufsz) ==
    IF Tok(item).type \in {"string", "primitive"}
      THEN Cut(Content(Tok(item)), bufsz) ELSE <<>>

\* JSMN_GetValueStringBuffered: the buffer afterwards, old if it is not touched.
GetValueStringBuffered(item, bufsz, old) ==
    IF HasValue(item) THEN GetStringBuffered(Behind(item, 1), bufsz) ELSE old
=============================================================================

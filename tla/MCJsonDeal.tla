----------------------------- MODULE MCJsonDeal -----------------------------
(* JsonDeal for TLC. *)
EXTENDS JsonDeal, SequencesExt

MCJunk == [type |-> "object", start |-> 0, end |-> -1, size |-> 1, parent |-> 0]

\* All short texts over the characters that steer the parser.
Alphabet == Openers \cup Closers \cup {":", ",", QUOTE, "a"}
Short == UNION {[1..n -> Alphabet] : n \in 0..4}
             \cup {<<c>> \o s : c \in Openers, s \in [1..4 -> Alphabet]}

Quoted(s) == <<QUOTE>> \o s \o <<QUOTE>>
Member(k, v) == Quoted(<<k>>) \o <<":">> \o v
Braces(ms) == <<"{">> \o FlattenSeq([i \in 1..2 * Len(ms) - 1 |->
                            IF i % 2 = 0 THEN <<",">> ELSE ms[(i + 1) \div 2]]) \o <<"}">>

\* Frames: a value of one, two or no characters, the fields in every order, and a
\* member with fields of the same names deeper down at every place.
Values == {<< <<"1">>, <<"x", "y">>, <<>> >>, << <<"x", "y">>, <<>>, <<"1">> >>}
Orders == {o \in [1..3 -> 1..3] : \A i, j \in 1..3 : o[i] = o[j] => i = j}
Decoys == {Braces(<<Member("a", <<"0">>)>>),
           <<"[">> \o Braces(<<Member("e", <<"0">>)>>) \o <<"]">>,
           Quoted(<<"n">>)}
WithDecoy(ms, d, p) == SubSeq(ms, 1, p) \o <<Member("x", d)>> \o SubSeq(ms, p + 1, 3)
Fields3(v, o) == [i \in 1..3 |-> Member(Fields[o[i]],
                     IF o[i] = 1 THEN v[1] ELSE Quoted(v[o[i]]))]
MCFrames ==
    {[text |-> Braces(Fields3(v, o)), values |-> v] : v \in Values, o \in Orders} \cup
    {[text |-> Braces(WithDecoy(Fields3(v, o), d, p)), values |-> v] :
        v \in Values, o \in Orders, d \in Decoys, p \in 0..3}

\* A frame with one character wrong or missing.
Frame1 == Braces(Fields3([i \in 1..3 |-> <<"1">>], [i \in 1..3 |-> i]))
Damaged ==
    {ReplaceAt(Frame1, i, c) : i \in 1..Len(Frame1),
        c \in Alphabet \cup {BACKSLASH, CTL, BLANK}} \cup
    {RemoveAt(Frame1, i) : i \in 1..Len(Frame1)}

\* The token array full when a bracket, a string and a primitive need one more.
Deep(c, n) == [i \in 1..n |-> c]
Full == {Deep("[", NumTokens) \o s : s \in {<<"[">>, Quoted(<<>>), <<"1">>,
            Deep("]", NumTokens), Deep("]", NumTokens - 1) \o <<"}">>}}

\* Escapes, complete, cut off and wrong.
Escapes == {<<QUOTE, BACKSLASH>> \o s :
    s \in {<<>>, <<QUOTE>>, <<QUOTE, QUOTE>>, <<"n", QUOTE>>, <<"x", QUOTE>>,
           <<"u">>, <<"u", "0", "1">>, <<"u", "0", "1", QUOTE>>,
           <<"u", "0", "1", "a", "f", QUOTE>>, <<"u", "0", "1", "a", "f">>}}

MCTexts ==
    Short \cup {f.text : f \in MCFrames} \cup Damaged \cup Full \cup Escapes
        \cup {<<ERR>>, <<"{", "}", ":", "}">>}
=============================================================================

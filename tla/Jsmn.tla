-------------------------------- MODULE Jsmn --------------------------------
(***************************************************************************)
(* The tokenizer json_deal/jsmn.c, built with JSMN_PARENT_LINKS and        *)
(* without JSMN_STRICT: jsmn_parse with jsmn_parse_string,                 *)
(* jsmn_parse_primitive and jsmn_alloc_token.                              *)
(*                                                                         *)
(* Texts, positions and token indices count from 0 as in the code: js[p]   *)
(* is text[p + 1].  A character is the class the code tells apart.         *)
(***************************************************************************)
EXTENDS Integers, Sequences, FiniteSets

CONSTANTS
    Texts,      \* the texts that may be parsed
    NumTokens,  \* length of the token array
    Junk        \* what an unused cell of the array holds (it is not initialised)

QUOTE == "quote"
BACKSLASH == "backslash"
BLANK == "blank"            \* space, tab, carriage return, line feed
NUL == "nul"                \* js[len]
CTL == "ctl"                \* not printable: below 32 or from 127 on
Openers == {"{", "["}
Closers == {"}", "]"}
Escapable == {QUOTE, "/", BACKSLASH, "b", "f", "r", "n", "t"}
HexDigits == {"0", "1", "2", "3", "4", "5", "6", "7", "8", "9",
              "a", "b", "c", "d", "e", "f", "A", "B", "C", "D", "E", "F"}
Delimiters == {":", BLANK, ",", "]", "}"}
Structural == Openers \cup Closers \cup {QUOTE, BLANK, ":", ","}

Types == {"undefined", "object", "array", "string", "primitive"}
NOMEM == -1
INVAL == -2
PART == -3

Slots == 0..NumTokens - 1
Token == [type : Types, start : Int, end : Int, size : Nat, parent : Int]

\* len is strlen(js): there is no NUL in a text.
ASSUME TextsAssumption == Texts \subseteq Seq(STRING \ {NUL})
ASSUME NumTokensAssumption == NumTokens \in Nat
ASSUME JunkAssumption == Junk \in Token

VARIABLES
    text,       \* js
    pos,        \* parser->pos
    toknext,    \* parser->toknext
    toksuper,   \* parser->toksuper
    tokens,     \* the token array
    count,      \* count of jsmn_parse
    pc,         \* "scan" in jsmn_parse, "close" in its loop over parents,
                \* "string" and "primitive" in the functions of that name
    start,      \* start of jsmn_parse_string and jsmn_parse_primitive
    tok,        \* token of the loop over parents
    ret         \* what jsmn_parse returned

lexVars == <<pos, start>>
parserVars == <<text, pos, toknext, toksuper, tokens, count, pc, start, tok, ret>>

JsmnInit ==
    /\ text \in Texts
    /\ pos = 0 /\ toknext = 0 /\ toksuper = -1 /\ count = 0
    /\ tokens = [i \in Slots |-> Junk]
    /\ pc = "scan" /\ start = 0 /\ tok = -1 /\ ret = 0

-----------------------------------------------------------------------------
AtEnd == pos >= Len(text)
Char == IF AtEnd THEN NUL ELSE text[pos + 1]
IsOpen(t) == t.start # -1 /\ t.end = -1

Return(r) ==
    /\ pc' = "done" /\ ret' = r
    /\ UNCHANGED <<text, toknext, toksuper, tokens, count, tok>>

\* Mutant: the token limit is tested one too late.
HasRoomOneMore == toknext <= NumTokens

\* jsmn_alloc_token finds an unused token.
HasRoom == toknext < NumTokens

\* Mutant: the child is linked to its parent but not counted.
AddTokenUncounted(t) ==
    /\ tokens' = [tokens EXCEPT ![toknext] = [t EXCEPT !.parent = toksuper]]
    /\ toknext' = toknext + 1
    /\ count' = count + 1

\* Mutant: the token is not linked to its parent.
AddTokenUnlinked(t) ==
    /\ tokens' = [i \in Slots |->
           CASE i = toknext  -> t
             [] i = toksuper -> [tokens[i] EXCEPT !.size = @ + 1]
             [] OTHER        -> tokens[i]]
    /\ toknext' = toknext + 1
    /\ count' = count + 1

\* A new token t under toksuper, which counts one child more.
AddToken(t) ==
    /\ tokens' = [i \in Slots |->
           CASE i = toknext  -> [t EXCEPT !.parent = toksuper]
             [] i = toksuper -> [tokens[i] EXCEPT !.size = @ + 1]
             [] OTHER        -> tokens[i]]
    /\ toknext' = toknext + 1
    /\ count' = count + 1

NewToken(type, from, to) ==
    [type |-> type, start |-> from, end |-> to, size |-> 0, parent |-> -1]

Scanning(chars) == pc = "scan" /\ Char \in chars

-----------------------------------------------------------------------------
(* jsmn_parse: one action per case of its switch *)

\* case '{': case '['
OpenBracket ==
    /\ Scanning(Openers) /\ HasRoom
    /\ AddToken(NewToken(IF Char = "{" THEN "object" ELSE "array", pos, -1))
    /\ toksuper' = toknext
    /\ pos' = pos + 1
    /\ UNCHANGED <<text, pc, start, tok, ret>>

OpenNoRoom ==
    /\ Scanning(Openers) /\ ~HasRoom
    /\ Return(NOMEM) /\ UNCHANGED lexVars

\* case '}': case ']': the loop starts at the last token
CloseBracket ==
    /\ Scanning(Closers) /\ toknext >= 1
    /\ pc' = "close" /\ tok' = toknext - 1
    /\ UNCHANGED <<text, pos, toknext, toksuper, tokens, count, start, ret>>

CloseNothing ==
    /\ Scanning(Closers) /\ toknext < 1
    /\ Return(INVAL) /\ UNCHANGED lexVars

ClosedType == IF Char = "}" THEN "object" ELSE "array"

\* The innermost open token is closed if it has the right type.
CloseMatch ==
    /\ pc = "close" /\ IsOpen(tokens[tok])
    /\ tokens[tok].type = ClosedType
    /\ tokens' = [tokens EXCEPT ![tok].end = pos + 1]
    /\ toksuper' = tokens[tok].parent
    /\ pc' = "scan" /\ pos' = pos + 1
    /\ UNCHANGED <<text, toknext, count, start, tok, ret>>

CloseWrongType ==
    /\ pc = "close" /\ IsOpen(tokens[tok])
    /\ tokens[tok].type # ClosedType
    /\ Return(INVAL) /\ UNCHANGED lexVars

\* Mutant: the loop looks at the same token again.
CloseAscendStays ==
    /\ pc = "close" /\ ~IsOpen(tokens[tok]) /\ tokens[tok].parent # -1
    /\ tok' = tok
    /\ UNCHANGED <<text, pos, toknext, toksuper, tokens, count, pc, start, ret>>

CloseAscend ==
    /\ pc = "close" /\ ~IsOpen(tokens[tok]) /\ tokens[tok].parent # -1
    /\ tok' = tokens[tok].parent
    /\ UNCHANGED <<text, pos, toknext, toksuper, tokens, count, pc, start, ret>>

\* Nothing is open.  A bracket of the type of the root is passed over when
\* toksuper has been set again (by a colon), all others are refused.
Unmatched == tokens[tok].type # ClosedType \/ toksuper = -1

CloseUnmatched ==
    /\ pc = "close" /\ ~IsOpen(tokens[tok]) /\ tokens[tok].parent = -1
    /\ Unmatched
    /\ Return(INVAL) /\ UNCHANGED lexVars

ClosePassedOver ==
    /\ pc = "close" /\ ~IsOpen(tokens[tok]) /\ tokens[tok].parent = -1
    /\ ~Unmatched
    /\ pc' = "scan" /\ pos' = pos + 1
    /\ UNCHANGED <<text, toknext, toksuper, tokens, count, start, tok, ret>>

\* case ' ' and the other white space
SkipBlank ==
    /\ Scanning({BLANK})
    /\ pos' = pos + 1
    /\ UNCHANGED <<text, toknext, toksuper, tokens, count, pc, start, tok, ret>>

\* case ':': what follows belongs to the last token
Colon ==
    /\ Scanning({":"})
    /\ toksuper' = toknext - 1
    /\ pos' = pos + 1
    /\ UNCHANGED <<text, toknext, tokens, count, pc, start, tok, ret>>

\* Mutant: a comma leads back to the parent of containers too.
CommaSuperAlways ==
    IF toksuper # -1 THEN tokens[toksuper].parent ELSE toksuper

\* case ',': after the value of a key, back to what contains the key
CommaSuper ==
    IF toksuper # -1 /\ tokens[toksuper].type \notin {"array", "object"}
      THEN tokens[toksuper].parent ELSE toksuper

Comma ==
    /\ Scanning({","})
    /\ toksuper' = CommaSuper
    /\ pos' = pos + 1
    /\ UNCHANGED <<text, toknext, tokens, count, pc, start, tok, ret>>

\* case '\"': jsmn_parse_string is entered at the quote
StartString ==
    /\ Scanning({QUOTE})
    /\ pc' = "string" /\ start' = pos /\ pos' = pos + 1
    /\ UNCHANGED <<text, toknext, toksuper, tokens, count, tok, ret>>

\* default: every unquoted value is a primitive
StartPrimitive ==
    /\ pc = "scan" /\ Char \notin Structural \cup {NUL}
    /\ pc' = "primitive" /\ start' = pos
    /\ UNCHANGED <<text, pos, toknext, toksuper, tokens, count, tok, ret>>

\* Mutant: open tokens at the end of the text are not looked for.
EndOfTextTrusting ==
    /\ pc = "scan" /\ AtEnd
    /\ Return(count)
    /\ UNCHANGED lexVars

\* The end of the text: a token that is still open makes it a part of one.
EndOfText ==
    /\ pc = "scan" /\ AtEnd
    /\ Return(IF \E i \in 0..toknext - 1 : IsOpen(tokens[i]) THEN PART ELSE count)
    /\ UNCHANGED lexVars

-----------------------------------------------------------------------------
(* jsmn_parse_string and jsmn_parse_primitive: on failure pos goes back *)

Fail(r) == Return(r) /\ pos' = start /\ UNCHANGED start

Finish(type, from) ==
    /\ AddToken(NewToken(type, from, pos))
    /\ pc' = "scan"
    /\ UNCHANGED <<text, toksuper, start, tok, ret>>

InString == pc = "string" /\ ~AtEnd

EndString ==
    /\ InString /\ Char = QUOTE /\ HasRoom
    /\ Finish("string", start + 1)
    /\ pos' = pos + 1

StringNoRoom == InString /\ Char = QUOTE /\ ~HasRoom /\ Fail(NOMEM)

\* A backslash that is the last character is no escape.
Escape == Char = BACKSLASH /\ pos + 1 < Len(text)
Escaped == text[pos + 2]

\* The up to four digits of \uXXXX that the text still has.
HexEnd == IF pos + 6 <= Len(text) THEN pos + 6 ELSE Len(text)
BadHex == \E i \in pos + 3..HexEnd : text[i] \notin HexDigits

StringChar ==
    /\ InString /\ Char # QUOTE
    /\ \/ ~Escape /\ pos' = pos + 1
       \/ Escape /\ Escaped \in Escapable /\ pos' = pos + 2
       \/ Escape /\ Escaped = "u" /\ ~BadHex /\ pos' = HexEnd
    /\ UNCHANGED <<text, toknext, toksuper, tokens, count, pc, start, tok, ret>>

StringInvalid ==
    /\ InString /\ Escape
    /\ Escaped \notin Escapable \cup {"u"} \/ (Escaped = "u" /\ BadHex)
    /\ Fail(INVAL)

StringPart == pc = "string" /\ AtEnd /\ Fail(PART)

Found == pc = "primitive" /\ Char \in Delimiters \cup {NUL}

\* pos-- here and pos++ in the loop of jsmn_parse cancel out.
EndPrimitive ==
    /\ Found /\ HasRoom
    /\ Finish("primitive", start)
    /\ UNCHANGED pos

PrimitiveNoRoom == Found /\ ~HasRoom /\ Fail(NOMEM)

PrimitiveChar ==
    /\ pc = "primitive" /\ ~Found /\ Char # CTL
    /\ pos' = pos + 1
    /\ UNCHANGED <<text, toknext, toksuper, tokens, count, pc, start, tok, ret>>

PrimitiveInvalid == pc = "primitive" /\ ~Found /\ Char = CTL /\ Fail(INVAL)

-----------------------------------------------------------------------------
Close ==
    \/ CloseBracket \/ CloseNothing
    \/ CloseMatch \/ CloseWrongType \/ CloseAscend
    \/ CloseUnmatched \/ ClosePassedOver

ParseString ==
    \/ StartString \/ EndString \/ StringNoRoom
    \/ StringChar \/ StringInvalid \/ StringPart

ParsePrimitive ==
    \/ StartPrimitive \/ EndPrimitive \/ PrimitiveNoRoom
    \/ PrimitiveChar \/ PrimitiveInvalid

Parse ==
    \/ OpenBracket \/ OpenNoRoom \/ Close
    \/ SkipBlank \/ Colon \/ Comma
    \/ ParseString \/ ParsePrimitive
    \/ EndOfText
=============================================================================

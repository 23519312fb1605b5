----------------------------- MODULE JsmnProofs -----------------------------
(***************************************************************************)
(* Theorems about the tokenizer and json_deal_cmd, for every set of texts, *)
(* every length of the token array and whatever that array holds before.   *)
(* First the tokens: nesting, links, counts and the item functions over    *)
(* them.  Then json_deal_cmd on any text.  Last the flat frames: where the *)
(* parser stands in a text that is one object of strings and primitives,   *)
(* member by member, and what is shown of it; and a bound on the steps     *)
(* that json_deal_cmd takes.                                               *)
(***************************************************************************)
EXTENDS JsonDeal, FiniteSetTheorems, TLAPS

-----------------------------------------------------------------------------
(* The inductive invariant *)

\* Where the token that is being read begins.
Reached == IF pc \in {"string", "primitive"} THEN start ELSE pos

\* All tokens lie in front of what is being read; only containers are open.
Containers == {"array", "object"}
Placed ==
    /\ \A i \in Used : /\ tokens[i].start \in 0..Reached - 1
                       /\ tokens[i].end \in -1..Reached
                       /\ tokens[i].end = -1 => tokens[i].type \in Containers
    /\ pc = "string" => pos > start
    /\ pc = "primitive" =>
           pos > start \/ (pos = start /\ Char \notin Structural \cup {NUL})

\* What is open lies on every way up: from a later token, from toksuper and
\* from where the loop over parents has come to.
Links ==
    \A i \in Used : tokens[i].end = -1 =>
        /\ toksuper >= i
        /\ \A j \in i + 1..toknext - 1 : tokens[j].parent >= i
        /\ pc = "close" => tok >= i

\* A token with a child, or toksuper unless it is the last token, has its first
\* child right behind it.
FirstChild(p) == p + 1 \in Used /\ tokens[p + 1].parent = p
Adjacent ==
    /\ toksuper \notin {-1, toknext - 1} => FirstChild(toksuper)
    /\ \A j \in Used : tokens[j].parent # -1 => FirstChild(tokens[j].parent)

IInv == TypeOK /\ Placed /\ Links /\ Adjacent
          /\ Nested /\ ValueIsNext /\ AcceptedIsComplete

-----------------------------------------------------------------------------
(* Facts about the text and the token array *)

\* The character read is NUL exactly at the end of the text.
LEMMA CharFact ==
    ASSUME TypeOK
    PROVE  /\ Len(text) \in Nat /\ pos \in Nat /\ start \in Nat
           /\ AtEnd <=> pos = Len(text)
           /\ AtEnd <=> Char = NUL
<1>1. text \in Seq(STRING \ {NUL})
  BY TextsAssumption DEF TypeOK
<1>2. Len(text) \in Nat /\ pos \in 0..Len(text) /\ start \in 0..Len(text)
  BY <1>1 DEF TypeOK
<1>3. ~AtEnd => text[pos + 1] # NUL
  BY <1>1, <1>2 DEF AtEnd
<1> QED
  BY <1>2, <1>3 DEF AtEnd, Char

\* What jsmn_alloc_token and the assignments after it do to the token array.
LEMMA AddTokenFacts ==
    ASSUME TypeOK, HasRoom, NEW t \in Token, AddToken(t)
    PROVE  /\ tokens' \in [Slots -> Token]
           /\ toknext \in Slots /\ toknext' = toknext + 1 /\ count' = toknext'
           /\ tokens'[toknext].start = t.start /\ tokens'[toknext].end = t.end
           /\ tokens'[toknext].size = t.size /\ tokens'[toknext].parent = toksuper
           /\ tokens'[toknext].type = t.type
           /\ \A i \in Used :
                /\ tokens'[i].type = tokens[i].type
                /\ tokens'[i].start = tokens[i].start
                /\ tokens'[i].end = tokens[i].end
                /\ tokens'[i].parent = tokens[i].parent
                /\ tokens'[i].size \in Nat
                /\ i # toksuper => tokens'[i].size = tokens[i].size
<1>1. /\ toknext \in Slots /\ toknext \in Nat /\ toksuper \in -1..toknext - 1
      /\ NumTokens \in Nat
  BY NumTokensAssumption DEF TypeOK, HasRoom, Slots
<1>2. [t EXCEPT !.parent = toksuper] \in Token
  BY <1>1 DEF Token
<1>3. \A i \in Slots : /\ tokens[i] \in Token
                       /\ [tokens[i] EXCEPT !.size = @ + 1] \in Token
  <2>1. \A u \in Token : u.size + 1 \in Nat
    BY DEF Token
  <2>2. ASSUME NEW u \in Token, NEW n \in Nat
        PROVE  [u EXCEPT !.size = n] \in Token
    BY DEF Token
  <2> QED
    BY <2>1, <2>2 DEF TypeOK
<1>4. tokens' = [i \in Slots |-> CASE i = toknext  -> [t EXCEPT !.parent = toksuper]
             [] i = toksuper -> [tokens[i] EXCEPT !.size = @ + 1]
             [] OTHER        -> tokens[i]]
  BY DEF AddToken
<1>5. \A i \in Slots : tokens'[i] = IF i = toknext THEN [t EXCEPT !.parent = toksuper]
             ELSE IF i = toksuper THEN [tokens[i] EXCEPT !.size = @ + 1] ELSE tokens[i]
  BY <1>1, <1>4
<1>6. tokens' \in [Slots -> Token]
  BY <1>2, <1>3, <1>4, <1>5
<1>7. tokens'[toknext] = [t EXCEPT !.parent = toksuper]
  BY <1>1, <1>5
<1>8. ASSUME NEW i \in Used
      PROVE  /\ i \in Slots /\ i # toknext
             /\ tokens'[i] = IF i = toksuper THEN [tokens[i] EXCEPT !.size = @ + 1]
                             ELSE tokens[i]
  BY <1>1, <1>5 DEF Used, Slots
<1>9. toknext' = toknext + 1 /\ count' = toknext'
  BY <1>1 DEF AddToken, TypeOK
<1>10. \A i \in Used : tokens'[i].size \in Nat
  BY <1>6, <1>8 DEF Token
<1> QED
  BY <1>1, <1>2, <1>3, <1>6, <1>7, <1>8, <1>9, <1>10 DEF Token

-----------------------------------------------------------------------------
(* One lemma per kind of step *)

\* Every token in use is a cell of the array.
LEMMA UsedFact ==
    ASSUME TypeOK
    PROVE  /\ toknext \in Nat /\ toksuper \in Int /\ NumTokens \in Nat
           /\ \A i \in Used : /\ i \in Slots /\ i \in Nat
                              /\ tokens[i].start \in Int /\ tokens[i].end \in Int
                              /\ tokens[i].size \in Nat /\ tokens[i].parent \in -1..i - 1
<1>1. toknext \in 0..NumTokens /\ NumTokens \in Nat /\ toksuper \in Int
  BY NumTokensAssumption DEF TypeOK
<1>2. \A i \in Used : i \in Slots /\ i \in Nat
  BY <1>1 DEF Used, Slots
<1>3. \A i \in Used : tokens[i] \in Token /\ tokens[i].parent \in -1..i - 1
  BY <1>2 DEF TypeOK
<1> QED
  BY <1>1, <1>2, <1>3 DEF Token

\* A new token at the place reached keeps the tokens in their order.
LEMMA AddKeepsTokens ==
    ASSUME IInv, HasRoom, NEW t \in Token, AddToken(t), t.size = 0,
           t.start \in Nat, t.start >= Reached,
           t.end \in Int, t.end = -1 \/ t.end >= t.start,
           toksuper' \in {toksuper, toknext},
           t.end = -1 => toksuper' = toknext,
           pc # "close", pc' = "scan"
    PROVE  Links' /\ Adjacent' /\ Nested' /\ ValueIsNext'
<1> DEFINE new == toknext
<1>1. TypeOK
  BY DEF IInv
<1>2. /\ tokens'[new].start = t.start /\ tokens'[new].end = t.end
      /\ tokens'[new].size = t.size /\ tokens'[new].parent = toksuper
      /\ toknext' = toknext + 1
      /\ \A i \in Used : /\ tokens'[i].start = tokens[i].start
                         /\ tokens'[i].end = tokens[i].end
                         /\ tokens'[i].parent = tokens[i].parent
                         /\ tokens'[i].size \in Nat
                         /\ i # toksuper => tokens'[i].size = tokens[i].size
  BY <1>1, AddTokenFacts
<1> USE DEF Used
<1>3. /\ toknext \in Nat /\ toksuper \in -1..toknext - 1
      /\ \A i \in Used : /\ tokens[i].parent \in -1..i - 1 /\ i \in Nat
                         /\ tokens[i].start \in Int /\ tokens[i].end \in Int
  BY <1>1, <1>2, UsedFact DEF TypeOK
<1>a. toknext' - 1 = toknext
  BY <1>2, <1>3
<1>4. \A i \in Used : tokens[i].start < t.start /\ tokens[i].end <= t.start
  <2>1. pos \in Nat /\ start \in Nat
    BY <1>1, CharFact
  <2> QED
    BY <2>1, <1>3 DEF IInv, Placed, Reached
<1>5. Links'
  <2> SUFFICES ASSUME NEW i \in 0..toknext, tokens'[i].end = -1
               PROVE  /\ toksuper' >= i
                      /\ \A j \in i + 1..toknext : tokens'[j].parent >= i
    BY <1>a DEF Links
  <2>1. CASE i = toknext
    BY <2>1, <1>2, <1>3
  <2>2. CASE i \in Used
    <3>1. tokens[i].end = -1
      BY <2>2, <1>2
    <3>2. toksuper >= i /\ \A j \in i + 1..toknext - 1 : tokens[j].parent >= i
      BY <2>2, <3>1 DEF IInv, Links
    <3>3. ASSUME NEW j \in i + 1..toknext
          PROVE  tokens'[j].parent >= i
      <4>1. CASE j = toknext
        BY <4>1, <3>2, <1>2
      <4>2. CASE j \in i + 1..toknext - 1
        <5>1. j \in Used /\ tokens[j].parent >= i
          BY <4>2, <3>2, <2>2, <1>3
        <5> QED
          BY <5>1, <1>2
      <4> QED
        BY <4>1, <4>2, <2>2, <1>3
    <3> QED
      BY <3>2, <3>3, <2>2, <1>3
  <2> QED
    BY <2>1, <2>2, <1>3
<1>6. Adjacent'
  <2>1. toksuper' \notin {-1, toknext' - 1} => FirstChild(toksuper)'
    <3> SUFFICES ASSUME toksuper' = toksuper, toksuper # -1
                 PROVE  toksuper + 1 \in Used' /\ tokens'[toksuper + 1].parent = toksuper
      BY <1>2, <1>3 DEF FirstChild
    <3> QED
      BY <1>2, <1>3 DEF IInv, Adjacent, FirstChild
  <2>2. ASSUME NEW j \in Used', tokens'[j].parent # -1
        PROVE  /\ tokens'[j].parent + 1 \in Used'
               /\ tokens'[tokens'[j].parent + 1].parent = tokens'[j].parent
    <3>1. CASE j = toknext
      BY <3>1, <1>2, <1>3 DEF IInv, Adjacent, FirstChild
    <3>2. CASE j \in Used
      <4> DEFINE p == tokens[j].parent
      <4>1. tokens'[j].parent = p /\ p # -1
        BY <3>2, <2>2, <1>2
      <4>2. p + 1 \in Used /\ tokens[p + 1].parent = p
        BY <3>2, <4>1 DEF IInv, Adjacent, FirstChild
      <4>3. tokens'[p + 1].parent = p /\ p + 1 \in Used'
        <5> HIDE DEF p
        <5> QED
          BY <4>2, <1>2, <1>3
      <4> QED
        BY <4>1, <4>3
    <3> QED
      BY <3>1, <3>2, <1>2, <1>3
  <2> QED
    BY <2>1, <2>2 DEF Adjacent, FirstChild
<1>7. Nested'
  <2> SUFFICES ASSUME NEW i \in 0..toknext, NEW j \in i + 1..toknext
               PROVE  /\ tokens'[i].start < tokens'[j].start
                      /\ tokens'[i].end # -1 =>
                           \/ tokens'[j].start >= tokens'[i].end
                           \/ tokens'[j].end # -1 /\ tokens'[j].end <= tokens'[i].end
    BY <1>a, Zenon DEF Nested
  <2>1. i \in Used
    BY <1>3
  <2>2. CASE j = toknext
    BY <2>1, <2>2, <1>2, <1>4
  <2>3. CASE j \in Used
    BY <2>1, <2>3, <1>2, <1>3 DEF IInv, Nested
  <2> QED
    BY <2>2, <2>3, <1>3
<1>8. ValueIsNext'
  <2> SUFFICES ASSUME NEW i \in Used', tokens'[i].size >= 1
               PROVE  i + 1 \in Used' /\ tokens'[i + 1].parent = i
    BY DEF ValueIsNext
  <2>1. i \in Used
    BY <1>2, <1>3
  <2>2. CASE i = toksuper
    BY <2>1, <2>2, <1>2, <1>3 DEF IInv, Adjacent, FirstChild
  <2>3. CASE i # toksuper
    BY <2>1, <2>3, <1>2, <1>3 DEF IInv, ValueIsNext
  <2> QED
    BY <2>2, <2>3
<1> QED
  BY <1>5, <1>6, <1>7, <1>8

\* A step that leaves the tokens alone and moves toksuper, if at all, to the last
\* token or to the parent of a token that is no open container.
LEMMA MoveKeepsTokens ==
    ASSUME IInv, UNCHANGED <<toknext, tokens>>,
           \/ toksuper' = toksuper
           \/ toksuper' = toknext - 1
           \/ toksuper \in Used /\ tokens[toksuper].end # -1
                /\ toksuper' = tokens[toksuper].parent,
           pc' = "close" =>
             \A i \in Used : tokens[i].end = -1 => tok' >= i
    PROVE  Links' /\ Adjacent' /\ Nested' /\ ValueIsNext'
<1> USE DEF Used
<1>1. TypeOK
  BY DEF IInv
<1>2. /\ toknext \in Nat /\ toksuper \in -1..toknext - 1
      /\ \A i \in Used : /\ tokens[i].parent \in -1..i - 1 /\ i \in Nat
                         /\ tokens[i].end \in Int
  BY <1>1, UsedFact DEF TypeOK
<1>3. Nested' /\ ValueIsNext'
  BY DEF IInv, Nested, ValueIsNext
<1>4. Links'
  <2> SUFFICES ASSUME NEW i \in Used, tokens[i].end = -1
               PROVE  /\ toksuper' >= i
                      /\ \A j \in i + 1..toknext - 1 : tokens[j].parent >= i
    BY DEF Links
  <2>1. toksuper >= i /\ \A j \in i + 1..toknext - 1 : tokens[j].parent >= i
    BY DEF IInv, Links
  <2>2. ASSUME toksuper \in Used, tokens[toksuper].end # -1
        PROVE  tokens[toksuper].parent >= i
    <3>1. toksuper \in i + 1..toknext - 1
      BY <2>1, <2>2, <1>2
    <3> QED
      BY <3>1, <2>1
  <2> QED
    BY <2>1, <2>2, <1>2
<1>5. Adjacent'
  <2>1. \A j \in Used : tokens[j].parent # -1 => FirstChild(tokens[j].parent)
    BY DEF IInv, Adjacent
  <2>2. toksuper' \notin {-1, toknext - 1} => FirstChild(toksuper')
    BY <2>1, <1>2 DEF IInv, Adjacent
  <2> QED
    BY <2>1, <2>2 DEF Adjacent, FirstChild
<1> QED
  BY <1>3, <1>4, <1>5

\* The token that a bracket closes is the innermost open one.
LEMMA CloseKeepsTokens ==
    ASSUME IInv, CloseMatch
    PROVE  Links' /\ Adjacent' /\ Nested' /\ ValueIsNext'
<1> USE DEF Used
<1>1. TypeOK /\ pos \in Nat
  BY CharFact DEF IInv
<1>2. /\ toknext \in Nat /\ toksuper \in -1..toknext - 1
      /\ \A i \in Used : /\ i \in Slots /\ i \in Nat
                         /\ tokens[i].parent \in -1..i - 1
                         /\ tokens[i].start \in Int /\ tokens[i].end \in Int
                         /\ tokens[i].size \in Nat
  BY <1>1, UsedFact DEF TypeOK
<1>3. tok \in Used /\ tokens[tok].end = -1
  BY <1>1, <1>2 DEF CloseMatch, IsOpen, TypeOK
<1>4. /\ toknext' = toknext /\ pc' = "scan"
      /\ toksuper' = tokens[tok].parent
      /\ tokens'[tok].end = pos + 1
      /\ \A i \in Used : /\ i # tok => tokens'[i].end = tokens[i].end
                         /\ tokens'[i].start = tokens[i].start
                         /\ tokens'[i].parent = tokens[i].parent
                         /\ tokens'[i].size = tokens[i].size
  <2>1. tokens' = [tokens EXCEPT ![tok].end = pos + 1]
    BY DEF CloseMatch
  <2>2. DOMAIN tokens = Slots /\ \A i \in Used : tokens[i] \in Token
    BY <1>1, <1>2 DEF TypeOK
  <2> QED
    BY <2>1, <2>2, <1>2, <1>3 DEF CloseMatch, Token
<1>5. \A j \in tok + 1..toknext - 1 : tokens[j].end # -1 /\ tokens[j].end <= pos
  <2>1. \A i \in Used : tokens[i].end = -1 => tok >= i
    BY DEF IInv, Links, CloseMatch
  <2>2. \A i \in Used : tokens[i].end <= pos
    BY <1>1, <1>2 DEF IInv, Placed, Reached, CloseMatch
  <2> QED
    BY <2>1, <2>2, <1>2, <1>3
<1>6. Links'
  <2> SUFFICES ASSUME NEW i \in Used, tokens'[i].end = -1
               PROVE  /\ tokens[tok].parent >= i
                      /\ \A j \in i + 1..toknext - 1 : tokens'[j].parent >= i
    BY <1>4 DEF Links
  <2>1. i # tok /\ tokens[i].end = -1
    BY <1>1, <1>4
  <2>2. \A j \in i + 1..toknext - 1 : tokens[j].parent >= i
    BY <2>1 DEF IInv, Links
  <2>3. tok \in i + 1..toknext - 1
    BY <2>1, <1>2, <1>3, <1>5
  <2> QED
    BY <2>2, <2>3, <1>2, <1>4
<1>7. Adjacent'
  <2>1. \A j \in Used : tokens[j].parent # -1 =>
             /\ tokens[j].parent + 1 \in Used
             /\ tokens[tokens[j].parent + 1].parent = tokens[j].parent
    BY DEF IInv, Adjacent, FirstChild
  <2>2. \A j \in Used : tokens[j].parent # -1 => FirstChild(tokens[j].parent)'
    BY <2>1, <1>4 DEF FirstChild
  <2> QED
    BY <2>2, <1>3, <1>4 DEF Adjacent, FirstChild
<1>8. Nested'
  <2> SUFFICES ASSUME NEW i \in Used, NEW j \in i + 1..toknext - 1
               PROVE  /\ tokens'[i].start < tokens'[j].start
                      /\ tokens'[i].end # -1 =>
                           \/ tokens'[j].start >= tokens'[i].end
                           \/ tokens'[j].end # -1 /\ tokens'[j].end <= tokens'[i].end
    BY <1>4 DEF Nested
  <2>1. j \in Used /\ j # i
    BY <1>2
  <2>2. /\ tokens[i].start < tokens[j].start
        /\ tokens[i].end # -1 =>
             \/ tokens[j].start >= tokens[i].end
             \/ tokens[j].end # -1 /\ tokens[j].end <= tokens[i].end
    BY DEF IInv, Nested
  <2>3. CASE i = tok
    BY <2>1, <2>2, <2>3, <1>1, <1>2, <1>4, <1>5
  <2>4. CASE i # tok
    BY <2>1, <2>2, <2>4, <1>3, <1>4
  <2> QED
    BY <2>3, <2>4
<1>9. ValueIsNext'
  BY <1>2, <1>4 DEF IInv, ValueIsNext
<1> QED
  BY <1>6, <1>7, <1>8, <1>9

-----------------------------------------------------------------------------
(* The steps of the parser *)

\* A step that ends a token or opens a bracket.
LEMMA AddStep ==
    ASSUME IInv, HasRoom, NEW t \in Token, AddToken(t), t.size = 0,
           t.start \in Nat, t.start >= Reached, t.start < pos',
           t.end \in Int, t.end = -1 \/ t.end >= t.start, t.end <= pos',
           t.end = -1 => t.type \in Containers,
           toksuper' \in {toksuper, toknext},
           t.end = -1 => toksuper' = toknext,
           pc # "close", pc' = "scan",
           pos' \in pos..Len(text), UNCHANGED <<text, start, tok, ret>>
    PROVE  IInv'
<1>1. TypeOK
  BY DEF IInv
<1>2. Links' /\ Adjacent' /\ Nested' /\ ValueIsNext'
  BY AddKeepsTokens
<1>3. /\ tokens' \in [Slots -> Token] /\ toknext \in Slots
      /\ toknext' = toknext + 1 /\ count' = toknext'
      /\ tokens'[toknext].start = t.start /\ tokens'[toknext].end = t.end
      /\ tokens'[toknext].parent = toksuper /\ tokens'[toknext].type = t.type
      /\ \A i \in Used : /\ tokens'[i].start = tokens[i].start
                         /\ tokens'[i].end = tokens[i].end
                         /\ tokens'[i].parent = tokens[i].parent
                         /\ tokens'[i].type = tokens[i].type
  BY <1>1, AddTokenFacts
<1>4. /\ toknext \in Nat /\ NumTokens \in Nat /\ toknext < NumTokens
      /\ Len(text) \in Nat /\ pos \in Nat /\ start \in Nat
      /\ \A i \in Used : tokens[i].parent \in -1..i - 1
  BY <1>1, UsedFact, CharFact DEF HasRoom
<1>5. \A i \in Used' : i \in Used \/ i = toknext
  BY <1>3, <1>4 DEF Used
<1>6. TypeOK'
  <2>1. \A i \in Used' : tokens'[i].parent \in -1..i - 1
    BY <1>1, <1>3, <1>4, <1>5 DEF TypeOK
  <2> QED
    BY <2>1, <1>1, <1>3, <1>4 DEF TypeOK
<1>7. Placed'
  <2>1. ASSUME NEW i \in Used
        PROVE  /\ tokens[i].start \in 0..pos' - 1 /\ tokens[i].end \in -1..pos'
               /\ tokens[i].end = -1 => tokens[i].type \in Containers
    <3>1. Reached <= pos' /\ Reached \in Nat
      BY <1>4 DEF Reached, Placed, IInv
    <3>2. /\ tokens[i].start \in 0..Reached - 1 /\ tokens[i].end \in -1..Reached
          /\ tokens[i].end = -1 => tokens[i].type \in Containers
      BY DEF IInv, Placed
    <3> QED
      BY <3>1, <3>2, <1>4
  <2>2. Reached' = pos'
    BY DEF Reached
  <2>3. \A i \in Used' :
           /\ tokens'[i].start \in 0..pos' - 1 /\ tokens'[i].end \in -1..pos'
           /\ tokens'[i].end = -1 => tokens'[i].type \in Containers
    BY <2>1, <1>3, <1>4, <1>5, SMTT(30)
  <2> QED
    BY <2>2, <2>3 DEF Placed
<1>8. AcceptedIsComplete'
  BY DEF AcceptedIsComplete
<1> QED
  BY <1>2, <1>6, <1>7, <1>8 DEF IInv

\* A step that leaves the tokens alone and goes on reading.
LEMMA ReadStep ==
    ASSUME IInv, UNCHANGED <<text, toknext, tokens, count, ret>>,
           \/ toksuper' = toksuper
           \/ toksuper' = toknext - 1
           \/ toksuper \in Used /\ tokens[toksuper].end # -1
                /\ toksuper' = tokens[toksuper].parent,
           pos' \in pos..Len(text), start' \in 0..Len(text), Reached' >= Reached,
           pc' \in {"scan", "string", "primitive", "close"},
           tok' \in -1..toknext - 1,
           pc' = "close" => /\ tok' >= 0 /\ ~AtEnd'
                            /\ \A i \in Used : tokens[i].end = -1 => tok' >= i,
           pc' = "string" => pos' > start',
           pc' = "primitive" =>
             pos' > start' \/ (pos' = start' /\ Char' \notin Structural \cup {NUL})
    PROVE  IInv'
<1>1. TypeOK
  BY DEF IInv
<1>2. Links' /\ Adjacent' /\ Nested' /\ ValueIsNext'
  BY MoveKeepsTokens
<1>3. Len(text) \in Nat /\ pos \in Nat /\ start \in Nat
  BY <1>1, CharFact
<1>4. TypeOK'
  <2>1. toksuper' \in -1..toknext - 1
    BY <1>1, UsedFact, SMTT(30) DEF TypeOK, Used
  <2> QED
    BY <2>1, <1>1, <1>3, SMTT(30) DEF TypeOK, Used
<1>5. Placed'
  <2>1. Reached \in Int /\ Reached' \in Int
    BY <1>3 DEF Reached
  <2>2. \A i \in Used : /\ tokens[i].start \in 0..Reached - 1
                        /\ tokens[i].end \in -1..Reached
                        /\ tokens[i].end = -1 => tokens[i].type \in Containers
    BY DEF IInv, Placed
  <2>3. \A i \in Used' : /\ tokens'[i].start \in 0..Reached' - 1
                         /\ tokens'[i].end \in -1..Reached'
                         /\ tokens'[i].end = -1 => tokens'[i].type \in Containers
    BY <2>1, <2>2, SMTT(30) DEF Used
  <2> QED
    BY <2>3 DEF Placed
<1>6. AcceptedIsComplete'
  BY DEF AcceptedIsComplete
<1> QED
  BY <1>2, <1>4, <1>5, <1>6 DEF IInv

\* A step with which jsmn_parse returns.
LEMMA ReturnStep ==
    ASSUME IInv, NEW r, Return(r), pos' = Reached, UNCHANGED start,
           \/ r \in {NOMEM, INVAL, PART}
           \/ r = count /\ \A i \in Used : ~IsOpen(tokens[i])
    PROVE  IInv'
<1>1. TypeOK
  BY DEF IInv
<1>2. Links' /\ Adjacent' /\ Nested' /\ ValueIsNext'
  BY MoveKeepsTokens DEF Return
<1>3. /\ Len(text) \in Nat /\ pos \in 0..Len(text) /\ start \in 0..Len(text)
      /\ toknext \in 0..NumTokens /\ count = toknext
  BY <1>1, CharFact DEF TypeOK
<1>4. TypeOK'
  BY <1>1, <1>3 DEF TypeOK, Used, Return, Reached
<1>5. Placed'
  BY <1>3 DEF IInv, Placed, Reached, Return, Used
<1>6. AcceptedIsComplete'
  BY <1>3 DEF AcceptedIsComplete, Return, Used, IsOpen, NOMEM, INVAL, PART
<1> QED
  BY <1>2, <1>4, <1>5, <1>6 DEF IInv

\* The invariant holds when json_deal_cmd begins.
LEMMA InitInv == Init => IInv
<1> SUFFICES ASSUME Init PROVE IInv
  OBVIOUS
<1>1. Len(text) \in Nat
  BY TextsAssumption DEF Init, JsmnInit
<1>2. Used = {} /\ toknext = 0
  BY DEF Init, JsmnInit, Used
<1>3. TypeOK
  BY <1>1, <1>2, NumTokensAssumption, JunkAssumption
     DEF Init, JsmnInit, TypeOK
<1> QED
  BY <1>1, <1>2, <1>3 DEF Init, JsmnInit, IInv, Placed, Links, Adjacent, Nested,
     ValueIsNext, AcceptedIsComplete

\* Every step of the parser keeps the invariant.
LEMMA ParseInv ==
    ASSUME IInv, Parse
    PROVE  IInv'
<1>1. TypeOK
  BY DEF IInv
<1>2. /\ Len(text) \in Nat /\ pos \in Nat /\ start \in Nat
      /\ (AtEnd <=> pos = Len(text)) /\ (AtEnd <=> Char = NUL)
      /\ pos \in 0..Len(text) /\ start \in 0..Len(text)
  BY <1>1, CharFact DEF TypeOK
<1>3. /\ toknext \in Nat /\ toksuper \in -1..toknext - 1 /\ tok \in -1..toknext - 1
      /\ \A i \in Used : tokens[i].parent \in -1..i - 1 /\ i \in Nat
  BY <1>1, UsedFact DEF TypeOK
<1>4. NUL \notin Openers \cup Closers \cup {BLANK, ":", ",", QUOTE, CTL}
  BY DEF NUL, Openers, Closers, BLANK, QUOTE, CTL
<1>5. CASE OpenBracket
  <2> DEFINE t == NewToken(IF Char = "{" THEN "object" ELSE "array", pos, -1)
  <2>1. /\ t \in Token /\ t.size = 0 /\ t.start = pos /\ t.end = -1
        /\ t.type \in Containers
    BY <1>2 DEF NewToken, Token, Types, Containers
  <2>2. /\ AddToken(t) /\ HasRoom /\ pos' = pos + 1 /\ toksuper' = toknext
        /\ pc = "scan" /\ pc' = "scan" /\ UNCHANGED <<text, start, tok, ret>>
        /\ ~AtEnd
    BY <1>2, <1>4, <1>5 DEF OpenBracket, Scanning
  <2>3. Reached = pos
    BY <2>2 DEF Reached
  <2> HIDE DEF t
  <2> QED
    BY <2>1, <2>2, <2>3, <1>2, AddStep
<1>6. CASE EndString
  <2> DEFINE t == NewToken("string", start + 1, pos)
  <2>1. /\ t \in Token /\ t.size = 0 /\ t.start = start + 1 /\ t.end = pos
    BY <1>2 DEF NewToken, Token, Types
  <2>2. /\ AddToken(t) /\ HasRoom /\ pos' = pos + 1 /\ toksuper' = toksuper
        /\ pc = "string" /\ pc' = "scan" /\ UNCHANGED <<text, start, tok, ret>>
        /\ ~AtEnd
    BY <1>6 DEF EndString, InString, Finish
  <2>3. Reached = start /\ pos > start
    BY <2>2 DEF Reached, IInv, Placed
  <2> HIDE DEF t
  <2> QED
    BY <2>1, <2>2, <2>3, <1>2, AddStep
<1>7. CASE EndPrimitive
  <2> DEFINE t == NewToken("primitive", start, pos)
  <2>1. /\ t \in Token /\ t.size = 0 /\ t.start = start /\ t.end = pos
    BY <1>2 DEF NewToken, Token, Types
  <2>2. /\ AddToken(t) /\ HasRoom /\ pos' = pos /\ toksuper' = toksuper
        /\ pc = "primitive" /\ pc' = "scan" /\ UNCHANGED <<text, start, tok, ret>>
        /\ Char \in Delimiters \cup {NUL}
    BY <1>7 DEF EndPrimitive, Found, Finish
  <2>3. Delimiters \subseteq Structural
    BY DEF Delimiters, Structural, Closers, Openers
  <2>4. Reached = start /\ pos > start
    BY <2>2, <2>3, <1>2 DEF Reached, IInv, Placed
  <2> HIDE DEF t
  <2> QED
    BY <2>1, <2>2, <2>4, <1>2, AddStep
<1>8. CASE CloseMatch
  <2>1. Links' /\ Adjacent' /\ Nested' /\ ValueIsNext'
    BY <1>8, CloseKeepsTokens
  <2>2. /\ tok \in Used /\ tok \in Slots /\ ~AtEnd /\ pos' = pos + 1 /\ pc = "close"
        /\ pc' = "scan" /\ tokens' = [tokens EXCEPT ![tok].end = pos + 1]
        /\ toksuper' = tokens[tok].parent
        /\ UNCHANGED <<text, toknext, count, start, tok, ret>>
    BY <1>1, <1>3, <1>8, UsedFact DEF CloseMatch, TypeOK, Used
  <2>3. \A i \in Used : /\ tokens'[i].start = tokens[i].start
                        /\ tokens'[i].end \in {tokens[i].end, pos + 1}
                        /\ tokens'[i].type = tokens[i].type
                        /\ tokens'[i].parent = tokens[i].parent
    BY <1>1, <2>2, UsedFact DEF TypeOK, Token
  <2>4. TypeOK'
    <3>1. \A u \in Token : [u EXCEPT !.end = pos + 1] \in Token
      BY <1>2 DEF Token
    <3>2. tokens' \in [Slots -> Token]
      BY <3>1, <2>2, <1>1 DEF TypeOK
    <3>3. \A i \in Used' : tokens'[i].parent \in -1..i - 1
      BY <2>2, <2>3, <1>3 DEF Used
    <3>4. /\ pos' \in 0..Len(text') /\ toksuper' \in -1..toknext' - 1
          /\ tok' \in -1..toknext' - 1
      BY <2>2, <1>2, <1>3
    <3> QED
      BY <3>2, <3>3, <3>4, <2>2, <1>1 DEF TypeOK
  <2>5. Placed'
    <3>1. \A i \in Used :
             /\ tokens[i].start \in 0..pos - 1 /\ tokens[i].end \in -1..pos
             /\ tokens[i].end = -1 => tokens[i].type \in Containers
      BY <2>2 DEF IInv, Placed, Reached
    <3>2. \A i \in Used' : /\ tokens'[i].start \in 0..pos' - 1
                           /\ tokens'[i].end \in -1..pos'
                           /\ tokens'[i].end = -1 => tokens'[i].type \in Containers
      BY <3>1, <2>2, <2>3, <1>2, SMTT(30) DEF Used
    <3> QED
      BY <3>2, <2>2 DEF Placed, Reached
  <2>6. AcceptedIsComplete'
    BY <2>2 DEF AcceptedIsComplete
  <2> QED
    BY <2>1, <2>4, <2>5, <2>6 DEF IInv
<1>9. CASE SkipBlank
  <2>1. /\ pc = "scan" /\ pc' = "scan" /\ pos' = pos + 1 /\ ~AtEnd
        /\ UNCHANGED <<text, toknext, toksuper, tokens, count, start, tok, ret>>
    BY <1>2, <1>4, <1>9 DEF SkipBlank, Scanning
  <2> QED
    BY <2>1, <1>2, <1>3, ReadStep DEF Reached
<1>10. CASE Colon
  <2>1. /\ pc = "scan" /\ pc' = "scan" /\ pos' = pos + 1 /\ ~AtEnd /\ toksuper' = toknext - 1
        /\ UNCHANGED <<text, toknext, tokens, count, start, tok, ret>>
    BY <1>2, <1>4, <1>10 DEF Colon, Scanning
  <2> QED
    BY <2>1, <1>2, <1>3, ReadStep DEF Reached
<1>11. CASE Comma
  <2>1. /\ pc = "scan" /\ pc' = "scan" /\ pos' = pos + 1 /\ ~AtEnd /\ toksuper' = CommaSuper
        /\ UNCHANGED <<text, toknext, tokens, count, start, tok, ret>>
    BY <1>2, <1>4, <1>11 DEF Comma, Scanning
  <2>2. \/ toksuper' = toksuper
        \/ /\ toksuper \in Used /\ tokens[toksuper].type \notin Containers
           /\ toksuper' = tokens[toksuper].parent
    BY <2>1, <1>3 DEF CommaSuper, Used, Containers
  <2>3. toksuper \in Used /\ tokens[toksuper].type \notin Containers
          => tokens[toksuper].end # -1
    BY DEF IInv, Placed
  <2> QED
    BY <2>1, <2>2, <2>3, <1>2, <1>3, ReadStep DEF Reached
<1>12. CASE StartString
  <2>1. /\ pc = "scan" /\ pc' = "string" /\ start' = pos /\ pos' = pos + 1 /\ ~AtEnd
        /\ UNCHANGED <<text, toknext, toksuper, tokens, count, tok, ret>>
    BY <1>2, <1>4, <1>12 DEF StartString, Scanning
  <2> QED
    BY <2>1, <1>2, <1>3, ReadStep DEF Reached
<1>13. CASE StartPrimitive
  <2>1. /\ pc = "scan" /\ pc' = "primitive" /\ start' = pos
        /\ Char \notin Structural \cup {NUL}
        /\ UNCHANGED <<text, pos, toknext, toksuper, tokens, count, tok, ret>>
    BY <1>13 DEF StartPrimitive
  <2>2. Char' = Char
    BY <2>1 DEF Char, AtEnd
  <2> QED
    BY <2>1, <2>2, <1>2, <1>3, ReadStep DEF Reached
<1>14. CASE StringChar
  <2>1. /\ pc = "string" /\ pc' = "string" /\ ~AtEnd
        /\ UNCHANGED <<text, toknext, toksuper, tokens, count, start, tok, ret>>
    BY <1>14 DEF StringChar, InString
  <2>2. pos' \in pos + 1..Len(text)
    BY <2>1, <1>2, <1>14 DEF StringChar, Escape, HexEnd
  <2>3. pos > start
    BY <2>1 DEF IInv, Placed
  <2> QED
    BY <2>1, <2>2, <2>3, <1>2, <1>3, ReadStep DEF Reached
<1>15. CASE PrimitiveChar
  <2>1. /\ pc = "primitive" /\ pc' = "primitive" /\ pos' = pos + 1
        /\ Char \notin Delimiters \cup {NUL}
        /\ UNCHANGED <<text, toknext, toksuper, tokens, count, start, tok, ret>>
    BY <1>15 DEF PrimitiveChar, Found
  <2>2. pos >= start
    BY <2>1, <1>2 DEF IInv, Placed
  <2> QED
    BY <2>1, <2>2, <1>2, <1>3, ReadStep DEF Reached
<1>16. CASE CloseBracket
  <2>1. /\ pc = "scan" /\ pc' = "close" /\ tok' = toknext - 1 /\ toknext >= 1 /\ ~AtEnd
        /\ UNCHANGED <<text, pos, toknext, toksuper, tokens, count, start, ret>>
    BY <1>2, <1>4, <1>16 DEF CloseBracket, Scanning
  <2>2. \A i \in Used : tok' >= i
    BY <2>1, <1>3 DEF Used
  <2> QED
    BY <2>1, <2>2, <1>2, <1>3, ReadStep DEF Reached, AtEnd
<1>17. CASE CloseAscend
  <2>1. /\ pc = "close" /\ pc' = "close" /\ tok' = tokens[tok].parent /\ tok' # -1
        /\ ~IsOpen(tokens[tok]) /\ ~AtEnd /\ tok \in Used
        /\ UNCHANGED <<text, pos, toknext, toksuper, tokens, count, start, ret>>
    BY <1>1, <1>3, <1>17 DEF CloseAscend, TypeOK, Used
  <2>2. tokens[tok].end # -1
    BY <2>1 DEF IInv, Placed, IsOpen
  <2>3. ASSUME NEW i \in Used, tokens[i].end = -1
        PROVE  tok' >= i
    <3>1. tok >= i /\ \A j \in i + 1..toknext - 1 : tokens[j].parent >= i
      BY <2>1, <2>3 DEF IInv, Links
    <3>2. tok \in i + 1..toknext - 1
      BY <3>1, <2>1, <2>2, <2>3, <1>3
    <3> QED
      BY <3>1, <3>2, <2>1
  <2> QED
    BY <2>1, <2>3, <1>2, <1>3, ReadStep DEF Reached, AtEnd
<1>18. CASE ClosePassedOver
  <2>1. /\ pc = "close" /\ pc' = "scan" /\ pos' = pos + 1 /\ ~AtEnd
        /\ UNCHANGED <<text, toknext, toksuper, tokens, count, start, tok, ret>>
    BY <1>1, <1>18 DEF ClosePassedOver, TypeOK
  <2> QED
    BY <2>1, <1>2, <1>3, ReadStep DEF Reached
<1>19. CASE OpenNoRoom \/ CloseNothing \/ CloseWrongType \/ CloseUnmatched
  BY <1>19, ReturnStep DEF OpenNoRoom, CloseNothing, CloseWrongType, CloseUnmatched,
     Scanning, Reached, lexVars
<1>20. CASE StringNoRoom \/ StringInvalid \/ StringPart \/ PrimitiveNoRoom \/ PrimitiveInvalid
  BY <1>20, ReturnStep DEF StringNoRoom, StringInvalid, StringPart, PrimitiveNoRoom,
     PrimitiveInvalid, InString, Found, Fail, Reached
<1>21. CASE EndOfText
  BY <1>21, ReturnStep DEF EndOfText, Reached, lexVars, Used
<1> QED
  BY <1>5, <1>6, <1>7, <1>8, <1>9, <1>10, <1>11, <1>12, <1>13, <1>14, <1>15, <1>16,
     <1>17, <1>18, <1>19, <1>20, <1>21 DEF Parse, Close, ParseString, ParsePrimitive

\* The other steps of json_deal_cmd leave the parser alone.
LEMMA NextInv == IInv /\ [Next]_vars => IInv'
<1> SUFFICES ASSUME IInv, [Next]_vars PROVE IInv'
  OBVIOUS
<1>1. CASE Parse
  BY <1>1, ParseInv
<1>2. CASE UNCHANGED parserVars
  BY <1>2 DEF parserVars, IInv, TypeOK, Placed, Links, Adjacent, Nested, ValueIsNext,
     AcceptedIsComplete, Used, FirstChild, Reached, AtEnd, Char, IsOpen
<1> QED
  BY <1>1, <1>2 DEF Next, Deal, vars, ParseStep, DealError, DealParse, DealRefuse,
     DealAccept, DealMissing, DealFind, DealShow, DealDone, Leave, GoOn

-----------------------------------------------------------------------------
\* The whole invariant, for every text and every token array.
LEMMA Invariance == Spec => []IInv
BY InitInv, NextInv, PTL DEF Spec

\* The parser never leaves its token array, and every parent link and the links
\* it climbs are indices of tokens in use in front of the token they belong to.
THEOREM ParserStaysInArray == Spec => []TypeOK
<1>1. IInv => TypeOK
  BY DEF IInv
<1> QED
  BY <1>1, Invariance, PTL

\* Tokens nest for every text: a bracket that closes anything closes the innermost
\* open container.
THEOREM TokensNest == Spec => []Nested
<1>1. IInv => Nested
  BY DEF IInv
<1> QED
  BY <1>1, Invariance, PTL

\* The token behind a key is its value, so JSMN_GetValueString need not look.
THEOREM ValueBehindKey == Spec => []ValueIsNext
<1>1. IInv => ValueIsNext
  BY DEF IInv
<1> QED
  BY <1>1, Invariance, PTL

\* A count that jsmn_parse returns is the number of tokens it filled, all closed.
THEOREM CountIsTrue == Spec => []AcceptedIsComplete
<1>1. IInv => AcceptedIsComplete
  BY DEF IInv
<1> QED
  BY <1>1, Invariance, PTL

-----------------------------------------------------------------------------
(* The children that are counted and the children that are found *)

\* The n-th smallest elements of a finite set of numbers are its elements.
LEMMA NthAll ==
    ASSUME NEW S \in SUBSET Int, IsFiniteSet(S)
    PROVE  /\ {Nth(S, n) : n \in 0..Cardinality(S) - 1} = S
           /\ \A n \in 0..Cardinality(S) - 1 :
                  Nth(S, n) \in S /\ Cardinality({j \in S : j < Nth(S, n)}) = n
<1> DEFINE k == Cardinality(S)
           Below(i) == {j \in S : j < i}
           rank == [i \in S |-> Cardinality(Below(i))]
<1>1. k \in Nat BY FS_CardinalityType
<1>2. ASSUME NEW i \in S
      PROVE  IsFiniteSet(Below(i)) /\ Cardinality(Below(i)) \in 0..k - 1
  <2>1. Below(i) \in SUBSET S /\ Below(i) # S OBVIOUS
  <2>2. /\ IsFiniteSet(Below(i)) /\ Cardinality(Below(i)) <= k
        /\ (k = Cardinality(Below(i)) => S = Below(i))
    BY <2>1, FS_Subset
  <2>3. Cardinality(Below(i)) \in Nat BY <2>2, FS_CardinalityType
  <2> HIDE DEF Below, k
  <2> QED BY <1>1, <2>1, <2>2, <2>3
<1>3. ASSUME NEW i \in S, NEW h \in S, h < i
      PROVE  Cardinality(Below(h)) < Cardinality(Below(i))
  <2>1. Below(h) \in SUBSET Below(i)
    <3>1. ASSUME NEW j \in S, j < h PROVE j < i
      <4>1. j \in Int /\ h \in Int /\ i \in Int
        OBVIOUS
      <4> QED
        BY <4>1, <3>1, <1>3
    <3> QED
      BY <3>1
  <2>2. h \in Below(i) /\ h \notin Below(h) BY <1>3
  <2>3. IsFiniteSet(Below(i)) /\ Cardinality(Below(i)) \in Nat
        /\ Cardinality(Below(h)) \in Nat
    BY <1>1, <1>2
  <2>4. /\ Cardinality(Below(h)) <= Cardinality(Below(i))
        /\ Cardinality(Below(i)) = Cardinality(Below(h)) => Below(i) = Below(h)
    BY <2>1, <2>3, FS_Subset
  <2> HIDE DEF Below
  <2> QED BY <2>2, <2>3, <2>4
<1>4. \A i \in S : rank[i] = Cardinality(Below(i)) OBVIOUS
<1>5. rank \in [S -> 0..k - 1] BY <1>2
<1> HIDE DEF Below, rank, k
<1>6. rank \in Injection(S, 0..k - 1)
  <2>1. DOMAIN rank = S BY <1>5
  <2>2. ASSUME NEW i \in S, NEW h \in S, rank[h] = rank[i] PROVE h = i
    <3>1. CASE h < i BY <1>2, <1>3, <1>4, <2>2, <3>1
    <3>2. CASE i < h BY <1>2, <1>3, <1>4, <2>2, <3>2
    <3> QED BY <3>1, <3>2
  <2> QED BY <1>5, <2>1, <2>2 DEF Injection, IsInjective
<1>7. IsFiniteSet(0..k - 1) /\ Cardinality(0..k - 1) = k BY <1>1, FS_Interval
<1>8. rank \in Surjection(S, 0..k - 1) BY <1>6, <1>7, FS_Injection DEF k
<1>9. ASSUME NEW n \in 0..k - 1
      PROVE  Nth(S, n) \in S /\ rank[Nth(S, n)] = n
  <2>1. PICK i \in S : rank[i] = n BY <1>8 DEF Surjection
  <2>2. \E j \in S : Cardinality({h \in S : h < j}) = n BY <1>4, <2>1 DEF Below
  <2>3. Nth(S, n) \in S /\ Cardinality({h \in S : h < Nth(S, n)}) = n
    BY <2>2 DEF Nth
  <2> QED BY <1>4, <2>3 DEF Below
<1>10. ASSUME NEW i \in S PROVE Nth(S, rank[i]) = i /\ rank[i] \in 0..k - 1
  <2>1. rank[i] \in 0..k - 1 BY <1>5
  <2>2. Nth(S, rank[i]) \in S /\ rank[Nth(S, rank[i])] = rank[i] BY <1>9, <2>1
  <2> QED BY <1>5, <1>6, <2>1, <2>2 DEF Injection, IsInjective
<1>11. \A n \in 0..k - 1 : Nth(S, n) \in S /\ Cardinality({j \in S : j < Nth(S, n)}) = n
  BY <1>4, <1>9 DEF Below
<1> QED BY <1>9, <1>10, <1>11 DEF k

\* The size of a token is the number of its children.
Kids(i) == {j \in Used : tokens[j].parent = i}
Counted == \A i \in Used : tokens[i].size = Cardinality(Kids(i))

LEMMA KidsFinite ==
    ASSUME TypeOK, NEW i
    PROVE  IsFiniteSet(Kids(i)) /\ Cardinality(Kids(i)) \in Nat
<1>1. IsFiniteSet(Used) BY UsedFact, FS_Interval DEF Used
<1>2. Kids(i) \in SUBSET Used BY DEF Kids
<1> QED BY <1>1, <1>2, FS_Subset, FS_CardinalityType

\* A new token is one child more of toksuper and has none itself.
LEMMA AddCounts ==
    ASSUME TypeOK, Counted, HasRoom, NEW t \in Token, AddToken(t), t.size = 0
    PROVE  Counted'
<1>1. /\ toknext \in Nat /\ toknext' = toknext + 1 /\ toksuper \in -1..toknext - 1
      /\ tokens'[toknext].size = 0 /\ tokens'[toknext].parent = toksuper
      /\ \A i \in Used : /\ tokens'[i].parent = tokens[i].parent
                         /\ tokens[i].parent \in -1..i - 1
                         /\ i # toksuper => tokens'[i].size = tokens[i].size
  BY AddTokenFacts, UsedFact DEF TypeOK
<1>2. Used' = Used \cup {toknext} /\ toknext \notin Used BY <1>1 DEF Used
<1>3. {j \in Used' : tokens'[j].parent = toknext} = {}
  BY <1>1, <1>2 DEF Used
<1>4. ASSUME NEW i \in Used, i # toksuper PROVE Kids(i)' = Kids(i)
  BY <1>1, <1>2, <1>4 DEF Kids
<1>5. ASSUME toksuper \in Used
      PROVE  tokens'[toksuper].size = Cardinality({j \in Used' : tokens'[j].parent = toksuper})
  <2>1. {j \in Used' : tokens'[j].parent = toksuper} = Kids(toksuper) \cup {toknext}
    BY <1>1, <1>2 DEF Kids
  <2>2. toknext \notin Kids(toksuper) BY <1>2 DEF Kids
  <2>3. Cardinality(Kids(toksuper) \cup {toknext}) = Cardinality(Kids(toksuper)) + 1
    BY <2>2, KidsFinite, FS_AddElement
  <2>4. tokens'[toksuper].size = tokens[toksuper].size + 1
    <3>1. toksuper \in Slots /\ toksuper # toknext BY <1>2, <1>5, UsedFact
    <3>2. tokens'[toksuper] = [tokens[toksuper] EXCEPT !.size = @ + 1]
      BY <3>1 DEF AddToken
    <3>3. tokens[toksuper] \in Token BY <3>1 DEF TypeOK
    <3> QED BY <3>2, <3>3 DEF Token
  <2> QED BY <1>5, <2>1, <2>3, <2>4 DEF Counted
<1>6. ASSUME NEW i \in Used'
      PROVE  tokens'[i].size = Cardinality({j \in Used' : tokens'[j].parent = i})
  <2>1. CASE i = toknext BY <1>1, <1>3, <2>1, FS_EmptySet
  <2>2. CASE i = toksuper /\ i \in Used BY <1>5, <2>2
  <2>3. CASE i # toksuper /\ i \in Used
    <3>1. tokens'[i].size = tokens[i].size BY <1>1, <2>3
    <3>2. {j \in Used' : tokens'[j].parent = i} = Kids(i) BY <1>4, <2>3 DEF Kids
    <3> QED BY <2>3, <3>1, <3>2 DEF Counted
  <2> QED BY <1>2, <2>1, <2>2, <2>3
<1> QED BY <1>6 DEF Counted, Kids

LEMMA SameCounts ==
    ASSUME Counted, toknext' = toknext,
           \A i \in Used : /\ tokens'[i].size = tokens[i].size
                           /\ tokens'[i].parent = tokens[i].parent
    PROVE  Counted'
<1>1. Used' = Used BY DEF Used
<1>2. ASSUME NEW i \in Used PROVE Kids(i)' = Kids(i) BY <1>1 DEF Kids
<1>3. ASSUME NEW i \in Used PROVE tokens'[i].size = Cardinality(Kids(i)')
  BY <1>2 DEF Counted
<1> QED BY <1>1, <1>3 DEF Counted

\* Every step of the parser counts the children it links.
LEMMA ParseCounts ==
    ASSUME IInv, Counted, Parse
    PROVE  Counted'
<1>1. TypeOK
  BY DEF IInv
<1>2. pos \in Int /\ start \in Int
  BY <1>1, CharFact
<1>3. CASE OpenBracket
  <2> DEFINE t == NewToken(IF Char = "{" THEN "object" ELSE "array", pos, -1)
  <2>1. t \in Token /\ t.size = 0
    BY <1>2 DEF NewToken, Token, Types
  <2>2. AddToken(t) /\ HasRoom
    BY <1>3 DEF OpenBracket
  <2> HIDE DEF t
  <2> QED
    BY <2>1, <2>2, <1>1, AddCounts
<1>4. CASE EndString
  <2> DEFINE t == NewToken("string", start + 1, pos)
  <2>1. t \in Token /\ t.size = 0
    BY <1>2 DEF NewToken, Token, Types
  <2>2. AddToken(t) /\ HasRoom
    BY <1>4 DEF EndString, Finish
  <2> HIDE DEF t
  <2> QED
    BY <2>1, <2>2, <1>1, AddCounts
<1>5. CASE EndPrimitive
  <2> DEFINE t == NewToken("primitive", start, pos)
  <2>1. t \in Token /\ t.size = 0
    BY <1>2 DEF NewToken, Token, Types
  <2>2. AddToken(t) /\ HasRoom
    BY <1>5 DEF EndPrimitive, Finish
  <2> HIDE DEF t
  <2> QED
    BY <2>1, <2>2, <1>1, AddCounts
<1>6. CASE CloseMatch
  <2>1. /\ tokens' = [tokens EXCEPT ![tok].end = pos + 1] /\ toknext' = toknext
        /\ tokens \in [Slots -> Token]
    BY <1>1, <1>6 DEF CloseMatch, TypeOK
  <2>2. \A i \in Used : /\ tokens'[i].size = tokens[i].size
                        /\ tokens'[i].parent = tokens[i].parent
    BY <1>1, <2>1, UsedFact DEF Token
  <2> QED
    BY <2>1, <2>2, SameCounts
<1>7. CASE UNCHANGED <<toknext, tokens>>
  BY <1>7, SameCounts
<1> QED
  BY <1>3, <1>4, <1>5, <1>6, <1>7 DEF Parse, Close, ParseString, ParsePrimitive,
     OpenNoRoom, CloseBracket, CloseNothing, CloseWrongType, CloseAscend,
     CloseUnmatched, ClosePassedOver, SkipBlank, Colon, Comma, StartString,
     StringNoRoom, StringChar, StringInvalid, StringPart, StartPrimitive,
     PrimitiveNoRoom, PrimitiveChar, PrimitiveInvalid, EndOfText, Return, Fail

LEMMA CountedNext == IInv /\ Counted /\ [Next]_vars => Counted'
<1> SUFFICES ASSUME IInv, Counted, [Next]_vars PROVE Counted'
  OBVIOUS
<1>1. CASE Parse
  BY <1>1, ParseCounts
<1>2. CASE UNCHANGED parserVars
  BY <1>2, SameCounts DEF parserVars
<1> QED
  BY <1>1, <1>2 DEF Next, Deal, vars, ParseStep, DealError, DealParse, DealRefuse,
     DealAccept, DealMissing, DealFind, DealShow, DealDone, Leave, GoOn

\* The array of an item is a token in use with all the tokens in use behind it.
LEMMA ContainerFact ==
    ASSUME TypeOK, NEW i \in Used, NEW type,
           Container(ItemInit(i, toknext), type) # NONE
    PROVE  \E b \in Used : Container(ItemInit(i, toknext), type)
                             = [index |-> b, left |-> toknext - b - 1]
<1> DEFINE item == ItemInit(i, toknext)
<1>1. item.index = i /\ item.left = toknext - i - 1 /\ toknext \in Nat /\ i \in Nat
  BY UsedFact DEF ItemInit
<1>2. item = [index |-> i, left |-> toknext - i - 1]
  BY DEF ItemInit
<1>3. Behind(item, 1) = [index |-> i + 1, left |-> toknext - (i + 1) - 1]
  BY <1>1 DEF Behind
<1>4. HasValue(item) => i + 1 \in Used
  BY <1>1 DEF HasValue, Used
<1> HIDE DEF item
<1>5. \/ Container(item, type) = item
      \/ HasValue(item) /\ Container(item, type) = Behind(item, 1)
  BY DEF Container, item
<1> QED
  BY <1>2, <1>3, <1>4, <1>5 DEF item

\* The children found behind a token are the ones linked to it, at their distances.
LEMMA FoundFact ==
    ASSUME TypeOK, NEW b \in Used
    PROVE  LET box == [index |-> b, left |-> toknext - b - 1]
           IN  /\ Children(box) \in SUBSET Int /\ IsFiniteSet(Children(box))
               /\ Kids(b) = {b + d : d \in Children(box)}
               /\ Cardinality(Children(box)) = Cardinality(Kids(b))
<1> DEFINE box == [index |-> b, left |-> toknext - b - 1]
           C == Children(box)
           shift == [d \in C |-> b + d]
<1>1. /\ toknext \in Nat /\ b \in Nat /\ b < toknext
      /\ \A j \in Used : j \in Nat /\ tokens[j].parent \in -1..j - 1
  BY UsedFact DEF Used
<1>2. C = {d \in 1..toknext - b - 1 : tokens[b + d].parent = b}
  BY DEF Children, Tok, Behind
<1> HIDE DEF C, box
<1>3. C \in SUBSET Int /\ IsFiniteSet(C)
  <2>1. C \in SUBSET (1..toknext - b - 1)
    BY <1>2
  <2>2. IsFiniteSet(1..toknext - b - 1)
    BY <1>1, FS_Interval
  <2>3. C \in SUBSET Int
    BY <1>1, <1>2
  <2> QED
    BY <2>1, <2>2, <2>3, FS_Subset
<1>4. Kids(b) = {b + d : d \in C}
  <2>1. ASSUME NEW d \in C PROVE b + d \in Kids(b)
    BY <1>1, <1>2 DEF Kids, Used
  <2>2. ASSUME NEW j \in Kids(b) PROVE \E d \in C : j = b + d
    <3>1. j \in Used /\ tokens[j].parent = b
      BY DEF Kids
    <3>2. j \in Nat /\ b < j /\ j < toknext
      BY <3>1, <1>1 DEF Used
    <3>3. j - b \in C /\ j = b + (j - b)
      BY <3>1, <3>2, <1>1, <1>2
    <3> QED
      BY <3>3
  <2> QED
    BY <2>1, <2>2
<1>5. shift \in Bijection(C, Kids(b))
  <2>1. shift \in [C -> Kids(b)]
    BY <1>4
  <2>2. \A d \in C, e \in C : shift[d] = shift[e] => d = e
    BY <1>1, <1>3
  <2>3. \A j \in Kids(b) : \E d \in C : shift[d] = j
    BY <1>4
  <2> HIDE DEF shift
  <2> QED
    BY <2>1, <2>2, <2>3 DEF Bijection, Injection, Surjection, IsInjective
<1>6. Cardinality(C) = Cardinality(Kids(b))
  BY <1>3, <1>5, FS_Bijection DEF ExistsBijection
<1> QED
  BY <1>3, <1>4, <1>6 DEF C, box

LEMMA ItemsFound == IInv /\ Counted => ArrayItems
<1> SUFFICES ASSUME IInv, Counted, pc = "done", ret >= 0, NEW i \in Used,
                    Container(ItemInit(i, ret), "array") # NONE
             PROVE  {GetArrayItem(ItemInit(i, ret), n).index :
                        n \in 0..GetArraySize(ItemInit(i, ret)) - 1}
                      = {j \in Used : tokens[j].parent
                                        = Container(ItemInit(i, ret), "array").index}
  BY DEF ArrayItems
<1> DEFINE array == ItemInit(i, ret)
           box == Container(array, "array")
           C == Children(box)
<1>1. TypeOK /\ ret = toknext
  BY DEF IInv, AcceptedIsComplete
<1>2. PICK b \in Used : box = [index |-> b, left |-> toknext - b - 1]
  BY <1>1, ContainerFact
<1>3. /\ C \in SUBSET Int /\ IsFiniteSet(C)
      /\ Kids(b) = {b + d : d \in C} /\ Cardinality(C) = Cardinality(Kids(b))
  BY <1>1, <1>2, FoundFact
<1>4. Cardinality(C) \in Nat
  BY <1>3, FS_CardinalityType
<1>5. box.index = b /\ box # NONE
  BY <1>2
<1>6. GetArraySize(array) = Cardinality(C)
  <2>1. GetArraySize(array) = tokens[b].size
    BY <1>5 DEF GetArraySize, Tok
  <2> QED
    BY <2>1, <1>3 DEF Counted
<1>7. ASSUME NEW n \in 0..Cardinality(C) - 1
      PROVE  GetArrayItem(array, n).index = b + Nth(C, n)
  <2>1. ~(n >= GetArraySize(array) \/ n >= Cardinality(C))
    BY <1>4, <1>6
  <2>2. GetArrayItem(array, n) = Behind(box, Nth(C, n))
    BY <2>1 DEF GetArrayItem
  <2> HIDE DEF box, C
  <2> QED
    BY <2>2, <1>5 DEF Behind
<1>8. {Nth(C, n) : n \in 0..Cardinality(C) - 1} = C
  BY <1>3, NthAll
<1> HIDE DEF array, box, C
<1>9. {GetArrayItem(array, n).index : n \in 0..Cardinality(C) - 1} = {b + d : d \in C}
  BY <1>7, <1>8
<1>10. {GetArrayItem(array, n).index : n \in 0..GetArraySize(array) - 1}
         = {j \in Used : tokens[j].parent = box.index}
  BY <1>3, <1>5, <1>6, <1>9 DEF Kids
<1> QED
  BY <1>10 DEF array, box

\* In every accepted text, below the size that JSMN_GetArraySize reports for an
\* array JSMN_GetArrayItem reaches every element of it and nothing else.
THEOREM ArrayItemsFound == Spec => []ArrayItems
<1>1. Init => Counted
  BY DEF Init, JsmnInit, Counted, Used
<1>2. Spec => [](IInv /\ Counted)
  BY <1>1, InitInv, NextInv, CountedNext, PTL DEF Spec
<1> QED
  BY <1>2, ItemsFound, PTL

-----------------------------------------------------------------------------
(* json_deal_cmd: what is found and what is shown *)

\* JSMN_GetObjectItem for field f, and what is in json_age before its value is copied.
Item(f) == GetObjectItem(ItemInit(0, ret), <<Fields[f]>>)
Before(f) == IF f = 1 THEN UNINIT ELSE shown[f - 1]

Accepted == pc = "done" /\ IsObject
IsSeq(s) == \E S : s \in Seq(S)

\* The items are those of the first fields, the texts shown are their values.
Looked == \A f \in 1..Len(items) : items[f] = Item(f) /\ Item(f) # NONE
Copied ==
    /\ json_age = Before(Len(shown) + 1)
    /\ \A f \in 1..Len(shown) : shown[f] = GetValueStringBuffered(Item(f), BufSz, Before(f))

DealInv ==
    /\ IsSeq(items) /\ IsSeq(shown)
    /\ step \in {"check", "parse"} => items = <<>> /\ shown = <<>> /\ json_age = UNINIT
    /\ step = "check" => pc = "scan"
    /\ step \in {"find", "show"} => Accepted /\ Looked /\ Copied
    /\ step = "find" => Len(items) \in 0..2 /\ shown = <<>>
    /\ step = "show" => Len(items) = 3 /\ Len(shown) \in 0..3
    /\ step = "done" => result \in {-2, -1, 1}
    /\ step = "done" /\ result = 1 =>
          Accepted /\ Looked /\ Copied /\ Len(items) = 3 /\ Len(shown) = 3
    /\ step = "done" /\ result = -1 /\ Accepted => \E f \in 1..3 : Item(f) = NONE
    /\ step = "done" /\ result = -1 => pc = "done"
    /\ step = "done" /\ result = -2 => pc = "scan" /\ IsError

\* json_deal_cmd shows three fields.
LEMMA FieldsFact == Len(Fields) = 3 /\ DOMAIN Fields = 1..3
BY DEF Fields

\* A sequence with one element more at its end.
LEMMA AppendFact ==
    ASSUME NEW s, IsSeq(s), NEW e
    PROVE  /\ Len(s) \in Nat /\ Len(Append(s, e)) = Len(s) + 1
           /\ \A f \in 1..Len(s) : Append(s, e)[f] = s[f]
           /\ Append(s, e)[Len(s) + 1] = e
           /\ IsSeq(Append(s, e))
<1>1. PICK S : s \in Seq(S) BY DEF IsSeq
<1>2. s \in Seq(S \cup {e}) BY <1>1
<1> QED BY <1>2 DEF IsSeq

\* The item functions read only the text, the tokens and the number of them.
LEMMA ItemSame ==
    ASSUME UNCHANGED parserVars
    PROVE  \A f : Item(f)' = Item(f)
<1>1. text' = text /\ tokens' = tokens /\ ret' = ret BY DEF parserVars
<1> QED
  BY <1>1 DEF Item, GetObjectItem, ItemInit, Container, HasValue, Named, Children, Content,
     Tok, Behind, Nth, NONE, Fields

\* What is shown stays what it was.
LEMMA CopiedSame ==
    ASSUME UNCHANGED parserVars, UNCHANGED <<json_age, shown>>, Copied
    PROVE  Copied'
<1>1. text' = text /\ tokens' = tokens BY DEF parserVars
<1>2. \A f : Before(f)' = Before(f) BY DEF Before, UNINIT
<1>3. ASSUME NEW f
      PROVE  GetValueStringBuffered(Item(f), BufSz, Before(f))'
               = GetValueStringBuffered(Item(f), BufSz, Before(f))
  <2>1. Item(f)' = Item(f) /\ Before(f)' = Before(f) BY <1>2, ItemSame
  <2> QED BY <1>1, <2>1 DEF GetValueStringBuffered, HasValue, GetStringBuffered,
             Content, Tok, Behind, Cut
<1>4. Before(Len(shown) + 1)' = Before(Len(shown) + 1) BY DEF Before, UNINIT
<1> QED BY <1>3, <1>4 DEF Copied

\* json_deal_cmd begins with nothing found and nothing shown.
LEMMA DealInit == Init => DealInv
<1> SUFFICES ASSUME Init PROVE DealInv OBVIOUS
<1>1. <<>> \in Seq({}) OBVIOUS
<1> QED BY <1>1 DEF Init, JsmnInit, DealInv, IsSeq

\* Every step of json_deal_cmd and of jsmn_parse in it keeps DealInv.
LEMMA DealNext ==
    ASSUME DealInv, [Next]_vars
    PROVE  DealInv'
<1> USE DEF DealInv
<1>1. Len(Fields) = 3 BY FieldsFact
<1>2. CASE DealError
  <2>1. /\ step = "check" /\ step' = "done" /\ result' = -2 /\ pc' = pc
        /\ items' = items /\ shown' = shown /\ text' = text /\ IsError
    BY <1>2 DEF DealError, Leave, parserVars
  <2>2. IsError' BY <2>1 DEF IsError, ERR
  <2> QED BY <2>1, <2>2 DEF IsSeq
<1>3. CASE DealParse
  <2>1. /\ step = "check" /\ step' = "parse" /\ items' = items /\ shown' = shown
        /\ json_age' = json_age
    BY <1>3 DEF DealParse, GoOn
  <2> QED BY <2>1 DEF IsSeq
<1>4. CASE ParseStep
  <2>1. step = "parse" /\ UNCHANGED <<step, items, shown, json_age>>
    BY <1>4 DEF ParseStep, dealVars
  <2> QED BY <2>1 DEF IsSeq
<1>5. CASE DealRefuse
  <2>1. /\ step = "parse" /\ pc = "done" /\ ~IsObject /\ step' = "done" /\ result' = -1
        /\ UNCHANGED <<items, shown, pc, tokens, ret>>
    BY <1>5 DEF DealRefuse, Leave, parserVars
  <2>2. ~Accepted' BY <2>1 DEF Accepted, IsObject
  <2> QED BY <2>1, <2>2 DEF IsSeq
<1>6. CASE DealAccept
  <2>1. /\ step = "parse" /\ Accepted /\ step' = "find"
        /\ items' = <<>> /\ shown' = <<>> /\ json_age' = UNINIT
        /\ UNCHANGED <<items, shown, pc, tokens, ret>>
    BY <1>6 DEF DealAccept, GoOn, parserVars, Accepted
  <2>2. Accepted' BY <2>1 DEF Accepted, IsObject
  <2>3. Looked' /\ Copied' BY <2>1 DEF Looked, Copied, Before, UNINIT
  <2> QED BY <2>1, <2>2, <2>3 DEF IsSeq
<1>7. CASE DealMissing
  <2>1. /\ step = "find" /\ step' = "done" /\ result' = -1 /\ UNCHANGED parserVars
        /\ UNCHANGED <<items, shown>>
    BY <1>7 DEF DealMissing, Leave
  <2>2. Len(items) \in 0..2 BY <2>1
  <2>3. PICK n \in 0..2 : n = Len(items) BY <2>2, Zenon
  <2>4. Item(n + 1) = NONE BY <1>7, <2>3 DEF DealMissing, Wanted, Item
  <2>5. n + 1 \in 1..3
    <3> HIDE DEF DealInv
    <3> QED OBVIOUS
  <2>6. PICK f \in 1..3 : Item(f) = NONE BY <2>4, <2>5, Zenon
  <2>7. Item(f)' = NONE' BY <2>1, <2>6, ItemSame DEF NONE
  <2>8. pc' = "done" BY <2>1 DEF Accepted, parserVars
  <2> QED BY <2>1, <2>7, <2>8 DEF IsSeq
<1>8. CASE DealFind
  <2> DEFINE n == Len(items)
  <2>1. /\ step = "find" /\ step' = (IF Len(items') = 3 THEN "show" ELSE "find")
        /\ UNCHANGED parserVars /\ shown' = <<>> /\ UNCHANGED <<json_age, shown>>
        /\ items' = Append(items, Wanted) /\ Wanted # NONE
    BY <1>1, <1>8 DEF DealFind, GoOn
  <2>2. n \in 0..2 /\ Wanted = Item(n + 1)
    BY <2>1 DEF Wanted, Item
  <2>3. /\ IsSeq(items') /\ Len(items') = n + 1
        /\ \A f \in 1..n : items'[f] = items[f]
        /\ items'[n + 1] = Item(n + 1)
    BY <2>1, <2>2, AppendFact
  <2>4. Looked'
    <3>1. ASSUME NEW f \in 1..n + 1 PROVE items'[f] = Item(f) /\ Item(f) # NONE
      BY <2>1, <2>2, <2>3 DEF Looked
    <3> QED BY <2>1, <2>2, <2>3, <3>1, ItemSame DEF Looked, NONE
  <2>5. Copied' /\ Accepted'
    BY <2>1, CopiedSame DEF Accepted, IsObject, parserVars
  <2> QED BY <2>1, <2>2, <2>3, <2>4, <2>5 DEF IsSeq
<1>9. CASE DealShow
  <2> DEFINE n == Len(shown)
             v == GetValueStringBuffered(items[n + 1], BufSz, json_age)
  <2>1. /\ step = "show" /\ n < 3 /\ json_age' = v /\ shown' = Append(shown, v)
        /\ UNCHANGED parserVars /\ UNCHANGED <<step, items, result>>
    BY <1>1, <1>9 DEF DealShow
  <2>2. /\ n \in 0..2 /\ items[n + 1] = Item(n + 1) /\ json_age = Before(n + 1)
        /\ Accepted /\ Copied /\ Looked
    BY <2>1 DEF Looked, Copied
  <2>3. /\ IsSeq(shown') /\ Len(shown') = n + 1 /\ shown'[n + 1] = v
        /\ \A f \in 1..n : shown'[f] = shown[f]
    BY <2>1, <2>2, AppendFact
  <2> HIDE DEF n, v
  <2>4. \A f \in 1..n + 1 : Before(f)' = Before(f)
    BY <2>2, <2>3 DEF Before, UNINIT
  <2>5. ASSUME NEW f \in 1..n + 1
        PROVE  shown'[f] = GetValueStringBuffered(Item(f), BufSz, Before(f))
    <3>1. CASE f = n + 1 BY <2>2, <2>3, <3>1 DEF v
    <3>2. CASE f \in 1..n BY <2>2, <2>3, <3>2 DEF Copied, n
    <3> QED BY <2>2, <3>1, <3>2
  <2>6. ASSUME NEW f \in 1..n + 1
        PROVE  GetValueStringBuffered(Item(f), BufSz, Before(f))'
                 = GetValueStringBuffered(Item(f), BufSz, Before(f))
    <3>1. text' = text /\ tokens' = tokens BY <2>1 DEF parserVars
    <3>2. Item(f)' = Item(f) /\ Before(f)' = Before(f) BY <2>1, <2>4, ItemSame
    <3> QED BY <3>1, <3>2 DEF GetValueStringBuffered, HasValue, GetStringBuffered,
     Content, Tok, Behind, Cut
  <2>7. Copied'
    <3>1. Before(Len(shown) + 1)' = json_age'
      BY <2>1, <2>2, <2>3 DEF Before
    <3> QED BY <2>3, <2>5, <2>6, <3>1 DEF Copied
  <2>8. Looked' /\ Accepted'
    BY <2>1, <2>2, ItemSame DEF Accepted, IsObject, parserVars, Looked, NONE
  <2> QED BY <2>1, <2>2, <2>3, <2>7, <2>8 DEF IsSeq
<1>10. CASE DealDone
  <2>1. /\ step = "show" /\ Len(shown) = 3 /\ step' = "done" /\ result' = 1
        /\ UNCHANGED parserVars /\ UNCHANGED <<items, json_age, shown>>
    BY <1>1, <1>10 DEF DealDone, Leave
  <2>2. Looked' /\ Accepted' /\ Copied'
    BY <2>1, ItemSame, CopiedSame DEF Accepted, IsObject, parserVars, Looked, NONE
  <2> QED BY <2>1, <2>2 DEF IsSeq
<1>11. CASE UNCHANGED vars
  <2>1. UNCHANGED <<step, items, shown, json_age, result, pc, tokens, ret>> /\ UNCHANGED parserVars
    BY <1>11 DEF vars, dealVars, parserVars
  <2>2. Accepted' = Accepted /\ Looked' = Looked /\ (Copied => Copied')
    BY <2>1, ItemSame, CopiedSame DEF Accepted, IsObject, Looked
  <2>3. IsError => IsError' BY <2>1 DEF parserVars, IsError, ERR
  <2> QED BY <2>1, <2>2, <2>3, ItemSame DEF IsSeq
<1> QED BY <1>2, <1>3, <1>4, <1>5, <1>6, <1>7, <1>8, <1>9, <1>11, <1>10 DEF Next, Deal

\* The loop of JSMN_GetObjectItem stops at the smallest index that fits.
LEMMA NthFirst ==
    ASSUME NEW S \in SUBSET Nat, IsFiniteSet(S), S # {}
    PROVE  Nth(S, 0) \in S /\ \A j \in S : Nth(S, 0) <= j
<1> DEFINE Below == {j \in S : j < Nth(S, 0)}
<1>1. Cardinality(S) \in Nat /\ Cardinality(S) # 0
  BY FS_CardinalityType, FS_EmptySet
<1>2. 0 \in 0..Cardinality(S) - 1 BY <1>1
<1>3. S \in SUBSET Int OBVIOUS
<1>4. Nth(S, 0) \in S /\ Cardinality(Below) = 0 BY <1>2, <1>3, NthAll
<1>5. Below = {} BY FS_Subset, FS_EmptySet, <1>4
<1>6. ASSUME NEW j \in S PROVE Nth(S, 0) <= j
  <2>1. Nth(S, 0) \in Nat /\ j \in Nat BY <1>4
  <2>2. ~(j < Nth(S, 0)) BY <1>5
  <2> QED BY <2>1, <2>2
<1> QED BY <1>4, <1>6

\* JSMN_GetObjectItem finds the first member of the name, if there is one.
LEMMA ItemFact ==
    ASSUME IInv, Accepted, NEW f \in 1..3
    PROVE  /\ Item(f) = NONE <=> Members(f) = {}
           /\ Item(f) # NONE => \E i \in Members(f) :
                  /\ \A j \in Members(f) : i <= j
                  /\ Item(f) = [index |-> i, left |-> toknext - i - 1]
<1> DEFINE box == [index |-> 0, left |-> toknext - 1]
           key == <<Fields[f]>>
<1>1. TypeOK /\ ret = toknext /\ ret >= 1 /\ tokens[0].type = "object"
  <2>1. TypeOK /\ ret \in Int /\ ret >= 1 /\ pc = "done" /\ tokens[0].type = "object"
    BY NumTokensAssumption DEF IInv, TypeOK, Accepted, IsObject, NOMEM, INVAL, PART
  <2>2. ret >= 0 BY <2>1
  <2> QED BY <2>1, <2>2 DEF IInv, AcceptedIsComplete
<1>2. toknext \in Nat /\ toknext >= 1 /\ 0 \in Used /\ tokens[0].parent = -1
  BY <1>1, UsedFact DEF Used
<1>3. Container(ItemInit(0, ret), "object") = box /\ box # NONE
  <2>1. ItemInit(0, ret) = box BY <1>1, <1>2 DEF ItemInit
  <2>2. Tok(box).type = "object" BY <1>1 DEF Tok
  <2>3. box # NONE BY <1>2 DEF NONE
  <2> QED BY <2>1, <2>2, <2>3 DEF Container
<1>4. Named(box, key) = Members(f)
  <2>1. \A i \in Int : Behind(box, i) = [index |-> i, left |-> toknext - 1 - i]
    BY <1>2 DEF Behind
  <2>2. ASSUME NEW i \in 1..toknext - 1 PROVE Tok(Behind(box, i)) = tokens[i]
    <3>1. Behind(box, i) = [index |-> i, left |-> toknext - 1 - i] BY <1>2, <2>1
    <3> QED BY <3>1 DEF Tok
  <2>3. box.index = 0 /\ box.left = toknext - 1 OBVIOUS
  <2>4. Named(box, key) = {i \in 1..toknext - 1 : /\ tokens[i].parent = 0
                              /\ tokens[i].type = "string" /\ Content(tokens[i]) = key}
    <3> HIDE DEF box, key
    <3> QED BY <2>2, <2>3 DEF Named, Children
  <2> QED BY <1>2, <2>4 DEF Members, Used
<1>5. Members(f) \in SUBSET Nat /\ IsFiniteSet(Members(f))
  <2>1. Members(f) \subseteq Used /\ Used \subseteq Nat BY <1>2 DEF Members, Used
  <2>2. IsFiniteSet(Used) BY <1>2, FS_Interval DEF Used
  <2> QED BY <2>1, <2>2, FS_Subset
<1>6. Item(f) = IF Members(f) = {} THEN NONE ELSE Behind(box, Nth(Members(f), 0))
  BY <1>3, <1>4 DEF Item, GetObjectItem
<1>7. CASE Members(f) = {} BY <1>6, <1>7
<1>8. CASE Members(f) # {}
  <2> DEFINE i == Nth(Members(f), 0)
  <2>1. i \in Members(f) /\ \A j \in Members(f) : i <= j BY <1>5, <1>8, NthFirst
  <2>2. Behind(box, i) = [index |-> i, left |-> toknext - i - 1]
    BY <1>2, <1>5, <2>1 DEF Behind
  <2>3. Item(f) = [index |-> i, left |-> toknext - i - 1] BY <1>6, <1>8, <2>2
  <2>4. Item(f) # NONE BY <1>5, <2>1, <2>3 DEF NONE
  <2> QED BY <1>8, <2>1, <2>3, <2>4
<1> QED BY <1>7, <1>8

\* The two invariants together give what is shown.
LEMMA ShownFact == IInv /\ DealInv => ShownAreMembers
<1> SUFFICES ASSUME IInv, DealInv, step = "done", pc = "done", IsObject
             PROVE  /\ result = 1 <=> \A f \in 1..3 : Members(f) # {}
                    /\ result = 1 => \A f \in 1..3 : \E i \in Members(f) :
                          /\ \A j \in Members(f) : i <= j
                          /\ tokens[i].size = 1 =>
                                /\ i + 1 \in Used /\ tokens[i + 1].parent = i
                                /\ shown[f] = IF tokens[i + 1].type \in {"string", "primitive"}
                                      THEN Cut(Content(tokens[i + 1]), BufSz) ELSE <<>>
                          /\ tokens[i].size # 1 => shown[f] = Before(f)
  BY FieldsFact, Zenon DEF ShownAreMembers, Before
<1>0. Accepted BY DEF Accepted
<1>1. CASE result # 1
  <2>1. \E f \in 1..3 : Item(f) = NONE BY <1>0, <1>1 DEF DealInv
  <2> QED BY <1>0, <1>1, <2>1, ItemFact
<1>2. CASE result = 1
  <2>1. /\ Len(items) = 3 /\ Len(shown) = 3 /\ Looked /\ Copied
    BY <1>2 DEF DealInv
  <2>2. ASSUME NEW f \in 1..3
        PROVE  Item(f) # NONE /\ shown[f] = GetValueStringBuffered(Item(f), BufSz, Before(f))
    BY <2>1 DEF Looked, Copied
  <2>3. \A f \in 1..3 : Members(f) # {} BY <1>0, <2>2, ItemFact
  <2>4. ASSUME NEW f \in 1..3
        PROVE  \E i \in Members(f) :
                  /\ \A j \in Members(f) : i <= j
                  /\ tokens[i].size = 1 =>
                        /\ i + 1 \in Used /\ tokens[i + 1].parent = i
                        /\ shown[f] = IF tokens[i + 1].type \in {"string", "primitive"}
                              THEN Cut(Content(tokens[i + 1]), BufSz) ELSE <<>>
                  /\ tokens[i].size # 1 => shown[f] = Before(f)
    <3>1. PICK i \in Members(f) : /\ \A j \in Members(f) : i <= j
                                  /\ Item(f) = [index |-> i, left |-> toknext - i - 1]
      BY <1>0, <2>2, ItemFact
    <3>2. i \in Used /\ tokens[i].type = "string" BY DEF Members
    <3>3. ASSUME tokens[i].size = 1
          PROVE  /\ i + 1 \in Used /\ tokens[i + 1].parent = i
                 /\ shown[f] = IF tokens[i + 1].type \in {"string", "primitive"}
                       THEN Cut(Content(tokens[i + 1]), BufSz) ELSE <<>>
      <4>1. i + 1 \in Used /\ tokens[i + 1].parent = i
        BY <3>2, <3>3 DEF IInv, ValueIsNext
      <4>2. toknext \in Nat /\ i \in Nat BY <3>2, UsedFact DEF IInv
      <4>3. /\ Item(f).index = i /\ Item(f).left > 0
            /\ Behind(Item(f), 1).index = i + 1
        BY <3>1, <4>1, <4>2 DEF Used, Behind
      <4>4. HasValue(Item(f)) BY <3>2, <3>3, <4>3 DEF HasValue, Tok
      <4>5. shown[f] = GetStringBuffered(Behind(Item(f), 1), BufSz)
        BY <2>2, <4>4 DEF GetValueStringBuffered
      <4> QED BY <4>1, <4>3, <4>5 DEF GetStringBuffered, Tok
    <3>4. ASSUME tokens[i].size # 1 PROVE shown[f] = Before(f)
      <4>1. Item(f).index = i BY <3>1
      <4>2. ~HasValue(Item(f)) BY <3>4, <4>1 DEF HasValue, Tok
      <4> QED BY <2>2, <4>2 DEF GetValueStringBuffered
    <3> QED BY <3>1, <3>3, <3>4
  <2> QED BY <1>2, <2>3, <2>4
<1> QED BY <1>1, <1>2

\* Both hold of every behaviour.
LEMMA DealInvariance == Spec => [](IInv /\ DealInv)
BY InitInv, NextInv, DealInit, DealNext, PTL DEF Spec

\* For every text, well-formed or not: what json_deal_cmd shows (usart_net.c) are the
\* values of the first members of the three names in the outermost object, or what json_age
\* held before where such a member has not one value, and it refuses an object exactly when
\* one of them is missing.
THEOREM MembersShown == Spec => []ShownAreMembers
BY DealInvariance, ShownFact, PTL

-----------------------------------------------------------------------------
(* Flat frames *)

\* Where a member stands in the text: the quotes of its name, the colon, the first
\* character of the value and the one behind its content, and the comma or brace after it.
Place == [key : Nat, keyEnd : Nat, colon : Nat, val : Nat, valEnd : Nat, sep : Nat]

Blanks(t, a, b) == \A p \in a..b - 1 : t[p + 1] = BLANK
Plain(t, a, b) == \A p \in a..b - 1 : t[p + 1] \notin {QUOTE, BACKSLASH}
Bare(t, a, b) == \A p \in a..b - 1 : t[p + 1] \notin Delimiters \cup {CTL}

Quoted(t, val) == t[val + 1] = QUOTE
After(t, val, valEnd) == IF Quoted(t, val) THEN valEnd + 1 ELSE valEnd

\* A name, its colon and its value, a string or a primitive, without escapes and with
\* blanks wherever JSON allows them.
IsName(t, from, key, keyEnd, colon, val) ==
    /\ from <= key /\ Blanks(t, from, key) /\ t[key + 1] = QUOTE
    /\ key < keyEnd /\ Plain(t, key + 1, keyEnd) /\ t[keyEnd + 1] = QUOTE
    /\ keyEnd < colon /\ Blanks(t, keyEnd + 1, colon) /\ t[colon + 1] = ":"
    /\ colon < val /\ Blanks(t, colon + 1, val)

IsValue(t, val, valEnd, sep, last) ==
    /\ val < valEnd
    /\ Quoted(t, val) => Plain(t, val + 1, valEnd) /\ t[valEnd + 1] = QUOTE
    /\ ~Quoted(t, val) => Bare(t, val, valEnd) /\ t[val + 1] \notin Structural
    /\ After(t, val, valEnd) <= sep /\ Blanks(t, After(t, val, valEnd), sep)
    /\ sep < Len(t) /\ t[sep + 1] = IF last THEN "}" ELSE ","

\* The text is one object of m members at the places c, and the tokens suffice for it.
From(c, i) == IF i = 1 THEN 1 ELSE c[i - 1].sep + 1
IsFlat(t, m, c) ==
    /\ m \in Nat \ {0} /\ c \in [1..m -> Place] /\ 2 * m + 1 <= NumTokens
    /\ t # <<>> /\ t[1] = "{"
    /\ \A i \in 1..m :
          /\ IsName(t, From(c, i), c[i].key, c[i].keyEnd, c[i].colon, c[i].val)
          /\ IsValue(t, c[i].val, c[i].valEnd, c[i].sep, i = m)
    /\ Blanks(t, c[m].sep + 1, Len(t))

Name(t, c, i) == SubSeq(t, c[i].key + 2, c[i].keyEnd)
Value(t, c, i) ==
    SubSeq(t, IF Quoted(t, c[i].val) THEN c[i].val + 2 ELSE c[i].val + 1, c[i].valEnd)

\* ... and the values of the frame are those of the first member of each name.
FlatFrame(f) ==
    \E m, c :
        /\ IsFlat(f.text, m, c)
        /\ \A k \in 1..3 : \E i \in 1..m :
              /\ Name(f.text, c, i) = <<Fields[k]>>
              /\ \A j \in 1..i - 1 : Name(f.text, c, j) # <<Fields[k]>>
              /\ f.values[k] = Value(f.text, c, i)

\* The tokens read so far: the object, and two for each member.
Outer(end) ==
    /\ tokens[0].type = "object" /\ tokens[0].start = 0 /\ tokens[0].parent = -1
    /\ tokens[0].end = end
NameToken(c, i) ==
    /\ tokens[2 * i - 1].type = "string" /\ tokens[2 * i - 1].parent = 0
    /\ tokens[2 * i - 1].start = c[i].key + 1 /\ tokens[2 * i - 1].end = c[i].keyEnd
    /\ tokens[2 * i - 1].size = IF 2 * i < toknext THEN 1 ELSE 0
ValueToken(c, i) ==
    /\ tokens[2 * i].type = (IF Quoted(text, c[i].val) THEN "string" ELSE "primitive")
    /\ tokens[2 * i].parent = 2 * i - 1
    /\ tokens[2 * i].start = (IF Quoted(text, c[i].val) THEN c[i].val + 1 ELSE c[i].val)
    /\ tokens[2 * i].end = c[i].valEnd
Read(m, c) ==
    \A i \in 1..m : /\ 2 * i - 1 < toknext => NameToken(c, i)
                    /\ 2 * i < toknext => ValueToken(c, i)

\* Where the parser is: in front of the object, in or behind the name, the colon and the
\* value of member i, in the loop over parents, behind the object.
InFront == toknext = 0 /\ pc = "scan" /\ pos = 0 /\ toksuper = -1
AtName(c, i) ==
    /\ toknext = 2 * i - 1 /\ toksuper = 0 /\ Outer(-1)
    /\ \/ pc = "scan" /\ pos \in From(c, i)..c[i].key
       \/ pc = "string" /\ start = c[i].key /\ pos \in c[i].key + 1..c[i].keyEnd
AtColon(c, i) ==
    /\ toknext = 2 * i /\ Outer(-1) /\ pc = "scan"
    /\ \/ toksuper = 0 /\ pos \in c[i].keyEnd + 1..c[i].colon
       \/ toksuper = 2 * i - 1 /\ pos \in c[i].colon + 1..c[i].val
InValue(c, i) ==
    /\ toknext = 2 * i /\ toksuper = 2 * i - 1 /\ Outer(-1) /\ start = c[i].val
    /\ IF Quoted(text, c[i].val) THEN pc = "string" /\ pos \in c[i].val + 1..c[i].valEnd
                             ELSE pc = "primitive" /\ pos \in c[i].val..c[i].valEnd
PastValue(c, i) ==
    /\ toknext = 2 * i + 1 /\ toksuper = 2 * i - 1 /\ Outer(-1) /\ pc = "scan"
    /\ pos \in After(text, c[i].val, c[i].valEnd)..c[i].sep
Closing(m, c) ==
    /\ toknext = 2 * m + 1 /\ toksuper = 2 * m - 1 /\ Outer(-1) /\ pc = "close"
    /\ pos = c[m].sep /\ tok \in {2 * m, 2 * m - 1, 0}
Over(m, c) ==
    /\ toknext = 2 * m + 1 /\ Outer(c[m].sep + 1)
    /\ \/ pc = "scan" /\ pos \in c[m].sep + 1..Len(text)
       \/ pc = "done" /\ ret = 2 * m + 1

Where(m, c) ==
    \/ InFront \/ Closing(m, c) \/ Over(m, c)
    \/ \E i \in 1..m : AtName(c, i) \/ AtColon(c, i) \/ InValue(c, i) \/ PastValue(c, i)

Parsed(m, c) == Read(m, c) /\ Where(m, c)
FlatInv == \A m, c : IsFlat(text, m, c) => Parsed(m, c)

\* What jsmn_parse does with the next character.
LEMMA ScanSteps ==
    ASSUME pc = "scan", Parse
    PROVE  /\ Char = "{" => OpenBracket \/ OpenNoRoom
           /\ Char = "}" => CloseBracket \/ CloseNothing
           /\ Char = BLANK => SkipBlank
           /\ Char = ":" => Colon
           /\ Char = "," => Comma
           /\ Char = QUOTE => StartString
           /\ ~AtEnd /\ Char \notin Structural \cup {NUL} => StartPrimitive
           /\ AtEnd => EndOfText
<1>1. \/ OpenBracket \/ OpenNoRoom \/ CloseBracket \/ CloseNothing
      \/ SkipBlank \/ Colon \/ Comma \/ StartString \/ StartPrimitive \/ EndOfText
  BY DEF Parse, Close, ParseString, ParsePrimitive, CloseMatch, CloseWrongType, CloseAscend,
     CloseUnmatched, ClosePassedOver, EndString, StringNoRoom, StringChar, StringInvalid,
     StringPart, EndPrimitive, PrimitiveNoRoom, PrimitiveChar, PrimitiveInvalid, InString, Found
<1>2. EndOfText => AtEnd /\ Char = NUL BY DEF EndOfText, Char
<1>3. AtEnd => Char = NUL BY DEF Char
<1> QED
  BY <1>1, <1>2, <1>3 DEF OpenBracket, OpenNoRoom, CloseBracket, CloseNothing, SkipBlank, Colon,
     Comma, StartString, StartPrimitive, Scanning, Openers, Closers, Structural,
     BLANK, QUOTE, NUL

\* ... in jsmn_parse_string, where there is no escape
LEMMA StringSteps ==
    ASSUME pc = "string", Parse, ~AtEnd, Char # BACKSLASH
    PROVE  /\ Char = QUOTE => EndString \/ StringNoRoom
           /\ Char # QUOTE => /\ pos' = pos + 1
                              /\ UNCHANGED <<text, toknext, toksuper, tokens, count, pc,
                                             start, tok, ret>>
<1>1. EndString \/ StringNoRoom \/ StringChar \/ StringInvalid \/ StringPart
  BY DEF Parse, Close, ParseString, ParsePrimitive, CloseMatch, CloseWrongType, CloseAscend,
     CloseUnmatched, ClosePassedOver, EndPrimitive, PrimitiveNoRoom, PrimitiveChar,
     PrimitiveInvalid, Found, OpenBracket, OpenNoRoom, CloseBracket, CloseNothing,
     SkipBlank, Colon, Comma, StartString, StartPrimitive, Scanning, EndOfText
<1> QED
  BY <1>1 DEF EndString, StringNoRoom, StringChar, StringInvalid, StringPart, Escape

\* ... in jsmn_parse_primitive
LEMMA PrimitiveSteps ==
    ASSUME pc = "primitive", Parse, ~AtEnd
    PROVE  /\ Char \in Delimiters => EndPrimitive \/ PrimitiveNoRoom
           /\ Char \notin Delimiters \cup {NUL, CTL} =>
                  /\ pos' = pos + 1
                  /\ UNCHANGED <<text, toknext, toksuper, tokens, count, pc, start, tok, ret>>
<1>1. EndPrimitive \/ PrimitiveNoRoom \/ PrimitiveChar \/ PrimitiveInvalid
  BY DEF Parse, Close, ParseString, ParsePrimitive, CloseMatch, CloseWrongType, CloseAscend,
     CloseUnmatched, ClosePassedOver, EndString, StringNoRoom, StringChar, StringInvalid,
     StringPart, InString, OpenBracket, OpenNoRoom, CloseBracket, CloseNothing,
     SkipBlank, Colon, Comma, StartString, StartPrimitive, Scanning, EndOfText
<1> QED
  BY <1>1 DEF EndPrimitive, PrimitiveNoRoom, PrimitiveChar, PrimitiveInvalid, Found

\* ... and the loop over parents.
LEMMA CloseSteps ==
    ASSUME pc = "close", Parse
    PROVE  /\ IsOpen(tokens[tok]) => CloseMatch \/ CloseWrongType
           /\ ~IsOpen(tokens[tok]) /\ tokens[tok].parent # -1 => CloseAscend
<1>1. CloseMatch \/ CloseWrongType \/ CloseAscend \/ CloseUnmatched \/ ClosePassedOver
  BY DEF Parse, Close, ParseString, ParsePrimitive,  EndString, StringNoRoom, StringChar,
     StringInvalid, StringPart, InString, OpenBracket, OpenNoRoom, CloseBracket,
     CloseNothing, SkipBlank, Colon, Comma, StartString, StartPrimitive, Scanning, EndOfText,
     EndPrimitive, PrimitiveNoRoom, PrimitiveChar, PrimitiveInvalid, Found
<1> QED
  BY <1>1 DEF CloseMatch, CloseWrongType, CloseAscend, CloseUnmatched, ClosePassedOver

\* The parent of a new token counts one child more.
LEMMA AddSize ==
    ASSUME TypeOK, HasRoom, NEW t, AddToken(t), toksuper \in Used
    PROVE  tokens'[toksuper].size = tokens[toksuper].size + 1
<1>1. toksuper \in Slots /\ toksuper # toknext /\ tokens[toksuper] \in Token
  BY UsedFact DEF Used, TypeOK
<1>2. tokens'[toksuper] = [tokens[toksuper] EXCEPT !.size = @ + 1]
  BY <1>1 DEF AddToken
<1> QED BY <1>1, <1>2 DEF Token

\* The places of a member, as numbers.
LEMMA Places ==
    ASSUME TypeOK, NEW m \in Nat, NEW c, IsFlat(text, m, c), NEW i \in 1..m
    PROVE  /\ From(c, i) \in Nat /\ c[i].key \in Nat /\ c[i].keyEnd \in Nat /\ c[i].colon \in Nat
           /\ c[i].val \in Nat /\ c[i].valEnd \in Nat /\ c[i].sep \in Nat
           /\ IsName(text, From(c, i), c[i].key, c[i].keyEnd, c[i].colon, c[i].val)
           /\ IsValue(text, c[i].val, c[i].valEnd, c[i].sep, i = m)
<1>1. c \in [1..m -> Place] BY DEF IsFlat
<1>2. \A j \in 1..m : /\ c[j].key \in Nat /\ c[j].keyEnd \in Nat /\ c[j].colon \in Nat
                      /\ c[j].val \in Nat /\ c[j].valEnd \in Nat /\ c[j].sep \in Nat
  BY <1>1 DEF Place
<1>3. From(c, i) \in Nat
  <2>1. CASE i = 1 BY <2>1 DEF From
  <2>2. CASE i # 1
    <3>1. i - 1 \in 1..m BY <2>2
    <3>2. c[i - 1].sep \in Nat BY <1>2, <3>1
    <3> QED BY <2>2, <3>2 DEF From
  <2> QED BY <2>1, <2>2
<1> QED BY <1>2, <1>3 DEF IsFlat

\* The places of a member are in order.
LEMMA Ordered ==
    ASSUME NEW t, NEW from \in Nat, NEW key \in Nat, NEW keyEnd \in Nat, NEW colon \in Nat,
           NEW val \in Nat, NEW valEnd \in Nat, NEW sep \in Nat, NEW last,
           IsName(t, from, key, keyEnd, colon, val), IsValue(t, val, valEnd, sep, last)
    PROVE  /\ from <= key /\ key < keyEnd /\ keyEnd < colon /\ colon < val
           /\ val < valEnd /\ valEnd <= After(t, val, valEnd)
           /\ After(t, val, valEnd) \in Nat /\ After(t, val, valEnd) <= sep /\ sep < Len(t)
<1>1. from <= key /\ key < keyEnd /\ keyEnd < colon /\ colon < val BY DEF IsName
<1>2. val < valEnd /\ After(t, val, valEnd) <= sep /\ sep < Len(t) BY DEF IsValue
<1>3. After(t, val, valEnd) \in {valEnd, valEnd + 1} BY DEF After
<1> HIDE DEF After
<1>4. valEnd <= After(t, val, valEnd) /\ After(t, val, valEnd) \in Nat BY <1>3
<1> QED BY <1>1, <1>2, <1>4

\* The sizes the places are measured against.
LEMMA Numbers ==
    ASSUME TypeOK, NEW m \in Nat, NEW c, IsFlat(text, m, c), NEW i \in 1..m
    PROVE  /\ i \in Nat /\ i >= 1 /\ i <= m /\ Len(text) \in Nat /\ pos \in Nat
           /\ pos <= Len(text) /\ 2 * m + 1 <= NumTokens /\ NumTokens \in Nat
<1>1. 2 * m + 1 <= NumTokens /\ NumTokens \in Nat BY NumTokensAssumption DEF IsFlat
<1>2. Len(text) \in Nat /\ pos \in Nat /\ pos <= Len(text) BY CharFact DEF TypeOK
<1> QED BY <1>1, <1>2

\* In front of its end the text is read as it stands.
LEMMA CharAt ==
    ASSUME TypeOK, pos < Len(text)
    PROVE  ~AtEnd /\ Char = text[pos + 1] /\ Char # NUL
BY CharFact DEF AtEnd, Char

\* A step that adds no token.
LEMMA ReadSame ==
    ASSUME NEW m \in Nat, NEW c, Read(m, c), UNCHANGED <<text, toknext, tokens>>
    PROVE  Read(m, c)' /\ \A e : Outer(e) => Outer(e)'
BY DEF Read, NameToken, ValueToken, Quoted, Outer

\* A step that adds the token that comes next.
LEMMA ReadAdd ==
    ASSUME TypeOK, NEW m \in Nat, NEW c, IsFlat(text, m, c), Read(m, c), text' = text,
           HasRoom, NEW t \in Token, AddToken(t), t.size = 0,
           \A i \in 1..m : toknext = 2 * i - 1 =>
               t.type = "string" /\ toksuper = 0 /\ t.start = c[i].key + 1 /\ t.end = c[i].keyEnd,
           \A i \in 1..m : toknext = 2 * i =>
               /\ t.type = (IF Quoted(text, c[i].val) THEN "string" ELSE "primitive")
               /\ toksuper = 2 * i - 1 /\ t.end = c[i].valEnd
               /\ t.start = (IF Quoted(text, c[i].val) THEN c[i].val + 1 ELSE c[i].val),
           toksuper < 1 \/ toksuper = toknext - 1
    PROVE  /\ Read(m, c)'
           /\ toknext' = toknext + 1
           /\ \A e : toknext > 0 /\ Outer(e) => Outer(e)'
           /\ toknext = 0 => tokens'[0].type = t.type /\ tokens'[0].start = t.start
                               /\ tokens'[0].end = t.end /\ tokens'[0].parent = toksuper
<1>1. /\ toknext' = toknext + 1 /\ toknext \in Nat
      /\ tokens'[toknext].start = t.start /\ tokens'[toknext].end = t.end
      /\ tokens'[toknext].size = 0 /\ tokens'[toknext].parent = toksuper
      /\ tokens'[toknext].type = t.type
      /\ \A j \in Used :
            /\ tokens'[j].type = tokens[j].type /\ tokens'[j].start = tokens[j].start
            /\ tokens'[j].end = tokens[j].end /\ tokens'[j].parent = tokens[j].parent
            /\ j # toksuper => tokens'[j].size = tokens[j].size
  BY AddTokenFacts, UsedFact
<1>2. m \in Nat BY DEF IsFlat
<1>3. ASSUME NEW i \in 1..m, 2 * i - 1 < toknext'
      PROVE  NameToken(c, i)'
  <2>1. CASE toknext = 2 * i - 1
    BY <1>1, <1>2, <2>1 DEF NameToken
  <2>2. CASE toknext > 2 * i - 1
    <3>1. 2 * i - 1 \in Used /\ NameToken(c, i) BY <1>1, <1>2, <2>2 DEF Used, Read
    <3>2. CASE toknext = 2 * i
      <4>1. toksuper = 2 * i - 1 BY <3>2
      <4>2. tokens'[2 * i - 1].size = tokens[2 * i - 1].size + 1 BY <3>1, <4>1, AddSize
      <4>3. tokens'[2 * i - 1].size = 1 BY <1>2, <3>1, <3>2, <4>2 DEF NameToken
      <4> QED BY <1>1, <1>2, <3>1, <3>2, <4>3 DEF NameToken
    <3>3. CASE toknext > 2 * i
      <4>1. toksuper # 2 * i - 1 BY <1>1, <1>2, <3>3
      <4> QED BY <1>1, <1>2, <3>1, <3>3, <4>1 DEF NameToken
    <3> QED BY <1>1, <1>2, <2>2, <3>2, <3>3
  <2> QED BY <1>1, <1>2, <1>3, <2>1, <2>2
<1>4. ASSUME NEW i \in 1..m, 2 * i < toknext'
      PROVE  ValueToken(c, i)'
  <2>1. CASE toknext = 2 * i
    BY <1>1, <1>2, <2>1 DEF ValueToken, Quoted
  <2>2. CASE toknext > 2 * i
    <3>1. 2 * i \in Used /\ ValueToken(c, i) BY <1>1, <1>2, <2>2 DEF Used, Read
    <3> QED BY <1>1, <3>1 DEF ValueToken, Quoted
  <2> QED BY <1>1, <1>2, <1>4, <2>1, <2>2
<1>5. ASSUME NEW e, toknext > 0, Outer(e) PROVE Outer(e)'
  <2>1. 0 \in Used BY <1>1, <1>5 DEF Used
  <2> QED BY <1>1, <1>5, <2>1 DEF Outer
<1> QED BY <1>1, <1>3, <1>4, <1>5 DEF Read

\* One step of the parser through a flat text: in front of the name and in it
LEMMA AtNameStep ==
    ASSUME TypeOK, NEW m \in Nat, NEW c, IsFlat(text, m, c), Read(m, c), Parse,
           NEW i \in 1..m, AtName(c, i)
    PROVE  text' = text /\ Read(m, c)' /\ (AtName(c, i) \/ AtColon(c, i))'
<1> DEFINE from == From(c, i) key == c[i].key keyEnd == c[i].keyEnd colon == c[i].colon
           val == c[i].val valEnd == c[i].valEnd sep == c[i].sep
<1>1. /\ from \in Nat /\ key \in Nat /\ keyEnd \in Nat /\ colon \in Nat
      /\ val \in Nat /\ valEnd \in Nat /\ sep \in Nat
      /\ IsName(text, from, key, keyEnd, colon, val) /\ IsValue(text, val, valEnd, sep, i = m)
  BY Places
<1>2. /\ i \in Nat /\ i >= 1 /\ i <= m /\ Len(text) \in Nat /\ pos \in Nat
      /\ pos <= Len(text) /\ 2 * m + 1 <= NumTokens /\ NumTokens \in Nat
  BY Numbers
<1>3. /\ toknext = 2 * i - 1 /\ toksuper = 0 /\ Outer(-1)
      /\ \/ pc = "scan" /\ pos \in from..key
         \/ pc = "string" /\ start = key /\ pos \in key + 1..keyEnd
  BY DEF AtName
<1> HIDE DEF from, key, keyEnd, colon, val, valEnd, sep
<1>4. /\ from <= key /\ key < keyEnd /\ keyEnd < colon /\ colon < val
      /\ val < valEnd /\ valEnd <= After(text, val, valEnd)
      /\ After(text, val, valEnd) \in Nat /\ After(text, val, valEnd) <= sep /\ sep < Len(text)
  BY <1>1, Ordered
<1>5. keyEnd < Len(text) BY <1>1, <1>2, <1>4
<1>6. pos < Len(text) BY <1>1, <1>2, <1>3, <1>4, <1>5
<1>7. Char = text[pos + 1] /\ ~AtEnd BY <1>6, CharAt
<1>8. ASSUME UNCHANGED <<text, toknext, tokens>>, toksuper' = toksuper,
             \/ pc' = "scan" /\ pos' \in from..key
             \/ pc' = "string" /\ start' = key /\ pos' \in key + 1..keyEnd
      PROVE  text' = text /\ Read(m, c)' /\ AtName(c, i)'
  <2>1. Read(m, c)' /\ Outer(-1)' BY <1>3, <1>8, ReadSame
  <2> QED BY <1>3, <1>8, <2>1 DEF AtName, from, key, keyEnd
<1>9. CASE pc = "scan" /\ pos \in from..key /\ pos < key
  <2>1. Char = BLANK BY <1>1, <1>2, <1>7, <1>9 DEF IsName, Blanks
  <2>2. /\ pos' = pos + 1 /\ pc' = "scan" /\ toksuper' = toksuper
        /\ UNCHANGED <<text, toknext, tokens>>
    BY <1>9, <2>1, ScanSteps DEF SkipBlank
  <2>3. pos' \in from..key BY <1>1, <1>2, <1>9, <2>2
  <2> QED BY <1>8, <2>2, <2>3
<1>10. CASE pc = "scan" /\ pos = key
  <2>1. Char = QUOTE BY <1>1, <1>7, <1>10 DEF IsName
  <2>2. /\ pos' = pos + 1 /\ pc' = "string" /\ start' = pos /\ toksuper' = toksuper
        /\ UNCHANGED <<text, toknext, tokens>>
    BY <1>10, <2>1, ScanSteps DEF StartString
  <2>3. pos' \in key + 1..keyEnd BY <1>1, <1>4, <1>10, <2>2
  <2> QED BY <1>8, <1>10, <2>2, <2>3
<1>11. CASE pc = "string" /\ start = key /\ pos \in key + 1..keyEnd /\ pos < keyEnd
  <2>1. Char \notin {QUOTE, BACKSLASH} BY <1>1, <1>2, <1>7, <1>11 DEF IsName, Plain
  <2>2. /\ pos' = pos + 1 /\ pc' = "string" /\ toksuper' = toksuper /\ start' = start
        /\ UNCHANGED <<text, toknext, tokens>>
    BY <1>7, <1>11, <2>1, StringSteps
  <2>3. pos' \in key + 1..keyEnd BY <1>1, <1>2, <1>11, <2>2
  <2> QED BY <1>8, <1>11, <2>2, <2>3
<1>12. CASE pc = "string" /\ start = key /\ pos = keyEnd
  <2> DEFINE t == NewToken("string", start + 1, pos)
  <2>1. Char = QUOTE /\ Char # BACKSLASH BY <1>1, <1>7, <1>12 DEF IsName, QUOTE, BACKSLASH
  <2>2. HasRoom BY <1>2, <1>3 DEF HasRoom
  <2>3. /\ pos' = pos + 1 /\ pc' = "scan" /\ toksuper' = toksuper /\ text' = text
        /\ AddToken(t)
    BY <1>7, <1>12, <2>1, <2>2, StringSteps DEF EndString, StringNoRoom, Finish
  <2>4. /\ t \in Token /\ t.size = 0 /\ t.type = "string"
        /\ t.start = key + 1 /\ t.end = keyEnd
    BY <1>1, <1>12 DEF NewToken, Token, Types
  <2> HIDE DEF t
  <2>5. /\ \A h \in 1..m : toknext = 2 * h - 1 => h = i
        /\ \A h \in 1..m : toknext # 2 * h
    BY <1>2, <1>3
  <2>6. toknext > 0 BY <1>2, <1>3
  <2>7. \A h \in 1..m : toknext = 2 * h - 1 =>
           t.type = "string" /\ toksuper = 0 /\ t.start = c[h].key + 1 /\ t.end = c[h].keyEnd
    BY <1>3, <2>4, <2>5 DEF key, keyEnd
  <2>8. Read(m, c)' /\ toknext' = toknext + 1 /\ Outer(-1)'
    BY <1>3, <2>2, <2>3, <2>4, <2>5, <2>6, <2>7, ReadAdd
  <2>9. toknext' = 2 * i /\ pos' \in keyEnd + 1..colon
    BY <1>1, <1>2, <1>3, <1>4, <1>12, <2>3, <2>8
  <2>10. AtColon(c, i)' BY <1>3, <2>3, <2>8, <2>9 DEF AtColon, keyEnd, colon
  <2> QED BY <2>3, <2>8, <2>10
<1> QED BY <1>1, <1>2, <1>3, <1>9, <1>10, <1>11, <1>12

\* ... from the quote behind the name to the first character of the value
LEMMA AtColonStep ==
    ASSUME TypeOK, NEW m \in Nat, NEW c, IsFlat(text, m, c), Read(m, c), Parse,
           NEW i \in 1..m, AtColon(c, i)
    PROVE  text' = text /\ Read(m, c)' /\ (AtColon(c, i) \/ InValue(c, i))'
<1> DEFINE from == From(c, i) key == c[i].key keyEnd == c[i].keyEnd colon == c[i].colon
           val == c[i].val valEnd == c[i].valEnd sep == c[i].sep
<1>1. /\ from \in Nat /\ key \in Nat /\ keyEnd \in Nat /\ colon \in Nat
      /\ val \in Nat /\ valEnd \in Nat /\ sep \in Nat
      /\ IsName(text, from, key, keyEnd, colon, val) /\ IsValue(text, val, valEnd, sep, i = m)
  BY Places
<1>2. /\ i \in Nat /\ i >= 1 /\ i <= m /\ Len(text) \in Nat /\ pos \in Nat
      /\ pos <= Len(text) /\ 2 * m + 1 <= NumTokens /\ NumTokens \in Nat
  BY Numbers
<1>3. /\ toknext = 2 * i /\ Outer(-1) /\ pc = "scan"
      /\ \/ toksuper = 0 /\ pos \in keyEnd + 1..colon
         \/ toksuper = 2 * i - 1 /\ pos \in colon + 1..val
  BY DEF AtColon
<1> HIDE DEF from, key, keyEnd, colon, val, valEnd, sep
<1>4. /\ from <= key /\ key < keyEnd /\ keyEnd < colon /\ colon < val
      /\ val < valEnd /\ valEnd <= After(text, val, valEnd)
      /\ After(text, val, valEnd) \in Nat /\ After(text, val, valEnd) <= sep /\ sep < Len(text)
  BY <1>1, Ordered
<1>5. val < Len(text) BY <1>1, <1>2, <1>4
<1>6. pos < Len(text) BY <1>1, <1>2, <1>3, <1>4, <1>5
<1>7. Char = text[pos + 1] /\ ~AtEnd /\ Char # NUL BY <1>6, CharAt
<1>8. ASSUME UNCHANGED <<text, toknext, tokens>>, pc' = "scan",
             \/ toksuper' = 0 /\ pos' \in keyEnd + 1..colon
             \/ toksuper' = 2 * i - 1 /\ pos' \in colon + 1..val
      PROVE  text' = text /\ Read(m, c)' /\ AtColon(c, i)'
  <2>1. Read(m, c)' /\ Outer(-1)' BY <1>3, <1>8, ReadSame
  <2> QED BY <1>3, <1>8, <2>1 DEF AtColon, keyEnd, colon, val
<1>9. CASE (toksuper = 0 /\ pos \in keyEnd + 1..colon /\ pos < colon)
             \/ (toksuper = 2 * i - 1 /\ pos \in colon + 1..val /\ pos < val)
  <2>1. Char = BLANK BY <1>1, <1>2, <1>7, <1>9 DEF IsName, Blanks
  <2>2. /\ pos' = pos + 1 /\ pc' = "scan" /\ toksuper' = toksuper
        /\ UNCHANGED <<text, toknext, tokens>>
    BY <1>3, <2>1, ScanSteps DEF SkipBlank
  <2>3. \/ toksuper' = 0 /\ pos' \in keyEnd + 1..colon
        \/ toksuper' = 2 * i - 1 /\ pos' \in colon + 1..val
    BY <1>1, <1>2, <1>9, <2>2
  <2> QED BY <1>8, <2>2, <2>3
<1>10. CASE toksuper = 0 /\ pos = colon
  <2>1. Char = ":" BY <1>1, <1>7, <1>10 DEF IsName
  <2>2. /\ pos' = pos + 1 /\ pc' = "scan" /\ toksuper' = toknext - 1
        /\ UNCHANGED <<text, toknext, tokens>>
    BY <1>3, <2>1, ScanSteps DEF Colon
  <2>3. toksuper' = 2 * i - 1 /\ pos' \in colon + 1..val
    BY <1>1, <1>2, <1>3, <1>4, <1>10, <2>2
  <2> QED BY <1>8, <2>2, <2>3
<1>11. CASE toksuper = 2 * i - 1 /\ pos = val /\ Quoted(text, val)
  <2>1. Char = QUOTE BY <1>7, <1>11 DEF Quoted
  <2>2. /\ pos' = pos + 1 /\ pc' = "string" /\ start' = pos /\ toksuper' = toksuper
        /\ UNCHANGED <<text, toknext, tokens>>
    BY <1>3, <2>1, ScanSteps DEF StartString
  <2>3. pos' \in val + 1..valEnd BY <1>1, <1>4, <1>11, <2>2
  <2>4. Read(m, c)' /\ Outer(-1)' BY <1>3, <2>2, ReadSame
  <2>5. InValue(c, i)' BY <1>3, <1>11, <2>2, <2>3, <2>4 DEF InValue, Quoted, val, valEnd
  <2> QED BY <2>2, <2>4, <2>5
<1>12. CASE toksuper = 2 * i - 1 /\ pos = val /\ ~Quoted(text, val)
  <2>1. Char \notin Structural \cup {NUL} BY <1>1, <1>7, <1>12 DEF IsValue
  <2>2. /\ pos' = pos /\ pc' = "primitive" /\ start' = pos /\ toksuper' = toksuper
        /\ UNCHANGED <<text, toknext, tokens>>
    BY <1>3, <1>7, <2>1, ScanSteps DEF StartPrimitive
  <2>3. pos' \in val..valEnd BY <1>1, <1>4, <1>12, <2>2
  <2>4. Read(m, c)' /\ Outer(-1)' BY <1>3, <2>2, ReadSame
  <2>5. InValue(c, i)' BY <1>3, <1>12, <2>2, <2>3, <2>4 DEF InValue, Quoted, val, valEnd
  <2> QED BY <2>2, <2>4, <2>5
<1> QED BY <1>1, <1>2, <1>3, <1>9, <1>10, <1>11, <1>12

\* ... over the opening brace
LEMMA InFrontStep ==
    ASSUME TypeOK, NEW m \in Nat, NEW c, IsFlat(text, m, c), Read(m, c), Parse, InFront
    PROVE  text' = text /\ Read(m, c)' /\ 1 \in 1..m /\ AtName(c, 1)'
<1> DEFINE t == NewToken("object", pos, -1)
<1>1. 1 \in 1..m /\ text # <<>> /\ text[1] = "{"
  <2>1. m \in Nat \ {0} BY DEF IsFlat
  <2>2. 1 \in 1..m BY <2>1
  <2> QED BY <2>2 DEF IsFlat
<1>2. Len(text) \in Nat /\ 2 * m + 1 <= NumTokens /\ NumTokens \in Nat BY <1>1, Numbers
<1>3. Len(text) > 0
  <2>1. c[1].sep \in Nat /\ IsValue(text, c[1].val, c[1].valEnd, c[1].sep, 1 = m)
    BY <1>1, Places
  <2>2. c[1].sep < Len(text) BY <2>1 DEF IsValue
  <2> QED BY <1>2, <2>1, <2>2
<1>4. toknext = 0 /\ pc = "scan" /\ pos = 0 /\ toksuper = -1 BY DEF InFront
<1>5. Char = "{"
  <2>1. pos < Len(text) /\ pos + 1 = 1 BY <1>2, <1>3, <1>4
  <2>2. Char = text[pos + 1] BY <2>1, CharAt
  <2> QED BY <1>1, <2>1, <2>2
<1>6. HasRoom BY <1>2, <1>4 DEF HasRoom
<1>7. /\ AddToken(t) /\ toksuper' = toknext /\ pos' = pos + 1 /\ text' = text /\ pc' = "scan"
  BY <1>4, <1>5, <1>6, ScanSteps DEF OpenBracket, OpenNoRoom
<1>8. /\ t \in Token /\ t.size = 0 /\ t.type = "object" /\ t.start = 0 /\ t.end = -1
  BY <1>4 DEF NewToken, Token, Types
<1> HIDE DEF t
<1>9. \A h \in 1..m : toknext # 2 * h - 1 /\ toknext # 2 * h BY <1>4
<1>10. toksuper < 1 BY <1>4
<1>11. /\ Read(m, c)' /\ toknext' = toknext + 1
       /\ tokens'[0].type = t.type /\ tokens'[0].start = t.start
       /\ tokens'[0].end = t.end /\ tokens'[0].parent = toksuper
  BY <1>4, <1>6, <1>7, <1>8, <1>9, <1>10, ReadAdd
<1>12. Outer(-1)' BY <1>4, <1>8, <1>11 DEF Outer
<1>13. From(c, 1) = 1 /\ c[1].key \in Nat /\ From(c, 1) <= c[1].key
  BY <1>1, Places DEF From, IsName
<1>14. pos' \in From(c, 1)..c[1].key BY <1>4, <1>7, <1>13
<1>15. toknext' = 2 * 1 - 1 /\ toksuper' = 0 BY <1>4, <1>7, <1>11
<1>16. AtName(c, 1)' BY <1>7, <1>12, <1>14, <1>15 DEF AtName
<1> QED BY <1>1, <1>7, <1>11, <1>16

\* ... in the value: a quote ends a string, a delimiter a primitive
LEMMA InValueStep ==
    ASSUME TypeOK, NEW m \in Nat, NEW c, IsFlat(text, m, c), Read(m, c), Parse,
           NEW i \in 1..m, InValue(c, i)
    PROVE  text' = text /\ Read(m, c)' /\ (InValue(c, i) \/ PastValue(c, i))'
<1> DEFINE from == From(c, i) key == c[i].key keyEnd == c[i].keyEnd colon == c[i].colon
           val == c[i].val valEnd == c[i].valEnd sep == c[i].sep
<1>1. /\ from \in Nat /\ key \in Nat /\ keyEnd \in Nat /\ colon \in Nat
      /\ val \in Nat /\ valEnd \in Nat /\ sep \in Nat
      /\ IsName(text, from, key, keyEnd, colon, val) /\ IsValue(text, val, valEnd, sep, i = m)
  BY Places
<1>2. /\ i \in Nat /\ i >= 1 /\ i <= m /\ Len(text) \in Nat /\ pos \in Nat
      /\ pos <= Len(text) /\ 2 * m + 1 <= NumTokens /\ NumTokens \in Nat
  BY Numbers
<1>3. /\ toknext = 2 * i /\ toksuper = 2 * i - 1 /\ Outer(-1) /\ start = val
      /\ IF Quoted(text, val) THEN pc = "string" /\ pos \in val + 1..valEnd
                              ELSE pc = "primitive" /\ pos \in val..valEnd
  BY DEF InValue
<1>4. /\ PastValue(c, i)' <=>
            /\ toknext' = 2 * i + 1 /\ toksuper' = 2 * i - 1 /\ Outer(-1)' /\ pc' = "scan"
            /\ pos' \in After(text', val, valEnd)..sep
  BY DEF PastValue
<1>5. /\ InValue(c, i)' <=>
            /\ toknext' = 2 * i /\ toksuper' = 2 * i - 1 /\ Outer(-1)' /\ start' = val
            /\ IF Quoted(text', val) THEN pc' = "string" /\ pos' \in val + 1..valEnd
                                     ELSE pc' = "primitive" /\ pos' \in val..valEnd
  BY DEF InValue
<1>6. ASSUME NEW t \in Token, text' = text, HasRoom, AddToken(t), t.size = 0,
             t.type = (IF Quoted(text, val) THEN "string" ELSE "primitive"), t.end = valEnd,
             t.start = (IF Quoted(text, val) THEN val + 1 ELSE val)
      PROVE  Read(m, c)' /\ toknext' = toknext + 1 /\ Outer(-1)'
  <2>1. \A h \in 1..m : toknext # 2 * h - 1 BY <1>2, <1>3
  <2>2. \A h \in 1..m : toknext = 2 * h => h = i BY <1>2, <1>3
  <2>3. \A h \in 1..m : toknext = 2 * h =>
           /\ t.type = (IF Quoted(text, c[h].val) THEN "string" ELSE "primitive")
           /\ toksuper = 2 * h - 1 /\ t.end = c[h].valEnd
           /\ t.start = (IF Quoted(text, c[h].val) THEN c[h].val + 1 ELSE c[h].val)
    BY <1>3, <1>6, <2>2
  <2>4. toknext > 0 /\ toksuper = toknext - 1 BY <1>2, <1>3
  <2> QED BY <1>3, <1>6, <2>1, <2>3, <2>4, ReadAdd
<1> HIDE DEF from, key, keyEnd, colon, val, valEnd, sep
<1>7. /\ from <= key /\ key < keyEnd /\ keyEnd < colon /\ colon < val
      /\ val < valEnd /\ valEnd <= After(text, val, valEnd)
      /\ After(text, val, valEnd) \in Nat /\ After(text, val, valEnd) <= sep /\ sep < Len(text)
  BY <1>1, Ordered
<1>8. pos \in val..valEnd BY <1>1, <1>2, <1>3
<1>9. pos < Len(text) BY <1>1, <1>2, <1>7, <1>8
<1>10. Char = text[pos + 1] /\ ~AtEnd /\ Char # NUL BY <1>9, CharAt
<1>11. ASSUME pos' = pos + 1, pos < valEnd,
              UNCHANGED <<text, toknext, toksuper, tokens, pc, start>>
       PROVE  text' = text /\ Read(m, c)' /\ InValue(c, i)'
  <2>1. Read(m, c)' /\ Outer(-1)' BY <1>3, <1>11, ReadSame
  <2>2. pos' \in val..valEnd BY <1>1, <1>2, <1>8, <1>11
  <2>3. pos \in val + 1..valEnd => pos' \in val + 1..valEnd BY <1>1, <1>2, <1>11
  <2> QED BY <1>3, <1>5, <1>11, <2>1, <2>2, <2>3
<1>12. CASE Quoted(text, val) /\ pos < valEnd
  <2>1. Char \notin {QUOTE, BACKSLASH}
    <3>1. Plain(text, val + 1, valEnd) BY <1>1, <1>12 DEF IsValue
    <3>2. pos \in val + 1..valEnd - 1 BY <1>1, <1>2, <1>3, <1>12
    <3> QED BY <1>10, <3>1, <3>2 DEF Plain
  <2>2. pos' = pos + 1 /\ UNCHANGED <<text, toknext, toksuper, tokens, pc, start>>
    BY <1>3, <1>10, <1>12, <2>1, StringSteps
  <2> QED BY <1>11, <1>12, <2>2
<1>13. CASE Quoted(text, val) /\ pos = valEnd
  <2> DEFINE t == NewToken("string", start + 1, pos)
  <2>1. Char = QUOTE /\ Char # BACKSLASH
    BY <1>1, <1>10, <1>13 DEF IsValue, QUOTE, BACKSLASH
  <2>2. HasRoom BY <1>2, <1>3 DEF HasRoom
  <2>3. /\ pos' = pos + 1 /\ pc' = "scan" /\ toksuper' = toksuper /\ text' = text
        /\ AddToken(t)
    BY <1>3, <1>10, <1>13, <2>1, <2>2, StringSteps DEF EndString, StringNoRoom, Finish
  <2>4. /\ t \in Token /\ t.size = 0 /\ t.type = "string"
        /\ t.start = val + 1 /\ t.end = valEnd
    BY <1>1, <1>3, <1>13 DEF NewToken, Token, Types
  <2> HIDE DEF t
  <2>5. Read(m, c)' /\ toknext' = toknext + 1 /\ Outer(-1)'
    BY <1>6, <1>13, <2>2, <2>3, <2>4
  <2>6. After(text, val, valEnd) = valEnd + 1 BY <1>13 DEF After
  <2>7. pos' \in After(text, val, valEnd)..sep BY <1>1, <1>7, <1>13, <2>3, <2>6
  <2>8. toknext' = 2 * i + 1 BY <1>3, <2>5
  <2> QED BY <1>3, <1>4, <2>3, <2>5, <2>7, <2>8
<1>14. CASE ~Quoted(text, val) /\ pos < valEnd
  <2>1. Char \notin Delimiters \cup {NUL, CTL}
    <3>1. Bare(text, val, valEnd) BY <1>1, <1>14 DEF IsValue
    <3>2. pos \in val..valEnd - 1 BY <1>1, <1>2, <1>3, <1>14
    <3> QED BY <1>10, <3>1, <3>2 DEF Bare
  <2>2. pos' = pos + 1 /\ UNCHANGED <<text, toknext, toksuper, tokens, pc, start>>
    BY <1>3, <1>10, <1>14, <2>1, PrimitiveSteps
  <2> QED BY <1>11, <1>14, <2>2
<1>15. CASE ~Quoted(text, val) /\ pos = valEnd
  <2> DEFINE t == NewToken("primitive", start, pos)
  <2>1. After(text, val, valEnd) = valEnd BY <1>15 DEF After
  <2>2. Char \in Delimiters
    <3>1. CASE valEnd = sep
      <4>1. text[sep + 1] \in {"}", ","} BY <1>1 DEF IsValue
      <4> QED BY <1>10, <1>15, <3>1, <4>1 DEF Delimiters
    <3>2. CASE valEnd # sep
      <4>1. Blanks(text, valEnd, sep) BY <1>1, <2>1 DEF IsValue
      <4>2. valEnd \in valEnd..sep - 1 BY <1>1, <1>7, <2>1, <3>2
      <4>3. text[valEnd + 1] = BLANK BY <4>1, <4>2 DEF Blanks
      <4> QED BY <1>10, <1>15, <4>3 DEF Delimiters
    <3> QED BY <3>1, <3>2
  <2>3. HasRoom BY <1>2, <1>3 DEF HasRoom
  <2>4. /\ pos' = pos /\ pc' = "scan" /\ toksuper' = toksuper /\ text' = text
        /\ AddToken(t)
    BY <1>3, <1>10, <1>15, <2>2, <2>3, PrimitiveSteps DEF EndPrimitive, PrimitiveNoRoom, Finish
  <2>5. /\ t \in Token /\ t.size = 0 /\ t.type = "primitive"
        /\ t.start = val /\ t.end = valEnd
    BY <1>1, <1>3, <1>15 DEF NewToken, Token, Types
  <2> HIDE DEF t
  <2>6. Read(m, c)' /\ toknext' = toknext + 1 /\ Outer(-1)'
    BY <1>6, <1>15, <2>3, <2>4, <2>5
  <2>7. pos' \in After(text, val, valEnd)..sep BY <1>1, <1>7, <1>15, <2>1, <2>4
  <2>8. toknext' = 2 * i + 1 BY <1>3, <2>6
  <2> QED BY <1>3, <1>4, <2>4, <2>6, <2>7, <2>8
<1>16. pos < valEnd \/ pos = valEnd BY <1>1, <1>2, <1>8
<1> QED BY <1>12, <1>13, <1>14, <1>15, <1>16

\* ... behind the value, over a comma to the next name or to the closing brace
LEMMA PastValueStep ==
    ASSUME TypeOK, NEW m \in Nat, NEW c, IsFlat(text, m, c), Read(m, c), Parse,
           NEW i \in 1..m, PastValue(c, i)
    PROVE  /\ text' = text /\ Read(m, c)'
           /\ (PastValue(c, i) \/ Closing(m, c))' \/ (i + 1 \in 1..m /\ AtName(c, i + 1)')
<1> DEFINE val == c[i].val valEnd == c[i].valEnd sep == c[i].sep after == After(text, val, valEnd)
<1>1. val \in Nat /\ valEnd \in Nat /\ sep \in Nat /\ sep < Len(text)
  BY Places DEF IsValue
<1>2. text[sep + 1] = (IF i = m THEN "}" ELSE ",") /\ Blanks(text, after, sep)
  BY Places DEF IsValue
<1>3. /\ i \in Nat /\ i >= 1 /\ i <= m /\ Len(text) \in Nat /\ pos \in Nat
  BY Numbers
<1>4. /\ toknext = 2 * i + 1 /\ toksuper = 2 * i - 1 /\ Outer(-1) /\ pc = "scan"
      /\ pos \in after..sep
  BY DEF PastValue
<1>5. pos \in after..sep BY <1>4
<1>6. after \in Nat
  <2>1. after \in {valEnd, valEnd + 1} BY DEF After
  <2> HIDE DEF after, valEnd
  <2> QED BY <1>1, <2>1
<1>7. NameToken(c, i) BY <1>3, <1>4 DEF Read
<1>8. text' = text => (PastValue(c, i)' <=>
            /\ toknext' = 2 * i + 1 /\ toksuper' = 2 * i - 1 /\ Outer(-1)' /\ pc' = "scan"
            /\ pos' \in after..sep)
  BY DEF PastValue
<1>9. i = m => (Closing(m, c)' <=>
            /\ toknext' = 2 * m + 1 /\ toksuper' = 2 * m - 1 /\ Outer(-1)' /\ pc' = "close"
            /\ pos' = sep /\ tok' \in {2 * m, 2 * m - 1, 0})
  BY DEF Closing
<1>10. i # m => i + 1 \in 1..m /\ From(c, i + 1) = sep + 1
  BY <1>3 DEF From
<1> HIDE DEF val, valEnd, sep, after
<1>11. pos < Len(text) /\ pos <= sep BY <1>1, <1>3, <1>5, <1>6
<1>12. Char = text[pos + 1] BY <1>11, CharAt
<1>13. CASE pos < sep
  <2>1. Char = BLANK
    <3>1. pos \in after..sep - 1 BY <1>1, <1>3, <1>5, <1>6, <1>13
    <3> QED BY <1>2, <1>12, <3>1 DEF Blanks
  <2>2. /\ pos' = pos + 1 /\ pc' = "scan" /\ toksuper' = toksuper
        /\ UNCHANGED <<text, toknext, tokens>>
    BY <1>4, <2>1, ScanSteps DEF SkipBlank
  <2>3. pos' \in after..sep BY <1>1, <1>3, <1>5, <1>6, <1>13, <2>2
  <2>4. Read(m, c)' /\ Outer(-1)' BY <1>4, <2>2, ReadSame
  <2> QED BY <1>4, <1>8, <2>2, <2>3, <2>4
<1>14. CASE pos = sep /\ i = m
  <2>1. Char = "}" BY <1>2, <1>12, <1>14
  <2>2. toknext >= 1 /\ ~(toknext < 1) BY <1>3, <1>4
  <2>3. /\ pc' = "close" /\ tok' = toknext - 1 /\ pos' = pos /\ toksuper' = toksuper
        /\ UNCHANGED <<text, toknext, tokens>>
    BY <1>4, <2>1, <2>2, ScanSteps DEF CloseBracket, CloseNothing
  <2>4. tok' = 2 * m BY <1>3, <1>4, <1>14, <2>3
  <2>5. Read(m, c)' /\ Outer(-1)' BY <1>4, <2>3, ReadSame
  <2> QED BY <1>4, <1>9, <1>14, <2>3, <2>4, <2>5
<1>15. CASE pos = sep /\ i # m
  <2>1. Char = "," BY <1>2, <1>12, <1>15
  <2>2. CommaSuper = 0
    <3>1. tokens[toksuper].type = "string" /\ tokens[toksuper].parent = 0
      BY <1>4, <1>7 DEF NameToken
    <3>2. toksuper # -1 BY <1>3, <1>4
    <3> QED BY <3>1, <3>2 DEF CommaSuper
  <2>3. /\ pos' = pos + 1 /\ pc' = "scan" /\ toksuper' = 0
        /\ UNCHANGED <<text, toknext, tokens>>
    BY <1>4, <2>1, <2>2, ScanSteps DEF Comma
  <2>4. Read(m, c)' /\ Outer(-1)' BY <1>4, <2>3, ReadSame
  <2>5. i + 1 \in 1..m /\ From(c, i + 1) = sep + 1 BY <1>10, <1>15
  <2>6. c[i + 1].key \in Nat /\ sep + 1 <= c[i + 1].key BY <2>5, Places DEF IsName
  <2>7. pos' \in From(c, i + 1)..c[i + 1].key BY <1>1, <1>15, <2>3, <2>5, <2>6
  <2>8. toknext' = 2 * (i + 1) - 1 BY <1>3, <1>4, <2>3
  <2>9. AtName(c, i + 1)' BY <2>3, <2>4, <2>7, <2>8 DEF AtName
  <2> QED BY <2>3, <2>4, <2>5, <2>9
<1>16. pos < sep \/ pos = sep BY <1>1, <1>3, <1>11
<1> QED BY <1>13, <1>14, <1>15, <1>16

\* ... in the loop over parents: value, name, object, which is closed
LEMMA ClosingStep ==
    ASSUME TypeOK, NEW m \in Nat, NEW c, IsFlat(text, m, c), Read(m, c), Parse, Closing(m, c)
    PROVE  text' = text /\ Read(m, c)' /\ (Closing(m, c) \/ Over(m, c))'
<1>1. m \in 1..m
  <2>1. m \in Nat \ {0} BY DEF IsFlat
  <2> QED BY <2>1
<1> DEFINE sep == c[m].sep
<1>2. sep \in Nat /\ c[m].keyEnd \in Nat /\ c[m].valEnd \in Nat /\ sep < Len(text)
  BY <1>1, Places DEF IsValue
<1>3. text[sep + 1] = "}" BY <1>1, Places DEF IsValue
<1>4. m >= 1 /\ Len(text) \in Nat /\ pos \in Nat /\ 2 * m + 1 <= NumTokens /\ NumTokens \in Nat
  BY <1>1, Numbers
<1>5. /\ toknext = 2 * m + 1 /\ toksuper = 2 * m - 1 /\ Outer(-1) /\ pc = "close"
      /\ pos = sep /\ tok \in {2 * m, 2 * m - 1, 0}
  BY DEF Closing
<1>6. NameToken(c, m) /\ ValueToken(c, m) BY <1>1, <1>4, <1>5 DEF Read
<1>7. Char = "}" BY <1>2, <1>5, <1>3, CharAt
<1>8. CASE tok \in {2 * m, 2 * m - 1}
  <2>1. tokens[tok].end \in {c[m].keyEnd, c[m].valEnd} /\ tokens[tok].parent \in {2 * m - 1, 0}
    BY <1>6, <1>8 DEF NameToken, ValueToken
  <2>2. tokens[tok].end # -1 BY <1>2, <2>1
  <2>3. ~IsOpen(tokens[tok]) /\ tokens[tok].parent # -1 BY <1>4, <2>1, <2>2 DEF IsOpen
  <2>4. /\ tok' = tokens[tok].parent /\ UNCHANGED <<text, toknext, tokens, pos, toksuper, pc>>
    BY <1>5, <2>3, CloseSteps DEF CloseAscend
  <2>5. Read(m, c)' /\ Outer(-1)' BY <1>5, <2>4, ReadSame
  <2>6. Closing(m, c)' BY <1>5, <2>1, <2>4, <2>5 DEF Closing
  <2> QED BY <2>4, <2>5, <2>6
<1>9. CASE tok = 0
  <2>1. IsOpen(tokens[tok]) /\ tokens[tok].type = ClosedType
    <3>1. /\ tokens[tok].type = "object" /\ tokens[tok].start = 0 /\ tokens[tok].end = -1
      BY <1>5, <1>9 DEF Outer
    <3>2. IsOpen(tokens[tok]) BY <3>1 DEF IsOpen
    <3>3. ClosedType = "object" BY <1>7 DEF ClosedType
    <3> QED BY <3>1, <3>2, <3>3
  <2>2. /\ tokens' = [tokens EXCEPT ![0].end = pos + 1] /\ pc' = "scan" /\ pos' = pos + 1
        /\ text' = text /\ toknext' = toknext
    BY <1>5, <1>9, <2>1, CloseSteps DEF CloseMatch, CloseWrongType
  <2>3. 0 \in Slots /\ tokens \in [Slots -> Token] BY <1>4 DEF Slots, TypeOK
  <2>4. /\ tokens'[0].type = tokens[0].type /\ tokens'[0].start = tokens[0].start
        /\ tokens'[0].parent = tokens[0].parent /\ tokens'[0].end = pos + 1
    BY <2>2, <2>3 DEF Token
  <2>5. Outer(sep + 1)' BY <1>5, <2>4 DEF Outer
  <2>6. \A j \in Slots : j # 0 => tokens'[j] = tokens[j] BY <2>2, <2>3
  <2>7. Read(m, c)'
    <3>1. ASSUME NEW h \in 1..m PROVE /\ 2 * h - 1 < toknext' => NameToken(c, h)'
                                      /\ 2 * h < toknext' => ValueToken(c, h)'
      <4>1. /\ 2 * h - 1 \in Slots /\ 2 * h - 1 # 0 /\ 2 * h \in Slots /\ 2 * h # 0
        BY <1>4 DEF Slots
      <4>2. tokens'[2 * h - 1] = tokens[2 * h - 1] /\ tokens'[2 * h] = tokens[2 * h]
        BY <2>6, <4>1
      <4>3. /\ 2 * h - 1 < toknext => NameToken(c, h)
            /\ 2 * h < toknext => ValueToken(c, h)
        BY DEF Read
      <4> QED BY <2>2, <4>2, <4>3 DEF NameToken, ValueToken, Quoted
    <3> QED BY <3>1 DEF Read
  <2>8. pos' \in sep + 1..Len(text)
    <3>1. pos = sep /\ pos' = pos + 1 BY <1>5, <2>2
    <3> HIDE DEF sep
    <3> QED BY <1>2, <1>4, <3>1
  <2>9. Over(m, c)' BY <1>5, <2>2, <2>5, <2>8 DEF Over
  <2> QED BY <2>2, <2>7, <2>9
<1> QED BY <1>5, <1>8, <1>9

\* jsmn_parse has returned.
LEMMA Stopped == ASSUME pc = "done" PROVE ~Parse
BY DEF Parse, Close, ParseString, ParsePrimitive, EndString, StringNoRoom, StringChar,
   StringInvalid, StringPart, InString, OpenBracket, OpenNoRoom, CloseBracket,
   CloseNothing, SkipBlank, Colon, Comma, StartString, StartPrimitive, Scanning, EndOfText,
   EndPrimitive, PrimitiveNoRoom, PrimitiveChar, PrimitiveInvalid, Found,
   CloseMatch, CloseWrongType, CloseAscend, CloseUnmatched, ClosePassedOver

\* ... behind the object: blanks, and no token is open at the end of the text
LEMMA OverStep ==
    ASSUME TypeOK, NEW m \in Nat, NEW c, IsFlat(text, m, c), Read(m, c), Parse, Over(m, c)
    PROVE  text' = text /\ Read(m, c)' /\ Over(m, c)'
<1>1. m \in 1..m
  <2>1. m \in Nat \ {0} BY DEF IsFlat
  <2> QED BY <2>1
<1> DEFINE sep == c[m].sep
<1>2. sep \in Nat BY <1>1, Places
<1>3. Len(text) \in Nat /\ pos \in Nat /\ pos <= Len(text) BY <1>1, Numbers
<1>4. /\ toknext = 2 * m + 1 /\ Outer(sep + 1) /\ pc = "scan" /\ pos \in sep + 1..Len(text)
  BY Stopped DEF Over
<1>5. CASE pos < Len(text)
  <2>1. Char = BLANK
    <3>1. Blanks(text, sep + 1, Len(text)) BY DEF IsFlat
    <3>2. pos \in sep + 1..Len(text) - 1 BY <1>2, <1>3, <1>4, <1>5
    <3> QED BY <1>5, <3>1, <3>2, CharAt DEF Blanks
  <2>2. /\ pos' = pos + 1 /\ pc' = "scan" /\ UNCHANGED <<text, toknext, tokens>>
    BY <1>4, <2>1, ScanSteps DEF SkipBlank
  <2>3. Read(m, c)' /\ Outer(sep + 1)' BY <1>4, <2>2, ReadSame
  <2>4. pos' \in sep + 1..Len(text) BY <1>2, <1>3, <1>4, <1>5, <2>2
  <2>5. Over(m, c)' BY <1>4, <2>2, <2>3, <2>4 DEF Over
  <2> QED BY <2>2, <2>3, <2>5
<1>6. CASE pos = Len(text)
  <2>1. EndOfText
    <3>1. AtEnd BY <1>3, <1>6 DEF AtEnd
    <3> QED BY <1>4, <3>1, ScanSteps
  <2>2. ASSUME NEW j \in 0..toknext - 1 PROVE ~IsOpen(tokens[j])
    <3>1. CASE j = 0
      <4>1. tokens[0].end = sep + 1 BY <1>4 DEF Outer
      <4> QED BY <1>2, <3>1, <4>1 DEF IsOpen
    <3>2. CASE j # 0
      <4>1. PICK h \in 1..m : j = 2 * h - 1 \/ j = 2 * h
        <5>1. j \in 1..2 * m BY <1>4, <3>2
        <5>2. (j + 1) \div 2 \in 1..m
             /\ (j = 2 * ((j + 1) \div 2) - 1 \/ j = 2 * ((j + 1) \div 2))
          BY <5>1
        <5> QED BY <5>2
      <4>2. NameToken(c, h) /\ ValueToken(c, h) BY <1>4 DEF Read
      <4>3. c[h].keyEnd \in Nat /\ c[h].valEnd \in Nat BY Places
      <4>4. tokens[j].end \in {c[h].keyEnd, c[h].valEnd} BY <4>1, <4>2 DEF NameToken, ValueToken
      <4>5. tokens[j].end # -1 BY <4>3, <4>4
      <4> QED BY <4>5 DEF IsOpen
    <3> QED BY <3>1, <3>2
  <2>3. count = toknext BY DEF TypeOK
  <2>4. /\ pc' = "done" /\ ret' = toknext /\ UNCHANGED <<text, toknext, tokens>>
    BY <2>1, <2>2, <2>3 DEF EndOfText, Return
  <2>5. Read(m, c)' /\ Outer(sep + 1)' BY <1>4, <2>4, ReadSame
  <2>6. Over(m, c)' BY <1>4, <2>4, <2>5 DEF Over
  <2> QED BY <2>4, <2>5, <2>6
<1>7. pos < Len(text) \/ pos = Len(text) BY <1>3
<1> QED BY <1>5, <1>6, <1>7

\* One step of the parser through a flat text, wherever it is.
LEMMA FlatParse ==
    ASSUME TypeOK, NEW m \in Nat, NEW c, IsFlat(text, m, c), Parsed(m, c), Parse
    PROVE  text' = text /\ Parsed(m, c)'
<1>1. Read(m, c) /\ Where(m, c) BY DEF Parsed
<1>2. CASE InFront BY <1>1, <1>2, InFrontStep DEF Parsed, Where
<1>3. CASE Closing(m, c) BY <1>1, <1>3, ClosingStep DEF Parsed, Where
<1>4. CASE Over(m, c) BY <1>1, <1>4, OverStep DEF Parsed, Where
<1>5. ASSUME NEW i \in 1..m, AtName(c, i) PROVE text' = text /\ Parsed(m, c)'
  BY <1>1, <1>5, AtNameStep DEF Parsed, Where
<1>6. ASSUME NEW i \in 1..m, AtColon(c, i) PROVE text' = text /\ Parsed(m, c)'
  BY <1>1, <1>6, AtColonStep DEF Parsed, Where
<1>7. ASSUME NEW i \in 1..m, InValue(c, i) PROVE text' = text /\ Parsed(m, c)'
  BY <1>1, <1>7, InValueStep DEF Parsed, Where
<1>8. ASSUME NEW i \in 1..m, PastValue(c, i) PROVE text' = text /\ Parsed(m, c)'
  BY <1>1, <1>8, PastValueStep DEF Parsed, Where
<1> QED BY <1>1, <1>2, <1>3, <1>4, <1>5, <1>6, <1>7, <1>8 DEF Where

\* The parser begins in front of the object.
LEMMA FlatInit == Init => FlatInv
<1> SUFFICES ASSUME Init, NEW m, NEW c, IsFlat(text, m, c) PROVE Parsed(m, c)
  BY DEF FlatInv
<1>1. /\ toknext = 0 /\ pc = "scan" /\ pos = 0 /\ toksuper = -1
  BY DEF Init, JsmnInit
<1>2. m \in Nat BY DEF IsFlat
<1>3. \A i \in 1..m : ~(2 * i - 1 < toknext) /\ ~(2 * i < toknext) BY <1>1, <1>2
<1> QED BY <1>1, <1>3 DEF Parsed, Read, Where, InFront

\* The text is only read.
LEMMA TextStays == Parse => text' = text
BY DEF Parse, Close, ParseString, ParsePrimitive, EndString, StringNoRoom, StringChar,
   StringInvalid, StringPart, OpenBracket, OpenNoRoom, CloseBracket, Finish, Fail, Return,
   CloseNothing, SkipBlank, Colon, Comma, StartString, StartPrimitive, EndOfText,
   EndPrimitive, PrimitiveNoRoom, PrimitiveChar, PrimitiveInvalid,
   CloseMatch, CloseWrongType, CloseAscend, CloseUnmatched, ClosePassedOver

\* Steps outside jsmn_parse leave the parser where it is.
LEMMA FlatSame ==
    ASSUME UNCHANGED parserVars, NEW m, NEW c
    PROVE  Parsed(m, c)' = Parsed(m, c)
BY DEF parserVars, Parsed, Read, NameToken, ValueToken, Where, InFront, AtName, AtColon,
   InValue, PastValue, Closing, Over, Outer, Quoted, After

\* FlatInv is inductive.
LEMMA FlatNext ==
    ASSUME TypeOK, FlatInv, [Next]_vars
    PROVE  FlatInv'
<1>1. ASSUME UNCHANGED parserVars PROVE FlatInv'
  <2>1. text' = text BY <1>1 DEF parserVars
  <2> QED BY <1>1, <2>1, FlatSame DEF FlatInv
<1>2. ASSUME Parse PROVE FlatInv'
  <2>1. SUFFICES ASSUME NEW m, NEW c, IsFlat(text', m, c) PROVE Parsed(m, c)'
    BY DEF FlatInv
  <2>2. IsFlat(text, m, c) BY <1>2, <2>1, TextStays
  <2>3. m \in Nat BY <2>2 DEF IsFlat
  <2>4. Parsed(m, c) BY <2>2 DEF FlatInv
  <2> QED BY <1>2, <2>2, <2>3, <2>4, FlatParse
<1>3. Parse \/ UNCHANGED parserVars
  BY DEF Next, Deal, DealError, DealParse, ParseStep, DealRefuse, DealAccept, DealMissing,
     DealFind, DealShow, DealDone, Leave, GoOn, vars
<1> QED BY <1>1, <1>2, <1>3

\* What the item functions find in the tokens of a flat text.
LEMMA FlatMembers ==
    ASSUME IInv, NEW m \in Nat, NEW c, IsFlat(text, m, c), Parsed(m, c), pc = "done"
    PROVE  /\ Accepted
           /\ \A k \in 1..3 : \A i \in 1..m :
                 Name(text, c, i) = <<Fields[k]>>
                 /\ (\A j \in 1..i - 1 : Name(text, c, j) # <<Fields[k]>>) =>
                    /\ 2 * i - 1 \in Members(k) /\ \A j \in Members(k) : 2 * i - 1 <= j
                    /\ tokens[2 * i - 1].size = 1 /\ tokens[2 * i].type \in {"string", "primitive"}
                    /\ Content(tokens[2 * i]) = Value(text, c, i)
<1>1. /\ toknext = 2 * m + 1 /\ ret = 2 * m + 1 /\ Read(m, c)
      /\ tokens[0].type = "object" /\ tokens[0].parent = -1
  BY DEF Parsed, Where, InFront, Closing, Over, AtName, AtColon, InValue, PastValue, Outer
<1>2. Accepted
  <2>1. ret >= 1 BY <1>1
  <2> QED BY <1>1, <2>1 DEF Accepted, IsObject
<1>3. ASSUME NEW i \in 1..m PROVE NameToken(c, i) /\ ValueToken(c, i)
  <2>1. 2 * i - 1 < toknext /\ 2 * i < toknext BY <1>1
  <2> QED BY <1>1, <2>1 DEF Read
<1>4. ASSUME NEW i \in 1..m
      PROVE  Content(tokens[2 * i - 1]) = Name(text, c, i)
  <2>1. tokens[2 * i - 1].start + 1 = c[i].key + 2 /\ tokens[2 * i - 1].end = c[i].keyEnd
    <3>1. c[i].key \in Nat BY Places DEF IInv
    <3>2. tokens[2 * i - 1].start = c[i].key + 1 BY <1>3 DEF NameToken
    <3>3. tokens[2 * i - 1].end = c[i].keyEnd BY <1>3 DEF NameToken
    <3> QED BY <3>1, <3>2, <3>3
  <2> QED BY <2>1 DEF Content, Name
<1>5. ASSUME NEW i \in 1..m
      PROVE  Content(tokens[2 * i]) = Value(text, c, i)
  <2>1. c[i].val \in Nat BY Places DEF IInv
  <2>2. tokens[2 * i].start + 1 = (IF Quoted(text, c[i].val) THEN c[i].val + 2 ELSE c[i].val + 1)
    <3>1. tokens[2 * i].start = (IF Quoted(text, c[i].val) THEN c[i].val + 1 ELSE c[i].val)
      BY <1>3 DEF ValueToken
    <3> QED BY <2>1, <3>1
  <2>3. tokens[2 * i].end = c[i].valEnd BY <1>3 DEF ValueToken
  <2> QED BY <2>2, <2>3 DEF Content, Value
<1>6. SUFFICES ASSUME NEW k \in 1..3, NEW i \in 1..m, Name(text, c, i) = <<Fields[k]>>,
                      \A j \in 1..i - 1 : Name(text, c, j) # <<Fields[k]>>
               PROVE  /\ 2 * i - 1 \in Members(k) /\ \A j \in Members(k) : 2 * i - 1 <= j
                      /\ tokens[2 * i - 1].size = 1
                      /\ tokens[2 * i].type \in {"string", "primitive"}
  BY <1>2, <1>5
<1>7. 2 * i - 1 \in Members(k)
  <2>1. 2 * i - 1 \in Used BY <1>1 DEF Used
  <2>2. tokens[2 * i - 1].parent = 0 /\ tokens[2 * i - 1].type = "string" BY <1>3 DEF NameToken
  <2> QED BY <1>4, <1>6, <2>1, <2>2 DEF Members
<1>8. ASSUME NEW j \in Members(k) PROVE 2 * i - 1 <= j
  <2>1. j \in Used /\ tokens[j].parent = 0 /\ Content(tokens[j]) = <<Fields[k]>> BY DEF Members
  <2>2. j # 0 BY <1>1, <2>1
  <2>3. j \in 1..2 * m BY <1>1, <2>1, <2>2 DEF Used
  <2>4. PICK h \in 1..m : j = 2 * h - 1 \/ j = 2 * h
    <3>1. (j + 1) \div 2 \in 1..m
          /\ (j = 2 * ((j + 1) \div 2) - 1 \/ j = 2 * ((j + 1) \div 2))
      BY <2>3
    <3> QED BY <3>1
  <2>5. j # 2 * h
    <3>1. tokens[2 * h].parent = 2 * h - 1 BY <1>3 DEF ValueToken
    <3>2. 2 * h - 1 # 0 OBVIOUS
    <3> QED BY <2>1, <3>1, <3>2
  <2>6. j = 2 * h - 1 BY <2>4, <2>5
  <2>7. Name(text, c, h) = <<Fields[k]>> BY <1>4, <2>1, <2>6
  <2>8. h \notin 1..i - 1 BY <1>6, <2>7
  <2>9. h \in Nat /\ i \in Nat /\ h >= 1 BY <2>4
  <2>10. h >= i BY <2>8, <2>9
  <2> QED BY <2>6, <2>9, <2>10
<1>9. tokens[2 * i - 1].size = 1
  <2>1. 2 * i < toknext BY <1>1
  <2> QED BY <1>3, <2>1 DEF NameToken
<1>10. tokens[2 * i].type \in {"string", "primitive"} BY <1>3 DEF ValueToken
<1> QED BY <1>7, <1>8, <1>9, <1>10

\* A sequence of three elements, as a function.
LEMMA SeqOfThree ==
    ASSUME NEW s, IsSeq(s), Len(s) = 3, NEW g, \A k \in 1..3 : s[k] = g[k]
    PROVE  s = [k \in 1..3 |-> g[k]]
<1>1. PICK S : s \in Seq(S) BY DEF IsSeq
<1>2. s = [k \in 1..Len(s) |-> s[k]] BY <1>1
<1>3. s = [k \in 1..3 |-> s[k]] BY <1>2
<1> QED BY <1>3

\* What json_deal_cmd shows of a flat frame.
LEMMA FlatShown ==
    ASSUME IInv, DealInv, FlatInv, step = "done", NEW f, FlatFrame(f), f.text = text
    PROVE  result = 1 /\ shown = [k \in DOMAIN Fields |-> Cut(f.values[k], BufSz)]
<1>1. PICK m, c : /\ IsFlat(text, m, c)
                  /\ \A k \in 1..3 : \E i \in 1..m :
                        /\ Name(text, c, i) = <<Fields[k]>>
                        /\ \A j \in 1..i - 1 : Name(text, c, j) # <<Fields[k]>>
                        /\ f.values[k] = Value(text, c, i)
  BY DEF FlatFrame
<1>2. m \in Nat /\ Parsed(m, c) BY <1>1 DEF FlatInv, IsFlat
<1>3. pc = "done"
  <2>1. text[1] = "{" BY <1>1 DEF IsFlat
  <2>2. ~IsError BY <2>1 DEF IsError, ERR
  <2> QED BY <2>2 DEF DealInv, Accepted
<1>4. /\ Accepted
      /\ \A k \in 1..3 : \E i \in 1..m :
            /\ 2 * i - 1 \in Members(k) /\ \A j \in Members(k) : 2 * i - 1 <= j
            /\ tokens[2 * i - 1].size = 1 /\ tokens[2 * i].type \in {"string", "primitive"}
            /\ Content(tokens[2 * i]) = f.values[k]
  <2>1. /\ Accepted
        /\ \A k \in 1..3 : \A i \in 1..m :
              Name(text, c, i) = <<Fields[k]>>
              /\ (\A j \in 1..i - 1 : Name(text, c, j) # <<Fields[k]>>) =>
                 /\ 2 * i - 1 \in Members(k) /\ \A j \in Members(k) : 2 * i - 1 <= j
                 /\ tokens[2 * i - 1].size = 1 /\ tokens[2 * i].type \in {"string", "primitive"}
                 /\ Content(tokens[2 * i]) = Value(text, c, i)
    BY <1>1, <1>2, <1>3, FlatMembers
  <2>2. ASSUME NEW k \in 1..3
        PROVE  \E i \in 1..m :
            /\ 2 * i - 1 \in Members(k) /\ \A j \in Members(k) : 2 * i - 1 <= j
            /\ tokens[2 * i - 1].size = 1 /\ tokens[2 * i].type \in {"string", "primitive"}
            /\ Content(tokens[2 * i]) = f.values[k]
    <3>1. PICK i \in 1..m : /\ Name(text, c, i) = <<Fields[k]>>
                            /\ \A j \in 1..i - 1 : Name(text, c, j) # <<Fields[k]>>
                            /\ f.values[k] = Value(text, c, i)
      BY <1>1
    <3> QED BY <2>1, <3>1
  <2> QED BY <2>1, <2>2
<1>5. /\ result = 1 <=> \A k \in 1..3 : Members(k) # {}
      /\ result = 1 => \A k \in 1..3 : \E i \in Members(k) :
            /\ \A j \in Members(k) : i <= j
            /\ tokens[i].size = 1 => shown[k] = IF tokens[i + 1].type \in {"string", "primitive"}
                     THEN Cut(Content(tokens[i + 1]), BufSz) ELSE <<>>
  BY <1>3, <1>4, ShownFact, FieldsFact DEF ShownAreMembers, Accepted
<1>6. result = 1 BY <1>4, <1>5
<1>7. ASSUME NEW k \in 1..3 PROVE shown[k] = Cut(f.values[k], BufSz)
  <2>1. PICK i \in 1..m :
            /\ 2 * i - 1 \in Members(k) /\ \A j \in Members(k) : 2 * i - 1 <= j
            /\ tokens[2 * i - 1].size = 1 /\ tokens[2 * i].type \in {"string", "primitive"}
            /\ Content(tokens[2 * i]) = f.values[k]
    BY <1>4
  <2>2. PICK j \in Members(k) :
            /\ \A h \in Members(k) : j <= h
            /\ tokens[j].size = 1 => shown[k] = IF tokens[j + 1].type \in {"string", "primitive"}
                     THEN Cut(Content(tokens[j + 1]), BufSz) ELSE <<>>
    BY <1>5, <1>6
  <2>3. j = 2 * i - 1 /\ j + 1 = 2 * i
    <3>1. j \in Int BY UsedFact DEF Members, IInv
    <3>2. j <= 2 * i - 1 /\ 2 * i - 1 <= j BY <2>1, <2>2
    <3>3. i \in Int /\ m \in Nat BY <1>2
    <3> QED BY <3>1, <3>2, <3>3
  <2>4. tokens[j].size = 1 /\ tokens[j + 1].type \in {"string", "primitive"}
        /\ Content(tokens[j + 1]) = f.values[k]
    BY <2>1, <2>3
  <2> QED BY <2>2, <2>4
<1>8. IsSeq(shown) /\ Len(shown) = 3 BY <1>6 DEF DealInv
<1> DEFINE g == [k \in 1..3 |-> Cut(f.values[k], BufSz)]
<1>9. \A k \in 1..3 : shown[k] = g[k] BY <1>7
<1>10. g = [k \in 1..3 |-> g[k]] OBVIOUS
<1> HIDE DEF g
<1>11. shown = g BY <1>8, <1>9, <1>10, SeqOfThree
<1> QED BY <1>6, <1>11, FieldsFact DEF g

\* For every set of frames, every text beside them and every size of the token array and of
\* json_age: if each frame is one object whose members are strings and primitives, without
\* escapes, with blanks anywhere, in any order, of any number the tokens suffice for, then
\* json_deal_cmd (usart_net.c) shows its first age, email and name, cut to json_age.
THEOREM FlatFieldsShown ==
    ASSUME \A f \in Frames : FlatFrame(f)
    PROVE  Spec => []FieldsShown
<1>1. FlatInv /\ IInv /\ [Next]_vars => FlatInv'
  BY FlatNext DEF IInv
<1>2. IInv /\ DealInv /\ FlatInv => FieldsShown
  BY FlatShown DEF FieldsShown
<1> QED BY <1>1, <1>2, FlatInit, DealInvariance, PTL DEF Spec

-----------------------------------------------------------------------------
(* json_deal_cmd ends *)

\* The steps jsmn_parse can take at one position: a bracket that leads to the loop over
\* parents, and a primitive, which ends without passing over its delimiter.
Width == NumTokens + 3
Stage ==
    CASE pc = "close" -> tok + 1
      [] pc = "scan" -> NumTokens + 1
      [] pc = "primitive" /\ pos > start -> NumTokens + 2
      [] OTHER -> 0

\* The steps jsmn_parse has at most before it, and those of json_deal_cmd.
ParseLeft == IF pc = "done" THEN 0 ELSE 1 + Width * (Len(text) - pos) + Stage
Left ==
    CASE step = "check" -> ParseLeft + 10
      [] step = "parse" -> ParseLeft + 9
      [] step = "find" -> 8 - Len(items)
      [] step = "show" -> 5 - Len(shown)
      [] OTHER -> 0

\* Moving on by a position is worth all stages of one.
LEMMA Product ==
    ASSUME NEW w \in Nat, NEW r \in Nat, NEW q \in Nat, q < r
    PROVE  w * q \in Nat /\ w * r \in Nat /\ w * r >= w * q + w
<1> DEFINE d == r - q - 1
<1>1. d \in Nat /\ r = q + 1 + d OBVIOUS
<1>2. w * d \in Nat /\ w * q \in Nat /\ w * r \in Nat BY <1>1
<1>3. w * r = w * q + w + w * d BY <1>1
<1> QED BY <1>2, <1>3

\* There are fewer stages than a position is worth.
LEMMA StageFact == TypeOK => Stage \in 0..Width - 1
<1> SUFFICES ASSUME TypeOK PROVE Stage \in 0..Width - 1 OBVIOUS
<1>1. NumTokens \in Nat /\ Width = NumTokens + 3 BY NumTokensAssumption DEF Width
<1>2. tok \in Int /\ tok >= -1 /\ tok < NumTokens BY <1>1 DEF TypeOK
<1>3. Stage \in {tok + 1, NumTokens + 1, NumTokens + 2, 0} BY DEF Stage
<1> QED BY <1>1, <1>2, <1>3

\* A step ends the parser, moves on in the text or lowers the stage.
LEMMA Falls ==
    ASSUME TypeOK, TypeOK', text' = text, pc # "done",
           \/ pc' = "done"
           \/ pos' > pos
           \/ pos' = pos /\ Stage' < Stage
    PROVE  ParseLeft \in Nat /\ ParseLeft' \in 0..ParseLeft - 1
<1> DEFINE r == Len(text) - pos
           q == Len(text') - pos'
<1>1. NumTokens \in Nat /\ Width \in Nat /\ Width' = Width BY NumTokensAssumption DEF Width
<1>2. Stage \in 0..Width - 1 /\ Stage' \in 0..Width - 1
  <2>1. TypeOK' => (Stage \in 0..Width - 1)' BY StageFact, PTL
  <2> QED BY <1>1, <2>1, StageFact
<1>3. /\ Len(text) \in Nat /\ pos \in Nat /\ pos <= Len(text)
  BY CharFact DEF TypeOK
<1>4. Len(text') = Len(text) /\ pos' \in Nat /\ pos' <= Len(text') BY <1>3 DEF TypeOK
<1>5. r \in Nat /\ q \in Nat BY <1>3, <1>4
<1>6. ParseLeft = 1 + Width * r + Stage BY DEF ParseLeft
<1>7. Width * r \in Nat /\ Width * q \in Nat
  <2> HIDE DEF r, q
  <2> QED BY <1>1, <1>5
<1>8. CASE pc' = "done"
  <2>1. ParseLeft' = 0 BY <1>8 DEF ParseLeft
  <2> HIDE DEF r, q
  <2> QED BY <1>1, <1>2, <1>6, <1>7, <2>1
<1>9. CASE pc' # "done"
  <2>1. ParseLeft' = 1 + Width * q + Stage' BY <1>1, <1>9 DEF ParseLeft
  <2>2. CASE pos' > pos
    <3>1. q < r BY <1>3, <1>4, <2>2
    <3> HIDE DEF r, q
    <3>2. Width * r >= Width * q + Width BY <1>1, <1>5, <3>1, Product
    <3> QED BY <1>1, <1>2, <1>6, <1>7, <2>1, <3>2
  <2>3. CASE pos' = pos /\ Stage' < Stage
    <3>1. q = r BY <1>3, <1>4, <2>3
    <3> HIDE DEF r, q
    <3> QED BY <1>1, <1>2, <1>6, <1>7, <2>1, <2>3, <3>1
  <2> QED BY <1>9, <2>2, <2>3
<1> QED BY <1>8, <1>9

\* Every action of the parser does one of the three.
LEMMA ParseFalls ==
    ASSUME IInv, IInv', Parse
    PROVE  ParseLeft \in Nat /\ ParseLeft' \in 0..ParseLeft - 1
<1>1. TypeOK /\ TypeOK' BY DEF IInv
<1>2. text' = text /\ pc # "done" BY TextStays, Stopped
<1>3. /\ Len(text) \in Nat /\ pos \in Nat /\ pos <= Len(text) /\ start \in Nat
  BY <1>1, CharFact DEF TypeOK
<1>4. NumTokens \in Nat /\ toknext \in Nat /\ toknext <= NumTokens
  BY <1>1, NumTokensAssumption DEF TypeOK
<1>5. ASSUME pos' = pos + 1 PROVE pos' > pos BY <1>3, <1>5
<1>6. CASE pc' = "done" BY <1>1, <1>2, <1>6, Falls
<1>7. CASE \/ OpenBracket \/ SkipBlank \/ Colon \/ Comma \/ StartString \/ EndString
           \/ CloseMatch \/ ClosePassedOver \/ PrimitiveChar
  <2>1. pos' = pos + 1
    BY <1>7 DEF OpenBracket, SkipBlank, Colon, Comma, StartString, EndString, CloseMatch,
       ClosePassedOver, PrimitiveChar
  <2> QED BY <1>1, <1>2, <1>5, <2>1, Falls
<1>8. CASE StringChar
  <2>1. pos < Len(text) BY <1>3, <1>8 DEF StringChar, InString, AtEnd
  <2>2. Escape => HexEnd > pos BY <1>3 DEF Escape, HexEnd
  <2>3. \/ pos' = pos + 1 \/ pos' = pos + 2 \/ (Escape /\ pos' = HexEnd)
    BY <1>8 DEF StringChar
  <2>4. pos' > pos BY <1>3, <2>2, <2>3
  <2> QED BY <1>1, <1>2, <2>4, Falls
<1>9. CASE CloseBracket
  <2>1. pos' = pos /\ pc = "scan" /\ pc' = "close" /\ tok' = toknext - 1
    BY <1>9 DEF CloseBracket, Scanning
  <2>2. Stage = NumTokens + 1 /\ Stage' = tok' + 1 BY <2>1 DEF Stage
  <2>3. Stage' < Stage BY <1>4, <2>1, <2>2
  <2> QED BY <1>1, <1>2, <2>1, <2>3, Falls
<1>10. CASE CloseAscend
  <2>1. pos' = pos /\ pc = "close" /\ pc' = "close" /\ tok' = tokens[tok].parent
    BY <1>10 DEF CloseAscend
  <2>2. tok \in Used /\ tok \in Int
    BY <1>1, <1>4, <2>1 DEF TypeOK, Used
  <2>3. tok' \in -1..tok - 1 BY <1>1, <2>1, <2>2, UsedFact
  <2>4. Stage = tok + 1 /\ Stage' = tok' + 1 BY <2>1 DEF Stage
  <2>5. tok' \in Int /\ tok' < tok BY <2>2, <2>3
  <2>6. Stage' < Stage
    <3> DEFINE x == tok y == tok'
    <3>1. x \in Int /\ y \in Int /\ y < x /\ Stage = x + 1 /\ Stage' = y + 1
      BY <2>2, <2>4, <2>5, Zenon
    <3> HIDE DEF x, y
    <3> QED BY <3>1
  <2> QED BY <1>1, <1>2, <2>1, <2>6, Falls
<1>11. CASE StartPrimitive
  <2>1. pos' = pos /\ pc = "scan" /\ pc' = "primitive" /\ start' = pos
    BY <1>11 DEF StartPrimitive
  <2>2. ~(pos' > start') BY <1>3, <2>1
  <2>3. Stage = NumTokens + 1 /\ Stage' = 0 BY <2>1, <2>2 DEF Stage
  <2>4. Stage' < Stage BY <1>4, <2>3
  <2> QED BY <1>1, <1>2, <2>1, <2>4, Falls
<1>12. CASE EndPrimitive
  <2>1. pos' = pos /\ pc = "primitive" /\ pc' = "scan" /\ Char \in Delimiters \cup {NUL}
    BY <1>12 DEF EndPrimitive, Found, Finish
  <2>2. pos > start
    <3>1. Char \in Structural \cup {NUL} BY <2>1 DEF Structural, Delimiters, Openers, Closers
    <3> QED BY <2>1, <3>1 DEF IInv, Placed
  <2>3. Stage = NumTokens + 2 /\ Stage' = NumTokens + 1 BY <2>1, <2>2 DEF Stage
  <2>4. Stage' < Stage BY <1>4, <2>3
  <2> QED BY <1>1, <1>2, <2>1, <2>4, Falls
<1>13. CASE \/ OpenNoRoom \/ CloseNothing \/ CloseWrongType \/ CloseUnmatched
            \/ StringNoRoom \/ StringInvalid \/ StringPart \/ PrimitiveNoRoom
            \/ PrimitiveInvalid \/ EndOfText
  <2>1. pc' = "done"
    BY <1>13 DEF OpenNoRoom, CloseNothing, CloseWrongType, CloseUnmatched, StringNoRoom,
       StringInvalid, StringPart, PrimitiveNoRoom, PrimitiveInvalid, EndOfText, Fail, Return
  <2> QED BY <1>6, <2>1
<1> QED BY <1>7, <1>8, <1>9, <1>10, <1>11, <1>12, <1>13
        DEF Parse, Close, ParseString, ParsePrimitive

\* Steps outside jsmn_parse leave its measure alone.
LEMMA ParseLeftSame ==
    ASSUME TypeOK, UNCHANGED parserVars
    PROVE  ParseLeft \in Nat /\ ParseLeft' = ParseLeft
<1>1. ParseLeft' = ParseLeft BY DEF parserVars, ParseLeft, Stage, Width
<1>2. Len(text) - pos \in Nat
  <2>1. Len(text) \in Nat /\ pos \in Nat /\ pos <= Len(text) BY CharFact DEF TypeOK
  <2> QED BY <2>1
<1>3. NumTokens \in Nat /\ Width \in Nat BY NumTokensAssumption DEF Width
<1>4. Stage \in Nat BY <1>3, StageFact
<1>5. Width * (Len(text) - pos) \in Nat
  <2> DEFINE r == Len(text) - pos
  <2>1. r \in Nat BY <1>2
  <2> HIDE DEF r
  <2>2. Width * r \in Nat BY <1>3, <2>1
  <2> QED BY <2>2 DEF r
<1> DEFINE p == Width * (Len(text) - pos)
<1>6. ParseLeft = 0 \/ ParseLeft = 1 + p + Stage BY DEF ParseLeft
<1>7. p \in Nat BY <1>5
<1> HIDE DEF p
<1> QED BY <1>1, <1>4, <1>6, <1>7

\* Every step of json_deal_cmd lowers what is left.
LEMMA DealFalls ==
    ASSUME IInv, IInv', DealInv, DealInv', Deal
    PROVE  Left \in Nat /\ Left' \in 0..Left - 1
<1>1. TypeOK BY DEF IInv
<1>2. CASE ParseStep
  <2>1. step = "parse" /\ step' = "parse" /\ Parse BY <1>2 DEF ParseStep, dealVars
  <2>2. ParseLeft \in Nat /\ ParseLeft' \in 0..ParseLeft - 1 BY <2>1, ParseFalls
  <2>3. Left = ParseLeft + 9 /\ Left' = ParseLeft' + 9 BY <2>1 DEF Left
  <2> DEFINE x == ParseLeft y == ParseLeft'
  <2>4. x \in Nat /\ y \in 0..x - 1 /\ Left = x + 9 /\ Left' = y + 9 BY <2>2, <2>3, Zenon
  <2> HIDE DEF x, y
  <2>5. y \in Int /\ 0 <= y /\ y < x BY <2>4
  <2>6. Left \in Nat BY <2>4
  <2> QED BY <2>4, <2>5, <2>6
<1>3. ASSUME UNCHANGED parserVars PROVE ParseLeft \in Nat /\ ParseLeft' = ParseLeft
  BY <1>1, <1>3, ParseLeftSame
<1>4. CASE DealParse
  <2>1. step = "check" /\ step' = "parse" /\ UNCHANGED parserVars BY <1>4 DEF DealParse, GoOn
  <2>2. Left = ParseLeft + 10 /\ Left' = ParseLeft' + 9 BY <2>1 DEF Left
  <2> QED BY <1>3, <2>1, <2>2
<1>5. CASE DealAccept
  <2>1. step = "parse" /\ step' = "find" /\ UNCHANGED parserVars BY <1>5 DEF DealAccept, GoOn
  <2>2. Left = ParseLeft + 9 /\ Left' = 8 - Len(items') BY <2>1 DEF Left
  <2>3. Len(items') \in 0..2 BY <2>1 DEF DealInv
  <2> DEFINE n == Len(items')
  <2>4. n \in 0..2 /\ Left' = 8 - n BY <2>2, <2>3
  <2>5. ParseLeft \in Nat BY <1>3, <2>1
  <2> HIDE DEF n
  <2>6. Left' \in 6..8 BY <2>4
  <2> QED BY <2>2, <2>5, <2>6
<1>6. CASE DealFind
  <2> DEFINE n == Len(items)
  <2>1. step = "find" /\ step' \in {"find", "show"} /\ items' = Append(items, Wanted)
    BY <1>6 DEF DealFind, GoOn
  <2>2. IsSeq(items) /\ n \in 0..2 /\ shown = <<>> BY <2>1 DEF DealInv
  <2>3. Len(items') = n + 1 BY <2>1, <2>2, AppendFact
  <2>4. Left = 8 - n BY <2>1 DEF Left
  <2>5. step' = "find" => Left' = 8 - (n + 1) BY <2>3 DEF Left
  <2>6. step' = "show" => Left' = 5
    <3>1. Len(<<>>) = 0 OBVIOUS
    <3>2. shown' = <<>> BY <1>6, <2>2 DEF DealFind
    <3>3. step' = "show" => Left' = 5 - Len(shown') BY DEF Left
    <3> QED BY <3>1, <3>2, <3>3
  <2> HIDE DEF n
  <2>7. Left \in 6..8 BY <2>2, <2>4
  <2>8. Left' = 5 \/ Left' = Left - 1 BY <2>1, <2>2, <2>4, <2>5, <2>6
  <2> QED BY <2>7, <2>8
<1>7. CASE DealShow
  <2> DEFINE n == Len(shown)
  <2>1. step = "show" /\ step' = "show" /\ shown' = Append(shown, json_age')
    BY <1>7 DEF DealShow
  <2>2. IsSeq(shown) /\ n \in 0..3 BY <2>1 DEF DealInv
  <2>3. Len(shown') = n + 1 /\ n < 3
    <3>1. Len(shown') = n + 1 BY <2>1, <2>2, AppendFact
    <3>2. n < 3 BY <1>7, FieldsFact DEF DealShow
    <3> QED BY <3>1, <3>2
  <2>4. Left = 5 - n /\ Left' = 5 - (n + 1) BY <2>1, <2>3 DEF Left
  <2> HIDE DEF n
  <2> QED BY <2>2, <2>3, <2>4
<1>8. CASE DealError \/ DealRefuse \/ DealMissing \/ DealDone
  <2>1. /\ step \in {"check", "parse", "find", "show"} /\ step' = "done" /\ UNCHANGED parserVars
    BY <1>8 DEF DealError, DealRefuse, DealMissing, DealDone, Leave
  <2>2. Left' = 0 BY <2>1 DEF Left
  <2>3. Left \in Nat \ {0}
    <3>1. CASE step \in {"check", "parse"}
      <4>1. ParseLeft \in Nat BY <1>3, <2>1
      <4>2. Left = ParseLeft + 10 \/ Left = ParseLeft + 9 BY <3>1 DEF Left
      <4> QED BY <4>1, <4>2
    <3>2. CASE step = "find"
      <4> DEFINE n == Len(items)
      <4>1. n \in 0..2 /\ Left = 8 - n BY <3>2 DEF DealInv, Left
      <4> HIDE DEF n
      <4> QED BY <4>1
    <3>3. CASE step = "show"
      <4> DEFINE n == Len(shown)
      <4>1. n \in 0..3 /\ Left = 5 - n BY <3>3 DEF DealInv, Left
      <4> HIDE DEF n
      <4> QED BY <4>1
    <3> QED BY <2>1, <3>1, <3>2, <3>3
  <2> QED BY <2>2, <2>3
<1> QED BY <1>2, <1>4, <1>5, <1>6, <1>7, <1>8 DEF Deal

\* json_deal_cmd takes boundedly many steps on every text, JSON or not: what is left of it
\* falls with each step, so that also the loop over parents of jsmn_parse, which follows
\* links that the text determines, can not go round in a circle.
THEOREM DealBounded == Spec => [][(Left \in Nat /\ Left' \in 0..Left - 1)]_vars
<1>1. ASSUME IInv, IInv', DealInv, DealInv', [Next]_vars
      PROVE  [(Left \in Nat /\ Left' \in 0..Left - 1)]_vars
  BY <1>1, DealFalls DEF Next
<1> QED BY <1>1, DealInvariance, PTL DEF Spec
=============================================================================

-------------------------------- MODULE Json --------------------------------
(***************************************************************************)
(* Json::Private of src/src/Document/Json.cpp on every small input: the    *)
(* parser on sequences of tokens, readToken() and appendEscapedString() on *)
(* the characters of one string, stripComments() on those of a document.   *)
(* Input is read as a user types it, one symbol after the other.           *)
(*                                                                         *)
(* Characters: "q" is the quote, "lf" a line end, "a" any other character; *)
(* "X", "H" and "L" are four hexadecimal digits: of a character, of the    *)
(* first and of the second half of a surrogate pair. Tokens: the scalars   *)
(* are the strings "k" and "l" and the number "1".                         *)
(***************************************************************************)
EXTENDS Scanning, SequencesExt

CONSTANTS MaxTokens, MaxChars

VARIABLES kind, text

vars == <<kind, text>>

-----------------------------------------------------------------------------
(* parseValue(), parseArray(), parseObject(): s[i] is the current token.   *)
(* They return the value, in a Variant that was null, and the place of the *)
(* token after it; after a syntax error 0 and the place of the error.      *)

Strings == {"k", "l"}
Scalars == Strings \cup {"1"}

\* syntaxError()
Fails(i) == [value |-> <<>>, next |-> 0, error |-> i]
Reads(value, next) == [value |-> value, next |-> next, error |-> 0]

RECURSIVE ParseValue(_, _), ParseArray(_, _, _), ParseObject(_, _, _)

ParseValue(s, i) ==
  IF At(s, i) \in Scalars THEN Reads(<<"scalar", s[i]>>, i + 1)
  ELSE IF At(s, i) = "[" THEN ParseArray(s, i + 1, <<>>)
  ELSE IF At(s, i) = "{" THEN ParseObject(s, i + 1, <<>>)
  ELSE Fails(i)

\* Mutant: values that no comma separates are accepted.
ParseArrayLoose(s, i, list) ==
  IF At(s, i) = "]" THEN Reads(<<"list", list>>, i + 1)
  ELSE LET item == ParseValue(s, i)
           items == Append(list, item.value)
       IN  IF item.next = 0 THEN item
           ELSE IF At(s, item.next) = "]" THEN Reads(<<"list", items>>, item.next + 1)
           ELSE ParseArray(s, IF At(s, item.next) = "," THEN item.next + 1 ELSE item.next, items)

\* The loop of parseArray; list is what was read.
ParseArray(s, i, list) ==
  IF At(s, i) = "]" THEN Reads(<<"list", list>>, i + 1)
  ELSE LET item == ParseValue(s, i)
           items == Append(list, item.value)
       IN  IF item.next = 0 THEN item
           ELSE IF At(s, item.next) = "]" THEN Reads(<<"list", items>>, item.next + 1)
           ELSE IF At(s, item.next) # "," THEN Fails(item.next)
           ELSE ParseArray(s, item.next + 1, items)

\* The loop of parseObject.
ParseObject(s, i, object) ==
  IF At(s, i) = "}" THEN Reads(<<"map", object>>, i + 1)
  ELSE IF At(s, i) \notin Strings THEN Fails(i)
  ELSE IF At(s, i + 1) # ":" THEN Fails(i + 1)
  ELSE LET item == ParseValue(s, i + 2)
           items == AppendKey(object, s[i], item.value)
       IN  IF item.next = 0 THEN item
           ELSE IF At(s, item.next) = "}" THEN Reads(<<"map", items>>, item.next + 1)
           ELSE IF At(s, item.next) # "," THEN Fails(item.next)
           ELSE ParseObject(s, item.next + 1, items)

RECURSIVE AppendVariant(_)

Separated(parts) == FoldLeft(LAMBDA s, part : IF s = <<>> THEN part ELSE s \o <<",">> \o part, <<>>, parts)

\* appendVariant(), as tokens.
AppendVariant(value) ==
  IF value[1] = "scalar" THEN <<value[2]>>
  ELSE IF value[1] = "list"
  THEN <<"[">> \o Separated([n \in DOMAIN value[2] |-> AppendVariant(value[2][n])]) \o <<"]">>
  ELSE <<"{">> \o Separated([n \in DOMAIN value[2] |->
                               <<value[2][n][1], ":">> \o AppendVariant(value[2][n][2])]) \o <<"}">>

-----------------------------------------------------------------------------
(* The characters of a string.                                             *)

Escapes == {"q", "\\", "/", "n"}
Hex == {"X", "H", "L"}

\* A backslash was the last character: it is kept with the zero that ends the text, and the code
\* reads on behind the end.
Beyond == "beyond"

RECURSIVE ReadChars(_, _, _)

\* The characters after the opening quote, from place i on; 0 after a syntax error. A line end
\* is skipped, an escape the code does not know is kept with its backslash.
ReadChars(s, i, value) ==
  LET c == At(s, i)
      d == At(s, i + 1)
      digits == At(s, i + 2)
      second == At(s, i + 3) = "\\" /\ At(s, i + 4) = "u"
  IN  CASE c = "end" -> Fails(i)
        [] c = "q"   -> Reads(value, i + 1)
        [] c = "lf"  -> ReadChars(s, i + 1, value)
        [] c = "\\" /\ d \in Escapes -> ReadChars(s, i + 2, Append(value, IF d = "n" THEN "lf" ELSE d))
        [] c = "\\" /\ d = "end" -> Reads(Append(value, "\\"), Beyond)
        [] c = "\\" /\ d \notin Escapes \cup {"u", "end"} -> ReadChars(s, i + 2, value \o <<"\\", d>>)
        [] c = "\\" /\ d = "u" ->
            (CASE digits \notin Hex -> Fails(i + 2)
               [] digits \in {"X", "L"} -> ReadChars(s, i + 3, Append(value, digits))
               [] digits = "H" /\ second /\ At(s, i + 5) \notin Hex -> Fails(i + 5)
               [] digits = "H" /\ second /\ At(s, i + 5) = "L" -> ReadChars(s, i + 6, Append(value, "pair"))
               [] OTHER -> Fails(i + 3))
        [] OTHER -> ReadChars(s, i + 1, Append(value, c))

RECURSIVE EscapeFrom(_, _)

\* appendEscapedString(), between the quotes, from place i on.
EscapeFrom(s, i) ==
  LET e == FindOneOf(s, i, {"q", "\\"})
  IN  IF e = 0 THEN SubSeq(s, i, Len(s))
      ELSE SubSeq(s, i, e - 1) \o <<"\\", s[e]>> \o EscapeFrom(s, e + 1)

-----------------------------------------------------------------------------
(* stripComments(): the places of the characters that are kept.            *)

RECURSIVE Strip(_, _), StripBlock(_, _), StripString(_, _)

\* Mutant: strings are not told from the rest of the document.
StripAnywhere(s, i) ==
  LET end == FindOneOf(s, i, {"lf"})
      comment == At(s, i) = "/"
  IN  CASE At(s, i) = "end" -> <<>>
        [] comment /\ At(s, i + 1) = "/" -> IF end = 0 THEN <<>> ELSE Strip(s, end)
        [] comment /\ At(s, i + 1) = "*" -> StripBlock(s, i + 2)
        [] OTHER -> <<i>> \o Strip(s, i + 1)

Strip(s, i) ==
  LET c == At(s, i)
      d == At(s, i + 1)
      end == FindOneOf(s, i, {"lf"})
  IN  IF c = "end" THEN <<>>
      ELSE IF c = "/" /\ d = "/" THEN (IF end = 0 THEN <<>> ELSE Strip(s, end))
      ELSE IF c = "/" /\ d = "*" THEN StripBlock(s, i + 2)
      ELSE IF c # "q" THEN <<i>> \o Strip(s, i + 1)
      ELSE <<i>> \o StripString(s, i + 1)

\* Inside /* */: line ends are kept, and so is an asterisk that does not end the comment.
StripBlock(s, i) ==
  LET e == FindOneOf(s, i, {"lf", "*"})
  IN  IF e = 0 THEN <<>>
      ELSE IF s[e] = "*" /\ At(s, e + 1) = "/" THEN Strip(s, e + 2)
      ELSE <<e>> \o StripBlock(s, e + 1)

\* Inside a string: what follows a backslash is looked at as if it were outside.
StripString(s, i) ==
  LET c == At(s, i)
  IN  IF c = "end" THEN <<>>
      ELSE IF c = "q" \/ (c = "\\" /\ At(s, i + 1) # "end") THEN <<i>> \o Strip(s, i + 1)
      ELSE <<i>> \o StripString(s, i + 1)

-----------------------------------------------------------------------------
Init == kind \in {"tokens", "string", "comments"} /\ text = <<>>

\* A document is typed on while the only error is that it ends.
TypeToken == /\ kind = "tokens" /\ Len(text) < MaxTokens
             /\ ParseValue(text, 1).error > Len(text)
             /\ \E c \in Scalars \cup {"[", "]", "{", "}", ",", ":"} : text' = Append(text, c)
             /\ UNCHANGED kind

TypeChar == /\ kind = "string" /\ Len(text) < MaxChars
            /\ \E c \in {"q", "\\", "/", "n", "a", "u", "X", "lf"} : text' = Append(text, c)
            /\ UNCHANGED kind

TypeDocument == /\ kind = "comments" /\ Len(text) < MaxChars
                /\ \E c \in {"/", "*", "q", "\\", "lf", "a"} : text' = Append(text, c)
                /\ UNCHANGED kind

Next == TypeToken \/ TypeChar \/ TypeDocument

Spec == Init /\ [][Next]_vars

-----------------------------------------------------------------------------
RECURSIVE IsValue(_, _, _)

\* The places i .. j are items of the given form, separated and perhaps followed by commas.
Items(s, i, j, isItem(_, _)) ==
  \E cuts \in SUBSET {n \in i .. j : s[n] = ","} :
    LET ends == cuts \cup {j + 1}
        item(e) == <<Max({i} \cup {c + 1 : c \in {d \in cuts : d < e}}), e - 1>>
    IN  \A e \in ends : \/ item(e)[1] <= item(e)[2] /\ isItem(item(e)[1], item(e)[2])
                        \/ e = j + 1 /\ item(e)[1] = j + 1

\* The grammar, without a parser: the places i .. j are a value.
IsValue(s, i, j) ==
  \/ i = j /\ s[i] \in Scalars
  \/ /\ i < j /\ s[i] = "[" /\ s[j] = "]"
     /\ Items(s, i + 1, j - 1, LAMBDA a, b : IsValue(s, a, b))
  \/ /\ i < j /\ s[i] = "{" /\ s[j] = "}"
     /\ Items(s, i + 1, j - 1, LAMBDA a, b : a + 2 <= b /\ s[a] \in Strings /\ s[a + 1] = ":" /\ IsValue(s, a + 2, b))

\* The recursive parser accepts exactly the documents of the grammar (a comma may follow the
\* last item), reads the whole value, and the value survives being written and read again
\* (parseValue, parseArray, parseObject and appendVariant, Json.cpp 295-372, 404-494).
JsonExact ==
  kind = "tokens" =>
    LET read == ParseValue(text, 1)
        again == ParseValue(AppendVariant(read.value), 1)
    IN  /\ read.next # 0 <=> \E j \in 1 .. Len(text) : IsValue(text, 1, j)
        /\ read.next # 0 => /\ IsValue(text, 1, read.next - 1)
                            /\ again = Reads(read.value, Len(AppendVariant(read.value)) + 1)

\* Whether an even number of backslashes is right before place i, counted from place from on.
Unescaped(s, from, i) == (i - 1 - Max({from - 1} \cup {k \in from .. i - 1 : s[k] # "\\"})) % 2 = 0

\* What the characters up to the closing quote stand for, each one for its place.
Said(s, escapes, close) ==
  FoldLeft(LAMBDA value, i : value \o
             CASE i \in escapes -> IF s[i + 1] \in Escapes \cup {"u"} THEN <<>> ELSE <<"\\">>
               [] i - 1 \in escapes /\ s[i] = "n" -> <<"lf">>
               [] s[i] = IF i - 1 \in escapes THEN "u" ELSE "lf" -> <<>>
               [] OTHER -> <<s[i]>>,
           <<>>, [i \in 1 .. close - 1 |-> i])

\* A string that holds no line end is read as it was written, whatever quotes, backslashes and
\* half escapes it holds, and so is one with a surrogate pair before it. Of any other text the
\* first quote that is not escaped closes the string, unless there is a \u without digits before
\* it; without such a quote the end is an error, except behind a backslash: there the code reads
\* on beyond the text (readToken and appendEscapedString, Json.cpp 73-181, 375-402).
JsonStrings ==
  kind = "string" =>
    LET escaped == EscapeFrom(text, 1) \o <<"q">>
        high == <<"\\", "u", "H">>
        read == ReadChars(text, 1, <<>>)
        escapes == {i \in DOMAIN text : text[i] = "\\" /\ Unescaped(text, 1, i)}
        close == Min({i \in DOMAIN text : text[i] = "q" /\ i - 1 \notin escapes} \cup {Len(text) + 1})
        bad == {i \in escapes : i < close /\ At(text, i + 1) = "u" /\ At(text, i + 2) \notin Hex}
    IN  /\ "lf" \notin ToSet(text) =>
             /\ ReadChars(escaped, 1, <<>>) = Reads(text, Len(escaped) + 1)
             /\ ReadChars(high \o <<"\\", "u", "L">> \o escaped, 1, <<>>) = Reads(<<"pair">> \o text, Len(escaped) + 7)
             /\ ReadChars(high \o escaped, 1, <<>>) = Fails(4)
        /\ CASE bad # {} -> read = Fails(Min(bad) + 2)
             [] bad = {} /\ close <= Len(text) -> read = Reads(Said(text, escapes, close), close + 1)
             [] bad = {} /\ close > Len(text) ->
                  IF Len(text) \in escapes THEN read.next = Beyond ELSE read = Fails(Len(text) + 1)

IsLineComment(s, i) == s[i] = "/" /\ At(s, i + 1) = "/"
IsBlockComment(s, i) == s[i] = "/" /\ At(s, i + 1) = "*"

\* The last place of what begins at place i: of a comment, of a string, which ends at the first
\* place that closes it, or of a single character.
PieceEnd(s, i, closes(_, _)) ==
  Min({Len(s)} \cup
      CASE IsLineComment(s, i)  -> {j - 1 : j \in {k \in i .. Len(s) : s[k] = "lf"}}
        [] IsBlockComment(s, i) -> {j + 1 : j \in {k \in i + 2 .. Len(s) - 1 : s[k] = "*" /\ s[k + 1] = "/"}}
        [] s[i] = "q"           -> {j \in i + 1 .. Len(s) : closes(i, j)}
        [] OTHER                -> {i})

\* The pieces of a document, each one its first and its last place.
Pieces(s, closes(_, _)) ==
  FoldLeft(LAMBDA pieces, i : IF pieces # <<>> /\ i <= Last(pieces)[2] THEN pieces
                              ELSE Append(pieces, <<i, PieceEnd(s, i, closes)>>),
           <<>>, [i \in 1 .. Len(s) |-> i])

\* The places of a document without its comments, whose line ends stay; and so do, in the code, the
\* asterisks of a block comment that do not end it.
Uncommented(s, pieces) ==
  SelectSeq([i \in 1 .. Len(s) |-> i], LAMBDA i :
    LET piece == CHOOSE p \in ToSet(pieces) : i \in p[1] .. p[2]
    IN  \/ ~IsLineComment(s, piece[1]) /\ ~IsBlockComment(s, piece[1])
        \/ s[i] = "lf"
        \/ IsBlockComment(s, piece[1]) /\ i >= piece[1] + 2 /\ s[i] = "*" /\ At(s, i + 1) # "/")

\* stripComments() leaves the document without its comments and with all of its line ends, if no
\* string of it holds another escape than that of a quote. For the code a string ends behind the
\* backslash of any other escape as well, and what follows is looked at as if it were outside of
\* it: what is left is the document without what are comments then (Json.cpp 509-581, Json.hpp
\* "Strips C/C++ style comments from JSON data without affecting the line in which data is
\* declared").
JsonLines ==
  kind = "comments" =>
    LET closed(i, j) == text[j] = "q" /\ Unescaped(text, i + 1, j)
        pieces == Pieces(text, closed)
        cut(i, j) == \/ text[j] = "q" /\ text[j - 1] # "\\"
                     \/ text[j] = "\\" /\ At(text, j + 1) \notin {"q", "end"}
        kept == Strip(text, 1)
    IN  /\ (\A p \in ToSet(pieces) : text[p[1]] = "q" =>
              \A i \in p[1] .. p[2] : text[i] = "\\" => At(text, i + 1) \in {"q", "end"})
           => kept = Uncommented(text, pieces)
        /\ kept = Uncommented(text, Pieces(text, cut))
        /\ {i \in DOMAIN text : text[i] = "lf"} \subseteq ToSet(kept)
=============================================================================

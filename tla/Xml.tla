-------------------------------- MODULE Xml ---------------------------------
(***************************************************************************)
(* Xml::Private and Xml::Element::toString() of src/src/Document/Xml.cpp.  *)
(* A user writes a document part by part, with line ends and comments      *)
(* between the parts; what was meant is kept in `open', to be compared     *)
(* with what the parser makes of the text.                                 *)
(*                                                                         *)
(* Symbols: "q" and "ap" are the quotes, "cr" and "lf" the line ends, "sp" *)
(* the space; the names of the five entities are one symbol each, and so   *)
(* is "#1", the number of the character "u".                               *)
(***************************************************************************)
EXTENDS Scanning, SequencesExt

CONSTANT MaxText

VARIABLES kind,   \* what may be written next
          text,   \* the document
          open    \* the elements that are not closed, with what was written of them

vars == <<kind, text, open>>

LineEnds == {"cr", "lf"}
Space == {"sp"} \cup LineEnds

\* A Position: a place in the text, its line, the place where that begins.
Position(at, line, start) == [at |-> at, line |-> line, start |-> start]
To(p, at) == [p EXCEPT !.at = at]

\* syntaxError(); what is not an error has the value and the position behind it.
Fails(p) == [value |-> <<>>, next |-> p, ok |-> FALSE]
Reads(value, p) == [value |-> value, next |-> p, ok |-> TRUE]

-----------------------------------------------------------------------------
(* skipSpace()                                                             *)

\* Mutant: the two characters of a line end count as two lines.
NewLineTwice(s, p) == Position(p.at + 1, p.line + 1, p.at + 1)

\* The line end at p.
NewLine(s, p) ==
  LET n == IF s[p.at] = "cr" /\ At(s, p.at + 1) = "lf" THEN 2 ELSE 1
  IN  Position(p.at + n, p.line + 1, p.at + n)

RECURSIVE SkipComment(_, _), SkipSpace(_, _)

SkipComment(s, p) ==
  LET e == FindOneOf(s, p.at, {"-"} \cup LineEnds)
  IN  IF e = 0 THEN To(p, Len(s) + 1)
      ELSE IF s[e] \in LineEnds THEN SkipComment(s, NewLine(s, To(p, e)))
      ELSE IF At(s, e + 1) = "-" /\ At(s, e + 2) = ">" THEN To(p, e + 3)
      ELSE SkipComment(s, To(p, e + 1))

SkipSpace(s, p) ==
  IF At(s, p.at) \in LineEnds THEN SkipSpace(s, NewLine(s, p))
  ELSE IF p.at + 3 <= Len(s) /\ SubSeq(s, p.at, p.at + 3) = <<"<", "!", "-", "-">>
  THEN SkipSpace(s, SkipComment(s, To(p, p.at + 4)))
  ELSE IF At(s, p.at) = "sp" THEN SkipSpace(s, To(p, p.at + 1))
  ELSE p

-----------------------------------------------------------------------------
(* unescapeString() and escapeString()                                     *)

Entity == [apos |-> "ap", quot |-> "q", amp |-> "&", lt |-> "<", gt |-> ">"]
Escaped == [c \in {Entity[n] : n \in DOMAIN Entity} |-> CHOOSE n \in DOMAIN Entity : Entity[n] = c]

RECURSIVE Unescape(_, _, _)

\* The places i .. j of the document, whose data the string is attached to: the semicolon is
\* looked for behind j too. What is not a reference is kept.
Unescape(s, i, j) ==
  LET e == FindOneOf(s, i + 1, {";"})
      sequence == SubSeq(s, i + 1, e - 1)
  IN  IF i > j THEN <<>>
      ELSE IF s[i] # "&" \/ e = 0 THEN <<s[i]>> \o Unescape(s, i + 1, j)
      ELSE IF At(s, i + 1) = "#1" THEN <<"u">> \o Unescape(s, e + 1, j)
      ELSE IF Len(sequence) = 1 /\ sequence[1] \in DOMAIN Entity
      THEN <<Entity[sequence[1]]>> \o Unescape(s, e + 1, j)
      ELSE <<"&">> \o Unescape(s, i + 1, j)

Escape(s) == FlattenSeq([n \in DOMAIN s |-> IF s[n] \in DOMAIN Escaped THEN <<"&", Escaped[s[n]], ";">> ELSE <<s[n]>>])

-----------------------------------------------------------------------------
\* The token at p, where it begins, and the position after it.
TokenAt(s, p) ==
  LET c == At(s, p.at)
      d == At(s, p.at + 1)
      quote == FindOneOf(s, p.at + 1, {c} \cup LineEnds)
      stop == FindOneOf(Append(s, "sp"), p.at, {"/", ">", "="} \cup Space)
      Token(type, value, next) == [type |-> type, value |-> value, pos |-> p, next |-> To(p, next)]
      Error == Token("error", <<>>, p.at)
  IN  IF c = "<" /\ d = "/" THEN Token("</", <<>>, p.at + 2)
      ELSE IF c \in {"<", ">", "="} THEN Token(c, <<>>, p.at + 1)
      ELSE IF c = "end" THEN Error
      ELSE IF c \in {"q", "ap"}
      THEN IF quote = 0 \/ s[quote] # c THEN Error
           ELSE Token("string", Unescape(s, p.at + 1, quote - 1), quote + 1)
      ELSE IF c = "/" /\ d = ">" THEN Token("/>", <<>>, p.at + 2)
      ELSE IF stop = p.at THEN Error
      ELSE Token("name", SubSeq(s, p.at, stop - 1), stop)

ReadToken(s, p) == TokenAt(s, SkipSpace(s, p))

RECURSIVE ParseText(_, _, _), ParseElement(_, _), Attributes(_, _, _), Content(_, _, _)

\* parseText(), of a text that begins at start.
ParseText(s, p, start) ==
  LET e == FindOneOf(s, p.at, {"<"} \cup LineEnds)
  IN  IF e = 0 THEN Fails(To(p, Len(s) + 1))
      ELSE IF s[e] \in LineEnds THEN ParseText(s, NewLine(s, To(p, e)), start)
      ELSE Reads(Unescape(s, start, e - 1), To(p, e))

\* parseElement(), from its "<" on, a token.
ParseElement(s, begin) ==
  LET name == ReadToken(s, begin.next)
  IN  IF name.type # "name" THEN Fails(name.pos)
      ELSE Attributes(s, name.next, [line |-> begin.pos.line, column |-> begin.pos.at - begin.pos.start + 1,
                                     type |-> name.value, attributes |-> <<>>, content |-> <<>>])

\* The loop over the attributes: a token that does not belong there is passed over.
AttributeOf(s, t, equals, value, element) ==
  IF t.type = "error" THEN Fails(t.pos)
  ELSE IF t.type = "/>" THEN Reads(element, t.next)
  ELSE IF t.type = ">" THEN Content(s, t.next, element)
  ELSE IF t.type # "name" THEN Attributes(s, t.next, element)
  ELSE IF equals.type # "=" THEN Fails(equals.pos)
  ELSE IF value.type # "string" THEN Fails(value.pos)
  ELSE Attributes(s, value.next, [element EXCEPT !.attributes = AppendKey(@, t.value, value.value)])

Attributes(s, p, element) ==
  LET t == ReadToken(s, p)
      equals == ReadToken(s, t.next)
  IN  AttributeOf(s, t, equals, ReadToken(s, equals.next), element)

\* The end of parseElement, behind "</".
EndTag(s, p, element) ==
  LET name == ReadToken(s, p)
      close == ReadToken(s, name.next)
  IN  IF name.type # "name" \/ name.value # element.type THEN Fails(name.pos)
      ELSE IF close.type # ">" THEN Fails(close.pos)
      ELSE Reads(element, close.next)

\* The loop over the content. A token that was read stays read if it is none; a text behind a
\* comment is never reached, the loop goes on for ever there (no value, and no position).
ContentOf(s, p, t, child, string, element) ==
  LET With(item) == [element EXCEPT !.content = Append(@, item)]
  IN  IF t.type = "</" THEN EndTag(s, t.next, element)
      ELSE IF t.type = "<" THEN (IF child.ok THEN Content(s, child.next, With(<<"element", child.value>>)) ELSE child)
      ELSE IF ~string.ok THEN string
      ELSE IF string.next = p THEN Fails(Position(0, 0, 0))
      ELSE Content(s, string.next, With(<<"text", string.value>>))

Content(s, p, element) ==
  LET t == ReadToken(s, p)
      from == IF t.type = "error" THEN t.next ELSE p
  IN  ContentOf(s, p, t, ParseElement(s, t), ParseText(s, from, from.at), element)

RECURSIVE Prolog(_, _), Instruction(_, _, _)

\* parse(), from a position behind space; begin is where a processing instruction begins.
Prolog(s, p) ==
  LET t == ReadToken(s, p)
  IN  IF At(s, p.at) = "<" /\ At(s, p.at + 1) = "?" THEN Instruction(s, To(p, p.at + 2), p)
      ELSE IF t.type # "<" THEN Fails(t.pos)
      ELSE ParseElement(s, t)

Instruction(s, p, begin) ==
  LET e == FindOneOf(s, p.at, {"?"} \cup LineEnds)
  IN  IF e = 0 THEN Fails(begin)
      ELSE IF s[e] = "?" /\ At(s, e + 1) = ">" THEN Prolog(s, SkipSpace(s, To(p, e + 2)))
      ELSE Instruction(s, SkipSpace(s, To(p, e + 1)), begin)

Parse(s) == Prolog(s, SkipSpace(s, Position(1, 1, 1)))

-----------------------------------------------------------------------------
RECURSIVE ElementToString(_)

\* Element::toString()
ElementToString(e) ==
  LET attribute(a) == <<"sp">> \o a[1] \o <<"=", "q">> \o Escape(a[2]) \o <<"q">>
      item(x) == IF x[1] = "element" THEN ElementToString(x[2]) ELSE Escape(x[2])
  IN  <<"<">> \o e.type \o FlattenSeq([n \in DOMAIN e.attributes |-> attribute(e.attributes[n])])
        \o (IF e.content = <<>> THEN <<"/", ">">>
            ELSE <<">">> \o FlattenSeq([n \in DOMAIN e.content |-> item(e.content[n])])
                   \o <<"<", "/">> \o e.type \o <<">">>)

-----------------------------------------------------------------------------
(* The user, who leaves out what the README lists: texts that are blank,   *)
(* that begin with a space and a slash, or that follow a comment, line     *)
(* ends in attributes and in instructions.                                 *)

Names == {<<"a">>, <<"b">>}
Gaps == {<<"sp">>, <<"cr", "lf">>, <<"sp", "<", "!", "-", "-", "-", "lf", "-", "-", ">">>}
Header == <<"<", "?", "a", "?", ">", "lf">>

Texts == {<<"a">>, <<"sp", "&">>, <<"<", "lf", "sp">>, <<"lf", "a">>}
AttributeValues == {<<>>, <<"u">>, <<"q", "&">>}

\* "u" is written as a reference to its number.
Written(t) == FlattenSeq([n \in DOMAIN t |-> IF t[n] = "u" THEN <<"&", "#1", ";">> ELSE Escape(<<t[n]>>)])

\* The position of place i of the document.
PositionOf(i) ==
  LET ends(j) == text[j] = "lf" \/ (text[j] = "cr" /\ At(text, j + 1) # "lf")
      begins == {1} \cup {j + 1 : j \in {k \in 1 .. i - 1 : ends(k)}}
  IN  Position(i, Cardinality(begins), Max(begins))

Write(s) == Len(text) + Len(s) <= MaxText /\ text' = text \o s
Top == Last(open)
EndsInText == Top.content # <<>> /\ Last(Top.content)[1] = "text"
Change(e) == open' = Front(open) \o <<e>>

StartTag(name) ==
  /\ kind \in {"prolog", "content", "between"}
  /\ Write(<<"<">> \o name)
  /\ LET p == PositionOf(Len(text) + 1)
     IN  open' = Append(open, [line |-> p.line, column |-> p.at - p.start + 1, type |-> name,
                               attributes |-> <<>>, content |-> <<>>])
  /\ kind' = "tag"

Attribute(gap, name, value) ==
  /\ kind = "tag"
  /\ Write(gap \o name \o <<"=", "q">> \o Written(value) \o <<"q">>)
  /\ Change([Top EXCEPT !.attributes = AppendKey(@, name, value)])
  /\ UNCHANGED kind

CloseStart == /\ kind = "tag"
              /\ Write(<<">">>)
              /\ kind' = "content"
              /\ UNCHANGED open

\* After a text it would be part of the text.
Gap(gap) == /\ kind = "prolog" \/ (kind = "content" /\ ~EndsInText)
            /\ Write(gap)
            /\ kind' = "between"
            /\ UNCHANGED open

Text(t) ==
  /\ kind = "content" /\ ~EndsInText
  /\ Write(Written(t))
  /\ Change([Top EXCEPT !.content = Append(@, <<"text", t>>)])
  /\ UNCHANGED kind

\* The innermost element ends.
Finish ==
  IF Len(open) = 1 THEN kind' = "done" /\ UNCHANGED open
  ELSE LET outer == open[Len(open) - 1]
       IN  /\ kind' = "content"
           /\ open' = Front(Front(open)) \o <<[outer EXCEPT !.content = Append(@, <<"element", Top>>)]>>

EmptyTag == kind = "tag" /\ Write(<<"/", ">">>) /\ Finish

Close(name) ==
  /\ kind \in {"content", "between"} /\ open # <<>>
  /\ Write(<<"<", "/">> \o name \o <<">">>)
  /\ IF name = Top.type THEN Finish ELSE kind' = "wrong" /\ UNCHANGED open

Init == kind = "prolog" /\ text \in {<<>>, Header} /\ open = <<>>

Next == \/ \E name \in Names : StartTag(name) \/ Close(name)
        \/ \E gap \in Gaps : Gap(gap)
        \/ \E gap \in Gaps, name \in Names, value \in AttributeValues : Attribute(gap, name, value)
        \/ \E t \in Texts : Text(t)
        \/ CloseStart \/ EmptyTag

Spec == Init /\ [][Next]_vars

-----------------------------------------------------------------------------
RECURSIVE Plain(_)

\* An element without the places it was read from.
Plain(e) == [type |-> e.type, attributes |-> e.attributes,
             content |-> [n \in DOMAIN e.content |->
                            IF e.content[n][1] = "text" THEN e.content[n] ELSE <<"element", Plain(e.content[n][2])>>]]

\* The parser reads a document as it was meant, whatever space, line ends and comments are
\* between its parts, with the line and the column of every element; it reports the end of one
\* that is not complete, and the place of an end tag that does not fit; and what was read
\* survives being written and read again (Xml.cpp 76-435, 497-534).
XmlExact ==
  /\ Parse(text) = CASE kind = "done"  -> Reads(open[1], PositionOf(Len(text) + 1))
                     [] kind = "wrong" -> Fails(PositionOf(Len(text) - 1))
                     [] OTHER          -> Fails(PositionOf(Len(text) + 1))
  /\ kind = "done" => LET again == Parse(ElementToString(open[1]))
                      IN  again.ok /\ Plain(again.value) = Plain(open[1])
=============================================================================

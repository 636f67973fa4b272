------------------------------ MODULE Scanning ------------------------------
(***************************************************************************)
(* What the parsers of src/src/Document read a zero terminated string      *)
(* with. A string is a sequence of symbols.                                *)
(***************************************************************************)
EXTENDS Naturals, Sequences, FiniteSetsExt

At(s, i) == IF i <= Len(s) THEN s[i] ELSE "end"

\* String::findOneOf(): the first place from i on with one of the characters, 0 if there is none.
FindOneOf(s, i, chars) ==
  LET places == {j \in i .. Len(s) : s[j] \in chars}
  IN  IF places = {} THEN 0 ELSE Min(places)

\* HashMap::append(): the value of a key that is there is replaced where it is.
AppendKey(map, key, value) ==
  IF \E n \in DOMAIN map : map[n][1] = key
  THEN [n \in DOMAIN map |-> IF map[n][1] = key THEN <<key, value>> ELSE map[n]]
  ELSE Append(map, <<key, value>>)
=============================================================================

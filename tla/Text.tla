-------------------------------- MODULE Text --------------------------------
(***************************************************************************)
(* The pure functions on text, on every small input: paths (File.cpp),     *)
(* tokens and Base64 (String.cpp), command lines (Process.cpp) and UTF-8   *)
(* (Unicode.hpp). Input is typed, one symbol after the other.              *)
(*                                                                         *)
(* Characters: "/" is a slash, a backslash in a path or a separator, "q" a *)
(* quote, "a" any other character; a path has no drive letter. Bytes are   *)
(* numbers.                                                                *)
(***************************************************************************)
EXTENDS Scanning, SequencesExt, Bitwise

CONSTANTS MaxPath, MaxLine, MaxBytes  \* bounds: the length of a path, a command line and a byte sequence

VARIABLES kind, text

vars == <<kind, text>>

\* The first place from i on, and the last one, where the test holds; the place after the text,
\* and 0, if there is none.
FirstAt(s, i, test(_)) == Min({j \in i .. Len(s) : test(s[j])} \cup {Max({i, Len(s) + 1})})
LastAt(s, test(_)) == Max({0} \cup {j \in 1 .. Len(s) : test(s[j])})
From(s, i) == SubSeq(s, i, Len(s))

-----------------------------------------------------------------------------
(* File: paths.                                                            *)

Slash(c) == c = "/"
Name(c) == c # "/"
DotDot == <<".", ".">>

\* Mutant: what a ".." takes away may be a "..".
WithChunkAll(s, result, chunk) ==
  IF chunk = DotDot /\ result # <<>> THEN SubSeq(result, 1, LastAt(result, Slash) - 1)
  ELSE IF chunk = <<".">> THEN result
  ELSE (IF result # <<>> \/ s[1] = "/" THEN Append(result, "/") ELSE result) \o chunk

\* A chunk of the path s goes to the result, takes the last one of the result away, or does
\* nothing.
WithChunk(s, result, chunk) ==
  LET pos == LastAt(result, Slash)
  IN  IF chunk = DotDot /\ result # <<>> /\ From(result, pos + 1) # DotDot THEN SubSeq(result, 1, pos - 1)
      ELSE IF chunk = <<".">> THEN result
      ELSE (IF result # <<>> \/ s[1] = "/" THEN Append(result, "/") ELSE result) \o chunk

RECURSIVE Simplify(_, _, _)

\* The loop of simplifyPath(), from place i on.
Simplify(s, i, result) ==
  LET start == FirstAt(s, i, Name)
      end == FirstAt(s, start, Slash)
      next == WithChunk(s, result, SubSeq(s, start, end - 1))
  IN  IF start > Len(s) THEN result
      ELSE IF end > Len(s) THEN next
      ELSE Simplify(s, end + 1, next)

simplifyPath(s) == Simplify(s, 1, <<>>)
isAbsolutePath(s) == At(s, 1) = "/"

RECURSIVE Climb(_, _, _)

\* The loop of getRelativePath(): from gets shorter by a name until it is the beginning of to.
Climb(from, to, result) ==
  LET dir == SubSeq(from, 1, LastAt(Front(from), Slash))
  IN  IF dir = <<>> THEN <<>>
      ELSE IF IsPrefix(dir, to) THEN result \o From(to, Len(dir) + 1)
      ELSE Climb(dir, to, result \o <<".", ".", "/">>)

\* getRelativePath(), of simplified paths.
Relative(from, to) ==
  LET dir == Append(from, "/")
  IN  IF from = to THEN <<".">>
      ELSE IF IsPrefix(dir, to) THEN From(to, Len(dir) + 1)
      ELSE Climb(dir, to, <<".", ".", "/">>)

getRelativePath(from, to) == Relative(simplifyPath(from), simplifyPath(to))

getDirectoryName(s) == LET pos == LastAt(s, Slash) IN IF pos = 0 THEN <<".">> ELSE SubSeq(s, 1, pos - 1)

\* The name after the last slash, without the extension, which may begin with its dot.
getBaseName(s, extension) ==
  LET name == From(s, LastAt(s, Slash) + 1)
      suffix == IF At(extension, 1) = "." THEN extension ELSE <<".">> \o extension
  IN  IF extension # <<>> /\ IsSuffix(suffix, name) THEN SubSeq(name, 1, Len(name) - Len(suffix)) ELSE name

\* The stem ends at the first dot of the name, the extension starts after the last one.
Dot(c) == c = "."
getStem(s, extension) ==
  LET name == getBaseName(s, extension)
  IN  IF extension # <<>> THEN name ELSE SubSeq(name, 1, FirstAt(name, 1, Dot) - 1)
getExtension(s) == LET name == getBaseName(s, <<>>)
                   IN  IF LastAt(name, Dot) = 0 THEN <<>> ELSE From(name, LastAt(name, Dot) + 1)

-----------------------------------------------------------------------------
(* String: tokens.                                                         *)

RECURSIVE Split(_, _, _)

\* split(), into a list.
Split(s, p, skipEmpty) ==
  LET end == FirstAt(s, p, Slash)
      token == IF p < end THEN <<SubSeq(s, p, end - 1)>> ELSE IF skipEmpty THEN <<>> ELSE <<<<>>>>
  IN  IF end > Len(s) THEN token ELSE token \o Split(s, end + 1, skipEmpty)

\* split(), into a HashSet, which takes a token once.
SplitSet(s, p, skipEmpty) ==
  FoldLeft(LAMBDA tokens, t : IF t \in ToSet(tokens) THEN tokens ELSE Append(tokens, t), <<>>, Split(s, p, skipEmpty))

\* token(): the token at a place, and the place to go on from.
token(s, start) == LET end == FirstAt(s, start, Slash)
                   IN  [value |-> SubSeq(s, start, end - 1), start |-> IF end > Len(s) THEN Len(s) + 1 ELSE end + 1]

join(tokens) == IF tokens = <<>> THEN <<>>
                ELSE FoldLeft(LAMBDA s, t : Append(s, "/") \o t, Head(tokens), Tail(tokens))

trim(s) == LET p == FirstAt(s, 1, Name)
               end == Max({p} \cup {j \in p .. Len(s) : s[j] # "/"})
           IN  SubSeq(s, p, IF p > Len(s) THEN 0 ELSE end)

\* Base64: a character is the six bits it stands for, or "=", or another one below 0x80, or one
\* from 0x80 on. Where char is signed the latter is negative, so that it is not above 'z', and its
\* place is behind the end of the table: beyond is what happens to lie there.
Padding == 64
Invalid == 255
High == 128

\* What is read for a character in base64de.
base64de(c, beyond) == IF c = High THEN beyond ELSE c

RECURSIVE Decode(_, _, _, _, _)

\* The loop of fromBase64(), from place i on; rest is out[j].
Decode(s, beyond, i, bytes, rest) ==
  LET c == base64de(s[i], beyond)
      more(done, left) == Decode(s, beyond, i + 1, done, left)
  IN  IF i > Len(s) \/ s[i] = Padding THEN bytes
      ELSE IF c = Invalid THEN <<>>
      ELSE CASE i % 4 = 1 -> more(bytes, (c * 4) % 256)
             [] i % 4 = 2 -> more(Append(bytes, rest + ((c \div 16) % 4)), (c % 16) * 16)
             [] i % 4 = 3 -> more(Append(bytes, rest + ((c \div 4) % 16)), (c % 4) * 64)
             [] i % 4 = 0 -> more(Append(bytes, rest | c), 0)

fromBase64(s, beyond) == IF Len(s) % 4 # 0 THEN <<>> ELSE Decode(s, beyond, 1, <<>>, 0)

-----------------------------------------------------------------------------
(* Process: command lines. A space is "/".                                 *)

RECURSIVE SplitCommandLine(_, _, _), Quoted(_, _, _)

\* Stands for the arguments that are never found because the loop does not end.
Never == <<"never">>

SplitCommandLine(s, p, arg) ==
  LET c == At(s, p)
  IN  CASE c = "end" -> IF arg = <<>> THEN <<>> ELSE <<arg>>
        [] c = "q"   -> Quoted(s, p + 1, arg)
        [] c = "/"   -> <<arg>> \o SplitCommandLine(s, p + 1, <<>>)
        [] OTHER     -> SplitCommandLine(s, p + 1, Append(arg, c))

\* Inside quotes. At a backslash that no quote follows the code never goes on.
Quoted(s, p, arg) ==
  LET c == At(s, p)
  IN  CASE c \in {"end", "q"} -> SplitCommandLine(s, p + 1, arg)
        [] c = "\\" -> IF At(s, p + 1) = "q" THEN Quoted(s, p + 2, Append(arg, "q")) ELSE <<Never>>
        [] OTHER -> Quoted(s, p + 1, Append(arg, c))

-----------------------------------------------------------------------------
(* Unicode.                                                                *)

Tail6(ch, n) == ((ch \div (64 ^ n)) % 64) + 128

\* append(): the bytes of a character, none if it is out of range.
append(ch) == CASE ch < 128 -> <<ch>>
                [] ch \in 128 .. 2047 -> <<ch \div 64 + 192, Tail6(ch, 0)>>
                [] ch \in 2048 .. 65535 -> <<ch \div 4096 + 224, Tail6(ch, 1), Tail6(ch, 0)>>
                [] ch \in 65536 .. 1114111 -> <<ch \div 262144 + 240, Tail6(ch, 2), Tail6(ch, 1), Tail6(ch, 0)>>
                [] OTHER -> <<>>

\* length(): by the first byte.
length(b) == CASE b < 128 -> 1 [] b \in 192 .. 223 -> 2 [] b \in 224 .. 239 -> 3 [] b \in 240 .. 247 -> 4 [] OTHER -> 0

\* fromString(): the bytes added up, without masks, minus what the marks of the bytes add up to.
utf8Offsets == <<0, 12416, 925824, 63447168>>
fromString(s) ==
  LET n == length(s[1])
  IN  IF s = <<>> \/ Len(s) < n THEN 0
      ELSE IF n <= 1 THEN s[1]
      ELSE FoldLeft(LAMBDA sum, b : sum * 64 + b, 0, SubSeq(s, 1, n)) - utf8Offsets[n]

RECURSIVE isValid(_)

isValid(s) ==
  s = <<>> \/ LET n == length(s[1])
              IN  /\ n > 0 /\ n <= Len(s)
                  /\ \A i \in 2 .. n : s[i] \in 128 .. 191
                  /\ isValid(From(s, n + 1))

-----------------------------------------------------------------------------
CodePoints == {0, 65, 127, 128, 255, 2047, 2048, 8364, 55296, 65535, 65536, 128512, 1114111}

Init == kind \in {"path", "line", "bytes", "char"} /\ text = <<>>

Type(k, max, symbols) == /\ kind = k /\ Len(text) < max
                         /\ \E c \in symbols : text' = Append(text, c)
                         /\ UNCHANGED kind

Next == \/ Type("path", MaxPath, {"/", ".", "a"})
        \/ Type("line", MaxLine, {"/", "q", "\\", "a", "next"})
        \/ Type("bytes", MaxBytes, {0, 65, 128, 191, 195, 226, 240, 255})
        \/ Type("char", 1, CodePoints)

Spec == Init /\ [][Next]_vars

-----------------------------------------------------------------------------
(* What the functions are to compute.                                      *)

\* Where the names of a path lead to from a directory, which is the sequence of the names on the
\* way there from the root; a slash at the beginning does not matter.
Walk(dir, s) ==
  LET step(d, name) == IF name = DotDot THEN (IF d = <<>> THEN d ELSE Front(d))
                       ELSE IF name \in {<<>>, <<".">>} THEN d ELSE Append(d, name)
      slashes == SelectSeq([i \in 1 .. Len(s) |-> i], LAMBDA i : s[i] = "/") \o <<Len(s) + 1>>
      nth(n) == SubSeq(s, IF n = 1 THEN 1 ELSE slashes[n - 1] + 1, slashes[n] - 1)
  IN  FoldLeft(step, dir, [n \in DOMAIN slashes |-> nth(n)])

\* A directory that is deep enough, of names that no path has.
Deep == [n \in 1 .. MaxPath |-> [k \in 1 .. n |-> "d"]]
Small == UNION {[1 .. n -> {"/", ".", "a"}] : n \in 1 .. 3}

\* simplifyPath() leads to the same place from the root and from any other directory, without a
\* detour, and what it returns it leaves as it is; it stays absolute unless it leads nowhere: of
\* "/" and of "/a/.." nothing is left, and that is relative (File.cpp 461-521).
SimpleExact ==
  LET simple == simplifyPath(text)
      chunks == Split(simple, 1, TRUE)
  IN  /\ \A dir \in {<<>>, Deep} : Walk(dir, simple) = Walk(dir, text)
      /\ isAbsolutePath(simple) <=> isAbsolutePath(text) /\ Walk(Deep, text) # Deep
      /\ \A n \in DOMAIN chunks : /\ chunks[n] # <<".">>
                                  /\ chunks[n] = DotDot => \A m \in 1 .. n : chunks[m] = DotDot
      /\ simplifyPath(simple) = simple

\* getRelativePath() leads from one path to the other, if both are absolute or both are not, and
\* no ".." of from is behind the directory they share. It finds the way if the other path begins
\* with from or with a directory of from that is written down in it, the root included, and is
\* empty otherwise: so between "a" and "b", where "../b" is a way (File.cpp 523-548).
RelativeExact ==
  \A to \in Small :
    LET from == Append(simplifyPath(text), "/")
        target == simplifyPath(to)
        shared == {n \in 1 .. Len(from) : from[n] = "/" /\ IsPrefix(SubSeq(from, 1, n), target)}
        rel == getRelativePath(text, to)
        root == IF isAbsolutePath(text) THEN <<>> ELSE Deep
    IN  /\ rel = <<>> <=> shared = {} /\ from # Append(target, "/")
        /\ /\ rel # <<>> /\ isAbsolutePath(text) = isAbsolutePath(to)
           /\ DotDot \notin ToSet(Split(From(from, Max(shared \cup {0}) + 1), 1, TRUE)) \/ from = Append(target, "/")
           => Walk(Walk(root, text), rel) = Walk(root, to)

\* The directory and the name of a file make up its path, its stem and its extension make up the
\* name (File.cpp 375-459).
NamesExact ==
  LET extension == getExtension(text)
      stem == getStem(text, extension)
  IN  /\ "/" \in ToSet(text) => getDirectoryName(text) \o <<"/">> \o getBaseName(text, <<>>) = text
      /\ extension # <<>> => /\ stem \o <<".">> \o extension = getBaseName(text, <<>>)
                             /\ stem = getBaseName(text, <<".">> \o extension)
                             /\ IsPrefix(getStem(text, <<>>), stem)

\* The tokens of a text, joined, are the text; those that are not empty are the same in the same
\* order when the empty ones are skipped, and token() finds them too; trim() takes away nothing
\* but separators, and all of them at both ends (String.cpp 237-374).
TokensExact ==
  LET tokens == Split(text, 1, FALSE)
      trimmed == trim(text)
  IN  /\ join(tokens) = text
      /\ \A n \in DOMAIN tokens : "/" \notin ToSet(tokens[n])
      /\ ToSet(SplitSet(text, 1, FALSE)) = ToSet(tokens)
      /\ Split(text, 1, TRUE) = SelectSeq(tokens, LAMBDA t : t # <<>>)
      /\ \A n \in DOMAIN tokens :
           LET start == Len(join(SubSeq(tokens, 1, n - 1))) + (IF n = 1 THEN 1 ELSE 2)
           IN  token(text, start).value = tokens[n]
      /\ \E i \in 0 .. Len(text) : \E j \in i .. Len(text) :
           /\ SubSeq(text, i + 1, j) = trimmed
           /\ \A k \in (1 .. i) \cup (j + 1 .. Len(text)) : text[k] = "/"
      /\ trimmed # <<>> => Head(trimmed) # "/" /\ Last(trimmed) # "/"

\* The quotes of a line that delimit: inside two of them a backslash makes the next one a character.
Quotes(s) ==
  FoldLeft(LAMBDA quotes, i : IF s[i] = "q" /\ ~(Cardinality(quotes) % 2 = 1 /\ s[i - 1] = "\\")
                              THEN quotes \cup {i} ELSE quotes,
           {}, [i \in 1 .. Len(s) |-> i])

\* A line is cut at its spaces outside of quotes, without the quotes and the backslashes that make
\* one a character, and an empty argument at the end is dropped; a backslash outside of quotes is
\* a character like any other. The loop never ends if a backslash inside of quotes has another
\* character behind it. So arguments without a backslash that are quoted, their quotes escaped,
\* come back, an empty one at the end excepted (splitCommandLine, Process.cpp 88-126).
CommandLinesExact ==
  LET places == [i \in 1 .. Len(text) |-> i]
      inside(i) == Cardinality({q \in Quotes(text) : q < i}) % 2 = 1
      pieces(cut(_)) == LET cuts == SelectSeq(places, cut) \o <<Len(text) + 1>>
                        IN  [n \in DOMAIN cuts |->
                               SelectSeq(places, LAMBDA i : /\ i < cuts[n]
                                                            /\ n > 1 => i > cuts[n - 1])]
      symbols(piece) == [n \in DOMAIN piece |-> text[piece[n]]]
      said(piece) == SelectSeq(piece, LAMBDA i : i \notin Quotes(text) /\ ~(text[i] = "\\" /\ inside(i)))
      found == LET cut == pieces(LAMBDA i : text[i] = "/" /\ ~inside(i))
                   args == [n \in DOMAIN cut |-> symbols(said(cut[n]))]
               IN  IF Last(args) = <<>> THEN Front(args) ELSE args
      words == LET cut == pieces(LAMBDA i : text[i] = "next") IN [n \in DOMAIN cut |-> symbols(cut[n])]
      escaped(w) == FoldLeft(LAMBDA s, c : s \o (IF c = "q" THEN <<"\\", "q">> ELSE <<c>>), <<>>, w)
      line == join([n \in DOMAIN words |-> <<"q">> \o escaped(words[n]) \o <<"q">>])
      read == SplitCommandLine(text, 1, <<>>)
  IN  /\ IF \E i \in DOMAIN text : text[i] = "\\" /\ inside(i) /\ At(text, i + 1) # "q"
         THEN Never \in ToSet(read)
         ELSE read = found
      /\ Last(words) # <<>> /\ "\\" \notin ToSet(text) => SplitCommandLine(line, 1, <<>>) = words

Bit(s, k) == IF k \div 8 < Len(s) THEN (s[(k \div 8) + 1] \div (2 ^ (7 - (k % 8)))) % 2 ELSE 0
Base64(s) == [n \in 1 .. 4 * ((Len(s) + 2) \div 3) |->
                IF 6 * (n - 1) < 8 * Len(s)
                THEN FoldLeft(LAMBDA c, b : 2 * c + Bit(s, 6 * (n - 1) + b), 0, <<0, 1, 2, 3, 4, 5>>)
                ELSE Padding]

\* Base64 is decoded as it was encoded; with one character changed to another one below 0x80 that
\* is no Base64 it is not decoded at all. One from 0x80 on is rejected only if what lies behind the
\* table happens to be 255, otherwise it is taken for that (String.cpp 391-486). isValid() tells
\* the sequences of whole characters (Unicode.hpp 122-152).
BytesExact ==
  /\ LET b == Base64(text)
         changed(n, c, beyond) == fromBase64([b EXCEPT ![n] = c], beyond)
         far(n) == DOMAIN text \ {(6 * (n - 1)) \div 8 + 1, (6 * n - 1) \div 8 + 1}
     IN  /\ fromBase64(b, 0) = text
         /\ \A n \in DOMAIN b :
              b[n] # Padding =>
                /\ changed(n, Invalid, 0) = <<>>
                /\ changed(n, High, 255) = <<>>
                /\ \A v \in {0, 63} : changed(n, High, v) = changed(n, v, 0)
                /\ LET read == changed(n, High, 128)
                   IN  Len(read) = Len(text) /\ \A k \in far(n) : read[k] = text[k]
  /\ isValid(text) <=>
       \E starts \in SUBSET DOMAIN text :
         LET ends == {j + length(text[j]) : j \in starts}
         IN  /\ ends \cup {1} = starts \cup {Len(text) + 1}
             /\ \A j \in starts : length(text[j]) > 0
             /\ \A i \in DOMAIN text \ starts : text[i] \in 128 .. 191

\* What append() writes is valid and read again as the same character, whatever follows
\* (Unicode.hpp 27-118).
CharsExact ==
  \A ch \in ToSet(text) : /\ isValid(append(ch)) /\ length(append(ch)[1]) = Len(append(ch))
                          /\ fromString(append(ch) \o <<255>>) = ch

TextExact == CASE kind = "path"  -> SimpleExact /\ RelativeExact /\ NamesExact /\ TokensExact
               [] kind = "line"  -> CommandLinesExact
               [] kind = "bytes" -> BytesExact
               [] kind = "char"  -> CharsExact
=============================================================================

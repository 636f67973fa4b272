------------------------------- MODULE Prompt -------------------------------
(***************************************************************************)
(* Console::Prompt of src/src/Console.cpp on POSIX: a line is edited at    *)
(* the bottom of the terminal, over several rows if need be, while output  *)
(* of the program, which comes through a pipe, is put above it.            *)
(*                                                                         *)
(* The terminal only understands characters, "\r", "\n" and relative moves *)
(* of the cursor; where the cursor is follows from what was written before *)
(* and from the width that the program believes the terminal has.          *)
(*                                                                         *)
(* A key is one action: the bytes of a key, UTF-8 and the escape sequences *)
(* are decoded. The terminal is high enough: it does not scroll, which the *)
(* relative moves would not notice.                                        *)
(***************************************************************************)
EXTENDS Integers, SequencesExt

CONSTANTS Chars,        \* the characters that are typed
          prompt,       \* the text before the line
          Widths,       \* the widths of the terminal, all above 1
          MaxInput,     \* bounds: the length of a line,
          MaxHistory,   \* the lines of the history,
          MaxOutput     \* what the program prints, in characters and line ends

Height == MaxOutput + 1 + Len(prompt) + MaxInput + 1

VARIABLES term,          \* external: width, cells, and the row and the column of the cursor
          pipe,          \* external: what the program printed and the pipe still holds
          resizeEvent,   \* resizeEventFd is readable
          editing,       \* getLine() is in its loop
          stdoutScreenWidth, stdoutCursorX,
          input, caretPos,
          history, historyPos, historyRemoveLast,
          printed,       \* history: what of the output was written to the terminal
          entered,       \* history: how many lines that are not empty getLine() returned
          draft,         \* history: the line that was left to go back in the history
          garbled        \* history: the terminal was written to while it was narrower than believed

lineVars == <<input, caretPos>>
historyVars == <<history, historyPos, historyRemoveLast, entered, draft>>
screenVars == <<term, stdoutCursorX, printed, garbled>>
widthVars == <<resizeEvent, stdoutScreenWidth>>
vars == <<screenVars, widthVars, pipe, editing, lineVars, historyVars>>

-----------------------------------------------------------------------------
(* The terminal. "\x1b[?7l" keeps a character at the last column from      *)
(* moving the cursor to the next row.                                      *)

Put(c) == <<"put", c>>
CR == <<"column", 0>>
LF == <<"down", 1>>

Do(t, cmd) ==
  LET column(c) == IF c < 0 THEN 0 ELSE IF c >= t.width THEN t.width - 1 ELSE c
  IN  CASE cmd[1] = "put"    -> [t EXCEPT !.cells[t.row, t.col] = cmd[2], !.col = column(@ + 1)]
        [] cmd[1] = "column" -> [t EXCEPT !.col = cmd[2]]
        [] cmd[1] = "right"  -> [t EXCEPT !.col = column(@ + cmd[2])]
        [] cmd[1] = "down"   -> [t EXCEPT !.row = @ + cmd[2]]

Written(t, cmds) == FoldLeft(Do, t, cmds)
Show(t) == term' = t /\ garbled' = (garbled \/ term.width < stdoutScreenWidth)

\* What does not fit any more is lost, what is new is blank.
Resized(w) == [term EXCEPT !.width = w, !.col = IF @ < w THEN @ ELSE w - 1,
                           !.cells = [p \in DOMAIN @ |-> IF p[2] < w THEN @[p] ELSE " "]]

-----------------------------------------------------------------------------
(* What is written, for a line, a caret and a width.                       *)

Repeat(c, n) == [i \in 1 .. n |-> c]

moveCursorPosition(width, from, x) ==
  <<<<"down", ((from + x) \div width) - (from \div width)>>,
    <<"right", ((from + x) % width) - (from % width)>>>>

\* Mutant: a row that is full is not ended.
promptWriteUnwrapped(width, line, caret, offset, clearStr) ==
  LET buffer == prompt \o line \o clearStr
  IN  [i \in 1 .. Len(buffer) - offset |-> Put(buffer[offset + i])]
      \o moveCursorPosition(width, Len(buffer), caret - Len(line \o clearStr))

\* promptWrite(): what comes after the offset, a row that is full ended by "\r\n", and back to
\* the caret.
promptWrite(width, line, caret, offset, clearStr) ==
  LET buffer == prompt \o line \o clearStr
      cell(i) == IF i % width = 0 THEN <<Put(buffer[i]), CR, LF>> ELSE <<Put(buffer[i])>>
  IN  FlattenSeq([i \in 1 .. Len(buffer) - offset |-> cell(offset + i)])
      \o moveCursorPosition(width, Len(buffer), caret - Len(line \o clearStr))

\* promptClear(): blanks over the line, and back to its beginning.
promptClear(width, line, caret) ==
  LET bufferLen == Len(prompt) + Len(line)
      additionalLines == bufferLen \div width
  IN  IF additionalLines > 0
      THEN moveCursorPosition(width, Len(prompt) + caret, 0 - (Len(prompt) + caret))
           \o FlattenSeq(Repeat(Repeat(Put(" "), width) \o <<LF, CR>>, additionalLines))
           \o Repeat(Put(" "), bufferLen % width)
           \o moveCursorPosition(width, bufferLen, 0 - bufferLen)
      ELSE <<CR>> \o Repeat(Put(" "), bufferLen) \o <<CR>>

\* saveCursorPosition() and restoreCursorPosition(), for the column of the cursor.
saveCursorPosition(x) == IF x > 0 THEN <<CR, LF>> ELSE <<>>
restoreCursorPosition(x) == IF x > 0 THEN <<<<"down", 0 - 1>>, CR, <<"right", x>>>> ELSE <<>>

\* Output, as the terminal gets it: "\n" is made "\r\n".
Output(o) == FlattenSeq([i \in DOMAIN o |-> IF o[i] = "\n" THEN <<CR, LF>> ELSE <<Put(o[i])>>])
Column(o) == Len(o) - SelectLastInSeq(o, LAMBDA c : c = "\n")

-----------------------------------------------------------------------------
Init == /\ term \in {[width |-> w, row |-> 0, col |-> 0,
                      cells |-> [p \in (0 .. Height) \X (0 .. Max(Widths) - 1) |-> " "]] : w \in Widths}
        /\ stdoutScreenWidth = term.width /\ stdoutCursorX = 0
        /\ pipe = <<>> /\ printed = <<>> /\ resizeEvent = FALSE
        /\ editing = FALSE /\ input = <<>> /\ caretPos = 0
        /\ history = <<>> /\ historyPos = 1 /\ historyRemoveLast = FALSE
        /\ entered = 0 /\ draft = <<>> /\ garbled = FALSE

\* The program prints a character or a line end, in getLine() by another thread. A row is not
\* filled to its end: bound.
printf(c) ==
  /\ Len(printed \o pipe) < MaxOutput
  /\ c # "\n" => Column(printed \o pipe) + 2 <= Min(Widths)
  /\ pipe' = Append(pipe, c)
  /\ UNCHANGED <<screenVars, widthVars, editing, lineVars, historyVars>>

\* getLine() up to its loop: redirectPendingData(), saveCursorPosition(), the prompt.
getLine ==
  /\ ~editing /\ Len(history) < MaxHistory
  /\ LET t == Written(term, Output(pipe))
     IN  /\ stdoutCursorX' = t.col
         /\ Show(Written(t, saveCursorPosition(t.col) \o promptWrite(stdoutScreenWidth, <<>>, 0, 0, <<>>)))
  /\ printed' = printed \o pipe /\ pipe' = <<>>
  /\ editing' = TRUE /\ input' = <<>> /\ caretPos' = 0
  /\ historyPos' = Len(history) + 1 /\ historyRemoveLast' = FALSE
  /\ UNCHANGED <<widthVars, history, entered, draft>>

\* "\r", and what getLine() does after its loop.
enter ==
  /\ editing /\ editing' = FALSE
  /\ Show(Written(term, promptClear(stdoutScreenWidth, input, caretPos) \o restoreCursorPosition(stdoutCursorX)))
  /\ history' = (IF historyRemoveLast THEN Front(history) ELSE history)
                \o (IF input = <<>> THEN <<>> ELSE <<input>>)
  /\ entered' = IF input = <<>> THEN entered ELSE entered + 1
  /\ draft' = <<>> /\ input' = <<>> /\ caretPos' = 0
  /\ historyPos' = 1 /\ historyRemoveLast' = FALSE     \* not used until the next getLine()
  /\ UNCHANGED <<stdoutCursorX, printed, widthVars, pipe>>

\* A key that changes the line.
Edit(newInput, newCaretPos, cmds) ==
  /\ editing
  /\ input' = newInput /\ caretPos' = newCaretPos /\ Show(Written(term, cmds))
  /\ UNCHANGED <<stdoutCursorX, printed, widthVars, pipe, editing>>

Back(n) == moveCursorPosition(stdoutScreenWidth, Len(prompt) + caretPos, 0 - n)

promptInsert(c) ==
  /\ Len(input) < MaxInput
  /\ LET line == InsertAt(input, caretPos + 1, c)
     IN  Edit(line, caretPos + 1,
              promptWrite(stdoutScreenWidth, line, caretPos + 1, Len(prompt) + caretPos, <<>>))
  /\ UNCHANGED historyVars

promptRemove ==
  /\ caretPos > 0
  /\ LET line == RemoveAt(input, caretPos)
     IN  Edit(line, caretPos - 1,
              Back(1) \o promptWrite(stdoutScreenWidth, line, caretPos - 1, Len(prompt) + caretPos - 1, <<" ">>))
  /\ UNCHANGED historyVars

promptRemoveNext ==
  /\ caretPos < Len(input)
  /\ LET line == RemoveAt(input, caretPos + 1)
     IN  Edit(line, caretPos, promptWrite(stdoutScreenWidth, line, caretPos, Len(prompt) + caretPos, <<" ">>))
  /\ UNCHANGED historyVars

promptMoveLeft == caretPos > 0 /\ Edit(input, caretPos - 1, Back(1)) /\ UNCHANGED historyVars
promptMoveRight == caretPos < Len(input) /\ Edit(input, caretPos + 1, Back(0 - 1)) /\ UNCHANGED historyVars
promptMoveHome == caretPos > 0 /\ Edit(input, 0, Back(caretPos)) /\ UNCHANGED historyVars
promptMoveEnd == /\ caretPos < Len(input)
                 /\ Edit(input, Len(input), Back(caretPos - Len(input))) /\ UNCHANGED historyVars

\* The line is replaced by one of the history.
Replace(line) ==
  Edit(line, Len(line), promptClear(stdoutScreenWidth, input, caretPos)
                        \o promptWrite(stdoutScreenWidth, line, Len(line), 0, <<>>))

promptHistoryUp ==
  /\ historyPos > 1 /\ historyPos' = historyPos - 1
  /\ IF historyPos = Len(history) + 1
     THEN history' = Append(history, input) /\ historyRemoveLast' = TRUE /\ draft' = input
     ELSE history' = [history EXCEPT ![historyPos] = input] /\ UNCHANGED <<historyRemoveLast, draft>>
  /\ Replace(history'[historyPos'])
  /\ UNCHANGED entered

\* Mutant: the line that is left is not put into the history.
promptHistoryDownForgets ==
  /\ historyPos <= Len(history) /\ historyPos' = historyPos + 1
  /\ Replace(history[historyPos + 1])
  /\ UNCHANGED <<history, historyRemoveLast, draft, entered>>

promptHistoryDown ==
  LET lines == [history EXCEPT ![historyPos] = input]
  IN  /\ historyPos <= Len(history) /\ historyPos' = historyPos + 1
      /\ Replace(lines[historyPos + 1])
      /\ IF historyPos + 1 = Len(history)
         THEN history' = Front(lines) /\ historyRemoveLast' = FALSE
         ELSE history' = lines /\ UNCHANGED historyRemoveLast
      /\ UNCHANGED <<draft, entered>>

\* Output is put where the last one ended, and the line below it.
handleOutput ==
  /\ editing /\ pipe # <<>>
  /\ LET t == Written(term, promptClear(stdoutScreenWidth, input, caretPos)
                            \o restoreCursorPosition(stdoutCursorX) \o Output(pipe))
     IN  /\ stdoutCursorX' = t.col
         /\ Show(Written(t, saveCursorPosition(t.col)
                            \o promptWrite(stdoutScreenWidth, input, caretPos, 0, <<>>)))
  /\ printed' = printed \o pipe /\ pipe' = <<>>
  /\ UNCHANGED <<widthVars, editing, lineVars, historyVars>>

\* The terminal gets another width, and handleWinch(), for SIGWINCH, makes the event readable.
\* One change at a time: bound.
Resize(w) == /\ term.width # w /\ ~resizeEvent
             /\ term' = Resized(w) /\ resizeEvent' = TRUE
             /\ UNCHANGED <<stdoutCursorX, printed, garbled, stdoutScreenWidth, pipe, editing, lineVars, historyVars>>

handleResize ==
  /\ editing /\ resizeEvent
  /\ resizeEvent' = FALSE /\ stdoutScreenWidth' = term.width
  /\ term' = Written(term, promptClear(stdoutScreenWidth, input, caretPos)
                           \o promptWrite(term.width, input, caretPos, 0, <<>>))
  /\ UNCHANGED <<stdoutCursorX, printed, garbled, pipe, editing, lineVars, historyVars>>

handleInput == \/ \E c \in Chars : promptInsert(c)
               \/ promptRemove \/ promptRemoveNext
               \/ promptMoveLeft \/ promptMoveRight \/ promptMoveHome \/ promptMoveEnd
               \/ promptHistoryUp \/ promptHistoryDown \/ enter

\* Nothing is said about a screen that is garbled: what comes after it is left out.
Next == /\ ~garbled
        /\ \/ getLine \/ handleInput \/ handleOutput \/ handleResize
           \/ \E c \in {"x", "\n"} : printf(c)
           \/ \E w \in Widths : Resize(w)

Spec == Init /\ [][Next]_vars

-----------------------------------------------------------------------------
\* What is to be on the screen: the rows of the output, and from the next row on the line.
LineEnds(o) == Len(SelectSeq(o, LAMBDA c : c = "\n"))
FirstRow == LineEnds(printed) + (IF Column(printed) > 0 THEN 1 ELSE 0)
Shown(row, col) ==
  LET n == (row - FirstRow) * term.width + col + 1
  IN  IF \E i \in DOMAIN printed : /\ printed[i] # "\n"
                                   /\ LineEnds(SubSeq(printed, 1, i)) = row
                                   /\ Column(SubSeq(printed, 1, i)) = col + 1
      THEN "x"
      ELSE IF editing /\ row >= FirstRow /\ n <= Len(prompt \o input) THEN (prompt \o input)[n]
      ELSE " "

\* Whatever is typed, printed and resized, in whatever order, the terminal shows the output and
\* below it the prompt and the line, and nothing else, with the cursor at the caret; unless a
\* change of the width is still to be handled, or was handled after something else was written.
\* Going back and forth in the history keeps the line that was left, and leaves one line for
\* each that was entered
\* (Console.cpp 345-652, 673-812, 877-882, 928-1023).
PromptExact ==
  /\ ~garbled /\ ~(editing /\ resizeEvent) =>
       /\ \A row \in 0 .. Height : \A col \in 0 .. term.width - 1 : term.cells[row, col] = Shown(row, col)
       /\ IF editing
          THEN LET n == Len(prompt) + caretPos
               IN  term.row = FirstRow + (n \div term.width) /\ term.col = n % term.width
          ELSE term.row = LineEnds(printed) /\ term.col = Column(printed)
  /\ Len(history) = entered + (IF historyRemoveLast THEN 1 ELSE 0)
  /\ ~historyRemoveLast /\ editing => historyPos = Len(history) + 1
  /\ historyRemoveLast => historyPos < Len(history) /\ Last(history) = draft
=============================================================================

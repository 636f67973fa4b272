----------------------------- MODULE MCLibrary ------------------------------
(***************************************************************************)
(* The classes of the library that share nothing, for TLC: a behaviour is  *)
(* one of its subject, the variables of the others stay as they are. The   *)
(* definitions of Process and of SharedData are taken as they are, the     *)
(* others by a name.                                                       *)
(***************************************************************************)
EXTENDS Process, SharedData

CONSTANTS
  MapKeys, MultiKeys, Copies,                       \* Trees
  Keys, Values, BlockSize, MaxBlocks, Capacity,     \* Containers
  Bytes, MaxSize,                                   \* Arrays
  MaxTokens, MaxChars,                              \* Json
  MaxText,                                          \* Xml
  MaxPath, MaxLine, MaxBytes,                       \* Text
  blockSize, lengthSize, digestSize, Chunks, KeySizes, MaxMessage,    \* Sha256
  Chars, prompt, Widths, MaxInput, MaxHistory, MaxOutput              \* Prompt

VARIABLES
  subject,
  class, contents,                                  \* of several modules
  tree, multi,                                      \* Trees
  mem,                                              \* Containers
  box,                                              \* Arrays
  kind, text,                                       \* Json, Xml and Text
  open,                                             \* Xml
  hash, message, digest,                            \* Sha256
  term, pipe, resizeEvent, editing, stdoutScreenWidth, stdoutCursorX, input, caretPos, history,
  historyPos, historyRemoveLast, printed, entered, draft, garbled     \* Prompt

T == INSTANCE Trees WITH Keys <- MapKeys
C == INSTANCE Containers
A == INSTANCE Arrays
J == INSTANCE Json
X == INSTANCE Xml
S == INSTANCE Text
H == INSTANCE Sha256
L == INSTANCE Prompt

treeVars == <<tree, multi>>
textVars == <<kind, text, open>>
memoryVars == <<class, contents, treeVars, mem, box>>
hashVars == <<hash, message, digest>>
promptVars == <<term, pipe, resizeEvent, editing, stdoutScreenWidth, stdoutCursorX, input, caretPos,
                history, historyPos, historyRemoveLast, printed, entered, draft, garbled>>
mcVars == <<subject, memoryVars, dataVars, textVars, hashVars, promptVars, vars>>

\* What is written before the line that is edited.
PromptText == <<">">>

Unused == "unused"

\* What the variables of the modules are that are not the subject.
NoTree == tree = Unused /\ multi = Unused
NoMemory == class = Unused /\ contents = Unused /\ NoTree /\ mem = Unused /\ box = Unused
NoText == kind = Unused /\ text = Unused /\ open = Unused
NoHash == hash = Unused /\ message = Unused /\ digest = Unused
NoPrompt == /\ term = Unused /\ pipe = Unused /\ resizeEvent = Unused /\ editing = Unused
            /\ stdoutScreenWidth = Unused /\ stdoutCursorX = Unused /\ input = Unused /\ caretPos = Unused
            /\ history = Unused /\ historyPos = Unused /\ historyRemoveLast = Unused
            /\ printed = Unused /\ entered = Unused /\ draft = Unused /\ garbled = Unused

MCInit ==
  /\ Init
  /\ DataInit
  /\ \/ /\ \/ subject = "trees" /\ T!Init /\ class = Unused /\ mem = Unused /\ box = Unused
           \/ subject = "containers" /\ C!Init /\ NoTree /\ box = Unused
           \/ subject = "arrays" /\ A!Init /\ NoTree /\ mem = Unused
        /\ NoText /\ NoHash /\ NoPrompt
     \/ /\ \/ subject = "json" /\ J!Init /\ open = Unused
           \/ subject = "xml" /\ X!Init
           \/ subject = "text" /\ S!Init /\ open = Unused
        /\ NoMemory /\ NoHash /\ NoPrompt
     \/ subject = "hash" /\ H!Init /\ NoMemory /\ NoText /\ NoPrompt
     \/ subject = "prompt" /\ L!Init /\ NoMemory /\ NoText /\ NoHash
     \/ subject \in {"data", "process"} /\ NoMemory /\ NoText /\ NoHash /\ NoPrompt
  /\ subject # "data" => counted = "Ptr"

MCNext ==
  /\ \/ /\ \/ subject = "trees" /\ T!Next /\ UNCHANGED <<class, mem, box>>
           \/ subject = "containers" /\ C!Next /\ UNCHANGED <<treeVars, box>>
           \/ subject = "arrays" /\ A!Next /\ UNCHANGED <<treeVars, mem>>
        /\ UNCHANGED <<dataVars, textVars, hashVars, promptVars, vars>>
     \/ /\ \/ subject = "json" /\ J!Next /\ UNCHANGED open
           \/ subject = "xml" /\ X!Next
           \/ subject = "text" /\ S!Next /\ UNCHANGED open
        /\ UNCHANGED <<memoryVars, dataVars, hashVars, promptVars, vars>>
     \/ subject = "hash" /\ H!Next /\ UNCHANGED <<memoryVars, dataVars, textVars, promptVars, vars>>
     \/ subject = "prompt" /\ L!Next /\ UNCHANGED <<memoryVars, dataVars, textVars, hashVars, vars>>
     \/ subject = "data" /\ DataNext /\ UNCHANGED <<memoryVars, textVars, hashVars, promptVars, vars>>
     \/ subject = "process" /\ Next /\ UNCHANGED <<memoryVars, dataVars, textVars, hashVars, promptVars>>
  /\ UNCHANGED subject

MCSpec == MCInit /\ [][MCNext]_mcVars

-----------------------------------------------------------------------------
\* After any sequence of insertions, hinted insertions and removals a Map and a MultiMap are
\* balanced trees with exact heights and slopes, and iterating visits what was inserted and not
\* removed, in order (Map.hpp 195-346, 389-469; Trees.tla).
TreeExact == subject = "trees" => T!TreeWellFormed /\ T!TreeContents

\* After any sequence of operations on two lists, hash maps, hash sets or pools, swap() included,
\* iterating either way visits what was put in and not taken out, find() finds it, and every
\* item of a block is an element or free, once (List.hpp 140-214, HashMap.hpp 94-256,
\* PoolMap.hpp 143-222; Containers.tla).
ContainersExact == subject = "containers" => C!ContainersExact /\ C!PoolExact

\* An Array and a Buffer hold what was put into them, inside the block they own, whatever is
\* moved between blocks and inside a block; memory that a Buffer is attached to stays as it was,
\* but for the zero that removeBack() puts behind what is left (Array.hpp 97-257, Buffer.hpp
\* 41-241; Arrays.tla).
MemoryExact == subject = "arrays" => A!MemoryExact

\* The Json parser accepts exactly the grammar, a string in it is read by its escapes, and an Xml
\* document is read as it was meant, whatever is between its parts, or the place of the error is
\* reported; what was read survives being written and read again. stripComments() leaves a document
\* without its comments, if the only escape in its strings is that of a quote, and always all line
\* ends. A simplified path leads to the same place; a relative one leads from one path to the other
\* where it is not empty and goes up from no ".."; tokens, quoted arguments, Base64 and UTF-8 come
\* back as they were, and what a command line means is told by its delimiting quotes. A message is
\* cut into the blocks that SHA-256 asks for. What the code does elsewhere - with a path that leads
\* nowhere, other escapes, bytes from 0x80 on in Base64, a backslash inside of quotes - is stated
\* as it is at the conjuncts (Json.cpp 73-181, 295-581; Xml.cpp 76-435, 497-534; File.cpp 375-548;
\* String.cpp 237-486; Process.cpp 88-126; Unicode.hpp 27-152; Sha256.cpp 170-230; Json.tla,
\* Xml.tla, Text.tla, Sha256.tla).
ConversionsExact == /\ subject = "json" => J!JsonExact /\ J!JsonStrings /\ J!JsonLines
                    /\ subject = "xml" => X!XmlExact
                    /\ subject = "text" => S!TextExact
                    /\ subject = "hash" => H!DigestExact

\* Whatever is typed, printed and resized, the terminal shows the output, the prompt and the line,
\* and going through the history keeps the line that was left (Console.cpp 345-652, 673-812,
\* 877-1023; Prompt.tla).
PromptExact == subject = "prompt" => L!PromptExact
=============================================================================

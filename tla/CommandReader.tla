---------------------------- MODULE CommandReader -----------------------------
(***************************************************************************)
(* command_process: it reads a script, or what the terminal has to offer,   *)
(* piece by piece into a buffer of MAX_LINE_SIZE characters, executes every *)
(* line it finds and moves an unfinished one to the front of the buffer.    *)
(*                                                                          *)
(* A text is a sequence of characters: "n" ends a line, a line with a "b"   *)
(* in it is a command that fails, "c" is any other character.               *)
(*                                                                          *)
(* A read may fail (a directory given as a script, a signal, a terminal     *)
(* that is gone); the -1 it returns is added to eod like any other number.  *)
(***************************************************************************)
EXTENDS Integers, FiniteSets, Sequences, SequencesExt

CONSTANTS
  Texts,        \* what there may be to read
  MaxLine,      \* MAX_LINE_SIZE
  Stdins,       \* what stdin may be
  Pipes,        \* what piped may be
  Failing       \* whether a read may fail

Chars == {"c", "b", "n"}

ASSUME ReaderAssumption ==
  /\ Texts \subseteq Seq(Chars)
  /\ MaxLine \in Nat \ {0}
  /\ Stdins \subseteq BOOLEAN /\ Pipes \subseteq BOOLEAN /\ Failing \in BOOLEAN

VARIABLES
  stdin,      \* whether fd is STDIN_FILENO, else it is a script
  piped,      \* whether that is no terminal, where a read gives one line, but a pipe
  text,       \* all there was to read
  unread,     \* what read has not returned yet
  line,       \* the buffer up to eod
  head,       \* where the next line starts in it
  seek,       \* how far it has been searched
  pc,         \* "call", "read", "scan" or "back", the place in command_process, or "wild":
              \* it has left its buffer
  ran,        \* history: the lines executed
  failed      \* history: a read has failed

input == <<stdin, piped, text>>
vars == <<input, unread, line, head, seek, pc, ran, failed>>

TypeOK ==
  /\ stdin \in Stdins /\ piped \in Pipes /\ text \in Texts
  /\ failed \in BOOLEAN
  /\ unread \in Seq(Chars) /\ line \in Seq(Chars) /\ Len(line) <= MaxLine
  /\ head \in 1..(Len(line) + 1) /\ seek \in 1..(Len(line) + 2)
  /\ seek = Len(line) + 2 => failed
  /\ pc \in {"call", "read", "scan", "back"} \/ (failed /\ pc = "wild")
  /\ ran \in Seq(Seq(Chars))

Init ==
  /\ stdin \in Stdins /\ piped \in Pipes /\ (piped => stdin)
  /\ text \in Texts /\ unread = text
  /\ line = << >> /\ head = 1 /\ seek = 1
  /\ pc = "call"
  /\ ran = << >> /\ failed = FALSE

Ends(s) == {k \in 1..Len(s) : s[k] = "n"}
Fails(s) == "b" \in ToSet(s)

\* How many characters the next read may return.  A terminal gives one line at a
\* time, a file what there is, a pipe whatever is in it.
Pieces ==
  LET room == MaxLine - Len(line)
      all  == IF Len(unread) < room THEN Len(unread) ELSE room
      upto == {k \in Ends(unread) : \A j \in Ends(unread) : k <= j}
  IN  IF unread = << >> THEN {0}
      ELSE IF stdin /\ ~ piped
             THEN {IF \E k \in upto : k <= room THEN CHOOSE k \in upto : TRUE ELSE all}
      ELSE 1..all

\* Variant: the buffer outlives the call.
CallAgain ==
  /\ pc = "call"
  /\ head' = 1 /\ seek' = 1
  /\ pc' = "read"
  /\ UNCHANGED <<input, unread, line, ran, failed>>

\* main calls it once for a script, input_process whenever there is something to read
\* from STDIN_FILENO.
Call ==
  /\ pc = "call"
  /\ line' = << >> /\ head' = 1 /\ seek' = 1
  /\ pc' = "read"
  /\ UNCHANGED <<input, unread, ran, failed>>

\* while((eod += read(fd, &line[eod], MAX_LINE_SIZE - eod))): it ends at an eod of 0.
Read ==
  /\ pc = "read"
  /\ \E n \in Pieces :
       /\ line' = line \o SubSeq(unread, 1, n)
       /\ unread' = SubSeq(unread, n + 1, Len(unread))
  /\ head' = 1
  /\ pc' = IF line' = << >> THEN "back" ELSE "scan"
  /\ UNCHANGED <<input, seek, ran, failed>>

\* The same with a read that fails.  An empty buffer makes eod -1 and memmove is given
\* the size of all memory, to be moved to where it is: that ends the program, or it has
\* no effect.  Then command_process returns from STDIN_FILENO, and for a script reads on
\* in front of the buffer.  Else the last character is lost; seek is where it was.
ReadFails ==
  /\ Failing /\ pc = "read"
  /\ failed' = TRUE
  /\ head' = 1
  /\ IF line = << >>
       THEN /\ pc' = "wild" \/ (stdin /\ pc' = "back")
            /\ UNCHANGED line
       ELSE /\ line' = Front(line)
            /\ pc' = IF line' = << >> THEN "back" ELSE "scan"
  /\ UNCHANGED <<input, unread, seek, ran>>

NextEnd == {k \in Ends(line) : k >= seek /\ \A j \in Ends(line) : j >= seek => k <= j}

\* execute_cmd; after a command that went well it returns no value, and the build,
\* which does not optimise, leaves the 0 of cmd_exec in its place.  A command that fails
\* makes command_process return.
Execute ==
  /\ pc = "scan"
  /\ \E k \in NextEnd :
       LET command == SubSeq(line, head, k - 1) IN
       /\ ran' = Append(ran, command)
       /\ IF Fails(command)
            THEN pc' = "back" /\ UNCHANGED <<head, seek>>
            ELSE head' = k + 1 /\ seek' = k + 1 /\ UNCHANGED pc
  /\ UNCHANGED <<input, unread, line, failed>>

\* Variant: the last place of the buffer is not used.
TooLongEarly ==
  /\ pc = "scan" /\ NextEnd = {}
  /\ head = 1 /\ Len(line) >= MaxLine - 1
  /\ pc' = "back"
  /\ UNCHANGED <<input, unread, line, head, seek, ran, failed>>

\* The buffer is full and has no line in it.
TooLong ==
  /\ pc = "scan" /\ NextEnd = {}
  /\ head = 1 /\ Len(line) = MaxLine
  /\ pc' = "back"
  /\ UNCHANGED <<input, unread, line, head, seek, ran, failed>>

\* Variant: the search starts a character too late.
SoughtPast(rest) == Len(rest) + 2

\* memmove(line, head, eod - (head - line)); seek = eod.
Sought(rest) == Len(rest) + 1

\* Variant: what was executed stays in the buffer.
RestAll == line

Rest == SubSeq(line, head, Len(line))

Move ==
  /\ pc = "scan" /\ NextEnd = {}
  /\ ~ (head = 1 /\ Len(line) = MaxLine)
  /\ line' = Rest /\ seek' = Sought(Rest) /\ head' = 1
  /\ pc' = IF stdin THEN "back" ELSE "read"
  /\ UNCHANGED <<input, unread, ran, failed>>

\* STDIN_FILENO is polled again.
Again ==
  /\ pc = "back" /\ stdin /\ unread # << >>
  /\ pc' = "call"
  /\ UNCHANGED <<input, unread, line, head, seek, ran, failed>>

Next == Call \/ Read \/ ReadFails \/ Execute \/ TooLong \/ Move \/ Again
Spec == Init /\ [][Next]_vars /\ WF_vars(Next)

-----------------------------------------------------------------------------
(* What there was to execute.                                                 *)

\* l is line k of the text, without its end: the characters between two ends, the
\* second of which is the k-th of the text.
IsLine(k, l) ==
  \E e \in Ends(text) :
    /\ Cardinality({d \in Ends(text) : d <= e}) = k
    /\ e - Len(l) - 1 \in Ends(text) \cup {0}
    /\ l = SubSeq(text, e - Len(l), e - 1) /\ Ends(l) = {}

\* What has been executed is the text, line by line.
LineByLine == \A k \in 1..Len(ran) : IsLine(k, ran[k])
AllExecuted == LineByLine /\ Len(ran) = Cardinality(Ends(text))

\* Every line fits into the buffer, with its end; and the last line has one.
Fits(s) == \A k \in 1..(Len(s) + 1 - MaxLine) : \E j \in k..(k + MaxLine - 1) : s[j] = "n"
Finished(s) == s = << >> \/ Last(s) = "n"

\* Nothing is lost between two calls: on a terminal, when lines fit into the buffer.
Interactive == ~ piped /\ Fits(text)

-----------------------------------------------------------------------------
(* Properties *)

\* The commands executed are the lines of the text, from the first on, each once
\* and whole, wherever the reads cut it and however the buffer is moved, if none fails;
\* from a terminal as long as lines fit into the buffer.  (From a pipe they are not: what
\* a call has read and not executed goes with its buffer.)
Prefix == ~ failed /\ (stdin => Interactive) => LineByLine

\* When it comes back from a script, all lines have been executed or the last one
\* that was has failed, if no read has.
AllRun ==
  pc = "back" /\ ~ stdin /\ ~ failed /\ Fits(text) =>
    AllExecuted \/ (ran # << >> /\ Fails(Last(ran)))

\* On a terminal it takes nothing along with it: what has been read has been executed
\* when it returns.
TerminalRuns ==
  stdin /\ Interactive /\ ~ failed /\ pc = "back" /\ unread = << >> => AllExecuted

\* command_process comes back to the event loop, unless a read fails with nothing in the
\* buffer: then it has left the buffer, and nothing more can be said.
Returns == (pc = "call") ~> (pc = "back" \/ (failed /\ pc = "wild"))

=============================================================================

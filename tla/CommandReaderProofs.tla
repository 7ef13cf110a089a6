------------------------- MODULE CommandReaderProofs --------------------------
(***************************************************************************)
(* The commands executed are the lines of the text: proofs for every text,  *)
(* every size of the buffer and every way in which reads cut the text.      *)
(***************************************************************************)
EXTENDS CommandReader, ListLemmas, FiniteSetTheorems

-----------------------------------------------------------------------------
(* The inductive invariant                                                     *)

\* The characters that have been read and are no longer in the buffer, and those
\* that have been read.
Gone == Len(text) - Len(unread) - Len(line)
Taken == Len(text) - Len(unread)

\* The buffer holds the characters after those that are gone, unread the rest.
Contents ==
  /\ Len(unread) + Len(line) <= Len(text)
  /\ \A k \in 1..Len(line) : line[k] = text[Gone + k]
  /\ \A k \in 1..Len(unread) : unread[k] = text[Taken + k]

\* No end of a line has been passed over.
Searched ==
  /\ pc = "read" => head = 1 /\ seek = Len(line) + 1 /\ Ends(line) = {}
  /\ pc = "scan" => head <= seek /\ \A k \in Ends(line) : k >= head => k >= seek

\* The text is cut in front of character d + 1, and the lines before it, no others,
\* have been executed.
Cut(d) == d \in Ends(text) \cup {0}
EndsTo(d) == {e \in Ends(text) : e <= d}
CountTo(d) == Len(ran) = Cardinality(EndsTo(d))

\* A script: the one call goes from the first line to the last.
Script ==
  /\ pc = "call" => line = << >> /\ unread = text /\ head = 1
  /\ pc # "back" => Cut(Gone + head - 1) /\ CountTo(Gone + head - 1)
  /\ pc = "back" /\ Fits(text) =>
       Len(ran) = Cardinality(Ends(text)) \/ (ran # << >> /\ Fails(Last(ran)))

\* A terminal: the buffer has one line, the last of what has been read.
Dialogue ==
  /\ pc # "scan" => CountTo(Taken) /\ (unread # << >> => Cut(Taken))
  /\ pc = "read" => line = << >>
  /\ pc = "scan" => /\ Cut(Gone + head - 1) /\ CountTo(Gone + head - 1)
                    /\ Ends(line) \subseteq {Len(line)}
                    /\ Len(line) \in Ends(line) \/ unread = << >>

\* What is where, as long as no read has failed.
Within ==
  /\ stdin \in Stdins /\ piped \in Pipes /\ text \in Texts
  /\ failed = FALSE
  /\ unread \in Seq(Chars) /\ line \in Seq(Chars) /\ Len(line) <= MaxLine
  /\ head \in 1..(Len(line) + 1) /\ seek \in 1..(Len(line) + 1)
  /\ pc \in {"call", "read", "scan", "back"}
  /\ ran \in Seq(Seq(Chars))

Sound ==
  /\ Within /\ Contents /\ Searched
  /\ (stdin => Interactive) => LineByLine
  /\ ~ stdin => Script
  /\ stdin /\ Interactive => Dialogue

\* A search begins where the one before it ended.
Resumed == pc = "read" => seek = Len(line) + 1

\* A failed read leaves no more than what the types say.
IInv == TypeOK /\ Resumed /\ (~ failed => Sound)

-----------------------------------------------------------------------------
(* Facts about texts                                                           *)

\* The part of a text from one character to another.
LEMMA Part ==
  ASSUME NEW s \in Seq(Chars), NEW a \in Int, NEW b \in Int, 1 <= a, b <= Len(s), a <= b + 1
  PROVE  /\ SubSeq(s, a, b) \in Seq(Chars)
         /\ Len(SubSeq(s, a, b)) = b - a + 1
         /\ \A k \in 1..(b - a + 1) : SubSeq(s, a, b)[k] = s[a + k - 1]
  <1>1. \A k \in a..b : s[k] \in Chars
    BY ListShape
  <1> QED BY <1>1, SubSeqProperties

\* A text has finitely many ends.
LEMMA EndsShape ==
  ASSUME NEW s \in Seq(Chars)
  PROVE  /\ Len(s) \in Nat
         /\ \A e : e \in Ends(s) <=> e \in 1..Len(s) /\ s[e] = "n"
         /\ IsFiniteSet(Ends(s))
  <1>1. Len(s) \in Nat
    BY ListShape
  <1>2. IsFiniteSet(1..Len(s))
    BY <1>1, FS_Interval
  <1>3. Ends(s) \subseteq 1..Len(s)
    BY DEF Ends
  <1>4. IsFiniteSet(Ends(s))
    BY <1>2, <1>3, FS_Subset
  <1>5. \A e : e \in Ends(s) <=> e \in 1..Len(s) /\ s[e] = "n"
    BY DEF Ends
  <1> QED BY <1>1, <1>4, <1>5

\* The next end is one more.
LEMMA OneMore ==
  ASSUME text \in Seq(Chars), NEW d \in Nat, NEW e \in Ends(text), d < e,
         \A x \in Ends(text) : x <= d \/ x >= e
  PROVE  Cardinality(EndsTo(e)) = Cardinality(EndsTo(d)) + 1
  <1>1. e \in Nat /\ \A x \in Ends(text) : x \in Nat
    BY EndsShape
  <1>2. EndsTo(e) = EndsTo(d) \cup {e}
    <2>1. ASSUME NEW x PROVE x \in EndsTo(e) <=> x \in EndsTo(d) \cup {e}
      <3>1. ASSUME x \in Ends(text) PROVE x <= e <=> (x <= d \/ x = e)
        <4> x \in Nat /\ e \in Nat /\ d < e /\ (x <= d \/ x >= e)
          BY <1>1, <3>1
        <4> QED OBVIOUS
      <3>2. e \in Ends(text)
        OBVIOUS
      <3> QED BY <3>1, <3>2 DEF EndsTo
    <2> QED BY <2>1
  <1>3. IsFiniteSet(EndsTo(d))
    <2>1. EndsTo(d) \subseteq Ends(text) /\ IsFiniteSet(Ends(text))
      BY EndsShape DEF EndsTo
    <2> QED BY <2>1, FS_Subset
  <1>4. e \notin EndsTo(d)
    BY <1>1 DEF EndsTo
  <1> QED BY <1>2, <1>3, <1>4, FS_AddElement

\* Where there is no end nothing is to be counted.
LEMMA NoneMore ==
  ASSUME text \in Seq(Chars), NEW d \in Nat, NEW e \in Nat, d <= e,
         \A x \in Ends(text) : x <= d \/ x > e
  PROVE  EndsTo(e) = EndsTo(d)
  <1>1. \A x \in Ends(text) : x \in Nat
    BY EndsShape
  <1> QED BY <1>1 DEF EndsTo

\* What the invariant says of lengths and places.
LEMMA Places ==
  ASSUME Within, Contents
  PROVE  /\ text \in Seq(Chars) /\ unread \in Seq(Chars) /\ line \in Seq(Chars)
         /\ Len(text) \in Nat /\ Len(unread) \in Nat /\ Len(line) \in Nat
         /\ Gone \in Nat /\ Taken \in Nat /\ Taken = Gone + Len(line) /\ Taken <= Len(text)
         /\ Taken + Len(unread) = Len(text)
         /\ head \in Nat /\ seek \in Nat /\ MaxLine \in Nat
         /\ unread = << >> <=> Len(unread) = 0
         /\ line = << >> <=> Len(line) = 0
         /\ \A k \in 1..Len(line) : k \in Ends(line) <=> Gone + k \in Ends(text)
         /\ \A k \in 1..Len(unread) : k \in Ends(unread) <=> Taken + k \in Ends(text)
  <1>1. text \in Seq(Chars) /\ unread \in Seq(Chars) /\ line \in Seq(Chars)
    BY ReaderAssumption DEF Within
  <1>2. /\ Len(text) \in Nat /\ Len(unread) \in Nat /\ Len(line) \in Nat
        /\ unread = << >> <=> Len(unread) = 0
        /\ line = << >> <=> Len(line) = 0
    BY <1>1, ListShape, EmptySeq
  <1>3. /\ Gone \in Nat /\ Taken \in Nat /\ Taken = Gone + Len(line) /\ Taken <= Len(text)
        /\ Taken + Len(unread) = Len(text)
    BY <1>2 DEF Contents, Gone, Taken
  <1>4. head \in Nat /\ seek \in Nat /\ MaxLine \in Nat
    BY <1>2, ReaderAssumption DEF Within
  <1>5. ASSUME NEW k \in 1..Len(line) PROVE k \in Ends(line) <=> Gone + k \in Ends(text)
    <2>1. Gone + k \in 1..Len(text) /\ line[k] = text[Gone + k]
      BY <1>2, <1>3 DEF Contents
    <2> QED BY <2>1 DEF Ends
  <1>6. ASSUME NEW k \in 1..Len(unread) PROVE k \in Ends(unread) <=> Taken + k \in Ends(text)
    <2>1. Taken + k \in 1..Len(text) /\ unread[k] = text[Taken + k]
      BY <1>2, <1>3 DEF Contents
    <2> QED BY <2>1 DEF Ends
  <1> QED BY <1>1, <1>2, <1>3, <1>4, <1>5, <1>6

\* Where lines fit into the buffer, as many characters as it holds have an end.
LEMMA FitsSays ==
  ASSUME text \in Seq(Chars), Fits(text), NEW d \in Nat, d + MaxLine <= Len(text)
  PROVE  \E e \in Ends(text) : d < e /\ e <= d + MaxLine
  <1>1. Len(text) \in Nat /\ MaxLine \in Nat \ {0}
    BY EndsShape, ReaderAssumption
  <1>2. d + 1 \in 1..(Len(text) + 1 - MaxLine)
    BY <1>1
  <1>3. PICK e \in (d + 1)..(d + 1 + MaxLine - 1) : text[e] = "n"
    BY <1>2 DEF Fits
  <1>4. e \in 1..Len(text) /\ d < e /\ e <= d + MaxLine
    BY <1>1, <1>3
  <1> QED BY <1>3, <1>4 DEF Ends

\* Of several numbers one is the least.
LEMMA Least ==
  ASSUME NEW T, T \subseteq Nat, T # {}
  PROVE  \E x \in T : \A y \in T : x <= y
  <1> DEFINE R == OpToRel(<, Nat)
  <1>1. IsWellFoundedOn(R, Nat)
    BY NatLessThanWellFounded
  <1>2. \A x, y \in Nat : x < y => <<x, y>> \in R
    BY DEF OpToRel
  <1> HIDE DEF R
  <1>3. PICK x \in T : \A y \in T : ~ (<<y, x>> \in R)
    BY <1>1, WFMin
  <1>4. ASSUME NEW y \in T PROVE x <= y
    <2>1. x \in Nat /\ y \in Nat /\ ~ (y < x)
      BY <1>2, <1>3
    <2> QED BY <2>1
  <1> QED BY <1>4

\* Where the search finds nothing there is no end behind the head.
LEMMA NoneFound ==
  ASSUME Within, Contents, Searched, pc = "scan", NextEnd = {}
  PROVE  \A k \in Ends(line) : k < head
  <1>1. /\ Len(line) \in Nat /\ head \in Nat /\ seek \in Nat
        /\ \A k \in Ends(line) : k >= head => k >= seek
    BY Places DEF Searched
  <1> DEFINE T == {k \in Ends(line) : k >= seek}
  <1>2. T \subseteq Nat
    BY <1>1 DEF Ends
  <1>3. T = {}
    <2> SUFFICES ASSUME T # {} PROVE FALSE
      OBVIOUS
    <2> HIDE DEF T
    <2>1. PICK x \in T : \A y \in T : x <= y
      BY <1>2, Least
    <2>2. x \in NextEnd
      BY <2>1 DEF T, NextEnd
    <2> QED BY <2>2
  <1>4. ASSUME NEW k \in Ends(line) PROVE k < head
    <2>1. ~ (k >= seek) /\ k \in Nat
      BY <1>1, <1>3 DEF Ends
    <2> QED BY <1>1, <2>1
  <1> QED BY <1>4

-----------------------------------------------------------------------------
(* The steps                                                                   *)

\* What has been executed stays executed.
LEMMA RanKeeps ==
  ASSUME UNCHANGED <<text, ran>>
  PROVE  /\ LineByLine => LineByLine'
         /\ \A d : CountTo(d)' <=> CountTo(d)
         /\ \A d : Cut(d)' <=> Cut(d)
         /\ Cardinality(Ends(text))' = Cardinality(Ends(text))
  BY DEF LineByLine, IsLine, Ends, CountTo, Cut, EndsTo

\* Neither do the input and what it promises change.
LEMMA InputKeeps ==
  ASSUME UNCHANGED <<stdin, piped, text, ran>>
  PROVE  /\ Interactive' <=> Interactive
         /\ ((stdin => Interactive) => LineByLine) => ((stdin => Interactive) => LineByLine)'
         /\ LineByLine' => ((stdin => Interactive) => LineByLine)'
  <1>1. Interactive' <=> Interactive
    BY DEF Interactive, Fits
  <1> QED BY <1>1, RanKeeps

LEMMA InitSound == Init => Sound
  <1> SUFFICES ASSUME Init PROVE Sound
    OBVIOUS
  <1>1. text \in Seq(Chars) /\ Len(text) \in Nat /\ MaxLine \in Nat
    BY ReaderAssumption, EndsShape DEF Init
  <1>2. /\ unread = text /\ line = << >> /\ head = 1 /\ seek = 1 /\ pc = "call" /\ ran = << >>
        /\ Len(line) = 0 /\ Len(ran) = 0
        /\ line \in Seq(Chars) /\ ran \in Seq(Seq(Chars))
    BY EmptySeq DEF Init
  <1>3. Within
    BY <1>1, <1>2 DEF Init, Within
  <1>4. Gone = 0 /\ Taken = 0
    <2>1. Len(unread) = Len(text) /\ Len(line) = 0 /\ Len(text) \in Nat
      BY <1>1, <1>2
    <2> QED BY <2>1 DEF Gone, Taken
  <1>5. Contents
    BY <1>1, <1>2, <1>4 DEF Contents
  <1>6. Searched
    BY <1>2 DEF Searched
  <1>7. Cut(0) /\ CountTo(0)
    <2>1. EndsTo(0) = {}
      BY <1>1, EndsShape DEF EndsTo
    <2> QED BY <1>2, <2>1, FS_EmptySet DEF Cut, CountTo
  <1>8. LineByLine
    BY <1>2 DEF LineByLine
  <1>9. Gone + head - 1 = 0
    BY <1>2, <1>4
  <1>10. Script /\ Dialogue
    BY <1>2, <1>4, <1>7, <1>9 DEF Script, Dialogue
  <1> QED BY <1>3, <1>5, <1>6, <1>8, <1>10 DEF Sound

LEMMA CallSound == Sound /\ Call => Sound'
  <1> SUFFICES ASSUME Sound, Call PROVE Sound'
    OBVIOUS
  <1>1. /\ Within /\ Contents /\ pc = "call" /\ pc' = "read"
        /\ line' = << >> /\ head' = 1 /\ seek' = 1
        /\ UNCHANGED <<stdin, piped, failed, text, unread, ran>>
    BY DEF Sound, Call, input
  <1>2. /\ text \in Seq(Chars) /\ Len(text) \in Nat /\ Len(unread) \in Nat
        /\ Len(unread) <= Len(text) /\ Taken \in Nat /\ MaxLine \in Nat
        /\ Len(line') = 0 /\ line' \in Seq(Chars)
    BY <1>1, Places, EmptySeq DEF Contents
  <1>3. Gone' = Taken /\ Taken' = Taken /\ Gone' + head' - 1 = Taken
    BY <1>1, <1>2 DEF Gone, Taken
  <1>4. Within'
    BY <1>1, <1>2 DEF Within
  <1>5. Contents'
    BY <1>1, <1>2, <1>3 DEF Contents
  <1>6. Searched'
    BY <1>1, <1>2, EndsShape DEF Searched, Ends
  <1>7. ~ stdin => Script'
    <2> SUFFICES ASSUME ~ stdin PROVE Script'
      OBVIOUS
    <2>1. Cut(Gone + head - 1) /\ CountTo(Gone + head - 1) /\ line = << >> /\ head = 1
      BY <1>1 DEF Sound, Script
    <2>2. Gone + head - 1 = Taken
      BY <1>1, <2>1, Places
    <2> QED BY <1>1, <1>3, <2>1, <2>2, RanKeeps DEF Script
  <1>8. stdin /\ Interactive => Dialogue'
    BY <1>1, <1>3, RanKeeps DEF Sound, Dialogue
  <1>9. ((stdin => Interactive) => LineByLine)'
    BY <1>1, InputKeeps DEF Sound
  <1>10. (stdin /\ Interactive => Dialogue)'
    BY <1>1, <1>8, InputKeeps
  <1> QED BY <1>1, <1>4, <1>5, <1>6, <1>7, <1>9, <1>10 DEF Sound

LEMMA AgainSound == Sound /\ Again => Sound'
  <1> SUFFICES ASSUME Sound, Again PROVE Sound'
    OBVIOUS
  <1>1. /\ Within /\ Contents /\ pc = "back" /\ pc' = "call" /\ stdin
        /\ UNCHANGED <<stdin, piped, failed, text, unread, line, head, seek, ran>>
    BY DEF Sound, Again, input
  <1>2. Gone' = Gone /\ Taken' = Taken
    BY <1>1 DEF Gone, Taken
  <1>3. Within' /\ Contents' /\ Searched'
    BY <1>1, <1>2 DEF Within, Contents, Searched
  <1>4. (stdin /\ Interactive => Dialogue)'
    BY <1>1, <1>2, RanKeeps, InputKeeps DEF Sound, Dialogue
  <1>5. ((stdin => Interactive) => LineByLine)'
    BY <1>1, InputKeeps DEF Sound
  <1> QED BY <1>1, <1>3, <1>4, <1>5 DEF Sound

\* The line found in the buffer is the next one of the text.
LEMMA NextLine ==
  ASSUME Sound, pc = "scan", NEW k \in NextEnd,
         Cut(Gone + head - 1), CountTo(Gone + head - 1)
  PROVE  /\ k \in head..Len(line)
         /\ Gone + k \in Ends(text)
         /\ \A j \in head..(k - 1) : line[j] # "n"
         /\ Cardinality(EndsTo(Gone + k)) = Len(ran) + 1
         /\ SubSeq(line, head, k - 1) \in Seq(Chars)
         /\ IsLine(Len(ran) + 1, SubSeq(line, head, k - 1))
  <1> DEFINE d == Gone + head - 1
             e == Gone + k
             command == SubSeq(line, head, k - 1)
             same == SubSeq(text, d + 1, e - 1)
  <1>1. Within /\ Contents /\ Searched
    BY DEF Sound
  <1>2. /\ k \in 1..Len(line) /\ line[k] = "n" /\ k >= seek
        /\ \A j \in Ends(line) : j >= seek => k <= j
    BY DEF NextEnd, Ends
  <1>3. /\ text \in Seq(Chars) /\ line \in Seq(Chars)
        /\ Len(text) \in Nat /\ Len(line) \in Nat /\ Gone \in Nat
        /\ Gone + Len(line) <= Len(text)
        /\ head \in Nat /\ seek \in Nat /\ head >= 1
    <2>1. head >= 1
      BY <1>1 DEF Within
    <2> QED BY <1>1, <2>1, Places
  <1>4. head <= seek /\ \A j \in Ends(line) : j >= head => j >= seek
    BY <1>1 DEF Searched
  <1>5. k \in head..Len(line) /\ k \in Nat
    BY <1>2, <1>3, <1>4
  <1>6. \A j \in head..(k - 1) : j \in 1..Len(line) /\ line[j] # "n"
    <2> SUFFICES ASSUME NEW j \in head..(k - 1)
                 PROVE  j \in 1..Len(line) /\ line[j] # "n"
      OBVIOUS
    <2>1. j \in 1..Len(line) /\ j >= head /\ ~ (k <= j)
      BY <1>3, <1>5
    <2>2. line[j] = "n" => j \in Ends(line)
      BY <2>1 DEF Ends
    <2> QED BY <1>2, <1>4, <2>1, <2>2
  <1>7. /\ d \in Nat /\ e \in Nat /\ d < e /\ e <= Len(text)
        /\ e - 1 - d = k - head /\ d + 1 = Gone + head /\ e - 1 = Gone + (k - 1)
    BY <1>3, <1>5
  <1>8. \A j \in 1..Len(line) : line[j] = text[Gone + j]
    BY <1>1 DEF Contents
  <1>9. e \in Ends(text)
    <2>1. e \in 1..Len(text)
      BY <1>7
    <2> QED BY <1>2, <1>8, <2>1 DEF Ends
  <1>10. ASSUME NEW x \in Ends(text) PROVE x <= d \/ x >= e
    <2> SUFFICES ASSUME ~ (x <= d), ~ (x >= e) PROVE FALSE
      OBVIOUS
    <2>1. x \in Nat /\ text[x] = "n"
      BY <1>3 DEF Ends
    <2>2. x - Gone \in head..(k - 1) /\ Gone + (x - Gone) = x
      BY <1>3, <1>5, <2>1
    <2> QED BY <1>6, <1>8, <2>1, <2>2
  <1>11. Cardinality(EndsTo(e)) = Len(ran) + 1
    <2>1. Cardinality(EndsTo(d)) = Len(ran)
      BY DEF CountTo
    <2> HIDE DEF d, e
    <2> QED BY <1>3, <1>7, <1>9, <1>10, <2>1, OneMore
  <1>12. /\ command \in Seq(Chars) /\ Len(command) = k - head
         /\ \A j \in 1..(k - head) : command[j] = line[head + j - 1]
    <2>1. head \in Int /\ k - 1 \in Int /\ 1 <= head /\ k - 1 <= Len(line) /\ head <= k - 1 + 1
          /\ (k - 1) - head + 1 = k - head
      BY <1>3, <1>5
    <2> QED BY <1>3, <2>1, Part
  <1>13. /\ same \in Seq(Chars) /\ Len(same) = k - head
         /\ \A j \in 1..(k - head) : same[j] = text[d + 1 + j - 1]
    <2>1. d + 1 \in Int /\ e - 1 \in Int /\ 1 <= d + 1 /\ e - 1 <= Len(text) /\ d + 1 <= e - 1 + 1
          /\ (e - 1) - (d + 1) + 1 = k - head
      BY <1>3, <1>5, <1>7
    <2> HIDE DEF d, e
    <2>2. /\ same \in Seq(Chars) /\ Len(same) = (e - 1) - (d + 1) + 1
          /\ \A j \in 1..((e - 1) - (d + 1) + 1) : same[j] = text[d + 1 + j - 1]
      BY <1>3, <2>1, Part
    <2> HIDE DEF same
    <2> QED BY <2>1, <2>2
  <1>14. \A j \in 1..(k - head) : command[j] = same[j] /\ command[j] # "n"
    <2> SUFFICES ASSUME NEW j \in 1..(k - head) PROVE command[j] = same[j] /\ command[j] # "n"
      OBVIOUS
    <2>1. /\ head + j - 1 \in head..(k - 1)
          /\ Gone + (head + j - 1) = d + 1 + j - 1
      BY <1>3, <1>5
    <2>2. line[head + j - 1] = text[d + 1 + j - 1] /\ line[head + j - 1] # "n"
      BY <1>6, <1>8, <2>1
    <2> QED BY <1>12, <1>13, <2>2
  <1>15. command = same
    <2> HIDE DEF command, same
    <2> QED BY <1>12, <1>13, <1>14, SeqEqual
  <1>16. Ends(command) = {}
    <2>1. k - head \in Nat
      BY <1>3, <1>5
    <2> HIDE DEF command
    <2> QED BY <1>12, <1>14, <2>1 DEF Ends
  <1>17. IsLine(Len(ran) + 1, command)
    <2>1. e - Len(command) = d + 1 /\ e - Len(command) - 1 = d
      <3>1. Len(command) = k - head
        BY <1>12
      <3>2. k \in Nat /\ head \in Nat /\ d \in Nat /\ e \in Nat /\ e - 1 - d = k - head
        BY <1>3, <1>5, <1>7
      <3> DEFINE n == Len(command)
      <3>3. n = e - 1 - d
        BY <3>1, <3>2
      <3> HIDE DEF n, command, d, e
      <3>4. e - n = d + 1 /\ e - n - 1 = d
        BY <3>2, <3>3
      <3> QED BY <3>4 DEF n
    <2>2. d \in Ends(text) \cup {0}
      BY DEF Cut
    <2>3. Cardinality({x \in Ends(text) : x <= e}) = Len(ran) + 1
      BY <1>11 DEF EndsTo
    <2>4. command = SubSeq(text, e - Len(command), e - 1)
      <3>1. command = SubSeq(text, d + 1, e - 1)
        BY <1>15
      <3> HIDE DEF command, d, e
      <3> QED BY <2>1, <3>1
    <2> HIDE DEF command, d, e
    <2> QED BY <1>9, <1>16, <2>1, <2>2, <2>3, <2>4 DEF IsLine
  <1> QED BY <1>5, <1>6, <1>9, <1>11, <1>12, <1>17

\* One line more.
LEMMA LineMore ==
  ASSUME ran \in Seq(Seq(Chars)), LineByLine, text' = text, NEW l \in Seq(Chars),
         IsLine(Len(ran) + 1, l), ran' = Append(ran, l)
  PROVE  /\ LineByLine'
         /\ ran' \in Seq(Seq(Chars)) /\ Len(ran') = Len(ran) + 1
         /\ ran' # << >> /\ Last(ran') = l
  <1>1. /\ ran' \in Seq(Seq(Chars)) /\ Len(ran') = Len(ran) + 1 /\ Len(ran) \in Nat
        /\ \A j \in 1..Len(ran) : ran'[j] = ran[j]
        /\ ran'[Len(ran) + 1] = l
    BY Appended, ListShape
  <1>2. ran' # << >> /\ Last(ran') = l
    <2>1. Len(ran') # 0
      BY <1>1
    <2> QED BY <1>1, <2>1, EmptySeq DEF Last
  <1>3. ASSUME NEW k \in 1..Len(ran') PROVE IsLine(k, ran'[k])
    <2>1. CASE k = Len(ran) + 1
      BY <1>1, <2>1
    <2>2. CASE k # Len(ran) + 1
      <3>1. k \in 1..Len(ran)
        BY <1>1, <2>2
      <3> QED BY <1>1, <3>1 DEF LineByLine
    <2> QED BY <2>1, <2>2
  <1>4. LineByLine'
    <2>1. \A k, r : IsLine(k, r) => IsLine(k, r)'
      BY DEF IsLine, Ends
    <2> SUFFICES ASSUME NEW k \in (1..Len(ran))' PROVE IsLine(k, ran[k])'
      BY DEF LineByLine
    <2>2. ASSUME NEW r, r = ran'[k] PROVE IsLine(k, r)'
      BY <1>3, <2>1, <2>2
    <2> QED BY <2>2 DEF IsLine, Ends
  <1> QED BY <1>1, <1>2, <1>4

LEMMA ExecuteSound == Sound /\ Execute => Sound'
  <1> SUFFICES ASSUME Sound, Execute PROVE Sound'
    OBVIOUS
  <1>1. PICK k \in NextEnd :
          /\ ran' = Append(ran, SubSeq(line, head, k - 1))
          /\ IF Fails(SubSeq(line, head, k - 1))
               THEN pc' = "back" /\ head' = head /\ seek' = seek
               ELSE head' = k + 1 /\ seek' = k + 1 /\ pc' = pc
    BY DEF Execute
  <1> DEFINE command == SubSeq(line, head, k - 1)
  <1>2. /\ Within /\ Contents /\ Searched /\ pc = "scan"
        /\ UNCHANGED <<stdin, piped, failed, text, unread, line>>
    BY DEF Sound, Execute, input
  <1>3. /\ text \in Seq(Chars) /\ line \in Seq(Chars) /\ Len(text) \in Nat /\ Len(line) \in Nat
        /\ Gone \in Nat /\ Taken = Gone + Len(line)
        /\ head \in 1..(Len(line) + 1) /\ seek \in 1..(Len(line) + 1)
        /\ ran \in Seq(Seq(Chars))
    BY <1>2, Places DEF Within
  <1>4. /\ k \in 1..Len(line) /\ k \in Ends(line) /\ k >= seek
        /\ \A j \in Ends(line) : j >= seek => k <= j
    BY DEF NextEnd, Ends
  <1>5. head <= seek /\ \A j \in Ends(line) : j >= head => j >= seek
    BY <1>2 DEF Searched
  <1>6. k \in head..Len(line) /\ command \in Seq(Chars)
    <2>1. k \in head..Len(line)
      BY <1>3, <1>4, <1>5
    <2>2. 1 <= head /\ k - 1 <= Len(line) /\ head <= k - 1 + 1 /\ head \in Int /\ k - 1 \in Int
      BY <1>3, <2>1
    <2> QED BY <1>3, <2>1, <2>2, Part
  <1> HIDE DEF command
  <1>7. ran' = Append(ran, command)
    BY <1>1 DEF command
  <1>8. IF Fails(command) THEN pc' = "back" /\ head' = head /\ seek' = seek
                          ELSE head' = k + 1 /\ seek' = k + 1 /\ pc' = pc
    BY <1>1 DEF command
  <1>9. ran' \in Seq(Seq(Chars))
    BY <1>3, <1>6, <1>7, Appended
  <1>10. Within'
    <2>1. (head \in 1..(Len(line) + 1) /\ seek \in 1..(Len(line) + 1))'
      BY <1>2, <1>3, <1>6, <1>8
    <2>2. (pc \in {"call", "read", "scan", "back"})'
      BY <1>2, <1>8
    <2> QED BY <1>2, <1>9, <2>1, <2>2 DEF Within
  <1>11. Gone' = Gone /\ Taken' = Taken
    BY <1>2 DEF Gone, Taken
  <1>12. Contents'
    BY <1>2, <1>11 DEF Contents
  <1>13. Searched'
    <2>1. CASE Fails(command)
      BY <1>2, <1>8, <2>1 DEF Searched
    <2>2. CASE ~ Fails(command)
      BY <1>2, <1>6, <1>8, <2>2 DEF Searched
    <2> QED BY <2>1, <2>2
  <1> DEFINE follows == Cut(Gone + head - 1) /\ CountTo(Gone + head - 1)
  <1>14. ASSUME follows, LineByLine
         PROVE  /\ LineByLine' /\ ran' # << >> /\ Last(ran') = command
                /\ CountTo(Gone + k)' /\ Cut(Gone + k)'
    <2>1. /\ Gone + k \in Ends(text)
          /\ Cardinality(EndsTo(Gone + k)) = Len(ran) + 1
          /\ IsLine(Len(ran) + 1, command)
      BY <1>2, <1>14, NextLine DEF command
    <2>2. LineByLine' /\ Len(ran') = Len(ran) + 1 /\ ran' # << >> /\ Last(ran') = command
      BY <1>2, <1>3, <1>6, <1>7, <1>14, <2>1, LineMore
    <2>3. \A d, e : d = e => (CountTo(d)' <=> Len(ran') = Cardinality(EndsTo(e)))
      BY <1>2 DEF CountTo, EndsTo, Ends
    <2>4. \A d, e : d = e => (Cut(d)' <=> Cut(e))
      BY <1>2 DEF Cut, Ends
    <2> DEFINE e == Gone + k
    <2>6. e' = e
      BY <1>11
    <2>7. CountTo(e)' /\ Cut(e)'
      <3>1. Len(ran') = Cardinality(EndsTo(e)) /\ Cut(e)
        BY <2>1, <2>2 DEF Cut
      <3> HIDE DEF e
      <3> QED BY <1>2, <2>6, <3>1 DEF CountTo, EndsTo, Ends, Cut
    <2> QED BY <2>2, <2>7
  <1>15. ASSUME ~ Fails(command) PROVE Gone' + head' - 1 = Gone + k
    BY <1>3, <1>6, <1>8, <1>11, <1>15
  <1>16. ~ stdin => Script'
    <2> SUFFICES ASSUME ~ stdin PROVE Script'
      OBVIOUS
    <2>1. follows /\ LineByLine
      BY <1>2 DEF Sound, Script
    <2>2. CASE Fails(command)
      BY <1>2, <1>8, <1>14, <2>1, <2>2 DEF Script
    <2>3. CASE ~ Fails(command)
      <3>1. (Gone + head - 1)' = (Gone + k)' /\ pc' = "scan"
        BY <1>2, <1>8, <1>11, <1>15, <2>3
      <3> QED BY <1>14, <2>1, <3>1 DEF Script, Cut, CountTo, EndsTo
    <2> QED BY <2>2, <2>3
  <1>17. stdin /\ Interactive => Dialogue'
    <2> SUFFICES ASSUME stdin, Interactive PROVE Dialogue'
      OBVIOUS
    <2>1. /\ follows /\ LineByLine /\ Ends(line) \subseteq {Len(line)}
          /\ Len(line) \in Ends(line) \/ unread = << >>
      BY <1>2 DEF Sound, Dialogue
    <2>2. CASE Fails(command)
      <3>1. (Gone + k)' = Taken' /\ pc' = "back"
        BY <1>3, <1>4, <1>8, <1>11, <2>1, <2>2
      <3> QED BY <1>14, <2>1, <3>1 DEF Dialogue, Cut, CountTo, EndsTo
    <2>3. CASE ~ Fails(command)
      <3>1. (Gone + head - 1)' = (Gone + k)' /\ pc' = "scan"
        BY <1>2, <1>8, <1>11, <1>15, <2>3
      <3>2. (/\ Ends(line) \subseteq {Len(line)}
             /\ Len(line) \in Ends(line) \/ unread = << >>)'
        BY <1>2, <2>1
      <3> QED BY <1>14, <2>1, <3>1, <3>2 DEF Dialogue, Cut, CountTo, EndsTo
    <2> QED BY <2>2, <2>3
  <1>18. ((stdin => Interactive) => LineByLine)'
    <2> SUFFICES ASSUME stdin => Interactive PROVE LineByLine'
      BY <1>2 DEF Interactive, Fits
    <2>1. follows /\ LineByLine
      BY <1>2 DEF Sound, Script, Dialogue
    <2> QED BY <1>14, <2>1
  <1>19. (~ stdin => Script)' /\ (stdin /\ Interactive => Dialogue)'
    BY <1>2, <1>16, <1>17 DEF Interactive, Fits
  <1> QED BY <1>10, <1>12, <1>13, <1>18, <1>19 DEF Sound

\* A line that fills the buffer has its end in it, if it fits.
LEMMA TooLongSound == Sound /\ TooLong => Sound'
  <1> SUFFICES ASSUME Sound, TooLong PROVE Sound'
    OBVIOUS
  <1>1. /\ Within /\ Contents /\ Searched /\ pc = "scan" /\ pc' = "back"
        /\ NextEnd = {} /\ head = 1 /\ Len(line) = MaxLine
        /\ UNCHANGED <<stdin, piped, failed, text, unread, line, head, seek, ran>>
    BY DEF Sound, TooLong, input
  <1>2. Gone' = Gone /\ Taken' = Taken
    BY <1>1 DEF Gone, Taken
  <1>3. Within' /\ Contents' /\ Searched'
    BY <1>1, <1>2 DEF Within, Contents, Searched
  <1>4. ~ Fits(text)
    <2> SUFFICES ASSUME Fits(text) PROVE FALSE
      OBVIOUS
    <2>1. /\ text \in Seq(Chars) /\ Gone \in Nat /\ Len(line) \in Nat /\ Len(text) \in Nat
          /\ Taken = Gone + Len(line) /\ Taken <= Len(text)
          /\ \A k \in 1..Len(line) : k \in Ends(line) <=> Gone + k \in Ends(text)
      BY <1>1, Places
    <2>2. Gone + MaxLine <= Len(text)
      BY <1>1, <2>1
    <2>3. PICK e \in Ends(text) : Gone < e /\ e <= Gone + MaxLine
      BY <2>1, <2>2, FitsSays
    <2>4. e \in Nat
      BY <2>1 DEF Ends
    <2>5. e - Gone \in 1..Len(line) /\ Gone + (e - Gone) = e
      BY <1>1, <2>1, <2>3, <2>4
    <2>6. e - Gone \in Ends(line) /\ e - Gone >= 1
      BY <2>1, <2>3, <2>5
    <2>7. e - Gone < 1
      BY <1>1, <2>6, NoneFound
    <2> QED BY <2>1, <2>4, <2>6, <2>7
  <1>5. (~ stdin => Script)'
    BY <1>1, <1>4 DEF Script
  <1>6. (stdin /\ Interactive => Dialogue)'
    BY <1>1, <1>4, InputKeeps DEF Interactive
  <1>7. ((stdin => Interactive) => LineByLine)'
    BY <1>1, InputKeeps DEF Sound
  <1> QED BY <1>3, <1>5, <1>6, <1>7 DEF Sound

\* What is behind the head is moved to the front.
LEMMA MoveSound == Sound /\ Move => Sound'
  <1> SUFFICES ASSUME Sound, Move PROVE Sound'
    OBVIOUS
  <1>1. /\ Within /\ Contents /\ Searched /\ pc = "scan" /\ NextEnd = {}
        /\ line' = SubSeq(line, head, Len(line)) /\ seek' = Len(line') + 1 /\ head' = 1
        /\ pc' = IF stdin THEN "back" ELSE "read"
        /\ UNCHANGED <<stdin, piped, failed, text, unread, ran>>
    BY DEF Sound, Move, Rest, Sought, input
  <1>2. /\ text \in Seq(Chars) /\ unread \in Seq(Chars) /\ line \in Seq(Chars)
        /\ Len(text) \in Nat /\ Len(unread) \in Nat /\ Len(line) \in Nat /\ MaxLine \in Nat
        /\ Gone \in Nat /\ Taken = Gone + Len(line) /\ Taken + Len(unread) = Len(text)
        /\ Taken <= Len(text)
        /\ \A k \in 1..Len(line) : k \in Ends(line) <=> Gone + k \in Ends(text)
    BY <1>1, Places
  <1>3. head \in 1..(Len(line) + 1) /\ Len(line) <= MaxLine
    BY <1>1 DEF Within
  <1>4. /\ line' \in Seq(Chars) /\ Len(line') = Len(line) - head + 1
        /\ \A k \in 1..(Len(line) - head + 1) : line'[k] = line[head + k - 1]
    <2>1. head \in Int /\ Len(line) \in Int /\ 1 <= head /\ Len(line) <= Len(line)
          /\ head <= Len(line) + 1
      BY <1>2, <1>3
    <2> QED BY <1>1, <1>2, <2>1, Part
  <1>5. \A k \in Ends(line) : k < head
    BY <1>1, NoneFound
  <1>6. Len(line') \in Nat /\ Len(line') <= Len(line)
    BY <1>2, <1>3, <1>4
  <1>7. Gone' = Gone + head - 1 /\ Taken' = Taken
    BY <1>1, <1>2, <1>3, <1>4 DEF Gone, Taken
  <1>8. Within'
    <2>1. Len(line') <= MaxLine /\ 1 \in 1..(Len(line') + 1)
          /\ Len(line') + 1 \in 1..(Len(line') + 1)
      BY <1>2, <1>3, <1>6
    <2>2. pc' \in {"call", "read", "scan", "back"}
      BY <1>1
    <2>3. line' \in Seq(Chars) /\ head' = 1 /\ seek' = Len(line') + 1
      BY <1>1, <1>4
    <2>4. (head \in 1..(Len(line) + 1) /\ seek \in 1..(Len(line) + 1))'
      BY <2>1, <2>3
    <2>5. UNCHANGED <<stdin, piped, failed, text, unread, ran>>
      BY <1>1
    <2> QED BY <1>1, <2>1, <2>2, <2>3, <2>4, <2>5 DEF Within
  <1>9. Contents'
    <2>1. Len(unread) + Len(line') <= Len(text)
      BY <1>2, <1>6
    <2>2. ASSUME NEW k \in 1..Len(line') PROVE line'[k] = text[Gone' + k]
      <3>1. head + k - 1 \in 1..Len(line) /\ Gone' + k = Gone + (head + k - 1)
            /\ k \in 1..(Len(line) - head + 1)
        BY <1>2, <1>3, <1>4, <1>7
      <3>2. line[head + k - 1] = text[Gone + (head + k - 1)]
        BY <1>1, <3>1 DEF Contents
      <3> QED BY <1>4, <3>1, <3>2
    <2>3. \A k \in 1..Len(unread) : unread[k] = text[Taken + k]
      BY <1>1 DEF Contents
    <2> QED BY <1>1, <1>7, <2>1, <2>2, <2>3 DEF Contents
  <1>10. Ends(line') = {}
    <2> SUFFICES ASSUME NEW k \in Ends(line') PROVE FALSE
      OBVIOUS
    <2>1. k \in 1..Len(line') /\ line'[k] = "n"
      BY DEF Ends
    <2>2. head + k - 1 \in 1..Len(line) /\ k \in 1..(Len(line) - head + 1) /\ k >= 1
      BY <1>2, <1>3, <1>4, <2>1
    <2>3. head + k - 1 \in Ends(line)
      BY <1>4, <2>1, <2>2 DEF Ends
    <2>4. head + k - 1 < head
      BY <1>5, <2>3
    <2> QED BY <1>3, <2>2, <2>4
  <1>11. Searched'
    <2>1. Ends(line)' = {}
      BY <1>10 DEF Ends
    <2> QED BY <1>1, <2>1 DEF Searched
  <1>12. Gone' + head' - 1 = Gone + head - 1
    BY <1>1, <1>2, <1>3, <1>7
  <1>13. (~ stdin => Script)'
    <2> SUFFICES ASSUME ~ stdin PROVE Script'
      BY <1>1
    <2>1. Cut(Gone + head - 1) /\ CountTo(Gone + head - 1)
      BY <1>1 DEF Sound, Script
    <2>2. pc' = "read"
      BY <1>1
    <2> QED BY <1>1, <1>12, <2>1, <2>2, RanKeeps DEF Script
  <1>14. (stdin /\ Interactive => Dialogue)'
    <2> SUFFICES ASSUME stdin, Interactive PROVE Dialogue'
      BY <1>1, InputKeeps
    <2>1. /\ CountTo(Gone + head - 1)
          /\ Len(line) \in Ends(line) \/ unread = << >>
      BY <1>1 DEF Sound, Dialogue
    <2> DEFINE d == Gone + head - 1
    <2>2. d \in Nat /\ Taken \in Nat /\ d <= Taken
      BY <1>2, <1>3
    <2>3. ASSUME NEW x \in Ends(text) PROVE x <= d \/ x > Taken
      <3> SUFFICES ASSUME ~ (x <= d), ~ (x > Taken) PROVE FALSE
        OBVIOUS
      <3>1. x \in Nat
        BY <1>2 DEF Ends
      <3>2. x - Gone \in 1..Len(line) /\ Gone + (x - Gone) = x /\ ~ (x - Gone < head)
        BY <1>2, <1>3, <3>1
      <3>3. x - Gone \in Ends(line)
        BY <1>2, <3>2
      <3> QED BY <1>5, <3>2, <3>3
    <2>4. EndsTo(Taken) = EndsTo(d)
      <3> HIDE DEF d
      <3> QED BY <1>2, <2>2, <2>3, NoneMore
    <2>5. CountTo(Taken)
      BY <2>1, <2>4 DEF CountTo
    <2>6. unread # << >> => Cut(Taken)
      <3> SUFFICES ASSUME unread # << >> PROVE Cut(Taken)
        OBVIOUS
      <3>1. Len(line) \in Ends(line) /\ Len(line) \in 1..Len(line)
        BY <2>1 DEF Ends
      <3>2. Gone + Len(line) \in Ends(text)
        BY <1>2, <3>1
      <3> QED BY <1>2, <3>2 DEF Cut
    <2>7. pc' = "back"
      BY <1>1
    <2> QED BY <1>1, <1>7, <2>5, <2>6, <2>7, RanKeeps DEF Dialogue
  <1>15. ((stdin => Interactive) => LineByLine)'
    BY <1>1, InputKeeps DEF Sound
  <1> QED BY <1>8, <1>9, <1>11, <1>13, <1>14, <1>15 DEF Sound

\* What a read may return: at the terminal a line, if it finds room.
LEMMA PieceShape ==
  ASSUME line \in Seq(Chars), unread \in Seq(Chars), Len(line) <= MaxLine, NEW n \in Pieces
  PROVE  /\ n \in 0..Len(unread) /\ Len(line) + n <= MaxLine
         /\ unread = << >> => n = 0
         /\ n = 0 /\ ~ (stdin /\ ~ piped) => unread = << >>
         /\ stdin /\ ~ piped /\ unread # << >> =>
              \/ n \in Ends(unread) /\ \A j \in Ends(unread) : n <= j
              \/ /\ \A j \in Ends(unread) : j > MaxLine - Len(line)
                 /\ n = Len(unread) \/ (n = MaxLine - Len(line) /\ n <= Len(unread))
  <1> DEFINE room == MaxLine - Len(line)
             all == IF Len(unread) < room THEN Len(unread) ELSE room
             upto == {k \in Ends(unread) : \A j \in Ends(unread) : k <= j}
  <1>1. /\ Len(unread) \in Nat /\ Len(line) \in Nat /\ MaxLine \in Nat /\ Len(line) <= MaxLine
        /\ room \in Nat /\ all \in Nat /\ all <= Len(unread) /\ all <= room
        /\ unread = << >> <=> Len(unread) = 0
    <2>1. /\ Len(unread) \in Nat /\ Len(line) \in Nat /\ MaxLine \in Nat
          /\ unread = << >> <=> Len(unread) = 0
      BY ListShape, EmptySeq, ReaderAssumption
    <2> QED BY <2>1
  <1>2. n \in IF unread = << >> THEN {0}
              ELSE IF stdin /\ ~ piped
                THEN {IF \E k \in upto : k <= room THEN CHOOSE k \in upto : TRUE ELSE all}
              ELSE 1..all
    BY DEF Pieces
  <1>3. \A k \in Ends(unread) : k \in 1..Len(unread) /\ k \in Nat
    BY <1>1 DEF Ends
  <1>4. CASE unread = << >>
    <2>1. n = 0
      BY <1>2, <1>4
    <2> QED BY <1>1, <1>4, <2>1
  <1>5. CASE unread # << >> /\ ~ (stdin /\ ~ piped)
    <2>1. n \in 1..all
      BY <1>2, <1>5
    <2> HIDE DEF all
    <2>2. n \in 0..Len(unread) /\ Len(line) + n <= MaxLine /\ n # 0
      BY <1>1, <2>1
    <2> QED BY <1>5, <2>2
  <1>6. CASE unread # << >> /\ stdin /\ ~ piped /\ \E k \in upto : k <= room
    <2>1. n = CHOOSE k \in upto : TRUE
      BY <1>2, <1>6
    <2>2. PICK k \in upto : k <= room
      BY <1>6
    <2>3. n \in upto
      BY <2>1, <2>2
    <2>4. n \in Ends(unread) /\ \A j \in Ends(unread) : n <= j
      BY <2>3
    <2>5. k \in Ends(unread)
      BY <2>2
    <2>6. n <= k /\ n \in 1..Len(unread) /\ k \in Nat
      BY <1>3, <2>4, <2>5
    <2>7. n \in 0..Len(unread) /\ Len(line) + n <= MaxLine
      BY <1>1, <2>2, <2>6
    <2> QED BY <1>6, <2>4, <2>7
  <1>7. CASE unread # << >> /\ stdin /\ ~ piped /\ ~ \E k \in upto : k <= room
    <2>1. n = all
      BY <1>2, <1>7
    <2>2. /\ n \in 0..Len(unread) /\ Len(line) + n <= MaxLine
          /\ n = Len(unread) \/ (n = room /\ n <= Len(unread))
      BY <1>1, <2>1
    <2>3. ASSUME NEW j \in Ends(unread) PROVE j > room
      <3> HIDE DEF room, all
      <3>1. Ends(unread) \subseteq Nat /\ Ends(unread) # {}
        BY <1>3
      <3>2. PICK k \in Ends(unread) : \A i \in Ends(unread) : k <= i
        BY <3>1, Least
      <3>3. k \in upto
        BY <3>2
      <3>4. ~ (k <= room) /\ k <= j /\ k \in Nat /\ j \in Nat
        BY <1>3, <1>7, <3>2, <3>3
      <3> QED BY <1>1, <3>4
    <2> QED BY <1>7, <2>2, <2>3
  <1> QED BY <1>4, <1>5, <1>6, <1>7

\* A sequence with the first characters of another behind it.
LEMMA Joined ==
  ASSUME NEW l \in Seq(Chars), NEW u \in Seq(Chars), NEW n \in 0..Len(u)
  PROVE  /\ l \o SubSeq(u, 1, n) \in Seq(Chars)
         /\ Len(l \o SubSeq(u, 1, n)) = Len(l) + n
         /\ \A k \in 1..Len(l) : (l \o SubSeq(u, 1, n))[k] = l[k]
         /\ \A k \in 1..n : (l \o SubSeq(u, 1, n))[Len(l) + k] = u[k]
  <1> DEFINE piece == SubSeq(u, 1, n)
             s == l \o piece
  <1>1. Len(l) \in Nat /\ Len(u) \in Nat /\ n \in Nat /\ n <= Len(u)
    BY ListShape
  <1>2. /\ piece \in Seq(Chars) /\ Len(piece) = n
        /\ \A k \in 1..n : piece[k] = u[k]
    <2>1. 1 \in Int /\ n \in Int /\ 1 <= n + 1 /\ n - 1 + 1 = n /\ 1 <= 1
          /\ \A k \in 1..n : 1 + k - 1 = k
      BY <1>1
    <2>2. /\ piece \in Seq(Chars) /\ Len(piece) = n - 1 + 1
          /\ \A k \in 1..(n - 1 + 1) : piece[k] = u[1 + k - 1]
      BY <1>1, <2>1, Part
    <2> HIDE DEF piece
    <2> QED BY <2>1, <2>2
  <1> HIDE DEF piece
  <1>3. /\ s \in Seq(Chars) /\ Len(s) = Len(l) + Len(piece)
        /\ \A k \in 1..(Len(l) + Len(piece)) :
             s[k] = IF k <= Len(l) THEN l[k] ELSE piece[k - Len(l)]
    BY <1>2, ConcatProperties
  <1> HIDE DEF s
  <1>4. ASSUME NEW k \in 1..Len(l) PROVE s[k] = l[k]
    <2>1. k \in 1..(Len(l) + Len(piece)) /\ k <= Len(l)
      BY <1>1, <1>2
    <2> QED BY <1>3, <2>1
  <1>5. ASSUME NEW k \in 1..n PROVE s[Len(l) + k] = u[k]
    <2>1. /\ Len(l) + k \in 1..(Len(l) + Len(piece)) /\ ~ (Len(l) + k <= Len(l))
          /\ Len(l) + k - Len(l) = k
      BY <1>1, <1>2
    <2>2. s[Len(l) + k] = piece[k]
      BY <1>3, <2>1
    <2> QED BY <1>2, <2>2
  <1> QED BY <1>2, <1>3, <1>4, <1>5 DEF s, piece

\* n characters are read.
Reads(n) ==
  /\ text' = text
  /\ line' = line \o SubSeq(unread, 1, n)
  /\ unread' = SubSeq(unread, n + 1, Len(unread))

\* What a read does to the buffer.
LEMMA ReadShape ==
  ASSUME Within, Contents, NEW n \in 0..Len(unread), Reads(n)
  PROVE  /\ line' \in Seq(Chars) /\ Len(line') = Len(line) + n
         /\ \A k \in 1..Len(line) : line'[k] = line[k]
         /\ \A k \in 1..n : line'[Len(line) + k] = unread[k]
         /\ unread' \in Seq(Chars) /\ Len(unread') = Len(unread) - n
         /\ Gone' = Gone /\ Taken' = Taken + n
         /\ Contents'
  <1>1. /\ unread \in Seq(Chars) /\ line \in Seq(Chars)
        /\ Len(text) \in Nat /\ Len(unread) \in Nat /\ Len(line) \in Nat /\ n \in Nat
        /\ n <= Len(unread)
        /\ Gone \in Nat /\ Taken = Gone + Len(line) /\ Taken + Len(unread) = Len(text)
    BY Places
  <1>2. /\ unread' \in Seq(Chars) /\ Len(unread') = Len(unread) - n
        /\ \A k \in 1..(Len(unread) - n) : unread'[k] = unread[n + k]
    <2>1. n + 1 \in Int /\ Len(unread) \in Int /\ 1 <= n + 1 /\ n + 1 <= Len(unread) + 1
          /\ Len(unread) - (n + 1) + 1 = Len(unread) - n /\ Len(unread) <= Len(unread)
          /\ \A k \in 1..(Len(unread) - n) : n + 1 + k - 1 = n + k
      BY <1>1
    <2>2. /\ unread' \in Seq(Chars) /\ Len(unread') = Len(unread) - (n + 1) + 1
          /\ \A k \in 1..(Len(unread) - (n + 1) + 1) : unread'[k] = unread[n + 1 + k - 1]
      BY <1>1, <2>1, Part DEF Reads
    <2> QED BY <2>1, <2>2
  <1>3. line' \in Seq(Chars) /\ Len(line') = Len(line) + n
    BY <1>1, Joined DEF Reads
  <1>4. \A k \in 1..Len(line) : line'[k] = line[k]
    BY <1>1, Joined DEF Reads
  <1>5. \A k \in 1..n : line'[Len(line) + k] = unread[k]
    BY <1>1, Joined DEF Reads
  <1>6. Gone' = Gone /\ Taken' = Taken + n
    <2>1. Len(text') = Len(text)
      BY DEF Reads
    <2> QED BY <1>1, <1>2, <1>3, <2>1 DEF Gone, Taken
  <1>7. Contents'
    <2>1. Len(unread') + Len(line') <= Len(text)
      BY <1>1, <1>2, <1>3
    <2>2. ASSUME NEW k \in 1..Len(line') PROVE line'[k] = text[Gone' + k]
      <3>1. CASE k <= Len(line)
        <4>1. k \in 1..Len(line)
          BY <1>1, <1>3, <3>1
        <4> QED BY <1>4, <1>6, <4>1 DEF Contents
      <3>2. CASE ~ (k <= Len(line))
        <4>1. k - Len(line) \in 1..n /\ Len(line) + (k - Len(line)) = k
              /\ Taken + (k - Len(line)) = Gone + k /\ k - Len(line) \in 1..Len(unread)
          BY <1>1, <1>3, <3>2
        <4>2. line'[k] = unread[k - Len(line)]
          BY <1>5, <4>1
        <4>3. unread[k - Len(line)] = text[Taken + (k - Len(line))]
          BY <4>1 DEF Contents
        <4> QED BY <1>6, <4>1, <4>2, <4>3
      <3> QED BY <3>1, <3>2
    <2>3. ASSUME NEW k \in 1..Len(unread') PROVE unread'[k] = text[Taken' + k]
      <3>1. k \in 1..(Len(unread) - n) /\ n + k \in 1..Len(unread) /\ Taken' + k = Taken + (n + k)
        BY <1>1, <1>2, <1>6
      <3>2. unread[n + k] = text[Taken + (n + k)]
        BY <3>1 DEF Contents
      <3> QED BY <1>2, <3>1, <3>2
    <2>4. text' = text
      BY DEF Reads
    <2> QED BY <2>1, <2>2, <2>3, <2>4 DEF Contents
  <1> QED BY <1>2, <1>3, <1>4, <1>5, <1>6, <1>7

\* Where lines fit, a read at the terminal takes a whole one or all there is.
LEMMA DialogueReads ==
  ASSUME Within, Contents, NEW n \in Pieces, Reads(n), stdin, Interactive,
         line = << >>, unread # << >>
  PROVE  /\ line' # << >>
         /\ Ends(line') \subseteq {Len(line')}
         /\ Len(line') \in Ends(line') \/ unread' = << >>
  <1>1. /\ text \in Seq(Chars) /\ Len(text) \in Nat /\ Len(unread) \in Nat /\ Len(line) = 0
        /\ Len(unread) # 0 /\ Taken \in Nat /\ Taken + Len(unread) = Len(text)
        /\ MaxLine \in Nat \ {0}
        /\ \A k \in 1..Len(unread) : k \in Ends(unread) <=> Taken + k \in Ends(text)
    BY Places, ReaderAssumption
  <1>2. /\ n \in 0..Len(unread) /\ n <= MaxLine
        /\ \/ n \in Ends(unread) /\ \A j \in Ends(unread) : n <= j
           \/ /\ \A j \in Ends(unread) : j > MaxLine
              /\ n = Len(unread) \/ (n = MaxLine /\ n <= Len(unread))
    <2>1. MaxLine - Len(line) = MaxLine /\ Len(line) + n = n
      <3>1. n \in 0..Len(unread)
        BY PieceShape DEF Within
      <3> QED BY <1>1, <3>1
    <2> QED BY <2>1, PieceShape DEF Within, Interactive
  <1>3. /\ line' \in Seq(Chars) /\ Len(line') = n /\ n \in Nat
        /\ \A k \in 1..n : line'[k] = unread[k]
        /\ unread' \in Seq(Chars) /\ Len(unread') = Len(unread) - n
    <2>1. /\ line' \in Seq(Chars) /\ Len(line') = Len(line) + n
          /\ \A k \in 1..n : line'[Len(line) + k] = unread[k]
          /\ unread' \in Seq(Chars) /\ Len(unread') = Len(unread) - n
      BY <1>2, ReadShape
    <2>2. n \in Nat /\ Len(line) + n = n /\ \A k \in 1..n : Len(line) + k = k
      BY <1>1, <1>2
    <2> QED BY <2>1, <2>2
  <1>4. \A k : k \in Ends(line') <=> k \in 1..n /\ k \in Ends(unread)
    <2> SUFFICES ASSUME NEW k PROVE k \in Ends(line') <=> k \in 1..n /\ k \in Ends(unread)
      OBVIOUS
    <2>1. k \in 1..n => k \in 1..Len(unread) /\ line'[k] = unread[k]
      BY <1>1, <1>2, <1>3
    <2> QED BY <1>3, <2>1 DEF Ends
  <1>5. n # 0
    BY <1>1, <1>2 DEF Ends
  <1>6. line' # << >>
    <2>1. Len(line') # 0
      BY <1>3, <1>5
    <2> QED BY <1>3, <2>1, EmptySeq
  <1>7. CASE n \in Ends(unread) /\ \A j \in Ends(unread) : n <= j
    <2>1. n \in 1..n
      BY <1>3, <1>5
    <2>2. ASSUME NEW k \in Ends(line') PROVE k = n
      <3>1. k \in 1..n /\ n <= k
        BY <1>4, <1>7
      <3> QED BY <1>3, <3>1
    <2> QED BY <1>3, <1>4, <1>6, <1>7, <2>1, <2>2
  <1>8. CASE /\ \A j \in Ends(unread) : j > MaxLine
             /\ n = Len(unread) \/ (n = MaxLine /\ n <= Len(unread))
    <2>1. n = Len(unread)
      <3> SUFFICES ASSUME n = MaxLine, n <= Len(unread) PROVE FALSE
        BY <1>8
      <3>1. Taken + MaxLine <= Len(text)
        BY <1>1
      <3>2. PICK e \in Ends(text) : Taken < e /\ e <= Taken + MaxLine
        BY <1>1, <3>1, FitsSays DEF Interactive
      <3>3. e \in Nat
        BY <1>1 DEF Ends
      <3>4. e - Taken \in 1..Len(unread) /\ Taken + (e - Taken) = e /\ ~ (e - Taken > MaxLine)
        BY <1>1, <3>2, <3>3
      <3>5. e - Taken \in Ends(unread)
        BY <1>1, <3>4
      <3> QED BY <1>8, <3>4, <3>5
    <2>2. ASSUME NEW k \in Ends(line') PROVE FALSE
      <3>1. k \in 1..n /\ k > MaxLine
        BY <1>4, <1>8
      <3> QED BY <1>1, <1>2, <1>3, <3>1
    <2>3. unread' = << >>
      <3>1. Len(unread') = 0
        BY <1>1, <1>3, <2>1
      <3> QED BY <1>3, <3>1, EmptySeq
    <2> QED BY <1>6, <2>2, <2>3
  <1> QED BY <1>2, <1>7, <1>8

LEMMA ReadSound == Sound /\ Read => Sound'
  <1> SUFFICES ASSUME Sound, Read PROVE Sound'
    OBVIOUS
  <1>1. /\ Within /\ Contents /\ Searched /\ pc = "read" /\ head' = 1
        /\ pc' = IF line' = << >> THEN "back" ELSE "scan"
        /\ UNCHANGED <<stdin, piped, failed, text, seek, ran>>
    BY DEF Sound, Read, input
  <1>2. PICK n \in Pieces : Reads(n)
    BY <1>1 DEF Read, Reads
  <1>3. /\ text \in Seq(Chars) /\ unread \in Seq(Chars) /\ line \in Seq(Chars)
        /\ Len(text) \in Nat /\ Len(unread) \in Nat /\ Len(line) \in Nat /\ MaxLine \in Nat
        /\ Gone \in Nat /\ Taken \in Nat /\ Taken = Gone + Len(line)
        /\ Taken + Len(unread) = Len(text)
        /\ unread = << >> <=> Len(unread) = 0
        /\ line = << >> <=> Len(line) = 0
    BY <1>1, Places
  <1>4. head = 1 /\ seek = Len(line) + 1 /\ Ends(line) = {}
    BY <1>1 DEF Searched
  <1>5. /\ n \in 0..Len(unread) /\ n \in Nat /\ Len(line) + n <= MaxLine
        /\ unread = << >> => n = 0
        /\ ~ stdin /\ n = 0 => unread = << >>
    <2>1. /\ n \in 0..Len(unread) /\ Len(line) + n <= MaxLine
          /\ unread = << >> => n = 0
          /\ ~ stdin /\ n = 0 => unread = << >>
      BY <1>1, <1>2, PieceShape DEF Within
    <2> QED BY <1>3, <2>1
  <1>6. /\ line' \in Seq(Chars) /\ Len(line') = Len(line) + n
        /\ \A k \in 1..Len(line) : line'[k] = line[k]
        /\ unread' \in Seq(Chars) /\ Len(unread') = Len(unread) - n
        /\ Gone' = Gone /\ Taken' = Taken + n /\ Contents'
    BY <1>1, <1>2, <1>5, ReadShape
  <1>7. line' = << >> <=> Len(line) = 0 /\ n = 0
    <2>1. line' = << >> <=> Len(line') = 0
      BY <1>6, EmptySeq
    <2> QED BY <1>3, <1>5, <1>6, <2>1
  <1>8. Within'
    <2>1. Len(line') <= MaxLine /\ 1 \in 1..(Len(line') + 1)
          /\ Len(line) + 1 \in 1..(Len(line') + 1)
      BY <1>3, <1>5, <1>6
    <2>2. pc' \in {"call", "read", "scan", "back"}
      BY <1>1
    <2>3. (head \in 1..(Len(line) + 1) /\ seek \in 1..(Len(line) + 1))'
      BY <1>1, <1>4, <2>1
    <2> QED BY <1>1, <1>6, <2>1, <2>2, <2>3 DEF Within
  <1>9. Searched'
    <2>1. pc' # "read"
      BY <1>1
    <2>2. head' <= seek'
      BY <1>1, <1>3, <1>4
    <2>3. ASSUME NEW k \in Ends(line') PROVE k >= seek'
      <3>1. k \in 1..(Len(line) + n) /\ line'[k] = "n"
        BY <1>6 DEF Ends
      <3>2. k \in 1..Len(line) => line[k] = "n" /\ k \in Ends(line)
        BY <1>6, <3>1 DEF Ends
      <3>3. k \notin 1..Len(line)
        BY <1>4, <3>2
      <3> QED BY <1>1, <1>3, <1>4, <1>5, <3>1, <3>3
    <2>4. \A k \in Ends(line)' : k >= seek'
      BY <2>3 DEF Ends
    <2> QED BY <2>1, <2>2, <2>4 DEF Searched
  <1>10. (~ stdin => Script)'
    <2> SUFFICES ASSUME ~ stdin PROVE Script'
      BY <1>1
    <2>1. Cut(Gone + head - 1) /\ CountTo(Gone + head - 1)
      BY <1>1 DEF Sound, Script
    <2>2. CASE line' # << >>
      <3>1. pc' = "scan" /\ Gone' + head' - 1 = Gone + head - 1
        BY <1>1, <1>4, <1>6, <2>2
      <3> QED BY <1>1, <2>1, <3>1, RanKeeps DEF Script
    <2>3. CASE line' = << >>
      <3>1. pc' = "back" /\ unread = << >> /\ Len(line) = 0
        BY <1>1, <1>5, <1>7, <2>3
      <3>2. Gone + head - 1 = Len(text)
        BY <1>3, <1>4, <3>1
      <3>3. EndsTo(Len(text)) = Ends(text)
        <4>1. \A x \in Ends(text) : x <= Len(text)
          BY <1>3 DEF Ends
        <4> QED BY <4>1 DEF EndsTo
      <3>4. Len(ran) = Cardinality(Ends(text))
        BY <2>1, <3>2, <3>3 DEF CountTo
      <3> QED BY <1>1, <3>1, <3>4, RanKeeps DEF Script
    <2> QED BY <2>2, <2>3
  <1>11. (stdin /\ Interactive => Dialogue)'
    <2> SUFFICES ASSUME stdin, Interactive PROVE Dialogue'
      BY <1>1, InputKeeps
    <2>1. CountTo(Taken) /\ (unread # << >> => Cut(Taken)) /\ line = << >>
      BY <1>1 DEF Sound, Dialogue
    <2>2. CASE unread = << >>
      <3>1. n = 0 /\ line' = << >> /\ pc' = "back"
        BY <1>1, <1>3, <1>5, <1>7, <2>1, <2>2
      <3>2. Taken' = Taken /\ unread' = << >>
        <4>1. Len(unread') = 0
          BY <1>3, <1>6, <2>2, <3>1
        <4> QED BY <1>3, <1>6, <3>1, <4>1, EmptySeq
      <3> QED BY <1>1, <2>1, <3>1, <3>2, RanKeeps DEF Dialogue
    <2>3. CASE unread # << >>
      <3>1. /\ line' # << >>
            /\ Ends(line') \subseteq {Len(line')}
            /\ Len(line') \in Ends(line') \/ unread' = << >>
        BY <1>1, <1>2, <2>1, <2>3, DialogueReads
      <3>2. Gone' + head' - 1 = Taken /\ pc' = "scan"
        BY <1>1, <1>3, <1>6, <2>1, <3>1
      <3>3. (/\ Ends(line) \subseteq {Len(line)}
             /\ Len(line) \in Ends(line) \/ unread = << >>)'
        BY <3>1 DEF Ends
      <3> QED BY <1>1, <2>1, <2>3, <3>2, <3>3, RanKeeps DEF Dialogue
    <2> QED BY <2>2, <2>3
  <1>12. ((stdin => Interactive) => LineByLine)'
    BY <1>1, InputKeeps DEF Sound
  <1> QED BY <1>6, <1>8, <1>9, <1>10, <1>11, <1>12 DEF Sound

\* Reads that have gone well so far, and the steps that are no failed read.
LEMMA StepSound == Sound /\ [Next]_vars /\ ~ failed' => Sound'
  <1> SUFFICES ASSUME Sound, [Next]_vars, ~ failed' PROVE Sound'
    OBVIOUS
  <1>1. CASE Call    BY <1>1, CallSound
  <1>2. CASE Read    BY <1>2, ReadSound
  <1>3. CASE Execute BY <1>3, ExecuteSound
  <1>4. CASE TooLong BY <1>4, TooLongSound
  <1>5. CASE Move    BY <1>5, MoveSound
  <1>6. CASE Again   BY <1>6, AgainSound
  <1>7. CASE UNCHANGED vars
    <2>1. UNCHANGED <<stdin, piped, failed, text, unread, line, head, seek, pc, ran>>
      BY <1>7 DEF vars, input
    <2>2. Gone' = Gone /\ Taken' = Taken
      BY <2>1 DEF Gone, Taken
    <2>3. Within' /\ Contents' /\ Searched'
      BY <2>1, <2>2 DEF Sound, Within, Contents, Searched
    <2>4. (~ stdin => Script)' /\ (stdin /\ Interactive => Dialogue)'
      BY <2>1, <2>2, RanKeeps, InputKeeps DEF Sound, Script, Dialogue
    <2>5. ((stdin => Interactive) => LineByLine)'
      BY <2>1, InputKeeps DEF Sound
    <2> QED BY <2>3, <2>4, <2>5 DEF Sound
  <1>8. CASE ReadFails
    BY <1>8 DEF ReadFails
  <1> QED BY <1>1, <1>2, <1>3, <1>4, <1>5, <1>6, <1>7, <1>8 DEF Next

\* The types, whether a read has failed or not.
LEMMA StepTypes ==
  ASSUME TypeOK, Resumed, [Next]_vars
  PROVE  TypeOK' /\ Resumed'
  <1>1. /\ unread \in Seq(Chars) /\ line \in Seq(Chars) /\ ran \in Seq(Seq(Chars))
        /\ Len(line) \in Nat /\ Len(unread) \in Nat /\ MaxLine \in Nat \ {0}
        /\ Len(line) <= MaxLine
        /\ head \in 1..(Len(line) + 1) /\ seek \in 1..(Len(line) + 2)
        /\ stdin \in Stdins /\ piped \in Pipes /\ text \in Texts /\ failed \in BOOLEAN
    BY ListShape, ReaderAssumption DEF TypeOK
  <1>2. CASE Call
    <2>1. line' = << >> /\ head' = 1 /\ seek' = 1 /\ pc' = "read" /\ Len(line') = 0
          /\ line' \in Seq(Chars)
          /\ UNCHANGED <<stdin, piped, text, unread, ran, failed>>
      BY <1>2, EmptySeq DEF Call, input
    <2>2. (head \in 1..(Len(line) + 1) /\ seek \in 1..(Len(line) + 2))'
          /\ (Len(line) <= MaxLine)' /\ (seek = Len(line) + 1)' /\ ~ (seek = Len(line) + 2)'
      BY <1>1, <2>1
    <2> QED BY <1>1, <2>1, <2>2 DEF TypeOK, Resumed
  <1>3. CASE Read
    <2>1. PICK n \in Pieces :
            /\ line' = line \o SubSeq(unread, 1, n)
            /\ unread' = SubSeq(unread, n + 1, Len(unread))
      BY <1>3 DEF Read
    <2>2. n \in 0..Len(unread) /\ Len(line) + n <= MaxLine
      BY <1>1, PieceShape
    <2>3. line' \in Seq(Chars) /\ Len(line') = Len(line) + n
      BY <1>1, <2>1, <2>2, Joined
    <2>4. unread' \in Seq(Chars)
      <3>1. n + 1 \in Int /\ Len(unread) \in Int /\ 1 <= n + 1 /\ n + 1 <= Len(unread) + 1
            /\ Len(unread) <= Len(unread)
        BY <1>1, <2>2
      <3> QED BY <1>1, <2>1, <3>1, Part
    <2>5. /\ head' = 1 /\ pc' = (IF line' = << >> THEN "back" ELSE "scan")
          /\ UNCHANGED <<stdin, piped, text, seek, ran, failed>> /\ pc = "read"
      BY <1>3 DEF Read, input
    <2>6. seek = Len(line) + 1
      BY <2>5 DEF Resumed
    <2>7. (head \in 1..(Len(line) + 1) /\ seek \in 1..(Len(line) + 2))'
          /\ (Len(line) <= MaxLine)' /\ ~ (seek = Len(line) + 2)' /\ pc' \in {"back", "scan"}
      BY <1>1, <2>2, <2>3, <2>5, <2>6
    <2> QED BY <1>1, <2>3, <2>4, <2>5, <2>7 DEF TypeOK, Resumed
  <1>4. CASE ReadFails
    <2>1. /\ pc = "read" /\ failed' = TRUE /\ head' = 1
          /\ UNCHANGED <<stdin, piped, text, unread, seek, ran>>
          /\ line = << >> => line' = line /\ pc' \in {"wild", "back"}
          /\ line # << >> => line' = Front(line) /\ pc' \in {"back", "scan"}
      BY <1>4 DEF ReadFails, input
    <2>2. seek = Len(line) + 1
      BY <2>1 DEF Resumed
    <2>3. line' \in Seq(Chars) /\ (Len(line') = Len(line) \/ Len(line') = Len(line) - 1)
          /\ Len(line') \in Nat
      <3>1. CASE line = << >>
        BY <1>1, <2>1, <3>1
      <3>2. CASE line # << >>
        <4>1. Len(line) # 0
          BY <1>1, <3>2, EmptySeq
        <4>2. 1 \in Int /\ Len(line) - 1 \in Int /\ 1 <= 1 /\ Len(line) - 1 <= Len(line)
              /\ 1 <= Len(line) - 1 + 1 /\ Len(line) - 1 - 1 + 1 = Len(line) - 1
              /\ Len(line) - 1 \in Nat
          BY <1>1, <4>1
        <4>3. line' = SubSeq(line, 1, Len(line) - 1)
          BY <2>1, <3>2 DEF Front
        <4>4. line' \in Seq(Chars) /\ Len(line') = Len(line) - 1 - 1 + 1
          BY <1>1, <4>2, <4>3, Part
        <4> QED BY <4>2, <4>4
      <3> QED BY <3>1, <3>2
    <2>4. (head \in 1..(Len(line) + 1) /\ seek \in 1..(Len(line) + 2))'
          /\ (Len(line) <= MaxLine)' /\ pc' \in {"wild", "back", "scan"}
      BY <1>1, <2>1, <2>2, <2>3
    <2> QED BY <1>1, <2>1, <2>3, <2>4 DEF TypeOK, Resumed
  <1>5. CASE Execute
    <2>1. PICK k \in NextEnd :
            /\ ran' = Append(ran, SubSeq(line, head, k - 1))
            /\ \/ pc' = "back" /\ head' = head /\ seek' = seek
               \/ head' = k + 1 /\ seek' = k + 1 /\ pc' = pc
      BY <1>5 DEF Execute
    <2>2. k \in 1..Len(line) /\ k >= seek /\ pc = "scan"
          /\ UNCHANGED <<stdin, piped, text, unread, line, failed>>
      BY <1>5 DEF Execute, NextEnd, Ends, input
    <2>3. ran' \in Seq(Seq(Chars))
      <3>1. SubSeq(line, head, k - 1) \in Seq(Chars)
        <4>1. \A i \in 1..Len(line) : line[i] \in Chars
          BY <1>1, ListShape
        <4>2. \A i \in head..(k - 1) : line[i] \in Chars
          BY <1>1, <2>2, <4>1
        <4> QED BY <1>1, <2>2, <4>2, SubSeqProperties
      <3> QED BY <1>1, <2>1, <3>1, Appended
    <2>4. (head \in 1..(Len(line) + 1) /\ seek \in 1..(Len(line) + 2))'
          /\ ((seek = Len(line) + 2)' => seek = Len(line) + 2) /\ pc' \in {"back", "scan"}
      BY <1>1, <2>1, <2>2
    <2> QED BY <1>1, <2>2, <2>3, <2>4 DEF TypeOK, Resumed
  <1>6. CASE TooLong
    BY <1>6 DEF TooLong, input, TypeOK, Resumed
  <1>7. CASE Move
    <2>1. /\ line' = SubSeq(line, head, Len(line)) /\ seek' = Len(line') + 1 /\ head' = 1
          /\ pc' \in {"back", "read"}
          /\ UNCHANGED <<stdin, piped, text, unread, ran, failed>>
      BY <1>7 DEF Move, Rest, Sought, input
    <2>2. line' \in Seq(Chars) /\ Len(line') = Len(line) - head + 1
      <3>1. head \in Int /\ Len(line) \in Int /\ 1 <= head /\ Len(line) <= Len(line)
            /\ head <= Len(line) + 1
        BY <1>1
      <3> QED BY <1>1, <2>1, <3>1, Part
    <2>3. (head \in 1..(Len(line) + 1) /\ seek \in 1..(Len(line) + 2))'
          /\ (Len(line) <= MaxLine)' /\ ~ (seek = Len(line) + 2)'
      BY <1>1, <2>1, <2>2
    <2> QED BY <1>1, <2>1, <2>2, <2>3 DEF TypeOK, Resumed
  <1>8. CASE Again
    BY <1>8 DEF Again, input, TypeOK, Resumed
  <1>9. CASE UNCHANGED vars
    BY <1>9 DEF vars, input, TypeOK, Resumed
  <1> QED BY <1>2, <1>3, <1>4, <1>5, <1>6, <1>7, <1>8, <1>9 DEF Next

-----------------------------------------------------------------------------
(* The theorems                                                                *)

\* Nothing of the text is lost or read twice between unread, buffer and what was
\* executed, through all reads, executions and moves of command_process, as long as no
\* read fails.
THEOREM ReaderInvariant == Spec => []IInv
  <1>1. Init => IInv
    <2> SUFFICES ASSUME Init PROVE IInv
      OBVIOUS
    <2>1. Sound
      BY InitSound
    <2>2. TypeOK /\ Resumed
      <3>1. Len(line) \in Nat /\ seek = 1 /\ pc = "call" /\ Within
        BY <2>1, Places DEF Sound, Init
      <3>2. seek \in 1..(Len(line) + 2) /\ ~ (seek = Len(line) + 2)
        BY <3>1
      <3> QED BY <3>1, <3>2 DEF TypeOK, Resumed, Within
    <2> QED BY <2>1, <2>2 DEF IInv
  <1>2. IInv /\ [Next]_vars => IInv'
    <2> SUFFICES ASSUME IInv, [Next]_vars PROVE IInv'
      OBVIOUS
    <2>1. TypeOK' /\ Resumed'
      BY StepTypes DEF IInv
    <2>2. ~ failed' => ~ failed
      BY DEF Next, Call, Read, ReadFails, Execute, TooLong, Move, Again, vars
    <2>3. ~ failed' => Sound'
      BY <2>2, StepSound DEF IInv
    <2> QED BY <2>1, <2>3 DEF IInv
  <1> QED BY <1>1, <1>2, PTL DEF Spec

\* The indexes into the buffer of command_process stay in it, its content within
\* MAX_LINE_SIZE, until a read fails with nothing in the buffer; after a read that fails
\* with something in it the search begins one character behind its end.
THEOREM ReaderTypes == Spec => []TypeOK
  <1>1. IInv => TypeOK
    BY DEF IInv
  <1> QED BY <1>1, ReaderInvariant, PTL

\* command_process executes the lines of the text, from the first on, each once and
\* whole, however read cuts the text, as long as no read fails; from a terminal as long
\* as lines fit.
THEOREM ReaderPrefix == Spec => []Prefix
  <1>1. IInv => Prefix
    BY DEF IInv, Sound, Prefix
  <1> QED BY <1>1, ReaderInvariant, PTL

\* When command_process comes back from a script whose lines fit into the buffer, and
\* no read has failed, it has executed all of them, or the last it executed failed.
THEOREM ReaderAllRun == Spec => []AllRun
  <1>1. IInv => AllRun
    BY DEF IInv, Sound, AllRun, AllExecuted, Script
  <1> QED BY <1>1, ReaderInvariant, PTL

\* When command_process comes back from the terminal, nothing is left to read and no read
\* has failed, all lines, if they fit, have been executed: none waits in a buffer that the
\* next call clears.
THEOREM ReaderTerminalRuns == Spec => []TerminalRuns
  <1> SUFFICES IInv => TerminalRuns
    BY ReaderInvariant, PTL
  <1> SUFFICES ASSUME Sound, stdin, Interactive, pc = "back", unread = << >>
               PROVE  AllExecuted
    BY DEF IInv, TerminalRuns
  <1>1. CountTo(Taken) /\ LineByLine
    BY DEF Sound, Dialogue
  <1>2. Taken = Len(text) /\ text \in Seq(Chars) /\ Len(text) \in Nat
    <2>1. /\ Taken + Len(unread) = Len(text) /\ Taken \in Nat /\ Len(unread) = 0
          /\ text \in Seq(Chars) /\ Len(text) \in Nat
      BY Places DEF Sound
    <2> QED BY <2>1
  <1>3. EndsTo(Len(text)) = Ends(text)
    <2>1. \A x \in Ends(text) : x <= Len(text)
      BY <1>2 DEF Ends
    <2> QED BY <2>1 DEF EndsTo
  <1> QED BY <1>1, <1>2, <1>3 DEF AllExecuted, CountTo
=============================================================================

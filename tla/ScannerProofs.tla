---------------------------- MODULE ScannerProofs ----------------------------
(***************************************************************************)
(* What TLAPS proves of Scanner, for every file: no rule leads out of the  *)
(* file, no string or character begins with what an earlier one left, and  *)
(* the tokens are those of the constructs that the file consists of.       *)
(***************************************************************************)
EXTENDS Scanner, SequenceTheorems, SequenceProofs, FiniteSetTheorems

\* Every line has an end, which `.*' comes to.
LEMMA LineEnds ==
    ASSUME input \in Seq(Characters), at \in 1 .. Len(input) + 1
    PROVE  /\ RestOfLine \in Nat /\ at + RestOfLine \in 1 .. Len(input) + 1
           /\ at + RestOfLine <= Len(input) + 1
           /\ \A i \in at .. at + RestOfLine - 1 : CharacterOf(input, i) # "newline"
<1> DEFINE Stops(i) == Character(i) \in {"newline", END_OF_FILE}
           n == Len(input)
           T == {m \in Nat : Stops(at + m)}
           OneLine(m) ==
             /\ \A i \in at .. at + m - 1 : Character(i) \notin {"newline", END_OF_FILE}
             /\ Character(at + m) \in {"newline", END_OF_FILE}
<1>1. n \in Nat /\ at \in Nat /\ 1 <= at /\ at <= n + 1 /\ DOMAIN input = 1 .. n
  BY LenProperties
<1>2. n + 1 - at \in T
  <2>1. n + 1 - at \in Nat /\ at + (n + 1 - at) = n + 1 /\ n + 1 \notin DOMAIN input
    BY <1>1
  <2> QED
    BY <2>1 DEF Character, CharacterOf
<1>3. PICK m \in T : \A k \in T : m <= k
  BY <1>2, LeastNumber
<1>4. OneLine(m)
  <2>1. ASSUME NEW i \in at .. at + m - 1 PROVE ~Stops(i)
    <3>1. i - at \in Nat /\ ~(m <= i - at) /\ at + (i - at) = i
      BY <1>1
    <3>2. i - at \notin T
      BY <1>3, <3>1
    <3> QED
      BY <3>1, <3>2
  <2> QED
    BY <2>1
<1>5. m \in 0 .. n
  <2>1. m \in Nat /\ m <= n + 1 - at
    BY <1>2, <1>3
  <2> HIDE DEF T
  <2> QED
    BY <1>1, <2>1
<1>6. RestOfLine \in 0 .. n /\ OneLine(RestOfLine)
  <2>1. RestOfLine = CHOOSE k \in 0 .. n : OneLine(k)
    BY DEF RestOfLine
  <2> HIDE DEF OneLine
  <2> QED
    BY <1>4, <1>5, <2>1
<1>7. at + RestOfLine <= n + 1
  <2> SUFFICES ASSUME at + RestOfLine > n + 1 PROVE FALSE
    BY <1>1, <1>6
  <2>1. n + 1 \in at .. at + RestOfLine - 1 /\ n + 1 \notin DOMAIN input
    BY <1>1, <1>6
  <2> QED
    BY <1>6, <2>1 DEF Character, CharacterOf
<1>8. \A i \in at .. at + RestOfLine - 1 : CharacterOf(input, i) # "newline"
  BY <1>6 DEF Character
<1> QED
  BY <1>1, <1>6, <1>7, <1>8

ScannerInv == TypeOK /\ BuffersStartEmpty

LEMMA ScannerInit == Init => ScannerInv
<1> SUFFICES ASSUME Init PROVE ScannerInv
  OBVIOUS
<1>1. input \in Seq(Characters)
  BY InputsAssumption DEF Init
<1>2. at \in 1 .. Len(input) + 1
  BY <1>1, LenProperties DEF Init
<1>3. TypeOK
  <2>1. <<>> \in Seq(Characters)
    OBVIOUS
  <2> QED
    BY <1>2, <2>1 DEF Init, TypeOK, Conditions
<1>4. BuffersStartEmpty
  BY DEF Init, BuffersStartEmpty
<1> QED
  BY <1>3, <1>4 DEF ScannerInv

\* A match of so many characters, all of which are in the file.
LEMMA MatchStays ==
    ASSUME ScannerInv, NEW start, NEW n \in Nat, Match(start, n),
           at + n <= Len(input) + 1
    PROVE  input' \in Inputs /\ at' \in 1 .. Len(input') + 1
<1>1. input \in Seq(Characters) /\ at \in 1 .. Len(input) + 1 /\ Len(input) \in Nat
  BY InputsAssumption, LenProperties DEF ScannerInv, TypeOK
<1> QED
  BY <1>1 DEF Match, ScannerInv, TypeOK

\* The character that comes next is in the file, or it is the end.
LEMMA NextCharacter ==
    ASSUME ScannerInv
    PROVE  /\ This # END_OF_FILE => This \in Characters /\ at + 1 <= Len(input) + 1
           /\ This # END_OF_FILE /\ Following # END_OF_FILE =>
                 Following \in Characters /\ at + 2 <= Len(input) + 1
           /\ at <= Len(input) + 1 /\ END_OF_FILE \notin Characters
<1>1. input \in Seq(Characters) /\ at \in 1 .. Len(input) + 1 /\ Len(input) \in Nat
      /\ DOMAIN input = 1 .. Len(input)
  BY InputsAssumption, LenProperties DEF ScannerInv, TypeOK
<1>2. This # END_OF_FILE => at \in 1 .. Len(input) /\ This = input[at]
  BY <1>1 DEF This, Character, CharacterOf
<1>3. Following # END_OF_FILE => at + 1 \in 1 .. Len(input) /\ Following = input[at + 1]
  BY <1>1 DEF Following, Character, CharacterOf
<1>4. \A i \in 1 .. Len(input) : input[i] \in Characters
  BY <1>1, ElementOfSeq
<1>5. END_OF_FILE \notin Characters
  BY DEF END_OF_FILE, Characters, White, Words, Blocks, Operators, Escapes
<1> QED
  BY <1>1, <1>2, <1>3, <1>4, <1>5

\* The rules that match one character or two of those that may be there.
LEMMA StepStays == ScannerInv /\ Step => input' \in Inputs /\ at' \in 1 .. Len(input') + 1
<1> SUFFICES ASSUME ScannerInv, Step PROVE input' \in Inputs /\ at' \in 1 .. Len(input') + 1
  OBVIOUS
<1>1. 0 \in Nat /\ 1 \in Nat /\ 2 \in Nat /\ at + 0 <= Len(input) + 1
  <2>1. at <= Len(input) + 1 /\ at \in Nat
    BY NextCharacter DEF ScannerInv, TypeOK
  <2> QED
    BY <2>1
<1>2. /\ "slash" # END_OF_FILE /\ "star" # END_OF_FILE /\ "colon" # END_OF_FILE
      /\ END_OF_FILE \notin Escapes /\ END_OF_FILE \notin Words /\ END_OF_FILE \notin White
      /\ END_OF_FILE \notin Operators /\ END_OF_FILE \notin Blocks
      /\ "quote" # END_OF_FILE /\ "apostrophe" # END_OF_FILE /\ "hash" # END_OF_FILE
      /\ "digits" # END_OF_FILE /\ "unknown" # END_OF_FILE /\ "backslash" # END_OF_FILE
      /\ "newline" # END_OF_FILE /\ "end" # END_OF_FILE
  BY DEF END_OF_FILE, Escapes, Words, White, Operators, Blocks
<1>3. CASE \/ Blank \/ End \/ Word \/ Digits \/ Operator \/ Quote \/ Apostrophe
           \/ UnknownSymbol \/ EndOfBlock \/ EndBlank \/ CharClosed \/ CharInside
           \/ StringClosed \/ StringNewline \/ StringInside \/ CommentClosed \/ MultilineInside
  <2>1. This # END_OF_FILE
    BY <1>2, <1>3 DEF Blank, End, Word, Digits, Operator, Quote, Apostrophe, UnknownSymbol,
       EndOfBlock, EndBlank, CharClosed, CharInside, StringClosed, StringNewline, StringInside,
       CommentClosed, MultilineInside
  <2>2. \E start : Match(start, 1)
    BY <1>3 DEF Blank, End, Word, Digits, Operator, Quote, Apostrophe, UnknownSymbol,
       EndOfBlock, EndBlank, CharClosed, CharInside, StringClosed, StringNewline, StringInside,
       CommentClosed, MultilineInside
  <2> QED
    BY <1>1, <2>1, <2>2, NextCharacter, MatchStays
<1>4. CASE Label \/ MultilineComment \/ StringEscape \/ MultilineClosed
  <2>1. This # END_OF_FILE /\ Following # END_OF_FILE
    BY <1>2, <1>4 DEF Label, MultilineComment, StringEscape, MultilineClosed
  <2>2. \E start : Match(start, 2)
    BY <1>4 DEF Label, MultilineComment, StringEscape, MultilineClosed
  <2> QED
    BY <1>1, <2>1, <2>2, NextCharacter, MatchStays
<1>5. CASE Comment
  <2>1. CASE This = "hash" /\ Match("INITIAL", 1)
    BY <1>1, <1>2, <2>1, NextCharacter, MatchStays
  <2>2. CASE This = "slash" /\ Following = "slash" /\ Match("INITIAL", 2)
    BY <1>1, <1>2, <2>2, NextCharacter, MatchStays
  <2> QED
    BY <1>5, <2>1, <2>2 DEF Comment
<1>6. CASE EndUnknown \/ EndOfFile
  <2>1. \E start : Match(start, 0)
    BY <1>6 DEF EndUnknown, EndOfFile
  <2> QED
    BY <1>1, <2>1, MatchStays
<1>7. CASE UnknownEnd \/ CommentInside
  <2>1. input \in Seq(Characters) /\ at \in 1 .. Len(input) + 1 /\ Len(input) \in Nat
    BY InputsAssumption, LenProperties DEF ScannerInv, TypeOK
  <2>2. \E start : Match(start, RestOfLine)
    BY <1>7 DEF UnknownEnd, CommentInside
  <2>3. RestOfLine \in Nat /\ at + RestOfLine <= Len(input) + 1
    BY <2>1, LineEnds
  <2> QED
    BY <2>2, <2>3, MatchStays
<1> QED
  BY <1>3, <1>4, <1>5, <1>6, <1>7 DEF Step

\* What every rule does to the rest.
LEMMA StepKeeps ==
    ScannerInv /\ Step =>
        /\ condition' \in Conditions
        /\ string_literal_buffer' \in Seq(Characters)
        /\ char_literal_buffer' \in Characters \union {Zero}
        /\ has_encountered_error' \in BOOLEAN /\ ended' \in BOOLEAN
        /\ BuffersStartEmpty'
<1> DEFINE Kept ==
        /\ condition' \in Conditions
        /\ string_literal_buffer' \in Seq(Characters)
        /\ char_literal_buffer' \in Characters \union {Zero}
        /\ has_encountered_error' \in BOOLEAN /\ ended' \in BOOLEAN
        /\ BuffersStartEmpty'
<1> SUFFICES ASSUME ScannerInv, Step PROVE Kept
  OBVIOUS
<1>1. /\ condition \in Conditions /\ string_literal_buffer \in Seq(Characters)
      /\ char_literal_buffer \in Characters \union {Zero}
      /\ has_encountered_error \in BOOLEAN /\ ended \in BOOLEAN
      /\ condition # "IN_STRING" => string_literal_buffer = <<>>
      /\ condition # "IN_CHAR" => char_literal_buffer = Zero
  BY DEF ScannerInv, TypeOK, BuffersStartEmpty
<1>2. <<>> \in Seq(Characters) /\ "newline" \in Characters
  BY DEF Characters, White
<1> USE DEF BuffersStartEmpty, Conditions, Match, BEGIN, Return, IssueError, Ignore, Terminate,
            buffers, results
<1>3. CASE Blank \/ Label \/ End \/ Word \/ Digits \/ Operator
  BY <1>1, <1>3 DEF Blank, Label, End, Word, Digits, Operator
<1>4. CASE Quote \/ Apostrophe \/ Comment \/ MultilineComment \/ UnknownSymbol
  BY <1>1, <1>4 DEF Quote, Apostrophe, Comment, MultilineComment, UnknownSymbol
<1>5. CASE EndOfBlock \/ EndBlank \/ EndUnknown \/ UnknownEnd
  BY <1>1, <1>5 DEF EndOfBlock, EndBlank, EndUnknown, UnknownEnd, UnknownEndCondition
<1>6. CASE CharClosed \/ CharInside
  BY <1>1, <1>6, NextCharacter DEF CharClosed, CharInside
<1>7. CASE StringClosed \/ StringNewline
  BY <1>1, <1>2, <1>7 DEF StringClosed, StringNewline, BufferEmptied
<1>8. CASE StringEscape \/ StringInside
  <2>1. PICK c : c \in Characters /\ string_literal_buffer' = Append(string_literal_buffer, c)
    <3>1. CASE StringEscape
      <4>1. Following \in Escapes
        BY <3>1 DEF StringEscape
      <4>2. Unescaped(Following) \in Characters
        BY <1>2, <4>1 DEF Unescaped, Characters
      <4> QED
        BY <3>1, <4>2 DEF StringEscape
    <3>2. CASE StringInside
      BY <3>2, NextCharacter DEF StringInside
    <3> QED
      BY <1>8, <3>1, <3>2
  <2>2. string_literal_buffer' \in Seq(Characters)
    BY <1>1, <2>1, AppendProperties
  <2>3. condition = "IN_STRING"
    BY <1>8 DEF StringEscape, StringInside
  <2> QED
    BY <1>1, <1>8, <2>2, <2>3 DEF StringEscape, StringInside
<1>9. CASE CommentClosed \/ CommentInside \/ MultilineClosed \/ MultilineInside
  BY <1>1, <1>9 DEF CommentClosed, CommentInside, MultilineClosed, MultilineInside
<1>10. CASE EndOfFile
  BY <1>1, <1>10 DEF EndOfFile
<1> QED
  BY <1>3, <1>4, <1>5, <1>6, <1>7, <1>8, <1>9, <1>10 DEF Step

LEMMA ScannerInductive == ScannerInv /\ [Next]_vars => ScannerInv'
<1> SUFFICES ASSUME ScannerInv, [Next]_vars PROVE ScannerInv'
  OBVIOUS
<1>1. CASE Step
  BY <1>1, StepStays, StepKeeps DEF ScannerInv, TypeOK
<1>2. CASE UNCHANGED vars
  BY <1>2 DEF vars, ScannerInv, TypeOK, BuffersStartEmpty
<1> QED
  BY <1>1, <1>2 DEF Next, Halted

(***************************************************************************)
(* No rule matches behind the end of the file, and the scanner's variables *)
(* keep their types: for every set of files.                               *)
(***************************************************************************)
THEOREM ScannerTypes == Spec => []TypeOK
<1>1. ScannerInv => TypeOK
  BY DEF ScannerInv
<1> QED
  BY <1>1, ScannerInit, ScannerInductive, PTL DEF Spec

(***************************************************************************)
(* The buffers of eaxhla.l never carry anything from one literal into the  *)
(* next, whatever errors are in between.                                   *)
(***************************************************************************)
THEOREM LiteralsStartEmpty == Spec => []BuffersStartEmpty
<1>1. ScannerInv => BuffersStartEmpty
  BY DEF ScannerInv
<1> QED
  BY <1>1, ScannerInit, ScannerInductive, PTL DEF Spec

-----------------------------------------------------------------------------
(***************************************************************************)
(* The constructs of a file.                                               *)
(***************************************************************************)
TokenKinds == {"LABEL", "WORD", "LITERAL", "END", "ARRAY_LITERAL"} \union Operators
Tokens == [kind : TokenKinds, value : Value]

LEMMA Distinct ==
    /\ END_OF_FILE \notin Characters /\ END_OF_FILE \notin White /\ END_OF_FILE \notin Words
    /\ END_OF_FILE \notin Blocks /\ END_OF_FILE \notin Operators /\ END_OF_FILE \notin Escapes
BY DEF END_OF_FILE, Characters, White, Words, Blocks, Operators, Escapes

LEMMA CharactersOf ==
    ASSUME NEW file \in Seq(Characters)
    PROVE  /\ Len(file) \in Nat /\ DOMAIN file = 1 .. Len(file)
           /\ \A i \in 1 .. Len(file) : file[i] \in Characters /\ CharacterOf(file, i) = file[i]
           /\ \A i : i \notin 1 .. Len(file) => CharacterOf(file, i) = END_OF_FILE
<1>1. Len(file) \in Nat /\ DOMAIN file = 1 .. Len(file)
  BY LenProperties
<1>2. \A i \in 1 .. Len(file) : file[i] \in Characters
  BY ElementOfSeq
<1> QED
  BY <1>1, <1>2 DEF CharacterOf

LEMMA FirstIs ==
    ASSUME NEW file, Len(file) \in Nat, NEW i \in Nat, NEW j \in Nat, i <= j,
           NEW places \in SUBSET (1 .. Len(file)), j \in places \/ j = Len(file) + 1,
           \A k \in i .. j - 1 : k \notin places
    PROVE  FirstFrom(file, i, places) = j
<1> DEFINE S == {k \in places : k >= i} \union {Len(file) + 1}
<1>1. S \subseteq Nat /\ j \in S
  <2>1. Len(file) + 1 \in Nat /\ \A k \in 1 .. Len(file) : k \in Nat
    OBVIOUS
  <2>2. \A k \in S : k \in Nat
    BY <2>1
  <2>3. j \in S
    OBVIOUS
  <2> QED
    BY <2>2, <2>3
<1>2. \A k \in S : j <= k
  OBVIOUS
<1>3. \A k \in S : (\A l \in S : k <= l) => k = j
  BY <1>1, <1>2
<1>4. FirstFrom(file, i, places) = CHOOSE k \in S : \A l \in S : k <= l
  BY DEF FirstFrom, Min
<1> HIDE DEF S
<1> QED
  BY <1>1, <1>2, <1>3, <1>4

LEMMA FirstBehind ==
    ASSUME NEW file, Len(file) \in Nat, NEW i \in Nat, i <= Len(file) + 1,
           NEW places \in SUBSET (1 .. Len(file))
    PROVE  LET first == FirstFrom(file, i, places)
           IN  /\ first \in i .. Len(file) + 1
               /\ first = Len(file) + 1 \/ first \in places
               /\ \A k \in i .. first - 1 : k \notin places
<1> DEFINE S == {k \in places : k >= i} \union {Len(file) + 1}
<1>1. S \in SUBSET Nat /\ Len(file) + 1 \in S
  <2>1. Len(file) + 1 \in Nat /\ \A k \in 1 .. Len(file) : k \in Nat
    OBVIOUS
  <2>2. \A k \in S : k \in Nat
    BY <2>1
  <2> QED
    BY <2>2
<1>2. PICK m \in S : \A k \in S : m <= k
  BY <1>1, LeastNumber
<1>3. m \in i .. Len(file) + 1 /\ (m = Len(file) + 1 \/ m \in places)
  BY <1>1, <1>2
<1>4. \A k \in i .. m - 1 : k \notin places
  BY <1>2, <1>3
<1>5. FirstFrom(file, i, places) = m
  BY <1>3, <1>4, FirstIs
<1> QED
  BY <1>3, <1>4, <1>5

\* What is none, and the end of the file.
Wrong(i) == Construct(i, <<>>, FALSE)
Finished(i) == Construct(i, <<>>, TRUE)

\* The construct at i, and what comes behind it in f.
Beginning(file, f, i) ==
    IF i = Len(file) + 1 THEN Finished(i)
    ELSE IF ~ConstructAt(file, i).right THEN ConstructAt(file, i)
    ELSE Construct(f[ConstructAt(file, i).end + 1].end,
                   ConstructAt(file, i).made \o f[ConstructAt(file, i).end + 1].made,
                   f[ConstructAt(file, i).end + 1].right)

LEMMA MeaningIs == ASSUME NEW file PROVE
   MeaningFrom(file) = CHOOSE f : f = [i \in 1 .. Len(file) + 1 |-> Beginning(file, f, i)]
BY DEF MeaningFrom, Beginning, Finished

-----------------------------------------------------------------------------
\* Where the constructs end that take more than a character or two.
StringEnd(file, i) ==
    FirstFrom(file, i + 1,
              {j \in DOMAIN file : file[j] = "quote" /\ ~Escaped(file, i + 1, j)})
CharEnd(file, i) == FirstFrom(file, i + 1, {j \in DOMAIN file : file[j] = "apostrophe"})
CharValue(file, i) ==
    IF CharEnd(file, i) = i + 1 THEN Zero ELSE file[CharEnd(file, i) - 1]
WordBehind(file, i) == FirstFrom(file, i + 1, {j \in DOMAIN file : file[j] \notin White})
EndOfEnd(file, i) ==
    IF CharacterOf(file, WordBehind(file, i)) \in Blocks THEN WordBehind(file, i) ELSE i
LineEnd(file, i) == FirstFrom(file, i, {j \in DOMAIN file : file[j] = "newline"})
CommentEnd(file, i) ==
    FirstFrom(file, i + 2, {j \in DOMAIN file : file[j] = "star"
                                               /\ CharacterOf(file, j + 1) = "slash"})

\* The construct at i by the characters at i and behind it.
ConstructOf(file, i, c, next) ==
    CASE c \in White -> Nothing(file, i)
      [] c \in Words /\ next = "colon" -> One(file, i + 1, "LABEL", c)
      [] c = "end" /\ next # "colon" ->
            Construct(EndOfEnd(file, i),
                      <<Token("END", CharacterOf(file, WordBehind(file, i)))>>,
                      CharacterOf(file, WordBehind(file, i)) \in Blocks)
      [] c \in Words \ {"end"} /\ next # "colon" -> One(file, i, "WORD", c)
      [] c = "digits" -> One(file, i, "LITERAL", c)
      [] c = "quote" ->
            Construct(StringEnd(file, i),
                      <<Token("ARRAY_LITERAL", StringFrom(file, i + 1, StringEnd(file, i)))>>,
                      /\ StringEnd(file, i) <= Len(file)
                      /\ \A j \in i .. StringEnd(file, i) : file[j] # "newline")
      [] c = "apostrophe" ->
            Construct(CharEnd(file, i), <<Token("LITERAL", CharValue(file, i))>>,
                      /\ CharEnd(file, i) <= Len(file)
                      /\ \A j \in i .. CharEnd(file, i) : file[j] # "newline")
      [] c = "hash" \/ (c = "slash" /\ next = "slash") -> Nothing(file, LineEnd(file, i))
      [] c = "slash" /\ next = "star" -> Nothing(file, CommentEnd(file, i) + 1)
      [] c \in Operators /\ ~(c = "slash" /\ next \in {"slash", "star"}) ->
            One(file, i, c, c)
      [] OTHER -> Wrong(i)

LEMMA ByCharacters ==
    ASSUME NEW file, NEW i
    PROVE  ConstructAt(file, i)
             = ConstructOf(file, i, CharacterOf(file, i), CharacterOf(file, i + 1))
BY DEF ConstructAt, ConstructOf, StringEnd, CharEnd, CharValue, WordBehind, EndOfEnd, LineEnd,
       CommentEnd, Wrong

LEMMA OfWhite ==
    ASSUME NEW file, NEW i, NEW c, NEW next, c \in White
    PROVE  ConstructOf(file, i, c, next) = Nothing(file, i)
BY DEF ConstructOf, White, Words, Blocks, Operators

LEMMA OfLabel ==
    ASSUME NEW file, NEW i, NEW c, NEW next, c \in Words, next = "colon"
    PROVE  ConstructOf(file, i, c, next)
             = One(file, i + 1, "LABEL", c)
BY DEF ConstructOf, White, Words, Blocks, Operators

LEMMA OfEnd ==
    ASSUME NEW file, NEW i, NEW c, NEW next, c = "end", next # "colon"
    PROVE  ConstructOf(file, i, c, next)
             = Construct(EndOfEnd(file, i),
                         <<Token("END", CharacterOf(file, WordBehind(file, i)))>>,
                         CharacterOf(file, WordBehind(file, i)) \in Blocks)
BY DEF ConstructOf, White, Words, Blocks, Operators

LEMMA OfWord ==
    ASSUME NEW file, NEW i, NEW c, NEW next, c \in Words \ {"end"}, next # "colon"
    PROVE  ConstructOf(file, i, c, next)
             = One(file, i, "WORD", c)
BY DEF ConstructOf, White, Words, Blocks, Operators

LEMMA OfDigits ==
    ASSUME NEW file, NEW i, NEW c, NEW next, c = "digits"
    PROVE  ConstructOf(file, i, c, next)
             = One(file, i, "LITERAL", c)
BY DEF ConstructOf, White, Words, Blocks, Operators

LEMMA OfString ==
    ASSUME NEW file, NEW i, NEW c, NEW next, c = "quote"
    PROVE  ConstructOf(file, i, c, next)
             = Construct(StringEnd(file, i),
                         <<Token("ARRAY_LITERAL", StringFrom(file, i + 1, StringEnd(file, i)))>>,
                         /\ StringEnd(file, i) <= Len(file)
                         /\ \A j \in i .. StringEnd(file, i) : file[j] # "newline")
BY DEF ConstructOf, White, Words, Blocks, Operators

LEMMA OfChar ==
    ASSUME NEW file, NEW i, NEW c, NEW next, c = "apostrophe"
    PROVE  ConstructOf(file, i, c, next)
             = Construct(CharEnd(file, i), <<Token("LITERAL", CharValue(file, i))>>,
                         /\ CharEnd(file, i) <= Len(file)
                         /\ \A j \in i .. CharEnd(file, i) : file[j] # "newline")
BY DEF ConstructOf, White, Words, Blocks, Operators

LEMMA OfLine ==
    ASSUME NEW file, NEW i, NEW c, NEW next, c = "hash" \/ (c = "slash" /\ next = "slash")
    PROVE  ConstructOf(file, i, c, next) = Nothing(file, LineEnd(file, i))
BY DEF ConstructOf, White, Words, Blocks, Operators

LEMMA OfComment ==
    ASSUME NEW file, NEW i, NEW c, NEW next, c = "slash", next = "star"
    PROVE  ConstructOf(file, i, c, next) = Nothing(file, CommentEnd(file, i) + 1)
BY DEF ConstructOf, White, Words, Blocks, Operators

LEMMA OfOperator ==
    ASSUME NEW file, NEW i, NEW c, NEW next, c \in Operators,
           ~(c = "slash" /\ next \in {"slash", "star"})
    PROVE  ConstructOf(file, i, c, next)
             = One(file, i, c, c)
BY DEF ConstructOf, White, Words, Blocks, Operators

LEMMA OfUnknown ==
    ASSUME NEW file, NEW i, NEW c, NEW next, c \in {"unknown", "backslash"}
    PROVE  ConstructOf(file, i, c, next) = Wrong(i)
BY DEF ConstructOf, White, Words, Blocks, Operators, Wrong

-----------------------------------------------------------------------------
(***************************************************************************)
(* Strings.                                                                *)
(***************************************************************************)
Pieces(file, i, j) == [n \in 1 .. j - i |-> InString(file, i, i + n - 1)]

LEMMA FunctionIsSeq ==
    ASSUME NEW S, NEW n \in Nat, NEW f \in [1 .. n -> S]
    PROVE  f \in Seq(S) /\ Len(f) = n
OBVIOUS

LEMMA PiecesType ==
    ASSUME NEW file \in Seq(Characters), NEW i \in Nat \ {0}, NEW j \in i .. Len(file) + 1
    PROVE  /\ Pieces(file, i, j) \in Seq(Seq(Characters))
           /\ Len(Pieces(file, i, j)) = j - i /\ j - i \in Nat
           /\ \A n \in 1 .. j - i : Pieces(file, i, j)[n] = InString(file, i, i + n - 1)
<1>1. Len(file) \in Nat /\ \A k \in 1 .. Len(file) : file[k] \in Characters
  BY CharactersOf
<1>2. ASSUME NEW k \in 1 .. Len(file) PROVE InString(file, i, k) \in Seq(Characters)
  <2>1. file[k] \in Characters /\ Unescaped(file[k]) \in Characters
    BY <1>1 DEF Unescaped, Characters, White
  <2> QED
    BY <2>1 DEF InString
<1>3. \A n \in 1 .. j - i : i + n - 1 \in 1 .. Len(file)
  BY <1>1
<1>4. Pieces(file, i, j) \in [1 .. j - i -> Seq(Characters)]
  BY <1>2, <1>3 DEF Pieces
<1>5. j - i \in Nat
  BY <1>1
<1>6. Pieces(file, i, j) \in Seq(Seq(Characters)) /\ Len(Pieces(file, i, j)) = j - i
  BY <1>4, <1>5, FunctionIsSeq
<1> QED
  BY <1>5, <1>6 DEF Pieces

LEMMA StringType ==
    ASSUME NEW file \in Seq(Characters), NEW i \in Nat \ {0}, NEW j \in i .. Len(file) + 1
    PROVE  StringFrom(file, i, j) \in Seq(Characters)
BY PiecesType, FlattenAll DEF StringFrom, Pieces

LEMMA StringEmpty ==
    ASSUME NEW file \in Seq(Characters), NEW i \in 1 .. Len(file) + 1
    PROVE  StringFrom(file, i, i) = <<>>
<1>1. Len(file) \in Nat
  BY CharactersOf
<1>2. i \in Nat \ {0} /\ i \in i .. Len(file) + 1 /\ i - i = 0
  BY <1>1
<1>3. /\ Pieces(file, i, i) \in Seq(Seq(Characters))
      /\ Len(Pieces(file, i, i)) = 0
  BY <1>2, PiecesType
<1> QED
  BY <1>3, FlattenAll DEF StringFrom, Pieces, FlatTo

LEMMA StringGrows ==
    ASSUME NEW file \in Seq(Characters), NEW i \in 1 .. Len(file), NEW j \in i .. Len(file)
    PROVE  StringFrom(file, i, j + 1) = StringFrom(file, i, j) \o InString(file, i, j)
<1> DEFINE p == Pieces(file, i, j)
           q == Pieces(file, i, j + 1)
           n == j - i
<1>1. Len(file) \in Nat
  BY CharactersOf
<1>2. /\ i \in Nat \ {0} /\ j \in i .. Len(file) + 1 /\ j + 1 \in i .. Len(file) + 1
      /\ n \in Nat /\ (j + 1) - i = n + 1 /\ n + 1 \in 1 .. n + 1 /\ i + (n + 1) - 1 = j
      /\ n + 1 \in Nat \ {0} /\ (n + 1) - 1 = n /\ \A k \in 1 .. n : k \in 1 .. n + 1
  BY <1>1
<1> HIDE DEF p, q, n
<1>3. /\ p \in Seq(Seq(Characters)) /\ Len(p) = n
      /\ q \in Seq(Seq(Characters)) /\ Len(q) = n + 1
      /\ q[n + 1] = InString(file, i, j)
      /\ \A k \in 1 .. n : q[k] = p[k]
  <2>1. /\ p \in Seq(Seq(Characters)) /\ Len(p) = n
        /\ \A k \in 1 .. n : p[k] = InString(file, i, i + k - 1)
    BY <1>2, PiecesType DEF p, n
  <2>2. /\ q \in Seq(Seq(Characters)) /\ Len(q) = (j + 1) - i
        /\ \A k \in 1 .. (j + 1) - i : q[k] = InString(file, i, i + k - 1)
    BY <1>2, PiecesType DEF q
  <2>3. q[n + 1] = InString(file, i, i + (n + 1) - 1)
    BY <1>2, <2>2
  <2> QED
    BY <1>2, <2>1, <2>2, <2>3
<1>4. /\ StringFrom(file, i, j) = FlattenSeq(p)
      /\ StringFrom(file, i, j + 1) = FlattenSeq(q)
  BY DEF StringFrom, Pieces, p, q
<1>5. FlattenSeq(p) = FlatTo(n, p) /\ FlattenSeq(q) = FlatTo(n + 1, q)
  BY <1>3, FlattenAll
<1>6. FlatTo(n + 1, q) = FlatTo(n, q) \o q[n + 1]
  <2>1. \A k \in 1 .. Len(q) : FlatTo(k, q) = FlatTo(k - 1, q) \o q[k]
    BY <1>3, FlatNext
  <2> QED
    BY <1>2, <1>3, <2>1
<1>7. FlatTo(n, q) = FlatTo(n, p)
  <2>1. CASE n = 0
    BY <2>1 DEF FlatTo
  <2>2. CASE n # 0
    BY <1>2, <1>3, <2>2, FlatSame DEF FlatTo
  <2> QED
    BY <2>1, <2>2
<1> QED
  BY <1>3, <1>4, <1>5, <1>6, <1>7

\* How many backslashes are before the next place.
LEMMA BackslashesStep ==
    ASSUME NEW file, NEW i \in Nat, NEW j \in Nat, i <= j
    PROVE  /\ Backslashes(file, i, i) = 0
           /\ Backslashes(file, i, j) \in Nat
           /\ file[j] # "backslash" => Backslashes(file, i, j + 1) = 0
           /\ file[j] = "backslash" =>
                Backslashes(file, i, j + 1) = Backslashes(file, i, j) + 1
<1> DEFINE B(n) == {k \in i .. n - 1 : \A l \in k .. n - 1 : file[l] = "backslash"}
<1>1. \A n : Backslashes(file, i, n) = Cardinality(B(n))
  BY DEF Backslashes
<1>2. B(i) = {}
  BY SMT
<1>3. IsFiniteSet(B(j))
  <2>1. IsFiniteSet(i .. j - 1)
    BY FS_Interval
  <2>2. B(j) \subseteq i .. j - 1
    OBVIOUS
  <2> QED
    BY <2>1, <2>2, FS_Subset
<1>4. ASSUME file[j] # "backslash" PROVE B(j + 1) = {}
  <2> SUFFICES ASSUME NEW k \in B(j + 1) PROVE FALSE
    OBVIOUS
  <2>1. k \in i .. j /\ j \in k .. j /\ (j + 1) - 1 = j
    OBVIOUS
  <2>2. file[j] = "backslash"
    BY <2>1
  <2> QED
    BY <1>4, <2>2
<1>5. ASSUME file[j] = "backslash" PROVE B(j + 1) = B(j) \union {j} /\ j \notin B(j)
  <2>1. (j + 1) - 1 = j
    OBVIOUS
  <2>2. \A k \in i .. j - 1 : k \in i .. j /\ k .. j = (k .. j - 1) \union {j}
    OBVIOUS
  <2>3. j \in i .. j /\ \A l \in j .. j : l = j
    OBVIOUS
  <2>4. \A k \in i .. j : k = j \/ k \in i .. j - 1
    OBVIOUS
  <2>5. j \notin i .. j - 1
    OBVIOUS
  <2>6. B(j + 1) = {k \in i .. j : \A l \in k .. j : file[l] = "backslash"}
    BY <2>1
  <2>7. \A k \in i .. j - 1 : k \in B(j + 1) <=> k \in B(j)
    BY <1>5, <2>2, <2>6
  <2>8. j \in B(j + 1)
    BY <1>5, <2>3, <2>6
  <2> HIDE DEF B
  <2>9. B(j + 1) \subseteq i .. j /\ B(j) \subseteq i .. j - 1
    BY <2>6 DEF B
  <2> QED
    BY <2>4, <2>5, <2>7, <2>8, <2>9
<1> HIDE DEF B
<1>6. Cardinality({}) = 0 /\ Cardinality(B(j)) \in Nat
  BY <1>3, FS_EmptySet, FS_CardinalityType
<1>7. file[j] = "backslash" => Cardinality(B(j + 1)) = Cardinality(B(j)) + 1
  BY <1>3, <1>5, FS_AddElement
<1> QED
  BY <1>1, <1>2, <1>4, <1>6, <1>7

-----------------------------------------------------------------------------
(***************************************************************************)
(* The meaning of a file is that of its first construct and of the rest.   *)
(***************************************************************************)
LEMMA IsToken ==
    ASSUME NEW kind \in TokenKinds, NEW value \in Value
    PROVE  <<Token(kind, value)>> \in Seq(Tokens)
BY DEF Token, Tokens

LEMMA Values ==
    ASSUME NEW file \in Seq(Characters)
    PROVE  /\ \A c \in Characters : c \in Value
           /\ Zero \in Value
           /\ \A i \in 1 .. Len(file) : file[i] \in Value
           /\ Seq(Characters) \subseteq Value
<1>1. \A i \in 1 .. Len(file) : file[i] \in Characters
  BY CharactersOf
<1> QED
  BY <1>1 DEF Value

LEMMA KindsOfCharacters ==
    /\ White \subseteq Characters /\ Words \subseteq Characters /\ Operators \subseteq Characters
    /\ Blocks \subseteq Characters
    /\ {"end", "digits", "quote", "apostrophe", "hash", "slash", "star", "colon",
        "unknown", "backslash", "newline"} \subseteq Characters
    /\ \A c \in Characters :
          \/ c \in White \/ c \in Words \/ c \in Operators
          \/ c \in {"digits", "quote", "apostrophe", "hash", "unknown", "backslash"}
BY DEF White, Words, Operators, Blocks, Characters, Escapes

\* What is right ends in the file.
Ends(file, i, construct) ==
    /\ construct.right \in BOOLEAN
    /\ construct.right => construct.end \in i .. Len(file) /\ construct.made \in Seq(Tokens)

LEMMA EndsIf ==
    ASSUME NEW file, NEW i, NEW end, NEW made, NEW right \in BOOLEAN,
           right => end \in i .. Len(file) /\ made \in Seq(Tokens)
    PROVE  Ends(file, i, Construct(end, made, right))
<1>1. /\ Construct(end, made, right).end = end
      /\ Construct(end, made, right).made = made
      /\ Construct(end, made, right).right = right
  BY DEF Construct
<1> QED
  BY <1>1 DEF Ends

LEMMA WrongEnds == \A file, i : Ends(file, i, Wrong(i))
BY DEF Ends, Wrong, Construct

LEMMA NothingEnds ==
    ASSUME NEW file, Len(file) \in Nat, NEW i \in Nat, NEW end \in Nat, i <= end
    PROVE  Ends(file, i, Nothing(file, end))
<1> DEFINE right == end <= Len(file)
<1>1. right \in BOOLEAN
  OBVIOUS
<1>2. right => end \in i .. Len(file) /\ <<>> \in Seq(Tokens)
  OBVIOUS
<1>3. Nothing(file, end) = Construct(end, <<>>, right)
  BY DEF Nothing
<1> HIDE DEF right
<1> QED
  BY <1>1, <1>2, <1>3, EndsIf

LEMMA OneEnds ==
    ASSUME NEW file, Len(file) \in Nat, NEW i \in Nat, NEW end \in Nat, i <= end,
           NEW kind \in TokenKinds, NEW value, end <= Len(file) => value \in Value
    PROVE  Ends(file, i, One(file, end, kind, value))
<1> DEFINE right == end <= Len(file)
<1>1. right \in BOOLEAN
  OBVIOUS
<1>2. right => end \in i .. Len(file) /\ <<Token(kind, value)>> \in Seq(Tokens)
  BY IsToken
<1>3. One(file, end, kind, value) = Construct(end, <<Token(kind, value)>>, right)
  BY DEF One
<1> HIDE DEF right
<1> QED
  BY <1>1, <1>2, <1>3, EndsIf

LEMMA KindsOfTokens ==
    /\ "LABEL" \in TokenKinds /\ "WORD" \in TokenKinds /\ "LITERAL" \in TokenKinds
    /\ "END" \in TokenKinds /\ "ARRAY_LITERAL" \in TokenKinds /\ Operators \subseteq TokenKinds
BY DEF TokenKinds

LEMMA PlacesOf ==
    ASSUME NEW file \in Seq(Characters), NEW i \in 1 .. Len(file)
    PROVE  /\ StringEnd(file, i) \in i + 1 .. Len(file) + 1
           /\ CharEnd(file, i) \in i + 1 .. Len(file) + 1
           /\ WordBehind(file, i) \in i + 1 .. Len(file) + 1
           /\ LineEnd(file, i) \in i .. Len(file) + 1
           /\ i < Len(file) => CommentEnd(file, i) \in i + 2 .. Len(file) + 1
<1>1. Len(file) \in Nat /\ DOMAIN file = 1 .. Len(file)
  BY CharactersOf
<1>2. /\ i \in Nat /\ i <= Len(file) + 1 /\ i + 1 \in Nat /\ i + 1 <= Len(file) + 1
      /\ i + 2 \in Nat /\ (i < Len(file) => i + 2 <= Len(file) + 1)
  BY <1>1
<1>3. StringEnd(file, i) \in i + 1 .. Len(file) + 1
  BY <1>1, <1>2, FirstBehind DEF StringEnd
<1>4. CharEnd(file, i) \in i + 1 .. Len(file) + 1
  BY <1>1, <1>2, FirstBehind DEF CharEnd
<1>5. WordBehind(file, i) \in i + 1 .. Len(file) + 1
  BY <1>1, <1>2, FirstBehind DEF WordBehind
<1>6. LineEnd(file, i) \in i .. Len(file) + 1
  BY <1>1, <1>2, FirstBehind DEF LineEnd
<1>7. i < Len(file) => CommentEnd(file, i) \in i + 2 .. Len(file) + 1
  BY <1>1, <1>2, FirstBehind DEF CommentEnd
<1> QED
  BY <1>3, <1>4, <1>5, <1>6, <1>7

LEMMA ConstructEnds ==
    ASSUME NEW file \in Seq(Characters), NEW i \in 1 .. Len(file)
    PROVE  Ends(file, i, ConstructAt(file, i))
<1> DEFINE c == CharacterOf(file, i)
           next == CharacterOf(file, i + 1)
           construct == ConstructOf(file, i, c, next)
           n == Len(file)
<1>1. n \in Nat /\ i \in Nat /\ i + 1 \in Nat /\ i <= i + 1 /\ i <= i
  BY CharactersOf
<1>2. ConstructAt(file, i) = construct
  BY ByCharacters
<1>3. c \in Characters /\ c \in Value
  BY CharactersOf, Values
<1>4. /\ StringEnd(file, i) \in i + 1 .. n + 1
      /\ CharEnd(file, i) \in i + 1 .. n + 1
      /\ WordBehind(file, i) \in i + 1 .. n + 1
      /\ LineEnd(file, i) \in i .. n + 1
      /\ i < n => CommentEnd(file, i) \in i + 2 .. n + 1
  BY PlacesOf
<1> SUFFICES Ends(file, i, construct)
  BY <1>2
<1> HIDE DEF c, next, construct, n
<1>5. CASE c \in White
  BY <1>1, <1>5, OfWhite, NothingEnds DEF construct, n
<1>6. CASE c \in Words
  <2>1. CASE next = "colon"
    BY <1>1, <1>3, <1>6, <2>1, OfLabel, OneEnds, KindsOfTokens DEF construct, n
  <2>2. CASE next # "colon" /\ c # "end"
    BY <1>1, <1>3, <1>6, <2>2, OfWord, OneEnds, KindsOfTokens DEF construct, n
  <2>3. CASE next # "colon" /\ c = "end"
    <3> DEFINE word == WordBehind(file, i)
               block == CharacterOf(file, word)
               end == EndOfEnd(file, i)
    <3>1. construct = Construct(end, <<Token("END", block)>>, block \in Blocks)
      BY <2>3, OfEnd DEF construct
    <3>6. block \in Blocks => end = word
      BY DEF EndOfEnd
    <3>2. word \in i + 1 .. n + 1
      BY <1>4
    <3>3. block \in Blocks => word \in 1 .. n /\ block \in Value
      BY Distinct, CharactersOf, Values, KindsOfCharacters DEF n
    <3> HIDE DEF word, block, end
    <3>4. block \in Blocks => end \in i .. n /\ <<Token("END", block)>> \in Seq(Tokens)
      BY <1>1, <3>2, <3>3, <3>6, IsToken, KindsOfTokens
    <3>5. (block \in Blocks) \in BOOLEAN
      OBVIOUS
    <3> QED
      BY <3>1, <3>4, <3>5, EndsIf DEF n
  <2> QED
    BY <2>1, <2>2, <2>3
<1>7. CASE c = "digits"
  BY <1>1, <1>3, <1>7, OfDigits, OneEnds, KindsOfTokens DEF construct, n
<1>8. CASE c = "quote"
  <2> DEFINE end == StringEnd(file, i)
             string == StringFrom(file, i + 1, end)
             right == end <= Len(file) /\ \A j \in i .. end : file[j] # "newline"
  <2>1. construct = Construct(end, <<Token("ARRAY_LITERAL", string)>>, right)
    BY <1>8, OfString DEF construct
  <2>2. i + 1 \in Nat \ {0} /\ end \in i + 1 .. n + 1
    BY <1>1, <1>4
  <2>3. string \in Value
    BY <2>2, StringType, Values DEF n
  <2>4. right \in BOOLEAN /\ (right => end <= n)
    BY DEF n
  <2> HIDE DEF end, string, right
  <2>5. right => end \in i .. n
    BY <1>1, <2>2, <2>4
  <2>6. <<Token("ARRAY_LITERAL", string)>> \in Seq(Tokens)
    BY <2>3, IsToken, KindsOfTokens
  <2> QED
    BY <2>1, <2>4, <2>5, <2>6, EndsIf DEF n
<1>9. CASE c = "apostrophe"
  <2> DEFINE end == CharEnd(file, i)
             value == CharValue(file, i)
             right == end <= Len(file) /\ \A j \in i .. end : file[j] # "newline"
  <2>1. construct = Construct(end, <<Token("LITERAL", value)>>, right)
    BY <1>9, OfChar DEF construct
  <2>2. end \in i + 1 .. n + 1 /\ (end # i + 1 => end - 1 \in 1 .. n)
    BY <1>1, <1>4
  <2>3. value \in Value
    BY <2>2, Values DEF n, CharValue
  <2>4. right \in BOOLEAN /\ (right => end <= n)
    BY DEF n
  <2> HIDE DEF end, value, right
  <2>5. right => end \in i .. n
    BY <1>1, <2>2, <2>4
  <2>6. <<Token("LITERAL", value)>> \in Seq(Tokens)
    BY <2>3, IsToken, KindsOfTokens
  <2> QED
    BY <2>1, <2>4, <2>5, <2>6, EndsIf DEF n
<1>10. CASE c = "hash" \/ (c = "slash" /\ next = "slash")
  <2>1. LineEnd(file, i) \in Nat /\ i <= LineEnd(file, i)
    BY <1>1, <1>4
  <2> QED
    BY <1>1, <1>10, <2>1, OfLine, NothingEnds DEF construct, n
<1>11. CASE c = "slash" /\ next = "star"
  <2>1. i + 1 \in 1 .. n
    BY <1>11, CharactersOf DEF next, n, END_OF_FILE
  <2>2. CommentEnd(file, i) + 1 \in Nat /\ i <= CommentEnd(file, i) + 1
    BY <1>1, <1>4, <2>1
  <2> QED
    BY <1>1, <1>11, <2>2, OfComment, NothingEnds DEF construct, n
<1>12. CASE c \in Operators /\ ~(c = "slash" /\ next \in {"slash", "star"})
  BY <1>1, <1>3, <1>12, OfOperator, OneEnds, KindsOfTokens, KindsOfCharacters DEF construct, n
<1>13. CASE c \in {"unknown", "backslash"}
  BY <1>13, OfUnknown, WrongEnds DEF construct
<1> QED
  BY <1>3, <1>5, <1>6, <1>7, <1>8, <1>9, <1>10, <1>11, <1>12, <1>13, KindsOfCharacters

\* f is what the file means from each place on, from m to its end.
Meant(file, f, m) == f = [i \in m .. Len(file) + 1 |-> Beginning(file, f, i)]

LEMMA EndMeant ==
    ASSUME NEW file, Len(file) \in Nat
    PROVE  \E f : Meant(file, f, Len(file) + 1)
<1> DEFINE n == Len(file) + 1
           f == [i \in n .. n |-> Finished(i)]
<1>1. \A i \in n .. n : i = n
  OBVIOUS
<1>2. \A i \in n .. n : Beginning(file, f, i) = Finished(i)
  BY <1>1 DEF Beginning
<1>3. f = [i \in n .. n |-> Beginning(file, f, i)]
  BY <1>2
<1> HIDE DEF f
<1> QED
  BY <1>3 DEF Meant

LEMMA StepMeant ==
    ASSUME NEW file \in Seq(Characters), NEW m \in 1 .. Len(file),
           NEW f, Meant(file, f, m + 1)
    PROVE  \E g : Meant(file, g, m)
<1> DEFINE n == Len(file) + 1
           g == [i \in m .. n |-> IF i = m THEN Beginning(file, f, i) ELSE f[i]]
<1>1. Len(file) \in Nat /\ m \in Nat
  BY CharactersOf
<1>2. /\ \A i \in m .. n : i = m \/ i \in m + 1 .. n
      /\ \A i \in m + 1 .. n : i \in m .. n /\ i # m
      /\ m \in m .. n
  BY <1>1
<1>3. \A i \in m + 1 .. n : g[i] = f[i]
  BY <1>2
<1>4. ASSUME NEW i \in m .. n PROVE Beginning(file, g, i) = Beginning(file, f, i)
  <2> DEFINE c == ConstructAt(file, i)
  <2>1. CASE i = n
    BY <2>1 DEF Beginning
  <2>2. CASE i # n /\ ~c.right
    BY <2>2 DEF Beginning
  <2>3. CASE i # n /\ c.right
    <3>1. i \in 1 .. Len(file)
      BY <1>1, <2>3
    <3>2. c.end \in i .. Len(file)
      BY <2>3, <3>1, ConstructEnds DEF Ends
    <3>3. c.end + 1 \in m + 1 .. n
      BY <1>1, <3>2
    <3>4. g[c.end + 1] = f[c.end + 1]
      BY <1>3, <3>3
    <3> HIDE DEF g, n
    <3> QED
      BY <3>4 DEF Beginning
  <2> QED
    BY <2>1, <2>2, <2>3
<1>5. \A i \in m + 1 .. n : f[i] = Beginning(file, f, i)
  BY DEF Meant
<1>6. \A i \in m .. n : g[i] = Beginning(file, g, i)
  BY <1>2, <1>4, <1>5
<1>7. g = [i \in m .. n |-> Beginning(file, g, i)]
  BY <1>6
<1> HIDE DEF g
<1> QED
  BY <1>7 DEF Meant

LEMMA AllMeant ==
    ASSUME NEW file \in Seq(Characters)
    PROVE  Meant(file, MeaningFrom(file), 1)
<1> DEFINE n == Len(file) + 1
           T == {m \in 0 .. Len(file) : ~ \E f : Meant(file, f, n - m)}
<1>1. Len(file) \in Nat
  BY CharactersOf
<1>2. ASSUME T # {} PROVE FALSE
  <2>1. T \in SUBSET Nat
    BY <1>1
  <2>2. PICK m \in T : \A k \in T : m <= k
    BY <1>2, <2>1, LeastNumber
  <2>3. m \in 0 .. Len(file) /\ ~ \E f : Meant(file, f, n - m)
    OBVIOUS
  <2>4. m # 0
    BY <1>1, <2>3, EndMeant
  <2>5. m - 1 \in 0 .. Len(file) /\ ~(m <= m - 1)
    BY <1>1, <2>3, <2>4
  <2>6. m - 1 \notin T
    BY <2>2, <2>5
  <2>7. PICK f : Meant(file, f, n - (m - 1))
    BY <2>5, <2>6
  <2>8. n - m \in 1 .. Len(file) /\ n - (m - 1) = (n - m) + 1
    BY <1>1, <2>3, <2>4
  <2> HIDE DEF T, n
  <2> QED
    BY <2>3, <2>7, <2>8, StepMeant
<1>3. Len(file) \in 0 .. Len(file) /\ n - Len(file) = 1
  BY <1>1
<1>4. Len(file) \notin T
  BY <1>2
<1> HIDE DEF n
<1>5. \E f : Meant(file, f, 1)
  BY <1>3, <1>4
<1> QED
  BY <1>5, MeaningIs DEF Meant

\* What the meaning from a place on has to do with that of the rest.
Continued(file, i, all, c, rest) ==
    /\ ~c.right => all.right = FALSE /\ all.end = c.end
    /\ c.right => /\ c.end \in i .. Len(file) /\ c.made \in Seq(Tokens)
                  /\ all.right = rest.right /\ all.end = rest.end
                  /\ all.made = c.made \o rest.made

LEMMA FinishedRight == \A i : Finished(i).right = TRUE /\ Finished(i).made = <<>>
BY DEF Finished, Construct

LEMMA MeaningUnfolds ==
    ASSUME NEW file \in Seq(Characters)
    PROVE  /\ MeaningFrom(file)[Len(file) + 1].right = TRUE
           /\ MeaningFrom(file)[Len(file) + 1].made = <<>>
           /\ \A i \in 1 .. Len(file) :
                Continued(file, i, MeaningFrom(file)[i], ConstructAt(file, i),
                          MeaningFrom(file)[ConstructAt(file, i).end + 1])
<1> DEFINE f == MeaningFrom(file)
           n == Len(file) + 1
<1>1. Len(file) \in Nat
  BY CharactersOf
<1>2. f = [i \in 1 .. n |-> Beginning(file, f, i)]
  BY AllMeant DEF Meant
<1> HIDE DEF f
<1>3. \A i \in 1 .. n : f[i] = Beginning(file, f, i)
  BY <1>2
<1>5. f[n].right = TRUE /\ f[n].made = <<>>
  <2>1. f[n] = Finished(n)
    BY <1>1, <1>3 DEF Beginning
  <2> QED
    BY <2>1, FinishedRight
<1>6. ASSUME NEW i \in 1 .. Len(file)
      PROVE  Continued(file, i, f[i], ConstructAt(file, i), f[ConstructAt(file, i).end + 1])
  <2> DEFINE c == ConstructAt(file, i)
             rest == f[c.end + 1]
  <2>1. f[i] = IF ~c.right THEN c ELSE Construct(rest.end, c.made \o rest.made, rest.right)
    <3>1. i \in 1 .. n /\ i # Len(file) + 1
      BY <1>1
    <3> QED
      BY <1>3, <3>1 DEF Beginning
  <2>2. c.right \in BOOLEAN /\ (c.right => c.end \in i .. Len(file) /\ c.made \in Seq(Tokens))
    BY ConstructEnds DEF Ends
  <2> SUFFICES Continued(file, i, f[i], c, rest)
    OBVIOUS
  <2> HIDE DEF c, rest
  <2>3. CASE ~c.right
    BY <2>1, <2>2, <2>3 DEF Continued
  <2>4. CASE c.right
    <3>1. f[i] = Construct(rest.end, c.made \o rest.made, rest.right)
      BY <2>1, <2>4
    <3>2. f[i].right = rest.right /\ f[i].end = rest.end
      BY <3>1 DEF Construct
    <3>3. f[i].made = c.made \o rest.made
      <4> DEFINE all == f[i]
                 joined == c.made \o rest.made
      <4>1. all = Construct(rest.end, joined, rest.right)
        BY <3>1
      <4> HIDE DEF all, joined
      <4>2. all.made = joined
        BY <4>1 DEF Construct
      <4> QED
        BY <4>2 DEF all, joined
    <3> QED
      BY <2>2, <2>4, <3>2, <3>3 DEF Continued
  <2> QED
    BY <2>3, <2>4
<1> QED
  BY <1>5, <1>6 DEF f

\* And of what type it is.
LEMMA MeaningType ==
    ASSUME NEW file \in Seq(Characters)
    PROVE  \A i \in 1 .. Len(file) + 1 :
              /\ MeaningFrom(file)[i].right \in BOOLEAN
              /\ MeaningFrom(file)[i].right => MeaningFrom(file)[i].made \in Seq(Tokens)
<1> DEFINE f == MeaningFrom(file)
           n == Len(file) + 1
           Typed(i) == f[i].right \in BOOLEAN /\ (f[i].right => f[i].made \in Seq(Tokens))
           T == {m \in 0 .. Len(file) : ~Typed(n - m)}
<1>1. Len(file) \in Nat
  BY CharactersOf
<1>2. /\ f[n].right = TRUE /\ f[n].made = <<>>
      /\ \A i \in 1 .. Len(file) :
            Continued(file, i, f[i], ConstructAt(file, i), f[ConstructAt(file, i).end + 1])
  BY MeaningUnfolds
<1> HIDE DEF f
<1>3. ASSUME T # {} PROVE FALSE
  <2>1. T \in SUBSET Nat
    BY <1>1
  <2>2. PICK m \in T : \A k \in T : m <= k
    BY <1>3, <2>1, LeastNumber
  <2>3. m \in 0 .. Len(file) /\ ~Typed(n - m)
    OBVIOUS
  <2>4. n - 0 = n /\ <<>> \in Seq(Tokens)
    BY <1>1
  <2>5. m # 0
    BY <1>2, <2>3, <2>4
  <2>6. n - m \in 1 .. Len(file)
    BY <1>1, <2>3, <2>5
  <2> DEFINE i == n - m
             c == ConstructAt(file, i)
             rest == f[c.end + 1]
  <2>7. Continued(file, i, f[i], c, rest)
    BY <1>2, <2>6
  <2>8. c.right \in BOOLEAN
    BY <2>6, ConstructEnds DEF Ends
  <2>9. c.right => Typed(c.end + 1)
    <3> SUFFICES ASSUME c.right PROVE Typed(c.end + 1)
      OBVIOUS
    <3>1. c.end \in i .. Len(file)
      BY <2>7 DEF Continued
    <3> HIDE DEF c, Typed
    <3>2. n - (c.end + 1) \in 0 .. Len(file) /\ ~(m <= n - (c.end + 1))
          /\ n - (n - (c.end + 1)) = c.end + 1
      BY <1>1, <2>3, <3>1
    <3>3. n - (c.end + 1) \notin T
      BY <2>2, <3>2
    <3> QED
      BY <3>2, <3>3
  <2>10. ~Typed(i)
    BY <2>3
  <2> HIDE DEF i, c
  <2>11. CASE ~c.right
    BY <2>7, <2>10, <2>11 DEF Continued
  <2>12. CASE c.right
    <3>1. rest.right \in BOOLEAN /\ (rest.right => rest.made \in Seq(Tokens))
      BY <2>9, <2>12
    <3> HIDE DEF rest
    <3>2. /\ c.made \in Seq(Tokens) /\ f[i].right = rest.right
          /\ f[i].made = c.made \o rest.made
      BY <2>7, <2>12 DEF Continued
    <3>3. rest.right => c.made \o rest.made \in Seq(Tokens)
      BY <3>1, <3>2, ConcatProperties
    <3> QED
      BY <2>10, <3>1, <3>2, <3>3
  <2> QED
    BY <2>8, <2>11, <2>12
<1>4. ASSUME NEW i \in 1 .. n PROVE Typed(i)
  <2>1. n - i \in 0 .. Len(file) /\ n - (n - i) = i
    BY <1>1
  <2> HIDE DEF Typed, n
  <2> QED
    BY <1>3, <2>1
<1> QED
  BY <1>4 DEF f

-----------------------------------------------------------------------------
(***************************************************************************)
(* Between two characters of a construct that begins at b.                 *)
(***************************************************************************)
InsideEnd(file, b, i) ==
    /\ b \in 1 .. Len(file) /\ i \in b + 1 .. Len(file) + 1
    /\ file[b] = "end" /\ CharacterOf(file, b + 1) # "colon"
    /\ \A j \in b + 1 .. i - 1 : file[j] \in White

InsideString(file, b, i, string) ==
    /\ b \in 1 .. Len(file) /\ i \in b + 1 .. Len(file) + 1
    /\ file[b] = "quote"
    /\ \A j \in b .. i - 1 : file[j] # "newline"
    /\ \A j \in b + 1 .. i - 1 : file[j] = "quote" => Escaped(file, b + 1, j)
    /\ ~Escaped(file, b + 1, i)
    /\ string = StringFrom(file, b + 1, i)

InsideChar(file, b, i, char) ==
    /\ b \in 1 .. Len(file) /\ i \in b + 1 .. Len(file) + 1
    /\ file[b] = "apostrophe"
    /\ \A j \in b + 1 .. i - 1 : file[j] # "apostrophe"
    /\ char = IF i = b + 1 THEN Zero ELSE file[i - 1]

InsideLine(file, b, i) ==
    /\ b \in 1 .. Len(file) /\ i \in b + 1 .. Len(file) + 1
    /\ file[b] = "hash" \/ (file[b] = "slash" /\ CharacterOf(file, b + 1) = "slash")
    /\ \A j \in b .. i - 1 : file[j] # "newline"

InsideMultiline(file, b, i) ==
    /\ b \in 1 .. Len(file) /\ i \in b + 2 .. Len(file) + 1
    /\ file[b] = "slash" /\ CharacterOf(file, b + 1) = "star"
    /\ \A j \in b + 2 .. i - 1 : ~(file[j] = "star" /\ CharacterOf(file, j + 1) = "slash")

\* A construct that ends at end and makes these tokens.
Complete(construct, end, made) ==
    construct.right /\ construct.end = end /\ construct.made = made

LEMMA ConstructComplete ==
    ASSUME NEW end, NEW made, NEW right, right = TRUE
    PROVE  Complete(Construct(end, made, right), end, made)
BY DEF Complete, Construct

LEMMA ConstructWrong ==
    ASSUME NEW end, NEW made, NEW right, right = FALSE
    PROVE  ~Construct(end, made, right).right
BY DEF Construct

LEMMA NothingComplete ==
    ASSUME NEW file, NEW end
    PROVE  /\ end <= Len(file) => Complete(Nothing(file, end), end, <<>>)
           /\ ~(end <= Len(file)) => ~Nothing(file, end).right
BY DEF Nothing, Complete, Construct

LEMMA OneComplete ==
    ASSUME NEW file, NEW end, NEW kind, NEW value
    PROVE  /\ end <= Len(file) =>
                Complete(One(file, end, kind, value), end, <<Token(kind, value)>>)
           /\ ~(end <= Len(file)) => ~One(file, end, kind, value).right
BY DEF One, Complete, Construct

\* The first of some places is where the scanner comes to it.
LEMMA FirstHere ==
    ASSUME NEW file \in Seq(Characters), NEW b \in 1 .. Len(file) + 1,
           NEW i \in b .. Len(file) + 1,
           NEW places \in SUBSET (1 .. Len(file)),
           \A j \in b .. i - 1 : j \notin places,
           i \in places \/ i = Len(file) + 1
    PROVE  FirstFrom(file, b, places) = i
<1>1. Len(file) \in Nat
  BY CharactersOf
<1> QED
  BY <1>1, FirstIs

LEMMA EndRead ==
    ASSUME NEW file \in Seq(Characters), NEW b, NEW i, InsideEnd(file, b, i),
           CharacterOf(file, i) \notin White
    PROVE  /\ CharacterOf(file, i) \in Blocks =>
                Complete(ConstructAt(file, b), i, <<Token("END", CharacterOf(file, i))>>)
           /\ CharacterOf(file, i) \notin Blocks => ~ConstructAt(file, b).right
<1> DEFINE places == {j \in DOMAIN file : file[j] \notin White}
           block == CharacterOf(file, i)
<1>1. /\ Len(file) \in Nat /\ DOMAIN file = 1 .. Len(file)
      /\ \A k \in 1 .. Len(file) : CharacterOf(file, k) = file[k]
  BY CharactersOf
<1>2. /\ b \in 1 .. Len(file) /\ b + 1 \in 1 .. Len(file) + 1
      /\ i \in b + 1 .. Len(file) + 1
  BY <1>1 DEF InsideEnd
<1>3. places \in SUBSET (1 .. Len(file))
  BY <1>1
<1>4. \A j \in b + 1 .. i - 1 : j \notin places
  BY DEF InsideEnd
<1>5. i \in places \/ i = Len(file) + 1
  BY <1>1, <1>2
<1>6. WordBehind(file, b) = i
  <2> HIDE DEF places
  <2>1. FirstFrom(file, b + 1, places) = i
    BY <1>2, <1>3, <1>4, <1>5, FirstHere
  <2> QED
    BY <2>1 DEF WordBehind, places
<1> DEFINE end == EndOfEnd(file, b)
<1>7. ConstructAt(file, b) = Construct(end, <<Token("END", block)>>, block \in Blocks)
  <2>1. ConstructAt(file, b)
          = ConstructOf(file, b, CharacterOf(file, b), CharacterOf(file, b + 1))
    BY ByCharacters
  <2>2. CharacterOf(file, b) = "end" /\ CharacterOf(file, b + 1) # "colon"
    BY <1>1, <1>2 DEF InsideEnd
  <2>3. ConstructOf(file, b, CharacterOf(file, b), CharacterOf(file, b + 1))
          = Construct(EndOfEnd(file, b),
                      <<Token("END", CharacterOf(file, WordBehind(file, b)))>>,
                      CharacterOf(file, WordBehind(file, b)) \in Blocks)
    BY <2>2, OfEnd
  <2> QED
    BY <1>6, <2>1, <2>3
<1>10. block \in Blocks => end = i
  BY <1>6 DEF EndOfEnd
<1> HIDE DEF block, end
<1>8. CASE block \in Blocks
  <2>1. (block \in Blocks) = TRUE
    BY <1>8
  <2> QED
    BY <1>7, <1>8, <1>10, <2>1, ConstructComplete DEF block
<1>9. CASE block \notin Blocks
  <2>1. (block \in Blocks) = FALSE
    BY <1>9
  <2> QED
    BY <1>7, <1>9, <2>1, ConstructWrong DEF block
<1> QED
  BY <1>8, <1>9 DEF block

LEMMA CharRead ==
    ASSUME NEW file \in Seq(Characters), NEW b, NEW i, NEW char, InsideChar(file, b, i, char)
    PROVE  /\ i \in 1 .. Len(file) /\ file[i] = "apostrophe" =>
                \/ Complete(ConstructAt(file, b), i, <<Token("LITERAL", char)>>)
                \/ ~ConstructAt(file, b).right /\ ConstructAt(file, b).end = i
           /\ i = Len(file) + 1 => ~ConstructAt(file, b).right
<1> SUFFICES ASSUME (i \in 1 .. Len(file) /\ file[i] = "apostrophe") \/ i = Len(file) + 1
             PROVE  /\ i <= Len(file) =>
                          \/ Complete(ConstructAt(file, b), i, <<Token("LITERAL", char)>>)
                          \/ ~ConstructAt(file, b).right /\ ConstructAt(file, b).end = i
                    /\ ~(i <= Len(file)) => ~ConstructAt(file, b).right
  <2>1. Len(file) \in Nat
    BY CharactersOf
  <2> QED
    BY <2>1
<1> DEFINE places == {j \in DOMAIN file : file[j] = "apostrophe"}
<1>1. /\ Len(file) \in Nat /\ DOMAIN file = 1 .. Len(file)
      /\ \A k \in 1 .. Len(file) : CharacterOf(file, k) = file[k]
  BY CharactersOf
<1>2. /\ b \in 1 .. Len(file) /\ b + 1 \in 1 .. Len(file) + 1
      /\ i \in b + 1 .. Len(file) + 1
  BY <1>1 DEF InsideChar
<1>3. places \in SUBSET (1 .. Len(file))
  BY <1>1
<1>4. \A j \in b + 1 .. i - 1 : j \notin places
  BY DEF InsideChar
<1>5. i \in places \/ i = Len(file) + 1
  BY <1>1, <1>2
<1>6. CharEnd(file, b) = i
  <2> HIDE DEF places
  <2>1. FirstFrom(file, b + 1, places) = i
    BY <1>2, <1>3, <1>4, <1>5, FirstHere
  <2> QED
    BY <2>1 DEF CharEnd, places
<1> DEFINE right == i <= Len(file) /\ \A j \in b .. i : file[j] # "newline"
<1>7. ConstructAt(file, b) = Construct(i, <<Token("LITERAL", char)>>, right)
  <2>1. ConstructAt(file, b)
          = ConstructOf(file, b, CharacterOf(file, b), CharacterOf(file, b + 1))
    BY ByCharacters
  <2>2. CharacterOf(file, b) = "apostrophe"
    BY <1>1, <1>2 DEF InsideChar
  <2>3. ConstructOf(file, b, CharacterOf(file, b), CharacterOf(file, b + 1))
          = Construct(CharEnd(file, b), <<Token("LITERAL", CharValue(file, b))>>,
                      /\ CharEnd(file, b) <= Len(file)
                      /\ \A j \in b .. CharEnd(file, b) : file[j] # "newline")
    BY <2>2, OfChar
  <2>4. char = CharValue(file, b)
    BY <1>6 DEF InsideChar, CharValue
  <2> QED
    BY <1>6, <2>1, <2>3, <2>4
<1>8. right \in BOOLEAN /\ (right => i <= Len(file))
  OBVIOUS
<1> HIDE DEF right
<1>9. CASE right
  <2>1. right = TRUE
    BY <1>8, <1>9
  <2>2. Complete(ConstructAt(file, b), i, <<Token("LITERAL", char)>>)
    BY <1>7, <2>1, ConstructComplete
  <2> QED
    BY <1>8, <1>9, <2>2
<1>10. CASE ~right
  <2>1. right = FALSE
    BY <1>8, <1>10
  <2>2. ~ConstructAt(file, b).right
    BY <1>7, <2>1, ConstructWrong
  <2>3. ConstructAt(file, b).end = i
    BY <1>7 DEF Construct
  <2> QED
    BY <2>2, <2>3
<1> QED
  BY <1>9, <1>10

LEMMA LineRead ==
    ASSUME NEW file \in Seq(Characters), NEW b, NEW i, InsideLine(file, b, i)
    PROVE  /\ i \in 1 .. Len(file) /\ file[i] = "newline" =>
                Complete(ConstructAt(file, b), i, <<>>)
           /\ i = Len(file) + 1 => ~ConstructAt(file, b).right
<1> SUFFICES ASSUME (i \in 1 .. Len(file) /\ file[i] = "newline") \/ i = Len(file) + 1
             PROVE  /\ i <= Len(file) => Complete(ConstructAt(file, b), i, <<>>)
                    /\ ~(i <= Len(file)) => ~ConstructAt(file, b).right
  <2>1. Len(file) \in Nat
    BY CharactersOf
  <2> QED
    BY <2>1
<1> DEFINE places == {j \in DOMAIN file : file[j] = "newline"}
<1>1. /\ Len(file) \in Nat /\ DOMAIN file = 1 .. Len(file)
      /\ \A k \in 1 .. Len(file) : CharacterOf(file, k) = file[k]
  BY CharactersOf
<1>2. /\ b \in 1 .. Len(file) /\ b \in 1 .. Len(file) + 1
      /\ i \in b .. Len(file) + 1
  BY <1>1 DEF InsideLine
<1>3. places \in SUBSET (1 .. Len(file))
  BY <1>1
<1>4. \A j \in b .. i - 1 : j \notin places
  BY DEF InsideLine
<1>5. i \in places \/ i = Len(file) + 1
  BY <1>1, <1>2
<1>6. LineEnd(file, b) = i
  <2> HIDE DEF places
  <2>1. FirstFrom(file, b, places) = i
    BY <1>2, <1>3, <1>4, <1>5, FirstHere
  <2> QED
    BY <2>1 DEF LineEnd, places
<1>7. ConstructAt(file, b) = Nothing(file, i)
  <2>1. ConstructAt(file, b)
          = ConstructOf(file, b, CharacterOf(file, b), CharacterOf(file, b + 1))
    BY ByCharacters
  <2>2. \/ CharacterOf(file, b) = "hash"
        \/ CharacterOf(file, b) = "slash" /\ CharacterOf(file, b + 1) = "slash"
    BY <1>1, <1>2 DEF InsideLine
  <2>3. ConstructOf(file, b, CharacterOf(file, b), CharacterOf(file, b + 1))
          = Nothing(file, LineEnd(file, b))
    BY <2>2, OfLine
  <2> QED
    BY <1>6, <2>1, <2>3
<1> QED
  BY <1>7, NothingComplete

LEMMA MultilineRead ==
    ASSUME NEW file \in Seq(Characters), NEW b, NEW i, InsideMultiline(file, b, i)
    PROVE  /\ i \in 1 .. Len(file) /\ file[i] = "star" /\ CharacterOf(file, i + 1) = "slash" =>
                Complete(ConstructAt(file, b), i + 1, <<>>)
           /\ i = Len(file) + 1 => ~ConstructAt(file, b).right
<1> DEFINE places == {j \in DOMAIN file : file[j] = "star" /\ CharacterOf(file, j + 1) = "slash"}
<1>1. /\ Len(file) \in Nat /\ DOMAIN file = 1 .. Len(file)
      /\ \A k \in 1 .. Len(file) : CharacterOf(file, k) = file[k]
      /\ \A k : k \notin 1 .. Len(file) => CharacterOf(file, k) = END_OF_FILE
  BY CharactersOf
<1>2. /\ b \in 1 .. Len(file) /\ i \in b + 2 .. Len(file) + 1
  BY <1>1 DEF InsideMultiline
<1>3. places \in SUBSET (1 .. Len(file))
  BY <1>1
<1>4. \A j \in b + 2 .. i - 1 : j \notin places
  BY DEF InsideMultiline
<1>5. b + 2 \in 1 .. Len(file) + 1
  BY <1>1, <1>2
<1>6. ASSUME i \in places \/ i = Len(file) + 1
      PROVE  ConstructAt(file, b) = Nothing(file, i + 1)
  <2>1. ConstructAt(file, b)
          = ConstructOf(file, b, CharacterOf(file, b), CharacterOf(file, b + 1))
    BY ByCharacters
  <2>2. CharacterOf(file, b) = "slash" /\ CharacterOf(file, b + 1) = "star"
    BY <1>1, <1>2 DEF InsideMultiline
  <2>3. ConstructOf(file, b, CharacterOf(file, b), CharacterOf(file, b + 1))
          = Nothing(file, CommentEnd(file, b) + 1)
    BY <2>2, OfComment
  <2>4. CommentEnd(file, b) = i
    <3> HIDE DEF places
    <3>1. FirstFrom(file, b + 2, places) = i
      BY <1>2, <1>3, <1>4, <1>5, <1>6, FirstHere
    <3> QED
      BY <3>1 DEF CommentEnd, places
  <2> QED
    BY <2>1, <2>3, <2>4
<1>7. ASSUME i \in 1 .. Len(file), file[i] = "star", CharacterOf(file, i + 1) = "slash"
      PROVE  Complete(ConstructAt(file, b), i + 1, <<>>)
  <2>1. i \in places
    BY <1>1, <1>7
  <2>2. i + 1 \in 1 .. Len(file)
    BY <1>1, <1>7 DEF END_OF_FILE
  <2>3. i + 1 <= Len(file)
    BY <1>1, <2>2
  <2> QED
    BY <1>6, <2>1, <2>3, NothingComplete
<1>8. ASSUME i = Len(file) + 1 PROVE ~ConstructAt(file, b).right
  <2>1. ~(i + 1 <= Len(file))
    BY <1>1, <1>8
  <2> QED
    BY <1>6, <1>8, <2>1, NothingComplete
<1> QED
  BY <1>7, <1>8

LEMMA StringRead ==
    ASSUME NEW file \in Seq(Characters), NEW b, NEW i, NEW string,
           InsideString(file, b, i, string)
    PROVE  /\ i \in 1 .. Len(file) /\ file[i] = "quote" =>
                Complete(ConstructAt(file, b), i, <<Token("ARRAY_LITERAL", string)>>)
           /\ CharacterOf(file, i) \in {"newline", END_OF_FILE} => ~ConstructAt(file, b).right
<1> DEFINE places == {j \in DOMAIN file : file[j] = "quote" /\ ~Escaped(file, b + 1, j)}
           end == StringEnd(file, b)
           right == /\ end <= Len(file)
                    /\ \A j \in b .. end : file[j] # "newline"
<1>1. /\ Len(file) \in Nat /\ DOMAIN file = 1 .. Len(file)
      /\ \A k \in 1 .. Len(file) : CharacterOf(file, k) = file[k]
      /\ \A k : k \notin 1 .. Len(file) => CharacterOf(file, k) = END_OF_FILE
  BY CharactersOf
<1>2. /\ b \in 1 .. Len(file) /\ b + 1 \in 1 .. Len(file) + 1
      /\ i \in b + 1 .. Len(file) + 1
  BY <1>1 DEF InsideString
<1>3. places \in SUBSET (1 .. Len(file))
  BY <1>1
<1>4. \A j \in b + 1 .. i - 1 : j \notin places
  BY DEF InsideString
<1>5. end = FirstFrom(file, b + 1, places)
  BY DEF StringEnd
<1>6. ConstructAt(file, b)
        = Construct(end, <<Token("ARRAY_LITERAL", StringFrom(file, b + 1, end))>>, right)
  <2>1. ConstructAt(file, b)
          = ConstructOf(file, b, CharacterOf(file, b), CharacterOf(file, b + 1))
    BY ByCharacters
  <2>2. CharacterOf(file, b) = "quote"
    BY <1>1, <1>2 DEF InsideString
  <2>3. ConstructOf(file, b, CharacterOf(file, b), CharacterOf(file, b + 1))
          = Construct(StringEnd(file, b),
                      <<Token("ARRAY_LITERAL", StringFrom(file, b + 1, StringEnd(file, b)))>>,
                      /\ StringEnd(file, b) <= Len(file)
                      /\ \A j \in b .. StringEnd(file, b) : file[j] # "newline")
    BY <2>2, OfString
  <2> QED
    BY <2>1, <2>3
<1>7. ASSUME i \in 1 .. Len(file), file[i] = "quote"
      PROVE  Complete(ConstructAt(file, b), i, <<Token("ARRAY_LITERAL", string)>>)
  <2>1. i \in places
    BY <1>1, <1>7 DEF InsideString
  <2>2. end = i
    <3> HIDE DEF places, end
    <3> QED
      BY <1>2, <1>3, <1>4, <1>5, <2>1, FirstHere
  <2>3. right = TRUE
    <3>1. \A j \in b .. i : j = i \/ j \in b .. i - 1
      BY <1>1, <1>2
    <3>2. \A j \in b .. i : file[j] # "newline"
      BY <1>7, <3>1 DEF InsideString
    <3>3. i <= Len(file)
      BY <1>1, <1>7
    <3> HIDE DEF end
    <3> QED
      BY <2>2, <3>2, <3>3
  <2>4. string = StringFrom(file, b + 1, end)
    BY <2>2 DEF InsideString
  <2> HIDE DEF end, right
  <2> QED
    BY <1>6, <2>2, <2>3, <2>4, ConstructComplete
<1>8. ASSUME CharacterOf(file, i) \in {"newline", END_OF_FILE}
      PROVE  ~ConstructAt(file, b).right
  <2>1. /\ end \in b + 1 .. Len(file) + 1 /\ (end = Len(file) + 1 \/ end \in places)
    <3>1. b + 1 \in Nat /\ b + 1 <= Len(file) + 1
      BY <1>1, <1>2
    <3> HIDE DEF places, end
    <3> QED
      BY <1>1, <1>3, <1>5, <3>1, FirstBehind
  <2>2. CASE end = Len(file) + 1
    <3>1. right = FALSE
      <4>1. ~(end <= Len(file))
        BY <1>1, <2>2
      <4> HIDE DEF end
      <4> QED
        BY <4>1
    <3> HIDE DEF end, right
    <3> QED
      BY <1>6, <3>1, ConstructWrong
  <2>3. CASE end \in places
    <3>1. end \notin b + 1 .. i - 1
      BY <1>4, <2>3
    <3>2. end \in 1 .. Len(file)
      BY <1>3, <2>3
    <3>3. i \in b .. end
      <4> HIDE DEF end
      <4> QED
        BY <1>1, <1>2, <2>1, <3>1
    <3>4. file[i] = "newline"
      <4>1. i \in 1 .. Len(file)
        <5> HIDE DEF end
        <5> QED
          BY <1>1, <1>2, <3>2, <3>3
      <4>2. file[i] # END_OF_FILE
        BY <4>1, CharactersOf, Distinct
      <4> QED
        BY <1>1, <1>8, <4>1, <4>2
    <3>5. right = FALSE
      <4> HIDE DEF end
      <4> QED
        BY <3>3, <3>4
    <3> HIDE DEF end, right
    <3> QED
      BY <1>6, <3>5, ConstructWrong
  <2> QED
    BY <2>1, <2>2, <2>3
<1> QED
  BY <1>7, <1>8

-----------------------------------------------------------------------------
\* How the inside of a construct begins, and goes on.
LEMMA InsideStarts ==
    ASSUME NEW file \in Seq(Characters), NEW i \in 1 .. Len(file)
    PROVE  /\ file[i] = "end" /\ CharacterOf(file, i + 1) # "colon" => InsideEnd(file, i, i + 1)
           /\ file[i] = "quote" => InsideString(file, i, i + 1, <<>>)
           /\ file[i] = "apostrophe" => InsideChar(file, i, i + 1, Zero)
           /\ file[i] = "hash" => InsideLine(file, i, i + 1)
           /\ file[i] = "slash" /\ CharacterOf(file, i + 1) = "slash" => InsideLine(file, i, i + 2)
           /\ file[i] = "slash" /\ CharacterOf(file, i + 1) = "star" =>
                InsideMultiline(file, i, i + 2)
<1>1. /\ Len(file) \in Nat
      /\ \A k \in 1 .. Len(file) : CharacterOf(file, k) = file[k]
      /\ \A k : k \notin 1 .. Len(file) => CharacterOf(file, k) = END_OF_FILE
  BY CharactersOf
<1>2. /\ i + 1 \in i + 1 .. Len(file) + 1 /\ i + 1 \in 1 .. Len(file) + 1
      /\ \A j \in i + 1 .. (i + 1) - 1 : FALSE
      /\ \A j \in i .. (i + 1) - 1 : j = i
      /\ \A j \in i + 2 .. (i + 2) - 1 : FALSE
      /\ \A j \in i .. (i + 2) - 1 : j = i \/ j = i + 1
  BY <1>1
<1>3. CharacterOf(file, i + 1) # END_OF_FILE =>
        i + 1 \in 1 .. Len(file) /\ i + 2 \in i + 2 .. Len(file) + 1
        /\ i + 2 \in i + 1 .. Len(file) + 1
  BY <1>1
<1>4. file[i] = "end" /\ CharacterOf(file, i + 1) # "colon" => InsideEnd(file, i, i + 1)
  BY <1>2 DEF InsideEnd
<1>5. ASSUME file[i] = "quote" PROVE InsideString(file, i, i + 1, <<>>)
  <2>1. StringFrom(file, i + 1, i + 1) = <<>>
    BY <1>2, StringEmpty
  <2>2. ~Escaped(file, i + 1, i + 1)
    <3>1. i + 1 \in Nat /\ i + 1 <= i + 1
      BY <1>1
    <3>2. Backslashes(file, i + 1, i + 1) = 0
      BY <3>1, BackslashesStep
    <3> QED
      BY <3>2 DEF Escaped
  <2> QED
    BY <1>2, <1>5, <2>1, <2>2 DEF InsideString
<1>6. file[i] = "apostrophe" => InsideChar(file, i, i + 1, Zero)
  BY <1>2 DEF InsideChar
<1>7. file[i] = "hash" => InsideLine(file, i, i + 1)
  BY <1>2 DEF InsideLine
<1>8. file[i] = "slash" /\ CharacterOf(file, i + 1) = "slash" => InsideLine(file, i, i + 2)
  BY <1>1, <1>2, <1>3 DEF InsideLine, END_OF_FILE
<1>9. file[i] = "slash" /\ CharacterOf(file, i + 1) = "star" => InsideMultiline(file, i, i + 2)
  BY <1>1, <1>2, <1>3 DEF InsideMultiline, END_OF_FILE
<1> QED
  BY <1>4, <1>5, <1>6, <1>7, <1>8, <1>9

LEMMA InsideGoesOn ==
    ASSUME NEW file \in Seq(Characters), NEW b, NEW i \in 1 .. Len(file), NEW char
    PROVE  /\ InsideEnd(file, b, i) /\ file[i] \in White => InsideEnd(file, b, i + 1)
           /\ InsideChar(file, b, i, char) /\ file[i] # "apostrophe" =>
                InsideChar(file, b, i + 1, file[i])
           /\ InsideMultiline(file, b, i)
              /\ ~(file[i] = "star" /\ CharacterOf(file, i + 1) = "slash") =>
                InsideMultiline(file, b, i + 1)
<1>1. Len(file) \in Nat
  BY CharactersOf
<1>2. ASSUME InsideEnd(file, b, i), file[i] \in White PROVE InsideEnd(file, b, i + 1)
  <2>1. b \in 1 .. Len(file) /\ i \in b + 1 .. Len(file) + 1
    BY <1>2 DEF InsideEnd
  <2>2. i + 1 \in b + 1 .. Len(file) + 1
        /\ \A j \in b + 1 .. (i + 1) - 1 : j = i \/ j \in b + 1 .. i - 1
    BY <1>1, <2>1
  <2> QED
    BY <1>2, <2>2 DEF InsideEnd
<1>3. ASSUME InsideChar(file, b, i, char), file[i] # "apostrophe"
      PROVE  InsideChar(file, b, i + 1, file[i])
  <2>1. b \in 1 .. Len(file) /\ i \in b + 1 .. Len(file) + 1
    BY <1>3 DEF InsideChar
  <2>2. /\ i + 1 \in b + 1 .. Len(file) + 1 /\ i + 1 # b + 1 /\ (i + 1) - 1 = i
        /\ \A j \in b + 1 .. (i + 1) - 1 : j = i \/ j \in b + 1 .. i - 1
    BY <1>1, <2>1
  <2> QED
    BY <1>3, <2>2 DEF InsideChar
<1>4. ASSUME InsideMultiline(file, b, i),
             ~(file[i] = "star" /\ CharacterOf(file, i + 1) = "slash")
      PROVE  InsideMultiline(file, b, i + 1)
  <2>1. b \in 1 .. Len(file) /\ i \in b + 2 .. Len(file) + 1
    BY <1>4 DEF InsideMultiline
  <2>2. /\ i + 1 \in b + 2 .. Len(file) + 1
        /\ \A j \in b + 2 .. (i + 1) - 1 : j = i \/ j \in b + 2 .. i - 1
    BY <1>1, <2>1
  <2> QED
    BY <1>4, <2>2 DEF InsideMultiline
<1> QED
  BY <1>2, <1>3, <1>4

LEMMA LineGoesOn ==
    ASSUME NEW file \in Seq(Characters), NEW b, NEW i, InsideLine(file, b, i),
           NEW n \in Nat, i + n <= Len(file) + 1,
           \A j \in i .. i + n - 1 : CharacterOf(file, j) # "newline"
    PROVE  InsideLine(file, b, i + n)
<1>1. /\ Len(file) \in Nat
      /\ \A k \in 1 .. Len(file) : CharacterOf(file, k) = file[k]
  BY CharactersOf
<1>2. b \in 1 .. Len(file) /\ i \in b + 1 .. Len(file) + 1
  BY DEF InsideLine
<1>3. /\ i + n \in b + 1 .. Len(file) + 1
      /\ \A j \in b .. (i + n) - 1 : j \in i .. i + n - 1 \/ j \in b .. i - 1
      /\ \A j \in i .. i + n - 1 : j \in 1 .. Len(file)
  BY <1>1, <1>2
<1>4. \A j \in i .. i + n - 1 : file[j] # "newline"
  BY <1>1, <1>3
<1> QED
  BY <1>3, <1>4 DEF InsideLine

\* A character of a string that a backslash does not change.
LEMMA StringGoesOn ==
    ASSUME NEW file \in Seq(Characters), NEW b, NEW i \in 1 .. Len(file), NEW string,
           InsideString(file, b, i, string), file[i] \notin {"quote", "newline"},
           ~(file[i] = "backslash" /\ CharacterOf(file, i + 1) \in Escapes)
    PROVE  InsideString(file, b, i + 1, Append(string, file[i]))
<1>1. /\ Len(file) \in Nat
      /\ \A k \in 1 .. Len(file) : CharacterOf(file, k) = file[k]
      /\ file[i] \in Characters
  BY CharactersOf
<1>2. b \in 1 .. Len(file) /\ i \in b + 1 .. Len(file) + 1
  BY DEF InsideString
<1>3. /\ i + 1 \in b + 1 .. Len(file) + 1
      /\ \A j \in b .. (i + 1) - 1 : j = i \/ j \in b .. i - 1
      /\ \A j \in b + 1 .. (i + 1) - 1 : j = i \/ j \in b + 1 .. i - 1
      /\ b + 1 \in 1 .. Len(file) /\ i \in b + 1 .. Len(file)
      /\ b + 1 \in Nat /\ i \in Nat /\ b + 1 <= i
      /\ b + 1 \in Nat \ {0}
  BY <1>1, <1>2
<1>4. ~Escaped(file, b + 1, i + 1)
  <2>1. CASE file[i] = "backslash"
    BY <2>1 DEF Escaped
  <2>2. CASE file[i] # "backslash"
    <3>1. Backslashes(file, b + 1, i + 1) = 0
      BY <1>3, <2>2, BackslashesStep
    <3> QED
      BY <3>1 DEF Escaped
  <2> QED
    BY <2>1, <2>2
<1>5. InString(file, b + 1, i) = <<file[i]>>
  BY <1>4 DEF InString, InsideString
<1>6. StringFrom(file, b + 1, i + 1) = Append(string, file[i])
  <2>1. StringFrom(file, b + 1, i + 1) = string \o <<file[i]>>
    BY <1>3, <1>5, StringGrows DEF InsideString
  <2>2. string \in Seq(Characters)
    BY <1>2, <1>3, StringType DEF InsideString
  <2> QED
    BY <1>1, <2>1, <2>2, AppendIsConcat
<1> QED
  BY <1>2, <1>3, <1>4, <1>6 DEF InsideString

\* A backslash and the character it changes.
LEMMA EscapeGoesOn ==
    ASSUME NEW file \in Seq(Characters), NEW b, NEW i \in 1 .. Len(file), NEW string,
           InsideString(file, b, i, string),
           file[i] = "backslash", CharacterOf(file, i + 1) \in Escapes
    PROVE  InsideString(file, b, i + 2, Append(string, Unescaped(CharacterOf(file, i + 1))))
<1>1. /\ Len(file) \in Nat
      /\ \A k \in 1 .. Len(file) : CharacterOf(file, k) = file[k]
      /\ \A k : k \notin 1 .. Len(file) => CharacterOf(file, k) = END_OF_FILE
  BY CharactersOf
<1>2. b \in 1 .. Len(file) /\ i \in b + 1 .. Len(file) + 1
  BY DEF InsideString
<1>3. i + 1 \in 1 .. Len(file) /\ CharacterOf(file, i + 1) = file[i + 1]
  BY <1>1, Distinct
<1>4. /\ i + 2 \in b + 1 .. Len(file) + 1
      /\ \A j \in b .. (i + 2) - 1 : j = i \/ j = i + 1 \/ j \in b .. i - 1
      /\ \A j \in b + 1 .. (i + 2) - 1 : j = i \/ j = i + 1 \/ j \in b + 1 .. i - 1
      /\ b + 1 \in 1 .. Len(file) /\ i \in b + 1 .. Len(file)
      /\ b + 1 \in Nat /\ i \in Nat /\ b + 1 <= i /\ i + 1 \in Nat /\ b + 1 <= i + 1
      /\ (i + 1) + 1 = i + 2 /\ i + 1 \in b + 1 .. Len(file)
      /\ b + 1 \in Nat \ {0}
  BY <1>1, <1>2, <1>3
<1> DEFINE count == Backslashes(file, b + 1, i)
           next == Backslashes(file, b + 1, i + 1)
           last == Backslashes(file, b + 1, i + 2)
<1>5. count \in Nat /\ next = count + 1
  BY <1>4, BackslashesStep
<1>6. IF file[i + 1] = "backslash" THEN last = next + 1 ELSE last = 0
  <2>1. /\ file[i + 1] # "backslash" => Backslashes(file, b + 1, (i + 1) + 1) = 0
        /\ file[i + 1] = "backslash" => Backslashes(file, b + 1, (i + 1) + 1) = next + 1
    BY <1>4, BackslashesStep
  <2> QED
    BY <1>4, <2>1
<1>7. count % 2 = 0
  <2>1. CharacterOf(file, i) \in Escapes
    BY <1>1 DEF Escapes
  <2>2. ~(count % 2 = 1)
    BY <2>1 DEF Escaped, InsideString
  <2> HIDE DEF count
  <2> QED
    BY <1>5, <2>2
<1>8. next % 2 = 1 /\ last % 2 = 0
  <2> HIDE DEF count, next, last
  <2> QED
    BY <1>5, <1>6, <1>7
<1>9. Escaped(file, b + 1, i + 1) /\ ~Escaped(file, b + 1, i + 2)
  BY <1>8 DEF Escaped
<1> HIDE DEF count, next, last
<1> DEFINE char == Unescaped(file[i + 1])
<1>10. InString(file, b + 1, i) = <<>>
  BY <1>9 DEF InString
<1>11. InString(file, b + 1, i + 1) = <<char>>
  BY <1>4, <1>9 DEF InString
<1>12. char \in Characters
  <2>1. file[i + 1] \in Characters
    BY <1>3, CharactersOf
  <2> QED
    BY <2>1 DEF Unescaped, Characters, White
<1> HIDE DEF char
<1>13. StringFrom(file, b + 1, i + 2) = Append(string, char)
  <2>1. string \in Seq(Characters) /\ string = StringFrom(file, b + 1, i)
    BY <1>2, <1>4, StringType DEF InsideString
  <2>2. StringFrom(file, b + 1, i + 1) = string \o <<>>
    <3>1. StringFrom(file, b + 1, i + 1)
            = StringFrom(file, b + 1, i) \o InString(file, b + 1, i)
      BY <1>4, StringGrows
    <3> QED
      BY <1>10, <2>1, <3>1
  <2>3. string \o <<>> = string
    BY <2>1, ConcatEmptySeq
  <2>4. StringFrom(file, b + 1, (i + 1) + 1) = StringFrom(file, b + 1, i + 1) \o <<char>>
    BY <1>4, <1>11, StringGrows
  <2> QED
    BY <1>4, <1>12, <2>1, <2>2, <2>3, <2>4, AppendIsConcat
<1>14. file[i + 1] # "newline" /\ file[i] # "newline" /\ file[i] # "quote"
  BY <1>3 DEF Escapes
<1> QED
  BY <1>2, <1>3, <1>4, <1>9, <1>13, <1>14 DEF InsideString, char

-----------------------------------------------------------------------------
(***************************************************************************)
(* What was read.                                                          *)
(***************************************************************************)
\* A construct begins at b, and these are the tokens of the file before it.
ReadTo(file, made, b) ==
    /\ b \in 1 .. Len(file) + 1
    /\ made \in Seq(Tokens)
    /\ MeaningFrom(file)[1].right = MeaningFrom(file)[b].right
    /\ MeaningFrom(file)[1].end = MeaningFrom(file)[b].end
    /\ MeaningFrom(file)[1].right =>
            MeaningFrom(file)[1].made = made \o MeaningFrom(file)[b].made

NoMeaning(file) == MeaningFrom(file)[1].right = FALSE

LEMMA ReadStarts ==
    ASSUME NEW file \in Seq(Characters)
    PROVE  ReadTo(file, <<>>, 1)
<1>1. 1 \in 1 .. Len(file) + 1
  BY CharactersOf
<1>2. MeaningFrom(file)[1].right => MeaningFrom(file)[1].made \in Seq(Tokens)
  BY <1>1, MeaningType
<1>3. MeaningFrom(file)[1].right =>
        MeaningFrom(file)[1].made = <<>> \o MeaningFrom(file)[1].made
  BY <1>2, ConcatEmptySeq
<1>4. <<>> \in Seq(Tokens)
  OBVIOUS
<1> QED
  BY <1>1, <1>3, <1>4 DEF ReadTo

\* Another construct.
LEMMA ReadGoesOn ==
    ASSUME NEW file \in Seq(Characters), NEW made, NEW b, ReadTo(file, made, b), b <= Len(file),
           NEW end, NEW more, Complete(ConstructAt(file, b), end, more)
    PROVE  ReadTo(file, made \o more, end + 1)
<1> DEFINE f == MeaningFrom(file)
           c == ConstructAt(file, b)
<1>1. Len(file) \in Nat /\ b \in 1 .. Len(file)
  BY CharactersOf DEF ReadTo
<1>2. Continued(file, b, f[b], c, f[c.end + 1])
  BY <1>1, MeaningUnfolds
<1>3. c.right /\ c.end = end /\ c.made = more
  BY DEF Complete
<1> HIDE DEF f, c
<1>4. /\ end \in b .. Len(file) /\ more \in Seq(Tokens)
      /\ f[b].right = f[end + 1].right /\ f[b].end = f[end + 1].end
      /\ f[b].made = more \o f[end + 1].made
  BY <1>2, <1>3 DEF Continued
<1>5. end + 1 \in 1 .. Len(file) + 1 /\ 1 \in 1 .. Len(file) + 1
  BY <1>1, <1>4
<1>6. f[end + 1].right => f[end + 1].made \in Seq(Tokens)
  BY <1>5, MeaningType DEF f
<1>7. /\ made \in Seq(Tokens) /\ f[1].right = f[b].right /\ f[1].end = f[b].end
      /\ f[1].right => f[1].made = made \o f[b].made
  BY DEF ReadTo, f
<1>8. made \o more \in Seq(Tokens)
  BY <1>4, <1>7, ConcatProperties
<1>9. ASSUME f[1].right PROVE f[1].made = (made \o more) \o f[end + 1].made
  <2> DEFINE rest == f[end + 1].made
  <2>1. rest \in Seq(Tokens)
    BY <1>4, <1>6, <1>7, <1>9
  <2>2. f[1].made = made \o (more \o rest)
    BY <1>4, <1>7, <1>9
  <2> HIDE DEF rest
  <2>3. made \in Seq(Tokens) /\ more \in Seq(Tokens)
    BY <1>4, <1>7
  <2>4. made \o (more \o rest) = (made \o more) \o rest
    BY <2>1, <2>3, ConcatAssociative
  <2> QED
    BY <2>2, <2>4 DEF rest
<1> QED
  BY <1>4, <1>5, <1>7, <1>8, <1>9 DEF ReadTo, f

\* Something that is no construct.
LEMMA ReadBreaks ==
    ASSUME NEW file \in Seq(Characters), NEW made, NEW b, ReadTo(file, made, b), b <= Len(file),
           ~ConstructAt(file, b).right
    PROVE  NoMeaning(file) /\ MeaningFrom(file)[1].end = ConstructAt(file, b).end
<1>1. b \in 1 .. Len(file)
  <2>1. Len(file) \in Nat
    BY CharactersOf
  <2> QED
    BY <2>1 DEF ReadTo
<1>2. Continued(file, b, MeaningFrom(file)[b], ConstructAt(file, b),
                MeaningFrom(file)[ConstructAt(file, b).end + 1])
  BY <1>1, MeaningUnfolds
<1>3. /\ MeaningFrom(file)[b].right = FALSE
      /\ MeaningFrom(file)[b].end = ConstructAt(file, b).end
  BY <1>2 DEF Continued
<1> QED
  BY <1>3 DEF ReadTo, NoMeaning

\* The end of the file.
LEMMA ReadEnds ==
    ASSUME NEW file \in Seq(Characters), NEW made, ReadTo(file, made, Len(file) + 1)
    PROVE  MeaningFrom(file)[1].right = TRUE /\ MeaningFrom(file)[1].made = made
<1>1. /\ MeaningFrom(file)[Len(file) + 1].right = TRUE
      /\ MeaningFrom(file)[Len(file) + 1].made = <<>>
  BY MeaningUnfolds
<1>2. made \in Seq(Tokens) /\ made \o <<>> = made
  BY ConcatEmptySeq DEF ReadTo
<1> QED
  BY <1>1, <1>2 DEF ReadTo

-----------------------------------------------------------------------------
(***************************************************************************)
(* The start condition and the buffers say what the scanner is inside of.  *)
(***************************************************************************)
Inside(file, b, i, start, string, char) ==
    \/ start = "INITIAL" /\ i = b
    \/ start = "IN_END" /\ InsideEnd(file, b, i)
    \/ start = "IN_STRING" /\ InsideString(file, b, i, string)
    \/ start = "IN_CHAR" /\ InsideChar(file, b, i, char)
    \/ start = "IN_COMMENT" /\ InsideLine(file, b, i)
    \/ start = "IN_MULTILINE_COMMENT" /\ InsideMultiline(file, b, i)

ReadingFrom(b) ==
    /\ ~has_encountered_error /\ ~ended
    /\ ReadTo(input, tokens, b)
    /\ Inside(input, b, at, condition, string_literal_buffer, char_literal_buffer)

Reading == \E b \in 1 .. Len(input) + 1 : ReadingFrom(b)

\* Once something that is no construct was found, it is reported, or will be by the next rule.
Broken ==
    /\ ~ended /\ NoMeaning(input)
    /\ has_encountered_error \/ condition = "IN_UNKNOWN_END"

ReadInv == ReadsConstructs /\ (ended \/ Reading \/ Broken \/ NewlineInCharacter)

-----------------------------------------------------------------------------
(***************************************************************************)
(* What a step can come to: the next construct, another character of this  *)
(* one, or what is none.                                                   *)
(***************************************************************************)
LEMMA StillReading == ASSUME NEW b, ReadingFrom(b)' PROVE ReadInv'
<1>1. b \in 1 .. Len(input') + 1 /\ ~ended'
  BY DEF ReadingFrom, ReadTo
<1>2. Reading'
  BY <1>1 DEF Reading
<1> QED
  BY <1>1, <1>2 DEF ReadInv, ReadsConstructs

LEMMA TakesConstruct ==
    ASSUME input \in Seq(Characters), NEW b, ReadingFrom(b), b <= Len(input),
           NEW end, NEW made, Complete(ConstructAt(input, b), end, made),
           input' = input, at' = end + 1, tokens' = tokens \o made, condition' = "INITIAL",
           UNCHANGED <<has_encountered_error, ended>>
    PROVE  ReadInv'
<1>1. ReadTo(input, tokens \o made, end + 1)
  BY ReadGoesOn DEF ReadingFrom
<1>2. ReadTo(input', tokens', end + 1)
  BY <1>1
<1>3. Inside(input', end + 1, at', condition', string_literal_buffer', char_literal_buffer')
  BY DEF Inside
<1>4. ReadingFrom(end + 1)'
  BY <1>2, <1>3 DEF ReadingFrom
<1> QED
  BY <1>4, StillReading

LEMMA ReturnsConstruct ==
    ASSUME input \in Seq(Characters), NEW b, ReadingFrom(b), b <= Len(input),
           NEW end, NEW kind, NEW value,
           Complete(ConstructAt(input, b), end, <<Token(kind, value)>>),
           input' = input, at' = end + 1, Return(kind, value), condition' = "INITIAL"
    PROVE  ReadInv'
<1> DEFINE token == Token(kind, value)
<1>1. ReadTo(input, tokens \o <<token>>, end + 1)
  BY ReadGoesOn DEF ReadingFrom
<1>2. tokens \in Seq(Tokens) /\ token \in Tokens
  <2>1. tokens \in Seq(Tokens) /\ b \in 1 .. Len(input)
    <3>1. Len(input) \in Nat
      BY CharactersOf
    <3> QED
      BY <3>1 DEF ReadingFrom, ReadTo
  <2>2. Continued(input, b, MeaningFrom(input)[b], ConstructAt(input, b),
                  MeaningFrom(input)[ConstructAt(input, b).end + 1])
    BY <2>1, MeaningUnfolds
  <2> HIDE DEF token
  <2>3. <<token>> \in Seq(Tokens)
    BY <2>2 DEF Continued, Complete, token
  <2>4. <<token>>[1] \in Tokens
    BY <2>3, ElementOfSeq
  <2> QED
    BY <2>1, <2>4
<1>3. tokens' = Append(tokens, token) /\ UNCHANGED <<has_encountered_error, ended>>
  BY DEF Return
<1> HIDE DEF token
<1>4. Append(tokens, token) = tokens \o <<token>>
  BY <1>2, AppendIsConcat
<1>5. tokens' = tokens \o <<token>>
  BY <1>3, <1>4
<1> QED
  BY <1>3, <1>5, TakesConstruct DEF token

LEMMA StaysInside ==
    ASSUME NEW b, ReadingFrom(b), input' = input, Ignore,
           Inside(input, b, at', condition', string_literal_buffer', char_literal_buffer')
    PROVE  ReadInv'
<1>1. ReadingFrom(b)'
  BY DEF ReadingFrom, Ignore, results
<1> QED
  BY <1>1, StillReading

LEMMA FindsNone ==
    ASSUME input \in Seq(Characters), NEW b, ReadingFrom(b), b <= Len(input),
           ~ConstructAt(input, b).right, input' = input, ended' = ended,
           has_encountered_error' \/ condition' = "IN_UNKNOWN_END"
    PROVE  ReadInv'
<1>1. NoMeaning(input)
  BY ReadBreaks DEF ReadingFrom
<1>2. Broken'
  BY <1>1 DEF Broken, ReadingFrom, NoMeaning
<1> QED
  BY <1>2 DEF ReadInv, ReadsConstructs, Broken

LEMMA NewlineStays ==
    ASSUME NewlineInCharacter, input' = input
    PROVE  ReadInv'
<1>1. NewlineInCharacter'
  BY DEF NewlineInCharacter, Meaning, Character
<1> QED
  BY <1>1 DEF ReadInv, ReadsConstructs

\* What comes next, where it is.
LEMMA CharacterHere ==
    ASSUME input \in Seq(Characters), at \in 1 .. Len(input) + 1
    PROVE  /\ This = CharacterOf(input, at) /\ Following = CharacterOf(input, at + 1)
           /\ This # END_OF_FILE => at \in 1 .. Len(input) /\ This = input[at]
           /\ This = END_OF_FILE => at = Len(input) + 1
<1>1. /\ Len(input) \in Nat
      /\ \A i \in 1 .. Len(input) : input[i] \in Characters /\ CharacterOf(input, i) = input[i]
      /\ \A i : i \notin 1 .. Len(input) => CharacterOf(input, i) = END_OF_FILE
  BY CharactersOf
<1>2. This = CharacterOf(input, at) /\ Following = CharacterOf(input, at + 1)
  BY DEF This, Following, Character
<1>3. at \in 1 .. Len(input) \/ at = Len(input) + 1
  BY <1>1
<1>4. at \in 1 .. Len(input) => This = input[at] /\ This # END_OF_FILE
  BY <1>1, <1>2, Distinct
<1>5. at \notin 1 .. Len(input) => This = END_OF_FILE
  BY <1>1, <1>2
<1> QED
  BY <1>2, <1>3, <1>4, <1>5

\* What holds wherever the scanner is.
LEMMA FileRead ==
    ASSUME ScannerInv
    PROVE  /\ input \in Seq(Characters) /\ at \in 1 .. Len(input) + 1 /\ Len(input) \in Nat
           /\ at \in Nat
           /\ at \in 1 .. Len(input) => at <= Len(input)
BY InputsAssumption, LenProperties DEF ScannerInv, TypeOK

\* Where a rule of a start condition matches.
LEMMA WhatIsRead ==
    ASSUME NEW b, ReadingFrom(b), NEW start, NEW n, Match(start, n)
    PROVE  /\ start = "INITIAL" => b = at
           /\ start = "IN_END" => InsideEnd(input, b, at)
           /\ start = "IN_STRING" => InsideString(input, b, at, string_literal_buffer)
           /\ start = "IN_CHAR" => InsideChar(input, b, at, char_literal_buffer)
           /\ start = "IN_COMMENT" => InsideLine(input, b, at)
           /\ start = "IN_MULTILINE_COMMENT" => InsideMultiline(input, b, at)
           /\ start # "IN_UNKNOWN_END"
           /\ input' = input /\ at' = at + n /\ condition = start
BY DEF ReadingFrom, Inside, Match

\* The rules that take a whole construct.
LEMMA WholeConstructs ==
    ASSUME ScannerInv, NEW b, ReadingFrom(b), Blank \/ Label \/ Word \/ Digits \/ Operator
    PROVE  ReadInv'
<1> DEFINE next == CharacterOf(input, at + 1)
<1>1. /\ input \in Seq(Characters) /\ Len(input) \in Nat /\ at \in Nat
      /\ at \in 1 .. Len(input) + 1
  BY FileRead
<1>2. This # END_OF_FILE
  BY Distinct DEF Blank, Label, Word, Digits, Operator, END_OF_FILE
<1>3. at \in 1 .. Len(input) /\ at <= Len(input) /\ This = CharacterOf(input, at)
  BY <1>1, <1>2, CharacterHere
<1>4. \E n : Match("INITIAL", n)
  BY DEF Blank, Label, Word, Digits, Operator
<1>5. b = at /\ input' = input /\ condition' = "INITIAL"
  BY <1>4, WhatIsRead DEF Blank, Label, Word, Digits, Operator
<1>6. ConstructAt(input, at) = ConstructOf(input, at, This, next)
  BY <1>3, ByCharacters
<1>7. Following = next
  BY <1>1, CharacterHere
<1>8. CASE Blank
  <2>1. This \in White /\ at' = at + 1 /\ Ignore
    BY <1>8 DEF Blank, Match
  <2>2. Complete(ConstructAt(input, b), at, <<>>)
    BY <1>3, <1>5, <1>6, <2>1, OfWhite, NothingComplete
  <2>3. tokens' = tokens \o <<>> /\ UNCHANGED <<has_encountered_error, ended>>
    <3>1. tokens \in Seq(Tokens)
      BY DEF ReadingFrom, ReadTo
    <3>2. tokens \o <<>> = tokens
      BY <3>1, ConcatEmptySeq
    <3> QED
      BY <2>1, <3>2 DEF Ignore, results
  <2> QED
    BY <1>1, <1>3, <1>5, <2>1, <2>2, <2>3, TakesConstruct
<1>9. CASE Label
  <2>1. This \in Words /\ next = "colon" /\ at' = at + 2 /\ Return("LABEL", This)
    BY <1>7, <1>9 DEF Label, Match
  <2>2. ConstructAt(input, b) = One(input, at + 1, "LABEL", This)
    BY <1>5, <1>6, <2>1, OfLabel
  <2>3. at + 1 <= Len(input) /\ at' = (at + 1) + 1
    <3>1. Following # END_OF_FILE
      BY <1>7, <2>1 DEF END_OF_FILE
    <3>2. at + 1 \in 1 .. Len(input)
      BY <1>1, <1>7, <3>1, CharactersOf
    <3> QED
      BY <1>1, <2>1, <3>2
  <2>4. Complete(ConstructAt(input, b), at + 1, <<Token("LABEL", This)>>)
    BY <2>2, <2>3, OneComplete
  <2> QED
    BY <1>1, <1>3, <1>5, <2>1, <2>3, <2>4, ReturnsConstruct
<1>10. CASE Word
  <2>1. This \in Words \ {"end"} /\ next # "colon" /\ at' = at + 1 /\ Return("WORD", This)
    BY <1>7, <1>10 DEF Word, Match
  <2>2. Complete(ConstructAt(input, b), at, <<Token("WORD", This)>>)
    BY <1>3, <1>5, <1>6, <2>1, OfWord, OneComplete
  <2> QED
    BY <1>1, <1>3, <1>5, <2>1, <2>2, ReturnsConstruct
<1>11. CASE Digits
  <2>1. This = "digits" /\ at' = at + 1 /\ Return("LITERAL", This)
    BY <1>11 DEF Digits, Match
  <2>2. Complete(ConstructAt(input, b), at, <<Token("LITERAL", This)>>)
    BY <1>3, <1>5, <1>6, <2>1, OfDigits, OneComplete
  <2> QED
    BY <1>1, <1>3, <1>5, <2>1, <2>2, ReturnsConstruct
<1>12. CASE Operator
  <2>1. /\ This \in Operators /\ ~(This = "slash" /\ next \in {"slash", "star"})
        /\ at' = at + 1 /\ Return(This, This)
    BY <1>7, <1>12 DEF Operator, Match
  <2>2. Complete(ConstructAt(input, b), at, <<Token(This, This)>>)
    BY <1>3, <1>5, <1>6, <2>1, OfOperator, OneComplete
  <2> QED
    BY <1>1, <1>3, <1>5, <2>1, <2>2, ReturnsConstruct
<1> QED
  BY <1>8, <1>9, <1>10, <1>11, <1>12

\* The rules that begin one, and the one of what begins none.
LEMMA Beginnings ==
    ASSUME ScannerInv, NEW b, ReadingFrom(b),
           End \/ Quote \/ Apostrophe \/ Comment \/ MultilineComment \/ UnknownSymbol
    PROVE  ReadInv'
<1>1. /\ input \in Seq(Characters) /\ Len(input) \in Nat /\ at \in Nat
      /\ at \in 1 .. Len(input) + 1
  BY FileRead
<1>2. This # END_OF_FILE
  BY DEF End, Quote, Apostrophe, Comment, MultilineComment, UnknownSymbol, END_OF_FILE
<1>3. /\ at \in 1 .. Len(input) /\ at <= Len(input)
      /\ This = CharacterOf(input, at) /\ This = input[at]
      /\ Following = CharacterOf(input, at + 1)
  BY <1>1, <1>2, CharacterHere
<1>4. \E n : Match("INITIAL", n)
  BY DEF End, Quote, Apostrophe, Comment, MultilineComment, UnknownSymbol
<1>5. b = at /\ input' = input
  BY <1>4, WhatIsRead
<1>6. ASSUME Ignore,
             Inside(input, at, at', condition', string_literal_buffer', char_literal_buffer')
      PROVE  ReadInv'
  BY <1>5, <1>6, StaysInside
<1>7. CASE End
  <2>1. /\ This = "end" /\ Following # "colon" /\ at' = at + 1 /\ condition' = "IN_END"
        /\ Ignore
    BY <1>7 DEF End, Match, BEGIN
  <2>2. InsideEnd(input, at, at')
    BY <1>1, <1>3, <2>1, InsideStarts
  <2> QED
    BY <1>6, <2>1, <2>2 DEF Inside
<1>8. CASE Quote
  <2>1. /\ This = "quote" /\ at' = at + 1 /\ condition' = "IN_STRING" /\ Ignore
        /\ string_literal_buffer' = <<>>
    <3>1. string_literal_buffer = <<>>
      BY <1>8 DEF Quote, Match, ScannerInv, BuffersStartEmpty
    <3> QED
      BY <1>8, <3>1 DEF Quote, Match, BEGIN, buffers
  <2>2. InsideString(input, at, at', string_literal_buffer')
    BY <1>1, <1>3, <2>1, InsideStarts
  <2> QED
    BY <1>6, <2>1, <2>2 DEF Inside
<1>9. CASE Apostrophe
  <2>1. /\ This = "apostrophe" /\ at' = at + 1 /\ condition' = "IN_CHAR" /\ Ignore
        /\ char_literal_buffer' = Zero
    <3>1. char_literal_buffer = Zero
      BY <1>9 DEF Apostrophe, Match, ScannerInv, BuffersStartEmpty
    <3> QED
      BY <1>9, <3>1 DEF Apostrophe, Match, BEGIN, buffers
  <2>2. InsideChar(input, at, at', char_literal_buffer')
    BY <1>1, <1>3, <2>1, InsideStarts
  <2> QED
    BY <1>6, <2>1, <2>2 DEF Inside
<1>10. CASE Comment
  <2>1. /\ \/ This = "hash" /\ at' = at + 1
           \/ This = "slash" /\ Following = "slash" /\ at' = at + 2
        /\ condition' = "IN_COMMENT" /\ Ignore
    BY <1>10 DEF Comment, Match, BEGIN
  <2>2. InsideLine(input, at, at')
    BY <1>1, <1>3, <2>1, InsideStarts
  <2> QED
    BY <1>6, <2>1, <2>2 DEF Inside
<1>11. CASE MultilineComment
  <2>1. /\ This = "slash" /\ Following = "star" /\ at' = at + 2
        /\ condition' = "IN_MULTILINE_COMMENT" /\ Ignore
    BY <1>11 DEF MultilineComment, Match, BEGIN
  <2>2. InsideMultiline(input, at, at')
    BY <1>1, <1>3, <2>1, InsideStarts
  <2> QED
    BY <1>6, <2>1, <2>2 DEF Inside
<1>12. CASE UnknownSymbol
  <2>1. This \in {"unknown", "backslash"} /\ has_encountered_error' = TRUE /\ ended' = ended
    BY <1>12 DEF UnknownSymbol, IssueError
  <2>2. ConstructAt(input, at) = Wrong(at)
    <3>1. ConstructAt(input, at) = ConstructOf(input, at, This, Following)
      BY <1>3, ByCharacters
    <3> QED
      BY <2>1, <3>1, OfUnknown
  <2>3. ~ConstructAt(input, b).right
    BY <1>5, <2>2 DEF Wrong, Construct
  <2> QED
    BY <1>1, <1>3, <1>5, <2>1, <2>3, FindsNone
<1> QED
  BY <1>7, <1>8, <1>9, <1>10, <1>11, <1>12

\* The rules of IN_END.
LEMMA EndGoesOn ==
    ASSUME ScannerInv, NEW b, ReadingFrom(b), EndOfBlock \/ EndBlank \/ EndUnknown
    PROVE  ReadInv'
<1>1. /\ input \in Seq(Characters) /\ Len(input) \in Nat /\ at \in Nat
      /\ at \in 1 .. Len(input) + 1
  BY FileRead
<1>2. This # END_OF_FILE
  BY Distinct DEF EndOfBlock, EndBlank, EndUnknown
<1>3. /\ at \in 1 .. Len(input)
      /\ This = CharacterOf(input, at) /\ This = input[at]
  BY <1>1, <1>2, CharacterHere
<1>4. \E n : Match("IN_END", n)
  BY DEF EndOfBlock, EndBlank, EndUnknown
<1>5. input' = input /\ InsideEnd(input, b, at)
  BY <1>4, WhatIsRead
<1>6. b <= Len(input)
  BY <1>1, <1>5 DEF InsideEnd
<1>7. CASE EndOfBlock
  <2>1. /\ This \in Blocks /\ at' = at + 1 /\ condition' = "INITIAL" /\ Return("END", This)
    BY <1>7 DEF EndOfBlock, Match, BEGIN
  <2>2. This \notin White
    BY <2>1 DEF Blocks, White
  <2>3. Complete(ConstructAt(input, b), at, <<Token("END", This)>>)
    BY <1>1, <1>3, <1>5, <2>1, <2>2, EndRead
  <2> QED
    BY <1>1, <1>5, <1>6, <2>1, <2>3, ReturnsConstruct
<1>8. CASE EndBlank
  <2>1. This \in White /\ at' = at + 1 /\ condition' = "IN_END" /\ Ignore
    BY <1>8 DEF EndBlank, Match
  <2>2. InsideEnd(input, b, at')
    BY <1>1, <1>3, <1>5, <2>1, InsideGoesOn
  <2>3. Inside(input, b, at', condition', string_literal_buffer', char_literal_buffer')
    BY <2>1, <2>2 DEF Inside
  <2> QED
    BY <1>5, <2>1, <2>3, StaysInside
<1>9. CASE EndUnknown
  <2>1. /\ This \notin Blocks /\ This \notin White /\ ended' = ended
        /\ condition' = "IN_UNKNOWN_END"
    BY <1>9 DEF EndUnknown, BEGIN, UnknownEndCondition, Ignore, results
  <2>2. ~ConstructAt(input, b).right
    BY <1>1, <1>3, <1>5, <2>1, EndRead
  <2> QED
    BY <1>1, <1>5, <1>6, <2>1, <2>2, FindsNone
<1> QED
  BY <1>7, <1>8, <1>9

\* The rules of IN_CHAR.
LEMMA CharGoesOn ==
    ASSUME ScannerInv, NEW b, ReadingFrom(b), CharClosed \/ CharInside
    PROVE  ReadInv'
<1>1. /\ input \in Seq(Characters) /\ Len(input) \in Nat /\ at \in Nat
      /\ at \in 1 .. Len(input) + 1
  BY FileRead
<1>2. This # END_OF_FILE
  BY DEF CharClosed, CharInside, END_OF_FILE
<1>3. at \in 1 .. Len(input) /\ This = input[at]
  BY <1>1, <1>2, CharacterHere
<1>4. \E n : Match("IN_CHAR", n)
  BY DEF CharClosed, CharInside
<1>5. input' = input /\ InsideChar(input, b, at, char_literal_buffer) /\ condition = "IN_CHAR"
  BY <1>4, WhatIsRead
<1>6. b <= Len(input)
  BY <1>1, <1>5 DEF InsideChar
<1>7. CASE CharClosed
  <2>1. /\ This = "apostrophe" /\ at' = at + 1 /\ condition' = "INITIAL"
        /\ Return("LITERAL", char_literal_buffer)
    BY <1>7 DEF CharClosed, Match, BEGIN
  <2>2. CASE Complete(ConstructAt(input, b), at, <<Token("LITERAL", char_literal_buffer)>>)
    BY <1>1, <1>5, <1>6, <2>1, <2>2, ReturnsConstruct
  <2>3. CASE ~ConstructAt(input, b).right /\ ConstructAt(input, b).end = at
    <3>1. NoMeaning(input) /\ MeaningFrom(input)[1].end = at
      BY <1>1, <1>6, <2>3, ReadBreaks DEF ReadingFrom
    <3>2. Character(at) = "apostrophe"
      BY <2>1 DEF This
    <3>3. NewlineInCharacter
      BY <3>1, <3>2 DEF NewlineInCharacter, Meaning, NoMeaning
    <3> QED
      BY <1>5, <3>3, NewlineStays
  <2> QED
    BY <1>1, <1>3, <1>5, <2>1, <2>2, <2>3, CharRead
<1>8. CASE CharInside
  <2>1. /\ This # "apostrophe" /\ at' = at + 1 /\ condition' = "IN_CHAR" /\ Ignore
        /\ char_literal_buffer' = This
    BY <1>5, <1>8 DEF CharInside, Match
  <2>2. InsideChar(input, b, at', char_literal_buffer')
    BY <1>1, <1>3, <1>5, <2>1, InsideGoesOn
  <2>3. Inside(input, b, at', condition', string_literal_buffer', char_literal_buffer')
    BY <2>1, <2>2 DEF Inside
  <2> QED
    BY <1>5, <2>1, <2>3, StaysInside
<1> QED
  BY <1>7, <1>8

\* Those of IN_STRING.
LEMMA StringRules ==
    ASSUME ScannerInv, NEW b, ReadingFrom(b),
           StringClosed \/ StringEscape \/ StringNewline \/ StringInside
    PROVE  ReadInv'
<1> DEFINE string == string_literal_buffer
<1>1. /\ input \in Seq(Characters) /\ Len(input) \in Nat /\ at \in Nat
      /\ at \in 1 .. Len(input) + 1
  BY FileRead
<1>2. This # END_OF_FILE
  BY DEF StringClosed, StringEscape, StringNewline, StringInside, END_OF_FILE
<1>3. /\ at \in 1 .. Len(input) /\ This = input[at]
      /\ This = CharacterOf(input, at) /\ Following = CharacterOf(input, at + 1)
  BY <1>1, <1>2, CharacterHere
<1>4. \E n : Match("IN_STRING", n)
  BY DEF StringClosed, StringEscape, StringNewline, StringInside
<1>5. input' = input /\ InsideString(input, b, at, string) /\ condition = "IN_STRING"
  BY <1>4, WhatIsRead
<1>6. b <= Len(input)
  BY <1>1, <1>5 DEF InsideString
<1>7. ASSUME Ignore, condition' = "IN_STRING",
             InsideString(input, b, at', string_literal_buffer')
      PROVE  ReadInv'
  <2>1. Inside(input, b, at', condition', string_literal_buffer', char_literal_buffer')
    BY <1>7 DEF Inside
  <2> QED
    BY <1>5, <1>7, <2>1, StaysInside
<1>8. CASE StringClosed
  <2>1. /\ This = "quote" /\ at' = at + 1 /\ condition' = "INITIAL"
        /\ Return("ARRAY_LITERAL", string)
    BY <1>8 DEF StringClosed, Match, BEGIN
  <2>2. Complete(ConstructAt(input, b), at, <<Token("ARRAY_LITERAL", string)>>)
    BY <1>1, <1>3, <1>5, <2>1, StringRead
  <2> QED
    BY <1>1, <1>5, <1>6, <2>1, <2>2, ReturnsConstruct
<1>9. CASE StringEscape
  <2>1. /\ This = "backslash" /\ Following \in Escapes /\ at' = at + 2
        /\ condition' = "IN_STRING" /\ Ignore
        /\ string_literal_buffer' = Append(string, Unescaped(Following))
    BY <1>5, <1>9 DEF StringEscape, Match
  <2>2. InsideString(input, b, at', string_literal_buffer')
    BY <1>1, <1>3, <1>5, <2>1, EscapeGoesOn
  <2> QED
    BY <1>7, <2>1, <2>2
<1>10. CASE StringNewline
  <2>1. This = "newline" /\ has_encountered_error' = TRUE /\ ended' = ended
    BY <1>10 DEF StringNewline
  <2>2. ~ConstructAt(input, b).right
    BY <1>1, <1>3, <1>5, <2>1, StringRead
  <2> QED
    BY <1>1, <1>5, <1>6, <2>1, <2>2, FindsNone
<1>11. CASE StringInside
  <2>1. /\ This \notin {"quote", "newline"}
        /\ ~(This = "backslash" /\ Following \in Escapes) /\ at' = at + 1
        /\ condition' = "IN_STRING" /\ Ignore
        /\ string_literal_buffer' = Append(string, This)
    BY <1>5, <1>11 DEF StringInside, Match
  <2>2. InsideString(input, b, at', string_literal_buffer')
    BY <1>1, <1>3, <1>5, <2>1, StringGoesOn
  <2> QED
    BY <1>7, <2>1, <2>2
<1> QED
  BY <1>8, <1>9, <1>10, <1>11

\* Those of the comments.
LEMMA CommentsGoOn ==
    ASSUME ScannerInv, NEW b, ReadingFrom(b),
           CommentClosed \/ CommentInside \/ MultilineClosed \/ MultilineInside
    PROVE  ReadInv'
<1>1. /\ input \in Seq(Characters) /\ Len(input) \in Nat /\ at \in Nat
      /\ at \in 1 .. Len(input) + 1
  BY FileRead
<1>2. This # END_OF_FILE
  BY DEF CommentClosed, CommentInside, MultilineClosed, MultilineInside, END_OF_FILE
<1>3. /\ at \in 1 .. Len(input) /\ This = input[at]
      /\ This = CharacterOf(input, at) /\ Following = CharacterOf(input, at + 1)
  BY <1>1, <1>2, CharacterHere
<1>4. tokens \o <<>> = tokens
  <2>1. tokens \in Seq(Tokens)
    BY DEF ReadingFrom, ReadTo
  <2> QED
    BY <2>1, ConcatEmptySeq
<1>5. CASE CommentClosed \/ CommentInside
  <2>1. \E n : Match("IN_COMMENT", n)
    BY <1>5 DEF CommentClosed, CommentInside
  <2>2. input' = input /\ InsideLine(input, b, at) /\ condition = "IN_COMMENT"
    BY <2>1, WhatIsRead
  <2>3. b <= Len(input)
    BY <1>1, <2>2 DEF InsideLine
  <2>4. CASE CommentClosed
    <3>1. /\ This = "newline" /\ at' = at + 1 /\ condition' = "INITIAL"
          /\ tokens' = tokens \o <<>> /\ UNCHANGED <<has_encountered_error, ended>>
      BY <1>4, <2>4 DEF CommentClosed, Match, BEGIN, Ignore, results
    <3>2. Complete(ConstructAt(input, b), at, <<>>)
      BY <1>1, <1>3, <2>2, <3>1, LineRead
    <3> QED
      BY <1>1, <2>2, <2>3, <3>1, <3>2, TakesConstruct
  <2>5. CASE CommentInside
    <3>1. at' = at + RestOfLine /\ condition' = "IN_COMMENT" /\ Ignore
      BY <2>2, <2>5 DEF CommentInside, Match
    <3>2. /\ RestOfLine \in Nat /\ at + RestOfLine <= Len(input) + 1
          /\ \A i \in at .. at + RestOfLine - 1 : CharacterOf(input, i) # "newline"
      BY <1>1, LineEnds
    <3>3. InsideLine(input, b, at')
      BY <1>1, <2>2, <3>1, <3>2, LineGoesOn
    <3>4. Inside(input, b, at', condition', string_literal_buffer', char_literal_buffer')
      BY <3>1, <3>3 DEF Inside
    <3> QED
      BY <2>2, <3>1, <3>4, StaysInside
  <2> QED
    BY <1>5, <2>4, <2>5
<1>6. CASE MultilineClosed \/ MultilineInside
  <2>1. \E n : Match("IN_MULTILINE_COMMENT", n)
    BY <1>6 DEF MultilineClosed, MultilineInside
  <2>2. /\ input' = input /\ InsideMultiline(input, b, at)
        /\ condition = "IN_MULTILINE_COMMENT"
    BY <2>1, WhatIsRead
  <2>3. b <= Len(input)
    BY <1>1, <2>2 DEF InsideMultiline
  <2>4. CASE MultilineClosed
    <3>1. /\ This = "star" /\ Following = "slash" /\ at' = at + 2 /\ condition' = "INITIAL"
          /\ tokens' = tokens \o <<>> /\ UNCHANGED <<has_encountered_error, ended>>
      BY <1>4, <2>4 DEF MultilineClosed, Match, BEGIN, Ignore, results
    <3>2. Complete(ConstructAt(input, b), at + 1, <<>>)
      BY <1>1, <1>3, <2>2, <3>1, MultilineRead
    <3>3. at' = (at + 1) + 1
      BY <1>1, <3>1
    <3> QED
      BY <1>1, <2>2, <2>3, <3>1, <3>2, <3>3, TakesConstruct
  <2>5. CASE MultilineInside
    <3>1. /\ ~(This = "star" /\ Following = "slash") /\ at' = at + 1
          /\ condition' = "IN_MULTILINE_COMMENT" /\ Ignore
      BY <2>2, <2>5 DEF MultilineInside, Match
    <3>2. InsideMultiline(input, b, at')
      BY <1>1, <1>3, <2>2, <3>1, InsideGoesOn
    <3>3. Inside(input, b, at', condition', string_literal_buffer', char_literal_buffer')
      BY <3>1, <3>2 DEF Inside
    <3> QED
      BY <2>2, <3>1, <3>3, StaysInside
  <2> QED
    BY <1>6, <2>4, <2>5
<1> QED
  BY <1>5, <1>6

\* The end of the file.
LEMMA FileEnds ==
    ASSUME ScannerInv, NEW b, ReadingFrom(b), EndOfFile
    PROVE  ReadInv'
<1> DEFINE meaning == MeaningFrom(input)[1]
<1>1. /\ input \in Seq(Characters) /\ Len(input) \in Nat /\ at \in Nat
      /\ at \in 1 .. Len(input) + 1
  BY FileRead
<1>2. CharacterOf(input, at) = END_OF_FILE /\ at = Len(input) + 1
  BY <1>1, CharacterHere DEF EndOfFile
<1>3. /\ ended' /\ tokens' = tokens /\ input' = input /\ condition' = condition
      /\ ~has_encountered_error
      /\ has_encountered_error' <=> condition \in {"IN_COMMENT", "IN_MULTILINE_COMMENT"}
      /\ has_encountered_error' \in BOOLEAN
  BY DEF EndOfFile, Match, Terminate, ReadingFrom, ScannerInv, TypeOK
<1>4. ReadTo(input, tokens, b)
  BY DEF ReadingFrom
<1>5. CASE condition = "INITIAL"
  <2>1. b = Len(input) + 1
    BY <1>2, <1>5 DEF ReadingFrom, Inside
  <2>2. meaning.right = TRUE /\ meaning.made = tokens
    BY <1>1, <1>4, <2>1, ReadEnds
  <2>3. Meaning' = meaning
    BY <1>3 DEF Meaning
  <2>4. Meaning'.right = TRUE /\ Meaning'.made = tokens'
    BY <1>3, <2>2, <2>3
  <2>5. has_encountered_error' = FALSE /\ condition' = "INITIAL"
    BY <1>3, <1>5
  <2> QED
    BY <1>3, <2>4, <2>5 DEF ReadInv, ReadsConstructs
<1>6. CASE condition # "INITIAL"
  <2>1. b <= Len(input) /\ ~ConstructAt(input, b).right
    <3>1. \/ InsideEnd(input, b, at)
          \/ InsideString(input, b, at, string_literal_buffer)
          \/ InsideChar(input, b, at, char_literal_buffer)
          \/ InsideLine(input, b, at) \/ InsideMultiline(input, b, at)
      BY <1>6 DEF ReadingFrom, Inside
    <3>2. b <= Len(input)
      BY <1>1, <3>1 DEF InsideEnd, InsideString, InsideChar, InsideLine, InsideMultiline
    <3>3. CASE InsideEnd(input, b, at)
      BY <1>1, <1>2, <3>2, <3>3, EndRead, Distinct
    <3>4. CASE InsideString(input, b, at, string_literal_buffer)
      BY <1>1, <1>2, <3>2, <3>4, StringRead
    <3>5. CASE InsideChar(input, b, at, char_literal_buffer)
      BY <1>1, <1>2, <3>2, <3>5, CharRead
    <3>6. CASE InsideLine(input, b, at)
      BY <1>1, <1>2, <3>2, <3>6, LineRead
    <3>7. CASE InsideMultiline(input, b, at)
      BY <1>1, <1>2, <3>2, <3>7, MultilineRead
    <3> QED
      BY <3>1, <3>3, <3>4, <3>5, <3>6, <3>7
  <2>2. meaning.right = FALSE
    BY <1>1, <1>4, <2>1, ReadBreaks DEF NoMeaning
  <2>3. Meaning' = meaning
    BY <1>3 DEF Meaning
  <2>4. Meaning'.right = FALSE
    BY <2>2, <2>3
  <2> QED
    BY <1>3, <1>6, <2>4 DEF ReadInv, ReadsConstructs
<1> QED
  BY <1>5, <1>6

\* What was found not to be a construct stays so, and is reported when the file ends.
LEMMA BrokenStays ==
    ASSUME ScannerInv, Broken, Step
    PROVE  ReadInv'
<1>1. input' = input /\ NoMeaning(input) /\ ~ended /\ has_encountered_error' \in BOOLEAN
  <2>1. has_encountered_error' \in BOOLEAN
    BY StepKeeps
  <2>2. input' = input
    BY DEF Step, Match, Blank, Label, End, Word, Digits, Operator, Quote, Apostrophe, Comment,
       MultilineComment, UnknownSymbol, EndOfBlock, EndBlank, EndUnknown, UnknownEnd, CharClosed,
       CharInside, StringClosed, StringEscape, StringNewline, StringInside, CommentClosed,
       CommentInside, MultilineClosed, MultilineInside, EndOfFile
  <2> QED
    BY <2>1, <2>2 DEF Broken
<1>2. has_encountered_error' \/ (condition' = "IN_UNKNOWN_END" /\ ~ended')
  <2> USE DEF Match, Return, IssueError, Ignore, results, Broken
  <2>1. CASE condition # "IN_UNKNOWN_END" /\ has_encountered_error
    <3>1. CASE \/ Blank \/ Label \/ End \/ Word \/ Digits \/ Operator
               \/ Quote \/ Apostrophe \/ Comment \/ MultilineComment \/ UnknownSymbol
      BY <2>1, <3>1 DEF Blank, Label, End, Word, Digits, Operator, Quote, Apostrophe, Comment,
         MultilineComment, UnknownSymbol
    <3>2. CASE \/ EndOfBlock \/ EndBlank \/ EndUnknown \/ UnknownEnd \/ CharClosed \/ CharInside
               \/ StringClosed \/ StringEscape \/ StringNewline \/ StringInside \/ EndOfFile
      BY <2>1, <3>2 DEF EndOfBlock, EndBlank, EndUnknown, UnknownEnd, CharClosed, CharInside,
         StringClosed, StringEscape, StringNewline, StringInside, EndOfFile
    <3>3. CASE CommentClosed \/ CommentInside \/ MultilineClosed \/ MultilineInside
      BY <2>1, <3>3 DEF CommentClosed, CommentInside, MultilineClosed, MultilineInside
    <3> QED
      BY <3>1, <3>2, <3>3 DEF Step
  <2>2. CASE condition = "IN_UNKNOWN_END"
    <3>1. UnknownEnd
      BY <2>2 DEF Step, Blank, Label, End, Word, Digits, Operator, Quote, Apostrophe, Comment,
         MultilineComment, UnknownSymbol, EndOfBlock, EndBlank, EndUnknown, CharClosed,
         CharInside, StringClosed, StringEscape, StringNewline, StringInside, CommentClosed,
         CommentInside, MultilineClosed, MultilineInside, EndOfFile
    <3> QED
      BY <3>1 DEF UnknownEnd
  <2> QED
    BY <2>1, <2>2
<1>3. Meaning'.right = FALSE
  <2>1. Meaning' = MeaningFrom(input)[1]
    BY <1>1 DEF Meaning
  <2> QED
    BY <1>1, <2>1 DEF NoMeaning
<1>4. ReadsConstructs'
  BY <1>1, <1>2, <1>3 DEF ReadsConstructs
<1>5. ended' \/ Broken'
  BY <1>1, <1>2 DEF Broken, NoMeaning
<1> QED
  BY <1>4, <1>5 DEF ReadInv

LEMMA ReadingStep ==
    ASSUME ScannerInv, NEW b, ReadingFrom(b), Step
    PROVE  ReadInv'
<1>1. condition # "IN_UNKNOWN_END"
  BY DEF ReadingFrom, Inside
<1>2. CASE Blank \/ Label \/ Word \/ Digits \/ Operator
  BY <1>2, WholeConstructs
<1>3. CASE End \/ Quote \/ Apostrophe \/ Comment \/ MultilineComment \/ UnknownSymbol
  BY <1>3, Beginnings
<1>4. CASE EndOfBlock \/ EndBlank \/ EndUnknown
  BY <1>4, EndGoesOn
<1>5. CASE UnknownEnd
  BY <1>1, <1>5 DEF UnknownEnd, Match
<1>6. CASE CharClosed \/ CharInside
  BY <1>6, CharGoesOn
<1>7. CASE StringClosed \/ StringEscape \/ StringNewline \/ StringInside
  BY <1>7, StringRules
<1>8. CASE CommentClosed \/ CommentInside \/ MultilineClosed \/ MultilineInside
  BY <1>8, CommentsGoOn
<1>9. CASE EndOfFile
  BY <1>9, FileEnds
<1> QED
  BY <1>2, <1>3, <1>4, <1>5, <1>6, <1>7, <1>8, <1>9 DEF Step

LEMMA ReadInit == Init => ReadInv
<1> SUFFICES ASSUME Init PROVE ReadInv
  OBVIOUS
<1>1. input \in Seq(Characters) /\ 1 \in 1 .. Len(input) + 1
  <2>1. input \in Seq(Characters)
    BY InputsAssumption DEF Init
  <2> QED
    BY <2>1, LenProperties
<1>2. ReadTo(input, <<>>, 1)
  BY <1>1, ReadStarts
<1>3. ReadingFrom(1)
  BY <1>2 DEF Init, ReadingFrom, Inside
<1> QED
  BY <1>1, <1>3 DEF ReadInv, Reading, ReadsConstructs, Init

LEMMA ReadInductive == ScannerInv /\ ReadInv /\ [Next]_vars => ReadInv'
<1> SUFFICES ASSUME ScannerInv, ReadInv, [Next]_vars PROVE ReadInv'
  OBVIOUS
<1>1. CASE Step
  <2>1. ~ended
    BY <1>1 DEF Step, Match, Blank, Label, End, Word, Digits, Operator, Quote, Apostrophe, Comment,
       MultilineComment, UnknownSymbol, EndOfBlock, EndBlank, EndUnknown, UnknownEnd, CharClosed,
       CharInside, StringClosed, StringEscape, StringNewline, StringInside, CommentClosed,
       CommentInside, MultilineClosed, MultilineInside, EndOfFile
  <2>2. CASE Reading
    BY <1>1, <2>2, ReadingStep DEF Reading
  <2>3. CASE Broken
    BY <1>1, <2>3, BrokenStays
  <2>4. CASE NewlineInCharacter
    <3>1. input' = input
      BY <1>1 DEF Step, Match, Blank, Label, End, Word, Digits, Operator, Quote, Apostrophe,
         Comment, MultilineComment, UnknownSymbol, EndOfBlock, EndBlank, EndUnknown, UnknownEnd,
         CharClosed, CharInside, StringClosed, StringEscape, StringNewline, StringInside,
         CommentClosed, CommentInside, MultilineClosed, MultilineInside, EndOfFile
    <3> QED
      BY <2>4, <3>1, NewlineStays
  <2> QED
    BY <2>1, <2>2, <2>3, <2>4 DEF ReadInv
<1>2. CASE UNCHANGED vars
  <2>1. /\ input' = input /\ tokens' = tokens /\ at' = at /\ condition' = condition
        /\ string_literal_buffer' = string_literal_buffer
        /\ char_literal_buffer' = char_literal_buffer
        /\ has_encountered_error' = has_encountered_error /\ ended' = ended
    BY <1>2 DEF vars
  <2>2. ReadsConstructs'
    BY <2>1 DEF ReadInv, ReadsConstructs, NewlineInCharacter, Meaning, Character
  <2>3. (ended \/ Reading \/ Broken \/ NewlineInCharacter)'
    BY <2>1 DEF ReadInv, Reading, ReadingFrom, Broken, NewlineInCharacter, Meaning, Character
  <2> QED
    BY <2>2, <2>3 DEF ReadInv
<1> QED
  BY <1>1, <1>2 DEF Next, Halted

(***************************************************************************)
(* The scanner reads every file as the constructs it consists of: the      *)
(* tokens of every string, character, word and `end' are those that stand  *)
(* there, and a file with anything else in it is reported or leaves the    *)
(* scanner in what was not closed (all the rules of eaxhla.l).             *)
(***************************************************************************)
THEOREM FilesAreRead == Spec => []ReadsConstructs
<1>1. Init => ScannerInv /\ ReadInv
  BY ScannerInit, ReadInit
<1>2. ScannerInv /\ ReadInv /\ [Next]_vars => (ScannerInv /\ ReadInv)'
  BY ScannerInductive, ReadInductive
<1>3. ReadInv => ReadsConstructs
  BY DEF ReadInv
<1> QED
  BY <1>1, <1>2, <1>3, PTL DEF Spec

=============================================================================

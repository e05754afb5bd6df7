------------------------------ MODULE Scanner ------------------------------
(***************************************************************************)
(* The scanner: the rules of eaxhla.l and the start conditions that say    *)
(* which of them apply.                                                    *)
(*                                                                         *)
(* An input is a sequence of characters.  What only ever matters as a      *)
(* whole is one character here: a word, and a run of digits.  So two words *)
(* never stand side by side.  One action is one match of one rule, or one  *)
(* of the end of the file; the longest match and, among equals, the first  *)
(* rule wins, which the guards spell out.                                  *)
(*                                                                         *)
(* Operators other than slash, star and colon, hexadecimal escapes, and    *)
(* the start condition IN_ARTIMETRIC_BLOCK, which nothing enters, are left *)
(* out.                                                                    *)
(***************************************************************************)
EXTENDS Integers, FiniteSets, SequencesExt

CONSTANT Inputs     \* The files to scan.

White  == {"space", "newline"}
Blocks == {"program", "repeat"}          \* Words that `end' may be followed by.
Words  == Blocks \union {"end", "n", "other"}
Operators == {"slash", "star", "colon"}
Escapes == {"n", "quote", "backslash"}   \* What a backslash changes in a string.

Characters ==
    White \union Words \union Operators \union Escapes
    \union {"apostrophe", "hash", "digits", "unknown"}

ASSUME InputsAssumption == Inputs \subseteq Seq(Characters)

VARIABLES
    input,                  \* The file,
    at,                     \* and the place of the character that comes next.
    condition,              \* The start condition.
    string_literal_buffer,
    char_literal_buffer,
    tokens,                 \* What yylex returned so far.
    has_encountered_error,
    ended                   \* Whether it returned 0, the end, after which nobody calls it.

vars == <<input, at, condition, string_literal_buffer, char_literal_buffer, tokens,
          has_encountered_error, ended>>

Conditions == {"INITIAL", "IN_COMMENT", "IN_MULTILINE_COMMENT", "IN_CHAR", "IN_STRING",
               "IN_END", "IN_UNKNOWN_END"}

END_OF_FILE == "end of file"
Zero == "zero"

CharacterOf(file, i) == IF i \in DOMAIN file THEN file[i] ELSE END_OF_FILE
Character(i) == CharacterOf(input, i)
This == Character(at)
Following == Character(at + 1)

\* Tokens, and the values that come with some of them.
Token(kind, value) == [kind |-> kind, value |-> value]

Init ==
    /\ input \in Inputs
    /\ at = 1
    /\ condition = "INITIAL"
    /\ string_literal_buffer = <<>>
    /\ char_literal_buffer = Zero
    /\ tokens = <<>>
    /\ has_encountered_error = FALSE
    /\ ended = FALSE

-----------------------------------------------------------------------------
(***************************************************************************)
(* What a match does.                                                      *)
(***************************************************************************)
buffers == <<string_literal_buffer, char_literal_buffer>>
results == <<tokens, has_encountered_error, ended>>

\* A rule of `start' matches `length' characters.
Match(start, length) ==
    /\ ~ended /\ condition = start
    /\ at' = at + length
    /\ UNCHANGED input

BEGIN(start) == condition' = start

Return(kind, value) ==
    /\ tokens' = Append(tokens, Token(kind, value))
    /\ UNCHANGED <<has_encountered_error, ended>>

IssueError ==
    /\ has_encountered_error' = TRUE
    /\ UNCHANGED <<tokens, ended>>

Ignore == UNCHANGED results

Terminate == ended' = TRUE /\ UNCHANGED tokens

\* What `.*' matches.
\* Mutant: the newline as well, which may not be there.
RestOfLineAndMore == 1 + CHOOSE n \in 0 .. Len(input) :
    /\ \A i \in at .. at + n - 1 : Character(i) \notin {"newline", END_OF_FILE}
    /\ Character(at + n) \in {"newline", END_OF_FILE}

RestOfLine == CHOOSE n \in 0 .. Len(input) :
    /\ \A i \in at .. at + n - 1 : Character(i) \notin {"newline", END_OF_FILE}
    /\ Character(at + n) \in {"newline", END_OF_FILE}

-----------------------------------------------------------------------------
(***************************************************************************)
(* Between tokens.                                                         *)
(***************************************************************************)
Blank ==
    /\ This \in White
    /\ Match("INITIAL", 1) /\ Ignore
    /\ UNCHANGED <<condition, buffers>>

\* Any word with a colon behind it, `end' and the other keywords included.
Label ==
    /\ This \in Words /\ Following = "colon"
    /\ Match("INITIAL", 2) /\ Return("LABEL", This)
    /\ UNCHANGED <<condition, buffers>>

End ==
    /\ This = "end" /\ Following # "colon"
    /\ Match("INITIAL", 1) /\ BEGIN("IN_END") /\ Ignore
    /\ UNCHANGED buffers

Word ==
    /\ This \in Words \ {"end"} /\ Following # "colon"
    /\ Match("INITIAL", 1) /\ Return("WORD", This)
    /\ UNCHANGED <<condition, buffers>>

Digits ==
    /\ This = "digits"
    /\ Match("INITIAL", 1) /\ Return("LITERAL", This)
    /\ UNCHANGED <<condition, buffers>>

Operator ==
    /\ This \in Operators
    /\ This = "slash" => Following \notin {"slash", "star"}
    /\ Match("INITIAL", 1) /\ Return(This, This)
    /\ UNCHANGED <<condition, buffers>>

Quote ==
    /\ This = "quote"
    /\ Match("INITIAL", 1) /\ BEGIN("IN_STRING") /\ Ignore
    /\ UNCHANGED buffers

Apostrophe ==
    /\ This = "apostrophe"
    /\ Match("INITIAL", 1) /\ BEGIN("IN_CHAR") /\ Ignore
    /\ UNCHANGED buffers

Comment ==
    /\ \/ This = "hash" /\ Match("INITIAL", 1)
       \/ This = "slash" /\ Following = "slash" /\ Match("INITIAL", 2)
    /\ BEGIN("IN_COMMENT") /\ Ignore
    /\ UNCHANGED buffers

MultilineComment ==
    /\ This = "slash" /\ Following = "star"
    /\ Match("INITIAL", 2) /\ BEGIN("IN_MULTILINE_COMMENT") /\ Ignore
    /\ UNCHANGED buffers

UnknownSymbol ==
    /\ This \in {"unknown", "backslash"}
    /\ Match("INITIAL", 1) /\ IssueError
    /\ UNCHANGED <<condition, buffers>>

-----------------------------------------------------------------------------
(***************************************************************************)
(* `end', which makes one token with the word behind it.                   *)
(***************************************************************************)
EndOfBlock ==
    /\ This \in Blocks
    /\ Match("IN_END", 1) /\ BEGIN("INITIAL") /\ Return("END", This)
    /\ UNCHANGED buffers

EndBlank ==
    /\ This \in White
    /\ Match("IN_END", 1) /\ Ignore
    /\ UNCHANGED <<condition, buffers>>

\* Where a character that is not of `end' sends the scanner, without taking it.
\* Mutant: the other start condition forgotten.
Unsent == "IN_END"
UnknownEndCondition == "IN_UNKNOWN_END"

EndUnknown ==
    /\ This \notin Blocks \union White \union {END_OF_FILE}
    /\ Match("IN_END", 0) /\ BEGIN(UnknownEndCondition) /\ Ignore
    /\ UNCHANGED buffers

\* The rest of the line is reported, and the file is over for the parser.
UnknownEnd ==
    /\ Match("IN_UNKNOWN_END", RestOfLine) /\ BEGIN("INITIAL")
    /\ has_encountered_error' = TRUE /\ Terminate
    /\ UNCHANGED buffers

-----------------------------------------------------------------------------
(***************************************************************************)
(* Characters and strings.                                                 *)
(***************************************************************************)
CharClosed ==
    /\ This = "apostrophe"
    /\ Match("IN_CHAR", 1) /\ BEGIN("INITIAL")
    /\ Return("LITERAL", char_literal_buffer)
    /\ char_literal_buffer' = Zero
    /\ UNCHANGED string_literal_buffer

\* Every other character takes the place of the one before.  A newline does as well: the
\* rule that would report it comes after the one that does not.
CharInside ==
    /\ This \notin {"apostrophe", END_OF_FILE}
    /\ Match("IN_CHAR", 1) /\ Ignore
    /\ char_literal_buffer' = This
    /\ UNCHANGED <<condition, string_literal_buffer>>

\* What the buffer holds once its string was returned.
\* Mutant: the string, since nobody emptied it.
BufferKept == string_literal_buffer
BufferEmptied == <<>>

StringClosed ==
    /\ This = "quote"
    /\ Match("IN_STRING", 1) /\ BEGIN("INITIAL")
    /\ Return("ARRAY_LITERAL", string_literal_buffer)
    /\ string_literal_buffer' = BufferEmptied
    /\ UNCHANGED char_literal_buffer

Unescaped(character) == IF character = "n" THEN "newline" ELSE character

StringEscape ==
    /\ This = "backslash" /\ Following \in Escapes
    /\ Match("IN_STRING", 2) /\ Ignore
    /\ string_literal_buffer' = Append(string_literal_buffer, Unescaped(Following))
    /\ UNCHANGED <<condition, char_literal_buffer>>

\* The scanner stays in the string: the rest of the file is one, up to the next quote.
StringNewline ==
    /\ This = "newline"
    /\ Match("IN_STRING", 1)
    /\ has_encountered_error' = TRUE
    /\ tokens' = Append(tokens, Token("ARRAY_LITERAL", <<>>))
    /\ string_literal_buffer' = <<>>
    /\ UNCHANGED <<condition, char_literal_buffer, ended>>

StringInside ==
    /\ This \notin {"quote", "newline", END_OF_FILE}
    /\ ~(This = "backslash" /\ Following \in Escapes)
    /\ Match("IN_STRING", 1) /\ Ignore
    /\ string_literal_buffer' = Append(string_literal_buffer, This)
    /\ UNCHANGED <<condition, char_literal_buffer>>

-----------------------------------------------------------------------------
(***************************************************************************)
(* Comments.                                                               *)
(***************************************************************************)
CommentClosed ==
    /\ This = "newline"
    /\ Match("IN_COMMENT", 1) /\ BEGIN("INITIAL") /\ Ignore
    /\ UNCHANGED buffers

CommentInside ==
    /\ This \notin {"newline", END_OF_FILE}
    /\ Match("IN_COMMENT", RestOfLine) /\ Ignore
    /\ UNCHANGED <<condition, buffers>>

MultilineClosed ==
    /\ This = "star" /\ Following = "slash"
    /\ Match("IN_MULTILINE_COMMENT", 2) /\ BEGIN("INITIAL") /\ Ignore
    /\ UNCHANGED buffers

MultilineInside ==
    /\ This # END_OF_FILE /\ ~(This = "star" /\ Following = "slash")
    /\ Match("IN_MULTILINE_COMMENT", 1) /\ Ignore
    /\ UNCHANGED <<condition, buffers>>

-----------------------------------------------------------------------------
\* The end of the file is an error in a comment, and the end of the tokens anywhere.
EndOfFile ==
    /\ This = END_OF_FILE
    /\ Match(condition, 0) /\ condition # "IN_UNKNOWN_END"
    /\ has_encountered_error' =
        (has_encountered_error \/ condition \in {"IN_COMMENT", "IN_MULTILINE_COMMENT"})
    /\ Terminate
    /\ UNCHANGED <<condition, buffers>>

Step ==
    \/ Blank \/ Label \/ End \/ Word \/ Digits \/ Operator
    \/ Quote \/ Apostrophe \/ Comment \/ MultilineComment \/ UnknownSymbol
    \/ EndOfBlock \/ EndBlank \/ EndUnknown \/ UnknownEnd
    \/ CharClosed \/ CharInside
    \/ StringClosed \/ StringEscape \/ StringNewline \/ StringInside
    \/ CommentClosed \/ CommentInside \/ MultilineClosed \/ MultilineInside
    \/ EndOfFile

Halted == ended /\ UNCHANGED vars

Next == Step \/ Halted

Spec == Init /\ [][Next]_vars

\* yylex waits for nothing but the file, and the parser calls it until the end.
FairSpec == Spec /\ WF_vars(Step)

-----------------------------------------------------------------------------
(***************************************************************************)
(* What a file means: the constructs of the language one after the other,  *)
(* each from its first character to its last.                              *)
(***************************************************************************)
\* The first of some places from i on, or the place behind the file.
FirstFrom(file, i, places) == Min({j \in places : j >= i} \union {Len(file) + 1})

\* In a string that begins at i: whether a backslash at j - 1 belongs to what is at j,
\* and not to a backslash before it.
Backslashes(file, i, j) ==
    Cardinality({k \in i .. j - 1 : \A l \in k .. j - 1 : file[l] = "backslash"})
Escaped(file, i, j) ==
    CharacterOf(file, j) \in Escapes /\ Backslashes(file, i, j) % 2 = 1

\* What the character at j is in it: nothing, if it is a backslash that belongs to the next.
InString(file, i, j) ==
    IF Escaped(file, i, j + 1) THEN <<>>
    ELSE IF Escaped(file, i, j) THEN <<Unescaped(file[j])>> ELSE <<file[j]>>

StringFrom(file, i, j) == FlattenSeq([n \in 1 .. j - i |-> InString(file, i, i + n - 1)])

\* One construct: where it ends, what tokens it makes, and whether it is one.  A character
\* that begins none ends where it is, as an `end' of no block does.
Construct(end, made, right) == [end |-> end, made |-> made, right |-> right]
Nothing(file, end)   == Construct(end, <<>>, end <= Len(file))
One(file, end, k, v) == Construct(end, <<Token(k, v)>>, end <= Len(file))

ConstructAt(file, i) ==
    LET c == CharacterOf(file, i)
        next == CharacterOf(file, i + 1)
        string_end ==
            FirstFrom(file, i + 1,
                      {j \in DOMAIN file : file[j] = "quote" /\ ~Escaped(file, i + 1, j)})
        char_end == FirstFrom(file, i + 1, {j \in DOMAIN file : file[j] = "apostrophe"})
        word == FirstFrom(file, i + 1, {j \in DOMAIN file : file[j] \notin White})
        line_end == FirstFrom(file, i, {j \in DOMAIN file : file[j] = "newline"})
        comment_end ==
            FirstFrom(file, i + 2, {j \in DOMAIN file : file[j] = "star"
                                                       /\ CharacterOf(file, j + 1) = "slash"})
    IN  CASE c \in White -> Nothing(file, i)
          [] c \in Words /\ next = "colon" -> One(file, i + 1, "LABEL", c)
          [] c = "end" /\ next # "colon" ->
                LET block == CharacterOf(file, word)
                IN  Construct(IF block \in Blocks THEN word ELSE i,
                              <<Token("END", block)>>, block \in Blocks)
          [] c \in Words \ {"end"} /\ next # "colon" -> One(file, i, "WORD", c)
          [] c = "digits" -> One(file, i, "LITERAL", c)
          [] c = "quote" ->
                Construct(string_end,
                          <<Token("ARRAY_LITERAL", StringFrom(file, i + 1, string_end))>>,
                          /\ string_end <= Len(file)
                          /\ \A j \in i .. string_end : file[j] # "newline")
          [] c = "apostrophe" ->
                Construct(char_end,
                          <<Token("LITERAL",
                                  IF char_end = i + 1 THEN Zero ELSE file[char_end - 1])>>,
                          /\ char_end <= Len(file)
                          /\ \A j \in i .. char_end : file[j] # "newline")
          [] c = "hash" \/ (c = "slash" /\ next = "slash") -> Nothing(file, line_end)
          [] c = "slash" /\ next = "star" -> Nothing(file, comment_end + 1)
          [] c \in Operators /\ ~(c = "slash" /\ next \in {"slash", "star"}) ->
                One(file, i, c, c)
          [] OTHER -> Construct(i, <<>>, FALSE)

\* The file from i on, where a construct begins.
MeaningFrom(file) ==
    LET from[i \in 1 .. Len(file) + 1] ==
            IF i = Len(file) + 1 THEN Construct(i, <<>>, TRUE)
            ELSE LET first == ConstructAt(file, i)
                 IN  IF ~first.right THEN first
                     ELSE LET rest == from[first.end + 1]
                          IN  Construct(rest.end, first.made \o rest.made, rest.right)
    IN  from

Meaning == MeaningFrom(input)[1]

\* The first thing in the file that is no construct is a character with a newline in it.
NewlineInCharacter == ~Meaning.right /\ Character(Meaning.end) = "apostrophe"

-----------------------------------------------------------------------------
(***************************************************************************)
(* Properties.                                                             *)
(***************************************************************************)
Value == Characters \union {Zero} \union Seq(Characters)

TypeOK ==
    /\ input \in Inputs
    /\ at \in 1 .. Len(input) + 1
    /\ condition \in Conditions
    /\ string_literal_buffer \in Seq(Characters)
    /\ char_literal_buffer \in Characters \union {Zero}
    /\ has_encountered_error \in BOOLEAN
    /\ ended \in BOOLEAN

\* The start conditions and the two buffers together read every file as the constructs it
\* consists of, each token with its own characters and all of them; and a file that does
\* not is reported, or leaves the scanner inside of what was not closed (all the rules of
\* eaxhla.l).  The one exception is a newline between apostrophes: the rule that reports it
\* is never matched.
ReadsConstructs ==
    ended /\ ~NewlineInCharacter =>
        /\ Meaning.right = (~has_encountered_error /\ condition = "INITIAL")
        /\ Meaning.right => tokens = Meaning.made

\* A string and a character begin with nothing of an earlier one, whatever was reported in
\* between: the buffers are global, and emptied by the rules that return what they hold.
BuffersStartEmpty ==
    /\ condition # "IN_STRING" => string_literal_buffer = <<>>
    /\ condition # "IN_CHAR" => char_literal_buffer = Zero

\* The scanner gets through every file: the rule that gives a character back (yyless(0))
\* leaves it to another one.
ScanEnds == <>ended

-----------------------------------------------------------------------------
\* The last rule of IN_CHAR in eaxhla.l, for a newline: "unterminated character literal
\* sequence".
NewlinesReported == ended /\ NewlineInCharacter => has_encountered_error

=============================================================================

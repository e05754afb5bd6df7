--------------------------- MODULE FrontendProofs ---------------------------
(***************************************************************************)
(* What TLAPS proves of Frontend, for all names, levels and limits: of its *)
(* types and stacks first, then of the symbol table, of the ids and of the *)
(* places they are given, and in the end of the blocks that the tokens of  *)
(* an accepted program make, and of what they refer to.                    *)
(***************************************************************************)
EXTENDS Frontend, FiniteSetTheorems, SequenceTheorems, TLAPS

\* The blocks of a kind among the first j are finitely many.
LEMMA CountFinite ==
    ASSUME NEW fs, NEW kind, NEW j \in Nat
    PROVE  IsFiniteSet({i \in 1 .. j : fs[i].kind = kind})
<1>1. IsFiniteSet(1 .. j)
  BY FS_Interval
<1> QED
  BY <1>1, FS_Subset

\* How many blocks of a kind are open is a number.
LEMMA CountNat ==
    ASSUME NEW fs, NEW kind, NEW j \in Nat
    PROVE  Opened(fs, kind, j) \in Nat
BY CountFinite, FS_CardinalityType DEF Opened

\* Counting one frame more.
LEMMA CountStep ==
    ASSUME NEW fs, NEW kind, NEW j \in Nat
    PROVE  Opened(fs, kind, j + 1) =
             Opened(fs, kind, j) + IF fs[j + 1].kind = kind THEN 1 ELSE 0
<1> DEFINE S == {i \in 1 .. j : fs[i].kind = kind}
           T == {i \in 1 .. j + 1 : fs[i].kind = kind}
<1>1. IsFiniteSet(S) /\ Cardinality(S) \in Nat
  BY CountFinite, FS_CardinalityType
<1>2. CASE fs[j + 1].kind = kind
  <2>1. T = S \cup {j + 1} /\ j + 1 \notin S
    BY <1>2
  <2> QED
    BY <1>1, <1>2, <2>1, FS_AddElement DEF Opened
<1>3. CASE fs[j + 1].kind # kind
  <2>1. T = S
    BY <1>3
  <2> QED
    BY <1>1, <1>3, <2>1 DEF Opened
<1> QED
  BY <1>2, <1>3

\* The count depends on the kinds of the first j frames only.
LEMMA CountSame ==
    ASSUME NEW fs, NEW gs, NEW kind, NEW j \in Nat,
           \A i \in 1 .. j : fs[i].kind = gs[i].kind
    PROVE  Opened(fs, kind, j) = Opened(gs, kind, j)
<1>1. {i \in 1 .. j : fs[i].kind = kind} = {i \in 1 .. j : gs[i].kind = kind}
  OBVIOUS
<1> QED
  BY <1>1 DEF Opened

\* A pair is a sequence.
LEMMA PairIsSeq ==
    ASSUME NEW S, NEW c \in S
    PROVE  <<c, c>> \in Seq(S)
OBVIOUS

\* The top of a stack.
LEMMA Topmost ==
    ASSUME NEW S, NEW s \in Seq(S), s # <<>>
    PROVE  Len(s) \in Nat \ {0} /\ Len(s) \in 1 .. Len(s) /\ s[Len(s)] \in S
<1>1. Len(s) \in Nat \ {0}
  BY EmptySeq
<1>2. Len(s) \in 1 .. Len(s)
  BY <1>1
<1> QED
  BY <1>1, <1>2, ElementOfSeq

\* The stack of frames without its top.
LEMMA Popping ==
    ASSUME NEW S, NEW s \in Seq(S), s # <<>>
    PROVE  /\ Pop(s) \in Seq(S)
           /\ Len(Pop(s)) = Len(s) - 1
           /\ \A i \in 1 .. Len(s) - 1 : Pop(s)[i] = s[i]
<1> DEFINE n == Len(s) - 1
<1>1. n \in Nat /\ n + 1 = Len(s)
  BY Topmost
<1>2. \A i \in 1 .. n : s[i] \in S
  BY <1>1, ElementOfSeq
<1> HIDE DEF n
<1>3. /\ SubSeq(s, 1, n) \in Seq(S)
      /\ Len(SubSeq(s, 1, n)) = IF 1 <= n THEN n - 1 + 1 ELSE 0
      /\ \A i \in 1 .. n - 1 + 1 : SubSeq(s, 1, n)[i] = s[1 + i - 1]
  BY <1>1, <1>2, SubSeqProperties
<1>4. Len(SubSeq(s, 1, n)) = n
  BY <1>1, <1>3
<1>5. \A i \in 1 .. n : SubSeq(s, 1, n)[i] = s[i]
  BY <1>1, <1>3
<1> QED
  BY <1>3, <1>4, <1>5 DEF Pop, n

\* The stack of frames with its top marked as read up to `at'.
LEMMA Marking ==
    ASSUME NEW fs \in Frames, fs # <<>>, NEW at \in {"head", "condition", "body"}
    PROVE  LET gs == [fs EXCEPT ![Len(fs)].at = at] IN
           /\ gs \in Frames
           /\ Len(gs) = Len(fs)
           /\ \A i \in 1 .. Len(fs) : gs[i].kind = fs[i].kind /\ gs[i].id = fs[i].id
<1> DEFINE R == [kind : {"repeat", "if"}, id : Nat, at : {"head", "condition", "body"}]
           f == fs[Len(fs)]
           g == [f EXCEPT !.at = at]
           gs == [fs EXCEPT ![Len(fs)] = g]
<1>1. Len(fs) \in 1 .. Len(fs) /\ f \in R
  BY Topmost DEF Frames
<1>2. g \in R /\ g.kind = f.kind /\ g.id = f.id
  BY <1>1
<1>3. gs \in Seq(R) /\ Len(gs) = Len(fs) /\ \A i \in 1 .. Len(fs) : gs[i] = IF i = Len(fs) THEN g ELSE fs[i]
  BY <1>1, <1>2, ExceptSeq, LenProperties DEF Frames
<1>4. \A i \in 1 .. Len(fs) : gs[i].kind = fs[i].kind /\ gs[i].id = fs[i].id
  BY <1>1, <1>2, <1>3
<1> QED
  BY <1>3, <1>4 DEF Frames

-----------------------------------------------------------------------------
TypeInv == TypeOK /\ StacksInRange

\* The initial state has its types.
LEMMA InitTyped == Init => TypeInv
<1> SUFFICES ASSUME Init PROVE TypeInv
  OBVIOUS
<1>1. Opened(<<>>, "if", 0) = 0
  <2>1. {i \in 1 .. 0 : <<>>[i].kind = "if"} = {}
    OBVIOUS
  <2> QED
    BY <2>1, FS_EmptySet DEF Opened
<1>2. frames = <<>> /\ Len(frames) = 0
  BY DEF Init
<1>3. StacksInRange
  BY <1>1, <1>2, NestingAssumption DEF Init, StacksInRange, Depth
<1>4. ParserTypeOK /\ TokensTypeOK
  BY DEF Init, ParserTypeOK, TokensTypeOK, Frames
<1>5. TableTypeOK
  BY DEF Init, TableTypeOK, NULL
<1>6. FlagsTypeOK
  BY DEF Init, FlagsTypeOK
<1>7. StacksTypeOK
  <2>1. repeat_stack \in [0 .. MaxRepeat - 1 -> Nat] /\ if_stack \in [0 .. MaxIf - 1 -> Nat]
    BY DEF Init
  <2>2. 0 \in -1 .. MaxRepeat /\ 0 \in 0 .. MaxIf + 1
    BY NestingAssumption
  <2> QED
    BY <2>1, <2>2 DEF Init, StacksTypeOK
<1> QED
  BY <1>3, <1>4, <1>5, <1>6, <1>7 DEF TypeInv, TypeOK

\* Names of the input, scoped or not, are sequences of parts.
LEMMA ScopedNames ==
    ASSUME TableTypeOK, NEW name \in Names
    PROVE  /\ name \in Seq(Parts)
           /\ MakeScopedName(scope, name) \in Seq(Parts)
           /\ name # NULL
<1>1. name \in Seq(Parts) /\ name # <<>>
  BY NamesAssumption
<1>2. scope \in Seq(Parts)
  BY NamesAssumption, EmptySeq DEF TableTypeOK, NULL, Names
<1>3. <<"", "">> \o scope \o name \in Seq(Parts)
  <2>1. <<"", "">> \in Seq(Parts)
    BY NamesAssumption, PairIsSeq
  <2>2. <<"", "">> \o scope \in Seq(Parts)
    BY <1>2, <2>1, ConcatProperties
  <2> QED
    BY <1>1, <2>2, ConcatProperties
<1> QED
  BY <1>1, <1>3 DEF MakeScopedName, NULL

\* A step keeps the types of the parser's state.
LEMMA ParserTyped ==
    ASSUME TypeInv, Step
    PROVE  ParserTypeOK'
<1> USE DEF TypeInv, TypeOK, ParserTypeOK
<1>1. ASSUME NEW name \in BlockNames, NEW system \in Systems, ProgramHead(system, name)
      PROVE  ParserTypeOK'
  BY <1>1 DEF ProgramHead
<1>2. ASSUME NEW name \in BlockNames, ProcedureHead(name)
      PROVE  ParserTypeOK'
  BY <1>2 DEF ProcedureHead
<1>3. ASSUME NEW name \in BlockNames, NEW literals \in 0 .. 1, AddFastcall(name, literals)
      PROVE  ParserTypeOK'
  BY <1>3 DEF AddFastcall, parser
<1>4. ASSUME NEW name \in VariableNames, NEW d \in Declarations, AddVariable(name, d)
      PROVE  ParserTypeOK'
  BY <1>4 DEF AddVariable, parser
<1>5. ASSUME NEW name \in VariableNames, NEW op \in {"MEM", "REL"}, Operand(op, name)
      PROVE  ParserTypeOK'
  BY <1>5 DEF Operand, parser
<1>6. ASSUME NEW name \in VariableNames, Offset(name)
      PROVE  ParserTypeOK'
  BY <1>6 DEF Offset, parser
<1>7. ASSUME NEW name \in LabelNames, AddLabel(name)
      PROVE  ParserTypeOK'
  BY <1>7 DEF AddLabel, parser
<1>8. ASSUME NEW name \in LabelNames, NEW op \in {"JMP", "LOOP"}, Jump(op, name)
      PROVE  ParserTypeOK'
  BY <1>8 DEF Jump, parser
<1>9. ASSUME NEW id \in Addresses, Address(id)
      PROVE  ParserTypeOK'
  BY <1>9 DEF Address, parser
<1>10. ASSUME NEW i \in Levels, AddContinue(i) \/ AddBreak(i)
       PROVE  ParserTypeOK'
  BY <1>10 DEF AddContinue, AddBreak, JumpOut, Faults
<1>11. ASSUME Begin \/ EndUnit \/ UnknownSymbol \/ Abort \/ Instruction \/ EndDump
       PROVE  ParserTypeOK'
  BY <1>11 DEF Begin, EndUnit, UnknownSymbol, Abort, Instruction, EndDump, parser
<1>12. ASSUME FinHla
       PROVE  ParserTypeOK'
  BY <1>12 DEF FinHla
<1>13. ASSUME SyntaxError
       PROVE  ParserTypeOK'
  BY <1>13, Popping DEF SyntaxError, InHeader, Frames
<1>14. ASSUME AddRepeat
       PROVE  ParserTypeOK'
  <2>1. symbol_id \in Nat /\ frames \in Frames
    BY DEF TableTypeOK
  <2>2. /\ Append(frames, Frame("repeat", NoId, "body")) \in Frames
        /\ Append(frames, Frame("repeat", symbol_id, "body")) \in Frames
    BY <2>1 DEF Frame, NoId, Frames
  <2>3. UNCHANGED <<state, unit>> /\ frames' \in Frames
    BY <1>14, <2>2 DEF AddRepeat
  <2> QED
    BY <2>3
<1>15. ASSUME FinRepeat
       PROVE  ParserTypeOK'
  BY <1>15, Popping DEF FinRepeat, Top, Frames, Faults
<1>16. ASSUME AddIf
       PROVE  ParserTypeOK'
  BY <1>16 DEF AddIf, Frame, Frames, TableTypeOK, Faults
<1>17. ASSUME AddLogic \/ Then
       PROVE  ParserTypeOK'
  BY <1>17, Marking DEF AddLogic, Then, Top
<1>18. ASSUME FinIf
       PROVE  ParserTypeOK'
  BY <1>18, Popping DEF FinIf, Top, Frames
<1>19. ASSUME NEW name \in VariableNames \cup {NULL}, AddExit(name)
       PROVE  ParserTypeOK'
  BY <1>19 DEF AddExit, parser
<1>20. ASSUME NEW k \in DOMAIN symbols, DumpVariable(k)
       PROVE  ParserTypeOK'
  BY <1>20 DEF DumpVariable, Faults
<1> QED
  BY <1>1, <1>2, <1>3, <1>4, <1>5, <1>6, <1>7, <1>8, <1>9, <1>10, <1>11, <1>12, <1>13,
     <1>14, <1>15, <1>16, <1>17, <1>18, <1>19, <1>20 DEF Step

\* An entry added to the symbol table.
LEMMA Inserting ==
    ASSUME TableTypeOK, NEW key \in Seq(Parts), NEW symbol \in Symbol,
           SymbolInsert(key, symbol)
    PROVE  /\ symbols' \in [DOMAIN symbols' -> Symbol]
           /\ DOMAIN symbols' \subseteq Seq(Parts)
           /\ symbol_id' \in Nat \ {0}
BY DEF TableTypeOK, SymbolInsert

\* A label noted is either an entry added or an entry of the table resolved.
LEMMA Noting ==
    ASSUME TableTypeOK, NEW name \in Names, NEW resolved \in BOOLEAN,
           NoteLabel(name, resolved), UNCHANGED scope
    PROVE  TableTypeOK'
<1>1. CASE UNCHANGED <<symbols, symbol_id, unresolved_label_counter>>
  BY <1>1 DEF TableTypeOK
<1>2. CASE /\ Known(LabelKey(name))
           /\ symbols' = [symbols EXCEPT ![LabelKey(name)].word = 1]
           /\ unresolved_label_counter' = unresolved_label_counter - 1
           /\ UNCHANGED symbol_id
  <2> DEFINE key == LabelKey(name)
  <2>1. symbols[key] \in Symbol /\ key \in DOMAIN symbols
    BY <1>2 DEF TableTypeOK, Known
  <2>2. [symbols[key] EXCEPT !.word = 1] \in Symbol
    BY <2>1 DEF Symbol
  <2> HIDE DEF key
  <2>3. symbols' = [symbols EXCEPT ![key] = [symbols[key] EXCEPT !.word = 1]]
    BY <1>2 DEF key
  <2>4. DOMAIN symbols' = DOMAIN symbols /\ symbols' \in [DOMAIN symbols -> Symbol]
    BY <2>2, <2>3 DEF TableTypeOK
  <2> QED
    BY <1>2, <2>4 DEF TableTypeOK
<1>3. CASE /\ SymbolInsert(MakeScopedName(scope, name), NewLabel(resolved, symbol_id))
           /\ unresolved_label_counter' = unresolved_label_counter + Count(resolved)
  <2>1. NewLabel(resolved, symbol_id) \in Symbol
    BY DEF NewLabel, NewSymbol, Symbol, Payloads, TableTypeOK
  <2>2. MakeScopedName(scope, name) \in Seq(Parts)
    BY ScopedNames
  <2> QED
    BY <1>3, <2>1, <2>2, Inserting DEF TableTypeOK, Count
<1> QED
  BY <1>1, <1>2, <1>3 DEF NoteLabel

\* A step keeps the types of the symbol table.
LEMMA TableTyped ==
    ASSUME TypeInv, Step
    PROVE  TableTypeOK'
<1> TableTypeOK
  BY DEF TypeInv, TypeOK
<1>1. ASSUME NEW name \in BlockNames, NEW system \in Systems, ProgramHead(system, name)
      PROVE  TableTypeOK'
  BY <1>1 DEF ProgramHead, TableTypeOK
<1>2. ASSUME NEW name \in BlockNames, ProcedureHead(name)
      PROVE  TableTypeOK'
  <2>1. name \in Seq(Parts) /\ NewLabel(TRUE, symbol_id) \in Symbol
    BY ScopedNames DEF Names, NewLabel, NewSymbol, Symbol, Payloads, TableTypeOK
  <2>2. scope' = name /\ UNCHANGED unresolved_label_counter
    BY <1>2 DEF ProcedureHead
  <2>3. UNCHANGED <<symbols, symbol_id>> \/ SymbolInsert(name, NewLabel(TRUE, symbol_id))
    BY <1>2 DEF ProcedureHead
  <2> QED
    BY <2>1, <2>2, <2>3, Inserting DEF TableTypeOK
<1>3. ASSUME NEW name \in VariableNames, NEW d \in Declarations, AddVariable(name, d)
      PROVE  TableTypeOK'
  <2> DEFINE symbol == NewSymbol("variable", TYPE_TOKEN, symbol_id,
                                 d.elements, d.payload, d.length)
             key == MakeScopedName(scope, name)
  <2>1. d.elements \in Int /\ d.payload \in Payloads /\ d.length \in Nat
    BY ArraysAssumption DEF Declarations, Declaration, Payloads
  <2>2. symbol \in Symbol
    BY <2>1 DEF NewSymbol, Symbol, TYPE_TOKEN, TableTypeOK
  <2>3. key \in Seq(Parts)
    BY ScopedNames DEF Names
  <2>4. UNCHANGED <<scope, unresolved_label_counter>>
    BY <1>3 DEF AddVariable
  <2>5. UNCHANGED <<symbols, symbol_id>> \/ SymbolInsert(key, symbol)
    BY <1>3 DEF AddVariable
  <2> QED
    BY <2>2, <2>3, <2>4, <2>5, Inserting DEF TableTypeOK
<1>4. ASSUME NEW name \in LabelNames, AddLabel(name)
      PROVE  TableTypeOK'
  BY <1>4, Noting DEF AddLabel, Names
<1>5. ASSUME NEW name \in LabelNames, NEW op \in {"JMP", "LOOP"}, Jump(op, name)
      PROVE  TableTypeOK'
  <2>1. UNCHANGED scope
    BY <1>5 DEF Jump
  <2>2. UNCHANGED <<symbols, symbol_id, unresolved_label_counter>> \/ NoteLabel(name, FALSE)
    BY <1>5 DEF Jump
  <2> QED
    BY <2>1, <2>2, Noting DEF TableTypeOK, Names
<1>6. ASSUME AddRepeat \/ AddIf
      PROVE  TableTypeOK'
  BY <1>6 DEF AddRepeat, AddIf, TableTypeOK, LoopIds
<1>7. ASSUME NEW name \in BlockNames, NEW literals \in 0 .. 1, AddFastcall(name, literals)
      PROVE  TableTypeOK'
  BY <1>7 DEF AddFastcall, TableTypeOK, table
<1>8. ASSUME NEW name \in VariableNames \cup {NULL}, NEW op \in {"MEM", "REL"},
             Operand(op, name) \/ Offset(name) \/ AddExit(name)
      PROVE  TableTypeOK'
  BY <1>8 DEF Operand, Offset, AddExit, TableTypeOK, table
<1>9. ASSUME NEW i, Address(i) \/ AddContinue(i) \/ AddBreak(i)
      PROVE  TableTypeOK'
  BY <1>9 DEF Address, AddContinue, AddBreak, JumpOut, TableTypeOK, table
<1>10. ASSUME Begin \/ EndUnit \/ FinHla \/ SyntaxError \/ UnknownSymbol \/ Abort
       PROVE  TableTypeOK'
  BY <1>10 DEF Begin, EndUnit, FinHla, SyntaxError, UnknownSymbol, Abort, TableTypeOK, table
<1>11. ASSUME FinRepeat \/ AddLogic \/ Then \/ FinIf \/ Instruction \/ EndDump
       PROVE  TableTypeOK'
  BY <1>11 DEF FinRepeat, AddLogic, Then, FinIf, Instruction, EndDump, TableTypeOK, table
<1>12. ASSUME NEW k \in DOMAIN symbols, DumpVariable(k)
       PROVE  TableTypeOK'
  BY <1>12 DEF DumpVariable, TableTypeOK, table
<1> QED
  BY <1>1, <1>2, <1>3, <1>4, <1>5, <1>6, <1>7, <1>8, <1>9, <1>10, <1>11, <1>12 DEF Step

\* An open `if' has an entry on its stack.
LEMMA OpenIfHasEntry ==
    ASSUME TypeInv, NEW at, Top("if", at)
    PROVE  /\ if_stack_empty_top \in 1 .. MaxIf
           /\ if_stack[if_stack_empty_top - 1] \in Nat
<1> DEFINE n == Len(frames) - 1
<1>1. state = "code" /\ frames \in Frames /\ frames # <<>> /\ frames[Len(frames)].kind = "if"
  BY DEF Top, TypeInv, TypeOK, ParserTypeOK
<1>2. Len(frames) \in Nat \ {0}
  BY <1>1, Topmost DEF Frames
<1>3. n \in Nat /\ n + 1 = Len(frames)
  BY <1>2
<1> HIDE DEF n
<1>4. Opened(frames, "if", n + 1) = Opened(frames, "if", n) + 1
  BY <1>1, <1>3, CountStep
<1>5. Opened(frames, "if", n) \in Nat
  BY <1>3, CountNat
<1>6. Opened(frames, "if", Len(frames)) >= 1
  BY <1>3, <1>4, <1>5
<1>7. /\ Opened(frames, "if", Len(frames)) <= if_stack_empty_top
      /\ if_stack_empty_top \in Nat
      /\ if_stack_empty_top <= MaxIf
      /\ if_stack \in [0 .. MaxIf - 1 -> Nat]
  BY <1>1 DEF TypeInv, TypeOK, StacksInRange, StacksTypeOK, Depth
<1>8. Opened(frames, "if", Len(frames)) \in Nat
  BY <1>2, CountNat
<1> QED
  BY <1>6, <1>7, <1>8, NestingAssumption

\* A step keeps the types of the two stacks: nothing is pushed beyond MaxRepeat,
\* and what an open `if' pops was pushed for it.
LEMMA StacksTyped ==
    ASSUME TypeInv, Step
    PROVE  StacksTypeOK'
<1> StacksTypeOK /\ StacksInRange /\ symbol_id \in Nat
  BY DEF TypeInv, TypeOK, TableTypeOK
<1> USE NestingAssumption
<1>1. ASSUME AddRepeat
      PROVE  StacksTypeOK'
  <2>1. repeat_stack_empty_top \in 0 .. MaxRepeat /\ UNCHANGED ifs
    BY <1>1 DEF AddRepeat, Opening, AtItem, StacksInRange, StacksTypeOK
  <2>2. CASE UNCHANGED loops
    BY <2>1, <2>2 DEF StacksTypeOK, loops, ifs
  <2>3. CASE /\ ~RepeatFull
             /\ repeat_stack' = [repeat_stack EXCEPT ![repeat_stack_empty_top] = symbol_id]
             /\ repeat_stack_empty_top' = repeat_stack_empty_top + 1
    BY <2>1, <2>3 DEF StacksTypeOK, RepeatFull, ifs
  <2> QED
    BY <1>1, <2>2, <2>3 DEF AddRepeat
<1>2. ASSUME FinRepeat
      PROVE  StacksTypeOK'
  <2>0. state = "code"
    BY <1>2 DEF FinRepeat, Top
  <2>1. repeat_stack_empty_top \in 0 .. MaxRepeat
    BY <2>0 DEF StacksInRange, StacksTypeOK
  <2>2. repeat_stack_empty_top' = repeat_stack_empty_top - 1 /\ UNCHANGED <<repeat_stack, ifs>>
    BY <1>2 DEF FinRepeat, Popped
  <2>3. repeat_stack_empty_top' \in -1 .. MaxRepeat
    BY <2>1, <2>2
  <2> QED
    BY <2>2, <2>3 DEF StacksTypeOK, ifs
<1>3. ASSUME AddIf
      PROVE  StacksTypeOK'
  <2>1. if_stack_empty_top \in 0 .. MaxIf /\ UNCHANGED loops
    BY <1>3 DEF AddIf, Opening, AtItem, StacksInRange, StacksTypeOK
  <2>2. if_stack' \in [0 .. MaxIf - 1 -> Nat]
    BY <1>3 DEF AddIf, StacksTypeOK
  <2> QED
    BY <1>3, <2>1, <2>2 DEF AddIf, StacksTypeOK, loops
<1>4. ASSUME FinIf
      PROVE  StacksTypeOK'
  <2>1. if_stack_empty_top \in 1 .. MaxIf
    BY <1>4, OpenIfHasEntry DEF FinIf
  <2>2. if_stack_empty_top' = if_stack_empty_top - 1 /\ UNCHANGED <<if_stack, loops>>
    BY <1>4 DEF FinIf, Popped
  <2>3. if_stack_empty_top' \in 0 .. MaxIf + 1
    BY <2>1, <2>2 DEF StacksTypeOK
  <2> QED
    BY <2>2, <2>3 DEF StacksTypeOK, loops
<1>5. ASSUME NEW name \in Names, NEW system,
             ProgramHead(system, name) \/ ProcedureHead(name) \/ AddLabel(name)
      PROVE  StacksTypeOK'
  BY <1>5 DEF ProgramHead, ProcedureHead, AddLabel, StacksTypeOK, loops, ifs
<1>6. ASSUME NEW name, NEW literals, AddFastcall(name, literals)
      PROVE  StacksTypeOK'
  BY <1>6 DEF AddFastcall, StacksTypeOK, loops, ifs
<1>7. ASSUME NEW name, NEW op, Jump(op, name) \/ Operand(op, name) \/ Offset(name) \/ AddExit(name)
      PROVE  StacksTypeOK'
  BY <1>7 DEF Jump, Operand, Offset, AddExit, StacksTypeOK, loops, ifs
<1>8. ASSUME NEW name, NEW d, AddVariable(name, d)
      PROVE  StacksTypeOK'
  BY <1>8 DEF AddVariable, StacksTypeOK, loops, ifs
<1>9. ASSUME NEW i, Address(i) \/ AddContinue(i) \/ AddBreak(i) \/ DumpVariable(i)
      PROVE  StacksTypeOK'
  BY <1>9 DEF Address, AddContinue, AddBreak, DumpVariable, JumpOut, StacksTypeOK, loops, ifs
<1>10. ASSUME Begin \/ EndUnit \/ FinHla \/ SyntaxError \/ UnknownSymbol \/ Abort
       PROVE  StacksTypeOK'
  BY <1>10 DEF Begin, EndUnit, FinHla, SyntaxError, UnknownSymbol, Abort, StacksTypeOK,
               loops, ifs
<1>11. ASSUME AddLogic \/ Then \/ Instruction \/ EndDump
       PROVE  StacksTypeOK'
  BY <1>11 DEF AddLogic, Then, Instruction, EndDump, StacksTypeOK, loops, ifs
<1> QED
  BY <1>1, <1>2, <1>3, <1>4, <1>5, <1>6, <1>7, <1>8, <1>9, <1>10, <1>11 DEF Step, Names

\* A step keeps the types of the flags.
LEMMA FlagsTyped ==
    ASSUME TypeInv, Step
    PROVE  FlagsTypeOK'
<1> FlagsTypeOK
  BY DEF TypeInv, TypeOK
<1> USE DEF FlagsTypeOK, flags, IssueError, ErrorIf
<1>1. ASSUME NEW name, NEW system \in Systems, ProgramHead(system, name)
      PROVE  FlagsTypeOK'
  BY <1>1, SystemsAssumption DEF ProgramHead
<1>10. ASSUME NEW name, ProcedureHead(name)
       PROVE  FlagsTypeOK'
  BY <1>10 DEF ProcedureHead
<1>2. ASSUME NEW name, NEW literals \in 0 .. 1, AddFastcall(name, literals)
      PROVE  FlagsTypeOK'
  <2>1. anon_variable_counter' \in Nat
    BY <1>2 DEF AddFastcall
  <2>2. has_encountered_error' \in BOOLEAN
    BY <1>2 DEF AddFastcall
  <2>3. UNCHANGED <<is_program_found, system_type>>
    BY <1>2 DEF AddFastcall
  <2> QED
    BY <2>1, <2>2, <2>3
<1>3. ASSUME NEW name, NEW d, AddVariable(name, d)
      PROVE  FlagsTypeOK'
  BY <1>3 DEF AddVariable
<1>4. ASSUME NEW name, NEW op, Operand(op, name) \/ Offset(name) \/ AddExit(name)
      PROVE  FlagsTypeOK'
  BY <1>4 DEF Operand, Offset, AddExit
<1>5. ASSUME NEW name, NEW op, AddLabel(name) \/ Jump(op, name)
      PROVE  FlagsTypeOK'
  BY <1>5 DEF AddLabel, Jump, NoteLabel
<1>6. ASSUME NEW i, Address(i) \/ AddContinue(i) \/ AddBreak(i) \/ DumpVariable(i)
      PROVE  FlagsTypeOK'
  BY <1>6 DEF Address, AddContinue, AddBreak, JumpOut, DumpVariable
<1>7. ASSUME Begin \/ EndUnit \/ SyntaxError \/ UnknownSymbol \/ Abort
      PROVE  FlagsTypeOK'
  BY <1>7 DEF Begin, EndUnit, SyntaxError, UnknownSymbol, Abort
<1>9. ASSUME FinHla
      PROVE  FlagsTypeOK'
  BY <1>9 DEF FinHla
<1>8. ASSUME AddRepeat \/ FinRepeat \/ AddIf \/ AddLogic \/ Then \/ FinIf \/ Instruction \/ EndDump
      PROVE  FlagsTypeOK'
  BY <1>8 DEF AddRepeat, FinRepeat, AddIf, AddLogic, Then, FinIf, Instruction, EndDump
<1> QED
  BY <1>1, <1>2, <1>3, <1>4, <1>5, <1>6, <1>7, <1>8, <1>9, <1>10 DEF Step

Tokens == [op : Operations, id : Int, by : Reasons]

\* Tokens are only ever appended.
LEMMA Appending ==
    ASSUME TokensTypeOK,
           NEW op \in Operations, NEW id \in Int, NEW by \in Reasons,
           Append1(Token(op, id, by))
    PROVE  TokensTypeOK'
<1>1. tokens \in Seq(Tokens) /\ Token(op, id, by) \in Tokens
  BY DEF TokensTypeOK, Tokens, Token
<1>2. Append(tokens, Token(op, id, by)) \in Seq(Tokens)
  BY <1>1, AppendProperties
<1> QED
  BY <1>2 DEF Append1, TokensTypeOK, Tokens

LEMMA AppendingTwo ==
    ASSUME TokensTypeOK,
           NEW op1 \in Operations, NEW id1 \in Int, NEW by1 \in Reasons,
           NEW op2 \in Operations, NEW id2 \in Int, NEW by2 \in Reasons,
           Append2(Token(op1, id1, by1), Token(op2, id2, by2))
    PROVE  TokensTypeOK'
<1>1. tokens \in Seq(Tokens) /\ Token(op1, id1, by1) \in Tokens /\ Token(op2, id2, by2) \in Tokens
  BY DEF TokensTypeOK, Tokens, Token
<1>2. Append(tokens, Token(op1, id1, by1)) \in Seq(Tokens)
  BY <1>1, AppendProperties
<1>3. Append(Append(tokens, Token(op1, id1, by1)), Token(op2, id2, by2)) \in Seq(Tokens)
  BY <1>1, <1>2, AppendProperties
<1> QED
  BY <1>3 DEF Append2, TokensTypeOK, Tokens

\* A step appends tokens of the kinds and with the ids that TypeOK names.
LEMMA TokensTyped ==
    ASSUME TypeInv, Step
    PROVE  TokensTypeOK'
<1>a. /\ TokensTypeOK /\ TableTypeOK /\ StacksTypeOK
      /\ symbol_id \in Nat
      /\ \A k \in DOMAIN symbols : symbols[k] \in Symbol
  BY DEF TypeInv, TypeOK, TableTypeOK
<1>b. /\ "ASMDIRMEM" \in Operations /\ "ASMDIRIMM" \in Operations /\ "JMP" \in Operations
      /\ "JCC" \in Operations /\ "LOOP" \in Operations /\ "CALL" \in Operations
      /\ "MEM" \in Operations /\ "REL" \in Operations /\ "CMP" \in Operations
      /\ "RETN" \in Operations /\ "PLAIN" \in Operations
  BY DEF Operations
<1>c. /\ "program" \in Reasons /\ "procedure" \in Reasons /\ "repeat" \in Reasons
      /\ "end repeat" \in Reasons /\ "continue" \in Reasons /\ "break" \in Reasons
      /\ "stale" \in Reasons
      /\ "if" \in Reasons /\ "end if" \in Reasons /\ "label" \in Reasons
      /\ "relative" \in Reasons /\ "operand" \in Reasons /\ "undeclared" \in Reasons
      /\ "block" \in Reasons /\ "offset" \in Reasons /\ "fastcall" \in Reasons
      /\ "instruction" \in Reasons /\ "exit" \in Reasons /\ "variable" \in Reasons
      /\ Payloads \subseteq Reasons
  BY DEF Reasons
<1>d. UNCHANGED tokens => TokensTypeOK'
  BY <1>a DEF TokensTypeOK
<1>e. 0 \in Int
  OBVIOUS
<1> USE <1>a DEF Def, Ref
<1>1. ASSUME NEW name, NEW system, ProgramHead(system, name)
      PROVE  TokensTypeOK'
  <2>1. Append1(Token("ASMDIRMEM", 0, "program"))
    BY <1>1 DEF ProgramHead
  <2>m. /\ "ASMDIRMEM" \in Operations
        /\ "program" \in Reasons
        /\ 0 \in Int
    BY <1>b, <1>c, <1>e
  <2> QED
    BY <2>1, Appending, <2>m
<1>2. ASSUME NEW name, ProcedureHead(name)
      PROVE  TokensTypeOK'
  <2>1. UNCHANGED tokens \/ Append1(Token("ASMDIRMEM", symbol_id, "procedure"))
    BY <1>2 DEF ProcedureHead
  <2>m. /\ "ASMDIRMEM" \in Operations
        /\ "procedure" \in Reasons
    BY <1>b, <1>c, <1>e
  <2> QED
    BY <2>1, Appending, <2>m, <1>d
<1>3. ASSUME NEW name, NEW literals, AddFastcall(name, literals)
      PROVE  TokensTypeOK'
  <2> DEFINE key == GetSymbol(scope, name)
  <2>1. Known(key) => symbols[key].id \in Int
    BY DEF Known, Symbol
  <2>2. \/ UNCHANGED tokens
        \/ Known(key) /\ Append1(Token("CALL", symbols[key].id, "fastcall"))
    BY <1>3 DEF AddFastcall
  <2> QED
    BY <2>1, <2>2, Appending, <1>b, <1>c, <1>d
<1>4. ASSUME NEW name, NEW op \in {"MEM", "REL"}, Operand(op, name)
      PROVE  TokensTypeOK'
  <2> DEFINE key == VariableKey(name)
  <2>1. Known(key) => symbols[key].id \in Int
    BY DEF Known, Symbol
  <2>2. \/ Known(key) /\ Append1(Token(op, symbols[key].id, "operand"))
        \/ Append1(Token(op, 0, "undeclared"))
    BY <1>4 DEF Operand, UNDECLARED
  <2>m. /\ op \in Operations
        /\ "operand" \in Reasons
        /\ "undeclared" \in Reasons
        /\ 0 \in Int
    BY <1>b, <1>c, <1>e
  <2> QED
    BY <2>1, <2>2, Appending, <2>m
<1>5. ASSUME NEW name, Offset(name) \/ AddExit(name)
      PROVE  TokensTypeOK'
  <2>1. \/ UNCHANGED tokens
        \/ Append1(Token("MEM", 0, "offset"))
        \/ Append1(Token("PLAIN", 0, "exit"))
    BY <1>5 DEF Offset, AddExit, UNDECLARED
  <2>m. /\ "MEM" \in Operations
        /\ "PLAIN" \in Operations
        /\ "exit" \in Reasons
        /\ "offset" \in Reasons
        /\ 0 \in Int
    BY <1>b, <1>c, <1>e
  <2> QED
    BY <2>1, Appending, <2>m, <1>d
<1>6. ASSUME NEW name, AddLabel(name)
      PROVE  TokensTypeOK'
  <2>1. LabelId(name) \in Int
    BY DEF LabelId, Known, Symbol
  <2>2. Append1(Token("ASMDIRMEM", LabelId(name), "label"))
    BY <1>6 DEF AddLabel
  <2> QED
    BY <2>1, <2>2, Appending, <1>b, <1>c
<1>7. ASSUME NEW name, NEW op \in {"JMP", "LOOP"}, Jump(op, name)
      PROVE  TokensTypeOK'
  <2> DEFINE key == GetSymbol(scope, name)
  <2>1. LabelId(name) \in Int /\ (Known(key) => symbols[key].id \in Int)
    BY DEF LabelId, Known, Symbol
  <2>2. \/ Append1(Token(op, LabelId(name), "relative"))
        \/ Known(key) /\ Append1(Token(op, symbols[key].id, "relative"))
    BY <1>7 DEF Jump
  <2> QED
    BY <2>1, <2>2, Appending, <1>b, <1>c
<1>8. ASSUME NEW i \in Addresses, Address(i)
      PROVE  TokensTypeOK'
  <2>1. Append1(Token("MEM", i, "block")) /\ i \in Int
    BY <1>8, AddressesAssumption DEF Address
  <2> QED
    BY <2>1, Appending, <1>b, <1>c
<1>9. ASSUME NEW i, AddContinue(i) \/ AddBreak(i)
      PROVE  TokensTypeOK'
  <2> DEFINE id == repeat_stack[LoopIndex(i)]
  <2>1. LoopIndex(i) \in DOMAIN repeat_stack => id \in Int /\ id + 1 \in Int
    BY DEF StacksTypeOK
  <2>2. \/ UNCHANGED tokens
        \/ /\ LoopIndex(i) \in DOMAIN repeat_stack
           /\ \E by \in {"continue", "break", "stale"} :
                 Append1(Token("JMP", id, by)) \/ Append1(Token("JMP", id + 1, by))
    BY <1>9 DEF AddContinue, AddBreak, JumpOut, StartOf, EndOf
  <2> HIDE DEF id
  <2> QED
    BY <2>1, <2>2, Appending, <1>b, <1>c, <1>d
<1>10. ASSUME AddRepeat \/ EndUnit \/ Instruction
       PROVE  TokensTypeOK'
  <2>1. \/ UNCHANGED tokens
        \/ Append1(Token("ASMDIRMEM", symbol_id, "repeat"))
        \/ Append1(Token("RETN", 0, "procedure"))
        \/ Append1(Token("PLAIN", 0, "instruction"))
    BY <1>10 DEF AddRepeat, EndUnit, Instruction
  <2>m. /\ "ASMDIRMEM" \in Operations
        /\ "PLAIN" \in Operations
        /\ "RETN" \in Operations
        /\ "instruction" \in Reasons
        /\ "procedure" \in Reasons
        /\ "repeat" \in Reasons
        /\ 0 \in Int
    BY <1>b, <1>c, <1>e
  <2> QED
    BY <2>1, Appending, <2>m, <1>d
<1>11. ASSUME FinRepeat
       PROVE  TokensTypeOK'
  <2> DEFINE id == repeat_stack[repeat_stack_empty_top']
  <2>1. repeat_stack_empty_top' \in DOMAIN repeat_stack => id \in Int /\ id + 1 \in Int
    BY DEF StacksTypeOK
  <2>2. \/ UNCHANGED tokens
        \/ /\ repeat_stack_empty_top' \in DOMAIN repeat_stack
           /\ Append2(Token("JMP", id, "repeat"), Token("ASMDIRMEM", id + 1, "end repeat"))
    BY <1>11 DEF FinRepeat, EndOf
  <2> HIDE DEF id
  <2> QED
    BY <2>1, <2>2, AppendingTwo, <1>b, <1>c, <1>d
<1>12. ASSUME AddLogic \/ FinIf
       PROVE  TokensTypeOK'
  <2> DEFINE id == if_stack[if_stack_empty_top - 1]
  <2>1. id \in Int
    <3>1. Top("if", "head") \/ Top("if", "body")
      BY <1>12 DEF AddLogic, FinIf
    <3> QED
      BY <3>1, OpenIfHasEntry
  <2>2. \/ Append2(Token("CMP", 0, "if"), Token("JCC", id, "if"))
        \/ Append1(Token("ASMDIRMEM", id, "end if"))
    BY <1>12 DEF AddLogic, FinIf, Popped
  <2> HIDE DEF id
  <2>m. /\ "ASMDIRMEM" \in Operations
        /\ "CMP" \in Operations
        /\ "JCC" \in Operations
        /\ "end if" \in Reasons
        /\ "if" \in Reasons
        /\ 0 \in Int
    BY <1>b, <1>c, <1>e
  <2> QED
    BY <2>1, <2>2, Appending, AppendingTwo, <2>m
<1>13. ASSUME NEW k \in DOMAIN symbols, DumpVariable(k)
       PROVE  TokensTypeOK'
  <2> DEFINE s == symbols[k]
  <2>1. s.id \in Int /\ s.elements \in Int /\ s.payload \in Payloads
    BY DEF Symbol
  <2>2. \/ UNCHANGED tokens
        \/ Append2(Token("ASMDIRMEM", s.id, "variable"), Token("ASMDIRIMM", s.elements, s.payload))
    BY <1>13 DEF DumpVariable
  <2> HIDE DEF s
  <2> QED
    BY <2>1, <2>2, AppendingTwo, <1>b, <1>c, <1>d
<1>14. ASSUME \/ Begin \/ FinHla \/ SyntaxError \/ UnknownSymbol \/ Abort
              \/ AddIf \/ Then \/ EndDump
              \/ \E name \in VariableNames, d \in Declarations : AddVariable(name, d)
       PROVE  TokensTypeOK'
  <2>1. UNCHANGED tokens
    BY <1>14 DEF Begin, FinHla, SyntaxError, UnknownSymbol, Abort, AddIf, Then, EndDump,
                 AddVariable
  <2> QED
    BY <2>1, <1>d
<1> QED
  BY <1>1, <1>2, <1>3, <1>4, <1>5, <1>6, <1>7, <1>8, <1>9, <1>10, <1>11, <1>12, <1>13, <1>14
  DEF Step

\* A step keeps the tops in range: the count of open `if' blocks and the top of
\* their stack go up and down together, or an error drops a block and no entry.
LEMMA RangeKept ==
    ASSUME TypeInv, Step
    PROVE  StacksInRange'
<1> DEFINE n == Len(frames)
           C(fs, j) == Opened(fs, "if", j)
<1>1. /\ frames \in Frames /\ n \in Nat
      /\ state # "if_stack" => if_stack_empty_top <= MaxIf
      /\ state # "repeat_stack" => repeat_stack_empty_top >= 0
      /\ C(frames, n) <= if_stack_empty_top /\ C(frames, n) \in Nat
      /\ repeat_stack_empty_top \in -1 .. MaxRepeat
      /\ if_stack_empty_top \in 0 .. MaxIf + 1
  <2>1. frames \in Frames /\ n \in Nat
    BY LenProperties DEF TypeInv, TypeOK, ParserTypeOK, Frames
  <2> QED
    BY <2>1, CountNat DEF TypeInv, TypeOK, StacksTypeOK, StacksInRange, Depth
\* A stack of frames that lost its top, that got one, or whose top was marked.
<1>2. ASSUME frames # <<>>, frames' = Pop(frames)
      PROVE  C(frames', Len(frames')) =
               C(frames, n) - IF frames[n].kind = "if" THEN 1 ELSE 0
  <2> DEFINE m == n - 1
  <2>1. m \in Nat /\ m + 1 = n
    BY <1>1, <1>2, Topmost DEF Frames
  <2>2. Len(frames') = m /\ \A i \in 1 .. m : frames'[i].kind = frames[i].kind
    BY <1>1, <1>2, Popping DEF Frames
  <2> HIDE DEF m
  <2>3. C(frames', m) = C(frames, m)
    BY <2>1, <2>2, CountSame
  <2>4. C(frames, n) = C(frames, m) + IF frames[n].kind = "if" THEN 1 ELSE 0
    BY <2>1, CountStep
  <2>5. C(frames, m) \in Nat
    BY <2>1, CountNat
  <2> QED
    BY <2>2, <2>3, <2>4, <2>5
<1>3. ASSUME NEW f \in [kind : {"repeat", "if"}, id : Nat, at : {"head", "condition", "body"}],
             frames' = Append(frames, f)
      PROVE  C(frames', Len(frames')) = C(frames, n) + IF f.kind = "if" THEN 1 ELSE 0
  <2>1. /\ Len(frames') = n + 1
        /\ \A i \in 1 .. n : frames'[i].kind = frames[i].kind
        /\ frames'[n + 1] = f
    BY <1>1, <1>3, AppendProperties DEF Frames
  <2>2. C(frames', n) = C(frames, n)
    BY <1>1, <2>1, CountSame
  <2>3. C(frames', n + 1) = C(frames', n) + IF f.kind = "if" THEN 1 ELSE 0
    <3>1. n \in Nat
      BY <1>1
    <3>2. C(frames', n + 1) = C(frames', n) + IF frames'[n + 1].kind = "if" THEN 1 ELSE 0
      BY <3>1, CountStep
    <3> QED
      BY <2>1, <3>2
  <2> QED
    BY <2>1, <2>2, <2>3
<1>4. ASSUME NEW at \in {"head", "condition", "body"}, frames # <<>>,
             frames' = [frames EXCEPT ![Len(frames)].at = at]
      PROVE  C(frames', Len(frames')) = C(frames, n)
  <2>1. Len(frames') = n /\ \A i \in 1 .. n : frames'[i].kind = frames[i].kind
    BY <1>1, <1>4, Marking
  <2> QED
    BY <1>1, <2>1, CountSame
<1> HIDE DEF C, n
<1>5. ASSUME C(frames', Len(frames')) <= if_stack_empty_top',
             state' # "if_stack" => if_stack_empty_top' <= MaxIf,
             state' # "repeat_stack" => repeat_stack_empty_top' >= 0
      PROVE  StacksInRange'
  BY <1>5 DEF StacksInRange, Depth, C
\* Actions that touch neither the blocks nor the stacks, and forget no fault.
<1>6. ASSUME UNCHANGED <<frames, loops, ifs>>,
             state' = state \/ state \notin {"if_stack", "repeat_stack"}
      PROVE  StacksInRange'
  BY <1>6 DEF StacksInRange, Depth, TypeInv, loops, ifs
<1>7. ASSUME AddRepeat
      PROVE  StacksInRange'
  <2>1. state = "code" /\ UNCHANGED <<state, ifs>>
    BY <1>7 DEF AddRepeat, Opening, AtItem
  <2>2. repeat_stack_empty_top' >= 0
    BY <1>1, <1>7, <2>1 DEF AddRepeat, loops
  <2>3. PICK id \in Nat : frames' = Append(frames, Frame("repeat", id, "body"))
    BY <1>7 DEF AddRepeat, NoId, TypeInv, TypeOK, TableTypeOK
  <2>4. Frame("repeat", id, "body") \in
            [kind : {"repeat", "if"}, id : Nat, at : {"head", "condition", "body"}]
        /\ Frame("repeat", id, "body").kind = "repeat"
    BY DEF Frame
  <2>5. C(frames', Len(frames')) = C(frames, n)
    BY <1>1, <1>3, <2>3, <2>4
  <2> QED
    BY <1>1, <1>5, <2>1, <2>2, <2>5 DEF ifs
<1>8. ASSUME AddIf
      PROVE  StacksInRange'
  <2>1. /\ state = "code" /\ UNCHANGED loops
        /\ if_stack_empty_top' = if_stack_empty_top + 1
        /\ frames' = Append(frames, Frame("if", symbol_id, "head"))
    BY <1>8 DEF AddIf, Opening, AtItem
  <2>2. Frame("if", symbol_id, "head") \in
            [kind : {"repeat", "if"}, id : Nat, at : {"head", "condition", "body"}]
        /\ Frame("if", symbol_id, "head").kind = "if"
    BY DEF Frame, TypeInv, TypeOK, TableTypeOK
  <2>3. C(frames', Len(frames')) = C(frames, n) + 1
    BY <1>1, <1>3, <2>1, <2>2
  <2>4. state' # "if_stack" => if_stack_empty_top < MaxIf
    <3>1. DOMAIN if_stack = 0 .. MaxIf - 1
      BY DEF TypeInv, TypeOK, StacksTypeOK
    <3>2. state' # "if_stack" => if_stack_empty_top \in DOMAIN if_stack
      BY <1>8 DEF AddIf
    <3> QED
      BY <1>1, <3>1, <3>2, NestingAssumption
  <2>5. state' = "if_stack" \/ state' = "code"
    BY <1>8, <2>1 DEF AddIf
  <2> QED
    BY <1>1, <1>5, <2>1, <2>3, <2>4, <2>5, NestingAssumption DEF loops
<1>9. ASSUME FinRepeat
      PROVE  StacksInRange'
  <2>1. /\ state = "code" /\ UNCHANGED ifs
        /\ frames # <<>> /\ frames[n].kind = "repeat" /\ frames' = Pop(frames)
        /\ repeat_stack_empty_top' = repeat_stack_empty_top - 1
    BY <1>9 DEF FinRepeat, Top, Popped, n
  <2>2. C(frames', Len(frames')) = C(frames, n)
    BY <1>1, <1>2, <2>1
  <2>3. state' \in {"code", "repeat_stack"}
    BY <1>9, <2>1 DEF FinRepeat
  <2>4. state' # "repeat_stack" => repeat_stack_empty_top' >= 0
    <3>1. DOMAIN repeat_stack = 0 .. MaxRepeat - 1
      BY DEF TypeInv, TypeOK, StacksTypeOK
    <3>2. state' # "repeat_stack" => repeat_stack_empty_top' \in DOMAIN repeat_stack
      BY <1>9 DEF FinRepeat
    <3> QED
      BY <1>1, <2>1, <3>1, <3>2, NestingAssumption
  <2> QED
    BY <1>1, <1>5, <2>1, <2>2, <2>3, <2>4 DEF ifs
<1>10. ASSUME FinIf
       PROVE  StacksInRange'
  <2>1. /\ state = "code" /\ UNCHANGED <<state, loops>>
        /\ frames # <<>> /\ frames[n].kind = "if" /\ frames' = Pop(frames)
        /\ if_stack_empty_top' = if_stack_empty_top - 1
    BY <1>10 DEF FinIf, Top, Popped, n
  <2>2. C(frames', Len(frames')) = C(frames, n) - 1
    BY <1>1, <1>2, <2>1
  <2> QED
    BY <1>1, <1>5, <2>1, <2>2, NestingAssumption DEF loops
<1>11. ASSUME SyntaxError
       PROVE  StacksInRange'
  <2>1. /\ state \in {"decl", "code"} /\ UNCHANGED <<state, loops, ifs>>
        /\ \/ frames' = Pop(frames) /\ frames # <<>>
           \/ UNCHANGED frames
    BY <1>11 DEF SyntaxError, InHeader
  <2>2. CASE frames' = Pop(frames) /\ frames # <<>>
    <3>1. C(frames', Len(frames')) <= C(frames, n)
      BY <1>1, <1>2, <2>2
    <3>2. C(frames', Len(frames')) \in Int
      BY <1>1, <1>2, <2>2
    <3> QED
      BY <1>1, <1>5, <2>1, <3>1, <3>2 DEF loops, ifs
  <2>3. CASE UNCHANGED frames
    BY <1>6, <2>1, <2>3
  <2> QED
    BY <2>1, <2>2, <2>3
<1>12. ASSUME AddLogic \/ Then
       PROVE  StacksInRange'
  <2>1. state = "code" /\ frames # <<>> /\ UNCHANGED <<state, loops, ifs>>
    BY <1>12 DEF AddLogic, Then, Top
  <2>2. PICK at \in {"head", "condition", "body"} :
           frames' = [frames EXCEPT ![Len(frames)].at = at]
    BY <1>12 DEF AddLogic, Then
  <2>3. C(frames', Len(frames')) = C(frames, n)
    BY <1>4, <2>1, <2>2
  <2> QED
    BY <1>1, <1>5, <2>1, <2>3 DEF loops, ifs
<1>13. ASSUME NEW name, NEW system, ProgramHead(system, name) \/ ProcedureHead(name)
       PROVE  StacksInRange'
  BY <1>6, <1>13 DEF ProgramHead, ProcedureHead
<1>14. ASSUME NEW name, NEW literals, AddFastcall(name, literals)
       PROVE  StacksInRange'
  BY <1>6, <1>14 DEF AddFastcall, AtItem, parser
<1>15. ASSUME NEW name, NEW d, AddVariable(name, d)
       PROVE  StacksInRange'
  BY <1>6, <1>15 DEF AddVariable, parser
<1>16. ASSUME NEW name, NEW op, \/ Operand(op, name) \/ Offset(name) \/ AddExit(name)
                                \/ AddLabel(name) \/ Jump(op, name)
       PROVE  StacksInRange'
  BY <1>6, <1>16 DEF Operand, Offset, AddExit, AddLabel, Jump, AtItem, parser
<1>17. ASSUME NEW i, Address(i) \/ AddContinue(i) \/ AddBreak(i) \/ DumpVariable(i)
       PROVE  StacksInRange'
  BY <1>6, <1>17 DEF Address, AddContinue, AddBreak, DumpVariable, JumpOut, AtItem, parser
<1>18. ASSUME \/ Begin \/ EndUnit \/ FinHla \/ UnknownSymbol \/ Abort \/ Instruction \/ EndDump
       PROVE  StacksInRange'
  BY <1>6, <1>18 DEF Begin, EndUnit, FinHla, UnknownSymbol, Abort, Instruction, EndDump,
                     AtItem, parser
<1> QED
  BY <1>7, <1>8, <1>9, <1>10, <1>11, <1>12, <1>13, <1>14, <1>15, <1>16, <1>17, <1>18 DEF Step

\* TypeOK holds in every reachable state, whatever the input and the limits.
THEOREM TypeCorrect == Spec => []TypeOK
<1>1. Init => TypeInv
  BY InitTyped
<1>2. TypeInv /\ [Next]_vars => TypeInv'
  <2>1. ASSUME TypeInv, Step PROVE TypeInv'
    BY <2>1, ParserTyped, TableTyped, StacksTyped, FlagsTyped, TokensTyped, RangeKept
    DEF TypeInv, TypeOK
  <2>2. ASSUME TypeInv, UNCHANGED vars PROVE TypeInv'
    BY <2>2 DEF TypeInv, TypeOK, ParserTypeOK, TableTypeOK, StacksTypeOK, FlagsTypeOK,
                TokensTypeOK, StacksInRange, Depth, vars, parser, table, loops, ifs, flags
  <2> QED
    BY <2>1, <2>2 DEF Next, Halted
<1>3. TypeInv => TypeOK
  BY DEF TypeInv
<1> QED
  BY <1>1, <1>2, <1>3, PTL DEF Spec

-----------------------------------------------------------------------------
(***************************************************************************)
(* The loop stack and the condition stack against the parser's own, for    *)
(* any limit on nesting.                                                   *)
(***************************************************************************)
\* Counting fewer frames counts no more of a kind.
LEMMA CountUpTo ==
    ASSUME NEW fs, NEW kind, NEW n \in Nat, NEW j \in 0 .. n
    PROVE  Opened(fs, kind, j) <= Opened(fs, kind, n)
<1> DEFINE S == {i \in 1 .. j : fs[i].kind = kind}
           T == {i \in 1 .. n : fs[i].kind = kind}
<1>1. S \subseteq T
  OBVIOUS
<1>2. IsFiniteSet(T)
  BY CountFinite
<1> HIDE DEF S, T
<1>3. Cardinality(S) <= Cardinality(T)
  BY <1>1, <1>2, FS_Subset
<1> QED
  BY <1>3 DEF Opened, S, T

\* A frame of a kind is counted.
LEMMA CountsItself ==
    ASSUME NEW fs, NEW n \in Nat, NEW j \in 1 .. n
    PROVE  LET kind == fs[j].kind IN
           Opened(fs, kind, j) \in Nat \ {0} /\ Opened(fs, kind, j) <= Opened(fs, kind, n)
<1> DEFINE kind == fs[j].kind
<1>1. Opened(fs, kind, (j - 1) + 1) = Opened(fs, kind, j - 1) + 1
  BY CountStep
<1>2. Opened(fs, kind, j - 1) \in Nat /\ (j - 1) + 1 = j
  BY CountNat
<1>3. Opened(fs, kind, j) <= Opened(fs, kind, n)
  BY CountUpTo
<1> QED
  BY <1>1, <1>2, <1>3

\* Nothing is done after a misuse, and no error is forgotten.
LEMMA StepFrom ==
    ASSUME TypeInv, Step
    PROVE  /\ state \notin Faults
           /\ has_encountered_error => has_encountered_error'
<1>1. has_encountered_error \in BOOLEAN
  BY DEF TypeInv, TypeOK, FlagsTypeOK
<1>2. ASSUME NEW name, NEW system, ProgramHead(system, name) \/ ProcedureHead(name)
      PROVE  state \notin Faults /\ (has_encountered_error => has_encountered_error')
  BY <1>1, <1>2 DEF ProgramHead, ProcedureHead, ErrorIf, IssueError, Faults
<1>3. ASSUME NEW name, NEW literals, AddFastcall(name, literals)
      PROVE  state \notin Faults /\ (has_encountered_error => has_encountered_error')
  BY <1>1, <1>3 DEF AddFastcall, AtItem, IssueError, Faults
<1>4. ASSUME NEW name, NEW d, AddVariable(name, d)
      PROVE  state \notin Faults /\ (has_encountered_error => has_encountered_error')
  BY <1>1, <1>4 DEF AddVariable, IssueError, ErrorIf, Faults
<1>5. ASSUME NEW name, NEW op, \/ Operand(op, name) \/ Offset(name) \/ AddExit(name)
                               \/ AddLabel(name) \/ Jump(op, name)
      PROVE  state \notin Faults /\ (has_encountered_error => has_encountered_error')
  BY <1>1, <1>5 DEF Operand, Offset, AddExit, AddLabel, Jump, NoteLabel, AtItem, IssueError,
                    ErrorIf, Faults, flags
<1>6. ASSUME NEW i, Address(i) \/ AddContinue(i) \/ AddBreak(i) \/ DumpVariable(i)
      PROVE  state \notin Faults /\ (has_encountered_error => has_encountered_error')
  BY <1>1, <1>6 DEF Address, AddContinue, AddBreak, DumpVariable, JumpOut, AtItem,
                    IssueError, Faults, flags
<1>7. ASSUME \/ Begin \/ EndUnit \/ FinHla \/ SyntaxError \/ UnknownSymbol \/ Abort
             \/ Instruction \/ EndDump
      PROVE  state \notin Faults /\ (has_encountered_error => has_encountered_error')
  BY <1>1, <1>7 DEF Begin, EndUnit, FinHla, SyntaxError, UnknownSymbol, Abort, Instruction,
                    EndDump, AtItem, IssueError, ErrorIf, Faults, flags
<1>8. ASSUME AddRepeat \/ FinRepeat \/ AddIf \/ AddLogic \/ Then \/ FinIf
      PROVE  state \notin Faults /\ (has_encountered_error => has_encountered_error')
  BY <1>1, <1>8 DEF AddRepeat, FinRepeat, AddIf, AddLogic, Then, FinIf, Top, Opening, AtItem,
                    IssueError, Faults, flags
<1> QED
  BY <1>2, <1>3, <1>4, <1>5, <1>6, <1>7, <1>8 DEF Step

-----------------------------------------------------------------------------
\* What happens to the numbers of the blocks when one is opened.
LEMMA OpeningCounts ==
    ASSUME NEW fs \in Frames, NEW kind,
           NEW f \in [kind : {"repeat", "if"}, id : Nat, at : {"head", "condition", "body"}]
    PROVE  LET gs == Append(fs, f) IN
           /\ Len(gs) = Len(fs) + 1 /\ gs[Len(fs) + 1] = f
           /\ DOMAIN gs = 1 .. Len(fs) + 1
           /\ \A j \in 1 .. Len(fs) :
                 gs[j] = fs[j] /\ Opened(gs, kind, j) = Opened(fs, kind, j)
           /\ Opened(gs, kind, Len(fs) + 1) =
                 Opened(fs, kind, Len(fs)) + IF f.kind = kind THEN 1 ELSE 0
<1> DEFINE gs == Append(fs, f)
           n == Len(fs)
<1>1. /\ n \in Nat /\ Len(gs) = n + 1 /\ gs[n + 1] = f
      /\ DOMAIN gs = 1 .. n + 1
      /\ \A j \in 1 .. n : gs[j] = fs[j]
  BY AppendProperties, LenProperties DEF Frames
<1> HIDE DEF gs, n
<1>2. \A j \in 0 .. n : Opened(gs, kind, j) = Opened(fs, kind, j)
  <2> TAKE j \in 0 .. n
  <2>1. j \in Nat /\ \A i \in 1 .. j : gs[i].kind = fs[i].kind
    BY <1>1
  <2> QED
    BY <2>1, CountSame
<1>3. Opened(gs, kind, n + 1) = Opened(gs, kind, n) + IF f.kind = kind THEN 1 ELSE 0
  BY <1>1, CountStep
<1>4. Opened(gs, kind, n) = Opened(fs, kind, n)
  BY <1>1, <1>2
<1> QED
  BY <1>1, <1>2, <1>3, <1>4 DEF gs, n

\* What happens to them when the innermost is closed.
LEMMA ClosingCounts ==
    ASSUME NEW fs \in Frames, fs # <<>>, NEW kind
    PROVE  LET gs == Pop(fs) IN
           /\ Len(gs) = Len(fs) - 1 /\ Len(gs) \in Nat
           /\ DOMAIN gs = 1 .. Len(fs) - 1
           /\ \A j \in 1 .. Len(fs) - 1 :
                 gs[j] = fs[j] /\ Opened(gs, kind, j) = Opened(fs, kind, j)
           /\ Opened(gs, kind, Len(gs)) =
                 Opened(fs, kind, Len(fs)) - IF fs[Len(fs)].kind = kind THEN 1 ELSE 0
<1> DEFINE gs == Pop(fs)
           m == Len(fs) - 1
<1>1. m \in Nat /\ m + 1 = Len(fs)
  BY Topmost DEF Frames
<1>2. gs \in Frames /\ Len(gs) = m /\ \A j \in 1 .. m : gs[j] = fs[j]
  BY Popping DEF Frames
<1> HIDE DEF gs, m
<1>3. DOMAIN gs = 1 .. m
  BY <1>2, LenProperties DEF Frames
<1>4. \A j \in 0 .. m : Opened(gs, kind, j) = Opened(fs, kind, j)
  <2> TAKE j \in 0 .. m
  <2>1. j \in Nat /\ \A i \in 1 .. j : gs[i].kind = fs[i].kind
    BY <1>1, <1>2
  <2> QED
    BY <2>1, CountSame
<1>5. Opened(fs, kind, m + 1) = Opened(fs, kind, m) + IF fs[m + 1].kind = kind THEN 1 ELSE 0
  BY <1>1, CountStep
<1>6. Opened(gs, kind, m) = Opened(fs, kind, m) /\ Opened(fs, kind, m) \in Nat
  BY <1>1, <1>4, CountNat
<1>7. Opened(gs, kind, m) = Opened(fs, kind, m + 1) - IF fs[m + 1].kind = kind THEN 1 ELSE 0
  BY <1>5, <1>6
<1>8. \A j \in 1 .. m : gs[j] = fs[j] /\ Opened(gs, kind, j) = Opened(fs, kind, j)
  BY <1>1, <1>2, <1>4
<1> QED
  BY <1>1, <1>2, <1>7, <1>8, <1>3 DEF gs, m

\* They depend on the kinds of the blocks only, not on how far they are read.
LEMMA MarkingCounts ==
    ASSUME NEW fs \in Frames, NEW gs \in Frames, NEW kind,
           Len(gs) = Len(fs), \A j \in 1 .. Len(fs) : gs[j].kind = fs[j].kind
    PROVE  /\ DOMAIN gs = DOMAIN fs /\ DOMAIN fs = 1 .. Len(fs)
           /\ \A j \in 1 .. Len(fs) : Opened(gs, kind, j) = Opened(fs, kind, j)
           /\ Opened(gs, kind, Len(fs)) = Opened(fs, kind, Len(fs))
<1> DEFINE n == Len(fs)
<1>1. Len(gs) = n /\ \A j \in 1 .. n : gs[j].kind = fs[j].kind
  OBVIOUS
<1>2. n \in Nat /\ DOMAIN gs = 1 .. n /\ DOMAIN fs = 1 .. n
  BY <1>1, LenProperties DEF Frames
<1> HIDE DEF n
<1>3. \A j \in 0 .. n : Opened(gs, kind, j) = Opened(fs, kind, j)
  <2> TAKE j \in 0 .. n
  <2>1. j \in Nat /\ \A i \in 1 .. j : gs[i].kind = fs[i].kind
    BY <1>1, <1>2
  <2> QED
    BY <2>1, CountSame
<1>4. \A j \in 1 .. n : Opened(gs, kind, j) = Opened(fs, kind, j)
  BY <1>2, <1>3
<1>5. Opened(gs, kind, n) = Opened(fs, kind, n)
  BY <1>2, <1>3
<1> QED
  BY <1>1, <1>2, <1>4, <1>5 DEF n

-----------------------------------------------------------------------------
\* The loops are numbered from the outside without a gap.
LoopsNumbered ==
    \A d \in 1 .. Depth("repeat", Len(frames)) :
        \E j \in DOMAIN frames : frames[j].kind = "repeat" /\ Depth("repeat", j) = d

\* What holds of the stacks besides their types.
StackInv == TypeInv /\ StacksMatchFrames /\ LoopsNumbered

\* A step opens a block, closes the innermost, marks it, or leaves them alone.
LEMMA FramesChange ==
    ASSUME TypeInv, Step
    PROVE  \/ UNCHANGED frames
           \/ frames # <<>> /\ frames' = Pop(frames)
           \/ \E f \in [kind : {"repeat", "if"}, id : Nat, at : {"head", "condition", "body"}] :
                 frames' = Append(frames, f)
           \/ /\ frames # <<>>
              /\ \E at \in {"head", "condition", "body"} :
                    frames' = [frames EXCEPT ![Len(frames)].at = at]
<1>1. symbol_id \in Nat
  BY DEF TypeInv, TypeOK, TableTypeOK
<1>2. ASSUME NEW name, NEW system, ProgramHead(system, name) \/ ProcedureHead(name)
      PROVE  UNCHANGED frames
  BY <1>2 DEF ProgramHead, ProcedureHead
<1>3. ASSUME NEW name, NEW literals, AddFastcall(name, literals)
      PROVE  UNCHANGED frames
  BY <1>3 DEF AddFastcall, parser
<1>4. ASSUME NEW name, NEW d, AddVariable(name, d)
      PROVE  UNCHANGED frames
  BY <1>4 DEF AddVariable, parser
<1>5. ASSUME NEW name, NEW op, \/ Operand(op, name) \/ Offset(name) \/ AddExit(name)
                               \/ AddLabel(name) \/ Jump(op, name)
      PROVE  UNCHANGED frames
  BY <1>5 DEF Operand, Offset, AddExit, AddLabel, Jump, parser
<1>6. ASSUME NEW i, Address(i) \/ AddContinue(i) \/ AddBreak(i) \/ DumpVariable(i)
      PROVE  UNCHANGED frames
  BY <1>6 DEF Address, AddContinue, AddBreak, DumpVariable, JumpOut, parser
<1>7. ASSUME Begin \/ EndUnit \/ FinHla \/ UnknownSymbol \/ Abort \/ Instruction \/ EndDump
      PROVE  UNCHANGED frames
  BY <1>7 DEF Begin, EndUnit, FinHla, UnknownSymbol, Abort, Instruction, EndDump, parser
<1>8. ASSUME SyntaxError \/ FinRepeat \/ FinIf
      PROVE  UNCHANGED frames \/ (frames # <<>> /\ frames' = Pop(frames))
  BY <1>8 DEF SyntaxError, InHeader, FinRepeat, FinIf, Top
<1>9. ASSUME AddRepeat \/ AddIf
      PROVE  \E f \in [kind : {"repeat", "if"}, id : Nat, at : {"head", "condition", "body"}] :
                frames' = Append(frames, f)
  <2>1. PICK kind \in {"repeat", "if"}, id \in Nat, at \in {"head", "condition", "body"} :
           frames' = Append(frames, Frame(kind, id, at))
    BY <1>1, <1>9 DEF AddRepeat, AddIf, NoId
  <2> QED
    BY <2>1 DEF Frame
<1>10. ASSUME AddLogic \/ Then
       PROVE  /\ frames # <<>>
              /\ \E at \in {"head", "condition", "body"} :
                    frames' = [frames EXCEPT ![Len(frames)].at = at]
  BY <1>10 DEF AddLogic, Then, Top
<1> QED
  BY <1>2, <1>3, <1>4, <1>5, <1>6, <1>7, <1>8, <1>9, <1>10 DEF Step

\* A step leaves no gap in the numbers of the loops.
LEMMA NumbersKept ==
    ASSUME TypeInv, LoopsNumbered, Step
    PROVE  LoopsNumbered'
<1> DEFINE n == Len(frames)
           N(fs, j) == Opened(fs, "repeat", j)
<1>1. /\ frames \in Frames /\ n \in Nat /\ DOMAIN frames = 1 .. n
      /\ N(frames, n) \in Nat
      /\ \A d \in 1 .. N(frames, n) :
            \E j \in 1 .. n : frames[j].kind = "repeat" /\ N(frames, j) = d
  <2>1. frames \in Frames /\ n \in Nat /\ DOMAIN frames = 1 .. n
    BY LenProperties DEF TypeInv, TypeOK, ParserTypeOK, Frames
  <2>2. N(frames, n) \in Nat
    BY <2>1, CountNat
  <2> QED
    BY <2>1, <2>2 DEF LoopsNumbered, Depth
<1>2. SUFFICES ASSUME NEW d \in 1 .. N(frames', Len(frames'))
               PROVE  \E j \in DOMAIN frames' :
                         frames'[j].kind = "repeat" /\ N(frames', j) = d
  BY DEF LoopsNumbered, Depth
<1>3. CASE UNCHANGED frames
  BY <1>1, <1>2, <1>3
<1>4. CASE frames # <<>> /\ frames' = Pop(frames)
  <2>1. /\ Len(frames') = n - 1 /\ DOMAIN frames' = 1 .. n - 1
        /\ \A j \in 1 .. n - 1 : frames'[j] = frames[j] /\ N(frames', j) = N(frames, j)
        /\ N(frames', n - 1) = N(frames, n) - IF frames[n].kind = "repeat" THEN 1 ELSE 0
    <3>1. frames \in Frames /\ frames # <<>> /\ frames' = Pop(frames) /\ n = Len(frames)
      BY <1>1, <1>4
    <3>2. LET gs == Pop(frames) IN
          /\ Len(gs) = n - 1 /\ DOMAIN gs = 1 .. n - 1
          /\ \A j \in 1 .. n - 1 : gs[j] = frames[j] /\ N(gs, j) = N(frames, j)
          /\ N(gs, Len(gs)) = N(frames, n) - IF frames[n].kind = "repeat" THEN 1 ELSE 0
      BY <3>1, ClosingCounts
    <3> HIDE DEF N, n
    <3> QED
      BY <3>1, <3>2
  <2> HIDE DEF N, n
  <2>2. d \in 1 .. N(frames, n)
    BY <1>1, <1>2, <2>1
  <2>3. PICK j \in 1 .. n : frames[j].kind = "repeat" /\ N(frames, j) = d
    BY <1>1, <2>2
  <2>4. j # n
    BY <1>1, <1>2, <2>1, <2>3
  <2>5. j \in 1 .. n - 1
    BY <1>1, <2>3, <2>4
  <2> QED
    BY <2>1, <2>3, <2>5
<1>5. ASSUME NEW f \in [kind : {"repeat", "if"}, id : Nat, at : {"head", "condition", "body"}],
             frames' = Append(frames, f)
      PROVE  \E j \in DOMAIN frames' : frames'[j].kind = "repeat" /\ N(frames', j) = d
  <2>1. /\ Len(frames') = n + 1 /\ DOMAIN frames' = 1 .. n + 1 /\ frames'[n + 1] = f
        /\ \A j \in 1 .. n : frames'[j] = frames[j] /\ N(frames', j) = N(frames, j)
        /\ N(frames', n + 1) = N(frames, n) + IF f.kind = "repeat" THEN 1 ELSE 0
    BY <1>1, <1>5, OpeningCounts
  <2> HIDE DEF N, n
  <2>2. CASE d \in 1 .. N(frames, n)
    <3>1. PICK j \in 1 .. n : frames[j].kind = "repeat" /\ N(frames, j) = d
      BY <1>1, <2>2
    <3>2. frames'[j].kind = "repeat" /\ N(frames', j) = d
      BY <2>1, <3>1
    <3>3. j \in DOMAIN frames'
      BY <1>1, <2>1, <3>1
    <3> QED
      BY <3>2, <3>3
  <2>3. CASE d \notin 1 .. N(frames, n)
    <3>1. d \in 1 .. N(frames', n + 1)
      BY <1>2, <2>1
    <3>2. f.kind = "repeat" /\ d = N(frames, n) + 1
      BY <1>1, <2>1, <2>3, <3>1
    <3>3. frames'[n + 1].kind = "repeat" /\ N(frames', n + 1) = d
      BY <2>1, <3>2
    <3>4. n + 1 \in DOMAIN frames'
      BY <1>1, <2>1
    <3> QED
      BY <3>3, <3>4
  <2> QED
    BY <2>2, <2>3
<1>6. ASSUME NEW at \in {"head", "condition", "body"}, frames # <<>>,
             frames' = [frames EXCEPT ![Len(frames)].at = at]
      PROVE  \E j \in DOMAIN frames' : frames'[j].kind = "repeat" /\ N(frames', j) = d
  <2>1. /\ Len(frames') = n /\ DOMAIN frames' = 1 .. n
        /\ \A j \in 1 .. n : frames'[j].kind = frames[j].kind /\ N(frames', j) = N(frames, j)
        /\ N(frames', n) = N(frames, n)
    <3>1. /\ frames' \in Frames /\ Len(frames') = Len(frames)
          /\ \A j \in 1 .. Len(frames) : frames'[j].kind = frames[j].kind
      BY <1>1, <1>6, Marking
    <3> QED
      BY <1>1, <3>1, MarkingCounts
  <2> HIDE DEF N, n
  <2>2. PICK j \in 1 .. n : frames[j].kind = "repeat" /\ N(frames, j) = d
    <3>1. d \in 1 .. N(frames, n)
      BY <1>2, <2>1
    <3> QED
      BY <1>1, <3>1
  <2>3. frames'[j].kind = "repeat" /\ N(frames', j) = d
    BY <2>1, <2>2
  <2> QED
    BY <2>1, <2>2, <2>3
<1> QED
  BY <1>3, <1>4, <1>5, <1>6, FramesChange

\* The match of the two stacks, of a sequence of frames and of their tops.
MatchedWith(fs, rs, rtop, is, itop) ==
    /\ rtop = Opened(fs, "repeat", Len(fs))
    /\ itop = Opened(fs, "if", Len(fs))
    /\ \A j \in 1 .. Len(fs) :
          fs[j].id = IF fs[j].kind = "repeat"
                     THEN rs[Opened(fs, "repeat", j) - 1]
                     ELSE is[Opened(fs, "if", j) - 1]

Matched ==
    MatchedWith(frames, repeat_stack, repeat_stack_empty_top, if_stack, if_stack_empty_top)

LEMMA MatchedIs ==
    ASSUME frames \in Frames
    PROVE  StacksMatchFrames <=> (~has_encountered_error /\ state \notin Faults => Matched)
<1>1. DOMAIN frames = 1 .. Len(frames)
  BY LenProperties DEF Frames
<1> QED
  BY <1>1 DEF StacksMatchFrames, Matched, MatchedWith, Depth

\* The same of one kind, in terms of the sequences before and after.
ClosedBy(fs, gs, kind) ==
    /\ \A j \in 1 .. Len(fs) - 1 : Opened(gs, kind, j) = Opened(fs, kind, j)
    /\ Opened(gs, kind, Len(fs) - 1) =
          Opened(fs, kind, Len(fs)) - IF fs[Len(fs)].kind = kind THEN 1 ELSE 0

LEMMA ClosingOne ==
    ASSUME NEW fs \in Frames, fs # <<>>, NEW gs, gs = Pop(fs), NEW kind
    PROVE  /\ Len(gs) = Len(fs) - 1
           /\ \A j \in 1 .. Len(fs) - 1 : gs[j] = fs[j]
           /\ ClosedBy(fs, gs, kind)
<1>1. LET hs == Pop(fs) IN
      /\ Len(hs) = Len(fs) - 1 /\ Len(hs) \in Nat
      /\ DOMAIN hs = 1 .. Len(fs) - 1
      /\ \A j \in 1 .. Len(fs) - 1 :
            hs[j] = fs[j] /\ Opened(hs, kind, j) = Opened(fs, kind, j)
      /\ Opened(hs, kind, Len(hs)) =
            Opened(fs, kind, Len(fs)) - IF fs[Len(fs)].kind = kind THEN 1 ELSE 0
  BY ClosingCounts
<1>2. /\ Len(gs) = Len(fs) - 1
      /\ \A j \in 1 .. Len(fs) - 1 : gs[j] = fs[j] /\ Opened(gs, kind, j) = Opened(fs, kind, j)
      /\ Opened(gs, kind, Len(gs)) =
            Opened(fs, kind, Len(fs)) - IF fs[Len(fs)].kind = kind THEN 1 ELSE 0
  BY <1>1
<1> QED
  BY <1>2 DEF ClosedBy

\* Closing the innermost block pops the stack of its kind.
LEMMA ClosingMatched ==
    ASSUME frames \in Frames, frames # <<>>, Matched, frames' = Pop(frames),
           UNCHANGED <<repeat_stack, if_stack>>,
           repeat_stack_empty_top' =
               repeat_stack_empty_top - IF frames[Len(frames)].kind = "repeat" THEN 1 ELSE 0,
           if_stack_empty_top' =
               if_stack_empty_top - IF frames[Len(frames)].kind = "if" THEN 1 ELSE 0
    PROVE  Matched'
<1> DEFINE n == Len(frames)
           N(fs, kind, j) == Opened(fs, kind, j)
<1>1. /\ Len(frames') = n - 1 /\ n \in Nat
      /\ \A j \in 1 .. n - 1 : frames'[j] = frames[j]
                               /\ N(frames', "repeat", j) = N(frames, "repeat", j)
                               /\ N(frames', "if", j) = N(frames, "if", j)
      /\ N(frames', "repeat", n - 1) =
            N(frames, "repeat", n) - IF frames[n].kind = "repeat" THEN 1 ELSE 0
      /\ N(frames', "if", n - 1) =
            N(frames, "if", n) - IF frames[n].kind = "if" THEN 1 ELSE 0
  <2>1. frames \in Frames /\ frames # <<>> /\ frames' = Pop(frames)
    OBVIOUS
  <2>2. /\ Len(frames') = n - 1
        /\ \A j \in 1 .. n - 1 : frames'[j] = frames[j]
        /\ ClosedBy(frames, frames', "repeat")
    BY <2>1, ClosingOne
  <2>3. ClosedBy(frames, frames', "if")
    BY <2>1, ClosingOne
  <2>4. n \in Nat
    BY <2>1, LenProperties DEF Frames
  <2> QED
    BY <2>2, <2>3, <2>4 DEF ClosedBy
<1>2. /\ repeat_stack_empty_top = N(frames, "repeat", n)
      /\ if_stack_empty_top = N(frames, "if", n)
      /\ \A j \in 1 .. n : frames[j].id = IF frames[j].kind = "repeat"
                                          THEN repeat_stack[N(frames, "repeat", j) - 1]
                                          ELSE if_stack[N(frames, "if", j) - 1]
  BY DEF Matched, MatchedWith
<1> HIDE DEF n, N
<1>3. /\ repeat_stack_empty_top' = N(frames', "repeat", n - 1)
      /\ if_stack_empty_top' = N(frames', "if", n - 1)
  BY <1>1, <1>2 DEF n
<1>4. ASSUME NEW j \in 1 .. n - 1
      PROVE  frames'[j].id = IF frames'[j].kind = "repeat"
                             THEN repeat_stack'[N(frames', "repeat", j) - 1]
                             ELSE if_stack'[N(frames', "if", j) - 1]
  BY <1>1, <1>2
<1> QED
  BY <1>1, <1>3, <1>4 DEF N, Matched, MatchedWith

\* Marking the innermost block leaves the stacks as they are.
LEMMA MarkingMatched ==
    ASSUME frames \in Frames, frames' \in Frames, Matched, Len(frames') = Len(frames),
           \A j \in 1 .. Len(frames) :
               frames'[j].kind = frames[j].kind /\ frames'[j].id = frames[j].id,
           UNCHANGED <<loops, ifs>>
    PROVE  Matched'
<1> DEFINE n == Len(frames)
           N(fs, kind, j) == Opened(fs, kind, j)
<1>1. /\ Len(frames') = n
      /\ \A j \in 1 .. n : /\ frames'[j].kind = frames[j].kind
                           /\ frames'[j].id = frames[j].id
                           /\ N(frames', "repeat", j) = N(frames, "repeat", j)
                           /\ N(frames', "if", j) = N(frames, "if", j)
      /\ N(frames', "repeat", n) = N(frames, "repeat", n)
      /\ N(frames', "if", n) = N(frames, "if", n)
  <2>1. /\ frames' \in Frames /\ Len(frames') = Len(frames)
        /\ \A j \in 1 .. Len(frames) :
              frames'[j].kind = frames[j].kind /\ frames'[j].id = frames[j].id
    OBVIOUS
  <2>2. /\ \A j \in 1 .. n : N(frames', "repeat", j) = N(frames, "repeat", j)
        /\ N(frames', "repeat", n) = N(frames, "repeat", n)
    BY <2>1, MarkingCounts
  <2>3. /\ \A j \in 1 .. n : N(frames', "if", j) = N(frames, "if", j)
        /\ N(frames', "if", n) = N(frames, "if", n)
    BY <2>1, MarkingCounts
  <2> QED
    BY <2>1, <2>2, <2>3
<1>2. /\ repeat_stack_empty_top = N(frames, "repeat", n)
      /\ if_stack_empty_top = N(frames, "if", n)
      /\ \A j \in 1 .. n : frames[j].id = IF frames[j].kind = "repeat"
                                          THEN repeat_stack[N(frames, "repeat", j) - 1]
                                          ELSE if_stack[N(frames, "if", j) - 1]
  BY DEF Matched, MatchedWith
<1> HIDE DEF n, N
<1>3. /\ repeat_stack_empty_top' = N(frames', "repeat", n)
      /\ if_stack_empty_top' = N(frames', "if", n)
  BY <1>1, <1>2 DEF loops, ifs
<1>4. ASSUME NEW j \in 1 .. n
      PROVE  frames'[j].id = IF frames'[j].kind = "repeat"
                             THEN repeat_stack'[N(frames', "repeat", j) - 1]
                             ELSE if_stack'[N(frames', "if", j) - 1]
  BY <1>1, <1>2 DEF loops, ifs
<1> QED
  BY <1>1, <1>3, <1>4 DEF N, Matched, MatchedWith

\* Opening a block pushes its id on the stack of its kind, above all entries of
\* the blocks around it.
LEMMA OpeningMatched ==
    ASSUME TypeInv, Matched, NEW kind \in {"repeat", "if"}, NEW id \in Nat,
           NEW at \in {"head", "condition", "body"},
           frames' = Append(frames, Frame(kind, id, at)),
           IF kind = "repeat"
           THEN /\ repeat_stack_empty_top \in DOMAIN repeat_stack
                /\ repeat_stack' = [repeat_stack EXCEPT ![repeat_stack_empty_top] = id]
                /\ repeat_stack_empty_top' = repeat_stack_empty_top + 1
                /\ UNCHANGED ifs
           ELSE /\ if_stack_empty_top \in DOMAIN if_stack
                /\ if_stack' = [if_stack EXCEPT ![if_stack_empty_top] = id]
                /\ if_stack_empty_top' = if_stack_empty_top + 1
                /\ UNCHANGED loops
    PROVE  Matched'
<1> DEFINE n == Len(frames)
           R(fs, j) == Opened(fs, "repeat", j)
           I(fs, j) == Opened(fs, "if", j)
           f == Frame(kind, id, at)
<1>1. /\ frames \in Frames /\ n \in Nat
      /\ repeat_stack \in [0 .. MaxRepeat - 1 -> Nat] /\ if_stack \in [0 .. MaxIf - 1 -> Nat]
      /\ MaxRepeat \in Nat /\ MaxIf \in Nat
  BY LenProperties, NestingAssumption DEF TypeInv, TypeOK, ParserTypeOK, StacksTypeOK, Frames
<1>2. /\ f \in [kind : {"repeat", "if"}, id : Nat, at : {"head", "condition", "body"}]
      /\ f.kind = kind /\ f.id = id
  BY DEF Frame
<1> HIDE DEF f
<1>3. /\ Len(frames') = n + 1 /\ frames'[n + 1] = f
      /\ \A j \in 1 .. n : frames'[j] = frames[j]
                           /\ R(frames', j) = R(frames, j) /\ I(frames', j) = I(frames, j)
      /\ R(frames', n + 1) = R(frames, n) + IF kind = "repeat" THEN 1 ELSE 0
      /\ I(frames', n + 1) = I(frames, n) + IF kind = "if" THEN 1 ELSE 0
  <2>1. frames' = Append(frames, f)
    BY DEF f
  <2>2. /\ Len(frames') = n + 1 /\ frames'[n + 1] = f
        /\ \A j \in 1 .. n : frames'[j] = frames[j] /\ R(frames', j) = R(frames, j)
        /\ R(frames', n + 1) = R(frames, n) + IF f.kind = "repeat" THEN 1 ELSE 0
    BY <1>1, <1>2, <2>1, OpeningCounts
  <2>3. /\ \A j \in 1 .. n : I(frames', j) = I(frames, j)
        /\ I(frames', n + 1) = I(frames, n) + IF f.kind = "if" THEN 1 ELSE 0
    BY <1>1, <1>2, <2>1, OpeningCounts
  <2> QED
    BY <1>2, <2>2, <2>3
<1>4. /\ repeat_stack_empty_top = R(frames, n)
      /\ if_stack_empty_top = I(frames, n)
      /\ \A j \in 1 .. n : frames[j].id = IF frames[j].kind = "repeat"
                                          THEN repeat_stack[R(frames, j) - 1]
                                          ELSE if_stack[I(frames, j) - 1]
  BY DEF Matched, MatchedWith
<1>5. /\ R(frames, n) \in Nat /\ I(frames, n) \in Nat
      /\ \A j \in 1 .. n :
            /\ frames[j].kind = "repeat" => R(frames, j) \in Nat \ {0} /\ R(frames, j) <= R(frames, n)
            /\ frames[j].kind = "if" => I(frames, j) \in Nat \ {0} /\ I(frames, j) <= I(frames, n)
            /\ frames[j].kind \in {"repeat", "if"}
  <2>1. ASSUME NEW j \in 1 .. n PROVE frames[j].kind \in {"repeat", "if"}
    <3>1. frames[j] \in [kind : {"repeat", "if"}, id : Nat, at : {"head", "condition", "body"}]
      BY <1>1, ElementOfSeq DEF Frames
    <3> QED
      BY <3>1
  <2>2. R(frames, n) \in Nat /\ I(frames, n) \in Nat
    BY <1>1, CountNat
  <2>3. ASSUME NEW j \in 1 .. n
        PROVE  Opened(frames, frames[j].kind, j) \in Nat \ {0}
               /\ Opened(frames, frames[j].kind, j) <= Opened(frames, frames[j].kind, n)
    BY <1>1, CountsItself
  <2> QED
    BY <2>1, <2>2, <2>3
<1> HIDE DEF n, R, I
<1>6. /\ repeat_stack_empty_top' = R(frames', n + 1)
      /\ if_stack_empty_top' = I(frames', n + 1)
  BY <1>3, <1>4, <1>5 DEF loops, ifs
<1>7. ASSUME NEW j \in 1 .. n + 1
      PROVE  frames'[j].id = IF frames'[j].kind = "repeat"
                             THEN repeat_stack'[R(frames', j) - 1]
                             ELSE if_stack'[I(frames', j) - 1]
  <2>1. CASE j \in 1 .. n /\ frames[j].kind = "repeat"
    <3>1. R(frames, j) \in Nat \ {0} /\ R(frames, j) <= repeat_stack_empty_top
      BY <1>4, <1>5, <2>1
    <3>2. R(frames, j) - 1 # repeat_stack_empty_top
      BY <1>4, <1>5, <3>1
    <3>3. repeat_stack_empty_top \in DOMAIN repeat_stack => R(frames, j) - 1 \in DOMAIN repeat_stack
      BY <1>1, <3>1
    <3>4. repeat_stack'[R(frames, j) - 1] = repeat_stack[R(frames, j) - 1]
      BY <1>1, <3>2, <3>3 DEF loops
    <3> QED
      BY <1>3, <1>4, <2>1, <3>4
  <2>2. CASE j \in 1 .. n /\ frames[j].kind = "if"
    <3>1. I(frames, j) \in Nat \ {0} /\ I(frames, j) <= if_stack_empty_top
      BY <1>4, <1>5, <2>2
    <3>2. I(frames, j) - 1 # if_stack_empty_top
      BY <1>4, <1>5, <3>1
    <3>3. if_stack_empty_top \in DOMAIN if_stack => I(frames, j) - 1 \in DOMAIN if_stack
      <4>1. DOMAIN if_stack = 0 .. MaxIf - 1 /\ MaxIf \in Nat
        BY <1>1
      <4>2. if_stack_empty_top \in Nat
        BY <1>4, <1>5
      <4>3. ASSUME if_stack_empty_top \in 0 .. MaxIf - 1
            PROVE  I(frames, j) - 1 \in 0 .. MaxIf - 1
        BY <3>1, <4>1, <4>2, <4>3
      <4> QED
        BY <4>1, <4>3
    <3>4. if_stack'[I(frames, j) - 1] = if_stack[I(frames, j) - 1]
      BY <1>1, <3>2, <3>3 DEF ifs
    <3> QED
      BY <1>3, <1>4, <2>2, <3>4
  <2>3. CASE j = n + 1 /\ kind = "repeat"
    <3>1. R(frames', j) - 1 = repeat_stack_empty_top
      BY <1>3, <1>4, <1>5, <2>3
    <3>2. repeat_stack'[repeat_stack_empty_top] = id
      BY <1>1, <2>3
    <3> QED
      BY <1>2, <1>3, <2>3, <3>1, <3>2
  <2>4. CASE j = n + 1 /\ kind = "if"
    <3>1. I(frames', j) - 1 = if_stack_empty_top
      BY <1>3, <1>4, <1>5, <2>4
    <3>2. if_stack'[if_stack_empty_top] = id
      BY <1>1, <2>4
    <3> QED
      BY <1>2, <1>3, <2>4, <3>1, <3>2
  <2>5. j \in 1 .. n \/ j = n + 1
    BY <1>1
  <2> QED
    BY <1>5, <2>1, <2>2, <2>3, <2>4, <2>5
<1> QED
  BY <1>3, <1>6, <1>7 DEF R, I, Matched, MatchedWith

-----------------------------------------------------------------------------
\* A step keeps the match of the stacks, and misuses the loop stack only after an
\* error.
LEMMA MatchKept ==
    ASSUME TypeInv, Step, StacksMatchFrames
    PROVE  StacksMatchFrames'
<1> DEFINE n == Len(frames)
<1>1. frames \in Frames /\ frames' \in Frames
  BY ParserTyped DEF TypeInv, TypeOK, ParserTypeOK
<1>2. SUFFICES ASSUME ~has_encountered_error', state' \notin Faults
               PROVE  Matched'
  <2>1. StacksMatchFrames' <=> (~has_encountered_error' /\ state' \notin Faults => Matched')
    <3>1. DOMAIN frames' = 1 .. Len(frames')
      BY <1>1, LenProperties DEF Frames
    <3> QED
      BY <3>1 DEF StacksMatchFrames, Matched, MatchedWith, Depth
  <2> QED
    BY <2>1
<1>3. ~has_encountered_error /\ Matched
  BY <1>1, <1>2, StepFrom, MatchedIs
<1>4. ASSUME UNCHANGED <<frames, loops, ifs>> PROVE Matched'
  BY <1>3, <1>4 DEF Matched, loops, ifs
<1>5. ASSUME AddRepeat PROVE Matched'
  <2>1. /\ frames' = Append(frames, Frame("repeat", symbol_id, "body"))
        /\ repeat_stack_empty_top # MaxRepeat
        /\ repeat_stack' = [repeat_stack EXCEPT ![repeat_stack_empty_top] = symbol_id]
        /\ repeat_stack_empty_top' = repeat_stack_empty_top + 1
        /\ UNCHANGED ifs
    BY <1>2, <1>5 DEF AddRepeat, IssueError, RepeatFull
  <2>2. repeat_stack_empty_top \in DOMAIN repeat_stack
    <3>1. state # "repeat_stack"
      BY <1>5 DEF AddRepeat, Opening, AtItem
    <3>2. repeat_stack_empty_top >= 0 /\ repeat_stack_empty_top \in -1 .. MaxRepeat
      BY <3>1 DEF TypeInv, StacksInRange, TypeOK, StacksTypeOK
    <3>3. DOMAIN repeat_stack = 0 .. MaxRepeat - 1
      BY DEF TypeInv, TypeOK, StacksTypeOK
    <3> QED
      BY <2>1, <3>2, <3>3, NestingAssumption
  <2>3. symbol_id \in Nat
    BY DEF TypeInv, TypeOK, TableTypeOK
  <2> QED
    BY <1>3, <2>1, <2>2, <2>3, OpeningMatched
<1>6. ASSUME AddIf PROVE Matched'
  <2>1. /\ frames' = Append(frames, Frame("if", symbol_id, "head"))
        /\ if_stack_empty_top \in DOMAIN if_stack
        /\ if_stack' = [if_stack EXCEPT ![if_stack_empty_top] = symbol_id]
        /\ if_stack_empty_top' = if_stack_empty_top + 1
        /\ UNCHANGED loops
    BY <1>2, <1>6 DEF AddIf, Faults
  <2>2. symbol_id \in Nat
    BY DEF TypeInv, TypeOK, TableTypeOK
  <2> QED
    BY <1>3, <2>1, <2>2, OpeningMatched
<1>7. ASSUME FinRepeat PROVE Matched'
  <2>1. /\ frames # <<>> /\ frames' = Pop(frames) /\ frames[n].kind = "repeat"
        /\ repeat_stack_empty_top' = repeat_stack_empty_top - 1
        /\ UNCHANGED <<repeat_stack, ifs>>
    BY <1>7 DEF FinRepeat, Top, Popped
  <2>2. if_stack_empty_top \in Int
    BY DEF TypeInv, TypeOK, StacksTypeOK
  <2> QED
    BY <1>1, <1>3, <2>1, <2>2, ClosingMatched DEF ifs
<1>8. ASSUME FinIf PROVE Matched'
  <2>1. /\ frames # <<>> /\ frames' = Pop(frames) /\ frames[n].kind = "if"
        /\ if_stack_empty_top' = if_stack_empty_top - 1
        /\ UNCHANGED <<if_stack, loops>>
    BY <1>8 DEF FinIf, Top, Popped
  <2>2. repeat_stack_empty_top \in Int
    BY DEF TypeInv, TypeOK, StacksTypeOK
  <2> QED
    BY <1>1, <1>3, <2>1, <2>2, ClosingMatched DEF loops
<1>9. ASSUME AddLogic \/ Then PROVE Matched'
  <2>1. frames # <<>> /\ UNCHANGED <<loops, ifs>>
    BY <1>9 DEF AddLogic, Then, Top
  <2>2. PICK at \in {"head", "condition", "body"} :
           frames' = [frames EXCEPT ![Len(frames)].at = at]
    BY <1>9 DEF AddLogic, Then
  <2>3. /\ Len(frames') = Len(frames)
        /\ \A j \in 1 .. Len(frames) :
              frames'[j].kind = frames[j].kind /\ frames'[j].id = frames[j].id
    BY <1>1, <2>1, <2>2, Marking
  <2> QED
    BY <1>1, <1>3, <2>1, <2>3, MarkingMatched
<1>10. ASSUME SyntaxError PROVE Matched'
  BY <1>2, <1>10 DEF SyntaxError, IssueError
<1>11. ASSUME NEW name, NEW system, ProgramHead(system, name) \/ ProcedureHead(name)
       PROVE  Matched'
  BY <1>4, <1>11 DEF ProgramHead, ProcedureHead
<1>12. ASSUME NEW name, NEW literals, AddFastcall(name, literals)
       PROVE  Matched'
  BY <1>4, <1>12 DEF AddFastcall, parser
<1>13. ASSUME NEW name, NEW d, AddVariable(name, d)
       PROVE  Matched'
  BY <1>4, <1>13 DEF AddVariable, parser
<1>14. ASSUME NEW name, NEW op, \/ Operand(op, name) \/ Offset(name) \/ AddExit(name)
                                \/ AddLabel(name) \/ Jump(op, name)
       PROVE  Matched'
  BY <1>4, <1>14 DEF Operand, Offset, AddExit, AddLabel, Jump, parser
<1>15. ASSUME NEW i, Address(i) \/ AddContinue(i) \/ AddBreak(i) \/ DumpVariable(i)
       PROVE  Matched'
  BY <1>4, <1>15 DEF Address, AddContinue, AddBreak, DumpVariable, JumpOut, parser
<1>16. ASSUME \/ Begin \/ EndUnit \/ FinHla \/ UnknownSymbol \/ Abort \/ Instruction \/ EndDump
       PROVE  Matched'
  BY <1>4, <1>16 DEF Begin, EndUnit, FinHla, UnknownSymbol, Abort, Instruction, EndDump, parser
<1> QED
  BY <1>5, <1>6, <1>7, <1>8, <1>9, <1>10, <1>11, <1>12, <1>13, <1>14, <1>15, <1>16 DEF Step

\* What holds initially.
LEMMA InitStacks == Init => StackInv
<1> SUFFICES ASSUME Init PROVE StackInv
  OBVIOUS
<1>1. frames = <<>> /\ Len(frames) = 0 /\ DOMAIN frames = {}
  BY DEF Init
<1>2. ASSUME NEW kind PROVE Opened(<<>>, kind, 0) = 0
  <2>1. {i \in 1 .. 0 : <<>>[i].kind = kind} = {}
    OBVIOUS
  <2> QED
    BY <2>1, FS_EmptySet DEF Opened
<1>3. StacksMatchFrames
  BY <1>1, <1>2 DEF Init, StacksMatchFrames, Depth
<1>4. LoopsNumbered
  BY <1>1, <1>2 DEF LoopsNumbered, Depth
<1> QED
  BY <1>3, <1>4, InitTyped DEF StackInv

\* The invariant of the two stacks is inductive.
LEMMA StacksInductive == StackInv /\ [Next]_vars => StackInv'
<1>1. ASSUME StackInv, Step PROVE StackInv'
  <2>1. TypeInv'
    BY <1>1, ParserTyped, TableTyped, StacksTyped, FlagsTyped, TokensTyped, RangeKept
    DEF StackInv, TypeInv, TypeOK
  <2> QED
    BY <1>1, <2>1, MatchKept, NumbersKept DEF StackInv
<1>2. ASSUME StackInv, UNCHANGED vars PROVE StackInv'
  <2>1. TypeInv'
    BY <1>2 DEF StackInv, TypeInv, TypeOK, ParserTypeOK, TableTypeOK, StacksTypeOK, FlagsTypeOK,
                TokensTypeOK, StacksInRange, Depth, vars, parser, table, loops, ifs, flags
  <2>2. UNCHANGED <<frames, state, repeat_stack, repeat_stack_empty_top, if_stack,
                    if_stack_empty_top, has_encountered_error>>
    BY <1>2 DEF vars, parser, loops, ifs, flags
  <2>3. StacksMatchFrames' /\ LoopsNumbered'
    BY <1>2, <2>2 DEF StackInv, StacksMatchFrames, LoopsNumbered, Depth
  <2> QED
    BY <2>1, <2>3 DEF StackInv
<1> QED
  BY <1>1, <1>2 DEF Next, Halted

\* Until something is reported the two stacks of eaxhla.c hold the ids of the
\* open blocks and nothing else.
THEOREM StacksMatch == Spec => []StacksMatchFrames
<1>1. StackInv => StacksMatchFrames
  BY DEF StackInv
<1> QED
  BY <1>1, InitStacks, StacksInductive, PTL DEF Spec

\* The entry of the i-th loop from the inside is on the stack when the check of
\* add_continue and add_break lets i through.
LEMMA LevelFound ==
    ASSUME StackInv, state \notin Faults, ~has_encountered_error,
           NEW i \in Nat \ {0}, ~TooDeep(i)
    PROVE  /\ LoopIndex(i) \in DOMAIN repeat_stack
           /\ \E j \in DOMAIN frames :
                 /\ frames[j].kind = "repeat"
                 /\ Depth("repeat", j) = Depth("repeat", Len(frames)) - i + 1
                 /\ frames[j].id = repeat_stack[LoopIndex(i)]
<1> DEFINE D == Depth("repeat", Len(frames))
           top == repeat_stack_empty_top
<1>1. /\ top = D
      /\ \A j \in DOMAIN frames :
            frames[j].kind = "repeat" => frames[j].id = repeat_stack[Depth("repeat", j) - 1]
      /\ \A d \in 1 .. D : \E j \in DOMAIN frames :
            frames[j].kind = "repeat" /\ Depth("repeat", j) = d
  BY DEF StackInv, StacksMatchFrames, LoopsNumbered
<1>2. top \in -1 .. MaxRepeat /\ DOMAIN repeat_stack = 0 .. MaxRepeat - 1
  BY DEF StackInv, TypeInv, TypeOK, StacksTypeOK
<1>3. top # 0 /\ top - i >= 0 /\ LoopIndex(i) = top - i
  BY <1>2 DEF TooDeep, LoopIndex
<1> HIDE DEF D, top
<1>4. LoopIndex(i) \in DOMAIN repeat_stack
  BY <1>2, <1>3, NestingAssumption
<1>5. D - i + 1 \in 1 .. D
  BY <1>1, <1>2, <1>3
<1>6. PICK j \in DOMAIN frames : frames[j].kind = "repeat" /\ Depth("repeat", j) = D - i + 1
  BY <1>1, <1>5
<1>7. frames[j].id = repeat_stack[(D - i + 1) - 1] /\ (D - i + 1) - 1 = top - i
  BY <1>1, <1>2, <1>6
<1> QED
  BY <1>3, <1>4, <1>6, <1>7 DEF D

\* How many loops are open is what the loop stack holds, until something is reported.
LEMMA LoopsOpen ==
    ASSUME StackInv, state \notin Faults, ~has_encountered_error
    PROVE  /\ repeat_stack_empty_top = Depth("repeat", Len(frames))
           /\ repeat_stack_empty_top \in -1 .. MaxRepeat
           /\ DOMAIN repeat_stack = 0 .. MaxRepeat - 1
BY DEF StackInv, StacksMatchFrames, TypeInv, TypeOK, StacksTypeOK

\* fin_repeat finds a loop to pop.
LEMMA LoopPopped ==
    ASSUME StackInv, state \notin Faults, ~has_encountered_error, FinRepeat
    PROVE  state' # "repeat_stack"
<1>1. /\ frames # <<>> /\ frames[Len(frames)].kind = "repeat" /\ state = "code"
      /\ repeat_stack_empty_top' = repeat_stack_empty_top - 1
  BY DEF FinRepeat, Top, Popped
<1>2. Len(frames) \in 1 .. Len(frames) /\ Len(frames) \in Nat
  BY <1>1, Topmost DEF StackInv, TypeInv, TypeOK, ParserTypeOK, Frames
<1>3. Depth("repeat", Len(frames)) \in Nat \ {0}
  BY <1>1, <1>2, CountsItself DEF Depth
<1>4. repeat_stack_empty_top' \in DOMAIN repeat_stack
  BY <1>1, <1>3, LoopsOpen, NestingAssumption
<1> QED
  BY <1>1, <1>4 DEF FinRepeat

\* `continue' and `break' access what is beside the loop stack exactly if their level is
\* one that does.
LEMMA BesideTheStack ==
    ASSUME StackInv, state \notin Faults, ~has_encountered_error, NEW i \in Levels,
           AddContinue(i) \/ AddBreak(i)
    PROVE  state' = "repeat_stack" <=> Beside(i)
<1> DEFINE top == repeat_stack_empty_top
<1>1. top = Depth("repeat", Len(frames)) /\ top \in -1 .. MaxRepeat
      /\ DOMAIN repeat_stack = 0 .. MaxRepeat - 1
  BY LoopsOpen
<1>2. i \in Int
  BY LevelsAssumption
<1>3. state = "code"
  BY DEF AddContinue, AddBreak, JumpOut, AtItem
<1>4. state' = "repeat_stack" <=> ~TooDeep(i) /\ LoopIndex(i) \notin DOMAIN repeat_stack
  BY <1>3 DEF AddContinue, AddBreak, JumpOut
<1>5. top >= 0
  BY <1>3 DEF StackInv, TypeInv, StacksInRange
<1>6. CASE i > 0
  <2>1. ~TooDeep(i) => LoopIndex(i) \in DOMAIN repeat_stack
    BY <1>2, <1>6, LevelFound
  <2>2. ~Beside(i)
    BY <1>2, <1>6 DEF Beside
  <2> QED
    BY <1>4, <2>1, <2>2
<1>7. CASE i = 0
  <2>1. (~TooDeep(i) <=> top # 0) /\ LoopIndex(i) = top
    BY <1>1, <1>5, <1>7 DEF TooDeep, LoopIndex
  <2>2. Beside(i) <=> top = MaxRepeat
    BY <1>1, <1>7 DEF Beside
  <2> HIDE DEF top
  <2> QED
    BY <1>1, <1>4, <1>5, <2>1, <2>2, NestingAssumption
<1>8. CASE i < 0
  <2>1. (~TooDeep(i) <=> top > 0) /\ LoopIndex(i) = -1
    BY <1>1, <1>2, <1>5, <1>8 DEF TooDeep, LoopIndex, FAR_BEFORE
  <2>2. Beside(i) <=> top > 0
    BY <1>1, <1>2, <1>8 DEF Beside
  <2> HIDE DEF top
  <2> QED
    BY <1>1, <1>4, <2>1, <2>2
<1> QED
  BY <1>2, <1>6, <1>7, <1>8

\* As long as nothing was reported, what accesses memory beside the loop stack is a
\* `continue' or `break' of a negative level, or of level 0 in as many loops as there may
\* be, for all levels: neither the nesting nor the ends of loops.
THEOREM MisuseIsKnown == Spec => LoopStackMisuseKnown
<1> DEFINE Sound == ~has_encountered_error /\ state \notin Faults
           Exact == \A i \in Levels : LeavesLoops(i) => (state' = "repeat_stack" <=> Beside(i))
           ExactAndOnly ==
               /\ Exact
               /\ state' = "repeat_stack" => \E i \in Levels : LeavesLoops(i)
<1>1. ASSUME StackInv, Sound PROVE Exact
  BY <1>1, BesideTheStack DEF LeavesLoops
<1>2. ASSUME StackInv, Sound, Step, \A i \in Levels : ~LeavesLoops(i)
      PROVE  state' # "repeat_stack"
  <2>1. ASSUME FinRepeat PROVE state' # "repeat_stack"
    BY <1>2, <2>1, LoopPopped
  <2>2. ASSUME AddRepeat \/ AddIf \/ FinIf \/ AddLogic \/ Then PROVE state' # "repeat_stack"
    BY <2>2 DEF AddRepeat, AddIf, FinIf, AddLogic, Then, Top, Opening, AtItem
  <2>3. ASSUME \/ Begin \/ EndUnit \/ FinHla \/ SyntaxError \/ UnknownSymbol \/ Abort
               \/ Instruction \/ EndDump
        PROVE  state' # "repeat_stack"
    BY <2>3 DEF Begin, EndUnit, FinHla, SyntaxError, UnknownSymbol, Abort, Instruction, EndDump,
                AtItem, parser
  <2>4. ASSUME NEW name, NEW system, ProgramHead(system, name) \/ ProcedureHead(name)
        PROVE  state' # "repeat_stack"
    BY <2>4 DEF ProgramHead, ProcedureHead
  <2>5. ASSUME NEW name, NEW literals, AddFastcall(name, literals)
        PROVE  state' # "repeat_stack"
    BY <2>5 DEF AddFastcall, AtItem, parser
  <2>6. ASSUME NEW name, NEW d, AddVariable(name, d)
        PROVE  state' # "repeat_stack"
    BY <2>6 DEF AddVariable, parser
  <2>7. ASSUME NEW name, NEW op, \/ Operand(op, name) \/ Offset(name) \/ AddExit(name)
                                 \/ AddLabel(name) \/ Jump(op, name)
        PROVE  state' # "repeat_stack"
    BY <2>7 DEF Operand, Offset, AddExit, AddLabel, Jump, AtItem, parser
  <2>8. ASSUME NEW i, Address(i) \/ DumpVariable(i)
         PROVE  state' # "repeat_stack"
    BY <2>8 DEF Address, DumpVariable, AtItem, parser
  <2> QED
    BY <1>2, <2>1, <2>2, <2>3, <2>4, <2>5, <2>6, <2>7, <2>8 DEF Step, LeavesLoops
<1>3. StackInv /\ [Next]_vars => [Sound => ExactAndOnly]_vars
  BY <1>1, <1>2 DEF Next, Halted
<1>4. Spec => []StackInv
  BY InitStacks, StacksInductive, PTL DEF Spec
<1>5. [][Sound => ExactAndOnly]_vars => LoopStackMisuseKnown
  BY DEF LoopStackMisuseKnown
<1> QED
  BY <1>3, <1>4, <1>5, PTL DEF Spec

\* `continue i' and `break i' without an error jump to the i-th loop around them.
THEOREM JumpsLeave == Spec => JumpsLeaveTheirLoop
<1> DEFINE Leaves(i) ==
       /\ AddContinue(i) => JumpTo([j \in DOMAIN frames |-> frames[j].id], i)
       /\ AddBreak(i)    => JumpTo([j \in DOMAIN frames |-> frames[j].id + 1], i)
<1>1. ASSUME StackInv, NEW i \in Levels, i > 0, ~has_encountered_error' PROVE Leaves(i)
  <2>1. i \in Nat \ {0}
    BY <1>1, LevelsAssumption
  <2>2. ASSUME NEW t, tokens' = Append(tokens, t) PROVE tokens'[Len(tokens')] = t
    <3>1. tokens \in Seq([op : Operations, id : Int, by : Reasons])
      BY <1>1 DEF StackInv, TypeInv, TypeOK, TokensTypeOK
    <3> QED
      BY <2>2, <3>1
  <2>3. ASSUME AddContinue(i)
        PROVE  JumpTo([j \in DOMAIN frames |-> frames[j].id], i)
    <3>1. state \notin Faults /\ ~has_encountered_error /\ ~TooDeep(i)
      BY <1>1, <2>3 DEF AddContinue, JumpOut, AtItem, IssueError, Faults
    <3>2. LoopIndex(i) \in DOMAIN repeat_stack
      BY <1>1, <2>1, <3>1, LevelFound
    <3>3. tokens' = Append(tokens, Ref("JMP", repeat_stack[LoopIndex(i)], "continue"))
      BY <1>1, <2>3, <3>1, <3>2 DEF AddContinue, JumpOut, Append1, StartOf
    <3>4. tokens'[Len(tokens')].id = repeat_stack[LoopIndex(i)]
      BY <2>2, <3>3 DEF Ref, Token
    <3> QED
      BY <1>1, <2>1, <3>1, <3>4, LevelFound DEF JumpTo
  <2>4. ASSUME AddBreak(i)
        PROVE  JumpTo([j \in DOMAIN frames |-> frames[j].id + 1], i)
    <3>1. state \notin Faults /\ ~has_encountered_error /\ ~TooDeep(i)
      BY <1>1, <2>4 DEF AddBreak, JumpOut, AtItem, IssueError, Faults
    <3>2. LoopIndex(i) \in DOMAIN repeat_stack
      BY <1>1, <2>1, <3>1, LevelFound
    <3>3. tokens' = Append(tokens, Ref("JMP", repeat_stack[LoopIndex(i)] + 1, "break"))
      BY <1>1, <2>4, <3>1, <3>2 DEF AddBreak, JumpOut, Append1, EndOf
    <3>4. tokens'[Len(tokens')].id = repeat_stack[LoopIndex(i)] + 1
      BY <2>2, <3>3 DEF Ref, Token
    <3> QED
      BY <1>1, <2>1, <3>1, <3>4, LevelFound DEF JumpTo
  <2> QED
    BY <2>3, <2>4
<1>2. StackInv => [\A i \in Levels : i > 0 /\ ~has_encountered_error' => Leaves(i)]_vars
  BY <1>1
<1>3. Spec => []StackInv
  BY InitStacks, StacksInductive, PTL DEF Spec
<1>4. [][\A i \in Levels : i > 0 /\ ~has_encountered_error' => Leaves(i)]_vars
        => JumpsLeaveTheirLoop
  BY DEF JumpsLeaveTheirLoop
<1> QED
  BY <1>2, <1>3, <1>4, PTL

-----------------------------------------------------------------------------
(***************************************************************************)
(* What a step does to the table: nothing, a symbol more, a label          *)
(* resolved, or ids taken for a block.                                     *)
(***************************************************************************)
Inserted(key, s) ==
    /\ key \notin DOMAIN symbols /\ s.id = symbol_id
    /\ \/ s.kind = "variable" /\ s.word = TYPE_TOKEN
       \/ s.kind = "label" /\ s.word \in {0, 1}
    /\ symbols' = [k \in DOMAIN symbols \union {key} |-> IF k = key THEN s ELSE symbols[k]]
    /\ symbol_id' = symbol_id + 1
    /\ unresolved_label_counter' =
          unresolved_label_counter + IF s.kind = "label" /\ s.word = 0 THEN 1 ELSE 0

NowResolved(key) ==
    /\ key \in DOMAIN symbols /\ symbols[key].word = 0
    /\ symbols' = [symbols EXCEPT ![key].word = 1]
    /\ unresolved_label_counter' = unresolved_label_counter - 1
    /\ UNCHANGED symbol_id

\* A name get_symbol does not find is not in the table, and neither is its scoped form.
LEMMA NotFound ==
    ASSUME NEW s, NEW name, ~Known(GetSymbol(s, name))
    PROVE  name \notin DOMAIN symbols /\ MakeScopedName(s, name) \notin DOMAIN symbols
BY DEF GetSymbol, Known

\* _add_label reports, resolves or inserts.
LEMMA Noted ==
    ASSUME TypeInv, NEW name, NEW resolved \in BOOLEAN, NoteLabel(name, resolved)
    PROVE  \/ UNCHANGED <<symbols, symbol_id, unresolved_label_counter>> /\ has_encountered_error'
           \/ NowResolved(LabelKey(name))
           \/ Inserted(MakeScopedName(scope, name), NewLabel(resolved, symbol_id))
<1> DEFINE key == LabelKey(name)
<1>1. CASE Known(key) /\ IsResolved(symbols[key])
  BY <1>1 DEF NoteLabel, IssueError
<1>2. CASE Known(key) /\ ~IsResolved(symbols[key])
  BY <1>2 DEF NoteLabel, NowResolved, Known, IsResolved
<1>3. CASE ~Known(key)
  <2>1. MakeScopedName(scope, name) \notin DOMAIN symbols
    BY <1>3, NotFound DEF LabelKey
  <2>2. LET s == NewLabel(resolved, symbol_id) IN
        /\ s.id = symbol_id /\ s.kind = "label" /\ s.word = IF resolved THEN 1 ELSE 0
    BY DEF NewLabel, NewSymbol
  <2>3. /\ SymbolInsert(MakeScopedName(scope, name), NewLabel(resolved, symbol_id))
        /\ unresolved_label_counter' = unresolved_label_counter + Count(resolved)
    BY <1>3 DEF NoteLabel
  <2> QED
    BY <2>1, <2>2, <2>3 DEF Inserted, SymbolInsert, Count
<1> QED
  BY <1>1, <1>2, <1>3

\* What a step does to the ids of symbols and blocks.
LEMMA TableChange ==
    ASSUME TypeInv, Step
    PROVE  \/ /\ UNCHANGED <<symbols, symbol_id, unresolved_label_counter>>
              /\ \/ UNCHANGED frames
                 \/ frames # <<>> /\ frames' = Pop(frames)
                 \/ frames # <<>> /\ \E at \in {"head", "condition", "body"} :
                                        frames' = [frames EXCEPT ![Len(frames)].at = at]
                 \/ frames' = Append(frames, Frame("repeat", NoId, "body"))
           \/ UNCHANGED frames /\ \E key, s : Inserted(key, s)
           \/ UNCHANGED frames /\ \E key : NowResolved(key)
           \/ /\ UNCHANGED <<symbols, unresolved_label_counter>>
              /\ \/ /\ frames' = Append(frames, Frame("repeat", symbol_id, "body"))
                    /\ symbol_id' = symbol_id + 2
                 \/ /\ frames' = Append(frames, Frame("if", symbol_id, "head"))
                    /\ symbol_id' = symbol_id + 1
<1> DEFINE Same == UNCHANGED <<symbols, symbol_id, unresolved_label_counter>>
<1>1. ASSUME NEW name, NEW system, ProgramHead(system, name)
      PROVE  Same /\ UNCHANGED frames
  BY <1>1 DEF ProgramHead
<1>2. ASSUME NEW name, ProcedureHead(name)
      PROVE  UNCHANGED frames /\ (Same \/ \E key, s : Inserted(key, s))
  <2>1. CASE Known(GetSymbol(name, name))
    BY <1>2, <2>1 DEF ProcedureHead
  <2>2. CASE ~Known(GetSymbol(name, name))
    <3>1. name \notin DOMAIN symbols
      BY <2>2, NotFound
    <3> DEFINE s == NewLabel(TRUE, symbol_id)
    <3>2. s.id = symbol_id /\ s.kind = "label" /\ s.word = 1
      BY DEF NewLabel, NewSymbol
    <3>3. UNCHANGED <<frames, unresolved_label_counter>> /\ SymbolInsert(name, s)
      BY <1>2, <2>2 DEF ProcedureHead
    <3>4. unresolved_label_counter \in Int
      BY DEF TypeInv, TypeOK, TableTypeOK
    <3> HIDE DEF s
    <3>5. Inserted(name, s)
      BY <3>1, <3>2, <3>3, <3>4 DEF Inserted, SymbolInsert
    <3> QED
      BY <3>3, <3>5
  <2> QED
    BY <2>1, <2>2
<1>3. ASSUME NEW name, NEW d, AddVariable(name, d)
      PROVE  UNCHANGED frames /\ (Same \/ \E key, s : Inserted(key, s))
  <2> DEFINE key == MakeScopedName(scope, name)
             s == NewSymbol("variable", TYPE_TOKEN, symbol_id, d.elements, d.payload, d.length)
  <2>1. CASE Known(GetSymbol(scope, name))
    BY <1>3, <2>1 DEF AddVariable, parser
  <2>2. CASE ~Known(GetSymbol(scope, name))
    <3>1. key \notin DOMAIN symbols
      BY <2>2, NotFound
    <3>2. s.id = symbol_id /\ s.kind = "variable" /\ s.word = TYPE_TOKEN
      BY DEF NewSymbol
    <3>3. UNCHANGED <<frames, unresolved_label_counter>> /\ SymbolInsert(key, s)
      BY <1>3, <2>2 DEF AddVariable, parser
    <3>4. unresolved_label_counter \in Int
      BY DEF TypeInv, TypeOK, TableTypeOK
    <3> HIDE DEF key, s
    <3>5. Inserted(key, s)
      BY <3>1, <3>2, <3>3, <3>4 DEF Inserted, SymbolInsert
    <3> QED
      BY <3>3, <3>5
  <2> QED
    BY <2>1, <2>2
<1>4. ASSUME NEW name, NEW op, AddLabel(name) \/ Jump(op, name)
      PROVE  UNCHANGED frames /\ (Same \/ (\E key : NowResolved(key))
                                       \/ (\E key, s : Inserted(key, s)))
  <2>1. UNCHANGED frames
    BY <1>4 DEF AddLabel, Jump, parser
  <2>2. NoteLabel(name, TRUE) \/ NoteLabel(name, FALSE) \/ Same
    BY <1>4 DEF AddLabel, Jump
  <2> QED
    BY <2>1, <2>2, Noted
<1>5. ASSUME NEW name, NEW op, Operand(op, name) \/ Offset(name) \/ AddExit(name)
      PROVE  Same /\ UNCHANGED frames
  BY <1>5 DEF Operand, Offset, AddExit, parser, table
<1>6. ASSUME NEW name, NEW literals, AddFastcall(name, literals)
      PROVE  Same /\ UNCHANGED frames
  BY <1>6 DEF AddFastcall, parser, table
<1>7. ASSUME NEW i, Address(i) \/ AddContinue(i) \/ AddBreak(i) \/ DumpVariable(i)
      PROVE  Same /\ UNCHANGED frames
  BY <1>7 DEF Address, AddContinue, AddBreak, DumpVariable, JumpOut, parser, table
<1>8. ASSUME Begin \/ EndUnit \/ FinHla \/ UnknownSymbol \/ Abort \/ Instruction \/ EndDump
      PROVE  Same /\ UNCHANGED frames
  BY <1>8 DEF Begin, EndUnit, FinHla, UnknownSymbol, Abort, Instruction, EndDump, parser, table
<1>9. ASSUME SyntaxError \/ FinRepeat \/ FinIf
      PROVE  Same /\ (UNCHANGED frames \/ (frames # <<>> /\ frames' = Pop(frames)))
  BY <1>9 DEF SyntaxError, InHeader, FinRepeat, FinIf, Top, table
<1>10. ASSUME AddLogic \/ Then
       PROVE  /\ Same /\ frames # <<>>
              /\ \E at \in {"head", "condition", "body"} :
                    frames' = [frames EXCEPT ![Len(frames)].at = at]
  BY <1>10 DEF AddLogic, Then, Top, table
<1>11. ASSUME AddRepeat
       PROVE  \/ Same /\ frames' = Append(frames, Frame("repeat", NoId, "body"))
              \/ /\ UNCHANGED <<symbols, unresolved_label_counter>>
                 /\ frames' = Append(frames, Frame("repeat", symbol_id, "body"))
                 /\ symbol_id' = symbol_id + 2
  BY <1>11 DEF AddRepeat, LoopIds
<1>12. ASSUME AddIf
       PROVE  /\ UNCHANGED <<symbols, unresolved_label_counter>>
              /\ frames' = Append(frames, Frame("if", symbol_id, "head"))
              /\ symbol_id' = symbol_id + 1
  BY <1>12 DEF AddIf
<1> QED
  BY <1>1, <1>2, <1>3, <1>4, <1>5, <1>6, <1>7, <1>8, <1>9, <1>10, <1>11, <1>12 DEF Step

-----------------------------------------------------------------------------
(***************************************************************************)
(* Ids.                                                                    *)
(***************************************************************************)
\* The ids in use are below symbol_id, and each is in use once.
IdsInUse(syms, fs, next) ==
    /\ \A k \in DOMAIN syms : syms[k].id \in 1 .. next - 1
    /\ \A k, l \in DOMAIN syms : syms[k].id = syms[l].id => k = l
    /\ \A j \in 1 .. Len(fs) :
          /\ IdsOf(fs[j]) \subseteq 1 .. next - 1
          /\ \A k \in DOMAIN syms : syms[k].id \notin IdsOf(fs[j])
          /\ \A i \in 1 .. Len(fs) : i # j => IdsOf(fs[i]) \intersect IdsOf(fs[j]) = {}

LEMMA IdsDistinctIs ==
    ASSUME frames \in Frames
    PROVE  IdsDistinct <=> IdsInUse(symbols, frames, symbol_id)
<1>1. DOMAIN frames = 1 .. Len(frames)
  BY LenProperties DEF Frames
<1> QED
  BY <1>1 DEF IdsDistinct, IdsInUse

LEMMA Below ==
    ASSUME NEW a \in Nat, NEW b \in Nat, a <= b
    PROVE  1 .. a - 1 \subseteq 1 .. b - 1 /\ 0 .. a - 1 \subseteq 0 .. b - 1
OBVIOUS

\* A step keeps the ids in use apart.
LEMMA IdsKept ==
    ASSUME TypeInv, Step, IdsInUse(symbols, frames, symbol_id)
    PROVE  IdsInUse(symbols, frames, symbol_id)'
<1> DEFINE n == Len(frames)
<1>1. /\ frames \in Frames /\ n \in Nat /\ symbol_id \in Nat \ {0}
      /\ frames' \in Frames /\ frames # <<>> => n \in 1 .. n
      /\ \A k \in DOMAIN symbols : symbols[k].id \in Nat
  BY ParserTyped, LenProperties, Topmost
  DEF TypeInv, TypeOK, ParserTypeOK, TableTypeOK, Frames, Symbol
<1>a. symbol_id \in Nat \ {0} /\ n \in Nat
  BY <1>1
<1>2. CASE UNCHANGED <<symbols, symbol_id>> /\ UNCHANGED frames
  BY <1>2 DEF IdsInUse
<1>3. CASE /\ UNCHANGED <<symbols, symbol_id>>
           /\ frames # <<>> /\ frames' = Pop(frames)
  <2>1. Len(frames') = n - 1 /\ \A i \in 1 .. n - 1 : frames'[i] = frames[i]
    BY <1>1, <1>3, Popping DEF Frames
  <2>2. 1 .. n - 1 \subseteq 1 .. n
    BY <1>a
  <2>3. /\ UNCHANGED <<symbols, symbol_id>> /\ Len(frames') = n - 1
        /\ \A i \in 1 .. n - 1 : frames'[i] = frames[i] /\ i \in 1 .. n
    BY <1>3, <2>1, <2>2
  <2> HIDE DEF n
  <2>4. IdsInUse(symbols, frames, symbol_id) /\ n = Len(frames)
    BY DEF n
  <2> QED
    BY <2>3, <2>4 DEF IdsInUse
<1>4. ASSUME UNCHANGED <<symbols, symbol_id>>, frames # <<>>,
             NEW at \in {"head", "condition", "body"},
             frames' = [frames EXCEPT ![Len(frames)].at = at]
      PROVE  IdsInUse(symbols, frames, symbol_id)'
  <2>1. /\ Len(frames') = n
        /\ \A i \in 1 .. n : frames'[i].kind = frames[i].kind /\ frames'[i].id = frames[i].id
    BY <1>1, <1>4, Marking
  <2>2. \A i \in 1 .. n : IdsOf(frames'[i]) = IdsOf(frames[i])
    BY <2>1 DEF IdsOf
  <2> QED
    BY <1>4, <2>1, <2>2 DEF IdsInUse
<1>5. ASSUME NEW f, frames' = Append(frames, f), UNCHANGED symbols,
             symbol_id' \in Nat, symbol_id <= symbol_id',
             IdsOf(f) \subseteq symbol_id .. symbol_id' - 1
      PROVE  IdsInUse(symbols, frames, symbol_id)'
  <2>1. /\ Len(frames') = n + 1 /\ frames'[n + 1] = f
        /\ \A i \in 1 .. n : frames'[i] = frames[i]
    BY <1>1, <1>5 DEF Frames
  <2>2. \A i \in 1 .. n + 1 : i \in 1 .. n \/ i = n + 1
    BY <1>1
  <2> HIDE DEF n
  <2>3. 1 .. symbol_id - 1 \subseteq 1 .. symbol_id' - 1
    <3>1. symbol_id' \in Nat /\ symbol_id <= symbol_id'
      BY <1>5
    <3> QED
      BY <1>a, <3>1, Below
  <2>4. IdsOf(f) \subseteq 1 .. symbol_id' - 1 /\ IdsOf(f) \intersect 1 .. symbol_id - 1 = {}
    BY <1>1, <1>5
  <2>5. /\ \A k \in DOMAIN symbols : symbols[k].id \in 1 .. symbol_id - 1
        /\ \A j \in 1 .. n : IdsOf(frames[j]) \subseteq 1 .. symbol_id - 1
    BY DEF IdsInUse, n
  <2>6. \A j \in 1 .. n + 1 :
          /\ IdsOf(frames'[j]) \subseteq 1 .. symbol_id' - 1
          /\ \A k \in DOMAIN symbols : symbols[k].id \notin IdsOf(frames'[j])
    BY <2>1, <2>2, <2>3, <2>4, <2>5 DEF IdsInUse, n
  <2>7. \A i, j \in 1 .. n + 1 : i # j => IdsOf(frames'[i]) \intersect IdsOf(frames'[j]) = {}
    BY <2>1, <2>2, <2>4, <2>5 DEF IdsInUse, n
  <2>8. \A k \in DOMAIN symbols : symbols[k].id \in 1 .. symbol_id' - 1
    BY <2>3, <2>5
  <2> QED
    BY <1>5, <2>1, <2>6, <2>7, <2>8 DEF IdsInUse
<1>6. ASSUME NEW key, NEW s, Inserted(key, s), UNCHANGED frames
      PROVE  IdsInUse(symbols, frames, symbol_id)'
  <2>1. /\ symbol_id' = symbol_id + 1 /\ key \notin DOMAIN symbols
        /\ DOMAIN symbols' = DOMAIN symbols \union {key}
        /\ symbols'[key].id = symbol_id
        /\ \A k \in DOMAIN symbols : symbols'[k] = symbols[k]
    BY <1>6 DEF Inserted
  <2>2. \A j \in 1 .. n : symbol_id \notin IdsOf(frames[j])
                         /\ IdsOf(frames[j]) \subseteq 1 .. symbol_id' - 1
    <3>1. \A j \in 1 .. n : IdsOf(frames[j]) \subseteq 1 .. symbol_id - 1
      BY DEF IdsInUse
    <3>2. symbol_id \notin 1 .. symbol_id - 1 /\ 1 .. symbol_id - 1 \subseteq 1 .. symbol_id' - 1
      BY <1>a, <2>1
    <3> HIDE DEF n
    <3> QED
      BY <3>1, <3>2
  <2>3. \A k \in DOMAIN symbols : symbols[k].id # symbol_id /\ symbols[k].id \in 1 .. symbol_id' - 1
    BY <1>a, <2>1 DEF IdsInUse
  <2>4. symbol_id \in 1 .. symbol_id' - 1
    BY <1>1, <2>1
  <2> QED
    BY <1>6, <2>1, <2>2, <2>3, <2>4 DEF IdsInUse
<1>7. ASSUME NEW key, NowResolved(key), UNCHANGED frames
      PROVE  IdsInUse(symbols, frames, symbol_id)'
  <2>1. /\ DOMAIN symbols' = DOMAIN symbols /\ symbol_id' = symbol_id
        /\ \A k \in DOMAIN symbols : symbols'[k].id = symbols[k].id
    <3>1. \A k \in DOMAIN symbols : symbols[k] \in Symbol
      BY DEF TypeInv, TypeOK, TableTypeOK
    <3> QED
      BY <1>7, <3>1 DEF NowResolved, Symbol
  <2> QED
    BY <1>7, <2>1 DEF IdsInUse
<1>8. IdsOf(Frame("repeat", NoId, "body")) = {}
  BY DEF IdsOf, Frame, NoId
<1>9. /\ IdsOf(Frame("repeat", symbol_id, "body")) \subseteq symbol_id .. symbol_id + 1
      /\ IdsOf(Frame("if", symbol_id, "head")) \subseteq symbol_id .. symbol_id
  BY <1>1 DEF IdsOf, Frame, NoId
<1>10. CASE UNCHANGED <<symbols, symbol_id>> /\ frames' = Append(frames, Frame("repeat", NoId, "body"))
  BY <1>1, <1>5, <1>8, <1>10
<1>11. CASE /\ UNCHANGED symbols /\ symbol_id' = symbol_id + 2
            /\ frames' = Append(frames, Frame("repeat", symbol_id, "body"))
  BY <1>1, <1>5, <1>9, <1>11
<1>12. CASE /\ UNCHANGED symbols /\ symbol_id' = symbol_id + 1
            /\ frames' = Append(frames, Frame("if", symbol_id, "head"))
  BY <1>1, <1>5, <1>9, <1>12
<1> QED
  BY <1>2, <1>3, <1>4, <1>6, <1>7, <1>10, <1>11, <1>12, TableChange

-----------------------------------------------------------------------------
(***************************************************************************)
(* Labels that were jumped to and not declared so far.                     *)
(***************************************************************************)
\* The table is finite, and its words tell labels and variables apart.
Worded ==
    /\ IsFiniteSet(DOMAIN symbols)
    /\ \A k \in DOMAIN symbols :
          \/ symbols[k].kind = "variable" /\ symbols[k].word = TYPE_TOKEN
          \/ symbols[k].kind = "label" /\ symbols[k].word \in {0, 1}

\* What a resolved label is, and that the other entries are the same.
LEMMA NowResolvedIs ==
    ASSUME TypeInv, NEW key, NowResolved(key)
    PROVE  /\ DOMAIN symbols' = DOMAIN symbols
           /\ \A k \in DOMAIN symbols :
                 /\ symbols'[k].id = symbols[k].id /\ symbols'[k].kind = symbols[k].kind
                 /\ symbols'[k].word = IF k = key THEN 1 ELSE symbols[k].word
<1>1. \A k \in DOMAIN symbols : symbols[k] \in Symbol
  BY DEF TypeInv, TypeOK, TableTypeOK
<1> QED
  BY <1>1 DEF NowResolved, Symbol

\* What an entry added is.
LEMMA InsertedIs ==
    ASSUME NEW key, NEW s, Inserted(key, s)
    PROVE  /\ DOMAIN symbols' = DOMAIN symbols \union {key} /\ key \notin DOMAIN symbols
           /\ symbols'[key] = s
           /\ \A k \in DOMAIN symbols : symbols'[k] = symbols[k]
BY DEF Inserted

LEMMA WordedKept ==
    ASSUME TypeInv, Worded, Step
    PROVE  Worded'
<1>1. ASSUME NEW key, NEW s, Inserted(key, s) PROVE Worded'
  <2>a. /\ DOMAIN symbols' = DOMAIN symbols \union {key}
        /\ symbols'[key] = s /\ \A k \in DOMAIN symbols : symbols'[k] = symbols[k]
    BY <1>1, InsertedIs
  <2>1. IsFiniteSet(DOMAIN symbols')
    BY <2>a, FS_AddElement DEF Worded
  <2>2. \/ s.kind = "variable" /\ s.word = TYPE_TOKEN
        \/ s.kind = "label" /\ s.word \in {0, 1}
    BY <1>1 DEF Inserted
  <2> QED
    BY <2>a, <2>1, <2>2 DEF Worded
<1>2. ASSUME NEW key, NowResolved(key) PROVE Worded'
  <2>1. symbols[key].kind = "label" /\ key \in DOMAIN symbols
    BY <1>2 DEF NowResolved, Worded, TYPE_TOKEN
  <2> QED
    BY <1>2, <2>1, NowResolvedIs DEF Worded
<1>3. ASSUME UNCHANGED symbols PROVE Worded'
  BY <1>3 DEF Worded
<1> QED
  BY <1>1, <1>2, <1>3, TableChange

\* A step keeps the count of the labels that are not resolved.
LEMMA CountKept ==
    ASSUME TypeInv, Worded, UnresolvedCounted, Step
    PROVE  UnresolvedCounted'
<1>1. /\ IsFiniteSet(Unresolved) /\ Cardinality(Unresolved) \in Nat
      /\ unresolved_label_counter = Cardinality(Unresolved)
  <2>1. Unresolved \subseteq DOMAIN symbols
    BY DEF Unresolved
  <2> QED
    BY <2>1, FS_Subset, FS_CardinalityType DEF Worded, UnresolvedCounted
<1>2. ASSUME NEW key, NEW s, Inserted(key, s) PROVE UnresolvedCounted'
  <2>a. /\ DOMAIN symbols' = DOMAIN symbols \union {key} /\ key \notin DOMAIN symbols
        /\ symbols'[key] = s /\ \A k \in DOMAIN symbols : symbols'[k] = symbols[k]
    BY <1>2, InsertedIs
  <2>1. CASE s.kind = "label" /\ s.word = 0
    <3>1. Unresolved' = Unresolved \union {key} /\ key \notin Unresolved
      BY <2>a, <2>1 DEF Unresolved, IsResolved
    <3>2. unresolved_label_counter' = unresolved_label_counter + 1
      BY <1>2, <2>1 DEF Inserted
    <3>3. Cardinality(Unresolved \union {key}) = Cardinality(Unresolved) + 1
      BY <1>1, <3>1, FS_AddElement
    <3> QED
      BY <1>1, <3>1, <3>2, <3>3 DEF UnresolvedCounted
  <2>2. CASE ~(s.kind = "label" /\ s.word = 0)
    <3>1. Unresolved' = Unresolved
      BY <2>a, <2>2 DEF Unresolved, IsResolved
    <3>2. unresolved_label_counter' = unresolved_label_counter
      BY <1>1, <1>2, <2>2 DEF Inserted
    <3> QED
      BY <1>1, <3>1, <3>2 DEF UnresolvedCounted
  <2> QED
    BY <2>1, <2>2
<1>3. ASSUME NEW key, NowResolved(key) PROVE UnresolvedCounted'
  <2>1. key \in DOMAIN symbols /\ symbols[key].word = 0 /\ symbols[key].kind = "label"
    BY <1>3 DEF NowResolved, Worded, TYPE_TOKEN
  <2>2. Unresolved' = Unresolved \ {key} /\ key \in Unresolved
    BY <1>3, <2>1, NowResolvedIs DEF Unresolved, IsResolved
  <2>3. Cardinality(Unresolved \ {key}) = Cardinality(Unresolved) - 1
    BY <1>1, <2>2, FS_RemoveElement
  <2>4. unresolved_label_counter' = unresolved_label_counter - 1
    BY <1>3 DEF NowResolved
  <2> QED
    BY <1>1, <2>2, <2>3, <2>4 DEF UnresolvedCounted
<1>4. ASSUME UNCHANGED <<symbols, unresolved_label_counter>> PROVE UnresolvedCounted'
  BY <1>4 DEF UnresolvedCounted, Unresolved
<1> QED
  BY <1>2, <1>3, <1>4, TableChange

-----------------------------------------------------------------------------
TableInv ==
    StackInv /\ Worded /\ UnresolvedCounted /\ IdsInUse(symbols, frames, symbol_id)

LEMMA InitTable == Init => TableInv
<1> SUFFICES ASSUME Init PROVE TableInv
  OBVIOUS
<1>1. symbols = <<>> /\ DOMAIN symbols = {} /\ frames = <<>> /\ Len(frames) = 0
  BY DEF Init, NULL
<1>2. Worded /\ Unresolved = {}
  BY <1>1, FS_EmptySet DEF Worded, Unresolved
<1>3. UnresolvedCounted
  BY <1>2, FS_EmptySet DEF UnresolvedCounted, Init
<1>4. IdsInUse(symbols, frames, symbol_id)
  BY <1>1 DEF IdsInUse
<1> QED
  BY <1>2, <1>3, <1>4, InitStacks DEF TableInv

LEMMA TableInductive == TableInv /\ [Next]_vars => TableInv'
<1>1. ASSUME TableInv, Step PROVE TableInv'
  <2>1. TypeInv /\ StackInv'
    BY <1>1, StacksInductive DEF TableInv, StackInv, Next
  <2> QED
    BY <1>1, <2>1, IdsKept, WordedKept, CountKept DEF TableInv
<1>2. ASSUME TableInv, UNCHANGED vars PROVE TableInv'
  <2>1. StackInv'
    BY <1>2, StacksInductive DEF TableInv
  <2>2. UNCHANGED <<symbols, frames, symbol_id, unresolved_label_counter>>
    BY <1>2 DEF vars, parser, table
  <2>3. (Worded /\ UnresolvedCounted /\ IdsInUse(symbols, frames, symbol_id))'
    BY <1>2, <2>2 DEF TableInv, Worded, UnresolvedCounted, Unresolved, IdsInUse
  <2> QED
    BY <2>1, <2>3 DEF TableInv
<1> QED
  BY <1>1, <1>2 DEF Next, Halted

\* No two symbols and open blocks ever share an id, whatever was reported (symbol_id, in
\* _add_variable, _add_label, add_procedure, add_repeat and add_if).
THEOREM IdsAreDistinct == Spec => []IdsDistinct
<1>1. TableInv => IdsDistinct
  BY IdsDistinctIs DEF TableInv, StackInv, TypeInv, TypeOK, ParserTypeOK
<1> QED
  BY <1>1, InitTable, TableInductive, PTL DEF Spec

\* unresolved_label_counter is the number of labels that were jumped to and not declared,
\* after any sequence of jumps, labels and errors (_add_label).
THEOREM UnresolvedAreCounted == Spec => []UnresolvedCounted
<1>1. TableInv => UnresolvedCounted
  BY DEF TableInv
<1> QED
  BY <1>1, InitTable, TableInductive, PTL DEF Spec

-----------------------------------------------------------------------------
(***************************************************************************)
(* Places.  `d' is given a place by a step if exactly one of the tokens it *)
(* appends is a definition, that of `d'.                                   *)
(***************************************************************************)
IsDef(token) == token.op = "ASMDIRMEM"

\* The ids that have a place.
Places(ts) == {ts[i].id : i \in {j \in DOMAIN ts : IsDef(ts[j])}}

OnePlaceEach ==
    \A i, j \in DOMAIN tokens :
        IsDef(tokens[i]) /\ IsDef(tokens[j]) /\ tokens[i].id = tokens[j].id => i = j

Grown ==
    /\ DOMAIN tokens \subseteq DOMAIN tokens'
    /\ \A i \in DOMAIN tokens : tokens'[i] = tokens[i]

NoPlace ==
    /\ Grown
    /\ Places(tokens') = Places(tokens)
    /\ OnePlaceEach => OnePlaceEach'

PlaceFor(d) ==
    /\ Grown
    /\ Places(tokens') = Places(tokens) \union {d}
    /\ OnePlaceEach /\ d \notin Places(tokens) => OnePlaceEach'

\* What Append makes of the tokens.
LEMMA Appended1 ==
    ASSUME TypeInv, NEW t, Append1(t)
    PROVE  LET n == Len(tokens) IN
           /\ n \in Nat /\ DOMAIN tokens = 1 .. n /\ DOMAIN tokens' = 1 .. n + 1
           /\ tokens'[n + 1] = t /\ \A i \in 1 .. n : tokens'[i] = tokens[i]
BY DEF Append1, TypeInv, TypeOK, TokensTypeOK

LEMMA Appended2 ==
    ASSUME TypeInv, NEW t, NEW u, Append2(t, u)
    PROVE  LET n == Len(tokens) IN
           /\ n \in Nat /\ DOMAIN tokens = 1 .. n /\ DOMAIN tokens' = 1 .. n + 2
           /\ tokens'[n + 1] = t /\ tokens'[n + 2] = u
           /\ \A i \in 1 .. n : tokens'[i] = tokens[i]
BY DEF Append2, TypeInv, TypeOK, TokensTypeOK

\* The new tokens are those at `new', of which one at most is a definition.
LEMMA Placing ==
    ASSUME NEW n \in Nat, NEW m \in Nat, n <= m, NEW p \in n + 1 .. m,
           DOMAIN tokens = 1 .. n, DOMAIN tokens' = 1 .. m,
           \A i \in 1 .. n : tokens'[i] = tokens[i],
           \A i \in n + 1 .. m : IsDef(tokens'[i]) <=> i = p
    PROVE  PlaceFor(tokens'[p].id)
<1>1. 1 .. n \subseteq 1 .. m /\ p \in 1 .. m /\ \A i \in 1 .. m : i \in 1 .. n \/ i \in n + 1 .. m
  OBVIOUS
<1>2. Grown
  BY <1>1 DEF Grown
<1>3. Places(tokens') = Places(tokens) \union {tokens'[p].id}
  BY <1>1 DEF Places
<1>4. ASSUME OnePlaceEach, tokens'[p].id \notin Places(tokens) PROVE OnePlaceEach'
  <2> SUFFICES ASSUME NEW i \in 1 .. m, NEW j \in 1 .. m, IsDef(tokens'[i]), IsDef(tokens'[j]),
                      tokens'[i].id = tokens'[j].id
               PROVE  i = j
    BY DEF OnePlaceEach, IsDef
  <2>1. (i \in 1 .. n \/ i = p) /\ (j \in 1 .. n \/ j = p)
    BY <1>1
  <2> QED
    BY <1>4, <2>1 DEF OnePlaceEach, Places
<1> QED
  BY <1>2, <1>3, <1>4 DEF PlaceFor

LEMMA NotPlacing ==
    ASSUME NEW n \in Nat, NEW m \in Nat, n <= m,
           DOMAIN tokens = 1 .. n, DOMAIN tokens' = 1 .. m,
           \A i \in 1 .. n : tokens'[i] = tokens[i],
           \A i \in n + 1 .. m : ~IsDef(tokens'[i])
    PROVE  NoPlace
<1>1. 1 .. n \subseteq 1 .. m /\ \A i \in 1 .. m : i \in 1 .. n \/ i \in n + 1 .. m
  OBVIOUS
<1>2. Grown
  BY <1>1 DEF Grown
<1>3. Places(tokens') = Places(tokens)
  BY <1>1 DEF Places
<1>4. OnePlaceEach => OnePlaceEach'
  BY <1>1 DEF OnePlaceEach, IsDef
<1> QED
  BY <1>2, <1>3, <1>4 DEF NoPlace

LEMMA AppendsOther ==
    ASSUME TypeInv, NEW t, Append1(t), ~IsDef(t)
    PROVE  NoPlace
<1> DEFINE n == Len(tokens)
<1>1. /\ n \in Nat /\ DOMAIN tokens = 1 .. n /\ DOMAIN tokens' = 1 .. n + 1
      /\ tokens'[n + 1] = t /\ \A i \in 1 .. n : tokens'[i] = tokens[i]
  BY Appended1
<1> HIDE DEF n
<1>2. \A i \in n + 1 .. n + 1 : i = n + 1
  BY <1>1
<1> QED
  BY <1>1, <1>2, NotPlacing

LEMMA AppendsDef ==
    ASSUME TypeInv, NEW id, NEW by, Append1(Def(id, by))
    PROVE  PlaceFor(id)
<1> DEFINE n == Len(tokens)
<1>1. /\ n \in Nat /\ DOMAIN tokens = 1 .. n /\ DOMAIN tokens' = 1 .. n + 1
      /\ tokens'[n + 1] = Def(id, by) /\ \A i \in 1 .. n : tokens'[i] = tokens[i]
  BY Appended1
<1> HIDE DEF n
<1>2. (\A i \in n + 1 .. n + 1 : i = n + 1) /\ n + 1 \in n + 1 .. n + 1 /\ n + 1 \in Nat /\ n <= n + 1
  BY <1>1
<1>3. IsDef(tokens'[n + 1]) /\ tokens'[n + 1].id = id
  BY <1>1 DEF IsDef, Def, Token
<1>4. PlaceFor(tokens'[n + 1].id)
  BY <1>1, <1>2, <1>3, Placing
<1> QED
  BY <1>3, <1>4

LEMMA AppendsTwoOthers ==
    ASSUME TypeInv, NEW t, NEW u, Append2(t, u), ~IsDef(t), ~IsDef(u)
    PROVE  NoPlace
<1> DEFINE n == Len(tokens)
<1>1. /\ n \in Nat /\ DOMAIN tokens = 1 .. n /\ DOMAIN tokens' = 1 .. n + 2
      /\ tokens'[n + 1] = t /\ tokens'[n + 2] = u /\ \A i \in 1 .. n : tokens'[i] = tokens[i]
  BY Appended2
<1> HIDE DEF n
<1>2. \A i \in n + 1 .. n + 2 : i = n + 1 \/ i = n + 2
  BY <1>1
<1>3. n + 2 \in Nat /\ n <= n + 2
  BY <1>1
<1> QED
  BY <1>1, <1>2, <1>3, NotPlacing

LEMMA AppendsDefAndOther ==
    ASSUME TypeInv, NEW t, NEW u, Append2(t, u), NEW id, NEW by,
           \/ t = Def(id, by) /\ ~IsDef(u)
           \/ u = Def(id, by) /\ ~IsDef(t)
    PROVE  PlaceFor(id)
<1> DEFINE n == Len(tokens)
<1>1. /\ n \in Nat /\ DOMAIN tokens = 1 .. n /\ DOMAIN tokens' = 1 .. n + 2
      /\ tokens'[n + 1] = t /\ tokens'[n + 2] = u /\ \A i \in 1 .. n : tokens'[i] = tokens[i]
  BY Appended2
<1> HIDE DEF n
<1>2. \A i \in n + 1 .. n + 2 : i = n + 1 \/ i = n + 2
  BY <1>1
<1>3. /\ n + 2 \in Nat /\ n <= n + 2 /\ n + 1 # n + 2
      /\ n + 1 \in n + 1 .. n + 2 /\ n + 2 \in n + 1 .. n + 2
  BY <1>1
<1>4. IsDef(Def(id, by)) /\ Def(id, by).id = id
  BY DEF IsDef, Def, Token
<1>5. CASE t = Def(id, by) /\ ~IsDef(u)
  <2>1. (\A i \in n + 1 .. n + 2 : IsDef(tokens'[i]) <=> i = n + 1) /\ tokens'[n + 1].id = id
    BY <1>1, <1>2, <1>3, <1>4, <1>5
  <2>2. PlaceFor(tokens'[n + 1].id)
    BY <1>1, <1>3, <2>1, Placing
  <2> QED
    BY <2>1, <2>2
<1>6. CASE u = Def(id, by) /\ ~IsDef(t)
  <2>1. (\A i \in n + 1 .. n + 2 : IsDef(tokens'[i]) <=> i = n + 2) /\ tokens'[n + 2].id = id
    BY <1>1, <1>2, <1>3, <1>4, <1>6
  <2>2. PlaceFor(tokens'[n + 2].id)
    BY <1>1, <1>3, <2>1, Placing
  <2> QED
    BY <2>1, <2>2
<1> QED
  BY <1>5, <1>6

\* The entry on top of the stack of its kind is the innermost block's.
LEMMA TopOfStacks ==
    ASSUME StackInv, state \notin Faults, ~has_encountered_error, frames # <<>>
    PROVE  LET f == frames[Len(frames)] IN
           /\ Len(frames) \in 1 .. Len(frames) /\ f.kind \in {"repeat", "if"} /\ f.id \in Nat
           /\ f.kind = "repeat" => repeat_stack[repeat_stack_empty_top - 1] = f.id
           /\ f.kind = "if" => if_stack[if_stack_empty_top - 1] = f.id
<1>1. /\ frames \in Frames /\ Len(frames) \in 1 .. Len(frames)
      /\ frames[Len(frames)] \in [kind : {"repeat", "if"}, id : Nat,
                                  at : {"head", "condition", "body"}]
      /\ DOMAIN frames = 1 .. Len(frames)
  BY Topmost, LenProperties DEF StackInv, TypeInv, TypeOK, ParserTypeOK, Frames
<1> QED
  BY <1>1 DEF StackInv, StacksMatchFrames

\* What a step does to the places, the table and the blocks, as long as nothing is reported.
TableSame == UNCHANGED <<symbols, symbol_id>>

LEMMA PlaceChange ==
    ASSUME TableInv, Step, ~has_encountered_error'
    PROVE  \/ NoPlace /\ TableSame /\ UNCHANGED <<frames, is_program_found>>
           \/ NoPlace /\ TableSame /\ UNCHANGED is_program_found
              /\ frames # <<>> /\ \E at \in {"head", "condition", "body"} :
                                      frames' = [frames EXCEPT ![Len(frames)].at = at]
           \/ PlaceFor(0) /\ TableSame /\ UNCHANGED frames
              /\ ~is_program_found /\ is_program_found'
           \/ UNCHANGED <<frames, is_program_found>>
              /\ \E key, s : /\ Inserted(key, s)
                              /\ IF s.kind = "label" /\ s.word = 1
                                 THEN PlaceFor(symbol_id) ELSE NoPlace
           \/ UNCHANGED <<frames, is_program_found>>
              /\ \E key : NowResolved(key) /\ (NoPlace \/ PlaceFor(symbols[key].id))
           \/ UNCHANGED <<symbols, is_program_found>>
              /\ \/ /\ frames' = Append(frames, Frame("repeat", symbol_id, "body"))
                    /\ symbol_id' = symbol_id + 2 /\ PlaceFor(symbol_id)
                 \/ /\ frames' = Append(frames, Frame("if", symbol_id, "head"))
                    /\ symbol_id' = symbol_id + 1 /\ NoPlace
           \/ TableSame /\ UNCHANGED is_program_found
              /\ frames # <<>> /\ frames' = Pop(frames)
              /\ LET f == frames[Len(frames)]
                 IN  PlaceFor(IF f.kind = "repeat" THEN f.id + 1 ELSE f.id)
           \/ TableSame /\ UNCHANGED <<frames, is_program_found>>
              /\ \E k \in Variables : ~Dumped(k) /\ PlaceFor(symbols[k].id) /\ Dumped(k)'
<1> TypeInv /\ StackInv
  BY DEF TableInv, StackInv
<1>a. state \notin Faults /\ ~has_encountered_error
  BY StepFrom
<1>b. UNCHANGED tokens => NoPlace
  BY DEF NoPlace, Grown, OnePlaceEach
<1> DEFINE Quiet == NoPlace /\ TableSame /\ UNCHANGED <<frames, is_program_found>>
<1>1. ASSUME NEW name, NEW system, ProgramHead(system, name)
      PROVE  /\ PlaceFor(0) /\ TableSame /\ UNCHANGED frames
             /\ ~is_program_found /\ is_program_found'
  <2>1. Append1(Def(0, "program")) /\ TableSame /\ UNCHANGED frames /\ is_program_found' = TRUE
    BY <1>1 DEF ProgramHead, TableSame
  <2>2. ~is_program_found
    BY <1>1 DEF ProgramHead, ErrorIf
  <2> QED
    BY <2>1, <2>2, AppendsDef
<1>2. ASSUME NEW name, ProcedureHead(name)
      PROVE  /\ UNCHANGED <<frames, is_program_found>>
             /\ \E key, s : /\ Inserted(key, s)
                            /\ IF s.kind = "label" /\ s.word = 1
                               THEN PlaceFor(symbol_id) ELSE NoPlace
  <2> DEFINE s == NewLabel(TRUE, symbol_id)
  <2>1. /\ ~Known(GetSymbol(name, name)) /\ SymbolInsert(name, s)
        /\ Append1(Def(symbol_id, "procedure"))
        /\ UNCHANGED <<frames, is_program_found, unresolved_label_counter>>
    BY <1>2 DEF ProcedureHead, IssueError
  <2>2. s.id = symbol_id /\ s.kind = "label" /\ s.word = 1
    BY DEF NewLabel, NewSymbol
  <2>3. PlaceFor(symbol_id)
    BY <2>1, AppendsDef
  <2>4. name \notin DOMAIN symbols /\ unresolved_label_counter \in Int
    BY <2>1, NotFound DEF TypeInv, TypeOK, TableTypeOK
  <2> HIDE DEF s
  <2>5. Inserted(name, s)
    BY <2>1, <2>2, <2>4 DEF Inserted, SymbolInsert
  <2> QED
    BY <2>1, <2>2, <2>3, <2>5
<1>3. ASSUME NEW name, NEW d, AddVariable(name, d)
      PROVE  /\ UNCHANGED <<frames, is_program_found>>
             /\ \E key, s : /\ Inserted(key, s)
                            /\ IF s.kind = "label" /\ s.word = 1
                               THEN PlaceFor(symbol_id) ELSE NoPlace
  <2> DEFINE key == MakeScopedName(scope, name)
             s == NewSymbol("variable", TYPE_TOKEN, symbol_id, d.elements, d.payload, d.length)
  <2>1. /\ ~Known(GetSymbol(scope, name)) /\ SymbolInsert(key, s)
        /\ UNCHANGED <<frames, is_program_found, unresolved_label_counter, tokens>>
    BY <1>3 DEF AddVariable, IssueError, parser
  <2>2. s.id = symbol_id /\ s.kind = "variable" /\ s.word = TYPE_TOKEN
    BY DEF NewSymbol
  <2>4. key \notin DOMAIN symbols /\ unresolved_label_counter \in Int
    BY <2>1, NotFound DEF TypeInv, TypeOK, TableTypeOK
  <2> HIDE DEF key, s
  <2>5. Inserted(key, s)
    BY <2>1, <2>2, <2>4 DEF Inserted, SymbolInsert
  <2> QED
    BY <1>b, <2>1, <2>2, <2>5
<1>4. ASSUME NEW name, AddLabel(name)
      PROVE  /\ UNCHANGED <<frames, is_program_found>>
             /\ \/ \E key, s : /\ Inserted(key, s)
                               /\ IF s.kind = "label" /\ s.word = 1
                                  THEN PlaceFor(symbol_id) ELSE NoPlace
                \/ \E key : NowResolved(key) /\ PlaceFor(symbols[key].id)
  <2>1. /\ NoteLabel(name, TRUE) /\ Append1(Def(LabelId(name), "label"))
        /\ UNCHANGED <<frames, is_program_found>>
    BY <1>4 DEF AddLabel, parser
  <2>2. PlaceFor(LabelId(name))
    BY <2>1, AppendsDef
  <2>3. CASE NowResolved(LabelKey(name))
    <3>1. LabelId(name) = symbols[LabelKey(name)].id
      BY <2>3 DEF NowResolved, LabelId, Known
    <3> QED
      BY <2>1, <2>2, <2>3, <3>1
  <2>4. CASE ~NowResolved(LabelKey(name))
    <3> DEFINE s == NewLabel(TRUE, symbol_id)
               key == MakeScopedName(scope, name)
    <3>1. Inserted(key, s)
      BY <2>1, <2>4, Noted
    <3>2. ~Known(LabelKey(name))
      BY <2>1, <2>4 DEF NoteLabel, NowResolved, IsResolved, IssueError, Known
    <3>3. LabelId(name) = symbol_id
      BY <3>2 DEF LabelId
    <3>4. s.kind = "label" /\ s.word = 1
      BY DEF NewLabel, NewSymbol
    <3> HIDE DEF s, key
    <3> QED
      BY <2>1, <2>2, <3>1, <3>3, <3>4
  <2> QED
    BY <2>3, <2>4
<1>5. ASSUME NEW op \in {"JMP", "LOOP"}, NEW name, Jump(op, name)
      PROVE  /\ UNCHANGED <<frames, is_program_found>> /\ NoPlace
             /\ \/ TableSame
                \/ \E key, s : Inserted(key, s) /\ s.kind = "label" /\ s.word = 0
                \/ \E key : NowResolved(key)
  <2>1. UNCHANGED <<frames, is_program_found>>
    BY <1>5 DEF Jump, parser
  <2>2. NoPlace
    <3>1. ASSUME NEW id PROVE ~IsDef(Ref(op, id, "relative"))
      BY DEF IsDef, Ref, Token
    <3> QED
      BY <1>5, <3>1, AppendsOther DEF Jump
  <2>3. CASE Known(GetSymbol(scope, name))
    BY <1>5, <2>1, <2>2, <2>3 DEF Jump, TableSame
  <2>4. CASE ~Known(GetSymbol(scope, name))
    <3> DEFINE s == NewLabel(FALSE, symbol_id)
               key == MakeScopedName(scope, name)
    <3>1. NoteLabel(name, FALSE)
      BY <1>5, <2>4 DEF Jump
    <3>2. NowResolved(LabelKey(name)) \/ Inserted(key, s)
      BY <3>1, Noted
    <3>3. s.kind = "label" /\ s.word = 0
      BY DEF NewLabel, NewSymbol
    <3> HIDE DEF s, key
    <3> QED
      BY <2>1, <2>2, <3>2, <3>3
  <2> QED
    BY <2>3, <2>4
<1>6. ASSUME NEW op \in {"MEM", "REL"}, NEW name, Operand(op, name) PROVE Quiet
  <2>1. ASSUME NEW id, NEW by PROVE ~IsDef(Ref(op, id, by))
    BY DEF IsDef, Ref, Token
  <2>2. NoPlace
    BY <1>6, <2>1, AppendsOther DEF Operand
  <2> QED
    BY <1>6, <2>2 DEF Operand, TableSame, parser, table
<1>7. ASSUME NEW name, Offset(name) \/ AddExit(name) PROVE Quiet
  <2>1. ~IsDef(Ref("MEM", UNDECLARED, "offset")) /\ ~IsDef(Token("PLAIN", 0, "exit"))
    BY DEF IsDef, Ref, Token
  <2>2. NoPlace
    BY <1>7, <1>b, <2>1, AppendsOther DEF Offset, AddExit
  <2> QED
    BY <1>7, <2>2 DEF Offset, AddExit, TableSame, parser, table, flags
<1>8. ASSUME NEW name, NEW literals, AddFastcall(name, literals) PROVE Quiet
  <2>1. ASSUME NEW id PROVE ~IsDef(Ref("CALL", id, "fastcall"))
    BY DEF IsDef, Ref, Token
  <2>2. NoPlace
    BY <1>8, <1>b, <2>1, AppendsOther DEF AddFastcall
  <2> QED
    BY <1>8, <2>2 DEF AddFastcall, TableSame, parser, table
<1>9. ASSUME NEW id, Address(id) PROVE Quiet
  <2>1. ~IsDef(Ref("MEM", id, "block"))
    BY DEF IsDef, Ref, Token
  <2>2. NoPlace
    BY <1>9, <2>1, AppendsOther DEF Address
  <2> QED
    BY <1>9, <2>2 DEF Address, TableSame, parser, table, flags
<1>10. ASSUME NEW i, AddContinue(i) \/ AddBreak(i) PROVE Quiet
  <2>1. ASSUME NEW id, NEW by PROVE ~IsDef(Ref("JMP", id, by))
    BY DEF IsDef, Ref, Token
  <2>2. NoPlace
    BY <1>10, <1>b, <2>1, AppendsOther DEF AddContinue, AddBreak, JumpOut
  <2> QED
    BY <1>10, <2>2 DEF AddContinue, AddBreak, JumpOut, TableSame, table
<1>11. ASSUME Begin \/ FinHla \/ EndDump PROVE Quiet
  BY <1>11, <1>b DEF Begin, FinHla, EndDump, TableSame, table, flags
<1>12. ASSUME SyntaxError \/ UnknownSymbol \/ Abort PROVE FALSE
  BY <1>12 DEF SyntaxError, UnknownSymbol, Abort, IssueError
<1>13. ASSUME EndUnit \/ Instruction PROVE Quiet
  <2>1. ~IsDef(Token("RETN", 0, "procedure")) /\ ~IsDef(Token("PLAIN", 0, "instruction"))
    BY DEF IsDef, Token
  <2>2. NoPlace
    BY <1>13, <1>b, <2>1, AppendsOther DEF EndUnit, Instruction
  <2> QED
    BY <1>13, <2>2 DEF EndUnit, Instruction, TableSame, parser, table, flags
<1>14. ASSUME AddRepeat
       PROVE  /\ UNCHANGED <<symbols, is_program_found>>
              /\ frames' = Append(frames, Frame("repeat", symbol_id, "body"))
              /\ symbol_id' = symbol_id + 2 /\ PlaceFor(symbol_id)
  <2>1. /\ UNCHANGED <<symbols, is_program_found>>
        /\ frames' = Append(frames, Frame("repeat", symbol_id, "body"))
        /\ symbol_id' = symbol_id + 2 /\ Append1(Def(symbol_id, "repeat"))
    BY <1>14 DEF AddRepeat, LoopIds, IssueError
  <2> QED
    BY <2>1, AppendsDef
<1>15. ASSUME AddIf
       PROVE  /\ UNCHANGED <<symbols, is_program_found>>
              /\ frames' = Append(frames, Frame("if", symbol_id, "head"))
              /\ symbol_id' = symbol_id + 1 /\ NoPlace
  BY <1>15, <1>b DEF AddIf, flags
<1>16. ASSUME AddLogic \/ Then
       PROVE  /\ NoPlace /\ TableSame /\ UNCHANGED is_program_found
              /\ frames # <<>> /\ \E at \in {"head", "condition", "body"} :
                                      frames' = [frames EXCEPT ![Len(frames)].at = at]
  <2>1. ASSUME NEW id PROVE ~IsDef(Token("CMP", 0, "if")) /\ ~IsDef(Ref("JCC", id, "if"))
    BY DEF IsDef, Ref, Token
  <2>2. NoPlace
    BY <1>16, <1>b, <2>1, AppendsTwoOthers DEF AddLogic, Then
  <2> QED
    BY <1>16, <2>2 DEF AddLogic, Then, Top, TableSame, table, flags
<1>17. ASSUME FinRepeat
       PROVE  /\ TableSame /\ UNCHANGED is_program_found
              /\ frames # <<>> /\ frames' = Pop(frames)
              /\ LET f == frames[Len(frames)]
                 IN  PlaceFor(IF f.kind = "repeat" THEN f.id + 1 ELSE f.id)
  <2>1. /\ TableSame /\ UNCHANGED is_program_found
        /\ frames # <<>> /\ frames' = Pop(frames) /\ frames[Len(frames)].kind = "repeat"
        /\ repeat_stack_empty_top' = repeat_stack_empty_top - 1
    BY <1>17 DEF FinRepeat, Top, TableSame, table, flags, Popped
  <2>2. repeat_stack[repeat_stack_empty_top - 1] = frames[Len(frames)].id
    BY <1>a, <2>1, TopOfStacks
  <2>3. repeat_stack_empty_top - 1 \in DOMAIN repeat_stack
    <3>1. Len(frames) \in 1 .. Len(frames) /\ Len(frames) \in Nat
      BY <2>1, Topmost DEF TypeInv, TypeOK, ParserTypeOK, Frames
    <3>2. Opened(frames, "repeat", Len(frames)) \in Nat \ {0}
      BY <2>1, <3>1, CountsItself
    <3>3. repeat_stack_empty_top \in Nat \ {0}
      BY <1>a, <3>2 DEF StackInv, StacksMatchFrames, Depth
    <3>4. /\ repeat_stack_empty_top \in -1 .. MaxRepeat
          /\ DOMAIN repeat_stack = 0 .. MaxRepeat - 1
      BY DEF TypeInv, TypeOK, StacksTypeOK
    <3> QED
      BY <3>3, <3>4, NestingAssumption
  <2> DEFINE id == frames[Len(frames)].id
  <2>4. Append2(Ref("JMP", id, "repeat"), Def(id + 1, "end repeat"))
    BY <1>17, <2>1, <2>2, <2>3 DEF FinRepeat, EndOf
  <2>5. ~IsDef(Ref("JMP", id, "repeat"))
    BY DEF IsDef, Ref, Token
  <2>6. PlaceFor(id + 1)
    BY <2>4, <2>5, AppendsDefAndOther
  <2> QED
    BY <2>1, <2>6
<1>18. ASSUME FinIf
       PROVE  /\ TableSame /\ UNCHANGED is_program_found
              /\ frames # <<>> /\ frames' = Pop(frames)
              /\ LET f == frames[Len(frames)]
                 IN  PlaceFor(IF f.kind = "repeat" THEN f.id + 1 ELSE f.id)
  <2>1. /\ TableSame /\ UNCHANGED is_program_found
        /\ frames # <<>> /\ frames' = Pop(frames) /\ frames[Len(frames)].kind = "if"
        /\ if_stack_empty_top' = if_stack_empty_top - 1
        /\ Append1(Def(if_stack[if_stack_empty_top'], "end if"))
    BY <1>18 DEF FinIf, Top, TableSame, table, flags, Popped
  <2>2. if_stack[if_stack_empty_top'] = frames[Len(frames)].id
    BY <1>a, <2>1, TopOfStacks
  <2>3. PlaceFor(frames[Len(frames)].id)
    BY <2>1, <2>2, AppendsDef
  <2> QED
    BY <2>1, <2>3
<1>19. ASSUME NEW k, DumpVariable(k)
       PROVE  \/ Quiet
              \/ TableSame /\ UNCHANGED <<frames, is_program_found>>
                 /\ k \in Variables /\ ~Dumped(k) /\ PlaceFor(symbols[k].id) /\ Dumped(k)'
  <2>1. TableSame /\ UNCHANGED <<frames, is_program_found, symbols>> /\ k \in Variables /\ ~Dumped(k)
    BY <1>19 DEF DumpVariable, TableSame, table, flags
  <2>2. CASE Readable(symbols[k])
    <3> DEFINE t == Def(symbols[k].id, "variable")
               u == Token("ASMDIRIMM", symbols[k].elements, symbols[k].payload)
    <3>1. Append2(t, u)
      BY <1>19, <2>2 DEF DumpVariable
    <3>2. ~IsDef(u)
      BY DEF IsDef, Token
    <3>3. PlaceFor(symbols[k].id)
      BY <3>1, <3>2, AppendsDefAndOther
    <3>4. Dumped(k)'
      <4>1. \E i \in DOMAIN tokens' : tokens'[i] = t
        <5> DEFINE n == Len(tokens)
        <5>1. n \in Nat /\ DOMAIN tokens' = 1 .. n + 2 /\ tokens'[n + 1] = t
          BY <3>1, Appended2
        <5> HIDE DEF n, t
        <5>2. n + 1 \in 1 .. n + 2
          BY <5>1
        <5> QED
          BY <5>1, <5>2
      <4> QED
        BY <2>1, <4>1 DEF Dumped
    <3> QED
      BY <2>1, <3>3, <3>4
  <2>3. CASE ~Readable(symbols[k])
    BY <1>19, <1>b, <2>1, <2>3 DEF DumpVariable
  <2> QED
    BY <2>2, <2>3
<1> HIDE DEF Quiet
<1> DEFINE Goal == \/ \E name : \/ \E system : ProgramHead(system, name)
                                 \/ ProcedureHead(name) \/ AddLabel(name)
                                 \/ Offset(name) \/ AddExit(name)
                                 \/ \E literals : AddFastcall(name, literals)
                                 \/ \E d : AddVariable(name, d)
                                 \/ \E op \in {"MEM", "REL"} : Operand(op, name)
                                 \/ \E jump \in {"JMP", "LOOP"} : Jump(jump, name)
                   \/ \E i : Address(i) \/ AddContinue(i) \/ AddBreak(i) \/ DumpVariable(i)
                   \/ Begin \/ FinHla \/ EndDump \/ EndUnit \/ Instruction
                   \/ AddRepeat \/ FinRepeat \/ AddIf \/ AddLogic \/ Then \/ FinIf
<1>20. Goal
  BY <1>12 DEF Step
<1> QED
  BY <1>1, <1>2, <1>3, <1>4, <1>5, <1>6, <1>7, <1>8, <1>9, <1>10, <1>11, <1>13, <1>14, <1>15,
     <1>16, <1>17, <1>18, <1>19, <1>20 DEF Quiet

-----------------------------------------------------------------------------
(***************************************************************************)
(* Every id has one place at most.  What still waits for its place has     *)
(* none: the end of an open block, a label not declared yet, a variable    *)
(* not dumped yet, and every id not taken yet.                             *)
(***************************************************************************)
Awaited(f) == IF f.kind = "repeat" THEN f.id + 1 ELSE f.id

Waiting ==
    /\ \A id \in Places(tokens) : id \in 0 .. symbol_id - 1 /\ (id = 0 => is_program_found)
    /\ \A j \in 1 .. Len(frames) :
          frames[j].id # NoId /\ Awaited(frames[j]) \notin Places(tokens)
    /\ \A k \in Unresolved : symbols[k].id \notin Places(tokens)
    /\ \A k \in Variables : symbols[k].id \in Places(tokens) => Dumped(k)

PlacesInv == ~has_encountered_error => OnePlaceEach /\ Waiting

\* What is dumped stays dumped.
LEMMA StaysDumped ==
    ASSUME Grown, NEW k, Dumped(k), symbols'[k].id = symbols[k].id
    PROVE  Dumped(k)'
BY DEF Dumped, Grown

\* What an open block waits for is one of its ids.
LEMMA AwaitedId ==
    ASSUME NEW f, f.id # NoId, f.kind \in {"repeat", "if"}
    PROVE  Awaited(f) \in IdsOf(f)
BY DEF Awaited, IdsOf

\* A step that gives places to the ids D, for which no symbol waits.
LEMMA WaitingKept ==
    ASSUME Waiting, Grown, NEW D, Places(tokens') = Places(tokens) \union D, UNCHANGED symbols,
           symbol_id \in Nat, symbol_id' \in Nat, symbol_id <= symbol_id',
           D \subseteq 0 .. symbol_id' - 1, 0 \in D => is_program_found',
           is_program_found => is_program_found',
           \A j \in 1 .. Len(frames') :
               frames'[j].id # NoId /\ Awaited(frames'[j]) \notin Places(tokens) \union D,
           \A k \in Unresolved : symbols[k].id \notin D,
           \A k \in Variables : symbols[k].id \in D => Dumped(k)'
    PROVE  Waiting'
<1>1. \A id \in Places(tokens') : id \in 0 .. symbol_id' - 1 /\ (id = 0 => is_program_found')
  <2> TAKE id \in Places(tokens')
  <2>1. CASE id \in Places(tokens)
    <3>1. id \in 0 .. symbol_id - 1 /\ (id = 0 => is_program_found)
      BY <2>1 DEF Waiting
    <3>2. symbol_id \in Nat /\ symbol_id' \in Nat /\ symbol_id <= symbol_id'
      OBVIOUS
    <3> QED
      BY <3>1, <3>2, Below
  <2>2. CASE id \in D
    <3>1. id \in 0 .. symbol_id' - 1
      BY <2>2
    <3> QED
      BY <2>2, <3>1
  <2> QED
    BY <2>1, <2>2
<1>2. \A j \in 1 .. Len(frames') :
          frames'[j].id # NoId /\ Awaited(frames'[j]) \notin Places(tokens')
  OBVIOUS
<1>3. \A k \in Unresolved' : symbols'[k].id \notin Places(tokens')
  BY DEF Waiting, Unresolved
<1>4. \A k \in Variables' : symbols'[k].id \in Places(tokens') => Dumped(k)'
  BY StaysDumped DEF Waiting, Variables
<1> QED
  BY <1>1, <1>2, <1>3, <1>4 DEF Waiting

\* A symbol added, with a place of its own at once if it is a declared label.
LEMMA WaitingInserted ==
    ASSUME Waiting, Grown, NEW key, NEW s, Inserted(key, s), symbol_id \in Nat \ {0},
           IdsInUse(symbols, frames, symbol_id), UNCHANGED <<frames, is_program_found>>,
           \A j \in 1 .. Len(frames) : frames[j].kind \in {"repeat", "if"},
           Places(tokens') = Places(tokens) \union
               IF s.kind = "label" /\ s.word = 1 THEN {symbol_id} ELSE {}
    PROVE  Waiting'
<1>1. symbol_id' = symbol_id + 1 /\ symbol_id \notin Places(tokens)
  BY DEF Waiting, Inserted
<1>2. /\ DOMAIN symbols' = DOMAIN symbols \union {key} /\ symbols'[key] = s /\ s.id = symbol_id
      /\ \A k \in DOMAIN symbols : symbols'[k] = symbols[k] /\ k # key
      /\ \/ s.kind = "variable"
         \/ s.kind = "label" /\ s.word \in {0, 1}
  BY DEF Inserted
<1>3. \A id \in Places(tokens') : id \in 0 .. symbol_id' - 1 /\ (id = 0 => is_program_found')
  BY <1>1 DEF Waiting
<1>4. \A j \in 1 .. Len(frames') :
          frames'[j].id # NoId /\ Awaited(frames'[j]) \notin Places(tokens')
  <2> TAKE j \in 1 .. Len(frames')
  <2>1. frames[j].id # NoId /\ Awaited(frames[j]) \notin Places(tokens)
    BY DEF Waiting
  <2>2. Awaited(frames[j]) \in 1 .. symbol_id - 1
    BY <2>1, AwaitedId DEF IdsInUse
  <2> QED
    BY <2>1, <2>2
<1>5. \A k \in Unresolved' : symbols'[k].id \notin Places(tokens')
  <2> TAKE k \in Unresolved'
  <2>1. CASE k = key
    <3>1. s.kind = "label" /\ s.word = 0
      BY <1>2, <2>1 DEF Unresolved, IsResolved
    <3> QED
      BY <1>1, <1>2, <2>1, <3>1
  <2>2. CASE k # key
    <3>1. k \in Unresolved /\ symbols'[k] = symbols[k] /\ k \in DOMAIN symbols
      BY <1>2, <2>2 DEF Unresolved
    <3>2. symbols[k].id \notin Places(tokens) /\ symbols[k].id # symbol_id
      BY <3>1 DEF Waiting, IdsInUse
    <3> QED
      BY <3>1, <3>2
  <2> QED
    BY <2>1, <2>2
<1>6. \A k \in Variables' : symbols'[k].id \in Places(tokens') => Dumped(k)'
  <2> TAKE k \in Variables'
  <2>1. CASE k = key
    <3>1. s.kind = "variable"
      BY <1>2, <2>1 DEF Variables
    <3> QED
      BY <1>1, <1>2, <2>1, <3>1
  <2>2. CASE k # key
    <3>1. k \in Variables /\ symbols'[k] = symbols[k] /\ k \in DOMAIN symbols
      BY <1>2, <2>2 DEF Variables
    <3>2. symbols[k].id # symbol_id
      BY <3>1 DEF IdsInUse
    <3> QED
      BY <3>1, <3>2, StaysDumped DEF Waiting
  <2> QED
    BY <2>1, <2>2
<1> QED
  BY <1>3, <1>4, <1>5, <1>6 DEF Waiting

\* A label resolved, whether or not its place comes with it.
LEMMA WaitingResolved ==
    ASSUME TypeInv, Worded, Waiting, Grown, NEW key, NowResolved(key), NEW D,
           Places(tokens') = Places(tokens) \union D, D \subseteq {symbols[key].id},
           IdsInUse(symbols, frames, symbol_id), UNCHANGED <<frames, is_program_found>>,
           \A j \in 1 .. Len(frames) : frames[j].kind \in {"repeat", "if"}
    PROVE  Waiting'
<1>1. /\ DOMAIN symbols' = DOMAIN symbols /\ symbol_id' = symbol_id
      /\ \A k \in DOMAIN symbols :
            /\ symbols'[k].id = symbols[k].id /\ symbols'[k].kind = symbols[k].kind
            /\ symbols'[k].word = IF k = key THEN 1 ELSE symbols[k].word
  BY NowResolvedIs DEF NowResolved
<1>2. key \in DOMAIN symbols /\ symbols[key].kind = "label"
  BY DEF NowResolved, Worded, TYPE_TOKEN
<1>3. symbols[key].id \in 1 .. symbol_id - 1 /\ symbol_id \in Nat
  BY <1>2 DEF IdsInUse, TypeInv, TypeOK, TableTypeOK
<1>4. \A id \in Places(tokens') : id \in 0 .. symbol_id' - 1 /\ (id = 0 => is_program_found')
  BY <1>1, <1>3 DEF Waiting
<1>5. \A j \in 1 .. Len(frames') :
          frames'[j].id # NoId /\ Awaited(frames'[j]) \notin Places(tokens')
  <2> TAKE j \in 1 .. Len(frames')
  <2>1. frames[j].id # NoId /\ Awaited(frames[j]) \notin Places(tokens)
    BY DEF Waiting
  <2>2. Awaited(frames[j]) # symbols[key].id
    BY <1>2, <2>1, AwaitedId DEF IdsInUse
  <2> QED
    BY <2>1, <2>2
<1>6. \A k \in Unresolved' : symbols'[k].id \notin Places(tokens')
  <2> TAKE k \in Unresolved'
  <2>1. k \in DOMAIN symbols /\ k # key /\ k \in Unresolved
    BY <1>1 DEF Unresolved, IsResolved
  <2>2. symbols[k].id # symbols[key].id
    BY <1>2, <2>1 DEF IdsInUse
  <2> QED
    BY <1>1, <2>1, <2>2 DEF Waiting
<1>7. \A k \in Variables' : symbols'[k].id \in Places(tokens') => Dumped(k)'
  <2> TAKE k \in Variables'
  <2>1. k \in DOMAIN symbols /\ k # key /\ k \in Variables
    BY <1>1, <1>2 DEF Variables
  <2>2. symbols[k].id # symbols[key].id
    BY <1>2, <2>1 DEF IdsInUse
  <2> QED
    BY <1>1, <2>1, <2>2, StaysDumped DEF Waiting
<1> QED
  BY <1>4, <1>5, <1>6, <1>7 DEF Waiting

\* A step keeps one place for each id, until something is reported.
LEMMA PlacesKept ==
    ASSUME TableInv, PlacesInv, Step
    PROVE  PlacesInv'
<1> SUFFICES ASSUME ~has_encountered_error'
             PROVE  OnePlaceEach' /\ Waiting'
  BY DEF PlacesInv
<1> DEFINE n == Len(frames)
<1>1. /\ OnePlaceEach /\ Waiting /\ Worded /\ TypeInv
      /\ IdsInUse(symbols, frames, symbol_id)
  BY StepFrom DEF PlacesInv, TableInv, StackInv
<1>2. /\ frames \in Frames /\ n \in Nat /\ symbol_id \in Nat \ {0}
      /\ frames # <<>> => n \in 1 .. n
  BY <1>1, LenProperties, Topmost DEF TypeInv, TypeOK, ParserTypeOK, TableTypeOK, Frames
<1>3. \A j \in 1 .. n : frames[j].kind \in {"repeat", "if"} /\ frames[j].id \in Nat
  <2> TAKE j \in 1 .. n
  <2>1. frames[j] \in [kind : {"repeat", "if"}, id : Nat, at : {"head", "condition", "body"}]
    BY <1>2, ElementOfSeq DEF Frames
  <2> QED
    BY <2>1
<1>4. \A j \in 1 .. n : /\ frames[j].id # NoId /\ Awaited(frames[j]) \notin Places(tokens)
                         /\ Awaited(frames[j]) \in IdsOf(frames[j])
                         /\ Awaited(frames[j]) \in 1 .. symbol_id - 1
  <2> TAKE j \in 1 .. n
  <2>1. frames[j].id # NoId /\ Awaited(frames[j]) \notin Places(tokens)
    BY <1>1 DEF Waiting
  <2>2. Awaited(frames[j]) \in IdsOf(frames[j])
    BY <1>3, <2>1, AwaitedId
  <2>3. IdsOf(frames[j]) \subseteq 1 .. symbol_id - 1
    BY <1>1 DEF IdsInUse
  <2> QED
    BY <2>1, <2>2, <2>3
<1>5. \A k \in DOMAIN symbols : symbols[k].id \in 1 .. symbol_id - 1
  BY <1>1 DEF IdsInUse
<1>a. Unresolved \subseteq DOMAIN symbols /\ Variables \subseteq DOMAIN symbols
  BY DEF Unresolved, Variables
<1>b. symbol_id \notin Places(tokens) /\ symbol_id + 1 \notin Places(tokens)
  BY <1>1, <1>2 DEF Waiting
<1> HIDE DEF n
<1>6. CASE NoPlace /\ TableSame /\ UNCHANGED <<frames, is_program_found>>
  <2> DEFINE D == {}
  <2>1. Grown /\ OnePlaceEach' /\ Places(tokens') = Places(tokens) \union D
    BY <1>1, <1>6 DEF NoPlace
  <2>2. UNCHANGED <<symbols, symbol_id, frames, is_program_found>>
    BY <1>6 DEF TableSame
  <2>3. D \subseteq 0 .. symbol_id' - 1 /\ 0 \notin D /\ \A k : symbols[k].id \notin D
    OBVIOUS
  <2>4. symbol_id' \in Nat /\ symbol_id \in Nat /\ symbol_id <= symbol_id'
    BY <1>2, <2>2
  <2>5. \A j \in 1 .. Len(frames') :
           frames'[j].id # NoId /\ Awaited(frames'[j]) \notin Places(tokens) \union D
    BY <1>4, <2>2 DEF n
  <2> HIDE DEF D
  <2> QED
    BY <1>1, <2>1, <2>2, <2>3, <2>4, <2>5, WaitingKept
<1>7. ASSUME NoPlace, TableSame, UNCHANGED is_program_found, frames # <<>>,
             NEW at \in {"head", "condition", "body"},
             frames' = [frames EXCEPT ![Len(frames)].at = at]
      PROVE  OnePlaceEach' /\ Waiting'
  <2>1. /\ Len(frames') = n
        /\ \A i \in 1 .. n : frames'[i].kind = frames[i].kind /\ frames'[i].id = frames[i].id
    BY <1>2, <1>7, Marking DEF n
  <2>2. \A i \in 1 .. n : Awaited(frames'[i]) = Awaited(frames[i])
    BY <2>1 DEF Awaited
  <2> DEFINE D == {}
  <2>3. Grown /\ OnePlaceEach' /\ Places(tokens') = Places(tokens) \union D
    BY <1>1, <1>7 DEF NoPlace
  <2>4. UNCHANGED <<symbols, symbol_id, is_program_found>>
    BY <1>7 DEF TableSame
  <2>5. D \subseteq 0 .. symbol_id' - 1 /\ 0 \notin D /\ \A k : symbols[k].id \notin D
    OBVIOUS
  <2>6. symbol_id' \in Nat /\ symbol_id \in Nat /\ symbol_id <= symbol_id'
    BY <1>2, <2>4
  <2>7. \A j \in 1 .. Len(frames') :
           frames'[j].id # NoId /\ Awaited(frames'[j]) \notin Places(tokens) \union D
    BY <1>4, <2>1, <2>2
  <2> HIDE DEF D
  <2> QED
    BY <1>1, <2>3, <2>4, <2>5, <2>6, <2>7, WaitingKept
<1>8. CASE /\ PlaceFor(0) /\ TableSame /\ UNCHANGED frames
           /\ ~is_program_found /\ is_program_found'
  <2>1. 0 \notin Places(tokens)
    BY <1>1, <1>8 DEF Waiting
  <2>2. \A k \in DOMAIN symbols : symbols[k].id # 0
    BY <1>5
  <2>3. \A j \in 1 .. n : Awaited(frames[j]) # 0
    BY <1>4
  <2> DEFINE D == {0}
  <2>4. Grown /\ OnePlaceEach' /\ Places(tokens') = Places(tokens) \union D
    BY <1>1, <1>8, <2>1 DEF PlaceFor
  <2>5. UNCHANGED <<symbols, symbol_id, frames>> /\ is_program_found'
    BY <1>8 DEF TableSame
  <2>6. symbol_id' \in Nat /\ symbol_id \in Nat /\ symbol_id <= symbol_id'
        /\ D \subseteq 0 .. symbol_id' - 1
    BY <1>2, <2>5
  <2>7. \A k \in DOMAIN symbols : symbols[k].id \notin D
    BY <2>2
  <2>8. \A j \in 1 .. Len(frames') :
           frames'[j].id # NoId /\ Awaited(frames'[j]) \notin Places(tokens) \union D
    BY <1>4, <2>3, <2>5 DEF n
  <2> HIDE DEF D
  <2> QED
    BY <1>1, <1>a, <2>4, <2>5, <2>6, <2>7, <2>8, WaitingKept
<1>9. ASSUME UNCHANGED <<frames, is_program_found>>, NEW key, NEW s, Inserted(key, s),
             IF s.kind = "label" /\ s.word = 1 THEN PlaceFor(symbol_id) ELSE NoPlace
      PROVE  OnePlaceEach' /\ Waiting'
  <2>1. /\ Grown /\ OnePlaceEach'
        /\ Places(tokens') = Places(tokens) \union
               IF s.kind = "label" /\ s.word = 1 THEN {symbol_id} ELSE {}
    BY <1>1, <1>9, <1>b DEF PlaceFor, NoPlace
  <2> QED
    BY <1>1, <1>2, <1>3, <1>9, <2>1, WaitingInserted DEF n
<1>10. ASSUME UNCHANGED <<frames, is_program_found>>, NEW key, NowResolved(key),
              NoPlace \/ PlaceFor(symbols[key].id)
       PROVE  OnePlaceEach' /\ Waiting'
  <2>1. key \in Unresolved
    BY <1>1, <1>10 DEF NowResolved, Worded, TYPE_TOKEN, Unresolved, IsResolved
  <2>2. symbols[key].id \notin Places(tokens)
    BY <1>1, <2>1 DEF Waiting
  <2>3. CASE NoPlace
    <3> DEFINE D == {}
    <3>1. Grown /\ OnePlaceEach' /\ Places(tokens') = Places(tokens) \union D
          /\ D \subseteq {symbols[key].id}
      BY <1>1, <2>3 DEF NoPlace
    <3>2. \A j \in 1 .. Len(frames) : frames[j].kind \in {"repeat", "if"}
      BY <1>3 DEF n
    <3> HIDE DEF D
    <3> QED
      BY <1>1, <1>10, <3>1, <3>2, WaitingResolved
  <2>4. CASE PlaceFor(symbols[key].id)
    <3> DEFINE D == {symbols[key].id}
    <3>1. Grown /\ OnePlaceEach' /\ Places(tokens') = Places(tokens) \union D
          /\ D \subseteq {symbols[key].id}
      BY <1>1, <2>2, <2>4 DEF PlaceFor
    <3>2. \A j \in 1 .. Len(frames) : frames[j].kind \in {"repeat", "if"}
      BY <1>3 DEF n
    <3> HIDE DEF D
    <3> QED
      BY <1>1, <1>10, <3>1, <3>2, WaitingResolved
  <2> QED
    BY <1>10, <2>3, <2>4
<1>11. CASE /\ UNCHANGED <<symbols, is_program_found>>
            /\ frames' = Append(frames, Frame("repeat", symbol_id, "body"))
            /\ symbol_id' = symbol_id + 2 /\ PlaceFor(symbol_id)
  <2> DEFINE f == Frame("repeat", symbol_id, "body")
  <2>1. f.id = symbol_id /\ Awaited(f) = symbol_id + 1
    BY DEF Frame, Awaited
  <2> HIDE DEF f
  <2>2. Len(frames') = n + 1 /\ frames'[n + 1] = f /\ \A j \in 1 .. n : frames'[j] = frames[j]
    BY <1>2, <1>11 DEF Frames, n, f
  <2>3. \A j \in 1 .. n + 1 :
           frames'[j].id # NoId /\ Awaited(frames'[j]) \notin Places(tokens) \union {symbol_id}
    <3> TAKE j \in 1 .. n + 1
    <3>1. CASE j \in 1 .. n
      BY <1>2, <1>4, <2>2, <3>1
    <3>2. CASE j = n + 1
      <4>1. symbol_id + 1 # symbol_id /\ symbol_id # NoId
        BY <1>2 DEF NoId
      <4> QED
        BY <1>b, <2>1, <2>2, <3>2, <4>1
    <3> QED
      BY <1>2, <3>1, <3>2
  <2>4. \A k \in DOMAIN symbols : symbols[k].id # symbol_id
    BY <1>2, <1>5
  <2>5. symbol_id' \in Nat /\ symbol_id <= symbol_id' /\ {symbol_id} \subseteq 0 .. symbol_id' - 1
        /\ 0 \notin {symbol_id}
    BY <1>2, <1>11
  <2>6. Grown /\ OnePlaceEach' /\ Places(tokens') = Places(tokens) \union {symbol_id}
    BY <1>1, <1>11, <1>b DEF PlaceFor
  <2>7. UNCHANGED <<symbols, is_program_found>>
    BY <1>11
  <2> DEFINE D == {symbol_id}
  <2>8. Grown /\ Places(tokens') = Places(tokens) \union D /\ D \subseteq 0 .. symbol_id' - 1
        /\ 0 \notin D /\ symbol_id \in Nat /\ symbol_id' \in Nat /\ symbol_id <= symbol_id'
    BY <1>2, <2>5, <2>6
  <2>9. \A k \in DOMAIN symbols : symbols[k].id \notin D
    BY <2>4
  <2>10. \A j \in 1 .. Len(frames') :
            frames'[j].id # NoId /\ Awaited(frames'[j]) \notin Places(tokens) \union D
    BY <2>2, <2>3
  <2> HIDE DEF D
  <2> QED
    BY <1>1, <1>a, <2>6, <2>7, <2>8, <2>9, <2>10, WaitingKept
<1>12. CASE /\ UNCHANGED <<symbols, is_program_found>>
            /\ frames' = Append(frames, Frame("if", symbol_id, "head"))
            /\ symbol_id' = symbol_id + 1 /\ NoPlace
  <2> DEFINE f == Frame("if", symbol_id, "head")
  <2>1. f.id = symbol_id /\ Awaited(f) = symbol_id
    BY DEF Frame, Awaited
  <2> HIDE DEF f
  <2>2. Len(frames') = n + 1 /\ frames'[n + 1] = f /\ \A j \in 1 .. n : frames'[j] = frames[j]
    BY <1>2, <1>12 DEF Frames, n, f
  <2>3. \A j \in 1 .. n + 1 :
           frames'[j].id # NoId /\ Awaited(frames'[j]) \notin Places(tokens) \union {}
    <3> TAKE j \in 1 .. n + 1
    <3>1. CASE j \in 1 .. n
      BY <1>4, <2>2, <3>1
    <3>2. CASE j = n + 1
      <4>1. symbol_id # NoId
        BY <1>2 DEF NoId
      <4> QED
        BY <1>b, <2>1, <2>2, <3>2, <4>1
    <3> QED
      BY <1>2, <3>1, <3>2
  <2>5. symbol_id' \in Nat /\ symbol_id <= symbol_id'
    BY <1>2, <1>12
  <2>6. Grown /\ OnePlaceEach' /\ Places(tokens') = Places(tokens) \union {}
    BY <1>1, <1>12 DEF NoPlace
  <2>7. UNCHANGED <<symbols, is_program_found>>
    BY <1>12
  <2> DEFINE D == {}
  <2>8. Grown /\ Places(tokens') = Places(tokens) \union D /\ D \subseteq 0 .. symbol_id' - 1
        /\ 0 \notin D /\ symbol_id \in Nat /\ \A k : symbols[k].id \notin D
    BY <1>2, <2>6
  <2>10. \A j \in 1 .. Len(frames') :
            frames'[j].id # NoId /\ Awaited(frames'[j]) \notin Places(tokens) \union D
    BY <2>2, <2>3
  <2> HIDE DEF D
  <2> QED
    BY <1>1, <2>5, <2>6, <2>7, <2>8, <2>10, WaitingKept
<1>13. CASE /\ TableSame /\ UNCHANGED is_program_found
            /\ frames # <<>> /\ frames' = Pop(frames) /\ PlaceFor(Awaited(frames[Len(frames)]))
  <2> DEFINE d == Awaited(frames[n])
  <2>1. Len(frames') = n - 1 /\ \A j \in 1 .. n - 1 : frames'[j] = frames[j]
    BY <1>2, <1>13, Popping DEF Frames, n
  <2>2. d \in 1 .. symbol_id - 1 /\ d \notin Places(tokens) /\ d \in IdsOf(frames[n])
    BY <1>2, <1>4, <1>13
  <2>3. \A k \in DOMAIN symbols : symbols[k].id # d
    BY <1>1, <1>2, <1>13, <2>2 DEF IdsInUse, n
  <2>4. \A j \in 1 .. n - 1 : j \in 1 .. n /\ j # n
    BY <1>2
  <2>5. \A j \in 1 .. n : j # n => IdsOf(frames[j]) \intersect IdsOf(frames[n]) = {}
    BY <1>1, <1>2, <1>13 DEF IdsInUse, n
  <2> HIDE DEF d
  <2>6. \A j \in 1 .. n - 1 :
           frames'[j].id # NoId /\ Awaited(frames'[j]) \notin Places(tokens) \union {d}
    BY <1>4, <2>1, <2>2, <2>4, <2>5
  <2>7. d # 0 /\ {d} \subseteq 0 .. symbol_id' - 1 /\ symbol_id' = symbol_id
    BY <1>2, <1>13, <2>2 DEF TableSame
  <2>8. Grown /\ OnePlaceEach' /\ Places(tokens') = Places(tokens) \union {d}
    BY <1>1, <1>13, <2>2 DEF PlaceFor, d, n
  <2>9. UNCHANGED <<symbols, is_program_found>>
    BY <1>13 DEF TableSame
  <2> DEFINE D == {d}
  <2>10. Grown /\ Places(tokens') = Places(tokens) \union D /\ D \subseteq 0 .. symbol_id' - 1
         /\ 0 \notin D
    BY <2>7, <2>8
  <2>11. symbol_id' \in Nat /\ symbol_id \in Nat /\ symbol_id <= symbol_id'
    BY <1>2, <2>7
  <2>12. \A k \in DOMAIN symbols : symbols[k].id \notin D
    BY <2>3
  <2>13. \A j \in 1 .. Len(frames') :
            frames'[j].id # NoId /\ Awaited(frames'[j]) \notin Places(tokens) \union D
    BY <2>1, <2>6
  <2> HIDE DEF D
  <2> QED
    BY <1>1, <1>a, <2>8, <2>9, <2>10, <2>11, <2>12, <2>13, WaitingKept
<1>14. ASSUME TableSame, UNCHANGED <<frames, is_program_found>>,
              NEW k \in Variables, ~Dumped(k), PlaceFor(symbols[k].id), Dumped(k)'
       PROVE  OnePlaceEach' /\ Waiting'
  <2> DEFINE d == symbols[k].id
  <2>1. k \in DOMAIN symbols /\ symbols[k].kind = "variable" /\ d \in 1 .. symbol_id - 1
    BY <1>5 DEF Variables
  <2>2. d \notin Places(tokens)
    BY <1>1, <1>14 DEF Waiting
  <2>3. \A l \in DOMAIN symbols : symbols[l].id = d => l = k
    BY <1>1, <2>1 DEF IdsInUse
  <2>4. \A l \in Unresolved : symbols[l].id # d
    BY <2>1, <2>3 DEF Unresolved
  <2>5. \A l \in Variables : symbols[l].id = d => Dumped(l)'
    BY <1>14, <1>a, <2>3
  <2>6. \A j \in 1 .. n : Awaited(frames[j]) # d
    BY <1>1, <1>4, <2>1 DEF IdsInUse, n
  <2> HIDE DEF d
  <2>7. d # 0 /\ {d} \subseteq 0 .. symbol_id' - 1 /\ symbol_id' = symbol_id
    BY <1>2, <1>14, <2>1 DEF TableSame
  <2>8. Grown /\ OnePlaceEach' /\ Places(tokens') = Places(tokens) \union {d}
    BY <1>1, <1>14, <2>2 DEF PlaceFor, d
  <2>9. UNCHANGED <<symbols, is_program_found, frames>>
    BY <1>14 DEF TableSame
  <2> DEFINE D == {d}
  <2>10. Grown /\ Places(tokens') = Places(tokens) \union D /\ D \subseteq 0 .. symbol_id' - 1
         /\ 0 \notin D
    BY <2>7, <2>8
  <2>11. symbol_id' \in Nat /\ symbol_id \in Nat /\ symbol_id <= symbol_id'
    BY <1>2, <2>7
  <2>12. /\ \A l \in Unresolved : symbols[l].id \notin D
         /\ \A l \in Variables : symbols[l].id \in D => Dumped(l)'
    BY <2>4, <2>5
  <2>13. \A j \in 1 .. Len(frames') :
            frames'[j].id # NoId /\ Awaited(frames'[j]) \notin Places(tokens) \union D
    BY <1>4, <2>6, <2>9 DEF n
  <2> HIDE DEF D
  <2> QED
    BY <1>1, <2>8, <2>9, <2>10, <2>11, <2>12, <2>13, WaitingKept
<1> QED
  BY <1>6, <1>7, <1>8, <1>9, <1>10, <1>11, <1>12, <1>13, <1>14, PlaceChange DEF Awaited

LEMMA InitPlaces == Init => PlacesInv
<1> SUFFICES ASSUME Init PROVE OnePlaceEach /\ Waiting
  BY DEF PlacesInv
<1>1. tokens = <<>> /\ frames = <<>> /\ DOMAIN symbols = {}
  BY DEF Init
<1>2. Places(tokens) = {} /\ OnePlaceEach
  BY <1>1 DEF Places, OnePlaceEach
<1>3. Unresolved = {} /\ Variables = {}
  BY <1>1 DEF Unresolved, Variables
<1>4. 1 .. Len(frames) = {}
  BY <1>1
<1> QED
  BY <1>2, <1>3, <1>4 DEF Waiting

LEMMA PlacesInductive == TableInv /\ PlacesInv /\ [Next]_vars => PlacesInv'
<1>1. ASSUME PlacesInv, UNCHANGED vars PROVE PlacesInv'
  <2>1. /\ UNCHANGED <<symbols, frames, symbol_id, tokens, is_program_found>>
        /\ UNCHANGED has_encountered_error
    BY <1>1 DEF vars, parser, table, flags
  <2> QED
    BY <1>1, <2>1 DEF PlacesInv, OnePlaceEach, Waiting, Unresolved, Variables, Dumped
<1> QED
  BY <1>1, PlacesKept DEF Next, Halted

\* Seven functions append definitions, and no label, block, variable or entry point is
\* given two places as long as nothing is reported (FinHla, _add_label, add_procedure,
\* add_program, add_repeat, fin_repeat, fin_if): the assembler would keep the last.
THEOREM PlacesAreUnique == Spec => []DefinedOnce
<1>1. PlacesInv => DefinedOnce
  BY DEF PlacesInv, DefinedOnce, OnePlaceEach, IsDef
<1> QED
  BY <1>1, InitTable, TableInductive, InitPlaces, PlacesInductive, PTL DEF Spec

(***************************************************************************)
(* Openers and closers.  An open block has the opener that carries its id; *)
(* an `if' has none until its condition is through.                        *)
(***************************************************************************)
Opener(t) == t.op = "JCC" \/ (t.op = "ASMDIRMEM" /\ t.by = "repeat")
Closer(t) == t.op = "ASMDIRMEM" /\ t.by \in {"end if", "end repeat"}

Openers == {i \in DOMAIN tokens : Opener(tokens[i])}

Owns(f, t) ==
    \/ f.kind = "if" /\ t.op = "JCC" /\ f.id = t.id
    \/ f.kind = "repeat" /\ t.op = "ASMDIRMEM" /\ t.by = "repeat" /\ f.id = t.id

OpenersKnown ==
    \A i \in Openers :
        /\ tokens[i].id \in 0 .. symbol_id - 1
        /\ \/ \E j \in DOMAIN tokens : Closes(i, j)
           \/ \E f \in 1 .. Len(frames) : Owns(frames[f], tokens[i])

ClosedLater == \A i \in Openers : \A j \in DOMAIN tokens : Closes(i, j) => i < j

HeadsOwnNothing ==
    \A f \in 1 .. Len(frames) : \A i \in Openers :
        Owns(frames[f], tokens[i]) => frames[f].at # "head"

\* The openers of the open blocks come in the order of the blocks.
OwnedInOrder ==
    \A f, g \in 1 .. Len(frames) : \A a, b \in Openers :
        f <= g /\ Owns(frames[f], tokens[a]) /\ Owns(frames[g], tokens[b]) => a <= b

\* What opens inside of a closed block is closed inside of it.
ClosedInside ==
    \A a, b \in Openers : \A c \in DOMAIN tokens :
        Closes(a, c) /\ a < b /\ b < c => \E d \in DOMAIN tokens : Closes(b, d) /\ d < c

Nesting == OpenersKnown /\ ClosedLater /\ HeadsOwnNothing /\ OwnedInOrder /\ ClosedInside

\* Between blocks nothing is open, and in the end everything is dumped.
Outside ==
    /\ state \in {"hla", "decl", "dump", "done"} => frames = <<>>
    /\ state = "done" => \A k \in Variables : Dumped(k)

BlocksInv == ~has_encountered_error => Nesting /\ Outside

(***************************************************************************)
(* What a step brings: an opener, a closer, or none.                       *)
(***************************************************************************)
New == DOMAIN tokens' \ DOMAIN tokens

Idle(t) == ~Opener(t) /\ ~Closer(t)

BringsNone == Grown /\ \A i \in New : Idle(tokens'[i])
BringsOne(t) ==
    /\ Grown
    /\ \E p \in New : tokens'[p] = t /\ \A i \in New \ {p} : Idle(tokens'[i])

LEMMA OldBeforeNew ==
    ASSUME TypeInv, TypeInv'
    PROVE  \A i \in DOMAIN tokens : \A j \in New : i \in Nat /\ j \in Nat /\ i < j
<1> DEFINE n == Len(tokens)
           m == Len(tokens')
<1>1. n \in Nat /\ DOMAIN tokens = 1 .. n /\ m \in Nat /\ DOMAIN tokens' = 1 .. m
  BY DEF TypeInv, TypeOK, TokensTypeOK
<1> HIDE DEF n, m
<1> QED
  BY <1>1 DEF New

LEMMA NothingNew == UNCHANGED tokens => BringsNone
BY DEF BringsNone, Grown, New

LEMMA NewIdle ==
    ASSUME TypeInv, NEW t, Append1(t), Idle(t)
    PROVE  BringsNone
<1> DEFINE n == Len(tokens)
<1>1. /\ n \in Nat /\ DOMAIN tokens = 1 .. n /\ DOMAIN tokens' = 1 .. n + 1
      /\ tokens'[n + 1] = t /\ \A i \in 1 .. n : tokens'[i] = tokens[i]
  BY Appended1
<1> HIDE DEF n
<1>2. 1 .. n \subseteq 1 .. n + 1 /\ \A i \in (1 .. n + 1) \ (1 .. n) : i = n + 1
  BY <1>1
<1> QED
  BY <1>1, <1>2 DEF BringsNone, Grown, New

LEMMA NewOne ==
    ASSUME TypeInv, NEW t, Append1(t)
    PROVE  BringsOne(t)
<1> DEFINE n == Len(tokens)
<1>1. /\ n \in Nat /\ DOMAIN tokens = 1 .. n /\ DOMAIN tokens' = 1 .. n + 1
      /\ tokens'[n + 1] = t /\ \A i \in 1 .. n : tokens'[i] = tokens[i]
  BY Appended1
<1> HIDE DEF n
<1>2. /\ 1 .. n \subseteq 1 .. n + 1 /\ \A i \in (1 .. n + 1) \ (1 .. n) : i = n + 1
      /\ n + 1 \in (1 .. n + 1) \ (1 .. n)
  BY <1>1
<1> QED
  BY <1>1, <1>2 DEF BringsOne, Grown, New

LEMMA NewIdleAndOne ==
    ASSUME TypeInv, NEW t, NEW u, Append2(t, u), Idle(t)
    PROVE  BringsOne(u) /\ (Idle(u) => BringsNone)
<1> DEFINE n == Len(tokens)
<1>1. /\ n \in Nat /\ DOMAIN tokens = 1 .. n /\ DOMAIN tokens' = 1 .. n + 2
      /\ tokens'[n + 1] = t /\ tokens'[n + 2] = u /\ \A i \in 1 .. n : tokens'[i] = tokens[i]
  BY Appended2
<1> HIDE DEF n
<1>2. /\ 1 .. n \subseteq 1 .. n + 2 /\ n + 2 \in (1 .. n + 2) \ (1 .. n)
      /\ \A i \in (1 .. n + 2) \ (1 .. n) : i = n + 1 \/ i = n + 2
  BY <1>1
<1> QED
  BY <1>1, <1>2 DEF BringsOne, BringsNone, Grown, New

\* While a loop is open, the place its end pops is one of the stack.
LEMMA LoopOnStack ==
    ASSUME StackInv, state \notin Faults, ~has_encountered_error, frames # <<>>,
           frames[Len(frames)].kind = "repeat"
    PROVE  repeat_stack_empty_top - 1 \in DOMAIN repeat_stack
<1>1. Len(frames) \in 1 .. Len(frames) /\ Len(frames) \in Nat
  BY Topmost DEF StackInv, TypeInv, TypeOK, ParserTypeOK, Frames
<1>2. Opened(frames, "repeat", Len(frames)) \in Nat \ {0}
  BY <1>1, CountsItself
<1>3. repeat_stack_empty_top \in Nat \ {0}
  BY <1>2 DEF StackInv, StacksMatchFrames, Depth
<1>4. /\ repeat_stack_empty_top \in -1 .. MaxRepeat
      /\ DOMAIN repeat_stack = 0 .. MaxRepeat - 1
  BY DEF StackInv, TypeInv, TypeOK, StacksTypeOK
<1> QED
  BY <1>3, <1>4, NestingAssumption

\* What a step that reports nothing does to the blocks.
LEMMA BlockChange ==
    ASSUME TableInv, Step, ~has_encountered_error'
    PROVE  \/ BringsNone /\ UNCHANGED frames
           \/ BringsNone /\ frames # <<>> /\ frames[Len(frames)].at # "head"
              /\ frames' = [frames EXCEPT ![Len(frames)].at = "body"]
           \/ BringsNone /\ frames' = Append(frames, Frame("if", symbol_id, "head"))
           \/ /\ BringsOne(Def(symbol_id, "repeat"))
              /\ frames' = Append(frames, Frame("repeat", symbol_id, "body"))
              /\ symbol_id' = symbol_id + 2
           \/ /\ frames # <<>> /\ frames' = [frames EXCEPT ![Len(frames)].at = "condition"]
              /\ LET f == frames[Len(frames)]
                 IN  f.kind = "if" /\ f.at = "head" /\ BringsOne(Ref("JCC", f.id, "if"))
           \/ /\ frames # <<>> /\ frames' = Pop(frames)
              /\ LET f == frames[Len(frames)]
                 IN  IF f.kind = "repeat" THEN BringsOne(Def(f.id + 1, "end repeat"))
                     ELSE BringsOne(Def(f.id, "end if"))
<1> TypeInv /\ StackInv
  BY DEF TableInv, StackInv
<1>a. state \notin Faults /\ ~has_encountered_error
  BY StepFrom
<1> DEFINE Calm == BringsNone /\ UNCHANGED frames
<1>1. ASSUME NEW name, NEW system, ProgramHead(system, name) PROVE Calm
  <2>1. Append1(Def(0, "program")) /\ UNCHANGED frames
    BY <1>1 DEF ProgramHead
  <2>2. Idle(Def(0, "program"))
    BY DEF Idle, Opener, Closer, Def, Token
  <2> QED
    BY <2>1, <2>2, NewIdle
<1>2. ASSUME NEW name, ProcedureHead(name) PROVE Calm
  <2>1. Append1(Def(symbol_id, "procedure")) /\ UNCHANGED frames
    BY <1>2 DEF ProcedureHead, IssueError
  <2>2. Idle(Def(symbol_id, "procedure"))
    BY DEF Idle, Opener, Closer, Def, Token
  <2> QED
    BY <2>1, <2>2, NewIdle
<1>3. ASSUME NEW name, NEW d, AddVariable(name, d) PROVE Calm
  BY <1>3, NothingNew DEF AddVariable, parser
<1>4. ASSUME NEW name, AddLabel(name) PROVE Calm
  <2>1. Append1(Def(LabelId(name), "label")) /\ UNCHANGED frames
    BY <1>4 DEF AddLabel, parser
  <2>2. Idle(Def(LabelId(name), "label"))
    BY DEF Idle, Opener, Closer, Def, Token
  <2> QED
    BY <2>1, <2>2, NewIdle
<1>5. ASSUME NEW op \in {"JMP", "LOOP"}, NEW name, Jump(op, name) PROVE Calm
  <2>1. ASSUME NEW id PROVE Idle(Ref(op, id, "relative"))
    BY DEF Idle, Opener, Closer, Ref, Token
  <2>2. UNCHANGED frames /\ \E id : Append1(Ref(op, id, "relative"))
    BY <1>5 DEF Jump, parser
  <2> QED
    BY <2>1, <2>2, NewIdle
<1>6. ASSUME NEW op \in {"MEM", "REL"}, NEW name, Operand(op, name) PROVE Calm
  <2>1. ASSUME NEW id, NEW by PROVE Idle(Ref(op, id, by))
    BY DEF Idle, Opener, Closer, Ref, Token
  <2>2. UNCHANGED frames /\ \E id, by : Append1(Ref(op, id, by))
    BY <1>6 DEF Operand, parser
  <2> QED
    BY <2>1, <2>2, NewIdle
<1>7. ASSUME NEW name, Offset(name) \/ AddExit(name) PROVE Calm
  <2>1. Idle(Ref("MEM", UNDECLARED, "offset")) /\ Idle(Token("PLAIN", 0, "exit"))
    BY DEF Idle, Opener, Closer, Ref, Token
  <2> QED
    BY <1>7, <2>1, NewIdle, NothingNew DEF Offset, AddExit, parser
<1>8. ASSUME NEW name, NEW literals, AddFastcall(name, literals) PROVE Calm
  <2>1. ASSUME NEW id PROVE Idle(Ref("CALL", id, "fastcall"))
    BY DEF Idle, Opener, Closer, Ref, Token
  <2>2. UNCHANGED frames /\ (UNCHANGED tokens \/ \E id : Append1(Ref("CALL", id, "fastcall")))
    BY <1>8 DEF AddFastcall, parser
  <2> QED
    BY <2>1, <2>2, NewIdle, NothingNew
<1>9. ASSUME NEW id, Address(id) PROVE Calm
  <2>1. Idle(Ref("MEM", id, "block"))
    BY DEF Idle, Opener, Closer, Ref, Token
  <2> QED
    BY <1>9, <2>1, NewIdle DEF Address, parser
<1>10. ASSUME NEW i, AddContinue(i) \/ AddBreak(i) PROVE Calm
  <2>1. ASSUME NEW id, NEW by PROVE Idle(Ref("JMP", id, by))
    BY DEF Idle, Opener, Closer, Ref, Token
  <2>2. UNCHANGED frames /\ (UNCHANGED tokens \/ \E id, by : Append1(Ref("JMP", id, by)))
    BY <1>10 DEF AddContinue, AddBreak, JumpOut
  <2> QED
    BY <2>1, <2>2, NewIdle, NothingNew
<1>11. ASSUME Begin \/ FinHla \/ EndDump PROVE Calm
  BY <1>11, NothingNew DEF Begin, FinHla, EndDump
<1>12. ASSUME SyntaxError \/ UnknownSymbol \/ Abort PROVE FALSE
  BY <1>12 DEF SyntaxError, UnknownSymbol, Abort, IssueError
<1>13. ASSUME EndUnit \/ Instruction PROVE Calm
  <2>1. Idle(Token("RETN", 0, "procedure")) /\ Idle(Token("PLAIN", 0, "instruction"))
    BY DEF Idle, Opener, Closer, Token
  <2> QED
    BY <1>13, <2>1, NewIdle, NothingNew DEF EndUnit, Instruction, parser
<1>14. ASSUME AddRepeat
       PROVE  /\ BringsOne(Def(symbol_id, "repeat"))
              /\ frames' = Append(frames, Frame("repeat", symbol_id, "body"))
              /\ symbol_id' = symbol_id + 2
  BY <1>14, NewOne DEF AddRepeat, LoopIds, IssueError
<1>15. ASSUME AddIf
       PROVE  BringsNone /\ frames' = Append(frames, Frame("if", symbol_id, "head"))
  BY <1>15, NothingNew DEF AddIf
<1>16. ASSUME AddLogic
       PROVE  /\ frames # <<>> /\ frames' = [frames EXCEPT ![Len(frames)].at = "condition"]
              /\ LET f == frames[Len(frames)]
                 IN  f.kind = "if" /\ f.at = "head" /\ BringsOne(Ref("JCC", f.id, "if"))
  <2>1. /\ frames # <<>> /\ frames' = [frames EXCEPT ![Len(frames)].at = "condition"]
        /\ frames[Len(frames)].kind = "if" /\ frames[Len(frames)].at = "head"
        /\ Append2(Token("CMP", 0, "if"), Ref("JCC", if_stack[if_stack_empty_top - 1], "if"))
    BY <1>16 DEF AddLogic, Top
  <2>2. if_stack[if_stack_empty_top - 1] = frames[Len(frames)].id
    BY <1>a, <2>1, TopOfStacks
  <2>3. Idle(Token("CMP", 0, "if"))
    BY DEF Idle, Opener, Closer, Token
  <2> QED
    BY <2>1, <2>2, <2>3, NewIdleAndOne
<1>17. ASSUME Then
       PROVE  /\ BringsNone /\ frames # <<>> /\ frames[Len(frames)].at # "head"
              /\ frames' = [frames EXCEPT ![Len(frames)].at = "body"]
  BY <1>17, NothingNew DEF Then, Top
<1>18. ASSUME FinRepeat \/ FinIf
       PROVE  /\ frames # <<>> /\ frames' = Pop(frames)
              /\ LET f == frames[Len(frames)]
                 IN  IF f.kind = "repeat" THEN BringsOne(Def(f.id + 1, "end repeat"))
                     ELSE BringsOne(Def(f.id, "end if"))
  <2> DEFINE f == frames[Len(frames)]
  <2>1. frames # <<>> /\ frames' = Pop(frames)
    BY <1>18 DEF FinRepeat, FinIf, Top
  <2>2. CASE FinRepeat
    <3>1. /\ f.kind = "repeat" /\ repeat_stack_empty_top' = repeat_stack_empty_top - 1
      BY <2>2 DEF FinRepeat, Top, Popped
    <3>2. repeat_stack[repeat_stack_empty_top - 1] = f.id
      BY <1>a, <2>1, <3>1, TopOfStacks
    <3>3. repeat_stack_empty_top - 1 \in DOMAIN repeat_stack
      BY <1>a, <2>1, <3>1, LoopOnStack
    <3>4. Append2(Ref("JMP", f.id, "repeat"), Def(f.id + 1, "end repeat"))
      BY <2>2, <3>1, <3>2, <3>3 DEF FinRepeat, EndOf
    <3>5. Idle(Ref("JMP", f.id, "repeat"))
      BY DEF Idle, Opener, Closer, Ref, Token
    <3> QED
      BY <2>1, <3>1, <3>4, <3>5, NewIdleAndOne
  <2>3. CASE FinIf
    <3>1. /\ f.kind = "if" /\ if_stack_empty_top' = if_stack_empty_top - 1
          /\ Append1(Def(if_stack[if_stack_empty_top'], "end if"))
      BY <2>3 DEF FinIf, Top, Popped
    <3>2. if_stack[if_stack_empty_top - 1] = f.id
      BY <1>a, <2>1, <3>1, TopOfStacks
    <3> QED
      BY <2>1, <3>1, <3>2, NewOne
  <2> QED
    BY <1>18, <2>2, <2>3
<1>19. ASSUME NEW k, DumpVariable(k) PROVE Calm
  <2> DEFINE t == Def(symbols[k].id, "variable")
             u == Token("ASMDIRIMM", symbols[k].elements, symbols[k].payload)
  <2>1. UNCHANGED frames /\ (UNCHANGED tokens \/ Append2(t, u))
    BY <1>19 DEF DumpVariable
  <2>2. Idle(t) /\ Idle(u)
    BY DEF Idle, Opener, Closer, Def, Token
  <2> HIDE DEF t, u
  <2> QED
    BY <2>1, <2>2, NewIdleAndOne, NothingNew
<1> HIDE DEF Calm
<1> DEFINE Goal == \/ \E name : \/ \E system : ProgramHead(system, name)
                                 \/ ProcedureHead(name) \/ AddLabel(name)
                                 \/ Offset(name) \/ AddExit(name)
                                 \/ \E literals : AddFastcall(name, literals)
                                 \/ \E d : AddVariable(name, d)
                                 \/ \E op \in {"MEM", "REL"} : Operand(op, name)
                                 \/ \E jump \in {"JMP", "LOOP"} : Jump(jump, name)
                   \/ \E i : Address(i) \/ AddContinue(i) \/ AddBreak(i) \/ DumpVariable(i)
                   \/ Begin \/ FinHla \/ EndDump \/ EndUnit \/ Instruction
                   \/ AddRepeat \/ FinRepeat \/ AddIf \/ AddLogic \/ Then \/ FinIf
<1>20. Goal
  BY <1>12 DEF Step
<1> QED
  BY <1>1, <1>2, <1>3, <1>4, <1>5, <1>6, <1>7, <1>8, <1>9, <1>10, <1>11, <1>13, <1>14, <1>15,
     <1>16, <1>17, <1>18, <1>19, <1>20 DEF Calm

-----------------------------------------------------------------------------
Ends(t, u) ==
    \/ t.op = "JCC" /\ u = Def(t.id, "end if")
    \/ t.op = "ASMDIRMEM" /\ u = Def(t.id + 1, "end repeat")

LEMMA DefIs ==
    \A id, by : Def(id, by).op = "ASMDIRMEM" /\ Def(id, by).id = id /\ Def(id, by).by = by
BY DEF Def, Token

LEMMA ClosesEnds ==
    ASSUME NEW i, NEW j
    PROVE  /\ Closes(i, j) <=> Ends(tokens[i], tokens[j])
           /\ Closes(i, j)' <=> Ends(tokens'[i], tokens'[j])
BY DEF Closes, Ends

LEMMA EndsIs ==
    ASSUME NEW t, NEW u, Ends(t, u)
    PROVE  /\ Closer(u) /\ u.op = "ASMDIRMEM"
           /\ \A f : Owns(f, t) => u.id = Awaited(f)
<1>1. CASE t.op = "JCC"
  <2>1. u = Def(t.id, "end if")
    BY <1>1 DEF Ends
  <2>2. u.op = "ASMDIRMEM" /\ u.id = t.id /\ u.by = "end if"
    BY <2>1, DefIs
  <2> QED
    BY <1>1, <2>2 DEF Closer, Owns, Awaited
<1>2. CASE t.op # "JCC"
  <2>1. t.op = "ASMDIRMEM" /\ u = Def(t.id + 1, "end repeat")
    BY <1>2 DEF Ends
  <2>2. u.op = "ASMDIRMEM" /\ u.id = t.id + 1 /\ u.by = "end repeat"
    BY <2>1, DefIs
  <2> QED
    BY <1>2, <2>1, <2>2 DEF Closer, Owns, Awaited
<1> QED
  BY <1>1, <1>2

LEMMA ClosesKept ==
    ASSUME Grown, NEW i \in DOMAIN tokens, NEW j \in DOMAIN tokens
    PROVE  Closes(i, j)' <=> Closes(i, j)
BY DEF Grown, Closes

-----------------------------------------------------------------------------
\* A step that brings neither opener nor closer, and may open an `if'.
LEMMA NestingIdle ==
    ASSUME TypeInv, TypeInv', Nesting, BringsNone, symbol_id <= symbol_id',
           Len(frames) <= Len(frames'),
           \A f \in 1 .. Len(frames) :
               /\ frames'[f].kind = frames[f].kind /\ frames'[f].id = frames[f].id
               /\ frames'[f].at = "head" => frames[f].at = "head",
           \A g \in 1 .. Len(frames') : g \notin 1 .. Len(frames) =>
               \A i \in Openers : ~Owns(frames'[g], tokens[i])
    PROVE  Nesting'
<1> DEFINE n == Len(frames)
           m == Len(frames')
<1>a. n \in Nat /\ m \in Nat /\ 1 .. n \subseteq 1 .. m
  BY LenProperties DEF TypeInv, TypeOK, ParserTypeOK, Frames
<1>b. symbol_id \in Nat /\ symbol_id' \in Nat /\ 0 .. symbol_id - 1 \subseteq 0 .. symbol_id' - 1
  BY Below DEF TypeInv, TypeOK, TableTypeOK
<1>1. Grown /\ DOMAIN tokens \subseteq DOMAIN tokens'
  BY DEF BringsNone, Grown
<1>2. Openers' = Openers
  BY DEF BringsNone, Grown, Openers, New, Idle
<1>3. \A i \in Openers : i \in DOMAIN tokens /\ tokens'[i] = tokens[i]
  BY <1>1 DEF Openers, Grown
<1>4. \A i \in Openers : \A j \in DOMAIN tokens' :
         Closes(i, j)' => j \in DOMAIN tokens /\ Closes(i, j)
  <2> SUFFICES ASSUME NEW i \in Openers, NEW j \in DOMAIN tokens', Closes(i, j)'
               PROVE  j \in DOMAIN tokens /\ Closes(i, j)
    OBVIOUS
  <2>1. Closer(tokens'[j])
    BY ClosesEnds, EndsIs
  <2>2. j \in DOMAIN tokens
    BY <2>1 DEF BringsNone, New, Idle
  <2> QED
    BY <1>1, <1>3, <2>2, ClosesKept
<1>5. \A i \in Openers : \A j \in DOMAIN tokens : Closes(i, j) => Closes(i, j)'
  BY <1>1, <1>3, ClosesKept
<1>6. \A f \in 1 .. n : \A t : Owns(frames'[f], t) <=> Owns(frames[f], t)
  BY DEF Owns
<1>7. \A g \in 1 .. m : \A i \in Openers : Owns(frames'[g], tokens[i]) => g \in 1 .. n
  OBVIOUS
<1> HIDE DEF n, m
<1>8. OpenersKnown'
  <2> SUFFICES ASSUME NEW i \in Openers
               PROVE  /\ tokens'[i].id \in 0 .. symbol_id' - 1
                      /\ \/ \E j \in DOMAIN tokens' : Closes(i, j)'
                         \/ \E f \in 1 .. m : Owns(frames'[f], tokens'[i])
    BY <1>2 DEF OpenersKnown, m
  <2>1. /\ tokens[i].id \in 0 .. symbol_id - 1
        /\ \/ \E j \in DOMAIN tokens : Closes(i, j)
           \/ \E f \in 1 .. n : Owns(frames[f], tokens[i])
    BY DEF Nesting, OpenersKnown, n
  <2> QED
    BY <1>a, <1>b, <1>1, <1>3, <1>5, <1>6, <2>1
<1>9. ClosedLater'
  BY <1>2, <1>4 DEF Nesting, ClosedLater
<1>10. HeadsOwnNothing'
  BY <1>2, <1>3, <1>6, <1>7 DEF Nesting, HeadsOwnNothing, n, m
<1>11. OwnedInOrder'
  <2> SUFFICES ASSUME NEW f \in 1 .. m, NEW g \in 1 .. m, f <= g,
                      NEW a \in Openers, NEW b \in Openers,
                      Owns(frames'[f], tokens'[a]), Owns(frames'[g], tokens'[b])
               PROVE  a <= b
    BY <1>2 DEF OwnedInOrder, m
  <2>1. tokens'[a] = tokens[a] /\ tokens'[b] = tokens[b]
    BY <1>3
  <2>2. f \in 1 .. n /\ g \in 1 .. n
    BY <1>7, <2>1
  <2>3. Owns(frames[f], tokens[a]) /\ Owns(frames[g], tokens[b])
    BY <1>6, <2>1, <2>2
  <2> QED
    BY <2>2, <2>3 DEF Nesting, OwnedInOrder, n
<1>12. ClosedInside'
  <2> SUFFICES ASSUME NEW a \in Openers, NEW b \in Openers, NEW c \in DOMAIN tokens',
                      Closes(a, c)', a < b, b < c
               PROVE  \E d \in DOMAIN tokens' : Closes(b, d)' /\ d < c
    BY <1>2 DEF ClosedInside
  <2>1. c \in DOMAIN tokens /\ Closes(a, c)
    BY <1>4
  <2>2. PICK d \in DOMAIN tokens : Closes(b, d) /\ d < c
    BY <2>1 DEF Nesting, ClosedInside
  <2> QED
    BY <1>1, <1>5, <2>2
<1> QED
  BY <1>8, <1>9, <1>10, <1>11, <1>12 DEF Nesting

\* The opener of the innermost block arrives.
LEMMA NestingOpened ==
    ASSUME TypeInv, TypeInv', Nesting, Waiting',
           IdsInUse(symbols, frames, symbol_id)', symbol_id <= symbol_id',
           NEW t, BringsOne(t), Opener(t), ~Closer(t), t.id \in 0 .. symbol_id' - 1,
           Len(frames) <= Len(frames'), Len(frames') \in 1 .. Len(frames'),
           Owns(frames'[Len(frames')], t), frames'[Len(frames')].at # "head",
           \A i \in Openers : ~Owns(frames'[Len(frames')], tokens[i]),
           \A f \in 1 .. Len(frames) : f # Len(frames') =>
               frames'[f] = frames[f],
           \A f \in 1 .. Len(frames') : f # Len(frames') => f \in 1 .. Len(frames),
           \A f \in 1 .. Len(frames) : f = Len(frames') =>
               \A i \in Openers : ~Owns(frames[f], tokens[i])
    PROVE  Nesting'
<1> DEFINE n == Len(frames)
           m == Len(frames')
<1>a. n \in Nat /\ m \in Nat /\ 1 .. n \subseteq 1 .. m /\ m \in 1 .. m
  BY LenProperties DEF TypeInv, TypeOK, ParserTypeOK, Frames
<1>b. symbol_id \in Nat /\ symbol_id' \in Nat /\ 0 .. symbol_id - 1 \subseteq 0 .. symbol_id' - 1
  BY Below DEF TypeInv, TypeOK, TableTypeOK
<1>1. Grown /\ DOMAIN tokens \subseteq DOMAIN tokens'
  BY DEF BringsOne, Grown
<1>2. PICK p \in New : tokens'[p] = t /\ \A i \in New \ {p} : Idle(tokens'[i])
  BY DEF BringsOne
<1>3. p \in DOMAIN tokens' /\ p \notin DOMAIN tokens /\ \A i \in DOMAIN tokens : i \in Nat /\ i < p
  BY <1>2, OldBeforeNew DEF New
<1>c. p \in Nat /\ \A i \in DOMAIN tokens' : i \in Nat
  <2>1. DOMAIN tokens' = 1 .. Len(tokens')
    BY DEF TypeInv, TypeOK, TokensTypeOK
  <2> QED
    BY <1>3, <2>1
<1>4. Openers' = Openers \union {p}
  BY <1>1, <1>2 DEF Grown, Openers, New, Idle
<1>5. \A i \in Openers : i \in DOMAIN tokens /\ tokens'[i] = tokens[i] /\ i # p
  BY <1>1, <1>3 DEF Openers, Grown
<1>6. \A i \in Openers : \A j \in DOMAIN tokens' :
         Closes(i, j)' => j \in DOMAIN tokens /\ Closes(i, j)
  <2> SUFFICES ASSUME NEW i \in Openers, NEW j \in DOMAIN tokens', Closes(i, j)'
               PROVE  j \in DOMAIN tokens /\ Closes(i, j)
    OBVIOUS
  <2>1. Closer(tokens'[j])
    BY ClosesEnds, EndsIs
  <2>2. j \in DOMAIN tokens
    BY <1>2, <2>1 DEF New, Idle
  <2> QED
    BY <1>1, <1>5, <2>2, ClosesKept
<1>7. \A i \in Openers : \A j \in DOMAIN tokens : Closes(i, j) => Closes(i, j)'
  BY <1>1, <1>5, ClosesKept
<1>8. \A j \in DOMAIN tokens' : ~Closes(p, j)'
  <2> SUFFICES ASSUME NEW j \in DOMAIN tokens', Closes(p, j)' PROVE FALSE
    OBVIOUS
  <2>1. tokens'[j].op = "ASMDIRMEM" /\ tokens'[j].id = Awaited(frames'[m])
    BY <1>2, ClosesEnds, EndsIs
  <2>2. Awaited(frames'[m]) \in Places(tokens')
    BY <2>1 DEF Places, IsDef
  <2> QED
    BY <1>a, <2>2 DEF Waiting
<1>9. \A f \in 1 .. m : Owns(frames'[f], t) => f = m
  <2> SUFFICES ASSUME NEW f \in 1 .. m, Owns(frames'[f], t) PROVE f = m
    OBVIOUS
  <2>1. frames'[f].id = frames'[m].id /\ frames'[f].id # NoId /\ frames'[m].id # NoId
    BY <1>a DEF Owns, Waiting
  <2>2. frames'[f].id \in IdsOf(frames'[f]) /\ frames'[f].id \in IdsOf(frames'[m])
    BY <2>1 DEF IdsOf
  <2> QED
    BY <1>a, <2>2 DEF IdsInUse
\* Of the old openers, only blocks that were open before own one.
<1>10. \A f \in 1 .. m : \A i \in Openers :
          Owns(frames'[f], tokens[i]) <=> f \in 1 .. n /\ Owns(frames[f], tokens[i])
  OBVIOUS
<1> HIDE DEF n, m
<1>11. OpenersKnown'
  <2> SUFFICES ASSUME NEW i \in Openers \union {p}
               PROVE  /\ tokens'[i].id \in 0 .. symbol_id' - 1
                      /\ \/ \E j \in DOMAIN tokens' : Closes(i, j)'
                         \/ \E f \in 1 .. m : Owns(frames'[f], tokens'[i])
    BY <1>4 DEF OpenersKnown, m
  <2>1. CASE i = p
    BY <1>a, <1>2, <2>1 DEF m
  <2>2. CASE i \in Openers
    <3>1. /\ tokens[i].id \in 0 .. symbol_id - 1
          /\ \/ \E j \in DOMAIN tokens : Closes(i, j)
             \/ \E f \in 1 .. n : Owns(frames[f], tokens[i])
      BY <2>2 DEF Nesting, OpenersKnown, n
    <3> QED
      BY <1>a, <1>b, <1>1, <1>5, <1>7, <1>10, <2>2, <3>1
  <2> QED
    BY <2>1, <2>2
<1>12. ClosedLater'
  BY <1>4, <1>6, <1>8 DEF Nesting, ClosedLater
<1>13. HeadsOwnNothing'
  <2> SUFFICES ASSUME NEW f \in 1 .. m, NEW i \in Openers \union {p}, Owns(frames'[f], tokens'[i])
               PROVE  frames'[f].at # "head"
    BY <1>4 DEF HeadsOwnNothing, m
  <2>1. CASE f = m
    BY <2>1 DEF m
  <2>2. CASE f # m
    <3>1. i \in Openers /\ f \in 1 .. n /\ Owns(frames[f], tokens[i]) /\ frames'[f] = frames[f]
      BY <1>2, <1>5, <1>9, <1>10, <2>2 DEF m, n
    <3> QED
      BY <3>1 DEF Nesting, HeadsOwnNothing, n
  <2> QED
    BY <2>1, <2>2
<1>14. OwnedInOrder'
  <2> SUFFICES ASSUME NEW f \in 1 .. m, NEW g \in 1 .. m, f <= g,
                      NEW a \in Openers \union {p}, NEW b \in Openers \union {p},
                      Owns(frames'[f], tokens'[a]), Owns(frames'[g], tokens'[b])
               PROVE  a <= b
    BY <1>4 DEF OwnedInOrder, m
  <2>1. CASE b = p
    BY <1>3, <1>c, <1>5, <2>1
  <2>2. CASE a = p /\ b \in Openers
    <3>1. f = m
      BY <1>2, <1>9, <2>2
    <3>2. g = m
      BY <1>a, <3>1
    <3> QED
      BY <1>5, <2>2, <3>2 DEF m
  <2>3. CASE a \in Openers /\ b \in Openers
    BY <1>5, <1>10, <2>3 DEF Nesting, OwnedInOrder, n
  <2> QED
    BY <2>1, <2>2, <2>3
<1>15. ClosedInside'
  <2> SUFFICES ASSUME NEW a \in Openers \union {p}, NEW b \in Openers \union {p},
                      NEW c \in DOMAIN tokens', Closes(a, c)', a < b, b < c
               PROVE  \E d \in DOMAIN tokens' : Closes(b, d)' /\ d < c
    BY <1>4 DEF ClosedInside
  <2>1. a \in Openers /\ c \in DOMAIN tokens /\ Closes(a, c)
    BY <1>6, <1>8
  <2>2. b \in Openers
    BY <1>3, <1>c, <2>1
  <2>3. PICK d \in DOMAIN tokens : Closes(b, d) /\ d < c
    BY <2>1, <2>2 DEF Nesting, ClosedInside
  <2> QED
    BY <1>1, <1>7, <2>2, <2>3
<1> QED
  BY <1>11, <1>12, <1>13, <1>14, <1>15 DEF Nesting

EndToken(f) == IF f.kind = "repeat" THEN Def(f.id + 1, "end repeat") ELSE Def(f.id, "end if")

LEMMA DefSame ==
    ASSUME NEW id, NEW jd, NEW by, NEW cy
    PROVE  Def(id, by) = Def(jd, cy) <=> id = jd /\ by = cy
<1>1. id = jd /\ by = cy => Def(id, by) = Def(jd, cy)
  OBVIOUS
<1>2. Def(id, by).id = id /\ Def(jd, cy).id = jd /\ Def(id, by).by = by /\ Def(jd, cy).by = cy
  BY DefIs
<1> QED
  BY <1>1, <1>2

LEMMA EndsOne ==
    ASSUME NEW t, NEW id, NEW by
    PROVE  Ends(t, Def(id, by)) <=>
              \/ t.op = "JCC" /\ by = "end if" /\ id = t.id
              \/ t.op = "ASMDIRMEM" /\ by = "end repeat" /\ id = t.id + 1
<1> DEFINE y == t.id + 1
           endIf == "end if"
           endRepeat == "end repeat"
<1>1. Ends(t, Def(id, by)) <=>
         \/ t.op = "JCC" /\ Def(id, by) = Def(t.id, endIf)
         \/ t.op = "ASMDIRMEM" /\ Def(id, by) = Def(y, endRepeat)
  BY Zenon DEF Ends
<1> HIDE DEF y, endIf, endRepeat
<1>2. Def(id, by) = Def(t.id, endIf) <=> id = t.id /\ by = endIf
  BY DefSame
<1>3. Def(id, by) = Def(y, endRepeat) <=> id = y /\ by = endRepeat
  BY DefSame
<1> QED
  BY <1>1, <1>2, <1>3 DEF y, endIf, endRepeat

\* The end of a block closes what the block owns.
LEMMA EndOfOwner ==
    ASSUME NEW f, NEW t, f.kind \in {"repeat", "if"}, f.id \in Nat, t.id \in Nat, Opener(t)
    PROVE  Ends(t, EndToken(f)) <=> Owns(f, t)
<1>1. CASE f.kind = "repeat"
  <2>1. EndToken(f) = Def(f.id + 1, "end repeat")
    BY <1>1 DEF EndToken
  <2>2. Ends(t, EndToken(f)) <=> t.op = "ASMDIRMEM" /\ f.id + 1 = t.id + 1
    BY <2>1, EndsOne
  <2>3. f.id + 1 = t.id + 1 <=> f.id = t.id
    OBVIOUS
  <2> QED
    BY <1>1, <2>2, <2>3 DEF Owns, Opener
<1>2. CASE f.kind = "if"
  <2>1. EndToken(f) = Def(f.id, "end if")
    BY <1>2 DEF EndToken
  <2>2. Ends(t, EndToken(f)) <=> t.op = "JCC" /\ f.id = t.id
    BY <2>1, EndsOne
  <2> QED
    BY <1>2, <2>2 DEF Owns, Opener
<1> QED
  BY <1>1, <1>2

\* The innermost block closes.
LEMMA NestingClosed ==
    ASSUME TypeInv, TypeInv', Nesting, symbol_id <= symbol_id',
           frames # <<>>, frames' = Pop(frames),
           NEW t, BringsOne(t), ~Opener(t),
           t = EndToken(frames[Len(frames)])
    PROVE  Nesting'
<1> DEFINE n == Len(frames)
           top == frames[n]
<1>a. /\ n \in Nat \ {0} /\ n \in 1 .. n /\ frames \in Frames
      /\ top \in [kind : {"repeat", "if"}, id : Nat, at : {"head", "condition", "body"}]
      /\ Len(frames') = n - 1 /\ \A f \in 1 .. n - 1 : frames'[f] = frames[f]
  BY LenProperties, Topmost, Popping DEF TypeInv, TypeOK, ParserTypeOK, Frames
<1>t. top.kind \in {"repeat", "if"} /\ top.id \in Nat
  BY <1>a
<1>n. n \in Nat \ {0}
  BY <1>a
<1>m. Len(frames') = n - 1 /\ \A f \in 1 .. n - 1 : frames'[f] = frames[f]
  BY <1>a
<1>e. t = EndToken(top)
  OBVIOUS
<1>o. \A i \in Openers : \A f \in 1 .. n : Owns(frames[f], tokens[i]) => frames[f].at # "head"
  BY DEF Nesting, HeadsOwnNothing
<1>r. \A f, g \in 1 .. n : \A a, b \in Openers :
         f <= g /\ Owns(frames[f], tokens[a]) /\ Owns(frames[g], tokens[b]) => a <= b
  BY DEF Nesting, OwnedInOrder
<1>k. \A i \in Openers : \/ \E j \in DOMAIN tokens : Closes(i, j)
                         \/ \E f \in 1 .. n : Owns(frames[f], tokens[i])
  BY DEF Nesting, OpenersKnown
<1>l. frames[n] = top
  OBVIOUS
<1> HIDE DEF n, top
<1>d. \A f \in 1 .. n : f <= n /\ (f \in 1 .. n - 1 \/ f = n)
  BY <1>n
<1>f. n \in 1 .. n /\ 1 .. n - 1 \subseteq 1 .. n
  BY <1>n
<1>b. symbol_id \in Nat /\ symbol_id' \in Nat /\ 0 .. symbol_id - 1 \subseteq 0 .. symbol_id' - 1
  BY Below DEF TypeInv, TypeOK, TableTypeOK
<1>1. Grown /\ DOMAIN tokens \subseteq DOMAIN tokens'
  BY DEF BringsOne, Grown
<1>2. PICK p \in New : tokens'[p] = t /\ \A i \in New \ {p} : Idle(tokens'[i])
  BY DEF BringsOne
<1>3. p \in DOMAIN tokens' /\ p \notin DOMAIN tokens /\ \A i \in DOMAIN tokens : i \in Nat /\ i < p
  BY <1>2, OldBeforeNew DEF New
<1>4. Openers' = Openers
  BY <1>1, <1>2 DEF Grown, Openers, New, Idle
<1>5. \A i \in Openers : i \in DOMAIN tokens /\ tokens'[i] = tokens[i] /\ Opener(tokens[i])
  BY <1>1 DEF Openers, Grown
<1>6. \A i \in Openers : \A j \in DOMAIN tokens' :
         Closes(i, j)' => j = p \/ (j \in DOMAIN tokens /\ Closes(i, j))
  <2> SUFFICES ASSUME NEW i \in Openers, NEW j \in DOMAIN tokens', Closes(i, j)', j # p
               PROVE  j \in DOMAIN tokens /\ Closes(i, j)
    OBVIOUS
  <2>1. Closer(tokens'[j])
    BY ClosesEnds, EndsIs
  <2>2. j \in DOMAIN tokens
    BY <1>2, <2>1 DEF New, Idle
  <2> QED
    BY <1>1, <1>5, <2>2, ClosesKept
<1>7. \A i \in Openers : \A j \in DOMAIN tokens : Closes(i, j) => Closes(i, j)'
  BY <1>1, <1>5, ClosesKept
<1>c. \A i \in Openers : tokens[i].id \in Nat
  <2>1. \A i \in Openers : tokens[i].id \in 0 .. symbol_id - 1
    BY DEF Nesting, OpenersKnown
  <2>2. 0 .. symbol_id - 1 \subseteq Nat
    BY <1>b
  <2> QED
    BY <2>1, <2>2
<1>8. \A i \in Openers : Closes(i, p)' <=> Owns(top, tokens[i])
  <2> SUFFICES ASSUME NEW i \in Openers PROVE Closes(i, p)' <=> Owns(top, tokens[i])
    OBVIOUS
  <2>1. tokens'[i] = tokens[i] /\ tokens[i].id \in Nat /\ Opener(tokens[i]) /\ tokens'[p] = t
    BY <1>c, <1>2, <1>5
  <2> QED
    BY <1>e, <1>t, <2>1, ClosesEnds, EndOfOwner
<1>9. OpenersKnown'
  <2> SUFFICES ASSUME NEW i \in Openers
               PROVE  /\ tokens'[i].id \in 0 .. symbol_id' - 1
                      /\ \/ \E j \in DOMAIN tokens' : Closes(i, j)'
                         \/ \E f \in 1 .. n - 1 : Owns(frames'[f], tokens'[i])
    BY <1>m, <1>4 DEF OpenersKnown
  <2>1. tokens[i].id \in 0 .. symbol_id - 1
    BY DEF Nesting, OpenersKnown
  <2>2. ASSUME NEW f \in 1 .. n, Owns(frames[f], tokens[i])
        PROVE  \/ Closes(i, p)'
               \/ f \in 1 .. n - 1 /\ Owns(frames'[f], tokens'[i])
    <3>1. CASE f = n
      BY <1>8, <1>l, <2>2, <3>1
    <3>2. CASE f # n
      BY <1>d, <1>m, <1>5, <2>2, <3>2
    <3> QED
      BY <3>1, <3>2
  <2> QED
    BY <1>b, <1>k, <1>1, <1>3, <1>5, <1>7, <2>1, <2>2
<1>10. ClosedLater'
  BY <1>3, <1>4, <1>5, <1>6 DEF Nesting, ClosedLater
<1>11. HeadsOwnNothing'
  BY <1>f, <1>m, <1>o, <1>4, <1>5 DEF HeadsOwnNothing
<1>12. OwnedInOrder'
  <2> SUFFICES ASSUME NEW f \in 1 .. n - 1, NEW g \in 1 .. n - 1, f <= g,
                      NEW a \in Openers, NEW b \in Openers,
                      Owns(frames'[f], tokens'[a]), Owns(frames'[g], tokens'[b])
               PROVE  a <= b
    BY <1>m, <1>4 DEF OwnedInOrder
  <2>1. Owns(frames[f], tokens[a]) /\ Owns(frames[g], tokens[b])
    BY <1>m, <1>5
  <2> QED
    BY <1>f, <1>r, <2>1
<1>13. ClosedInside'
  <2> SUFFICES ASSUME NEW a \in Openers, NEW b \in Openers, NEW c \in DOMAIN tokens',
                      Closes(a, c)', a < b, b < c
               PROVE  \E d \in DOMAIN tokens' : Closes(b, d)' /\ d < c
    BY <1>4 DEF ClosedInside
  <2>1. CASE c \in DOMAIN tokens
    <3>1. Closes(a, c)
      BY <1>3, <1>6, <2>1
    <3>2. PICK d \in DOMAIN tokens : Closes(b, d) /\ d < c
      BY <2>1, <3>1 DEF Nesting, ClosedInside
    <3> QED
      BY <1>1, <1>7, <3>2
  <2>2. CASE c = p
    <3>1. Owns(frames[n], tokens[a])
      BY <1>8, <1>l, <2>2
    <3>2. ASSUME NEW f \in 1 .. n, Owns(frames[f], tokens[b]) PROVE FALSE
      <4>1. f <= n
        BY <1>d
      <4>2. b <= a
        BY <1>f, <1>r, <3>1, <3>2, <4>1
      <4>3. a \in Nat /\ b \in Nat
        BY <1>3, <1>5
      <4> QED
        BY <4>2, <4>3
    <3>3. PICK d \in DOMAIN tokens : Closes(b, d)
      BY <1>k, <3>2
    <3> QED
      BY <1>1, <1>3, <1>7, <2>2, <3>3
  <2> QED
    BY <1>6, <2>1, <2>2
<1> QED
  BY <1>9, <1>10, <1>11, <1>12, <1>13 DEF Nesting

-----------------------------------------------------------------------------
LEMMA AppendedFrame ==
    ASSUME NEW fs \in Frames, NEW f
    PROVE  LET gs == Append(fs, f) IN
           /\ Len(gs) = Len(fs) + 1 /\ gs[Len(fs) + 1] = f
           /\ \A i \in 1 .. Len(fs) : gs[i] = fs[i]
BY AppendProperties DEF Frames

LEMMA MarkingAt ==
    ASSUME NEW fs \in Frames, fs # <<>>, NEW at \in {"head", "condition", "body"}
    PROVE  LET gs == [fs EXCEPT ![Len(fs)].at = at] IN
           /\ Len(gs) = Len(fs) /\ gs[Len(fs)].at = at
           /\ \A i \in 1 .. Len(fs) : /\ gs[i].kind = fs[i].kind /\ gs[i].id = fs[i].id
                                     /\ i # Len(fs) => gs[i] = fs[i]
<1> DEFINE gs == [fs EXCEPT ![Len(fs)].at = at]
<1>1. DOMAIN fs = 1 .. Len(fs) /\ Len(fs) \in 1 .. Len(fs)
  BY Topmost, LenProperties DEF Frames
<1>2. fs[Len(fs)] \in [kind : {"repeat", "if"}, id : Nat, at : {"head", "condition", "body"}]
  BY <1>1, ElementOfSeq DEF Frames
<1>3. gs[Len(fs)] = [fs[Len(fs)] EXCEPT !.at = at]
  BY <1>1
<1>4. gs[Len(fs)].at = at
  BY <1>2, <1>3
<1>5. \A i \in 1 .. Len(fs) : i # Len(fs) => gs[i] = fs[i]
  BY <1>1
<1> QED
  BY <1>4, <1>5, Marking

\* An id that is not taken yet opens nothing.
LEMMA FreshOwnsNothing ==
    ASSUME TypeInv, Nesting, NEW f, f.id = symbol_id
    PROVE  \A i \in Openers : ~Owns(f, tokens[i])
<1>1. symbol_id \in Nat
  BY DEF TypeInv, TypeOK, TableTypeOK
<1>2. \A i \in Openers : tokens[i].id \in 0 .. symbol_id - 1
  BY DEF Nesting, OpenersKnown
<1>3. \A i \in Openers : tokens[i].id # symbol_id
  BY <1>1, <1>2
<1> QED
  BY <1>3 DEF Owns

\* Ids are not given back.
LEMMA IdsGrow ==
    ASSUME TypeInv, Step
    PROVE  symbol_id <= symbol_id'
<1>1. symbol_id \in Nat
  BY DEF TypeInv, TypeOK, TableTypeOK
<1>2. symbol_id' = symbol_id \/ symbol_id' = symbol_id + 1 \/ symbol_id' = symbol_id + 2
  BY TableChange DEF Inserted, NowResolved
<1> QED
  BY <1>1, <1>2

LEMMA NestingKept ==
    ASSUME TableInv, TableInv', PlacesInv, PlacesInv', Nesting, Step, ~has_encountered_error'
    PROVE  Nesting'
<1> DEFINE n == Len(frames)
<1>1. /\ TypeInv /\ TypeInv' /\ symbol_id <= symbol_id'
      /\ IdsInUse(symbols, frames, symbol_id)
      /\ IdsInUse(symbols, frames, symbol_id)'
      /\ Waiting /\ Waiting'
  BY IdsGrow, StepFrom DEF TableInv, StackInv, PlacesInv
<1>2. frames \in Frames /\ n \in Nat /\ symbol_id \in Nat \ {0} /\ symbol_id' \in Nat \ {0}
  BY <1>1, LenProperties DEF TypeInv, TypeOK, ParserTypeOK, TableTypeOK, Frames
<1>3. \A j \in 1 .. n : frames[j].id \in 0 .. symbol_id' - 1
  <2> TAKE j \in 1 .. n
  <2>1. frames[j].id # NoId /\ IdsOf(frames[j]) \subseteq 1 .. symbol_id - 1
    BY <1>1 DEF Waiting, IdsInUse
  <2>2. frames[j].id \in IdsOf(frames[j])
    BY <2>1 DEF IdsOf
  <2>3. frames[j].id \in 1 .. symbol_id - 1
    BY <2>1, <2>2
  <2>4. 1 .. symbol_id - 1 \subseteq 1 .. symbol_id' - 1
    BY <1>1, <1>2, Below
  <2>5. frames[j].id \in 1 .. symbol_id' - 1
    BY <2>3, <2>4
  <2> QED
    BY <2>5
<1> HIDE DEF n
<1>4. CASE BringsNone /\ UNCHANGED frames
  BY <1>1, <1>2, <1>4, NestingIdle DEF n
<1>5. CASE /\ BringsNone /\ frames # <<>> /\ frames[n].at # "head"
           /\ frames' = [frames EXCEPT ![n].at = "body"]
  <2>1. /\ Len(frames') = n /\ frames'[n].at = "body"
        /\ \A i \in 1 .. n : /\ frames'[i].kind = frames[i].kind /\ frames'[i].id = frames[i].id
                             /\ i # n => frames'[i] = frames[i]
    BY <1>2, <1>5, MarkingAt DEF n
  <2>2. \A i \in 1 .. n : frames'[i].at = "head" => frames[i].at = "head"
    BY <2>1
  <2> QED
    BY <1>1, <1>2, <1>5, <2>1, <2>2, NestingIdle DEF n
<1>6. CASE BringsNone /\ frames' = Append(frames, Frame("if", symbol_id, "head"))
  <2>1. /\ Len(frames') = n + 1 /\ frames'[n + 1] = Frame("if", symbol_id, "head")
        /\ \A i \in 1 .. n : frames'[i] = frames[i]
    BY <1>2, <1>6, AppendedFrame DEF n
  <2>2. frames'[n + 1].id = symbol_id
    BY <2>1 DEF Frame
  <2>3. \A g \in 1 .. n + 1 : g \notin 1 .. n => g = n + 1
    BY <1>2
  <2>4. \A g \in 1 .. Len(frames') : g \notin 1 .. n =>
           \A i \in Openers : ~Owns(frames'[g], tokens[i])
    BY <1>1, <2>1, <2>2, <2>3, FreshOwnsNothing
  <2>5. n <= Len(frames')
    BY <1>2, <2>1
  <2> QED
    BY <1>1, <1>6, <2>1, <2>4, <2>5, NestingIdle DEF n
<1>7. CASE /\ BringsOne(Def(symbol_id, "repeat"))
           /\ frames' = Append(frames, Frame("repeat", symbol_id, "body"))
           /\ symbol_id' = symbol_id + 2
  <2> DEFINE t == Def(symbol_id, "repeat")
             m == Len(frames')
  <2>1. /\ m = n + 1 /\ frames'[n + 1] = Frame("repeat", symbol_id, "body")
        /\ \A i \in 1 .. n : frames'[i] = frames[i]
    BY <1>2, <1>7, AppendedFrame DEF n
  <2>2. /\ frames'[m].id = symbol_id /\ frames'[m].kind = "repeat" /\ frames'[m].at = "body"
    BY <2>1 DEF Frame
  <2>3. /\ BringsOne(t) /\ Opener(t) /\ ~Closer(t) /\ Owns(frames'[m], t) /\ t.id = symbol_id
    BY <1>7, <2>2 DEF Opener, Closer, Owns, Def, Token
  <2>4. \A i \in Openers : ~Owns(frames'[m], tokens[i])
    BY <1>1, <2>2, FreshOwnsNothing
  <2> HIDE DEF t, m
  <2>5. /\ t.id \in 0 .. symbol_id' - 1 /\ n <= m /\ m \in 1 .. m /\ n \in Nat
        /\ \A f \in 1 .. m : f # m => f \in 1 .. n
        /\ \A f \in 1 .. n : f # m
    BY <1>2, <1>7, <2>1, <2>3
  <2>6. /\ \A f \in 1 .. n : f # m => frames'[f] = frames[f]
        /\ \A f \in 1 .. n : f = m => \A i \in Openers : ~Owns(frames[f], tokens[i])
    BY <2>1, <2>5
  <2> QED
    BY <1>1, <2>2, <2>3, <2>4, <2>5, <2>6, NestingOpened DEF n, m
<1>8. CASE /\ frames # <<>> /\ frames' = [frames EXCEPT ![n].at = "condition"]
           /\ frames[n].kind = "if" /\ frames[n].at = "head"
           /\ BringsOne(Ref("JCC", frames[n].id, "if"))
  <2> DEFINE t == Ref("JCC", frames[n].id, "if")
  <2>1. /\ Len(frames') = n /\ frames'[n].at = "condition"
        /\ \A i \in 1 .. n : /\ frames'[i].kind = frames[i].kind /\ frames'[i].id = frames[i].id
                             /\ i # n => frames'[i] = frames[i]
    BY <1>2, <1>8, MarkingAt DEF n
  <2>2. n \in 1 .. n
    BY <1>2, <1>8, Topmost DEF n, Frames
  <2>3. frames'[n].kind = "if" /\ frames'[n].id = frames[n].id
    BY <1>8, <2>1, <2>2
  <2>4. /\ BringsOne(t) /\ Opener(t) /\ ~Closer(t) /\ Owns(frames'[n], t) /\ t.id = frames[n].id
    BY <1>8, <2>3 DEF Opener, Closer, Owns, Ref, Token
  <2>5. \A i \in Openers : ~Owns(frames[n], tokens[i])
    BY <1>8, <2>2 DEF Nesting, HeadsOwnNothing, n
  <2>6. \A i \in Openers : ~Owns(frames'[n], tokens[i])
    BY <1>8, <2>3, <2>5 DEF Owns
  <2>7. t.id \in 0 .. symbol_id' - 1
    BY <1>3, <2>2, <2>4
  <2>8. frames'[n].at # "head" /\ n <= n
    BY <1>2, <2>1
  <2> HIDE DEF t
  <2>9. \A f \in 1 .. n : f # n => frames'[f] = frames[f]
    BY <2>1
  <2>10. \A f \in 1 .. n : f = n => \A i \in Openers : ~Owns(frames[f], tokens[i])
    BY <2>5
  <2>11. Len(frames') = n
    BY <2>1
  <2> QED
    BY <1>1, <2>2, <2>4, <2>6, <2>7, <2>8, <2>9, <2>10, <2>11, NestingOpened DEF n
<1>9. CASE /\ frames # <<>> /\ frames' = Pop(frames)
           /\ BringsOne(EndToken(frames[n]))
  <2>1. ~Opener(EndToken(frames[n]))
    BY DEF EndToken, Opener, Def, Token
  <2> QED
    BY <1>1, <1>9, <2>1, NestingClosed DEF n
<1>10. \/ frames # <<>> /\ frames' = Pop(frames) /\ BringsOne(EndToken(frames[n]))
       \/ ~(/\ frames # <<>> /\ frames' = Pop(frames)
            /\ IF frames[n].kind = "repeat" THEN BringsOne(Def(frames[n].id + 1, "end repeat"))
               ELSE BringsOne(Def(frames[n].id, "end if")))
  BY Zenon DEF EndToken
<1> QED
  BY <1>4, <1>5, <1>6, <1>7, <1>8, <1>9, <1>10, BlockChange DEF n

\* Where the parser stands once all is read.
LEMMA OutsideKept ==
    ASSUME TypeInv, Outside, Step, ~has_encountered_error'
    PROVE  Outside'
<1> DEFINE Out == {"hla", "decl", "dump", "done"}
           Same == UNCHANGED frames /\ state' # "done" /\ (state' \in Out => state \in Out)
<1>1. ASSUME NEW name, NEW system, ProgramHead(system, name) \/ ProcedureHead(name)
      PROVE  Same
  BY <1>1 DEF ProgramHead, ProcedureHead
<1>2. ASSUME NEW name, NEW literals, AddFastcall(name, literals)
      PROVE  Same
  BY <1>2 DEF AddFastcall, AtItem, parser
<1>3. ASSUME NEW name, NEW d, AddVariable(name, d)
      PROVE  Same
  BY <1>3 DEF AddVariable, parser
<1>4. ASSUME NEW name, NEW op, \/ Operand(op, name) \/ Offset(name) \/ AddExit(name)
                               \/ AddLabel(name) \/ Jump(op, name)
      PROVE  Same
  BY <1>4 DEF Operand, Offset, AddExit, AddLabel, Jump, parser, AtItem
<1>5. ASSUME NEW i, Address(i) \/ AddContinue(i) \/ AddBreak(i) \/ DumpVariable(i)
      PROVE  Same
  BY <1>5 DEF Address, AddContinue, AddBreak, DumpVariable, JumpOut, parser, AtItem
<1>6. ASSUME Begin \/ FinHla \/ Instruction
      PROVE  Same
  BY <1>6 DEF Begin, FinHla, Instruction, parser, AtItem
<1>7. ASSUME EndUnit PROVE UNCHANGED frames /\ frames = <<>> /\ state' # "done"
  BY <1>7 DEF EndUnit
<1>8. ASSUME SyntaxError \/ UnknownSymbol \/ Abort PROVE FALSE
  BY <1>8 DEF SyntaxError, UnknownSymbol, Abort, IssueError
<1>9. ASSUME AddRepeat \/ FinRepeat \/ AddIf \/ AddLogic \/ Then \/ FinIf
      PROVE  state' \notin Out
  BY <1>9 DEF AddRepeat, FinRepeat, AddIf, AddLogic, Then, FinIf, Top, Opening, AtItem
<1>10. ASSUME EndDump PROVE Outside'
  BY <1>10 DEF EndDump, table, flags, Outside, Variables, Dumped
<1>11. Same => Outside'
  BY DEF Outside
<1>12. (UNCHANGED frames /\ frames = <<>> /\ state' # "done") => Outside'
  BY DEF Outside
<1>13. state' \notin Out => Outside'
  BY DEF Outside
<1> HIDE DEF Same, Out
<1> QED
  BY <1>1, <1>2, <1>3, <1>4, <1>5, <1>6, <1>7, <1>8, <1>9, <1>10, <1>11, <1>12, <1>13 DEF Step

LEMMA InitBlocks == Init => BlocksInv
<1> SUFFICES ASSUME Init PROVE Nesting /\ Outside
  BY DEF BlocksInv
<1>1. tokens = <<>> /\ frames = <<>> /\ state = "hla"
  BY DEF Init
<1>2. Openers = {}
  BY <1>1 DEF Openers
<1> QED
  BY <1>1, <1>2 DEF Nesting, OpenersKnown, ClosedLater, HeadsOwnNothing, OwnedInOrder,
                    ClosedInside, Outside

LEMMA BlocksInductive ==
    TableInv /\ TableInv' /\ PlacesInv /\ PlacesInv' /\ BlocksInv /\ [Next]_vars => BlocksInv'
<1>1. ASSUME TableInv, TableInv', PlacesInv, PlacesInv', BlocksInv, Step PROVE BlocksInv'
  <2> SUFFICES ASSUME ~has_encountered_error' PROVE Nesting' /\ Outside'
    BY DEF BlocksInv
  <2>1. TypeInv /\ Nesting /\ Outside
    BY <1>1, StepFrom DEF BlocksInv, TableInv, StackInv
  <2> QED
    BY <1>1, <2>1, NestingKept, OutsideKept
<1>2. ASSUME BlocksInv, UNCHANGED vars PROVE BlocksInv'
  <2>1. UNCHANGED <<symbols, frames, symbol_id, tokens, state, has_encountered_error>>
    BY <1>2 DEF vars, parser, table, flags
  <2>2. (Nesting' <=> Nesting) /\ (Outside' <=> Outside)
    BY <2>1 DEF Nesting, OpenersKnown, ClosedLater, HeadsOwnNothing, OwnedInOrder,
                ClosedInside, Openers, Closes, Outside, Variables, Dumped
  <2> QED
    BY <1>2, <2>1, <2>2 DEF BlocksInv
<1> QED
  BY <1>1, <1>2 DEF Next, Halted

\* Once no block is open, every opener has its closer, the only one, in its place.
LEMMA WellNested ==
    ASSUME OnePlaceEach, Nesting, frames = <<>>
    PROVE  LET closer(i) == {j \in DOMAIN tokens : Closes(i, j)}
               openers == {i \in DOMAIN tokens : Opens(i)}
           IN  /\ \A i \in openers : \E j \in closer(i) : closer(i) = {j} /\ i < j
               /\ \A a, b \in openers : \A c \in closer(a), d \in closer(b) :
                     a < b /\ b < c => d < c
<1> DEFINE closer(i) == {j \in DOMAIN tokens : Closes(i, j)}
<1>1. {i \in DOMAIN tokens : Opens(i)} = Openers
  BY DEF Opens, Openers, Opener
<1>2. 1 .. Len(frames) = {}
  OBVIOUS
<1>3. \A i \in Openers : \E j \in DOMAIN tokens : Closes(i, j)
  BY <1>2 DEF Nesting, OpenersKnown
<1>4. \A i \in Openers : \A j, k \in closer(i) : j = k
  <2> SUFFICES ASSUME NEW i \in Openers, NEW j \in closer(i), NEW k \in closer(i)
               PROVE  j = k
    OBVIOUS
  <2>1. /\ j \in DOMAIN tokens /\ k \in DOMAIN tokens
        /\ Ends(tokens[i], tokens[j]) /\ Ends(tokens[i], tokens[k])
    BY ClosesEnds
  <2>2. tokens[j] = tokens[k]
    <3> DEFINE y == tokens[i].id + 1
    <3>1. CASE tokens[i].op = "JCC"
      <4>1. tokens[j] = Def(tokens[i].id, "end if") /\ tokens[k] = Def(tokens[i].id, "end if")
        BY <2>1, <3>1 DEF Ends
      <4> QED
        BY <4>1
    <3>2. CASE tokens[i].op # "JCC"
      <4>1. tokens[j] = Def(y, "end repeat") /\ tokens[k] = Def(y, "end repeat")
        BY <2>1, <3>2, Zenon DEF Ends
      <4> QED
        BY <4>1, Zenon
    <3> QED
      BY <3>1, <3>2
  <2>3. tokens[j].op = "ASMDIRMEM" /\ tokens[k].op = "ASMDIRMEM"
    BY <2>1, EndsIs
  <2> QED
    BY <2>1, <2>2, <2>3 DEF OnePlaceEach, IsDef
<1>5. \A i \in Openers : \A j \in closer(i) : i < j
  BY DEF Nesting, ClosedLater
<1>6. \A i \in Openers : \E j \in closer(i) : closer(i) = {j} /\ i < j
  <2> TAKE i \in Openers
  <2>1. PICK j \in closer(i) : TRUE
    BY <1>3
  <2>2. closer(i) = {j}
    BY <1>4, <2>1
  <2> QED
    BY <1>5, <2>1, <2>2
<1>7. \A a, b \in Openers : \A c \in closer(a), d \in closer(b) : a < b /\ b < c => d < c
  <2> SUFFICES ASSUME NEW a \in Openers, NEW b \in Openers, NEW c \in closer(a),
                      NEW d \in closer(b), a < b, b < c
               PROVE  d < c
    OBVIOUS
  <2>1. PICK e \in DOMAIN tokens : Closes(b, e) /\ e < c
    BY DEF Nesting, ClosedInside
  <2>2. e = d
    BY <1>4, <2>1
  <2> QED
    BY <2>1, <2>2
<1> HIDE DEF closer
<1> QED
  BY <1>1, <1>6, <1>7 DEF closer

\* In an accepted program every loop and every condition is a block of the token array,
\* with one end, after its start, and blocks do not overlap (add_repeat, fin_repeat,
\* add_if, add_logic, fin_if), for any limits and any nesting.
THEOREM BlocksNest == Spec => []BlocksWellNested
<1>1. PlacesInv /\ BlocksInv => BlocksWellNested
  <2> SUFFICES ASSUME PlacesInv, BlocksInv, Accepted PROVE BlocksWellNested
    BY DEF BlocksWellNested
  <2>1. OnePlaceEach /\ Nesting /\ frames = <<>>
    BY DEF PlacesInv, BlocksInv, Accepted, Outside
  <2> QED
    BY <2>1, WellNested DEF BlocksWellNested
<1> QED
  BY <1>1, InitTable, TableInductive, InitPlaces, PlacesInductive, InitBlocks, BlocksInductive,
     PTL DEF Spec

-----------------------------------------------------------------------------
(***************************************************************************)
(* References.  What is referred to is a place already, or will be: a      *)
(* symbol, or a block that is open.                                        *)
(***************************************************************************)
\* No name begins or ends with an underscore or has two in a row.
NamesPlain == \A name \in Names : \A i \in DOMAIN name : name[i] # ""

Counts(t) == IsRef(t) /\ t.by \notin {"undeclared", "offset", "block", "stale"}

Target(id, ts, syms, fs) ==
    \/ id \in Places(ts)
    \/ \E k \in DOMAIN syms : syms[k].id = id
    \/ \E j \in 1 .. Len(fs) : id \in IdsOf(fs[j])

Targeted ==
    \A i \in DOMAIN tokens :
        Counts(tokens[i]) => Target(tokens[i].id, tokens, symbols, frames)

ResolvedPlaced ==
    \A k \in DOMAIN symbols :
        symbols[k].kind = "label" /\ symbols[k].word # 0 => symbols[k].id \in Places(tokens)

Started ==
    \A j \in 1 .. Len(frames) : frames[j].kind = "repeat" => frames[j].id \in Places(tokens)

\* With plain names, no key of the table is the name that _add_label makes of a scoped one.
PlainKey(key) == \A i \in DOMAIN key : i > 2 => key[i] # ""
PlainKeys == \A k \in DOMAIN symbols : PlainKey(k)

References == Targeted /\ ResolvedPlaced /\ Started /\ PlainKeys

RefsInv == ~has_encountered_error => References

IsJoin(u, s, t) ==
    /\ Len(s) \in Nat /\ Len(t) \in Nat /\ DOMAIN s = 1 .. Len(s) /\ DOMAIN t = 1 .. Len(t)
    /\ Len(u) = Len(s) + Len(t) /\ DOMAIN u = 1 .. Len(s) + Len(t)
    /\ \A i \in 1 .. Len(s) : u[i] = s[i]
    /\ \A i \in 1 .. Len(t) : u[Len(s) + i] = t[i]

LEMMA Joined ==
    ASSUME NEW S, NEW s \in Seq(S), NEW t \in Seq(S)
    PROVE  s \o t \in Seq(S) /\ IsJoin(s \o t, s, t)
<1> DEFINE u == s \o t
           n == Len(s)
           m == Len(t)
<1>1. n \in Nat /\ m \in Nat /\ DOMAIN s = 1 .. n /\ DOMAIN t = 1 .. m
  BY LenProperties
<1>2. u \in Seq(S) /\ Len(u) = n + m
  BY ConcatProperties
<1>3. \A i \in 1 .. n + m : u[i] = IF i <= n THEN s[i] ELSE t[i - n]
  BY ConcatProperties
<1>4. DOMAIN u = 1 .. n + m
  BY <1>2, LenProperties
<1> HIDE DEF u, n, m
<1>5. ASSUME NEW i \in 1 .. n PROVE u[i] = s[i]
  <2>1. i \in 1 .. n + m /\ i <= n
    BY <1>1
  <2> QED
    BY <1>3, <2>1
<1>6. ASSUME NEW i \in 1 .. m PROVE u[n + i] = t[i]
  <2>1. n + i \in 1 .. n + m /\ ~(n + i <= n) /\ (n + i) - n = i
    BY <1>1
  <2> QED
    BY <1>3, <2>1
<1> QED
  BY <1>1, <1>2, <1>4, <1>5, <1>6 DEF IsJoin, u, n, m

\* The parts of a name and of the scope, where they stand in a key.
LEMMA ScopedParts ==
    ASSUME NEW s \in Seq(Parts), NEW name \in Seq(Parts), s # NULL
    PROVE  LET key == MakeScopedName(s, name) IN
           /\ Len(s) \in Nat \ {0} /\ Len(name) \in Nat
           /\ DOMAIN s = 1 .. Len(s) /\ DOMAIN name = 1 .. Len(name)
           /\ key \in Seq(Parts) /\ DOMAIN key = 1 .. 2 + Len(s) + Len(name)
           /\ key[1] = ""
           /\ \A i \in 1 .. Len(s) : key[2 + i] = s[i]
           /\ \A i \in 1 .. Len(name) : key[2 + Len(s) + i] = name[i]
<1> DEFINE head == <<"", "">>
           pre == head \o s
           key == pre \o name
           n == Len(s)
           m == Len(name)
           q == Len(pre)
<1>1. head \in Seq(Parts) /\ Len(head) = 2 /\ head[1] = ""
  BY NamesAssumption, PairIsSeq
<1>2. n # 0
  BY EmptySeq DEF NULL
<1>3. MakeScopedName(s, name) = key
  BY DEF MakeScopedName
<1> HIDE DEF head
<1>a. pre \in Seq(Parts) /\ IsJoin(pre, head, s)
  BY <1>1, Joined
<1> HIDE DEF pre
<1>b. key \in Seq(Parts) /\ IsJoin(key, pre, name)
  BY <1>a, Joined
<1>4. /\ n \in Nat /\ DOMAIN s = 1 .. n /\ pre \in Seq(Parts) /\ q = Len(head) + n
      /\ \A i \in 1 .. Len(head) : pre[i] = head[i]
      /\ \A i \in 1 .. n : pre[Len(head) + i] = s[i]
  BY <1>a DEF IsJoin
<1> HIDE DEF key
<1>5. /\ m \in Nat /\ DOMAIN name = 1 .. m /\ key \in Seq(Parts) /\ DOMAIN key = 1 .. q + m
      /\ \A i \in 1 .. q : key[i] = pre[i]
      /\ \A i \in 1 .. m : key[q + i] = name[i]
  BY <1>b DEF IsJoin
<1> HIDE DEF n, m, q
<1>6. q = 2 + n
  BY <1>1, <1>4
<1>7. 1 \in 1 .. q /\ 1 \in 1 .. 2 /\ \A i \in 1 .. n : 2 + i \in 1 .. q
  BY <1>4, <1>6
<1>8. key[1] = ""
  BY <1>1, <1>4, <1>5, <1>7
<1>9. ASSUME NEW i \in 1 .. n PROVE key[2 + i] = s[i]
  <2>1. key[2 + i] = pre[2 + i]
    BY <1>5, <1>7
  <2>2. pre[2 + i] = s[i]
    BY <1>1, <1>4
  <2> QED
    BY <2>1, <2>2
<1>10. /\ n \in Nat \ {0} /\ m \in Nat /\ DOMAIN s = 1 .. n /\ DOMAIN name = 1 .. m
       /\ key \in Seq(Parts) /\ DOMAIN key = 1 .. 2 + n + m
       /\ \A i \in 1 .. m : key[2 + n + i] = name[i]
  BY <1>2, <1>4, <1>5, <1>6
<1> QED
  BY <1>3, <1>8, <1>9, <1>10 DEF n, m

LEMMA NamesAreKeys ==
    ASSUME NEW name \in Names \union {NULL}
    PROVE  name \in Seq(Parts)
BY NamesAssumption, EmptySeq DEF NULL

LEMMA PlainScoped ==
    ASSUME NamesPlain, NEW s \in Names \union {NULL}, NEW name \in Names
    PROVE  PlainKey(MakeScopedName(s, name))
<1>1. CASE s = NULL
  BY <1>1 DEF NamesPlain, PlainKey, MakeScopedName
<1>2. CASE s # NULL
  <2> DEFINE key == MakeScopedName(s, name)
             n == Len(s)
             m == Len(name)
  <2>0. s \in Seq(Parts) /\ name \in Seq(Parts)
    BY NamesAreKeys
  <2>1. /\ n \in Nat \ {0} /\ m \in Nat /\ DOMAIN s = 1 .. n /\ DOMAIN name = 1 .. m
        /\ DOMAIN key = 1 .. 2 + n + m
        /\ \A i \in 1 .. n : key[2 + i] = s[i]
        /\ \A i \in 1 .. m : key[2 + n + i] = name[i]
    BY <1>2, <2>0, ScopedParts
  <2>2. (\A i \in 1 .. n : s[i] # "") /\ \A i \in 1 .. m : name[i] # ""
    BY <1>2, <2>1 DEF NamesPlain
  <2> HIDE DEF key, n, m
  <2>3. ASSUME NEW i \in 1 .. 2 + n + m, i > 2 PROVE key[i] # ""
    <3>1. CASE i <= 2 + n
      <4>1. i - 2 \in 1 .. n /\ 2 + (i - 2) = i
        BY <2>1, <2>3, <3>1
      <4>2. key[2 + (i - 2)] = s[i - 2]
        BY <2>1, <4>1
      <4> QED
        BY <2>2, <4>1, <4>2
    <3>2. CASE i > 2 + n
      <4>1. i - (2 + n) \in 1 .. m /\ 2 + n + (i - (2 + n)) = i
        BY <2>1, <2>3, <3>2
      <4>2. key[2 + n + (i - (2 + n))] = name[i - (2 + n)]
        BY <2>1, <4>1
      <4> QED
        BY <2>2, <4>1, <4>2
    <3>3. i <= 2 + n \/ i > 2 + n
      BY <2>1
    <3> QED
      BY <3>1, <3>2, <3>3
  <2> QED
    BY <2>1, <2>3 DEF PlainKey, key
<1> QED
  BY <1>1, <1>2

\* A name scoped twice is no key, so that _add_label finds nothing where get_symbol did not.
LEMMA NotFoundTwice ==
    ASSUME PlainKeys, NEW s \in Names \union {NULL}, NEW name \in Names,
           ~Known(GetSymbol(s, name))
    PROVE  ~Known(GetSymbol(s, MakeScopedName(s, name)))
<1> DEFINE once == MakeScopedName(s, name)
           twice == MakeScopedName(s, once)
<1>1. once \notin DOMAIN symbols
  BY NotFound
<1>2. CASE s = NULL
  <2>1. twice = once
    BY <1>2 DEF MakeScopedName
  <2> QED
    BY <1>1, <2>1 DEF Known, GetSymbol
<1>3. CASE s # NULL
  <2> DEFINE n == Len(s)
             p == Len(once)
  <2>0. s \in Seq(Parts) /\ name \in Seq(Parts)
    BY NamesAreKeys
  <2>1. /\ once \in Seq(Parts) /\ once[1] = "" /\ n \in Nat \ {0} /\ 1 \in DOMAIN once
    <3>1. /\ once \in Seq(Parts) /\ once[1] = "" /\ n \in Nat \ {0} /\ Len(name) \in Nat
          /\ DOMAIN once = 1 .. 2 + n + Len(name)
      BY <1>3, <2>0, ScopedParts
    <3> HIDE DEF once, n
    <3> DEFINE q == Len(name)
    <3>3. q \in Nat /\ n \in Nat \ {0}
      BY <3>1
    <3> HIDE DEF q
    <3>2. 1 \in 1 .. 2 + n + q
      BY <3>3
    <3> QED
      BY <3>1, <3>2 DEF q
  <2> HIDE DEF once
  <2>2. /\ DOMAIN twice = 1 .. 2 + n + p /\ DOMAIN once = 1 .. p /\ p \in Nat
        /\ \A i \in 1 .. p : twice[2 + n + i] = once[i]
    BY <1>3, <2>0, <2>1, ScopedParts
  <2> HIDE DEF twice, n, p
  <2>3. twice[2 + n + 1] = "" /\ 2 + n + 1 \in 1 .. 2 + n + p /\ 2 + n + 1 > 2
    <3>1. 1 \in 1 .. p
      BY <2>1, <2>2
    <3>2. 2 + n + 1 \in 1 .. 2 + n + p /\ 2 + n + 1 > 2
      <4>1. n \in Nat \ {0} /\ p \in Nat
        BY <2>1, <2>2
      <4> QED
        BY <3>1, <4>1
    <3> QED
      BY <2>1, <2>2, <3>1, <3>2
  <2>4. ~PlainKey(twice)
    BY <2>2, <2>3 DEF PlainKey
  <2>5. twice \notin DOMAIN symbols
    BY <2>4 DEF PlainKeys
  <2> QED
    BY <1>1, <2>5 DEF Known, GetSymbol, once, twice
<1> QED
  BY <1>2, <1>3

-----------------------------------------------------------------------------
(***************************************************************************)
(* What a step does to the keys, and which labels it resolves.             *)
(***************************************************************************)
LEMMA SymbolActions ==
    ASSUME Step
    PROVE  \/ UNCHANGED symbols
           \/ \E name \in BlockNames : ProcedureHead(name)
           \/ \E name \in VariableNames : \E d : AddVariable(name, d)
           \/ \E name \in LabelNames : AddLabel(name) \/ \E op \in {"JMP", "LOOP"} : Jump(op, name)
<1>1. ASSUME NEW name, NEW system, ProgramHead(system, name) PROVE UNCHANGED symbols
  BY <1>1 DEF ProgramHead
<1>2. ASSUME NEW name, NEW literals, AddFastcall(name, literals) PROVE UNCHANGED symbols
  BY <1>2 DEF AddFastcall, table
<1>3. ASSUME NEW name, NEW op, Operand(op, name) \/ Offset(name) \/ AddExit(name)
      PROVE  UNCHANGED symbols
  BY <1>3 DEF Operand, Offset, AddExit, table
<1>4. ASSUME NEW i, Address(i) \/ AddContinue(i) \/ AddBreak(i) \/ DumpVariable(i)
      PROVE  UNCHANGED symbols
  BY <1>4 DEF Address, AddContinue, AddBreak, JumpOut, DumpVariable, table
<1>5. ASSUME \/ Begin \/ EndUnit \/ FinHla \/ SyntaxError \/ UnknownSymbol \/ Abort
             \/ Instruction \/ EndDump
      PROVE  UNCHANGED symbols
  BY <1>5 DEF Begin, EndUnit, FinHla, SyntaxError, UnknownSymbol, Abort, Instruction, EndDump,
              table
<1>6. ASSUME AddRepeat \/ FinRepeat \/ AddIf \/ AddLogic \/ Then \/ FinIf
      PROVE  UNCHANGED symbols
  BY <1>6 DEF AddRepeat, FinRepeat, AddIf, AddLogic, Then, FinIf, table
<1> QED
  BY <1>1, <1>2, <1>3, <1>4, <1>5, <1>6 DEF Step

\* A key that a step adds is a name, or a name in the current scope.
LEMMA PlainKeysKept ==
    ASSUME TypeInv, NamesPlain, PlainKeys, Step
    PROVE  PlainKeys'
<1> DEFINE Named(k) == \E s \in Names \union {NULL} : \E name \in Names :
                            k = MakeScopedName(s, name)
<1>1. scope \in Names \union {NULL}
  BY DEF TypeInv, TypeOK, TableTypeOK, Names
<1>2. \A name : MakeScopedName(NULL, name) = name
  BY DEF MakeScopedName
<1>3. ASSUME NEW key, NEW s, SymbolInsert(key, s)
      PROVE  DOMAIN symbols' = DOMAIN symbols \union {key}
  BY <1>3 DEF SymbolInsert
<1>4. ASSUME NEW name \in Names, NEW resolved, NoteLabel(name, resolved)
      PROVE  \A k \in DOMAIN symbols' : k \in DOMAIN symbols \/ Named(k)
  <2>1. \/ UNCHANGED symbols
        \/ DOMAIN symbols' = DOMAIN symbols
        \/ DOMAIN symbols' = DOMAIN symbols \union {MakeScopedName(scope, name)}
    BY <1>3, <1>4 DEF NoteLabel
  <2> QED
    BY <1>1, <2>1
<1>5. ASSUME NEW name \in BlockNames, ProcedureHead(name)
      PROVE  \A k \in DOMAIN symbols' : k \in DOMAIN symbols \/ Named(k)
  <2>1. UNCHANGED symbols \/ DOMAIN symbols' = DOMAIN symbols \union {name}
    BY <1>3, <1>5 DEF ProcedureHead
  <2> QED
    BY <1>2, <2>1 DEF Names
<1>6. ASSUME NEW name \in VariableNames, NEW d, AddVariable(name, d)
      PROVE  \A k \in DOMAIN symbols' : k \in DOMAIN symbols \/ Named(k)
  <2>1. \/ UNCHANGED symbols
        \/ DOMAIN symbols' = DOMAIN symbols \union {MakeScopedName(scope, name)}
    BY <1>3, <1>6 DEF AddVariable
  <2> QED
    BY <1>1, <2>1 DEF Names
<1>7. ASSUME NEW name \in LabelNames, AddLabel(name) \/ \E op \in {"JMP", "LOOP"} : Jump(op, name)
      PROVE  \A k \in DOMAIN symbols' : k \in DOMAIN symbols \/ Named(k)
  <2>1. name \in Names
    BY DEF Names
  <2>2. UNCHANGED symbols \/ NoteLabel(name, TRUE) \/ NoteLabel(name, FALSE)
    BY <1>7 DEF AddLabel, Jump
  <2> QED
    BY <1>4, <2>1, <2>2
<1>8. \A k \in DOMAIN symbols' : k \in DOMAIN symbols \/ Named(k)
  BY <1>5, <1>6, <1>7, SymbolActions
<1>9. \A k : Named(k) => PlainKey(k)
  BY PlainScoped
<1> HIDE DEF Named
<1> QED
  BY <1>8, <1>9 DEF PlainKeys

\* Only a declaration resolves a label, and gives it its place.
LEMMA ResolvedByLabel ==
    ASSUME TypeInv, PlainKeys, Step, ~has_encountered_error', NEW key, NowResolved(key)
    PROVE  PlaceFor(symbols[key].id)
<1>1. scope \in Names \union {NULL} /\ symbol_id \in Nat
  BY DEF TypeInv, TypeOK, TableTypeOK, Names
<1>2. symbol_id' # symbol_id + 1
  BY <1>1 DEF NowResolved
<1>3. ASSUME NEW k, NEW s, SymbolInsert(k, s) PROVE FALSE
  BY <1>2, <1>3 DEF SymbolInsert
<1>4. symbols[key].word = 0 /\ symbols'[key].word = 1 /\ key \in DOMAIN symbols
  BY NowResolvedIs DEF NowResolved
<1>5. ~UNCHANGED symbols
  BY <1>4
<1>6. ASSUME NEW name, ProcedureHead(name) PROVE FALSE
  BY <1>3, <1>6 DEF ProcedureHead, IssueError
<1>7. ASSUME NEW name, NEW d, AddVariable(name, d) PROVE FALSE
  BY <1>3, <1>7 DEF AddVariable, IssueError
<1>8. ASSUME NEW name \in LabelNames, NEW op, Jump(op, name) PROVE FALSE
  <2>1. ~Known(GetSymbol(scope, name)) /\ NoteLabel(name, FALSE)
    BY <1>5, <1>8 DEF Jump
  <2>2. ~Known(LabelKey(name))
    BY <1>1, <2>1, NotFoundTwice DEF LabelKey, Names
  <2> QED
    BY <1>3, <2>1, <2>2 DEF NoteLabel
<1>9. ASSUME NEW name, AddLabel(name) PROVE PlaceFor(symbols[key].id)
  <2>1. NoteLabel(name, TRUE) /\ Append1(Def(LabelId(name), "label"))
    BY <1>9 DEF AddLabel
  <2>2. /\ Known(LabelKey(name))
        /\ symbols' = [symbols EXCEPT ![LabelKey(name)].word = 1]
    BY <1>3, <2>1 DEF NoteLabel, IssueError
  <2>3. key = LabelKey(name)
    BY <1>4, <2>2
  <2>4. LabelId(name) = symbols[key].id
    BY <2>2, <2>3 DEF LabelId
  <2> QED
    BY <2>1, <2>4, AppendsDef
<1> QED
  BY <1>5, <1>6, <1>7, <1>8, <1>9, SymbolActions

-----------------------------------------------------------------------------
(***************************************************************************)
(* What is a target stays one.                                             *)
(***************************************************************************)
LEMMA PlacesGrow ==
    ASSUME TableInv, Step, ~has_encountered_error'
    PROVE  Grown /\ Places(tokens) \subseteq Places(tokens')
BY PlaceChange DEF NoPlace, PlaceFor

LEMMA SymbolsKeepIds ==
    ASSUME TypeInv, Step
    PROVE  \A k \in DOMAIN symbols : k \in DOMAIN symbols' /\ symbols'[k].id = symbols[k].id
<1>1. ASSUME NEW key, NEW s, Inserted(key, s)
      PROVE  \A k \in DOMAIN symbols : k \in DOMAIN symbols' /\ symbols'[k].id = symbols[k].id
  BY <1>1, InsertedIs
<1>2. ASSUME NEW key, NowResolved(key)
      PROVE  \A k \in DOMAIN symbols : k \in DOMAIN symbols' /\ symbols'[k].id = symbols[k].id
  BY <1>2, NowResolvedIs
<1> QED
  BY <1>1, <1>2, TableChange

\* What a step that reports nothing does to the blocks, and the places that come with it.
LEMMA BlocksAndPlaces ==
    ASSUME TableInv, Step, ~has_encountered_error'
    PROVE  LET n == Len(frames) IN
           \/ /\ Len(frames') = n
              /\ \A j \in 1 .. n : frames'[j].kind = frames[j].kind /\ frames'[j].id = frames[j].id
           \/ /\ Len(frames') = n + 1 /\ \A j \in 1 .. n : frames'[j] = frames[j]
              /\ frames'[n + 1].kind = "repeat" => frames'[n + 1].id \in Places(tokens')
           \/ /\ frames # <<>> /\ Len(frames') = n - 1
              /\ \A j \in 1 .. n - 1 : frames'[j] = frames[j]
              /\ Awaited(frames[n]) \in Places(tokens')
<1> DEFINE n == Len(frames)
<1>1. frames \in Frames
  BY DEF TableInv, StackInv, TypeInv, TypeOK, ParserTypeOK
<1>2. ASSUME frames # <<>>, NEW at \in {"head", "condition", "body"},
             frames' = [frames EXCEPT ![Len(frames)].at = at]
      PROVE  /\ Len(frames') = n
             /\ \A j \in 1 .. n : frames'[j].kind = frames[j].kind /\ frames'[j].id = frames[j].id
  BY <1>1, <1>2, MarkingAt
<1>3. ASSUME NEW f, frames' = Append(frames, f)
      PROVE  /\ Len(frames') = n + 1 /\ frames'[n + 1] = f
             /\ \A j \in 1 .. n : frames'[j] = frames[j]
  BY <1>1, <1>3, AppendedFrame
<1>4. ASSUME frames' = Append(frames, Frame("repeat", symbol_id, "body")), PlaceFor(symbol_id)
      PROVE  /\ Len(frames') = n + 1 /\ \A j \in 1 .. n : frames'[j] = frames[j]
             /\ frames'[n + 1].id \in Places(tokens')
  BY <1>3, <1>4 DEF Frame, PlaceFor
<1>5. ASSUME frames' = Append(frames, Frame("if", symbol_id, "head"))
      PROVE  /\ Len(frames') = n + 1 /\ \A j \in 1 .. n : frames'[j] = frames[j]
             /\ frames'[n + 1].kind = "if"
  BY <1>3, <1>5 DEF Frame
<1>6. ASSUME frames # <<>>, frames' = Pop(frames), PlaceFor(Awaited(frames[n]))
      PROVE  /\ Len(frames') = n - 1 /\ \A j \in 1 .. n - 1 : frames'[j] = frames[j]
             /\ Awaited(frames[n]) \in Places(tokens')
  BY <1>1, <1>6, Popping DEF PlaceFor, Frames
<1> HIDE DEF n
<1>7. \/ UNCHANGED frames
      \/ frames # <<>> /\ \E at \in {"head", "condition", "body"} :
                              frames' = [frames EXCEPT ![Len(frames)].at = at]
      \/ frames' = Append(frames, Frame("repeat", symbol_id, "body")) /\ PlaceFor(symbol_id)
      \/ frames' = Append(frames, Frame("if", symbol_id, "head"))
      \/ frames # <<>> /\ frames' = Pop(frames) /\ PlaceFor(Awaited(frames[n]))
  BY PlaceChange DEF Awaited, n
<1>8. CASE UNCHANGED frames
  BY <1>8
<1> QED
  BY <1>2, <1>4, <1>5, <1>6, <1>7, <1>8 DEF n

LEMMA TargetsKept ==
    ASSUME TableInv, Started, Step, ~has_encountered_error', NEW id,
           Target(id, tokens, symbols, frames)
    PROVE  Target(id, tokens', symbols', frames')
<1> DEFINE n == Len(frames)
<1>1. TypeInv /\ frames \in Frames
  BY DEF TableInv, StackInv, TypeInv, TypeOK, ParserTypeOK
<1>2. n \in Nat
  BY <1>1, LenProperties DEF Frames
<1>3. CASE id \in Places(tokens)
  BY <1>3, PlacesGrow DEF Target
<1>4. CASE \E k \in DOMAIN symbols : symbols[k].id = id
  BY <1>1, <1>4, SymbolsKeepIds DEF Target
<1>5. ASSUME NEW j \in 1 .. n, id \in IdsOf(frames[j])
      PROVE  Target(id, tokens', symbols', frames')
  <2> HIDE DEF n
  <2>1. CASE /\ Len(frames') = n
             /\ \A i \in 1 .. n : frames'[i].kind = frames[i].kind /\ frames'[i].id = frames[i].id
    <3>1. IdsOf(frames'[j]) = IdsOf(frames[j])
      BY <2>1 DEF IdsOf
    <3> QED
      BY <1>5, <2>1, <3>1 DEF Target
  <2>2. CASE Len(frames') = n + 1 /\ \A i \in 1 .. n : frames'[i] = frames[i]
    <3>1. j \in 1 .. n + 1
      BY <1>2
    <3> QED
      BY <1>5, <2>2, <3>1 DEF Target
  <2>3. CASE /\ Len(frames') = n - 1 /\ \A i \in 1 .. n - 1 : frames'[i] = frames[i]
             /\ Awaited(frames[n]) \in Places(tokens')
    <3>1. CASE j \in 1 .. n - 1
      BY <1>5, <2>3, <3>1 DEF Target
    <3>2. CASE j = n
      <4>1. CASE id = Awaited(frames[n])
        BY <2>3, <4>1 DEF Target
      <4>2. CASE id # Awaited(frames[n])
        <5>1. frames[j].kind = "repeat" /\ id = frames[j].id
          BY <1>5, <3>2, <4>2 DEF IdsOf, Awaited
        <5>2. id \in Places(tokens)
          BY <5>1 DEF Started, n
        <5> QED
          BY <5>2, PlacesGrow DEF Target
      <4> QED
        BY <4>1, <4>2
    <3>3. j \in 1 .. n - 1 \/ j = n
      BY <1>2
    <3> QED
      BY <3>1, <3>2, <3>3
  <2> QED
    BY <2>1, <2>2, <2>3, BlocksAndPlaces DEF n
<1> QED
  BY <1>3, <1>4, <1>5 DEF Target

LEMMA StartedKept ==
    ASSUME TableInv, Started, Step, ~has_encountered_error'
    PROVE  Started'
<1> DEFINE n == Len(frames)
<1>1. n \in Nat
  BY LenProperties DEF TableInv, StackInv, TypeInv, TypeOK, ParserTypeOK, Frames
<1>2. \A j \in 1 .. n : frames[j].kind = "repeat" => frames[j].id \in Places(tokens')
  BY PlacesGrow DEF Started
<1> HIDE DEF n
<1>3. CASE /\ Len(frames') = n
           /\ \A j \in 1 .. n : frames'[j].kind = frames[j].kind /\ frames'[j].id = frames[j].id
  BY <1>2, <1>3 DEF Started
<1>4. CASE /\ Len(frames') = n + 1 /\ \A j \in 1 .. n : frames'[j] = frames[j]
           /\ frames'[n + 1].kind = "repeat" => frames'[n + 1].id \in Places(tokens')
  <2>1. \A j \in 1 .. n + 1 : j \in 1 .. n \/ j = n + 1
    BY <1>1
  <2> QED
    BY <1>2, <1>4, <2>1 DEF Started
<1>5. CASE Len(frames') = n - 1 /\ \A j \in 1 .. n - 1 : frames'[j] = frames[j]
  <2>1. \A j \in 1 .. n - 1 : j \in 1 .. n
    BY <1>1
  <2> QED
    BY <1>2, <1>5, <2>1 DEF Started
<1> QED
  BY <1>3, <1>4, <1>5, BlocksAndPlaces DEF n

LEMMA ResolvedKept ==
    ASSUME TableInv, PlainKeys, ResolvedPlaced, Step, ~has_encountered_error'
    PROVE  ResolvedPlaced'
<1>1. TypeInv /\ Worded /\ Places(tokens) \subseteq Places(tokens')
  BY PlacesGrow DEF TableInv, StackInv
<1>2. ASSUME NEW key, NowResolved(key) PROVE ResolvedPlaced'
  <2>1. PlaceFor(symbols[key].id)
    BY <1>1, <1>2, ResolvedByLabel
  <2>2. symbols[key].id \in Places(tokens')
    BY <2>1 DEF PlaceFor
  <2> QED
    BY <1>1, <1>2, <2>2, NowResolvedIs DEF ResolvedPlaced
<1>3. ASSUME NEW key, NEW s, Inserted(key, s),
             IF s.kind = "label" /\ s.word = 1 THEN PlaceFor(symbol_id) ELSE NoPlace
      PROVE  ResolvedPlaced'
  <2>1. /\ DOMAIN symbols' = DOMAIN symbols \union {key} /\ key \notin DOMAIN symbols
        /\ symbols'[key] = s /\ \A k \in DOMAIN symbols : symbols'[k] = symbols[k]
    BY <1>3, InsertedIs
  <2>2. s.id = symbol_id /\ (s.kind = "variable" \/ (s.kind = "label" /\ s.word \in {0, 1}))
    BY <1>3 DEF Inserted
  <2>3. s.kind = "label" /\ s.word # 0 => s.id \in Places(tokens')
    BY <1>3, <2>2 DEF PlaceFor
  <2> QED
    BY <1>1, <2>1, <2>3 DEF ResolvedPlaced
<1>4. ASSUME UNCHANGED symbols PROVE ResolvedPlaced'
  BY <1>1, <1>4 DEF ResolvedPlaced
<1> QED
  BY <1>2, <1>3, <1>4, PlaceChange DEF TableSame

-----------------------------------------------------------------------------
(***************************************************************************)
(* What a step adds refers to targets.                                     *)
(***************************************************************************)
Brought ==
    \A i \in New : Counts(tokens'[i]) => Target(tokens'[i].id, tokens', symbols', frames')

LEMMA BroughtNothing == UNCHANGED tokens => Brought
BY DEF Brought, New

LEMMA BroughtOne ==
    ASSUME TypeInv, NEW t, Append1(t), Counts(t) => Target(t.id, tokens', symbols', frames')
    PROVE  Brought
<1> DEFINE n == Len(tokens)
<1>1. /\ n \in Nat /\ DOMAIN tokens = 1 .. n /\ DOMAIN tokens' = 1 .. n + 1
      /\ tokens'[n + 1] = t
  BY Appended1
<1> HIDE DEF n
<1>2. \A i \in (1 .. n + 1) \ (1 .. n) : i = n + 1
  BY <1>1
<1> QED
  BY <1>1, <1>2 DEF Brought, New

LEMMA BroughtTwo ==
    ASSUME TypeInv, NEW t, NEW u, Append2(t, u),
           Counts(t) => Target(t.id, tokens', symbols', frames'),
           Counts(u) => Target(u.id, tokens', symbols', frames')
    PROVE  Brought
<1> DEFINE n == Len(tokens)
<1>1. /\ n \in Nat /\ DOMAIN tokens = 1 .. n /\ DOMAIN tokens' = 1 .. n + 2
      /\ tokens'[n + 1] = t /\ tokens'[n + 2] = u
  BY Appended2
<1> HIDE DEF n
<1>2. \A i \in (1 .. n + 2) \ (1 .. n) : i = n + 1 \/ i = n + 2
  BY <1>1
<1> QED
  BY <1>1, <1>2 DEF Brought, New

LEMMA RefIs == \A op, id, by : Ref(op, id, by).id = id
BY DEF Ref, Token

LEMMA NotCounted ==
    /\ \A id, by : ~Counts(Def(id, by))
    /\ \A op, id, by : op \in {"PLAIN", "RETN", "CMP", "ASMDIRIMM"} => ~Counts(Token(op, id, by))
    /\ \A op, id, by : by \in {"undeclared", "offset", "block", "stale"} => ~Counts(Ref(op, id, by))
BY DEF Counts, IsRef, Def, Ref, Token

\* A reference to a symbol.
LEMMA RefToSymbol ==
    ASSUME TypeInv, NEW op, NEW by, NEW k \in DOMAIN symbols, Append1(Ref(op, symbols[k].id, by)),
           k \in DOMAIN symbols', symbols'[k].id = symbols[k].id
    PROVE  Brought
<1> DEFINE id == symbols[k].id
<1>1. Target(id, tokens', symbols', frames')
  BY DEF Target
<1> HIDE DEF id
<1>2. Ref(op, id, by).id = id /\ Append1(Ref(op, id, by))
  BY RefIs DEF id
<1> QED
  BY <1>1, <1>2, BroughtOne

LEMMA JumpBrings ==
    ASSUME TableInv, NEW op, NEW name, Jump(op, name), ~has_encountered_error'
    PROVE  Brought
<1>1. TypeInv
  BY DEF TableInv, StackInv
<1>2. CASE Known(GetSymbol(scope, name))
  <2>1. /\ Append1(Ref(op, symbols[GetSymbol(scope, name)].id, "relative"))
        /\ UNCHANGED symbols /\ GetSymbol(scope, name) \in DOMAIN symbols
    BY <1>2, NotFound DEF Jump, Known
  <2> QED
    BY <1>1, <2>1, RefToSymbol
<1>3. CASE ~Known(GetSymbol(scope, name))
  <2> DEFINE key == LabelKey(name)
             id == LabelId(name)
  <2>1. Append1(Ref(op, id, "relative")) /\ NoteLabel(name, FALSE)
    BY <1>3 DEF Jump
  <2>2. CASE Known(key)
    <3>1. NowResolved(key) /\ id = symbols[key].id
      BY <1>1, <2>1, <2>2 DEF NoteLabel, IssueError, NowResolved, Known, IsResolved, LabelId
    <3>2. symbols'[key].id = symbols[key].id /\ key \in DOMAIN symbols /\ key \in DOMAIN symbols'
      BY <1>1, <2>2, <3>1, NowResolvedIs DEF Known
    <3> QED
      BY <1>1, <2>1, <3>1, <3>2, RefToSymbol
  <2>3. CASE ~Known(key)
    <3> DEFINE once == MakeScopedName(scope, name)
    <3>1. SymbolInsert(once, NewLabel(FALSE, symbol_id)) /\ id = symbol_id
      BY <2>1, <2>3 DEF NoteLabel, LabelId
    <3>2. once \in DOMAIN symbols' /\ symbols'[once] = NewLabel(FALSE, symbol_id)
      BY <3>1 DEF SymbolInsert
    <3>3. symbols'[once].id = id
      BY <3>1, <3>2 DEF NewLabel, NewSymbol
    <3> HIDE DEF once, id
    <3>4. Target(id, tokens', symbols', frames')
      BY <3>2, <3>3 DEF Target
    <3>5. Ref(op, id, "relative").id = id
      BY RefIs
    <3>6. Append1(Ref(op, id, "relative"))
      BY <2>1
    <3> QED
      BY <1>1, <3>4, <3>5, <3>6, BroughtOne
  <2> QED
    BY <2>2, <2>3
<1> QED
  BY <1>2, <1>3

LEMMA JumpOutBrings ==
    ASSUME TableInv, Waiting, state \notin Faults, ~has_encountered_error, ~has_encountered_error',
           NEW i \in Nat \ {0}, AddContinue(i) \/ AddBreak(i)
    PROVE  Brought
<1>1. TypeInv /\ StackInv /\ DOMAIN frames = 1 .. Len(frames)
  BY LenProperties DEF TableInv, StackInv, TypeInv, TypeOK, ParserTypeOK, Frames
<1>2. ~TooDeep(i) /\ UNCHANGED frames
  BY DEF AddContinue, AddBreak, JumpOut, IssueError
<1>3. PICK j \in DOMAIN frames :
         /\ LoopIndex(i) \in DOMAIN repeat_stack
         /\ frames[j].kind = "repeat" /\ frames[j].id = repeat_stack[LoopIndex(i)]
  BY <1>1, <1>2, LevelFound
<1>4. frames[j].id # NoId
  BY <1>1 DEF Waiting
<1>5. IdsOf(frames[j]) = {frames[j].id, frames[j].id + 1}
  BY <1>3, <1>4 DEF IdsOf
<1> DEFINE id == frames[j].id
           end == frames[j].id + 1
<1>6. /\ Target(id, tokens', symbols', frames')
      /\ Target(end, tokens', symbols', frames')
  BY <1>1, <1>2, <1>5 DEF Target
<1>9. i > 0
  OBVIOUS
<1>7. CASE AddContinue(i)
  <2>1. Append1(Ref("JMP", id, "continue"))
    BY <1>2, <1>3, <1>7, <1>9 DEF AddContinue, JumpOut, StartOf
  <2> HIDE DEF id
  <2> QED
    BY <1>1, <1>6, <2>1, RefIs, BroughtOne
<1>8. CASE AddBreak(i)
  <2>1. Append1(Ref("JMP", end, "break"))
    BY <1>2, <1>3, <1>8, <1>9 DEF AddBreak, JumpOut, EndOf
  <2> HIDE DEF end
  <2> QED
    BY <1>1, <1>6, <2>1, RefIs, BroughtOne
<1> QED
  BY <1>7, <1>8

LEMMA AddLogicBrings ==
    ASSUME TableInv, Waiting, state \notin Faults, ~has_encountered_error, AddLogic
    PROVE  Brought
<1> DEFINE n == Len(frames)
           id == frames[n].id
           u == Ref("JCC", id, "if")
<1>1. TypeInv /\ StackInv /\ frames \in Frames
  BY DEF TableInv, StackInv, TypeInv, TypeOK, ParserTypeOK
<1>2. /\ frames # <<>> /\ frames' = [frames EXCEPT ![n].at = "condition"]
      /\ frames[n].kind = "if"
      /\ Append2(Token("CMP", 0, "if"), Ref("JCC", if_stack[if_stack_empty_top - 1], "if"))
  BY DEF AddLogic, Top
<1>3. if_stack[if_stack_empty_top - 1] = id
  BY <1>1, <1>2, TopOfStacks
<1>4. n \in 1 .. n
  BY <1>1, <1>2, Topmost DEF Frames
<1>5. Len(frames') = n /\ frames'[n].kind = "if" /\ frames'[n].id = id
  BY <1>1, <1>2, <1>4, MarkingAt
<1>6. id # NoId
  BY <1>4 DEF Waiting
<1>7. id \in IdsOf(frames'[n])
  BY <1>5, <1>6 DEF IdsOf
<1>8. Target(id, tokens', symbols', frames')
  BY <1>4, <1>5, <1>7 DEF Target
<1>9. Append2(Token("CMP", 0, "if"), u)
  BY <1>2, <1>3
<1>10. ~Counts(Token("CMP", 0, "if")) /\ u.id = id
  BY NotCounted, RefIs
<1> HIDE DEF n, id, u
<1> QED
  BY <1>1, <1>8, <1>9, <1>10, BroughtTwo

LEMMA FinRepeatBrings ==
    ASSUME TableInv, Started, state \notin Faults, ~has_encountered_error, Step,
           ~has_encountered_error', FinRepeat
    PROVE  Brought
<1> DEFINE n == Len(frames)
           id == frames[n].id
           t == Ref("JMP", id, "repeat")
           u == Def(EndOf(id), "end repeat")
<1>1. TypeInv /\ StackInv /\ frames \in Frames
  BY DEF TableInv, StackInv, TypeInv, TypeOK, ParserTypeOK
<1>2. /\ frames # <<>> /\ frames[n].kind = "repeat"
      /\ repeat_stack_empty_top' = repeat_stack_empty_top - 1
  BY DEF FinRepeat, Top, Popped
<1>3. repeat_stack[repeat_stack_empty_top - 1] = id
  BY <1>1, <1>2, TopOfStacks
<1>4. repeat_stack_empty_top - 1 \in DOMAIN repeat_stack
  BY <1>1, <1>2, LoopOnStack
<1>5. Append2(t, u)
  BY <1>2, <1>3, <1>4 DEF FinRepeat
<1>6. n \in 1 .. n
  BY <1>1, <1>2, Topmost DEF Frames
<1>7. id \in Places(tokens')
  BY <1>2, <1>6, PlacesGrow DEF Started
<1>8. Target(id, tokens', symbols', frames')
  BY <1>7 DEF Target
<1>9. t.id = id /\ ~Counts(u)
  BY RefIs, NotCounted
<1> HIDE DEF n, id, t, u
<1> QED
  BY <1>1, <1>5, <1>8, <1>9, BroughtTwo

LEMMA BroughtByStep ==
    ASSUME TableInv, Waiting, Started, Step, ~has_encountered_error'
    PROVE  Brought
<1>1. TypeInv /\ StackInv /\ state \notin Faults /\ ~has_encountered_error
  BY StepFrom DEF TableInv, StackInv
<1>2. ASSUME NEW id, NEW by, Append1(Def(id, by)) PROVE Brought
  BY <1>1, <1>2, NotCounted, BroughtOne
<1>3. ASSUME NEW op \in {"PLAIN", "RETN"}, NEW by, Append1(Token(op, 0, by)) PROVE Brought
  BY <1>1, <1>3, NotCounted, BroughtOne
<1>4. ASSUME NEW op, NEW id, NEW by \in {"undeclared", "offset", "block", "stale"}, Append1(Ref(op, id, by))
      PROVE  Brought
  BY <1>1, <1>4, NotCounted, BroughtOne
<1>5. ASSUME NEW op, NEW k \in DOMAIN symbols, NEW by, Append1(Ref(op, symbols[k].id, by)),
             UNCHANGED symbols
      PROVE  Brought
  BY <1>1, <1>5, RefToSymbol
<1>6. ASSUME NEW name, NEW system, ProgramHead(system, name) PROVE Brought
  BY <1>2, <1>6 DEF ProgramHead
<1>7. ASSUME NEW name, ProcedureHead(name) PROVE Brought
  BY <1>2, <1>7 DEF ProcedureHead, IssueError
<1>8. ASSUME NEW name, NEW d, AddVariable(name, d) PROVE Brought
  BY <1>8, BroughtNothing DEF AddVariable
<1>9. ASSUME NEW name, AddLabel(name) PROVE Brought
  BY <1>2, <1>9 DEF AddLabel
<1>10. ASSUME NEW op, NEW name, Operand(op, name) PROVE Brought
  <2>1. CASE Known(VariableKey(name))
    <3> DEFINE k == VariableKey(name)
    <3>1. /\ k \in DOMAIN symbols /\ Append1(Ref(op, symbols[k].id, "operand"))
          /\ UNCHANGED symbols
      BY <1>10, <2>1 DEF Operand, Known, table
    <3> QED
      BY <1>5, <3>1
  <2>2. CASE ~Known(VariableKey(name))
    BY <1>4, <1>10, <2>2 DEF Operand
  <2> QED
    BY <2>1, <2>2
<1>11. ASSUME NEW name, NEW id, Offset(name) \/ Address(id) PROVE Brought
  BY <1>4, <1>11 DEF Offset, Address
<1>12. ASSUME NEW name, NEW literals, AddFastcall(name, literals) PROVE Brought
  <2> DEFINE k == GetSymbol(scope, name)
  <2>1. k \in DOMAIN symbols /\ Append1(Ref("CALL", symbols[k].id, "fastcall")) /\ UNCHANGED symbols
    BY <1>12 DEF AddFastcall, Known, IssueError, table
  <2> QED
    BY <1>5, <2>1
<1>13. ASSUME NEW name, Instruction \/ AddExit(name) \/ EndUnit PROVE Brought
  BY <1>3, <1>13, BroughtNothing DEF Instruction, AddExit, EndUnit
<1>14. ASSUME Begin \/ FinHla \/ EndDump \/ AddIf \/ Then PROVE Brought
  BY <1>14, BroughtNothing DEF Begin, FinHla, EndDump, AddIf, Then
<1>15. ASSUME SyntaxError \/ UnknownSymbol \/ Abort PROVE FALSE
  BY <1>15 DEF SyntaxError, UnknownSymbol, Abort, IssueError
<1>16. ASSUME AddRepeat PROVE Brought
  BY <1>2, <1>16 DEF AddRepeat, IssueError
<1>17. ASSUME FinIf PROVE Brought
  BY <1>2, <1>17 DEF FinIf
<1>18. ASSUME NEW k, DumpVariable(k) PROVE Brought
  <2> DEFINE t == Def(symbols[k].id, "variable")
             u == Token("ASMDIRIMM", symbols[k].elements, symbols[k].payload)
  <2>1. UNCHANGED tokens \/ Append2(t, u)
    BY <1>18 DEF DumpVariable
  <2>2. ~Counts(t) /\ ~Counts(u)
    BY NotCounted
  <2> HIDE DEF t, u
  <2> QED
    BY <1>1, <2>1, <2>2, BroughtNothing, BroughtTwo
<1>19. ASSUME NEW i \in Levels, AddContinue(i) \/ AddBreak(i) PROVE Brought
  <2>1. CASE i > 0
    <3>1. i \in Nat \ {0}
      BY <2>1, LevelsAssumption
    <3> QED
      BY <1>1, <1>19, <3>1, JumpOutBrings
  <2>2. CASE ~(i > 0)
    <3>1. UNCHANGED tokens \/ \E id : Append1(Ref("JMP", id, "stale"))
      BY <1>19, <2>2 DEF AddContinue, AddBreak, JumpOut
    <3> QED
      BY <1>4, <3>1, BroughtNothing
  <2> QED
    BY <2>1, <2>2
<1>20. ASSUME AddLogic PROVE Brought
  BY <1>1, <1>20, AddLogicBrings
<1>21. ASSUME FinRepeat PROVE Brought
  BY <1>1, <1>21, FinRepeatBrings
<1>22. ASSUME NEW op, NEW name, Jump(op, name) PROVE Brought
  BY <1>22, JumpBrings
<1> HIDE DEF Brought
<1> QED
  BY <1>6, <1>7, <1>8, <1>9, <1>10, <1>11, <1>12, <1>13, <1>14, <1>15, <1>16, <1>17, <1>18,
     <1>19, <1>20, <1>21, <1>22 DEF Step

-----------------------------------------------------------------------------
LEMMA InitRefs == Init => RefsInv
<1> SUFFICES ASSUME Init PROVE References
  BY DEF RefsInv
<1>1. tokens = <<>> /\ frames = <<>> /\ DOMAIN symbols = {}
  BY DEF Init
<1> QED
  BY <1>1 DEF References, Targeted, ResolvedPlaced, Started, PlainKeys

LEMMA RefsInductive ==
    ASSUME NamesPlain
    PROVE  TableInv /\ PlacesInv /\ RefsInv /\ [Next]_vars => RefsInv'
<1>1. ASSUME TableInv, PlacesInv, RefsInv, Step PROVE RefsInv'
  <2> SUFFICES ASSUME ~has_encountered_error' PROVE References'
    BY DEF RefsInv
  <2>1. TypeInv /\ Waiting /\ References
    BY <1>1, StepFrom DEF RefsInv, PlacesInv, TableInv, StackInv
  <2>2. Targeted /\ ResolvedPlaced /\ Started /\ PlainKeys
    BY <2>1 DEF References
  <2>3. Started' /\ ResolvedPlaced' /\ PlainKeys'
    BY <1>1, <2>1, <2>2, StartedKept, ResolvedKept, PlainKeysKept
  <2>4. Targeted'
    <3> SUFFICES ASSUME NEW i \in DOMAIN tokens', Counts(tokens'[i])
                 PROVE  Target(tokens'[i].id, tokens', symbols', frames')
      BY DEF Targeted
    <3>1. CASE i \in DOMAIN tokens
      <4>1. tokens'[i] = tokens[i]
        BY <1>1, <3>1, PlacesGrow DEF Grown
      <4>2. Target(tokens[i].id, tokens, symbols, frames)
        BY <2>2, <3>1, <4>1 DEF Targeted
      <4> QED
        BY <1>1, <2>2, <4>1, <4>2, TargetsKept
    <3>2. CASE i \notin DOMAIN tokens
      BY <1>1, <2>1, <2>2, <3>2, BroughtByStep DEF Brought, New
    <3> QED
      BY <3>1, <3>2
  <2> QED
    BY <2>3, <2>4 DEF References
<1>2. ASSUME RefsInv, UNCHANGED vars PROVE RefsInv'
  <2>1. UNCHANGED <<symbols, frames, tokens, has_encountered_error>>
    BY <1>2 DEF vars, parser, table, flags
  <2> QED
    BY <1>2, <2>1 DEF RefsInv, References, Targeted, ResolvedPlaced, Started, PlainKeys
<1> QED
  BY <1>1, <1>2 DEF Next, Halted

\* In an accepted program every id the assembler is asked for has a place, or belongs to a
\* label that was never declared, if no name begins or ends with an underscore or has two in
\* a row: jumps, calls and operands take their ids from the table and from two stacks, and
\* what an id becomes is decided much later.
THEOREM ReferencesLand ==
    ASSUME NamesPlain
    PROVE  Spec => []ReferencesHavePlaces
<1>1. TableInv /\ PlacesInv /\ BlocksInv /\ RefsInv => ReferencesHavePlaces
  <2> SUFFICES ASSUME TableInv, BlocksInv, RefsInv, Accepted, state = "done",
                      NEW i \in DOMAIN tokens, IsRef(tokens[i]),
                      tokens[i].by \notin {"undeclared", "offset", "block", "stale"}
               PROVE  \/ \E j \in DOMAIN tokens :
                            tokens[j].op = "ASMDIRMEM" /\ tokens[j].id = tokens[i].id
                      \/ \E k \in Unresolved : symbols[k].id = tokens[i].id
    BY DEF ReferencesHavePlaces
  <2> DEFINE id == tokens[i].id
  <2>1. /\ frames = <<>> /\ \A k \in Variables : Dumped(k)
        /\ Targeted /\ ResolvedPlaced /\ Worded
    BY DEF BlocksInv, RefsInv, References, Outside, Accepted, TableInv
  <2>2. Target(id, tokens, symbols, frames)
    BY <2>1 DEF Targeted, Counts
  <2>3. 1 .. Len(frames) = {}
    BY <2>1
  <2>4. CASE id \in Places(tokens)
    BY <2>4 DEF Places, IsDef
  <2>5. ASSUME NEW k \in DOMAIN symbols, symbols[k].id = id
        PROVE  id \in Places(tokens) \/ k \in Unresolved
    <3>1. CASE symbols[k].kind = "variable"
      <4>1. PICK j \in DOMAIN tokens : tokens[j] = Def(symbols[k].id, "variable")
        BY <2>1, <3>1 DEF Variables, Dumped
      <4>2. tokens[j].op = "ASMDIRMEM" /\ tokens[j].id = symbols[k].id
        BY <4>1, DefIs
      <4> QED
        BY <2>5, <4>2 DEF Places, IsDef
    <3>2. CASE symbols[k].kind = "label" /\ symbols[k].word # 0
      BY <2>1, <2>5, <3>2 DEF ResolvedPlaced
    <3>3. CASE symbols[k].kind = "label" /\ symbols[k].word = 0
      BY <3>3 DEF Unresolved, IsResolved
    <3> QED
      BY <2>1, <3>1, <3>2, <3>3 DEF Worded
  <2> QED
    BY <2>2, <2>3, <2>4, <2>5 DEF Target
<1> QED
  BY <1>1, InitTable, TableInductive, InitPlaces, PlacesInductive, InitBlocks, BlocksInductive,
     InitRefs, RefsInductive, PTL DEF Spec
=============================================================================

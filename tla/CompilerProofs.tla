---------------------------- MODULE CompilerProofs ----------------------------
(***************************************************************************)
(* What TLAPS proves of Compiler, for all names, sizes and bounds: there   *)
(* are places for as many ids as there are.                                *)
(***************************************************************************)
EXTENDS Compiler, SequenceProofs, FiniteSetTheorems

-----------------------------------------------------------------------------
(***************************************************************************)
(* How many tokens what is appended makes.                                 *)
(***************************************************************************)
IsSeq(s) == \E S : s \in Seq(S)

LEMMA FlattenOne ==
    ASSUME NEW S, NEW s \in Seq(S)
    PROVE  FlattenSeq(<<s>>) = s
<1> DEFINE seqs == <<s>>
<1>1. seqs \in Seq(Seq(S)) /\ Len(seqs) = 1 /\ seqs[1] = s
  OBVIOUS
<1> HIDE DEF seqs
<1>2. FlattenSeq(seqs) = FlatTo(1, seqs) /\ FlatTo(1, seqs) = FlatTo(0, seqs) \o s
  <2>1. 1 \in 1 .. Len(seqs) /\ 1 - 1 = 0
    BY <1>1
  <2>2. FlatTo(1, seqs) = FlatTo(1 - 1, seqs) \o seqs[1]
    BY <1>1, <2>1, FlatNext
  <2>3. FlattenSeq(seqs) = FlatTo(1, seqs)
    BY <1>1, FlattenAll
  <2> QED
    BY <1>1, <2>1, <2>2, <2>3
<1>3. FlatTo(0, seqs) = <<>> /\ <<>> \o s = s
  BY ConcatEmptySeq DEF FlatTo
<1> QED
  BY <1>2, <1>3 DEF seqs

LEMMA FlattenTwo ==
    ASSUME NEW S, NEW s \in Seq(S), NEW t \in Seq(S)
    PROVE  FlattenSeq(<<s, t>>) = s \o t
<1> DEFINE seqs == <<s, t>>
<1>1. seqs \in Seq(Seq(S)) /\ Len(seqs) = 2 /\ seqs[1] = s /\ seqs[2] = t
  OBVIOUS
<1> HIDE DEF seqs
<1>2. /\ FlattenSeq(seqs) = FlatTo(2, seqs) /\ FlatTo(2, seqs) = FlatTo(1, seqs) \o t
      /\ FlatTo(1, seqs) = FlatTo(0, seqs) \o s
  <2>1. 1 \in 1 .. Len(seqs) /\ 1 - 1 = 0 /\ 2 \in 1 .. Len(seqs) /\ 2 - 1 = 1
    BY <1>1
  <2>2. FlatTo(1, seqs) = FlatTo(1 - 1, seqs) \o seqs[1]
    BY <1>1, <2>1, FlatNext
  <2>3. FlatTo(2, seqs) = FlatTo(2 - 1, seqs) \o seqs[2]
    BY <1>1, <2>1, FlatNext
  <2>4. FlattenSeq(seqs) = FlatTo(2, seqs)
    BY <1>1, FlattenAll
  <2> QED
    BY <1>1, <2>1, <2>2, <2>3, <2>4
<1>3. FlatTo(0, seqs) = <<>> /\ <<>> \o s = s
  BY ConcatEmptySeq DEF FlatTo
<1> QED
  BY <1>2, <1>3 DEF seqs

\* Statements that together make so many tokens at least.
Makes(group, n) ==
    /\ \E S : group \in Seq(Seq(S))
    /\ Len(FlattenSeq(group)) >= n

LEMMA MakesSome ==
    ASSUME NEW S, NEW group \in Seq(Seq(S))
    PROVE  Makes(group, 0) /\ Len(FlattenSeq(group)) \in Nat
<1>1. FlattenSeq(group) \in Seq(S)
  BY FlattenAll
<1>2. Len(FlattenSeq(group)) \in Nat
  BY <1>1
<1> QED
  BY <1>2 DEF Makes

LEMMA OneMakes ==
    ASSUME NEW S, NEW s \in Seq(S), NEW n \in Nat, Len(s) >= n
    PROVE  Makes(<<s>>, n)
<1>1. <<s>> \in Seq(Seq(S))
  OBVIOUS
<1> QED
  BY <1>1, FlattenOne DEF Makes

LEMMA TwoMake ==
    ASSUME NEW S, NEW s \in Seq(S), NEW T, NEW t \in Seq(T), NEW n \in Nat, Len(s) >= n
    PROVE  Makes(<<s, t>>, n)
<1> DEFINE U == S \union T
<1>1. s \in Seq(U) /\ t \in Seq(U)
  OBVIOUS
<1>2. <<s, t>> \in Seq(Seq(U))
  BY <1>1
<1>3. Len(s \o t) = Len(s) + Len(t)
  BY <1>1, Behind
<1>4. Len(s) \in Nat /\ Len(t) \in Nat
  OBVIOUS
<1>5. Len(s \o t) >= n
  BY <1>3, <1>4
<1> HIDE DEF U
<1>6. FlattenSeq(<<s, t>>) = s \o t
  BY <1>1, FlattenTwo
<1> QED
  BY <1>2, <1>5, <1>6 DEF Makes

\* Assembler's own is the same.
LEMMA OneFlattenSeq == \A seqs : A!FlattenSeq(seqs) = FlattenSeq(seqs)
BY DEF A!FlattenSeq, FlattenSeq

\* They are appended.
LEMMA Pushed ==
    ASSUME IsSeq(token_array), NEW group, NEW n \in Nat, Makes(group, n), A!Push(group)
    PROVE  IsSeq(token_array') /\ Len(token_array') >= Len(token_array) + n
<1> DEFINE flat == FlattenSeq(group)
<1>1. PICK S : token_array \in Seq(S)
  BY DEF IsSeq
<1>2. PICK T : group \in Seq(Seq(T))
  BY DEF Makes
<1>3. flat \in Seq(T) /\ Len(flat) >= n
  BY <1>2, FlattenAll DEF Makes
<1>4. token_array' = token_array \o flat
  BY OneFlattenSeq DEF A!Push
<1> HIDE DEF flat
<1> DEFINE U == S \union T
<1>5. token_array \in Seq(U) /\ flat \in Seq(U)
  BY <1>1, <1>3
<1>6. token_array \o flat \in Seq(U) /\ Len(token_array \o flat) = Len(token_array) + Len(flat)
  BY <1>5, Behind
<1>7. Len(token_array) \in Nat /\ Len(flat) \in Nat
  BY <1>1, <1>3
<1> QED
  BY <1>3, <1>4, <1>6, <1>7 DEF IsSeq

\* A token of the frontend is a statement, but for what `exit' is: one of so many tokens.
Least(token) == IF token.op \in {"ASMDIRMEM", "JMP"} THEN 2 ELSE 0

Known == {"ASMDIRMEM", "CMP", "JCC", "JMP", "CALL", "MEM", "REL", "RETN", "PLAIN"}

IsStatement(group, n) == \E S : \E s \in Seq(S) : group = <<s>> /\ Len(s) >= n

LEMMA OneStatement ==
    ASSUME NEW token, token.op \in Known, ~(token.op = "PLAIN" /\ token.by = "exit"),
           NEW name, NEW number
    PROVE  IsStatement(StatementsOf(token, name, number), Least(token))
<1> DEFINE group == StatementsOf(token, name, number)
<1>1. ASSUME NEW S, NEW s \in Seq(S), group = <<s>>, Len(s) >= Least(token)
      PROVE  IsStatement(group, Least(token))
  BY <1>1 DEF IsStatement
<1>2. CASE token.op = "ASMDIRMEM"
  <2> DEFINE s == <<ASMDIRMEM, token.id>>
  <2>1. s \in Seq({ASMDIRMEM, token.id}) /\ Len(s) >= 2
    OBVIOUS
  <2>2. group = <<s>> /\ Least(token) = 2
    BY <1>2 DEF StatementsOf, Least
  <2> QED
    BY <1>1, <2>1, <2>2
<1>3. CASE token.op = "JMP"
  <2> DEFINE s == <<JMP, D32, REL, token.id>>
  <2>1. s \in Seq({JMP, D32, REL, token.id}) /\ Len(s) >= 2
    OBVIOUS
  <2>2. group = <<s>> /\ Least(token) = 2
    BY <1>3 DEF StatementsOf, Least
  <2> QED
    BY <1>1, <2>1, <2>2
<1>4. CASE token.op = "CMP"
  <2> DEFINE s == <<CMP, D32, REG, 1, REG, 3>>
  <2>1. s \in Seq({CMP, D32, REG, 1, 3}) /\ Len(s) >= 0
    OBVIOUS
  <2>2. group = <<s>> /\ Least(token) = 0
    BY <1>4 DEF StatementsOf, Least
  <2> QED
    BY <1>1, <2>1, <2>2
<1>5. CASE token.op = "JCC"
  <2> DEFINE s == <<Inverted(name), D32, REL, token.id>>
  <2>1. s \in Seq({Inverted(name), D32, REL, token.id}) /\ Len(s) >= 0
    OBVIOUS
  <2>2. group = <<s>> /\ Least(token) = 0
    BY <1>5 DEF StatementsOf, Least
  <2> QED
    BY <1>1, <2>1, <2>2
<1>6. CASE token.op = "CALL"
  <2> DEFINE s == <<CALL, REL, token.id>>
  <2>1. s \in Seq({CALL, REL, token.id}) /\ Len(s) >= 0
    OBVIOUS
  <2>2. group = <<s>> /\ Least(token) = 0
    BY <1>6 DEF StatementsOf, Least
  <2> QED
    BY <1>1, <2>1, <2>2
<1>7. CASE token.op = "MEM"
  <2> DEFINE s == <<INC, D32, MEM, token.id>>
  <2>1. s \in Seq({INC, D32, MEM, token.id}) /\ Len(s) >= 0
    OBVIOUS
  <2>2. group = <<s>> /\ Least(token) = 0
    BY <1>7 DEF StatementsOf, Least
  <2> QED
    BY <1>1, <2>1, <2>2
<1>8. CASE token.op = "REL"
  <2> DEFINE s == <<MOV, D32, REG, 6, REL, token.id>>
  <2>1. s \in Seq({MOV, D32, REG, 6, REL, token.id}) /\ Len(s) >= 0
    OBVIOUS
  <2>2. group = <<s>> /\ Least(token) = 0
    BY <1>8 DEF StatementsOf, Least
  <2> QED
    BY <1>1, <2>1, <2>2
<1>9. CASE token.op = "RETN"
  <2> DEFINE s == <<RETN>>
  <2>1. s \in Seq({RETN}) /\ Len(s) >= 0
    OBVIOUS
  <2>2. group = <<s>> /\ Least(token) = 0
    BY <1>9 DEF StatementsOf, Least
  <2> QED
    BY <1>1, <2>1, <2>2
<1>10. CASE token.op = "PLAIN" /\ token.by # "exit"
  <2> DEFINE s == <<NOP>>
  <2>1. s \in Seq({NOP}) /\ Len(s) >= 0
    OBVIOUS
  <2>2. group = <<s>> /\ Least(token) = 0
    BY <1>10 DEF StatementsOf, Least
  <2> QED
    BY <1>1, <2>1, <2>2
<1> QED
  BY <1>2, <1>3, <1>4, <1>5, <1>6, <1>7, <1>8, <1>9, <1>10 DEF Known

LEMMA StatementMakes ==
    ASSUME NEW token, token.op \in Known, NEW name, NEW number
    PROVE  Makes(StatementsOf(token, name, number), Least(token)) /\ Least(token) \in Nat
<1> DEFINE group == StatementsOf(token, name, number)
<1>1. Least(token) \in Nat
  BY DEF Least
<1>2. CASE token.op = "PLAIN" /\ token.by = "exit"
  <2> DEFINE s == <<MOV, D32, REG, 0, IMM, 60>>
             t == <<MOV, D32, REG, 7, IMM, number>>
             u == <<SYSCALL>>
             S == {MOV, D32, REG, 0, IMM, 60, 7, number, SYSCALL}
  <2>1. group = <<s, t, u>> /\ Least(token) = 0
    BY <1>2 DEF StatementsOf, Least
  <2>2. s \in Seq(S) /\ t \in Seq(S) /\ u \in Seq(S)
    OBVIOUS
  <2> HIDE DEF S, s, t, u
  <2>3. <<s, t, u>> \in Seq(Seq(S))
    BY <2>2
  <2> QED
    BY <1>1, <2>1, <2>3, MakesSome
<1>3. CASE ~(token.op = "PLAIN" /\ token.by = "exit")
  <2>1. PICK S : \E s \in Seq(S) : group = <<s>> /\ Len(s) >= Least(token)
    BY <1>3, OneStatement DEF IsStatement
  <2>2. PICK s \in Seq(S) : group = <<s>> /\ Len(s) >= Least(token)
    BY <2>1
  <2> HIDE DEF group
  <2>3. Makes(group, Least(token))
    BY <1>1, <2>2, OneMakes
  <2> QED
    BY <1>1, <2>3 DEF group
<1> QED
  BY <1>2, <1>3

-----------------------------------------------------------------------------
(***************************************************************************)
(* What a step of the frontend appended.                                   *)
(***************************************************************************)
LEMMA AppendedNone ==
    ASSUME IsSeq(tokens), tokens' = tokens, NEW name, NEW number
    PROVE  Makes(Appended(name, number), 0)
<1>1. PICK S : tokens \in Seq(S)
  BY DEF IsSeq
<1>2. SubSeq(tokens', Len(tokens) + 1, Len(tokens')) = <<>>
  BY <1>1
<1> DEFINE f == [k \in DOMAIN <<>> |-> StatementsOf(<<>>[k], name, number)]
<1>3. Appended(name, number) = FlattenSeq(f)
  BY <1>2 DEF Appended
<1>4. f = <<>>
  OBVIOUS
<1>5. FlattenSeq(<<>>) = <<>>
  BY DEF FlattenSeq
<1>6. <<>> \in Seq(Seq(Nat))
  OBVIOUS
<1> HIDE DEF f
<1>7. Appended(name, number) \in Seq(Seq(Nat))
  BY <1>3, <1>4, <1>5, <1>6
<1> QED
  BY <1>7, MakesSome

LEMMA AppendedOne ==
    ASSUME IsSeq(tokens), NEW t, t.op \in Known, tokens' = Append(tokens, t), NEW name, NEW number
    PROVE  /\ Makes(Appended(name, number), Least(t)) /\ Least(t) \in Nat
           /\ IsSeq(tokens')
           /\ \A i \in DOMAIN tokens' :
                tokens'[i] = t \/ (i \in DOMAIN tokens /\ tokens'[i] = tokens[i])
<1>1. PICK S : tokens \in Seq(S)
  BY DEF IsSeq
<1> DEFINE U == S \union {t}
           new == SubSeq(tokens', Len(tokens) + 1, Len(tokens'))
<1>2. tokens \in Seq(U) /\ t \in U
  BY <1>1
<1> HIDE DEF U
<1>3. /\ tokens' \in Seq(U) /\ Len(tokens') = Len(tokens) + 1 /\ Len(tokens) \in Nat
      /\ tokens'[Len(tokens) + 1] = t
      /\ \A i \in 1 .. Len(tokens) : tokens'[i] = tokens[i]
  BY <1>2
<1>4. new = <<t>>
  <2>1. /\ Len(tokens') \in Nat /\ Len(tokens) + 1 \in 1 .. Len(tokens') + 1
        /\ Len(tokens') \in Len(tokens) .. Len(tokens')
        /\ Len(tokens) + 1 <= Len(tokens')
        /\ Len(tokens') - (Len(tokens) + 1) + 1 = 1
    BY <1>3
  <2>2. /\ new \in Seq(U)
        /\ Len(new) = Len(tokens') - (Len(tokens) + 1) + 1
        /\ \A i \in 1 .. Len(tokens') - (Len(tokens) + 1) + 1 :
              new[i] = tokens'[(Len(tokens) + 1) + i - 1]
    BY <1>3, <2>1, SubSeqProperties
  <2>3. 1 \in 1 .. 1 /\ (Len(tokens) + 1) + 1 - 1 = Len(tokens) + 1
    BY <1>3
  <2>4. Len(new) = 1 /\ new[1] = t
    BY <1>3, <2>1, <2>2, <2>3
  <2>5. <<t>> \in Seq(U) /\ Len(<<t>>) = 1 /\ <<t>>[1] = t
    BY <1>2
  <2>6. \A i \in 1 .. Len(new) : new[i] = <<t>>[i]
    BY <2>4, <2>5
  <2> HIDE DEF new
  <2> QED
    BY <2>2, <2>4, <2>5, <2>6, SeqEqual
<1> DEFINE g == StatementsOf(t, name, number)
           f == [k \in DOMAIN new |-> StatementsOf(new[k], name, number)]
<1>5. f = <<g>>
  <2> HIDE DEF new
  <2>1. DOMAIN new = 1 .. 1 /\ new[1] = t
    BY <1>4
  <2>2. f = [k \in 1 .. 1 |-> g]
    BY <2>1
  <2> HIDE DEF f, g
  <2>3. \A k \in 1 .. 1 : k = 1
    OBVIOUS
  <2> QED
    BY <2>2, <2>3
<1>6. Appended(name, number) = FlattenSeq(f)
  BY DEF Appended
<1>7. Makes(g, Least(t)) /\ Least(t) \in Nat
  BY StatementMakes
<1>8. PICK T : g \in Seq(Seq(T))
  BY <1>7 DEF Makes
<1> HIDE DEF g, f, new
<1>9. FlattenSeq(<<g>>) = g
  BY <1>8, FlattenOne
<1>10. Makes(Appended(name, number), Least(t))
  BY <1>5, <1>6, <1>7, <1>9
<1>11. DOMAIN tokens = 1 .. Len(tokens) /\ DOMAIN tokens' = 1 .. Len(tokens')
  BY <1>2, <1>3
<1>12. \A i \in 1 .. Len(tokens) + 1 : i \in 1 .. Len(tokens) \/ i = Len(tokens) + 1
  BY <1>3
<1> QED
  BY <1>3, <1>7, <1>10, <1>11, <1>12 DEF IsSeq

LEMMA TwoAreAPair == ASSUME NEW a, NEW b PROVE <<a>> \o <<b>> = <<a, b>>
<1> DEFINE W == {a, b}
<1>1. /\ <<a>> \in Seq(W) /\ <<b>> \in Seq(W) /\ Len(<<a>>) = 1 /\ Len(<<b>>) = 1
      /\ <<a>>[1] = a /\ <<b>>[1] = b
      /\ <<a, b>> \in Seq(W) /\ Len(<<a, b>>) = 2 /\ <<a, b>>[1] = a /\ <<a, b>>[2] = b
  OBVIOUS
<1> DEFINE s == <<a>>
           t == <<b>>
           both == <<a, b>>
<1> HIDE DEF W, s, t, both
<1>2. /\ s \o t \in Seq(W) /\ Len(s \o t) = 1 + 1
      /\ \A i \in 1 .. 1 : (s \o t)[i] = s[i]
      /\ \A i \in 1 .. 1 : (s \o t)[1 + i] = t[i]
  <2>1. /\ s \in Seq(W) /\ t \in Seq(W) /\ Len(s) = 1 /\ Len(t) = 1
    BY <1>1 DEF s, t
  <2>2. /\ s \o t \in Seq(W) /\ Len(s \o t) = Len(s) + Len(t)
        /\ \A i \in 1 .. Len(s) : (s \o t)[i] = s[i]
        /\ \A i \in 1 .. Len(t) : (s \o t)[Len(s) + i] = t[i]
    BY <2>1, Behind
  <2> QED
    BY <2>1, <2>2
<1>3. /\ s[1] = a /\ t[1] = b /\ both \in Seq(W) /\ Len(both) = 2 /\ both[1] = a /\ both[2] = b
  BY <1>1 DEF s, t, both
<1>4. 1 \in 1 .. 1 /\ 1 + 1 = 2 /\ \A i \in 1 .. 2 : i = 1 \/ i = 2
  OBVIOUS
<1>5. (s \o t)[1] = both[1] /\ (s \o t)[2] = both[2]
  BY <1>2, <1>3, <1>4
<1>6. \A i \in 1 .. Len(s \o t) : (s \o t)[i] = both[i]
  BY <1>2, <1>4, <1>5
<1>7. s \o t = both
  BY <1>2, <1>3, <1>4, <1>6, SeqEqual
<1> QED
  BY <1>7 DEF s, t, both

LEMMA AppendedTwo ==
    ASSUME IsSeq(tokens), NEW t, t.op \in Known \ {"PLAIN"}, NEW u, u.op \in Known \ {"PLAIN"},
           tokens' = Append(Append(tokens, t), u), NEW name, NEW number
    PROVE  /\ Makes(Appended(name, number), Least(t)) /\ Least(t) \in Nat
           /\ IsSeq(tokens')
           /\ \A i \in DOMAIN tokens' :
                tokens'[i] \in {t, u} \/ (i \in DOMAIN tokens /\ tokens'[i] = tokens[i])
<1>1. PICK S : tokens \in Seq(S)
  BY DEF IsSeq
<1> DEFINE U == S \union {t, u}
           new == SubSeq(tokens', Len(tokens) + 1, Len(tokens'))
<1>2. tokens \in Seq(U) /\ t \in U /\ u \in U
  BY <1>1
<1> HIDE DEF U
<1>3. /\ tokens' \in Seq(U) /\ Len(tokens') = Len(tokens) + 2 /\ Len(tokens) \in Nat
      /\ tokens'[Len(tokens) + 1] = t /\ tokens'[Len(tokens) + 2] = u
      /\ \A i \in 1 .. Len(tokens) : tokens'[i] = tokens[i]
  BY <1>2
<1>4. new \in Seq(U) /\ Len(new) = 2 /\ new[1] = t /\ new[2] = u
  <2>1. /\ Len(tokens') \in Nat /\ Len(tokens) + 1 \in Int
        /\ \A i \in Len(tokens) + 1 .. Len(tokens') : i \in 1 .. Len(tokens')
        /\ Len(tokens) + 1 <= Len(tokens')
        /\ Len(tokens') - (Len(tokens) + 1) + 1 = 2
    BY <1>3
  <2>2. \A i \in 1 .. Len(tokens') : tokens'[i] \in U
    BY <1>3, ElementOfSeq
  <2>3. /\ new \in Seq(U)
        /\ Len(new) = Len(tokens') - (Len(tokens) + 1) + 1
        /\ \A i \in 1 .. Len(tokens') - (Len(tokens) + 1) + 1 :
              new[i] = tokens'[(Len(tokens) + 1) + i - 1]
    BY <2>1, <2>2, SubSeqProperties
  <2>4. /\ 1 \in 1 .. 2 /\ (Len(tokens) + 1) + 1 - 1 = Len(tokens) + 1
        /\ 2 \in 1 .. 2 /\ (Len(tokens) + 1) + 2 - 1 = Len(tokens) + 2
    BY <1>3
  <2> HIDE DEF new
  <2> QED
    BY <1>3, <2>1, <2>3, <2>4
<1> DEFINE g == StatementsOf(t, name, number)
           h == StatementsOf(u, name, number)
           f == [k \in DOMAIN new |-> StatementsOf(new[k], name, number)]
<1>5. f = <<g, h>>
  <2> HIDE DEF new
  <2>1. DOMAIN new = 1 .. 2
    BY <1>4
  <2>2. f = [k \in 1 .. 2 |-> IF k = 1 THEN g ELSE h]
    <3>1. \A k \in 1 .. 2 : k = 1 \/ k = 2
      OBVIOUS
    <3>2. \A k \in 1 .. 2 : StatementsOf(new[k], name, number) = IF k = 1 THEN g ELSE h
      BY <1>4, <3>1
    <3> QED
      BY <2>1, <3>2
  <2> HIDE DEF f, g, h
  <2>3. \A k \in 1 .. 2 : k = 1 \/ k = 2
    OBVIOUS
  <2> QED
    BY <2>2, <2>3
<1>6. Appended(name, number) = FlattenSeq(f)
  BY DEF Appended
<1>7. Least(t) \in Nat
  BY DEF Least
<1>8. PICK S1 : \E s \in Seq(S1) : g = <<s>> /\ Len(s) >= Least(t)
  BY OneStatement DEF IsStatement
<1>9. PICK s \in Seq(S1) : g = <<s>> /\ Len(s) >= Least(t)
  BY <1>8
<1>10. PICK S2 : \E v \in Seq(S2) : h = <<v>> /\ Len(v) >= Least(u)
  BY OneStatement DEF IsStatement
<1>11. PICK v \in Seq(S2) : h = <<v>> /\ Len(v) >= Least(u)
  BY <1>10
<1> HIDE DEF g, h, f, new
<1>12. FlattenSeq(<<g, h>>) = g \o h
  <2> DEFINE T == S1 \union S2
  <2>1. s \in Seq(T) /\ v \in Seq(T)
    OBVIOUS
  <2> HIDE DEF T
  <2>2. g \in Seq(Seq(T)) /\ h \in Seq(Seq(T))
    BY <1>9, <1>11, <2>1
  <2> QED
    BY <2>2, FlattenTwo
<1>13. g \o h = <<s, v>>
  BY <1>9, <1>11, TwoAreAPair
<1>14. Makes(<<s, v>>, Least(t))
  BY <1>7, <1>9, TwoMake
<1>15. Makes(Appended(name, number), Least(t))
  BY <1>5, <1>6, <1>12, <1>13, <1>14
<1>16. DOMAIN tokens = 1 .. Len(tokens) /\ DOMAIN tokens' = 1 .. Len(tokens')
  BY <1>2, <1>3
<1>17. \A i \in 1 .. Len(tokens) + 2 :
          i \in 1 .. Len(tokens) \/ i = Len(tokens) + 1 \/ i = Len(tokens) + 2
  <2>1. \A n \in Nat : \A i \in 1 .. n + 2 : i \in 1 .. n \/ i = n + 1 \/ i = n + 2
    OBVIOUS
  <2> QED
    BY <1>3, <2>1, Zenon
<1>18. ASSUME NEW i \in DOMAIN tokens'
       PROVE  tokens'[i] \in {t, u} \/ (i \in DOMAIN tokens /\ tokens'[i] = tokens[i])
  <2>1. i \in 1 .. Len(tokens) + 2
    BY <1>3, <1>16
  <2>2. \A j \in 1 .. Len(tokens) : j \in DOMAIN tokens
    BY <1>16
  <2> QED
    BY <1>3, <1>17, <2>1, <2>2
<1>19. IsSeq(tokens')
  BY <1>3 DEF IsSeq
<1> QED
  BY <1>7, <1>15, <1>18, <1>19

-----------------------------------------------------------------------------
(***************************************************************************)
(* The invariant.                                                          *)
(***************************************************************************)
\* Every symbol has an id that was taken, of its own.
IdsTable ==
    /\ symbol_id \in Nat \ {0}
    /\ symbols \in [DOMAIN symbols -> F!Symbol] /\ IsFiniteSet(DOMAIN symbols)
    /\ \A k \in DOMAIN symbols : symbols[k].id < symbol_id
    /\ \A k, l \in DOMAIN symbols : symbols[k].id = symbols[l].id => k = l

Parsing == state \in {"hla", "decl", "code"}

\* While the text is read: two ids for each loop, but two tokens to come when it ends; one for
\* each condition, with as many to come; one for each variable, with as many to come.
NoVariables == \A i \in DOMAIN tokens : tokens[i].by # "variable"

Owed == 2 * Len(frames) + 2 * Cardinality(F!Variables)
ReadCounts == 2 * (symbol_id - 1) <= Len(token_array) + Owed

Undumped == {k \in F!Variables : ~F!Dumped(k)}
DumpCounts == 2 * (symbol_id - 1) <= Len(token_array) + 2 * Cardinality(Undumped)

DoneCounts == 2 * (symbol_id - 1) <= Len(token_array)

CountsInv ==
    /\ Parsing => NoVariables /\ ReadCounts
    /\ state \in {"hla", "decl"} => frames = <<>>
    /\ state = "dump" => DumpCounts
    /\ state = "done" => DoneCounts
    /\ phase \notin {"parse", "dump"} => state = "done"

AreSeqs == IsSeq(tokens) /\ IsSeq(token_array) /\ IsSeq(frames)

IdsInv == AreSeqs /\ IdsTable /\ CountsInv

-----------------------------------------------------------------------------
(***************************************************************************)
(* What happens to the table.                                              *)
(***************************************************************************)
LEMMA TableSame ==
    ASSUME IdsTable, symbols' = symbols, symbol_id' \in Nat, symbol_id' >= symbol_id
    PROVE  IdsTable' /\ F!Variables' = F!Variables
<1>1. IdsTable'
  <2>1. ASSUME NEW k \in DOMAIN symbols PROVE symbols[k].id < symbol_id'
    <3>1. symbols[k].id < symbol_id /\ symbols[k] \in F!Symbol
      BY DEF IdsTable
    <3>2. symbols[k].id \in Nat
      BY <3>1 DEF F!Symbol
    <3> QED
      BY <3>1, <3>2 DEF IdsTable
  <2> QED
    BY <2>1 DEF IdsTable
<1> QED
  BY <1>1 DEF F!Variables

LEMMA Finite ==
    ASSUME IdsTable
    PROVE  IsFiniteSet(F!Variables) /\ Cardinality(F!Variables) \in Nat
<1>1. F!Variables \in SUBSET DOMAIN symbols
  BY DEF F!Variables
<1> QED
  BY <1>1, FS_Subset, FS_CardinalityType DEF IdsTable

LEMMA TableInserted ==
    ASSUME IdsTable, NEW key, key \notin DOMAIN symbols, NEW symbol \in F!Symbol,
           symbol.id = symbol_id, F!SymbolInsert(key, symbol)
    PROVE  /\ IdsTable' /\ symbol_id' = symbol_id + 1
           /\ F!Variables' = F!Variables \union (IF symbol.kind = "variable" THEN {key} ELSE {})
<1>1. /\ symbol_id' = symbol_id + 1 /\ symbol_id \in Nat
      /\ symbols' = [k \in DOMAIN symbols \union {key} |->
                        IF k = key THEN symbol ELSE symbols[k]]
  BY DEF F!SymbolInsert, IdsTable
<1>2. /\ DOMAIN symbols' = DOMAIN symbols \union {key}
      /\ symbols'[key] = symbol /\ \A k \in DOMAIN symbols : symbols'[k] = symbols[k]
  BY <1>1
<1>3. IsFiniteSet(DOMAIN symbols')
  BY <1>2, FS_AddElement DEF IdsTable
<1>4. \A k \in DOMAIN symbols : symbols[k] \in F!Symbol /\ symbols[k].id < symbol_id
  BY DEF IdsTable
<1>5. \A k \in DOMAIN symbols : symbols[k].id \in Nat
  BY <1>4 DEF F!Symbol
<1>6. symbols' \in [DOMAIN symbols' -> F!Symbol]
  <2>1. \A k \in DOMAIN symbols \union {key} :
          (IF k = key THEN symbol ELSE symbols[k]) \in F!Symbol
    BY <1>4
  <2> QED
    BY <1>1, <1>2, <2>1
<1>7. ASSUME NEW k \in DOMAIN symbols' PROVE symbols'[k].id < symbol_id'
  <2>1. CASE k = key
    BY <1>1, <1>2, <2>1
  <2>2. CASE k # key
    <3>1. k \in DOMAIN symbols /\ symbols'[k] = symbols[k]
      BY <1>2, <2>2
    <3>2. symbols[k].id < symbol_id /\ symbols[k].id \in Nat
      BY <1>4, <1>5, <3>1
    <3> QED
      BY <1>1, <3>1, <3>2
  <2> QED
    BY <2>1, <2>2
<1>8. ASSUME NEW k \in DOMAIN symbols', NEW l \in DOMAIN symbols',
             symbols'[k].id = symbols'[l].id
      PROVE  k = l
  <2>1. \A m \in DOMAIN symbols : symbols'[m].id # symbol_id
    BY <1>1, <1>2, <1>4, <1>5
  <2>2. CASE k \in DOMAIN symbols /\ l \in DOMAIN symbols
    <3>1. symbols[k].id = symbols[l].id
      BY <1>2, <1>8, <2>2
    <3> QED
      BY <2>2, <3>1 DEF IdsTable
  <2>3. CASE k = key /\ l = key
    BY <2>3
  <2>4. CASE k = key /\ l \in DOMAIN symbols
    BY <1>2, <1>8, <2>1, <2>4
  <2>5. CASE k \in DOMAIN symbols /\ l = key
    BY <1>2, <1>8, <2>1, <2>5
  <2> QED
    BY <1>2, <2>2, <2>3, <2>4, <2>5
<1>9. IdsTable'
  <2>1. symbol_id' \in Nat \ {0}
    BY <1>1
  <2>2. /\ \A k \in DOMAIN symbols' : symbols'[k].id < symbol_id'
        /\ \A k, l \in DOMAIN symbols' : symbols'[k].id = symbols'[l].id => k = l
    BY <1>7, <1>8, Zenon
  <2> QED
    BY <1>3, <1>6, <2>1, <2>2, Zenon DEF IdsTable
<1>10. F!Variables' = F!Variables \union (IF symbol.kind = "variable" THEN {key} ELSE {})
  BY <1>2 DEF F!Variables
<1> QED
  BY <1>1, <1>9, <1>10

LEMMA TableResolved ==
    ASSUME IdsTable, NEW key \in DOMAIN symbols, symbols' = [symbols EXCEPT ![key].word = 1],
           symbol_id' = symbol_id
    PROVE  IdsTable' /\ F!Variables' = F!Variables
<1> DEFINE resolved == [symbols[key] EXCEPT !.word = 1]
<1>1. symbols \in [DOMAIN symbols -> F!Symbol]
  BY DEF IdsTable
<1>2. symbols' = [symbols EXCEPT ![key] = resolved]
  BY <1>1
<1>3. /\ resolved \in F!Symbol /\ resolved.id = symbols[key].id
      /\ resolved.kind = symbols[key].kind
  BY <1>1 DEF F!Symbol
<1> HIDE DEF resolved
<1>4. /\ DOMAIN symbols' = DOMAIN symbols /\ symbols'[key] = resolved
      /\ \A k \in DOMAIN symbols : k # key => symbols'[k] = symbols[k]
  BY <1>1, <1>2
<1>5. /\ symbols' \in [DOMAIN symbols' -> F!Symbol]
      /\ \A k \in DOMAIN symbols :
            symbols'[k].id = symbols[k].id /\ symbols'[k].kind = symbols[k].kind
  BY <1>1, <1>2, <1>3, <1>4
<1>6. IdsTable'
  BY <1>4, <1>5 DEF IdsTable
<1>7. F!Variables' = F!Variables
  BY <1>4, <1>5 DEF F!Variables
<1> QED
  BY <1>6, <1>7

-----------------------------------------------------------------------------
(***************************************************************************)
(* What a step that reads does to the arrays.                              *)
(***************************************************************************)
Appends(n) ==
    /\ IsSeq(tokens') /\ IsSeq(token_array')
    /\ Len(token_array') >= Len(token_array) + n
    /\ phase = "parse" /\ phase' = "parse"
    /\ ~has_encountered_error'
    /\ NoVariables => NoVariables'

LEMMA ReadPushes ==
    ASSUME IsSeq(token_array), NEW op, NEW name, NEW number, Read(op, name, number),
           NEW n \in Nat, Makes(Appended(name, number), n)
    PROVE  /\ IsSeq(token_array') /\ Len(token_array') >= Len(token_array) + n
           /\ phase = "parse" /\ phase' = "parse" /\ ~has_encountered_error'
<1> DEFINE group == Appended(name, number)
<1>1. ~has_encountered_error' /\ A!AppendInstructions(group)
  BY DEF Read
<1> HIDE DEF group
<1>2. A!Push(group) /\ phase = "parse" /\ phase' = "parse"
  BY <1>1 DEF A!AppendInstructions
<1>3. Makes(group, n)
  BY DEF group
<1> QED
  BY <1>1, <1>2, <1>3, Pushed

LEMMA ReadNone ==
    ASSUME AreSeqs, NEW op, NEW name, NEW number, Read(op, name, number), tokens' = tokens
    PROVE  Appends(0)
<1>1. IsSeq(tokens) /\ IsSeq(token_array)
  BY DEF AreSeqs
<1>2. Makes(Appended(name, number), 0)
  BY <1>1, AppendedNone
<1>3. IsSeq(tokens') /\ (NoVariables => NoVariables')
  BY <1>1 DEF IsSeq, NoVariables
<1>4. /\ IsSeq(token_array') /\ Len(token_array') >= Len(token_array) + 0
      /\ phase = "parse" /\ phase' = "parse" /\ ~has_encountered_error'
  BY <1>1, <1>2, ReadPushes
<1> QED
  BY <1>3, <1>4 DEF Appends

LEMMA ReadOne ==
    ASSUME AreSeqs, NEW op, NEW name, NEW number, Read(op, name, number),
           NEW t, t.op \in Known, t.by # "variable", F!Append1(t)
    PROVE  Appends(Least(t))
<1>1. IsSeq(tokens) /\ IsSeq(token_array)
  BY DEF AreSeqs
<1>2. tokens' = Append(tokens, t)
  BY DEF F!Append1
<1>3. /\ Makes(Appended(name, number), Least(t)) /\ Least(t) \in Nat
      /\ IsSeq(tokens')
      /\ \A i \in DOMAIN tokens' :
            tokens'[i] = t \/ (i \in DOMAIN tokens /\ tokens'[i] = tokens[i])
  BY <1>1, <1>2, AppendedOne
<1>4. NoVariables => NoVariables'
  BY <1>3 DEF NoVariables
<1>5. /\ IsSeq(token_array') /\ Len(token_array') >= Len(token_array) + Least(t)
      /\ phase = "parse" /\ phase' = "parse" /\ ~has_encountered_error'
  BY <1>1, <1>3, ReadPushes
<1> QED
  BY <1>3, <1>4, <1>5 DEF Appends

LEMMA ReadTwo ==
    ASSUME AreSeqs, NEW op, NEW name, NEW number, Read(op, name, number),
           NEW t, t.op \in Known \ {"PLAIN"}, t.by # "variable",
           NEW u, u.op \in Known \ {"PLAIN"}, u.by # "variable", F!Append2(t, u)
    PROVE  Appends(Least(t))
<1>1. IsSeq(tokens) /\ IsSeq(token_array)
  BY DEF AreSeqs
<1>2. tokens' = Append(Append(tokens, t), u)
  BY DEF F!Append2
<1>3. /\ Makes(Appended(name, number), Least(t)) /\ Least(t) \in Nat
      /\ IsSeq(tokens')
      /\ \A i \in DOMAIN tokens' :
            tokens'[i] \in {t, u} \/ (i \in DOMAIN tokens /\ tokens'[i] = tokens[i])
  BY <1>1, <1>2, AppendedTwo
<1>4. NoVariables => NoVariables'
  BY <1>3 DEF NoVariables
<1>5. /\ IsSeq(token_array') /\ Len(token_array') >= Len(token_array) + Least(t)
      /\ phase = "parse" /\ phase' = "parse" /\ ~has_encountered_error'
  BY <1>1, <1>3, ReadPushes
<1> QED
  BY <1>3, <1>4, <1>5 DEF Appends

\* As many tokens as the ids that were taken ask for, now or later.
LEMMA Counted ==
    ASSUME IdsInv, Parsing, Parsing', IdsTable', IsSeq(frames'),
           state' \in {"hla", "decl"} => frames' = <<>>,
           NEW n \in Nat, Appends(n),
           NEW ids \in Nat, symbol_id' = symbol_id + ids,
           NEW blocks \in Int, Len(frames') = Len(frames) + blocks,
           NEW variables \in Nat,
           Cardinality(F!Variables)' = Cardinality(F!Variables) + variables,
           2 * ids <= n + 2 * blocks + 2 * variables
    PROVE  IdsInv'
<1> DEFINE c  == Cardinality(F!Variables)
           cc == Cardinality(F!Variables)'
           f  == Len(frames)
           ff == Len(frames')
           l  == Len(token_array)
           ll == Len(token_array')
<1>1. c \in Nat /\ symbol_id \in Nat
  BY Finite DEF IdsInv, IdsTable
<1>2. f \in Nat /\ l \in Nat /\ ll \in Nat
  BY DEF IdsInv, AreSeqs, IsSeq, Appends
<1>3. NoVariables /\ 2 * (symbol_id - 1) <= l + (2 * f + 2 * c)
  BY DEF IdsInv, CountsInv, ReadCounts, Owed
<1>4. ll >= l + n /\ ff = f + blocks /\ cc = c + variables
  BY DEF Appends
<1> HIDE DEF c, cc, f, ff, l, ll
<1>5. 2 * (symbol_id' - 1) <= ll + (2 * ff + 2 * cc)
  BY <1>1, <1>2, <1>3, <1>4
<1>6. ReadCounts'
  BY <1>5 DEF ReadCounts, Owed, c, cc, f, ff, l, ll
<1>7. NoVariables' /\ AreSeqs' /\ phase' = "parse"
  BY <1>3 DEF Appends, AreSeqs
<1>8. state' \notin {"dump", "done"}
  BY DEF Parsing
<1>9. CountsInv'
  BY <1>6, <1>7, <1>8 DEF CountsInv
<1> QED
  BY <1>7, <1>9 DEF IdsInv

\* After a fault nothing is promised.
LEMMA Faulty ==
    ASSUME state' \in F!Faults, IdsTable', IsSeq(frames'), NEW n, Appends(n)
    PROVE  IdsInv'
<1>1. ~Parsing' /\ state' \notin {"hla", "decl", "dump", "done"} /\ phase' = "parse"
  BY DEF F!Faults, Parsing, Appends
<1>2. CountsInv'
  BY <1>1 DEF CountsInv
<1>3. AreSeqs'
  BY DEF AreSeqs, Appends
<1> QED
  BY <1>2, <1>3 DEF IdsInv

-----------------------------------------------------------------------------
(***************************************************************************)
(* What a step does to the blocks and to the table.                        *)
(***************************************************************************)
LEMMA FramesOpened ==
    ASSUME IsSeq(frames), NEW x, frames' = Append(frames, x)
    PROVE  IsSeq(frames') /\ Len(frames') = Len(frames) + 1
<1>1. PICK S : frames \in Seq(S)
  BY DEF IsSeq
<1>2. frames \in Seq(S \union {x}) /\ x \in S \union {x}
  BY <1>1
<1>3. frames' \in Seq(S \union {x}) /\ Len(frames') = Len(frames) + 1
  BY <1>2
<1> QED
  BY <1>3 DEF IsSeq

LEMMA FramesClosed ==
    ASSUME IsSeq(frames), frames # <<>>, frames' = F!Pop(frames)
    PROVE  IsSeq(frames') /\ Len(frames') = Len(frames) + -1
<1>1. PICK S : frames \in Seq(S)
  BY DEF IsSeq
<1>2. Len(frames) \in Nat /\ Len(frames) >= 1
  BY <1>1
<1>3. \A i \in 1 .. Len(frames) : frames[i] \in S
  BY <1>1, ElementOfSeq
<1>4. frames' = SubSeq(frames, 1, Len(frames) - 1)
  BY DEF F!Pop
<1>5. frames' \in Seq(S) /\ Len(frames') = Len(frames) - 1
  <2> DEFINE n == Len(frames) - 1
  <2>1. n \in Nat /\ Len(frames) = n + 1
    BY <1>2
  <2> HIDE DEF n
  <2>2. \A i \in 1 .. n : frames[i] \in S
    BY <1>3, <2>1
  <2>3. SubSeq(frames, 1, n) \in Seq(S) /\ Len(SubSeq(frames, 1, n)) = n
    BY <2>1, <2>2, SubSeqProperties
  <2>4. frames' = SubSeq(frames, 1, n) /\ n = Len(frames) - 1
    BY <1>4 DEF n
  <2> QED
    BY <2>3, <2>4
<1> QED
  BY <1>2, <1>5 DEF IsSeq

LEMMA FramesChanged ==
    ASSUME IsSeq(frames), frames # <<>>, NEW x,
           frames' = [frames EXCEPT ![Len(frames)].at = x]
    PROVE  IsSeq(frames') /\ Len(frames') = Len(frames)
<1>1. PICK S : frames \in Seq(S)
  BY DEF IsSeq
<1> DEFINE y == [frames[Len(frames)] EXCEPT !.at = x]
           U == S \union {y}
<1>2. frames' = [frames EXCEPT ![Len(frames)] = y]
  BY <1>1
<1> HIDE DEF y
<1>3. frames \in Seq(U) /\ y \in U
  BY <1>1
<1> HIDE DEF U
<1>4. frames' \in Seq(U) /\ Len(frames') = Len(frames)
  BY <1>2, <1>3
<1> QED
  BY <1>4 DEF IsSeq

\* A name that is not found is not in the table, in its scope neither.
LEMMA FreshKey ==
    ASSUME NEW s, NEW name, ~F!Known(F!GetSymbol(s, name))
    PROVE  name \notin DOMAIN symbols /\ F!MakeScopedName(s, name) \notin DOMAIN symbols
BY DEF F!Known, F!GetSymbol

LEMMA LabelIsSymbol ==
    ASSUME IdsTable, NEW resolved
    PROVE  LET label == F!NewLabel(resolved, symbol_id)
           IN  label \in F!Symbol /\ label.id = symbol_id /\ label.kind = "label"
<1>1. symbol_id \in Nat
  BY DEF IdsTable
<1> QED
  BY <1>1 DEF F!NewLabel, F!NewSymbol, F!Symbol, F!Payloads

LEMMA VariableIsSymbol ==
    ASSUME IdsTable, NEW d \in F!Declarations
    PROVE  LET variable == F!NewSymbol("variable", F!TYPE_TOKEN, symbol_id,
                                       d.elements, d.payload, d.length)
           IN  /\ variable \in F!Symbol /\ variable.id = symbol_id
               /\ variable.kind = "variable"
<1>1. symbol_id \in Nat
  BY DEF IdsTable
<1>2. d.elements \in Int /\ d.payload \in F!Payloads /\ d.length \in Nat
  <2>1. CASE d = F!Declaration(1, "number", 0)
    BY <2>1 DEF F!Declaration, F!Payloads
  <2>2. CASE \E n \in ArraySizes :
                d = F!Declaration(n, IF n = 1 THEN "number" ELSE "null", 0)
    BY <2>2, ElementsAssumption DEF F!Declaration, F!Payloads
  <2>3. CASE \E n \in ArraySizes, l \in Lengths : d = F!Declaration(n, "literal", l)
    BY <2>3, ElementsAssumption DEF F!Declaration, F!Payloads
  <2>4. CASE \E l \in Lengths : d = F!Declaration(l, "literal", l)
    BY <2>4, ElementsAssumption DEF F!Declaration, F!Payloads
  <2> QED
    BY <2>1, <2>2, <2>3, <2>4 DEF F!Declarations
<1> QED
  BY <1>1, <1>2 DEF F!NewSymbol, F!Symbol, F!TYPE_TOKEN

\* One more variable.
LEMMA VariableAdded ==
    ASSUME IdsTable, NEW key, key \notin DOMAIN symbols,
           F!Variables' = F!Variables \union {key}
    PROVE  Cardinality(F!Variables)' = Cardinality(F!Variables) + 1
<1>1. key \notin F!Variables
  BY DEF F!Variables
<1> QED
  BY <1>1, Finite, FS_AddElement

LEMMA FramesLength == ASSUME IsSeq(frames) PROVE Len(frames) + 0 = Len(frames)
BY DEF IsSeq

LEMMA FramesSame ==
    ASSUME IsSeq(frames), frames' = frames
    PROVE  IsSeq(frames') /\ Len(frames') = Len(frames) + 0
BY DEF IsSeq

LEMMA TableKept ==
    ASSUME IdsTable, symbols' = symbols, NEW n \in Nat, symbol_id' = symbol_id + n
    PROVE  IdsTable' /\ Cardinality(F!Variables)' = Cardinality(F!Variables) + 0
<1>1. symbol_id' \in Nat /\ symbol_id' >= symbol_id
  BY DEF IdsTable
<1>2. IdsTable' /\ F!Variables' = F!Variables
  BY <1>1, TableSame
<1> QED
  BY <1>2, Finite

LEMMA LabelTaken ==
    ASSUME IdsTable, NEW key, key \notin DOMAIN symbols, NEW resolved,
           F!SymbolInsert(key, F!NewLabel(resolved, symbol_id))
    PROVE  /\ IdsTable' /\ symbol_id' = symbol_id + 1
           /\ Cardinality(F!Variables)' = Cardinality(F!Variables) + 0
<1> DEFINE label == F!NewLabel(resolved, symbol_id)
<1>1. label \in F!Symbol /\ label.id = symbol_id /\ label.kind = "label"
  BY LabelIsSymbol
<1>2. F!SymbolInsert(key, label)
  OBVIOUS
<1> HIDE DEF label
<1>3. /\ IdsTable' /\ symbol_id' = symbol_id + 1
      /\ F!Variables' = F!Variables \union (IF label.kind = "variable" THEN {key} ELSE {})
  BY <1>1, <1>2, TableInserted, Zenon
<1>4. F!Variables' = F!Variables
  BY <1>1, <1>3
<1>5. Cardinality(F!Variables) + 0 = Cardinality(F!Variables)
  BY Finite
<1> QED
  BY <1>3, <1>4, <1>5

LEMMA VariableTaken ==
    ASSUME IdsTable, NEW key, key \notin DOMAIN symbols, NEW d \in F!Declarations,
           F!SymbolInsert(key, F!NewSymbol("variable", F!TYPE_TOKEN, symbol_id,
                                           d.elements, d.payload, d.length))
    PROVE  /\ IdsTable' /\ symbol_id' = symbol_id + 1
           /\ Cardinality(F!Variables)' = Cardinality(F!Variables) + 1
<1> DEFINE variable == F!NewSymbol("variable", F!TYPE_TOKEN, symbol_id,
                                   d.elements, d.payload, d.length)
<1>1. variable \in F!Symbol /\ variable.id = symbol_id /\ variable.kind = "variable"
  BY VariableIsSymbol
<1>2. F!SymbolInsert(key, variable)
  OBVIOUS
<1> HIDE DEF variable
<1>3. /\ IdsTable' /\ symbol_id' = symbol_id + 1
      /\ F!Variables' = F!Variables \union (IF variable.kind = "variable" THEN {key} ELSE {})
  BY <1>1, <1>2, TableInserted
<1>4. F!Variables' = F!Variables \union {key}
  BY <1>1, <1>3
<1> QED
  BY <1>3, <1>4, VariableAdded

-----------------------------------------------------------------------------
(***************************************************************************)
(* Every step that reads keeps the account.                                *)
(***************************************************************************)
\* Neither ids nor blocks: whatever it appends is more than is asked for.
LEMMA NoIdTaken ==
    ASSUME IdsInv, Parsing, Parsing', state' \in {"hla", "decl"} => frames' = <<>>,
           IsSeq(frames'), Len(frames') = Len(frames) + 0,
           symbols' = symbols, symbol_id' = symbol_id, NEW n \in Nat, Appends(n)
    PROVE  IdsInv'
<1>1. symbol_id' = symbol_id + 0 /\ IdsTable
  BY DEF IdsInv, IdsTable
<1>2. IdsTable' /\ Cardinality(F!Variables)' = Cardinality(F!Variables) + 0
  BY <1>1, TableKept
<1>3. 0 \in Nat /\ 0 \in Int /\ 2 * 0 <= n + 2 * 0 + 2 * 0
  OBVIOUS
<1> QED
  BY <1>1, <1>2, <1>3, Counted

\* One id, and with it the token of its place.
LEMMA LabelCounts ==
    ASSUME IdsInv, Parsing, Parsing', state' \in {"hla", "decl"} => frames' = <<>>,
           frames' = frames, IdsTable', symbol_id' = symbol_id + 1,
           Cardinality(F!Variables)' = Cardinality(F!Variables) + 0, Appends(2)
    PROVE  IdsInv'
<1>1. IsSeq(frames') /\ Len(frames') = Len(frames) + 0
  BY FramesSame DEF IdsInv, AreSeqs
<1>2. 0 \in Nat /\ 1 \in Nat /\ 2 \in Nat /\ 0 \in Int /\ 2 * 1 <= 2 + 2 * 0 + 2 * 0
  OBVIOUS
<1> QED
  BY <1>1, <1>2, Counted

LEMMA CountsReadUnit == ASSUME IdsInv, ReadUnit PROVE IdsInv'
<1>1. /\ IdsTable /\ AreSeqs /\ IsSeq(frames)
      /\ state \in {"hla", "decl"} => frames = <<>>
  BY DEF IdsInv, AreSeqs, CountsInv
<1>2. ASSUME NEW name, NEW system, F!ProgramHead(system, name), Read("program", name, 0)
      PROVE  IdsInv'
  <2> DEFINE t == F!Def(0, "program")
  <2>1. /\ state = "hla" /\ state' = "decl" /\ frames' = frames
        /\ symbols' = symbols /\ symbol_id' = symbol_id /\ F!Append1(t)
    BY <1>2 DEF F!ProgramHead
  <2>2. t.op \in Known /\ t.by # "variable" /\ Least(t) = 2
    BY DEF F!Def, F!Token, Known, Least
  <2> HIDE DEF t
  <2>3. Appends(2)
    BY <1>1, <1>2, <2>1, <2>2, ReadOne
  <2>4. Parsing /\ Parsing' /\ (state' \in {"hla", "decl"} => frames' = <<>>)
    BY <1>1, <2>1 DEF Parsing
  <2>5. IsSeq(frames') /\ Len(frames') = Len(frames) + 0
    BY <1>1, <2>1, FramesSame
  <2> QED
    BY <2>1, <2>3, <2>4, <2>5, NoIdTaken
<1>3. ASSUME NEW name, F!ProcedureHead(name), Read("procedure", name, 0)
      PROVE  IdsInv'
  <2> DEFINE t == F!Def(symbol_id, "procedure")
  <2>1. ~has_encountered_error'
    BY <1>3 DEF Read
  <2>2. /\ state = "hla" /\ state' = "decl" /\ frames' = frames
        /\ ~F!Known(F!GetSymbol(name, name))
        /\ F!SymbolInsert(name, F!NewLabel(TRUE, symbol_id)) /\ F!Append1(t)
    BY <1>3, <2>1 DEF F!ProcedureHead, F!IssueError
  <2>3. t.op \in Known /\ t.by # "variable" /\ Least(t) = 2
    BY DEF F!Def, F!Token, Known, Least
  <2> HIDE DEF t
  <2>4. Appends(2)
    BY <1>1, <1>3, <2>2, <2>3, ReadOne
  <2>5. Parsing /\ Parsing' /\ (state' \in {"hla", "decl"} => frames' = <<>>)
    BY <1>1, <2>2 DEF Parsing
  <2>6. name \notin DOMAIN symbols
    BY <2>2, FreshKey
  <2>7. /\ IdsTable' /\ symbol_id' = symbol_id + 1
        /\ Cardinality(F!Variables)' = Cardinality(F!Variables) + 0
    BY <1>1, <2>2, <2>6, LabelTaken
  <2> QED
    BY <2>2, <2>4, <2>5, <2>7, LabelCounts
<1>4. ASSUME F!Begin, NEW op, NEW name, NEW number, Read(op, name, number)
      PROVE  IdsInv'
  <2>1. /\ state = "decl" /\ state' = "code" /\ frames' = frames
        /\ symbols' = symbols /\ symbol_id' = symbol_id /\ tokens' = tokens
    BY <1>4 DEF F!Begin, F!table
  <2>2. Appends(0)
    BY <1>1, <1>4, <2>1, ReadNone
  <2>3. Parsing /\ Parsing' /\ (state' \in {"hla", "decl"} => frames' = <<>>)
    BY <2>1 DEF Parsing
  <2>4. IsSeq(frames') /\ Len(frames') = Len(frames) + 0
    BY <1>1, <2>1, FramesSame
  <2> QED
    BY <2>1, <2>2, <2>3, <2>4, NoIdTaken
<1>5. ASSUME F!EndUnit, NEW op, NEW name, NEW number, Read(op, name, number)
      PROVE  IdsInv'
  <2>1. /\ state = "code" /\ state' = "hla" /\ frames' = <<>> /\ frames' = frames
        /\ symbols' = symbols /\ symbol_id' = symbol_id
    BY <1>5 DEF F!EndUnit, F!table
  <2>2. Parsing /\ Parsing' /\ (state' \in {"hla", "decl"} => frames' = <<>>)
    BY <2>1 DEF Parsing
  <2>3. IsSeq(frames') /\ Len(frames') = Len(frames) + 0
    BY <1>1, <2>1, FramesSame
  <2>4. CASE unit = "procedure"
    <3> DEFINE t == F!Token("RETN", 0, "procedure")
    <3>1. F!Append1(t)
      BY <1>5, <2>4 DEF F!EndUnit
    <3>2. t.op \in Known /\ t.by # "variable" /\ Least(t) = 0
      BY DEF F!Token, Known, Least
    <3> HIDE DEF t
    <3>3. Appends(0)
      BY <1>1, <1>5, <3>1, <3>2, ReadOne
    <3> QED
      BY <2>1, <2>2, <2>3, <3>3, NoIdTaken
  <2>5. CASE unit # "procedure"
    <3>1. tokens' = tokens
      BY <1>5, <2>5 DEF F!EndUnit
    <3>2. Appends(0)
      BY <1>1, <1>5, <3>1, ReadNone
    <3> QED
      BY <2>1, <2>2, <2>3, <3>2, NoIdTaken
  <2> QED
    BY <2>4, <2>5
<1> QED
  BY <1>2, <1>3, <1>4, <1>5 DEF ReadUnit

LEMMA CountsReadVariable == ASSUME IdsInv, ReadVariable PROVE IdsInv'
<1>1. /\ IdsTable /\ AreSeqs /\ IsSeq(frames)
      /\ state \in {"hla", "decl"} => frames = <<>>
  BY DEF IdsInv, AreSeqs, CountsInv
<1>2. PICK name \in VariableNames, d \in F!Declarations :
        F!AddVariable(name, d) /\ Read("variable", name, d.elements)
  BY DEF ReadVariable
<1> DEFINE key == F!MakeScopedName(scope, name)
<1>3. ~has_encountered_error'
  BY <1>2 DEF Read
<1>4. /\ state = "decl" /\ state' = state /\ frames' = frames /\ tokens' = tokens
      /\ ~F!Known(F!GetSymbol(scope, name))
      /\ F!SymbolInsert(key, F!NewSymbol("variable", F!TYPE_TOKEN, symbol_id,
                                         d.elements, d.payload, d.length))
  BY <1>2, <1>3 DEF F!AddVariable, F!IssueError, F!parser
<1>5. key \notin DOMAIN symbols
  BY <1>4, FreshKey
<1> HIDE DEF key
<1>6. /\ IdsTable' /\ symbol_id' = symbol_id + 1
      /\ Cardinality(F!Variables)' = Cardinality(F!Variables) + 1
  BY <1>1, <1>4, <1>5, VariableTaken
<1>7. Appends(0)
  BY <1>1, <1>2, <1>4, ReadNone
<1>8. Parsing /\ Parsing' /\ (state' \in {"hla", "decl"} => frames' = <<>>)
  BY <1>1, <1>4 DEF Parsing
<1>9. IsSeq(frames') /\ Len(frames') = Len(frames) + 0
  BY <1>1, <1>4, FramesSame
<1>10. 0 \in Nat /\ 1 \in Nat /\ 0 \in Int /\ 2 * 1 <= 0 + 2 * 0 + 2 * 1
  OBVIOUS
<1> QED
  BY <1>6, <1>7, <1>8, <1>9, <1>10, Counted

\* The jump out of a loop is a token or a fault.
LEMMA CountsJumpOut ==
    ASSUME IdsInv, NEW op, NEW name, NEW number, Read(op, name, number), state = "code",
           frames' = frames, symbols' = symbols, symbol_id' = symbol_id,
           NEW id, NEW by, by # "variable",
           (F!Append1(F!Ref("JMP", id, by)) /\ state' = state)
              \/ (state' = "repeat_stack" /\ tokens' = tokens)
    PROVE  IdsInv'
<1>1. /\ IdsTable /\ AreSeqs /\ IsSeq(frames)
  BY DEF IdsInv, AreSeqs
<1> DEFINE t == F!Ref("JMP", id, by)
<1>2. \/ F!Append1(t) /\ state' = state
      \/ state' = "repeat_stack" /\ tokens' = tokens
  OBVIOUS
<1>3. t.op \in Known /\ t.by # "variable" /\ Least(t) = 2
  BY DEF F!Ref, F!Token, Known, Least
<1> HIDE DEF t
<1>4. IsSeq(frames') /\ Len(frames') = Len(frames) + 0
  BY <1>1, <1>2, FramesSame
<1>5. CASE F!Append1(t) /\ state' = state
  <2>1. Appends(2)
    BY <1>1, <1>3, <1>5, ReadOne
  <2>2. Parsing /\ Parsing' /\ (state' \in {"hla", "decl"} => frames' = <<>>)
    BY <1>2, <1>5 DEF Parsing
  <2> QED
    BY <1>2, <1>4, <2>1, <2>2, NoIdTaken
<1>6. CASE state' = "repeat_stack" /\ tokens' = tokens
  <2>1. Appends(0)
    BY <1>1, <1>6, ReadNone
  <2>2. symbol_id' = symbol_id + 0 /\ 0 \in Nat
    BY <1>1, <1>2 DEF IdsTable
  <2>3. IdsTable'
    BY <1>1, <1>2, <2>2, TableKept
  <2>4. state' \in F!Faults
    BY <1>6 DEF F!Faults
  <2> QED
    BY <1>4, <2>1, <2>3, <2>4, Faulty
<1> QED
  BY <1>2, <1>5, <1>6

LEMMA CountsRepeat ==
    ASSUME IdsInv, NEW op, NEW name, NEW number, Read(op, name, number),
           F!AddRepeat \/ F!FinRepeat
    PROVE  IdsInv'
<1>1. /\ IdsTable /\ AreSeqs /\ IsSeq(frames)
  BY DEF IdsInv, AreSeqs
<1>2. ~has_encountered_error'
  BY DEF Read
<1>3. CASE F!AddRepeat
  <2> DEFINE t == F!Def(symbol_id, "repeat")
             f == F!Frame("repeat", symbol_id, "body")
  <2>1. /\ state = "code" /\ state' = state /\ frames' = Append(frames, f)
        /\ symbols' = symbols /\ symbol_id' = symbol_id + 2 /\ F!Append1(t)
    BY <1>2, <1>3 DEF F!AddRepeat, F!Opening, F!AtItem, F!IssueError, F!LoopIds
  <2>2. t.op \in Known /\ t.by # "variable" /\ Least(t) = 2
    BY DEF F!Def, F!Token, Known, Least
  <2> HIDE DEF t, f
  <2>3. Appends(2)
    BY <1>1, <2>1, <2>2, ReadOne
  <2>4. IsSeq(frames') /\ Len(frames') = Len(frames) + 1
    BY <1>1, <2>1, FramesOpened
  <2>5. 0 \in Nat /\ 1 \in Int /\ 2 \in Nat /\ 2 * 2 <= 2 + 2 * 1 + 2 * 0
    OBVIOUS
  <2>6. IdsTable' /\ Cardinality(F!Variables)' = Cardinality(F!Variables) + 0
    BY <1>1, <2>1, <2>5, TableKept
  <2>7. Parsing /\ Parsing' /\ (state' \in {"hla", "decl"} => frames' = <<>>)
    BY <2>1 DEF Parsing
  <2> QED
    BY <2>1, <2>3, <2>4, <2>5, <2>6, <2>7, Counted
<1>4. CASE F!FinRepeat
  <2> DEFINE id == repeat_stack[repeat_stack_empty_top']
             t == F!Ref("JMP", id, "repeat")
             u == F!Def(F!EndOf(id), "end repeat")
  <2>1. /\ state = "code" /\ frames # <<>> /\ frames' = F!Pop(frames)
        /\ symbols' = symbols /\ symbol_id' = symbol_id
        /\ \/ F!Append2(t, u) /\ state' = state
           \/ state' = "repeat_stack" /\ tokens' = tokens
    BY <1>4 DEF F!FinRepeat, F!Top, F!table
  <2>2. /\ t.op \in Known \ {"PLAIN"} /\ t.by # "variable" /\ Least(t) = 2
        /\ u.op \in Known \ {"PLAIN"} /\ u.by # "variable"
    BY DEF F!Ref, F!Def, F!Token, Known, Least
  <2> HIDE DEF id, t, u
  <2>3. IsSeq(frames') /\ Len(frames') = Len(frames) + -1
    BY <1>1, <2>1, FramesClosed
  <2>4. symbol_id' = symbol_id + 0 /\ 0 \in Nat /\ 2 \in Nat /\ -1 \in Int
    BY <1>1, <2>1 DEF IdsTable
  <2>5. IdsTable' /\ Cardinality(F!Variables)' = Cardinality(F!Variables) + 0
    BY <1>1, <2>1, <2>4, TableKept
  <2>6. CASE F!Append2(t, u) /\ state' = state
    <3>1. Appends(2)
      BY <1>1, <2>2, <2>6, ReadTwo
    <3>2. Parsing /\ Parsing' /\ (state' \in {"hla", "decl"} => frames' = <<>>)
      BY <2>1, <2>6 DEF Parsing
    <3>3. 2 * 0 <= 2 + 2 * (-1) + 2 * 0
      OBVIOUS
    <3> QED
      BY <2>3, <2>4, <2>5, <3>1, <3>2, <3>3, Counted
  <2>7. CASE state' = "repeat_stack" /\ tokens' = tokens
    <3>1. Appends(0)
      BY <1>1, <2>7, ReadNone
    <3>2. state' \in F!Faults
      BY <2>7 DEF F!Faults
    <3> QED
      BY <2>3, <2>5, <3>1, <3>2, Faulty
  <2> QED
    BY <2>1, <2>6, <2>7
<1> QED
  BY <1>3, <1>4

LEMMA CountsIf ==
    ASSUME IdsInv, NEW op, NEW name, NEW number, Read(op, name, number),
           F!AddIf \/ F!AddLogic \/ F!Then \/ F!FinIf
    PROVE  IdsInv'
<1>1. /\ IdsTable /\ AreSeqs /\ IsSeq(frames)
  BY DEF IdsInv, AreSeqs
<1>2. 0 \in Nat /\ 1 \in Nat /\ 2 \in Nat /\ 0 \in Int /\ 1 \in Int /\ -1 \in Int
  OBVIOUS
<1>3. CASE F!AddIf
  <2> DEFINE f == F!Frame("if", symbol_id, "head")
  <2>1. /\ state = "code" /\ (state' = state \/ state' = "if_stack")
        /\ frames' = Append(frames, f)
        /\ symbols' = symbols /\ symbol_id' = symbol_id + 1 /\ tokens' = tokens
    BY <1>3 DEF F!AddIf, F!Opening, F!AtItem
  <2> HIDE DEF f
  <2>2. Appends(0)
    BY <1>1, <2>1, ReadNone
  <2>3. IsSeq(frames') /\ Len(frames') = Len(frames) + 1
    BY <1>1, <2>1, FramesOpened
  <2>4. IdsTable' /\ Cardinality(F!Variables)' = Cardinality(F!Variables) + 0
    BY <1>1, <1>2, <2>1, TableKept
  <2>5. 2 * 1 <= 0 + 2 * 1 + 2 * 0
    OBVIOUS
  <2>6. CASE state' = state
    <3>1. Parsing /\ Parsing' /\ (state' \in {"hla", "decl"} => frames' = <<>>)
      BY <2>1, <2>6 DEF Parsing
    <3> QED
      BY <1>2, <2>1, <2>2, <2>3, <2>4, <2>5, <3>1, Counted
  <2>7. CASE state' = "if_stack"
    <3>1. state' \in F!Faults
      BY <2>7 DEF F!Faults
    <3> QED
      BY <2>2, <2>3, <2>4, <3>1, Faulty
  <2> QED
    BY <2>1, <2>6, <2>7
<1>4. CASE F!AddLogic
  <2> DEFINE t == F!Token("CMP", 0, "if")
             u == F!Ref("JCC", if_stack[if_stack_empty_top - 1], "if")
  <2>1. /\ state = "code" /\ state' = state /\ frames # <<>>
        /\ frames' = [frames EXCEPT ![Len(frames)].at = "condition"]
        /\ symbols' = symbols /\ symbol_id' = symbol_id /\ F!Append2(t, u)
    BY <1>4 DEF F!AddLogic, F!Top, F!table
  <2>2. /\ t.op \in Known \ {"PLAIN"} /\ t.by # "variable" /\ Least(t) = 0
        /\ u.op \in Known \ {"PLAIN"} /\ u.by # "variable"
    BY DEF F!Ref, F!Token, Known, Least
  <2> HIDE DEF t, u
  <2>3. Appends(0)
    BY <1>1, <2>1, <2>2, ReadTwo
  <2>4. IsSeq(frames') /\ Len(frames') = Len(frames) + 0
    BY <1>1, <2>1, FramesChanged, FramesLength
  <2>5. Parsing /\ Parsing' /\ (state' \in {"hla", "decl"} => frames' = <<>>)
    BY <2>1 DEF Parsing
  <2> QED
    BY <1>2, <2>1, <2>3, <2>4, <2>5, NoIdTaken
<1>5. CASE F!Then
  <2>1. /\ state = "code" /\ state' = state /\ frames # <<>>
        /\ frames' = [frames EXCEPT ![Len(frames)].at = "body"]
        /\ symbols' = symbols /\ symbol_id' = symbol_id /\ tokens' = tokens
    BY <1>5 DEF F!Then, F!Top, F!table
  <2>2. Appends(0)
    BY <1>1, <2>1, ReadNone
  <2>3. IsSeq(frames') /\ Len(frames') = Len(frames) + 0
    BY <1>1, <2>1, FramesChanged, FramesLength
  <2>4. Parsing /\ Parsing' /\ (state' \in {"hla", "decl"} => frames' = <<>>)
    BY <2>1 DEF Parsing
  <2> QED
    BY <1>2, <2>1, <2>2, <2>3, <2>4, NoIdTaken
<1>6. CASE F!FinIf
  <2> DEFINE t == F!Def(if_stack[if_stack_empty_top'], "end if")
  <2>1. /\ state = "code" /\ state' = state /\ frames # <<>> /\ frames' = F!Pop(frames)
        /\ symbols' = symbols /\ symbol_id' = symbol_id /\ F!Append1(t)
    BY <1>6 DEF F!FinIf, F!Top, F!table
  <2>2. t.op \in Known /\ t.by # "variable" /\ Least(t) = 2
    BY DEF F!Def, F!Token, Known, Least
  <2> HIDE DEF t
  <2>3. Appends(2)
    BY <1>1, <2>1, <2>2, ReadOne
  <2>4. IsSeq(frames') /\ Len(frames') = Len(frames) + -1
    BY <1>1, <2>1, FramesClosed
  <2>5. symbol_id' = symbol_id + 0
    BY <1>1, <2>1 DEF IdsTable
  <2>6. IdsTable' /\ Cardinality(F!Variables)' = Cardinality(F!Variables) + 0
    BY <1>1, <1>2, <2>1, <2>5, TableKept
  <2>7. Parsing /\ Parsing' /\ (state' \in {"hla", "decl"} => frames' = <<>>)
    BY <2>1 DEF Parsing
  <2>8. 2 * 0 <= 2 + 2 * (-1) + 2 * 0
    OBVIOUS
  <2> QED
    BY <1>2, <2>3, <2>4, <2>5, <2>6, <2>7, <2>8, Counted
<1> QED
  BY <1>3, <1>4, <1>5, <1>6

LEMMA CountsReadBlock == ASSUME IdsInv, ReadBlock PROVE IdsInv'
<1>1. ASSUME NEW i, F!AddContinue(i), Read("continue", F!NULL, i) PROVE IdsInv'
  <2> DEFINE id == F!StartOf(repeat_stack[F!LoopIndex(i)])
             by == IF i > 0 THEN "continue" ELSE "stale"
  <2>1. ~has_encountered_error'
    BY <1>1 DEF Read
  <2>2. /\ state = "code" /\ frames' = frames /\ symbols' = symbols /\ symbol_id' = symbol_id
        /\ \/ F!Append1(F!Ref("JMP", id, by)) /\ state' = state
           \/ state' = "repeat_stack" /\ tokens' = tokens
    BY <1>1, <2>1 DEF F!AddContinue, F!JumpOut, F!AtItem, F!IssueError, F!table
  <2>3. by # "variable"
    OBVIOUS
  <2> HIDE DEF id, by
  <2> QED
    BY <1>1, <2>2, <2>3, CountsJumpOut
<1>2. ASSUME NEW i, F!AddBreak(i), Read("break", F!NULL, i) PROVE IdsInv'
  <2> DEFINE id == F!EndOf(repeat_stack[F!LoopIndex(i)])
             by == IF i > 0 THEN "break" ELSE "stale"
  <2>1. ~has_encountered_error'
    BY <1>2 DEF Read
  <2>2. /\ state = "code" /\ frames' = frames /\ symbols' = symbols /\ symbol_id' = symbol_id
        /\ \/ F!Append1(F!Ref("JMP", id, by)) /\ state' = state
           \/ state' = "repeat_stack" /\ tokens' = tokens
    BY <1>2, <2>1 DEF F!AddBreak, F!JumpOut, F!AtItem, F!IssueError, F!table
  <2>3. by # "variable"
    OBVIOUS
  <2> HIDE DEF id, by
  <2> QED
    BY <1>2, <2>2, <2>3, CountsJumpOut
<1> QED
  BY <1>1, <1>2, CountsRepeat, CountsIf DEF ReadBlock

\* A label that is noted is new, or it was waited for.
LEMMA LabelNoted ==
    ASSUME IdsTable, NEW name, NEW resolved, F!NoteLabel(name, resolved),
           ~has_encountered_error'
    PROVE  /\ IdsTable' /\ symbol_id' \in {symbol_id, symbol_id + 1}
           /\ Cardinality(F!Variables)' = Cardinality(F!Variables) + 0
<1> DEFINE key == F!LabelKey(name)
           scoped == F!MakeScopedName(scope, name)
<1>1. CASE /\ F!Known(key) /\ ~F!IsResolved(symbols[key])
           /\ symbols' = [symbols EXCEPT ![key].word = 1] /\ symbol_id' = symbol_id
  <2>1. key \in DOMAIN symbols
    BY <1>1 DEF F!Known
  <2> HIDE DEF key
  <2>2. IdsTable' /\ F!Variables' = F!Variables
    BY <1>1, <2>1, TableResolved
  <2>3. Cardinality(F!Variables) + 0 = Cardinality(F!Variables)
    BY Finite
  <2> QED
    BY <1>1, <2>2, <2>3
<1>2. CASE ~F!Known(key) /\ F!SymbolInsert(scoped, F!NewLabel(resolved, symbol_id))
  <2>1. scoped \notin DOMAIN symbols
    BY <1>2, FreshKey DEF F!LabelKey
  <2> HIDE DEF scoped
  <2>2. /\ IdsTable' /\ symbol_id' = symbol_id + 1
        /\ Cardinality(F!Variables)' = Cardinality(F!Variables) + 0
    BY <1>2, <2>1, LabelTaken
  <2> QED
    BY <2>2
<1> QED
  BY <1>1, <1>2 DEF F!NoteLabel, F!IssueError

LEMMA ReferenceCounts ==
    ASSUME IdsInv, state = "code", state' = state, frames' = frames, IdsTable',
           symbol_id' \in {symbol_id, symbol_id + 1},
           Cardinality(F!Variables)' = Cardinality(F!Variables) + 0, Appends(2)
    PROVE  IdsInv'
<1>1. /\ IsSeq(frames') /\ Len(frames') = Len(frames) + 0
      /\ Parsing /\ Parsing' /\ (state' \in {"hla", "decl"} => frames' = <<>>)
  BY FramesSame DEF IdsInv, AreSeqs, Parsing
<1>2. 0 \in Nat /\ 2 \in Nat /\ 0 \in Int /\ 2 * 0 <= 2 + 2 * 0 + 2 * 0
  OBVIOUS
<1>3. CASE symbol_id' = symbol_id
  <2>1. symbol_id' = symbol_id + 0
    BY <1>3 DEF IdsInv, IdsTable
  <2> QED
    BY <1>1, <1>2, <2>1, Counted
<1>4. CASE symbol_id' = symbol_id + 1
  BY <1>1, <1>4, LabelCounts
<1> QED
  BY <1>3, <1>4

\* A step that appends at most a token and takes no id.
LEMMA InstructionCounts ==
    ASSUME IdsInv, NEW op, NEW name, NEW number, Read(op, name, number),
           state = "code", state' = state, frames' = frames,
           symbols' = symbols, symbol_id' = symbol_id,
           NEW t, t.op \in Known, t.by # "variable", F!Append1(t)
    PROVE  IdsInv'
<1>1. IdsTable /\ AreSeqs /\ IsSeq(frames)
  BY DEF IdsInv, AreSeqs
<1>2. Appends(Least(t)) /\ Least(t) \in Nat
  BY <1>1, ReadOne DEF Least
<1>3. Parsing /\ Parsing' /\ (state' \in {"hla", "decl"} => frames' = <<>>)
  BY DEF Parsing
<1>4. IsSeq(frames') /\ Len(frames') = Len(frames) + 0
  BY <1>1, FramesSame
<1> QED
  BY <1>2, <1>3, <1>4, NoIdTaken

LEMMA CountsReadReference == ASSUME IdsInv, ReadReference PROVE IdsInv'
<1>1. IdsTable /\ AreSeqs /\ IsSeq(frames)
  BY DEF IdsInv, AreSeqs
<1>2. ASSUME NEW name, F!AddLabel(name), Read("label", name, 0)
      PROVE  IdsInv'
  <2> DEFINE t == F!Def(F!LabelId(name), "label")
  <2>1. ~has_encountered_error'
    BY <1>2 DEF Read
  <2>2. /\ state = "code" /\ state' = state /\ frames' = frames
        /\ F!NoteLabel(name, TRUE) /\ F!Append1(t)
    BY <1>2 DEF F!AddLabel, F!AtItem, F!parser
  <2>3. t.op \in Known /\ t.by # "variable" /\ Least(t) = 2
    BY DEF F!Def, F!Token, Known, Least
  <2> HIDE DEF t
  <2>4. Appends(2)
    BY <1>1, <1>2, <2>2, <2>3, ReadOne
  <2>5. /\ IdsTable' /\ symbol_id' \in {symbol_id, symbol_id + 1}
        /\ Cardinality(F!Variables)' = Cardinality(F!Variables) + 0
    BY <1>1, <2>1, <2>2, LabelNoted
  <2> QED
    BY <2>2, <2>4, <2>5, ReferenceCounts
<1>3. ASSUME NEW name, F!Jump("JMP", name), Read("jump", name, 0)
      PROVE  IdsInv'
  <2>1. ~has_encountered_error'
    BY <1>3 DEF Read
  <2>2. state = "code" /\ state' = state /\ frames' = frames
    BY <1>3 DEF F!Jump, F!AtItem, F!parser
  <2>3. CASE F!Known(F!GetSymbol(scope, name))
    <3> DEFINE t == F!Ref("JMP", symbols[F!GetSymbol(scope, name)].id, "relative")
    <3>1. F!Append1(t) /\ symbols' = symbols /\ symbol_id' = symbol_id
      BY <1>3, <2>3 DEF F!Jump
    <3>2. t.op \in Known /\ t.by # "variable"
      BY DEF F!Ref, F!Token, Known
    <3> HIDE DEF t
    <3> QED
      BY <1>3, <2>2, <3>1, <3>2, InstructionCounts
  <2>4. CASE ~F!Known(F!GetSymbol(scope, name))
    <3> DEFINE t == F!Ref("JMP", F!LabelId(name), "relative")
    <3>1. F!Append1(t) /\ F!NoteLabel(name, FALSE)
      BY <1>3, <2>4 DEF F!Jump
    <3>2. t.op \in Known /\ t.by # "variable" /\ Least(t) = 2
      BY DEF F!Ref, F!Token, Known, Least
    <3> HIDE DEF t
    <3>3. Appends(2)
      BY <1>1, <1>3, <3>1, <3>2, ReadOne
    <3>4. /\ IdsTable' /\ symbol_id' \in {symbol_id, symbol_id + 1}
          /\ Cardinality(F!Variables)' = Cardinality(F!Variables) + 0
      BY <1>1, <2>1, <3>1, LabelNoted
    <3> QED
      BY <2>2, <3>3, <3>4, ReferenceCounts
  <2> QED
    BY <2>3, <2>4
<1>4. ASSUME NEW name, F!AddFastcall(name, 0), Read("fastcall", name, 0)
      PROVE  IdsInv'
  <2> DEFINE t == F!Ref("CALL", symbols[F!GetSymbol(scope, name)].id, "fastcall")
  <2>1. ~has_encountered_error'
    BY <1>4 DEF Read
  <2>2. /\ state = "code" /\ state' = state /\ frames' = frames
        /\ symbols' = symbols /\ symbol_id' = symbol_id /\ F!Append1(t)
    BY <1>4, <2>1 DEF F!AddFastcall, F!AtItem, F!parser, F!table, F!IssueError
  <2>3. t.op \in Known /\ t.by # "variable"
    BY DEF F!Ref, F!Token, Known
  <2> HIDE DEF t
  <2> QED
    BY <1>4, <2>2, <2>3, InstructionCounts
<1>5. ASSUME NEW op \in {"MEM", "REL"}, NEW name, F!Operand(op, name),
             NEW item, Read(item, name, 0)
      PROVE  IdsInv'
  <2> DEFINE t == F!Ref(op, symbols[F!VariableKey(name)].id, "operand")
             u == F!Ref(op, F!UNDECLARED, "undeclared")
  <2>1. /\ state = "code" /\ state' = state /\ frames' = frames
        /\ symbols' = symbols /\ symbol_id' = symbol_id /\ (F!Append1(t) \/ F!Append1(u))
    BY <1>5 DEF F!Operand, F!AtItem, F!parser, F!table
  <2>2. t.op \in Known /\ t.by # "variable" /\ u.op \in Known /\ u.by # "variable"
    BY <1>5 DEF F!Ref, F!Token, Known
  <2> HIDE DEF t, u
  <2> QED
    BY <1>5, <2>1, <2>2, InstructionCounts
<1> QED
  BY <1>2, <1>3, <1>4, <1>5 DEF ReadReference

LEMMA CountsReadPlain == ASSUME IdsInv, ReadPlain PROVE IdsInv'
<1>1. ASSUME F!Instruction, Read("nop", F!NULL, 0) PROVE IdsInv'
  <2> DEFINE t == F!Token("PLAIN", 0, "instruction")
  <2>1. /\ state = "code" /\ state' = state /\ frames' = frames
        /\ symbols' = symbols /\ symbol_id' = symbol_id /\ F!Append1(t)
    BY <1>1 DEF F!Instruction, F!AtItem, F!parser, F!table
  <2>2. t.op \in Known /\ t.by # "variable"
    BY DEF F!Token, Known
  <2> HIDE DEF t
  <2> QED
    BY <1>1, <2>1, <2>2, InstructionCounts
<1>2. ASSUME system_type = "UNIX", F!AddExit(F!NULL), Read("exit", F!NULL, 3) PROVE IdsInv'
  <2> DEFINE t == F!Token("PLAIN", 0, "exit")
  <2>1. /\ state = "code" /\ state' = state /\ frames' = frames
        /\ symbols' = symbols /\ symbol_id' = symbol_id /\ F!Append1(t)
    BY <1>2 DEF F!AddExit, F!AtItem, F!parser, F!table
  <2>2. t.op \in Known /\ t.by # "variable"
    BY DEF F!Token, Known
  <2> HIDE DEF t
  <2> QED
    BY <1>2, <2>1, <2>2, InstructionCounts
<1> QED
  BY <1>1, <1>2 DEF ReadPlain

-----------------------------------------------------------------------------
(***************************************************************************)
(* After the text: every variable brings the tokens that were owed for it. *)
(***************************************************************************)
LEMMA FiniteUndumped ==
    ASSUME IdsTable
    PROVE  IsFiniteSet(Undumped) /\ Cardinality(Undumped) \in Nat
<1>1. Undumped \in SUBSET F!Variables
  BY DEF Undumped
<1> QED
  BY <1>1, Finite, FS_Subset, FS_CardinalityType

LEMMA CountsCompile == ASSUME IdsInv, Compile PROVE IdsInv'
<1>1. /\ IdsTable /\ AreSeqs /\ IsSeq(frames) /\ IsSeq(tokens) /\ IsSeq(token_array)
  BY DEF IdsInv, AreSeqs
<1>2. /\ state = "hla" /\ state' = "dump" /\ frames' = frames /\ tokens' = tokens
      /\ symbols' = symbols /\ symbol_id' = symbol_id
      /\ phase' = "dump" /\ token_array' = token_array
  BY DEF Compile, F!FinHla, F!table, A!Compile
<1>3. NoVariables /\ ReadCounts /\ frames = <<>>
  BY <1>2 DEF IdsInv, CountsInv, Parsing
<1>4. Undumped' = F!Variables
  <2>1. \A k \in F!Variables : ~F!Dumped(k)
    BY <1>3 DEF NoVariables, F!Dumped, F!Def, F!Token
  <2> QED
    BY <1>2, <2>1 DEF Undumped, F!Variables, F!Dumped
<1>5. DumpCounts'
  <2> DEFINE c == Cardinality(F!Variables)
             l == Len(token_array)
  <2>1. c \in Nat /\ symbol_id \in Nat /\ l \in Nat /\ Len(frames) = 0
    BY <1>1, <1>3, Finite DEF IdsTable, IsSeq
  <2>2. 2 * (symbol_id - 1) <= l + (2 * Len(frames) + 2 * c)
    BY <1>3 DEF ReadCounts, Owed
  <2>3. Cardinality(Undumped)' = c /\ Len(token_array)' = l
    BY <1>2, <1>4
  <2> HIDE DEF c, l
  <2>4. 2 * (symbol_id - 1) <= l + 2 * c
    BY <2>1, <2>2
  <2> QED
    BY <1>2, <2>3, <2>4 DEF DumpCounts
<1>6. IdsTable'
  <2>1. symbol_id' = symbol_id + 0 /\ 0 \in Nat
    BY <1>1, <1>2 DEF IdsTable
  <2> QED
    BY <1>1, <1>2, <2>1, TableKept
<1>7. AreSeqs'
  BY <1>1, <1>2 DEF AreSeqs, IsSeq
<1>8. CountsInv'
  BY <1>2, <1>5 DEF CountsInv, Parsing
<1> QED
  BY <1>6, <1>7, <1>8 DEF IdsInv

\* The elements.
LEMMA ElementsAreSeq == ASSUME NEW n \in Int PROVE [e \in 1 .. n |-> e] \in Seq(Int)
<1>1. CASE n \in Nat
  <2>1. \A e \in 1 .. n : e \in Int
    OBVIOUS
  <2> QED
    BY <1>1, <2>1
<1>2. CASE n \notin Nat
  <2>1. 1 .. n = 1 .. 0 /\ 0 \in Nat
    BY <1>2
  <2>2. [e \in 1 .. n |-> e] = [e \in 1 .. 0 |-> e]
    BY <2>1
  <2>3. \A e \in 1 .. 0 : e \in Int
    OBVIOUS
  <2>4. [e \in 1 .. 0 |-> e] \in Seq(Int)
    BY <2>1, <2>3
  <2> QED
    BY <2>2, <2>4
<1> QED
  BY <1>1, <1>2

LEMMA VariableMakes ==
    ASSUME NEW id, NEW n \in Int
    PROVE  Makes(<<<<ASMDIRMEM, id>>, <<ASMDIRIMM, D16, n>> \o [e \in 1 .. n |-> e]>>, 2)
<1> DEFINE elements == [e \in 1 .. n |-> e]
           head == <<ASMDIRIMM, D16, n>>
           S == Int \union {ASMDIRIMM, D16}
           t == head \o elements
           s == <<ASMDIRMEM, id>>
<1>1. elements \in Seq(Int)
  BY ElementsAreSeq
<1> HIDE DEF elements
<1>2. elements \in Seq(S) /\ head \in Seq(S)
  BY <1>1
<1> HIDE DEF head, S
<1>3. t \in Seq(S)
  BY <1>2
<1>4. s \in Seq({ASMDIRMEM, id}) /\ Len(s) >= 2 /\ 2 \in Nat
  OBVIOUS
<1> HIDE DEF s, t
<1>5. Makes(<<s, t>>, 2)
  BY <1>3, <1>4, TwoMake
<1> QED
  BY <1>5 DEF s, t, head, elements

\* One variable less to come.
LEMMA DumpedNow ==
    ASSUME IdsTable, IsSeq(tokens), NEW k \in F!Variables, ~F!Dumped(k), symbols' = symbols,
           F!Append2(F!Def(symbols[k].id, "variable"),
                     F!Token("ASMDIRIMM", symbols[k].elements, symbols[k].payload))
    PROVE  IsSeq(tokens') /\ Undumped' = Undumped \ {k}
<1> DEFINE t == F!Def(symbols[k].id, "variable")
           u == F!Token("ASMDIRIMM", symbols[k].elements, symbols[k].payload)
<1>1. PICK S : tokens \in Seq(S)
  BY DEF IsSeq
<1> DEFINE U == S \union {t, u}
<1>2. tokens' = Append(Append(tokens, t), u)
  BY DEF F!Append2
<1>3. u.op # "ASMDIRMEM" /\ t.op = "ASMDIRMEM"
  BY DEF F!Def, F!Token
<1>4. \A l \in DOMAIN symbols : F!Def(symbols[l].id, "variable") = t => l = k
  <2>1. k \in DOMAIN symbols
    BY DEF F!Variables
  <2>2. \A l \in DOMAIN symbols :
            F!Def(symbols[l].id, "variable") = t => symbols[l].id = symbols[k].id
    BY DEF F!Def, F!Token
  <2> QED
    BY <2>1, <2>2 DEF IdsTable
<1>5. \A l \in DOMAIN symbols : F!Def(symbols[l].id, "variable") # u
  BY <1>3 DEF F!Def, F!Token
<1>6. F!Dumped(k)' <=> \E i \in DOMAIN tokens' : tokens'[i] = t
  BY DEF F!Dumped
<1> HIDE DEF t, u
<1>7. tokens \in Seq(U) /\ t \in U /\ u \in U
  BY <1>1
<1> HIDE DEF U
<1>8. /\ tokens' \in Seq(U) /\ Len(tokens') = Len(tokens) + 2 /\ Len(tokens) \in Nat
      /\ tokens'[Len(tokens) + 1] = t /\ tokens'[Len(tokens) + 2] = u
      /\ \A i \in 1 .. Len(tokens) : tokens'[i] = tokens[i]
  BY <1>2, <1>7
<1>9. /\ DOMAIN tokens = 1 .. Len(tokens) /\ DOMAIN tokens' = 1 .. Len(tokens')
      /\ Len(tokens) + 1 \in 1 .. Len(tokens')
      /\ \A i \in 1 .. Len(tokens) : i \in 1 .. Len(tokens')
      /\ \A i \in 1 .. Len(tokens') :
            i \in 1 .. Len(tokens) \/ i = Len(tokens) + 1 \/ i = Len(tokens) + 2
  <2>1. DOMAIN tokens = 1 .. Len(tokens) /\ DOMAIN tokens' = 1 .. Len(tokens')
    BY <1>7, <1>8
  <2>2. \A n \in Nat : /\ n + 1 \in 1 .. n + 2
                       /\ \A i \in 1 .. n : i \in 1 .. n + 2
                       /\ \A i \in 1 .. n + 2 : i \in 1 .. n \/ i = n + 1 \/ i = n + 2
    OBVIOUS
  <2>3. Len(tokens) \in Nat /\ Len(tokens') = Len(tokens) + 2
    BY <1>8
  <2> QED
    BY <2>1, <2>2, <2>3, Zenon
<1>10. F!Dumped(k)'
  BY <1>6, <1>8, <1>9
<1>11. ASSUME NEW l \in F!Variables, l # k PROVE F!Dumped(l)' <=> F!Dumped(l)
  <2> DEFINE d == F!Def(symbols[l].id, "variable")
  <2>1. l \in DOMAIN symbols
    BY DEF F!Variables
  <2>2. d # t /\ d # u
    BY <1>4, <1>5, <1>11, <2>1
  <2>3. F!Dumped(l)' <=> \E i \in DOMAIN tokens' : tokens'[i] = d
    BY DEF F!Dumped
  <2>4. F!Dumped(l) <=> \E i \in DOMAIN tokens : tokens[i] = d
    BY DEF F!Dumped
  <2> HIDE DEF d
  <2>5. ASSUME NEW i \in DOMAIN tokens', tokens'[i] = d PROVE F!Dumped(l)
    BY <1>8, <1>9, <2>2, <2>4, <2>5
  <2>6. ASSUME NEW i \in DOMAIN tokens, tokens[i] = d PROVE F!Dumped(l)'
    BY <1>8, <1>9, <2>3, <2>6
  <2> QED
    BY <2>3, <2>4, <2>5, <2>6
<1>12. Undumped' = Undumped \ {k}
  <2>1. F!Variables' = F!Variables
    BY DEF F!Variables
  <2>2. Undumped' = {l \in F!Variables : ~F!Dumped(l)'}
    BY <2>1 DEF Undumped
  <2> QED
    BY <1>10, <1>11, <2>2 DEF Undumped
<1> QED
  BY <1>8, <1>12 DEF IsSeq

LEMMA CountsDumpVariable == ASSUME IdsInv, DumpVariable PROVE IdsInv'
<1>1. /\ IdsTable /\ AreSeqs /\ IsSeq(frames) /\ IsSeq(tokens) /\ IsSeq(token_array)
  BY DEF IdsInv, AreSeqs
<1>2. PICK k \in DOMAIN symbols :
        LET n == symbols[k].elements
        IN  /\ F!DumpVariable(k)
            /\ A!DumpVariable([id |-> symbols[k].id,
                               data |-> <<ASMDIRIMM, D16, n>> \o [e \in 1 .. n |-> e]])
  BY DEF DumpVariable
<1> DEFINE n == symbols[k].elements
           group == <<<<ASMDIRMEM, symbols[k].id>>, <<ASMDIRIMM, D16, n>> \o [e \in 1 .. n |-> e]>>
<1>3. phase = "dump" /\ phase' = phase /\ A!Push(group)
  <2> DEFINE data == <<ASMDIRIMM, D16, n>> \o [e \in 1 .. n |-> e]
             variable == [id |-> symbols[k].id, data |-> data]
  <2>1. A!DumpVariable(variable)
    BY <1>2
  <2>2. variable.id = symbols[k].id /\ variable.data = data
    OBVIOUS
  <2>3. group = <<<<ASMDIRMEM, variable.id>>, variable.data>>
    BY <2>2
  <2> HIDE DEF group, variable, data, n
  <2>4. A!ASMDIRMEM = ASMDIRMEM
    BY DEF A!ASMDIRMEM, ASMDIRMEM
  <2> QED
    BY <2>1, <2>3, <2>4 DEF A!DumpVariable
<1>4. /\ state = "dump" /\ k \in F!Variables /\ ~F!Dumped(k)
      /\ frames' = frames /\ symbols' = symbols /\ symbol_id' = symbol_id
  BY <1>2 DEF F!DumpVariable, F!table
<1>5. n \in Int
  BY <1>1 DEF IdsTable, F!Symbol
<1>6. Makes(group, 2) /\ 2 \in Nat
  BY <1>5, VariableMakes
<1> HIDE DEF group
<1>7. IsSeq(token_array') /\ Len(token_array') >= Len(token_array) + 2
  BY <1>1, <1>3, <1>6, Pushed
<1>8. IdsTable'
  <2>1. symbol_id' = symbol_id + 0 /\ 0 \in Nat
    BY <1>1, <1>4 DEF IdsTable
  <2> QED
    BY <1>1, <1>4, <2>1, TableKept
<1>9. CASE F!Readable(symbols[k])
  <2>1. /\ state' = state
        /\ F!Append2(F!Def(symbols[k].id, "variable"),
                     F!Token("ASMDIRIMM", symbols[k].elements, symbols[k].payload))
    BY <1>2, <1>9 DEF F!DumpVariable
  <2>2. IsSeq(tokens') /\ Undumped' = Undumped \ {k}
    BY <1>1, <1>4, <2>1, DumpedNow
  <2>3. Cardinality(Undumped') = Cardinality(Undumped) - 1
    <3>1. k \in Undumped
      BY <1>4 DEF Undumped
    <3> QED
      BY <1>1, <2>2, <3>1, FiniteUndumped, FS_RemoveElement
  <2>4. DumpCounts'
    <3> DEFINE c  == Cardinality(Undumped)
               cc == Cardinality(Undumped')
               l  == Len(token_array)
               ll == Len(token_array')
    <3>1. c \in Nat /\ symbol_id \in Nat /\ l \in Nat /\ ll \in Nat
      BY <1>1, <1>7, FiniteUndumped DEF IdsTable, IsSeq
    <3>2. 2 * (symbol_id - 1) <= l + 2 * c
      BY <1>4 DEF IdsInv, CountsInv, DumpCounts
    <3>3. cc = c - 1 /\ ll >= l + 2
      BY <1>7, <2>3
    <3> HIDE DEF c, cc, l, ll
    <3>4. 2 * (symbol_id' - 1) <= ll + 2 * cc
      BY <1>4, <3>1, <3>2, <3>3
    <3> QED
      BY <3>4 DEF DumpCounts, cc, ll
  <2>5. AreSeqs'
    BY <1>1, <1>4, <1>7, <2>2 DEF AreSeqs
  <2>6. CountsInv'
    BY <1>3, <1>4, <2>1, <2>4 DEF CountsInv, Parsing
  <2> QED
    BY <1>8, <2>5, <2>6 DEF IdsInv
<1>10. CASE ~F!Readable(symbols[k])
  <2>1. state' = "array_value" /\ tokens' = tokens
    BY <1>2, <1>10 DEF F!DumpVariable
  <2>2. AreSeqs'
    BY <1>1, <1>4, <1>7, <2>1 DEF AreSeqs
  <2>3. CountsInv'
    BY <1>3, <2>1 DEF CountsInv, Parsing
  <2> QED
    BY <1>8, <2>2, <2>3 DEF IdsInv
<1> QED
  BY <1>9, <1>10

LEMMA CountsAssemble == ASSUME IdsInv, Assemble PROVE IdsInv'
<1>1. /\ IdsTable /\ AreSeqs /\ IsSeq(frames) /\ IsSeq(tokens) /\ IsSeq(token_array)
  BY DEF IdsInv, AreSeqs
<1>2. /\ state = "dump" /\ \A k \in F!Variables : F!Dumped(k)
      /\ state' = "done" /\ frames' = frames /\ tokens' = tokens
      /\ symbols' = symbols /\ symbol_id' = symbol_id /\ token_array' = token_array
  BY DEF Assemble, F!EndDump, F!table, A!Assemble
<1>3. DumpCounts
  BY <1>2 DEF IdsInv, CountsInv
<1>4. Cardinality(Undumped) = 0
  <2>1. Undumped = {}
    BY <1>2 DEF Undumped
  <2> QED
    BY <2>1, FS_EmptySet
<1>5. DoneCounts
  <2>1. Len(token_array) \in Nat
    BY <1>1 DEF IsSeq
  <2>2. 2 * (symbol_id - 1) <= Len(token_array) + 2 * 0
    BY <1>3, <1>4 DEF DumpCounts
  <2>3. Len(token_array) + 2 * 0 = Len(token_array)
    BY <2>1
  <2> QED
    BY <2>2, <2>3 DEF DoneCounts
<1>6. DoneCounts'
  BY <1>2, <1>5 DEF DoneCounts
<1>7. IdsTable'
  <2>1. symbol_id' = symbol_id + 0 /\ 0 \in Nat
    BY <1>1, <1>2 DEF IdsTable
  <2> QED
    BY <1>1, <1>2, <2>1, TableKept
<1>8. AreSeqs'
  BY <1>1, <1>2 DEF AreSeqs, IsSeq
<1>9. CountsInv'
  BY <1>2, <1>6 DEF CountsInv, Parsing
<1> QED
  BY <1>7, <1>8, <1>9 DEF IdsInv

\* The assembler makes neither ids nor tokens.
LEMMA CountsAssembling ==
    ASSUME IdsInv, UNCHANGED vars_of_frontend, token_array' = token_array,
           state = "done" \/ phase' = phase
    PROVE  IdsInv'
<1>1. /\ state' = state /\ frames' = frames /\ tokens' = tokens
      /\ symbols' = symbols /\ symbol_id' = symbol_id
  BY DEF vars_of_frontend
<1>2. AreSeqs'
  BY <1>1 DEF IdsInv, AreSeqs, IsSeq
<1>3. /\ IdsTable <=> IdsTable'
      /\ F!Variables' = F!Variables /\ Undumped' = Undumped
  BY <1>1 DEF IdsTable, F!Variables, Undumped, F!Dumped
<1>4. CountsInv'
  <2>1. CountsInv
    BY DEF IdsInv
  <2>2. /\ NoVariables' = NoVariables /\ ReadCounts' = ReadCounts
        /\ DumpCounts' = DumpCounts /\ DoneCounts' = DoneCounts
    BY <1>1, <1>3 DEF NoVariables, ReadCounts, Owed, DumpCounts, DoneCounts
  <2> QED
    BY <1>1, <2>1, <2>2 DEF CountsInv, Parsing
<1> QED
  BY <1>2, <1>3, <1>4 DEF IdsInv

-----------------------------------------------------------------------------
(***************************************************************************)
(* It holds of every state.                                                *)
(***************************************************************************)
LEMMA IdsInit == Init => IdsInv
<1> SUFFICES ASSUME Init PROVE IdsInv
  OBVIOUS
<1>1. /\ state = "hla" /\ frames = <<>> /\ symbols = <<>> /\ symbol_id = 1 /\ tokens = <<>>
      /\ phase = "parse" /\ token_array = <<>>
  BY DEF Init, F!Init, A!Init
<1>2. AreSeqs
  <2>1. <<>> \in Seq(Nat)
    OBVIOUS
  <2> QED
    BY <1>1, <2>1 DEF AreSeqs, IsSeq
<1>3. DOMAIN symbols = {} /\ symbols = [k \in {} |-> 0]
  BY <1>1
<1>4. IdsTable
  <2>1. symbols \in [DOMAIN symbols -> F!Symbol]
    BY <1>3
  <2>2. IsFiniteSet(DOMAIN symbols)
    BY <1>3, FS_EmptySet
  <2> QED
    BY <1>1, <1>3, <2>1, <2>2 DEF IdsTable
<1>5. Cardinality(F!Variables) = 0
  <2>1. F!Variables = {}
    BY <1>3 DEF F!Variables
  <2> QED
    BY <2>1, FS_EmptySet
<1>6. NoVariables /\ ReadCounts
  <2>1. Len(frames) = 0 /\ Len(token_array) = 0 /\ 2 * (1 - 1) <= 0 + (2 * 0 + 2 * 0)
    BY <1>1
  <2> QED
    BY <1>1, <1>5, <2>1 DEF NoVariables, ReadCounts, Owed
<1>7. CountsInv
  BY <1>1, <1>6 DEF CountsInv, Parsing
<1> QED
  BY <1>2, <1>4, <1>7 DEF IdsInv

LEMMA IdsNext == IdsInv /\ [Next]_vars => IdsInv'
<1> SUFFICES ASSUME IdsInv, [Next]_vars PROVE IdsInv'
  OBVIOUS
<1>1. CASE Assembling
  <2>1. state = "done" /\ UNCHANGED vars_of_frontend /\ token_array' = token_array
    BY <1>1 DEF Assembling, A!StoreMemory, A!StoreImmediate, A!BuildInstruction, A!Building,
                A!EndBuild, A!Patch, A!EndLink
  <2> QED
    BY <2>1, CountsAssembling
<1>2. CASE UNCHANGED vars
  <2>1. UNCHANGED vars_of_frontend /\ token_array' = token_array /\ phase' = phase
    BY <1>2 DEF vars, vars_of_assembler
  <2> QED
    BY <2>1, CountsAssembling
<1>3. CASE Halted
  BY <1>2, <1>3 DEF Halted
<1> QED
  BY <1>1, <1>2, <1>3, CountsReadUnit, CountsReadVariable, CountsReadBlock,
     CountsReadReference, CountsReadPlain, CountsCompile, CountsDumpVariable, CountsAssemble
     DEF Next

\* When a text was read to its end, its variables dumped and the assembler begun, there are
\* at least two tokens for each id that eaxhla.c has taken (add_repeat, add_if, _add_label,
\* add_variable, function_head), whatever the program: the ids of blocks come with the jump
\* and the label of their ends, and those of variables with compile.c's two directives.
THEOREM IdsHavePlaces == Spec => []IdsFit
<1>1. IdsInv => IdsFit
  <2> SUFFICES ASSUME IdsInv PROVE IdsFit
    OBVIOUS
  <2> QED
    BY DEF IdsInv, CountsInv, DoneCounts, IdsFit
<1> QED
  BY <1>1, IdsInit, IdsNext, PTL DEF Spec

=============================================================================

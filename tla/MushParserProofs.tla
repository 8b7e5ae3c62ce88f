-------------------------- MODULE MushParserProofs --------------------------
(***************************************************************************)
(* Proofs about MushParser, for any vocabularies, lines of any length and  *)
(* inputs nested to any depth.  What the tables of mush.tab.c say is       *)
(* proved for every state and token from their numbers; the invariants of  *)
(* the line that is read and of the strings that are owned then rest on    *)
(* those facts and on what each semantic action does.                      *)
(***************************************************************************)
EXTENDS MushParser, ListLemmas, FiniteSetTheorems, TLAPS

-----------------------------------------------------------------------------
(* What the tables say, in every state and for every token.                *)

States == 0..(Len(yystos) - 1)
Tokens == 0..(YYNTOKENS - 1)
EOL == 43                               \* the number of the token
EndsLine(state) == At(yystos, state) = EOL

\* So many symbols at least are on the stack below a state.
BelowTwo == {18, 59, 60, 61, 63, 64, 66, 67} \cup 70..82
BelowThree == {91} \cup 93..96 \cup 98..109
Below(state) ==
    IF state = 0 THEN 0
    ELSE IF state \in BelowTwo THEN 2 ELSE IF state \in BelowThree THEN 3 ELSE 1

LEMMA TableSizes == States = 0..113 /\ Tokens = 0..45
BY DEF States, Tokens, yystos, YYNTOKENS

LEMMA EOLNumber ==
    ASSUME NEW kind
    PROVE  YYTRANSLATE(kind) \in Tokens /\ (YYTRANSLATE(kind) = EOL <=> kind = "EOL")
<1>1. /\ DOMAIN yytname = 1..46
      /\ \A i \in 1..46 : yytname[i] = "EOL" <=> i = 44
      /\ ToSet(yytname) = {yytname[i] : i \in 1..46}
  BY DEF yytname, ToSet
<1>2. CASE kind \in DOMAIN yytranslate
  <2>1. kind \in ToSet(yytname)
    BY <1>2 DEF yytranslate
  <2> DEFINE i == CHOOSE i \in DOMAIN yytname : yytname[i] = kind
  <2>2. i \in 1..46 /\ yytname[i] = kind
    BY <1>1, <2>1
  <2>3. YYTRANSLATE(kind) = i - 1
    BY <1>2, <2>1 DEF YYTRANSLATE, yytranslate
  <2> HIDE DEF i
  <2>4. YYTRANSLATE(kind) = EOL <=> i = 44
    BY <2>2, <2>3 DEF EOL
  <2> QED BY <1>1, <2>2, <2>3, <2>4, TableSizes
<1>3. CASE kind \notin DOMAIN yytranslate
  <2>1. "EOL" \in DOMAIN yytranslate
    BY <1>1 DEF yytranslate
  <2> QED BY <1>3, <2>1, TableSizes DEF YYTRANSLATE, YYUNDEFTOK, EOL
<1> QED BY <1>2, <1>3

LEMMA EntryFacts ==
    ASSUME NEW n \in 0..YYLAST
    PROVE  LET to == At(yytable, n)
           IN  /\ to > 0 => to \in States \ {0} /\ (EndsLine(to) <=> At(yycheck, n) = EOL)
               /\ ~(to > 0) => to \in {0, -51}
BY TableSizes DEF YYLAST, At, yytable, yycheck, yystos, EndsLine, EOL

LEMMA ShiftFacts ==
    ASSUME NEW s \in States, NEW t \in Tokens, Decision(s, t).do = "shift"
    PROVE  LET to == Decision(s, t).to
           IN  /\ to \in States /\ Below(to) <= Below(s) + 1
               /\ EndsLine(to) <=> t = EOL
               /\ NeedsToken(s)
<1> DEFINE n == At(yypact, s) + t
           to == At(yytable, n)
<1>1. NeedsToken(s) /\ Listed(n, t) /\ to > 0 /\ Decision(s, t).to = to
  BY DEF Decision, Shift, Reduction
<1>2. n \in 0..YYLAST /\ At(yycheck, n) = t
  BY <1>1 DEF Listed
<1>3. to \in States /\ (EndsLine(to) <=> t = EOL)
  BY <1>1, <1>2, EntryFacts
<1>4. Below(to) <= Below(s) + 1
  <2>1. s \in 0..113 /\ t \in 0..45 /\ n \in 0..247
    BY <1>2, TableSizes DEF YYLAST
  <2>2. Below(s) \in 0..3 /\ (Below(s) = 0 <=> s = 0)
    BY DEF Below
  <2>3. s = 0 => to \notin BelowTwo \cup BelowThree
    BY <1>1, <1>2, <2>1 DEF At, yypact, yytable, yycheck, BelowTwo, BelowThree
  <2>4. to \in BelowThree => s \in BelowTwo \cup BelowThree
    BY SMTT(40), <1>1, <1>2, <2>1 DEF At, yypact, yytable, yycheck, BelowTwo, BelowThree
  <2> QED BY <2>2, <2>3, <2>4 DEF Below
<1> QED BY <1>1, <1>3, <1>4

LEMMA DefaultFacts ==
    ASSUME NEW s \in States
    PROVE  LET r == At(yydefact, s)
           IN  /\ s # YYFINAL => r \in {0} \cup 2..60
               /\ r \in 2..20 /\ r # 19 => EndsLine(s)
               /\ EndsLine(s) => r \in 2..20 /\ ~NeedsToken(s)
               /\ s # YYFINAL /\ r \notin 0..20 => At(yyr2, r) \in 0..Below(s)
<1> DEFINE r == At(yydefact, s)
<1>1. s \in 0..113
  BY TableSizes
<1>2. s # YYFINAL => r \in {0} \cup 2..60
  BY <1>1 DEF At, yydefact, YYFINAL
<1>3. r \in 2..20 /\ r # 19 => EndsLine(s)
  BY <1>1 DEF At, yydefact, EndsLine, yystos, EOL
<1>4. EndsLine(s) => r \in 2..20
  BY <1>1 DEF At, yydefact, EndsLine, yystos, EOL
<1>5. EndsLine(s) => ~NeedsToken(s)
  BY <1>1 DEF At, yypact, EndsLine, yystos, EOL, NeedsToken, YYPACT_NINF
<1>6. s # YYFINAL /\ r \notin 0..20 => At(yyr2, r) \in 0..Below(s)
  <2>1. \A k \in 21..60 : At(yyr2, k) \in 0..3
    BY DEF At, yyr2
  <2>2. \A k \in 21..60 : At(yyr2, k) = 3 => k \in {22, 23, 24, 26, 34} \cup 36..42 \cup 44..48
    BY DEF At, yyr2
  <2>3. r \in {22, 23, 24, 26, 34} \cup 36..42 \cup 44..48 => s \in BelowThree
    BY <1>1 DEF At, yydefact, BelowThree
  <2>4. \A k \in 21..60 : At(yyr2, k) = 2 => k \in {29, 43, 49, 50}
    BY DEF At, yyr2
  <2>5. r \in {29, 43, 49, 50} => s \in BelowTwo
    BY <1>1 DEF At, yydefact, BelowTwo
  <2>6. s = 0 => At(yydefact, s) = 0
    BY DEF At, yydefact
  <2>7. 0 \notin BelowTwo \cup BelowThree /\ BelowTwo \cap BelowThree = {}
    BY DEF BelowTwo, BelowThree
  <2> HIDE DEF r
  <2> QED BY <1>2, <2>1, <2>2, <2>3, <2>4, <2>5, <2>6, <2>7 DEF Below, r
<1> QED BY <1>2, <1>3, <1>4, <1>5, <1>6

LEMMA ReduceFacts ==
    ASSUME NEW s \in States \ {YYFINAL}, NEW t \in Tokens, Decision(s, t).do = "reduce"
    PROVE  LET r == Decision(s, t).to
           IN  /\ r \in 2..60
               /\ r \in 2..20 /\ r # 19 => EndsLine(s)
               /\ EndsLine(s) => r \in 2..20
               /\ r \notin 2..20 => At(yyr2, r) \in 0..Below(s)
<1> DEFINE n == At(yypact, s) + t
           entry == At(yytable, n)
<1>1. CASE NeedsToken(s) /\ Listed(n, t)
  <2>1. ~(entry > 0) /\ entry # 0 /\ Decision(s, t).to = -entry
    BY <1>1 DEF Decision, Shift, Reduction
  <2>2. n \in 0..YYLAST
    BY <1>1 DEF Listed
  <2>3. Decision(s, t).to = 51
    BY <2>1, <2>2, EntryFacts
  <2>4. ~EndsLine(s)
    BY <1>1, DefaultFacts
  <2>5. At(yyr2, 51) = 0 /\ Below(s) \in Nat
    BY DEF At, yyr2, Below
  <2> QED BY <2>3, <2>4, <2>5
<1>2. CASE ~(NeedsToken(s) /\ Listed(n, t))
  <2>1. At(yydefact, s) # 0 /\ Decision(s, t).to = At(yydefact, s)
    BY <1>2 DEF Decision, Reduction
  <2> QED BY <2>1, DefaultFacts
<1> QED BY <1>1, <1>2

\* Behind the end of a line the parser reads nothing more.
LEMMA EndFacts ==
    ASSUME NEW s \in States, NEW t \in Tokens, EndsLine(s)
    PROVE  ~NeedsToken(s) /\ Decision(s, t).do = "reduce"
<1>1. ~NeedsToken(s) /\ At(yydefact, s) \in 2..20
  BY DefaultFacts
<1> QED BY <1>1 DEF Decision, Reduction

LEMMA GotoFacts ==
    ASSUME NEW s \in States, NEW r \in 21..60
    PROVE  LET to == Goto(s, r)
           IN  to \in States /\ Below(to) <= Below(s) + 1 /\ ~EndsLine(to)
<1> DEFINE lhs == At(yyr1, r) - YYNTOKENS
           n == At(yypgoto, lhs) + s
<1>1. lhs \in 2..15 /\ s \in 0..113
  BY TableSizes DEF At, yyr1, YYNTOKENS
<1> HIDE DEF lhs
<1>2. Below(s) \in 0..3 /\ (Below(s) = 0 <=> s = 0)
  BY DEF Below
<1>3. CASE Listed(n, s)
  <2> DEFINE to == At(yytable, n)
  <2>1. n \in 0..247 /\ At(yycheck, n) = s /\ Goto(s, r) = to
    BY <1>3 DEF Listed, YYLAST, Goto, lhs
  <2>2. to > 0 /\ s # EOL
    BY <1>1, <2>1 DEF At, yypgoto, yytable, yycheck, EOL
  <2>3. to \in States /\ ~EndsLine(to)
    BY <2>1, <2>2, EntryFacts DEF YYLAST
  <2>4. s = 0 => to \notin BelowTwo \cup BelowThree
    BY <1>1, <2>1 DEF At, yypgoto, yytable, yycheck, BelowTwo, BelowThree
  <2>5. to \in BelowThree => s \in BelowTwo \cup BelowThree
    BY SMTT(40), <1>1, <2>1 DEF At, yypgoto, yytable, yycheck, BelowTwo, BelowThree
  <2> QED BY <1>2, <2>1, <2>3, <2>4, <2>5 DEF Below
<1>4. CASE ~Listed(n, s)
  <2>1. Goto(s, r) = At(yydefgoto, lhs)
    BY <1>4 DEF Goto, lhs
  <2>2. At(yydefgoto, lhs) \in {9, 35, 36, 37, 38, 39, 47, 48, 41, 42, 10, 11, 12, 43, 58}
    BY <1>1 DEF At, yydefgoto
  <2>3. Goto(s, r) \in States /\ Below(Goto(s, r)) = 1
    BY <2>1, <2>2, TableSizes DEF Below, BelowTwo, BelowThree
  <2>4. ~EndsLine(Goto(s, r))
    BY <2>1, <2>2 DEF EndsLine, At, yystos, EOL
  <2> QED BY <1>2, <2>3, <2>4
<1> QED BY <1>3, <1>4

\* Only state 0 can shift the error token, and behind it only EOL is shifted.
LEMMA ErrorFacts ==
    /\ \A s \in States : ErrorShift(s) # 0 => ErrorShift(s) = 1
    /\ NeedsToken(1) /\ 1 \in States /\ Below(1) = 1 /\ ~EndsLine(1)
    /\ \A t \in Tokens : Decision(1, t).do # "reduce"
    /\ Decision(1, EOL).do = "shift"
<1>1. ASSUME NEW s \in States, ErrorShift(s) # 0 PROVE ErrorShift(s) = 1
  <2> DEFINE n == At(yypact, s) + YYTERROR
  <2>1. Listed(n, YYTERROR) /\ ErrorShift(s) = At(yytable, n)
    BY <1>1 DEF ErrorShift
  <2>2. n \in 0..247 /\ At(yycheck, n) = 1
    BY <2>1 DEF Listed, YYLAST, YYTERROR
  <2> QED BY <2>1, <2>2 DEF At, yycheck, yytable
<1>2. NeedsToken(1) /\ 1 \in States /\ Below(1) = 1 /\ ~EndsLine(1)
  BY TableSizes DEF NeedsToken, At, yypact, YYPACT_NINF, Below, BelowTwo, BelowThree, EndsLine,
                    yystos, EOL
<1>3. At(yypact, 1) = -30 /\ At(yydefact, 1) = 0
  BY DEF At, yypact, yydefact
<1>4. ASSUME NEW t \in Tokens PROVE Decision(1, t).do # "reduce"
  <2>1. CASE Listed(-30 + t, t)
    <3>1. -30 + t \in 0..247 /\ At(yycheck, -30 + t) = t /\ t \in 0..45
      BY <2>1, TableSizes DEF Listed, YYLAST
    <3>2. At(yytable, -30 + t) > 0
      BY <3>1 DEF At, yycheck, yytable
    <3> QED BY <1>2, <1>3, <2>1, <3>2 DEF Decision, Shift
  <2>2. CASE ~Listed(-30 + t, t)
    BY <1>3, <2>2 DEF Decision, Reduction
  <2> QED BY <2>1, <2>2
<1>5. Decision(1, EOL).do = "shift"
  <2>1. At(yycheck, 13) = EOL /\ At(yytable, 13) > 0
    BY DEF At, yycheck, yytable, EOL
  <2>2. Listed(13, EOL) /\ -30 + EOL = 13
    BY <2>1 DEF Listed, YYLAST, EOL
  <2> QED BY <1>2, <1>3, <2>1, <2>2 DEF Decision, Shift
<1> QED BY <1>1, <1>2, <1>4, <1>5

-----------------------------------------------------------------------------
(* The line.                                                               *)

Stack ==
    /\ yyss \in Seq(States) /\ Len(yyss) > 0
    /\ \A i \in 1..Len(yyss) : Below(yyss[i]) < i
    /\ \A i \in 1..(Len(yyss) - 1) : ~EndsLine(yyss[i])

\* The end of the line that was read is the lookahead, or on top of the stack.
LineKept ==
    /\ eols \in 0..1
    /\ pc \in {"parse", "recover"} =>
            eols = IF EndsLine(Top) \/ yychar.kind = "EOL" THEN 1 ELSE 0
    /\ pc = "parse" /\ EndsLine(Top) => yychar = Empty
    /\ pc = "recover" => ~EndsLine(Top)
    /\ pc = "parse" /\ yyerrstatus = 3 => Top = 1
    /\ pc = "returned" => eols = 1

LineInv ==
    /\ Stack
    /\ LineKept
    /\ pc \in {"parse", "recover", "returned", "stopped"}
    /\ yyerrstatus \in 0..3

LEMMA TopFacts ==
    ASSUME Stack
    PROVE  /\ Len(yyss) \in Nat \ {0} /\ Top = yyss[Len(yyss)]
           /\ Top \in States /\ Below(Top) < Len(yyss) /\ Below(Top) \in 0..3
BY DEF Stack, Top, Last, Below

\* Pushing a state that needs no more below it than the top does, and one.
LEMMA Pushed ==
    ASSUME NEW s \in Seq(States), Len(s) > 0, NEW q \in States,
           \A i \in 1..Len(s) : Below(s[i]) < i /\ ~EndsLine(s[i]),
           Below(q) <= Below(Last(s)) + 1, yyss' = Append(s, q)
    PROVE  Stack' /\ Top' = q
<1>1. yyss' \in Seq(States) /\ Len(yyss') = Len(s) + 1 /\ Last(yyss') = q
      /\ \A i \in 1..Len(s) : yyss'[i] = s[i]
  BY DEF Last
<1>2. Below(q) < Len(s) + 1
  <2>1. Below(Last(s)) < Len(s)
    BY DEF Last
  <2>2. Below(q) \in 0..3 /\ Below(Last(s)) \in 0..3
    BY DEF Below
  <2> QED BY <2>1, <2>2
<1>3. yyss'[Len(s) + 1] = q
  OBVIOUS
<1>4. \A i \in 1..Len(yyss') : Below(yyss'[i]) < i
  BY <1>1, <1>2, <1>3
<1>5. \A i \in 1..(Len(yyss') - 1) : ~EndsLine(yyss'[i])
  BY <1>1
<1> QED BY <1>1, <1>4, <1>5 DEF Stack, Top

\* Taking n states off the stack.
LEMMA PoppedFacts ==
    ASSUME Stack, NEW n \in Nat, n < Len(yyss)
    PROVE  LET s == Popped(yyss, n)
           IN  /\ s \in Seq(States) /\ Len(s) = Len(yyss) - n
               /\ \A i \in 1..Len(s) : s[i] = yyss[i] /\ Below(s[i]) < i
               /\ n > 0 => \A i \in 1..Len(s) : ~EndsLine(s[i])
               /\ n = 0 => s = yyss
               /\ Last(s) \in States
BY DEF Stack, Popped, Last

\* The lexer hands over a token and counts the ends of lines.
LEMMA HandFacts ==
    ASSUME LineInv, WantsToken, NEW t, Hand(t),
           UNCHANGED <<yyss, yyerrstatus, pc>>
    PROVE  LineInv'
<1>1. ~EndsLine(Top) /\ yychar = Empty /\ pc = "parse"
  <2>1. Top \in States /\ 0 \in Tokens
    BY TopFacts, TableSizes DEF LineInv
  <2>2. pc = "parse" /\ NeedsToken(Top) /\ yychar = Empty
    BY DEF WantsToken
  <2> QED BY <2>1, <2>2, EndFacts
<1>2. eols = 0
  BY <1>1 DEF LineInv, LineKept, Empty
<1>3. yychar'.kind = t.kind /\ eols' = IF t.kind = "EOL" THEN 1 ELSE 0
  BY <1>2 DEF Hand
<1>4. Stack' /\ Top' = Top
  BY DEF LineInv, Stack, Top
<1> QED BY <1>1, <1>3, <1>4 DEF LineInv, LineKept

LEMMA DecidedFacts ==
    ASSUME LineInv, Ready
    PROVE  \E t \in Tokens :
              /\ Decided = Decision(Top, t)
              /\ Top \in States \ {YYFINAL}
              /\ NeedsToken(Top) => yychar # Empty
              /\ yychar # Empty => (t = EOL <=> yychar.kind = "EOL")
<1>1. Top \in States \ {YYFINAL} /\ (NeedsToken(Top) => yychar # Empty)
  BY TopFacts DEF LineInv, Ready
<1>2. CASE yychar = Empty
  <2>1. Decided = Decision(Top, 0) /\ 0 \in Tokens
    BY <1>2, TableSizes DEF Decided
  <2> QED BY <1>1, <1>2, <2>1
<1>3. CASE yychar # Empty
  <2>1. Decided = Decision(Top, YYTRANSLATE(yychar.kind))
    BY <1>3 DEF Decided
  <2> QED BY <1>1, <1>3, <2>1, EOLNumber
<1> QED BY <1>2, <1>3

NewStack == <<0>>

LEMMA NothingRead ==
    /\ ~EndsLine(0)
    /\ yyss = NewStack => Stack /\ Top = 0
    /\ yyss' = NewStack => Stack' /\ Top' = 0
<1>1. 0 \in States /\ Below(0) = 0 /\ ~EndsLine(0)
  BY TableSizes DEF Below, EndsLine, At, yystos, EOL
<1>2. ASSUME NEW s, s = NewStack
      PROVE  /\ s \in Seq(States) /\ Len(s) = 1 /\ s[Len(s)] = 0
             /\ \A i \in 1..Len(s) : Below(s[i]) < i
             /\ \A i \in 1..(Len(s) - 1) : ~EndsLine(s[i])
  BY <1>1, <1>2 DEF NewStack
<1>3. yyss = NewStack => Stack /\ Top = 0
  BY <1>2 DEF Stack, Top, Last
<1>4. yyss' = NewStack => Stack' /\ Top' = 0
  BY <1>2 DEF Stack, Top, Last
<1> QED BY <1>1, <1>3, <1>4

LEMMA LineStep == LineInv /\ [Next]_vars => LineInv'
<1> SUFFICES ASSUME LineInv, [Next]_vars PROVE LineInv'
  OBVIOUS
<1> USE TopFacts DEF LineInv
<1>1. CASE YyShift
  <2>1. PICK t \in Tokens : /\ Decided = Decision(Top, t) /\ Top \in States \ {YYFINAL}
                            /\ NeedsToken(Top) => yychar # Empty
                            /\ yychar # Empty => (t = EOL <=> yychar.kind = "EOL")
    BY <1>1, DecidedFacts DEF YyShift
  <2> DEFINE q == Decided.to
  <2>2. /\ q \in States /\ Below(q) <= Below(Top) + 1 /\ (EndsLine(q) <=> t = EOL)
        /\ NeedsToken(Top)
    BY <1>1, <2>1, ShiftFacts DEF YyShift
  <2>3. ~EndsLine(Top) /\ (EndsLine(q) <=> yychar.kind = "EOL")
    BY <2>1, <2>2, EndFacts
  <2>4. \A i \in 1..Len(yyss) : Below(yyss[i]) < i /\ ~EndsLine(yyss[i])
    BY <2>3 DEF Stack
  <2>5. yyss' = Append(yyss, q)
    BY <1>1 DEF YyShift
  <2>6. Stack' /\ Top' = q
    <3> HIDE DEF q
    <3> QED BY <2>2, <2>4, <2>5, Pushed DEF Stack, Top
  <2>7. /\ yychar' = Empty /\ yychar'.kind # "EOL" /\ pc' = "parse" /\ eols' = eols
        /\ pc = "parse" /\ yyerrstatus' \in 0..2
    BY <1>1 DEF YyShift, Ready, lexer, Empty
  <2> QED BY <2>3, <2>6, <2>7 DEF LineKept
<1>2. CASE YyReduce
  <2>1. PICK t \in Tokens : /\ Decided = Decision(Top, t) /\ Top \in States \ {YYFINAL}
    BY <1>2, DecidedFacts DEF YyReduce, Reducing
  <2>2. Rule \in 21..60 /\ ~EndsLine(Top) /\ Length \in 0..Below(Top)
    <3>1. Decision(Top, t).do = "reduce" /\ Rule = Decision(Top, t).to /\ Rule \notin 2..20
      BY <1>2, <2>1 DEF YyReduce, Reducing, Returning, Rule
    <3>2. /\ Rule \in 2..60 /\ (EndsLine(Top) => Rule \in 2..20)
          /\ Rule \notin 2..20 => At(yyr2, Rule) \in 0..Below(Top)
      BY <2>1, <3>1, ReduceFacts
    <3> QED BY <3>1, <3>2 DEF Length
  <2>3. yyerrstatus # 3
    BY <1>2, <2>1, ErrorFacts DEF YyReduce, Reducing, Ready, LineKept
  <2> DEFINE s == Popped(yyss, Length)
             q == Goto(Last(s), Rule)
  <2>4. /\ s \in Seq(States) /\ Len(s) > 0 /\ Last(s) \in States
        /\ \A i \in 1..Len(s) : Below(s[i]) < i /\ ~EndsLine(s[i])
    <3>1. Length \in Nat /\ Length < Len(yyss)
      BY <2>2
    <3>2. Length = 0 => \A i \in 1..Len(yyss) : ~EndsLine(yyss[i])
      BY <2>2 DEF Stack
    <3> QED BY <3>1, <3>2, PoppedFacts
  <2>5. q \in States /\ Below(q) <= Below(Last(s)) + 1 /\ ~EndsLine(q)
    BY <2>2, <2>4, GotoFacts
  <2>6. yyss' = Append(s, q)
    BY <1>2 DEF YyReduce
  <2>7. Stack' /\ Top' = q
    <3> HIDE DEF s, q
    <3> QED BY <2>4, <2>5, <2>6, Pushed
  <2>8. UNCHANGED <<yychar, yyerrstatus, pc, eols>> /\ pc = "parse"
    BY <1>2 DEF YyReduce, lexer, Reducing, Ready
  <2> QED BY <2>2, <2>3, <2>5, <2>7, <2>8 DEF LineKept
<1>3. CASE YyAccept
  <2>1. PICK t \in Tokens : /\ Decided = Decision(Top, t) /\ Top \in States \ {YYFINAL}
    BY <1>3, DecidedFacts DEF YyAccept, Reducing
  <2>2. EndsLine(Top)
    BY <1>3, <2>1, ReduceFacts DEF YyAccept, Reducing, Returning, Rule
  <2>3. eols = 1
    BY <1>3, <2>2 DEF YyAccept, Reducing, Ready, LineKept
  <2>4. UNCHANGED <<yyss, yyerrstatus, eols>> /\ pc' = "returned"
    BY <1>3 DEF YyAccept, lexer
  <2> QED BY <2>3, <2>4 DEF LineKept, Stack
<1>4. CASE YyAbort
  <2>1. UNCHANGED <<yyss, yyerrstatus, eols>> /\ pc' = "stopped"
    BY <1>4 DEF YyAbort, lexer
  <2> QED BY <2>1 DEF LineKept, Stack
<1>5. CASE RejectLineNumber
  <2>1. PICK t \in Tokens : /\ Decided = Decision(Top, t) /\ Top \in States \ {YYFINAL}
    BY <1>5, DecidedFacts DEF RejectLineNumber, Reducing
  <2>2. Rule = 52 /\ ~EndsLine(Top) /\ Length = 1 /\ Length <= Below(Top)
    <3>1. At(yyr2, 52) = 1
      BY DEF At, yyr2
    <3>2. Decision(Top, t).do = "reduce" /\ Rule = Decision(Top, t).to /\ Rule = 52
      BY <1>5, <2>1 DEF RejectLineNumber, BadLineNumber, Reducing, Rule
    <3>3. LET r == Decision(Top, t).to
          IN  /\ EndsLine(Top) => r \in 2..20
              /\ r \notin 2..20 => At(yyr2, r) \in 0..Below(Top)
      BY <2>1, <3>2, ReduceFacts
    <3> QED BY <3>1, <3>2, <3>3 DEF Length
  <2> DEFINE s == Popped(yyss, 1)
  <2>3. /\ s \in Seq(States) /\ Len(s) > 0
        /\ \A i \in 1..Len(s) : Below(s[i]) < i /\ ~EndsLine(s[i])
    BY <2>2, PoppedFacts
  <2>4. yyss' = s /\ yyerrstatus' = 3 /\ pc' = "recover" /\ UNCHANGED <<yychar, eols>>
        /\ pc = "parse"
    BY <1>5, <2>2 DEF RejectLineNumber, lexer, Reducing, Ready
  <2>5. Stack' /\ ~EndsLine(Top)'
    <3> HIDE DEF s
    <3> QED BY <2>3, <2>4 DEF Stack, Top, Last
  <2> QED BY <2>2, <2>4, <2>5 DEF LineKept
<1>6. CASE YyError
  <2>1. PICK t \in Tokens : /\ Decided = Decision(Top, t) /\ Top \in States \ {YYFINAL}
                            /\ NeedsToken(Top) => yychar # Empty
                            /\ yychar # Empty => (t = EOL <=> yychar.kind = "EOL")
    BY <1>6, DecidedFacts DEF YyError
  <2>2. ~EndsLine(Top)
    BY <1>6, <2>1, EndFacts DEF YyError
  <2>3. yyss' = yyss /\ yyerrstatus' = 3 /\ pc' = "recover" /\ eols' = eols /\ pc = "parse"
    BY <1>6 DEF YyError, lexer, Ready
  <2>4. Stack' /\ Top' = Top
    BY <2>3 DEF Stack, Top
  <2>5. yychar'.kind = "EOL" <=> yychar.kind = "EOL"
    <3>1. CASE yyerrstatus = 3
      <4>1. Top = 1 /\ yychar # Empty
        BY <2>1, <2>3, <3>1, ErrorFacts DEF LineKept
      <4>2. yychar.kind # "EOL"
        BY <1>6, <2>1, <4>1, ErrorFacts DEF YyError
      <4> QED BY <1>6, <3>1, <4>2 DEF YyError, Empty
    <3>2. CASE yyerrstatus # 3
      BY <1>6, <3>2 DEF YyError
    <3> QED BY <3>1, <3>2
  <2> QED BY <2>2, <2>3, <2>4, <2>5 DEF LineKept
<1>7. CASE PopSymbol
  <2> DEFINE s == Popped(yyss, 1)
  <2>1. /\ s \in Seq(States) /\ Len(s) > 0
        /\ \A i \in 1..Len(s) : Below(s[i]) < i /\ ~EndsLine(s[i])
    BY <1>7, PoppedFacts DEF PopSymbol
  <2>2. yyss' = s
    BY <1>7 DEF PopSymbol, Front, Popped
  <2>3. UNCHANGED <<yychar, yyerrstatus, pc, eols>> /\ pc = "recover"
    BY <1>7 DEF PopSymbol, lexer
  <2>4. Stack' /\ ~EndsLine(Top)'
    <3> HIDE DEF s
    <3> QED BY <2>1, <2>2 DEF Stack, Top, Last
  <2> QED BY <2>3, <2>4 DEF LineKept
<1>8. CASE ShiftError
  <2>1. yyss' = Append(yyss, 1) /\ ~EndsLine(Top) /\ pc = "recover"
    BY <1>8, ErrorFacts DEF ShiftError, LineKept
  <2>2. \A i \in 1..Len(yyss) : Below(yyss[i]) < i /\ ~EndsLine(yyss[i])
    BY <2>1 DEF Stack
  <2>3. Stack' /\ Top' = 1
    BY <2>1, <2>2, ErrorFacts, Pushed DEF Stack, Top
  <2>4. UNCHANGED <<yychar, yyerrstatus, eols>> /\ pc' = "parse"
    BY <1>8 DEF ShiftError, lexer
  <2> QED BY <2>1, <2>3, <2>4, ErrorFacts DEF LineKept
<1>9. CASE yylex
  <2>1. CASE ReadToken
    BY <2>1, HandFacts DEF ReadToken
  <2>2. CASE ReadEOL
    BY <2>2, HandFacts DEF ReadEOL
  <2>3. CASE ReadEOF
    BY <2>3, HandFacts DEF ReadEOF
  <2>4. CASE ReadListed
    BY <2>4, HandFacts DEF ReadListed
  <2> QED BY <1>9, <2>1, <2>2, <2>3, <2>4 DEF yylex
<1>10. CASE NewCall /\ pc' = "parse"
  <2>1. yyss' = NewStack
    BY <1>10 DEF NewCall, NewStack
  <2>2. Stack' /\ Top' = 0 /\ ~EndsLine(0)
    BY <2>1, NothingRead
  <2> QED BY <1>10, <2>2 DEF NewCall, LineKept, Empty
<1>11. CASE Execute \/ ListAndRetype
  BY <1>10, <1>11 DEF Execute, ListAndRetype
<1>12. CASE CopyPipeline
  BY <1>12 DEF CopyPipeline, lexer, LineKept, Stack
<1>13. CASE UNCHANGED vars
  BY <1>13 DEF vars, parser, lexer, LineKept, Stack, Top
<1> QED BY <1>1, <1>2, <1>3, <1>4, <1>5, <1>6, <1>7, <1>8, <1>9, <1>11, <1>12, <1>13
        DEF Next, yyparse, Stopped

\* However long its lines are, whatever tokens they are made of, and however deep inputs
\* are nested: a call of yyparse reads one line, to its end and no further.
THEOREM OneLineIsRead == Spec => []OneLinePerCall
<1>1. Init => LineInv
  BY NothingRead DEF NewStack, Init, LineInv, LineKept, Empty
<1>2. LineInv => OneLinePerCall
  BY DEF LineInv, LineKept, OneLinePerCall
<1> QED BY <1>1, <1>2, LineStep, PTL DEF Spec

-----------------------------------------------------------------------------
(* FlattenSeq.                                                             *)

Flattening(ss) ==
    CHOOSE f : f = [i \in 1..Len(ss) |-> IF i = 1 THEN ss[i] ELSE f[i - 1] \o ss[i]]

LEMMA FlattenUnfold ==
    ASSUME NEW S, NEW ss \in Seq(Seq(S))
    PROVE  /\ Flattening(ss) \in [1..Len(ss) -> Seq(S)]
           /\ \A i \in 1..Len(ss) : Flattening(ss)[i] =
                 IF i = 1 THEN ss[i] ELSE Flattening(ss)[i - 1] \o ss[i]
<1> DEFINE n == Len(ss)
           I == 1..n
           V == Seq(S)
           rank == [i \in I |-> i]
           E(i, f) == IF i = 1 THEN ss[i] ELSE f[i - 1] \o ss[i]
           H == [i \in I |-> [f \in [I -> V] |-> E(i, f)]]
<1>1. n \in Nat /\ \A i \in I : ss[i] \in V
  OBVIOUS
<1>2. \A i \in I : \A f \in [I -> V] : E(i, f) \in V
  <2>1. ASSUME NEW i \in I, NEW f \in [I -> V], i # 1 PROVE f[i - 1] \o ss[i] \in V
    <3>1. i - 1 \in I
      BY <1>1, <2>1
    <3>2. f[i - 1] \in Seq(S) /\ ss[i] \in Seq(S)
      BY <1>1, <3>1
    <3> QED BY <3>2
  <2> QED BY <1>1, <2>1
<1>3. H \in [I -> [[I -> V] -> V]] /\ \A i \in I : \A f \in [I -> V] : H[i][f] = E(i, f)
  BY <1>2
<1>4. rank \in [I -> Nat] /\ \A i \in I : rank[i] = i /\ rank[i] < n + 1
  BY <1>1
<1>5. \A i \in I : \A f, g : (i # 1 => f[i - 1] = g[i - 1]) => E(i, f) = E(i, g)
  OBVIOUS
<1>6. <<>> \in V
  OBVIOUS
<1>7. \A i \in I : i # 1 => i - 1 \in I /\ i - 1 < i
  BY <1>1
<1>8. n + 1 \in Nat
  BY <1>1
<1> DEFINE F(f) == [i \in I |-> E(i, f)]
<1>9. Flattening(ss) = CHOOSE f : f = F(f)
  BY DEF Flattening
<1> HIDE DEF H, rank, E, V, n, I
<1>10. Recursive(I, V, rank, H)
  <2>1. ASSUME NEW i \in I, NEW f \in [I -> V], NEW g \in [I -> V],
               \A j \in I : rank[j] < rank[i] => f[j] = g[j]
        PROVE  H[i][f] = H[i][g]
    <3>1. i # 1 => f[i - 1] = g[i - 1]
      BY <1>4, <1>7, <2>1
    <3> QED BY <1>3, <1>5, <3>1
  <2> QED BY <1>3, <1>4, <1>6, <1>8, <2>1 DEF Recursive
<1>11. PICK f \in [I -> V] : \A i \in I : f[i] = H[i][f]
  BY <1>10, Recursion DEF Solvable
<1>12. f = F(f)
  <2>1. \A i \in I : f[i] = E(i, f)
    BY <1>3, <1>11
  <2> QED BY <1>11, <2>1
<1> DEFINE g == Flattening(ss)
<1>13. g = F(g)
  <2> HIDE DEF F
  <2> QED BY <1>9, <1>12, Zenon
<1>14. \A i \in I : g[i] = E(i, g)
  BY <1>13, Zenon DEF F
<1>15. DOMAIN g = I
  BY <1>13, Zenon DEF F
<1>16. \A i \in I : f[i] = g[i]
  <2>1. ASSUME NEW i \in I, \A j \in I : rank[j] < rank[i] => f[j] = g[j] PROVE f[i] = g[i]
    <3>1. i # 1 => f[i - 1] = g[i - 1]
      BY <1>4, <1>7, <2>1
    <3>2. f[i] = E(i, f)
      BY <1>3, <1>11
    <3> QED BY <1>5, <1>14, <3>1, <3>2
  <2>2. Agreeing(I, rank, f, g)
    BY <1>4, <2>1 DEF Agreeing
  <2> QED BY <2>2, Agreement
<1>17. g \in [I -> V]
  <2>1. g = [i \in I |-> g[i]]
    BY <1>13, <1>15, Zenon DEF F
  <2>2. \A i \in I : g[i] \in V
    BY <1>11, <1>16
  <2> QED BY <2>1, <2>2
<1> QED BY <1>14, <1>17 DEF E, V, n, I

LEMMA FlattenByLast ==
    ASSUME NEW S, NEW ss \in Seq(Seq(S))
    PROVE  FlattenSeq(ss) = IF Len(ss) = 0 THEN <<>> ELSE Flattening(ss)[Len(ss)]
<1>1. FlattenSeq(ss) = IF Len(ss) = 0 THEN ss ELSE Flattening(ss)[Len(ss)]
  BY Zenon DEF FlattenSeq, Flattening
<1>2. Len(ss) = 0 => ss = <<>>
  OBVIOUS
<1> QED BY <1>1, <1>2

LEMMA FlattenType ==
    ASSUME NEW S, NEW ss \in Seq(Seq(S))
    PROVE  FlattenSeq(ss) \in Seq(S)
<1>1. Len(ss) # 0 => Len(ss) \in 1..Len(ss)
  OBVIOUS
<1>2. Len(ss) # 0 => Flattening(ss)[Len(ss)] \in Seq(S)
  BY <1>1, FlattenUnfold
<1> QED BY <1>2, FlattenByLast

LEMMA FlattenAppend ==
    ASSUME NEW S, NEW ss \in Seq(Seq(S)), NEW x \in Seq(S)
    PROVE  FlattenSeq(Append(ss, x)) = FlattenSeq(ss) \o x
<1> DEFINE tt == Append(ss, x)
           n == Len(ss)
<1>1. /\ tt \in Seq(Seq(S)) /\ Len(tt) = n + 1 /\ n \in Nat /\ tt[n + 1] = x
      /\ \A i \in 1..n : tt[i] = ss[i]
  OBVIOUS
<1> HIDE DEF tt, n
<1>2. FlattenSeq(tt) = Flattening(tt)[n + 1]
  BY <1>1, FlattenByLast
<1>3. CASE n = 0
  <2>1. FlattenSeq(ss) = <<>>
    BY <1>3, FlattenByLast DEF n
  <2>2. Flattening(tt)[1] = tt[1]
    <3>1. 1 \in 1..Len(tt)
      BY <1>1
    <3> QED BY <1>1, <3>1, FlattenUnfold
  <2>3. <<>> \o x = x
    OBVIOUS
  <2> QED BY <1>1, <1>2, <1>3, <2>1, <2>2, <2>3 DEF tt
<1>4. CASE n # 0
  <2> DEFINE f == Flattening(ss)
             g == Flattening(tt)
             rank == [i \in 1..n |-> i]
  <2>1. \A i \in 1..n : f[i] = IF i = 1 THEN ss[i] ELSE f[i - 1] \o ss[i]
    BY FlattenUnfold DEF n
  <2>2. \A i \in 1..(n + 1) : g[i] = IF i = 1 THEN tt[i] ELSE g[i - 1] \o tt[i]
    BY <1>1, FlattenUnfold
  <2> HIDE DEF f, g
  <2>3. \A i \in 1..n : f[i] = g[i]
    <3>1. rank \in [1..n -> Nat] /\ \A i \in 1..n : rank[i] = i
      BY <1>1
    <3>2. ASSUME NEW i \in 1..n, \A j \in 1..n : rank[j] < rank[i] => f[j] = g[j]
          PROVE  f[i] = g[i]
      <4>1. i \in 1..(n + 1) /\ (i # 1 => i - 1 \in 1..n /\ i - 1 < i)
        BY <1>1
      <4>2. i # 1 => f[i - 1] = g[i - 1]
        BY <3>1, <3>2, <4>1
      <4> QED BY <1>1, <2>1, <2>2, <4>1, <4>2
    <3> DEFINE I == 1..n
    <3>3. /\ rank \in [I -> Nat]
          /\ \A i \in I : (\A j \in I : rank[j] < rank[i] => f[j] = g[j]) => f[i] = g[i]
      BY <3>1, <3>2
    <3> HIDE DEF rank, I
    <3>4. Agreeing(I, rank, f, g)
      BY <3>3 DEF Agreeing
    <3>5. \A i \in I : f[i] = g[i]
      BY <3>4, Agreement
    <3> QED BY <3>5 DEF I
  <2>4. g[n + 1] = g[n] \o tt[n + 1]
    <3>1. PICK k \in 1..(n + 1) : k = n + 1
      BY <1>1
    <3>2. k # 1 /\ k - 1 = n
      BY <1>1, <1>4, <3>1
    <3>3. g[k] = g[k - 1] \o tt[k]
      BY <2>2, <3>2
    <3> QED BY <3>1, <3>2, <3>3
  <2>5. FlattenSeq(ss) = f[n]
    BY <1>4, FlattenByLast DEF f, n
  <2>6. f[n] = g[n]
    BY <1>1, <1>4, <2>3
  <2> QED BY <1>1, <1>2, <2>4, <2>5, <2>6 DEF g, tt
<1> QED BY <1>3, <1>4

\* What holds of no list, and of a list that was appended to when it did before, holds
\* of every list that the set T knows: T is the set of lengths for which it does.
LEMMA LengthInduction ==
    ASSUME NEW T, 0 \in T, \A n \in Nat : n \in T => n + 1 \in T
    PROVE  \A n \in Nat : n \in T
<1> DEFINE U == {n \in Nat : n \notin T}
<1> SUFFICES ASSUME U # {} PROVE FALSE
  OBVIOUS
<1>1. PICK m \in U : \A k \in U : m <= k
  BY FirstExists
<1>2. m # 0 /\ m - 1 \in Nat
  BY <1>1
<1>3. m - 1 \in T
  BY <1>1, <1>2
<1> QED BY <1>1, <1>2, <1>3

LEMMA FlattenConcat ==
    ASSUME NEW S, NEW ss \in Seq(Seq(S)), NEW tt \in Seq(Seq(S))
    PROVE  FlattenSeq(ss \o tt) = FlattenSeq(ss) \o FlattenSeq(tt)
<1> DEFINE Holds(n) == n <= Len(tt) => FlattenSeq(ss \o SubSeq(tt, 1, n))
                                          = FlattenSeq(ss) \o FlattenSeq(SubSeq(tt, 1, n))
           T == {n \in Nat : Holds(n)}
<1>1. Holds(0)
  <2>1. SubSeq(tt, 1, 0) = <<>> /\ ss \o <<>> = ss
    OBVIOUS
  <2>2. <<>> \in Seq(Seq(S)) /\ Len(<<>>) = 0
    OBVIOUS
  <2>3. FlattenSeq(<<>>) = <<>>
    BY <2>2, FlattenByLast
  <2>4. FlattenSeq(ss) \o <<>> = FlattenSeq(ss)
    BY FlattenType
  <2> QED BY <2>1, <2>3, <2>4
<1>2. ASSUME NEW n \in Nat, Holds(n), n + 1 <= Len(tt) PROVE Holds(n + 1)
  <2> DEFINE t == SubSeq(tt, 1, n)
             x == tt[n + 1]
  <2>1. t \in Seq(Seq(S)) /\ x \in Seq(S) /\ SubSeq(tt, 1, n + 1) = Append(t, x)
    BY <1>2
  <2> HIDE DEF t, x
  <2>2. ss \o Append(t, x) = Append(ss \o t, x) /\ ss \o t \in Seq(Seq(S))
    BY <2>1
  <2> USE DEF t, x
  <2>3. FlattenSeq(ss \o t) = FlattenSeq(ss) \o FlattenSeq(t)
    BY <1>2
  <2> HIDE DEF t, x
  <2>4. FlattenSeq(Append(ss \o t, x)) = FlattenSeq(ss \o t) \o x
    BY <2>1, <2>2, FlattenAppend
  <2>5. FlattenSeq(Append(t, x)) = FlattenSeq(t) \o x
    BY <2>1, FlattenAppend
  <2>6. FlattenSeq(ss) \in Seq(S) /\ FlattenSeq(t) \in Seq(S)
    BY <2>1, FlattenType
  <2>7. \A a, b, c \in Seq(S) : (a \o b) \o c = a \o (b \o c)
    OBVIOUS
  <2>8. FlattenSeq(ss \o Append(t, x)) = (FlattenSeq(ss) \o FlattenSeq(t)) \o x
    BY <2>2, <2>3, <2>4, Zenon
  <2>9. FlattenSeq(ss \o Append(t, x)) = FlattenSeq(ss) \o (FlattenSeq(t) \o x)
    BY <2>1, <2>6, <2>7, <2>8, Zenon
  <2>10. FlattenSeq(ss \o Append(t, x)) = FlattenSeq(ss) \o FlattenSeq(Append(t, x))
    BY <2>5, <2>9, Zenon
  <2> QED BY <2>1, <2>10
<1>3. \A n \in Nat : n \in T
  <2> HIDE DEF Holds
  <2>1. 0 \in T
    BY <1>1
  <2>2. \A n \in Nat : n \in T => n + 1 \in T
    <3>1. ASSUME NEW n \in Nat, ~(n + 1 <= Len(tt)) PROVE Holds(n + 1)
      BY <3>1 DEF Holds
    <3> QED BY <1>2, <3>1
  <2> HIDE DEF T
  <2> QED BY <2>1, <2>2, LengthInduction
<1>4. Holds(Len(tt))
  BY <1>3
<1>5. SubSeq(tt, 1, Len(tt)) = tt /\ Len(tt) <= Len(tt)
  OBVIOUS
<1> QED BY <1>4, <1>5

LEMMA FlattenOne ==
    ASSUME NEW S, NEW x \in Seq(S)
    PROVE  FlattenSeq(<<x>>) = x
<1>1. <<>> \in Seq(Seq(S)) /\ Len(<<>>) = 0 /\ Append(<<>>, x) = <<x>> /\ <<>> \o x = x
  OBVIOUS
<1>2. FlattenSeq(<<>>) = <<>>
  BY <1>1, FlattenByLast
<1>3. FlattenSeq(Append(<<>>, x)) = FlattenSeq(<<>>) \o x
  BY <1>1, FlattenAppend
<1> QED BY <1>1, <1>2, <1>3

-----------------------------------------------------------------------------
(* What a value owns.                                                      *)

IsSeq(s) == s \in Seq(ToSet(s))

\* S holds the ids that strings may have.
IsString(s, S) == s = String(s.id, s.text) /\ s.id \in S
IsNode(node, S) ==
    IsLeaf(node) => /\ node = [class |-> node.class, string |-> node.string]
                    /\ IsString(node.string, S)
IsExpr(e, S) == IsSeq(e) /\ \A i \in 1..Len(e) : IsNode(e[i], S)
IsArgs(args, S) == IsSeq(args) /\ \A i \in 1..Len(args) : IsExpr(args[i], S)
IsCommands(cmds, S) == IsSeq(cmds) /\ \A i \in 1..Len(cmds) : IsArgs(cmds[i], S)
IsPipeline(p, S) ==
    /\ p = [commands |-> p.commands, input |-> p.input, output |-> p.output,
            capture |-> p.capture]
    /\ IsCommands(p.commands, S)
    /\ p.input = NULL \/ IsString(p.input, S)
    /\ p.output = NULL \/ IsString(p.output, S)

LEMMA SeqFacts ==
    ASSUME NEW s, IsSeq(s)
    PROVE  Len(s) \in Nat /\ DOMAIN s = 1..Len(s) /\ s = [i \in 1..Len(s) |-> s[i]]
BY DEF IsSeq

LEMMA SomeSeq ==
    ASSUME NEW A, NEW s \in Seq(A)
    PROVE  IsSeq(s)
<1>1. Len(s) \in Nat /\ DOMAIN s = 1..Len(s) /\ s = [i \in 1..Len(s) |-> s[i]]
  OBVIOUS
<1>2. \A i \in 1..Len(s) : s[i] \in ToSet(s)
  BY <1>1 DEF ToSet
<1> QED BY <1>1, <1>2 DEF IsSeq

LEMMA SeqConcat ==
    ASSUME NEW s, NEW t, IsSeq(s), IsSeq(t)
    PROVE  /\ IsSeq(s \o t) /\ Len(s \o t) = Len(s) + Len(t)
           /\ \A i \in 1..Len(s) : (s \o t)[i] = s[i]
           /\ \A i \in 1..Len(t) : (s \o t)[Len(s) + i] = t[i]
           /\ \A i \in 1..(Len(s) + Len(t)) :
                 (s \o t)[i] = IF i <= Len(s) THEN s[i] ELSE t[i - Len(s)]
<1> DEFINE A == ToSet(s) \cup ToSet(t)
<1>1. s \in Seq(A) /\ t \in Seq(A)
  <2>1. s \in Seq(ToSet(s)) /\ t \in Seq(ToSet(t))
    BY DEF IsSeq
  <2> HIDE DEF IsSeq
  <2>2. \A i \in 1..Len(s) : s[i] \in A
    BY <2>1
  <2>3. \A i \in 1..Len(t) : t[i] \in A
    BY <2>1
  <2>4. Len(s) \in Nat /\ s = [i \in 1..Len(s) |-> s[i]] /\ Len(t) \in Nat /\ t = [i \in 1..Len(t) |-> t[i]]
    BY SeqFacts
  <2> HIDE DEF A
  <2> QED BY <2>2, <2>3, <2>4
<1> HIDE DEF A
<1>2. s \o t \in Seq(A) /\ Len(s \o t) = Len(s) + Len(t)
  BY <1>1
<1>3. IsSeq(s \o t)
  BY <1>2, SomeSeq
<1>4. \A i \in 1..Len(s) : (s \o t)[i] = s[i]
  BY <1>1
<1>5. \A i \in 1..Len(t) : (s \o t)[Len(s) + i] = t[i]
  BY <1>1
<1>6. \A i \in 1..(Len(s) + Len(t)) :
          (s \o t)[i] = IF i <= Len(s) THEN s[i] ELSE t[i - Len(s)]
  BY <1>1
<1> QED BY <1>2, <1>3, <1>4, <1>5, <1>6

LEMMA Joined ==
    ASSUME NEW A, NEW a \in Seq(A), NEW b \in Seq(A), NEW c \in Seq(A),
           Len(c) = Len(a) + Len(b),
           \A i \in 1..Len(a) : c[i] = a[i],
           \A i \in 1..Len(b) : c[Len(a) + i] = b[i]
    PROVE  c = a \o b
<1>1. a \o b \in Seq(A) /\ Len(a \o b) = Len(a) + Len(b)
  OBVIOUS
<1>2. ASSUME NEW i \in 1..(Len(a) + Len(b)) PROVE c[i] = (a \o b)[i]
  <2>1. CASE i <= Len(a)
    BY <2>1
  <2>2. CASE ~(i <= Len(a))
    <3>1. i - Len(a) \in 1..Len(b) /\ Len(a) + (i - Len(a)) = i
      BY <2>2
    <3>2. c[i] = b[i - Len(a)]
      BY <3>1
    <3> QED BY <2>2, <3>1, <3>2
  <2> QED BY <2>1, <2>2
<1> QED BY <1>1, <1>2

LEMMA SeqOne ==
    ASSUME NEW x
    PROVE  IsSeq(<<x>>) /\ Len(<<x>>) = 1 /\ <<x>>[1] = x
<1>1. <<x>> \in Seq({x})
  OBVIOUS
<1> QED BY <1>1, SomeSeq

LEMMA ReverseConcat ==
    ASSUME NEW A, NEW s \in Seq(A), NEW t \in Seq(A)
    PROVE  Reverse(s \o t) = Reverse(t) \o Reverse(s) /\ Reverse(s) \in Seq(A)
<1>1. Reverse(s) \in Seq(A) /\ Reverse(t) \in Seq(A) /\ s \o t \in Seq(A)
  BY DEF Reverse
<1>2. Reverse(s \o t) \in Seq(A)
  BY <1>1 DEF Reverse
<1>3. Len(Reverse(s \o t)) = Len(s) + Len(t) /\ Len(Reverse(s)) = Len(s) /\ Len(Reverse(t)) = Len(t)
      /\ Len(Reverse(t) \o Reverse(s)) = Len(t) + Len(s)
  BY <1>1 DEF Reverse
<1>4. ASSUME NEW i \in 1..(Len(s) + Len(t))
      PROVE  Reverse(s \o t)[i] = (Reverse(t) \o Reverse(s))[i]
  <2>1. Reverse(s \o t)[i] = (s \o t)[Len(s) + Len(t) - i + 1]
    BY <1>1 DEF Reverse
  <2>2. CASE i <= Len(t)
    <3>1. (s \o t)[Len(s) + Len(t) - i + 1] = t[Len(t) - i + 1]
      BY <2>2
    <3>2. (Reverse(t) \o Reverse(s))[i] = Reverse(t)[i]
      BY <1>1, <1>3, <2>2
    <3>3. Reverse(t)[i] = t[Len(t) - i + 1]
      BY <2>2 DEF Reverse
    <3> QED BY <2>1, <3>1, <3>2, <3>3
  <2>3. CASE ~(i <= Len(t))
    <3>1. (s \o t)[Len(s) + Len(t) - i + 1] = s[Len(s) + Len(t) - i + 1]
      BY <2>3
    <3>2. (Reverse(t) \o Reverse(s))[i] = Reverse(s)[i - Len(t)]
      BY <1>1, <1>3, <2>3
    <3>3. Reverse(s)[i - Len(t)] = s[Len(s) - (i - Len(t)) + 1]
      BY <2>3 DEF Reverse
    <3>4. Len(s) - (i - Len(t)) + 1 = Len(s) + Len(t) - i + 1
      OBVIOUS
    <3> QED BY <2>1, <3>1, <3>2, <3>3, <3>4
  <2> QED BY <2>2, <2>3
<1>5. Reverse(t) \o Reverse(s) \in Seq(A)
  BY <1>1
<1> QED BY <1>1, <1>2, <1>3, <1>4, <1>5

LEMMA ReverseOne ==
    ASSUME NEW x
    PROVE  Reverse(<<x>>) = <<x>>
BY DEF Reverse
LEMMA ConcatIds ==
    ASSUME NEW S, NEW s \in Seq(S), NEW t \in Seq(S)
    PROVE  /\ s \o t \in Seq(S) /\ ToSet(s \o t) = ToSet(s) \cup ToSet(t)
           /\ IsInjective(s \o t) <=> /\ IsInjective(s) /\ IsInjective(t)
                                      /\ ToSet(s) \cap ToSet(t) = {}
<1> DEFINE m == Len(s)
           n == Len(t)
           u == s \o t
<1>1. /\ m \in Nat /\ DOMAIN s = 1..m /\ n \in Nat /\ DOMAIN t = 1..n
      /\ u \in Seq(S) /\ Len(u) = m + n /\ DOMAIN u = 1..(m + n)
      /\ \A i \in 1..m : u[i] = s[i]
      /\ \A i \in 1..n : u[m + i] = t[i]
  OBVIOUS
<1>2. \A i \in 1..(m + n) : i \in 1..m \/ (i - m \in 1..n /\ i = m + (i - m))
  BY <1>1
<1>3. \A i \in 1..m : i \in 1..(m + n)
  BY <1>1
<1>4. \A i \in 1..n : m + i \in 1..(m + n) /\ m + i \notin 1..m
  BY <1>1
<1> HIDE DEF m, n, u
<1>5. ToSet(u) = ToSet(s) \cup ToSet(t)
  <2>1. ToSet(u) = {u[i] : i \in 1..(m + n)} /\ ToSet(s) = {s[i] : i \in 1..m}
        /\ ToSet(t) = {t[i] : i \in 1..n}
    BY <1>1 DEF ToSet
  <2>2. ToSet(u) \subseteq ToSet(s) \cup ToSet(t)
    <3> SUFFICES ASSUME NEW i \in 1..(m + n) PROVE u[i] \in ToSet(s) \cup ToSet(t)
      BY <2>1
    <3>1. CASE i \in 1..m
      BY <1>1, <2>1, <3>1
    <3>2. CASE i - m \in 1..n /\ i = m + (i - m)
      BY <1>1, <2>1, <3>2
    <3> QED BY <1>2, <3>1, <3>2
  <2>3. ToSet(s) \subseteq ToSet(u)
    BY <1>1, <1>3, <2>1
  <2>4. ToSet(t) \subseteq ToSet(u)
    BY <1>1, <1>4, <2>1
  <2> QED BY <2>2, <2>3, <2>4
<1>6. ASSUME IsInjective(u)
      PROVE  IsInjective(s) /\ IsInjective(t) /\ ToSet(s) \cap ToSet(t) = {}
  <2>1. \A i, j \in 1..(m + n) : u[i] = u[j] => i = j
    BY <1>1, <1>6 DEF IsInjective
  <2>2. \A i, j \in 1..m : s[i] = s[j] => i = j
    BY <1>1, <1>3, <2>1
  <2>3. \A i, j \in 1..n : t[i] = t[j] => i = j
    <3> TAKE i, j \in 1..n
    <3> HAVE t[i] = t[j]
    <3>1. u[m + i] = u[m + j]
      BY <1>1
    <3>2. m + i = m + j
      BY <1>4, <2>1, <3>1
    <3> QED BY <1>1, <3>2
  <2>4. \A i \in 1..m, j \in 1..n : s[i] # t[j]
    <3> TAKE i \in 1..m, j \in 1..n
    <3>1. u[i] = s[i] /\ u[m + j] = t[j]
      BY <1>1
    <3>2. i # m + j /\ i \in 1..(m + n) /\ m + j \in 1..(m + n)
      BY <1>3, <1>4
    <3> QED BY <2>1, <3>1, <3>2
  <2> QED BY <1>1, <2>2, <2>3, <2>4 DEF IsInjective, ToSet
<1>7. ASSUME IsInjective(s), IsInjective(t), ToSet(s) \cap ToSet(t) = {}
      PROVE  IsInjective(u)
  <2>1. \A i, j \in 1..m : s[i] = s[j] => i = j
    BY <1>1, <1>7 DEF IsInjective
  <2>2. \A i, j \in 1..n : t[i] = t[j] => i = j
    BY <1>1, <1>7 DEF IsInjective
  <2>3. \A i \in 1..m, j \in 1..n : s[i] # t[j]
    BY <1>1, <1>7 DEF ToSet
  <2>4. ASSUME NEW i \in 1..(m + n), NEW j \in 1..(m + n), u[i] = u[j] PROVE i = j
    <3>1. ASSUME i \in 1..m, j \in 1..m PROVE i = j
      <4>1. s[i] = s[j]
        BY <1>1, <2>4, <3>1
      <4> QED BY <2>1, <3>1, <4>1
    <3>2. ASSUME i \in 1..m, j - m \in 1..n, j = m + (j - m) PROVE i = j
      <4>1. s[i] = t[j - m]
        BY <1>1, <2>4, <3>2
      <4> QED BY <2>3, <3>2, <4>1
    <3>3. ASSUME i - m \in 1..n, i = m + (i - m), j \in 1..m PROVE i = j
      <4>1. s[j] = t[i - m]
        BY <1>1, <2>4, <3>3
      <4> QED BY <2>3, <3>3, <4>1
    <3>4. CASE i - m \in 1..n /\ i = m + (i - m) /\ j - m \in 1..n /\ j = m + (j - m)
      <4>1. u[i] = t[i - m] /\ u[j] = t[j - m]
        BY <1>1, <3>4
      <4>2. i - m = j - m
        BY <2>2, <2>4, <3>4, <4>1
      <4> QED BY <1>1, <4>2
    <3> QED BY <1>2, <3>1, <3>2, <3>3, <3>4
  <2> QED BY <1>1, <2>4 DEF IsInjective
<1> QED BY <1>1, <1>5, <1>6, <1>7 DEF u

LeafIds(e) == [i \in DOMAIN e |-> IF IsLeaf(e[i]) THEN <<e[i].string.id>> ELSE <<>>]

ExprIds(args) == [i \in DOMAIN args |-> free_expr(args[i])]
ArgsIds(cmds) == [i \in DOMAIN cmds |-> free_args(cmds[i])]

LEMMA FlattenReversed ==
    ASSUME NEW S, NEW a \in Seq(Seq(S)), NEW b \in Seq(Seq(S))
    PROVE  FlattenSeq(Reverse(a \o b)) = FlattenSeq(Reverse(b)) \o FlattenSeq(Reverse(a))
<1>1. Reverse(a \o b) = Reverse(b) \o Reverse(a)
  BY ReverseConcat
<1>2. Reverse(a) \in Seq(Seq(S)) /\ Reverse(b) \in Seq(Seq(S))
  BY ReverseConcat
<1> HIDE DEF Reverse
<1> QED BY <1>1, <1>2, FlattenConcat

LEMMA LeafIdsFacts ==
    ASSUME NEW S, NEW e, IsExpr(e, S)
    PROVE  /\ LeafIds(e) \in Seq(Seq(S)) /\ Len(LeafIds(e)) = Len(e)
           /\ free_expr(e) = FlattenSeq(LeafIds(e)) /\ free_expr(e) \in Seq(S)
<1>1. Len(e) \in Nat /\ DOMAIN e = 1..Len(e)
  BY SeqFacts DEF IsExpr
<1>2. \A i \in 1..Len(e) : IsLeaf(e[i]) => e[i].string.id \in S
  BY DEF IsExpr, IsNode, IsString
<1>3. LeafIds(e) \in Seq(Seq(S)) /\ Len(LeafIds(e)) = Len(e)
  BY <1>1, <1>2 DEF LeafIds
<1>4. free_expr(e) = FlattenSeq(LeafIds(e))
  BY DEF free_expr, LeafIds
<1> QED BY <1>3, <1>4, FlattenType

LEMMA ExprConcat ==
    ASSUME NEW S, NEW e, NEW f, IsExpr(e, S), IsExpr(f, S)
    PROVE  /\ IsExpr(e \o f, S)
           /\ ToSet(free_expr(e \o f)) = ToSet(free_expr(e)) \cup ToSet(free_expr(f))
           /\ IsInjective(free_expr(e \o f)) <=>
                 /\ IsInjective(free_expr(e)) /\ IsInjective(free_expr(f))
                 /\ ToSet(free_expr(e)) \cap ToSet(free_expr(f)) = {}
<1>1. /\ IsSeq(e \o f) /\ Len(e \o f) = Len(e) + Len(f)
      /\ Len(e) \in Nat /\ DOMAIN e = 1..Len(e)
      /\ Len(f) \in Nat /\ DOMAIN f = 1..Len(f)
      /\ \A i \in 1..(Len(e) + Len(f)) :
            (e \o f)[i] = IF i <= Len(e) THEN e[i] ELSE f[i - Len(e)]
  BY SeqConcat, SeqFacts DEF IsExpr
<1>2. IsExpr(e \o f, S)
  <2>1. ASSUME NEW i \in 1..Len(e \o f) PROVE IsNode((e \o f)[i], S)
    <3>1. CASE i <= Len(e)
      <4>1. i \in 1..Len(e) /\ (e \o f)[i] = e[i]
        BY <1>1, <3>1
      <4> QED BY <4>1 DEF IsExpr
    <3>2. CASE ~(i <= Len(e))
      <4>1. i - Len(e) \in 1..Len(f) /\ (e \o f)[i] = f[i - Len(e)]
        BY <1>1, <3>2
      <4> QED BY <4>1 DEF IsExpr
    <3> QED BY <3>1, <3>2
  <2> QED BY <1>1, <2>1 DEF IsExpr
<1>3. LeafIds(e \o f) = LeafIds(e) \o LeafIds(f)
  <2>1. DOMAIN (e \o f) = 1..(Len(e) + Len(f))
    BY <1>1, SeqFacts
  <2>2. /\ LeafIds(e) \in Seq(Seq(S)) /\ Len(LeafIds(e)) = Len(e)
        /\ LeafIds(f) \in Seq(Seq(S)) /\ Len(LeafIds(f)) = Len(f)
        /\ LeafIds(e \o f) \in Seq(Seq(S)) /\ Len(LeafIds(e \o f)) = Len(e) + Len(f)
    BY <1>1, <1>2, LeafIdsFacts
  <2>3. ASSUME NEW i \in 1..Len(e) PROVE LeafIds(e \o f)[i] = LeafIds(e)[i]
    <3>1. (e \o f)[i] = e[i]
      BY SeqConcat DEF IsExpr
    <3> QED BY <1>1, <2>1, <3>1 DEF LeafIds
  <2>4. ASSUME NEW i \in 1..Len(f) PROVE LeafIds(e \o f)[Len(e) + i] = LeafIds(f)[i]
    <3>1. (e \o f)[Len(e) + i] = f[i]
      BY SeqConcat DEF IsExpr
    <3> QED BY <1>1, <2>1, <3>1 DEF LeafIds
  <2> DEFINE a == LeafIds(e)
             b == LeafIds(f)
             c == LeafIds(e \o f)
  <2>5. /\ a \in Seq(Seq(S)) /\ b \in Seq(Seq(S)) /\ c \in Seq(Seq(S))
        /\ Len(c) = Len(a) + Len(b)
        /\ \A i \in 1..Len(a) : c[i] = a[i]
        /\ \A i \in 1..Len(b) : c[Len(a) + i] = b[i]
    BY <2>2, <2>3, <2>4
  <2> HIDE DEF a, b, c
  <2>6. c = a \o b
    BY <2>5, Joined
  <2> QED BY <2>6 DEF a, b, c
<1>4. free_expr(e \o f) = FlattenSeq(LeafIds(e)) \o FlattenSeq(LeafIds(f))
  <2> DEFINE a == LeafIds(e)
             b == LeafIds(f)
  <2>1. a \in Seq(Seq(S)) /\ b \in Seq(Seq(S))
    BY LeafIdsFacts
  <2>2. free_expr(e \o f) = FlattenSeq(LeafIds(e \o f))
    BY <1>2, LeafIdsFacts
  <2> HIDE DEF a, b
  <2>3. FlattenSeq(a \o b) = FlattenSeq(a) \o FlattenSeq(b)
    BY <2>1, FlattenConcat
  <2> QED BY <1>3, <2>2, <2>3 DEF a, b
<1> DEFINE a == free_expr(e)
           b == free_expr(f)
           c == free_expr(e \o f)
<1>5. c = a \o b /\ a \in Seq(S) /\ b \in Seq(S)
  BY <1>4, LeafIdsFacts
<1> HIDE DEF a, b, c
<1>6. /\ ToSet(c) = ToSet(a) \cup ToSet(b)
      /\ IsInjective(c) <=> IsInjective(a) /\ IsInjective(b) /\ ToSet(a) \cap ToSet(b) = {}
  BY <1>5, ConcatIds
<1> QED BY <1>2, <1>6 DEF a, b, c

LEMMA LeafFacts ==
    ASSUME NEW S, NEW s, IsString(s, S), NEW class \in {"lit", "num", "str"}
    PROVE  IsExpr(Leaf(class, s), S) /\ free_expr(Leaf(class, s)) = <<s.id>>
<1> DEFINE node == [class |-> class, string |-> s]
           e == Leaf(class, s)
<1>1. e = <<node>> /\ node.class = class /\ node.string = s /\ IsLeaf(node)
  BY DEF Leaf, IsLeaf
<1> HIDE DEF node, e
<1>2. IsSeq(e) /\ Len(e) = 1 /\ e[1] = node /\ DOMAIN e = 1..1
  BY <1>1, SeqOne, SeqFacts
<1>3. IsExpr(e, S)
  BY <1>1, <1>2 DEF IsExpr, IsNode, node
<1>4. LeafIds(e) = <<<<s.id>>>>
  BY <1>1, <1>2 DEF LeafIds
<1>5. <<s.id>> \in Seq(S)
  BY DEF IsString
<1> QED BY <1>3, <1>4, <1>5, LeafIdsFacts, FlattenOne DEF e

LEMMA OperatorFacts ==
    ASSUME NEW S, NEW op, NEW class \in {"unary", "binary"}
    PROVE  IsExpr(Operator(class, op), S) /\ free_expr(Operator(class, op)) = <<>>
<1> DEFINE node == [class |-> class, oprtr |-> op]
           e == Operator(class, op)
<1>1. e = <<node>> /\ node.class = class /\ ~IsLeaf(node)
  BY DEF Operator, IsLeaf
<1> HIDE DEF node, e
<1>2. IsSeq(e) /\ Len(e) = 1 /\ e[1] = node /\ DOMAIN e = 1..1
  BY <1>1, SeqOne, SeqFacts
<1>3. IsExpr(e, S)
  BY <1>1, <1>2 DEF IsExpr, IsNode
<1>4. LeafIds(e) = <<<<>>>>
  BY <1>1, <1>2 DEF LeafIds
<1>5. <<>> \in Seq(S)
  OBVIOUS
<1> QED BY <1>3, <1>4, <1>5, LeafIdsFacts, FlattenOne DEF e

LEMMA ArgsFacts ==
    ASSUME NEW S, NEW args, IsArgs(args, S)
    PROVE  /\ ExprIds(args) \in Seq(Seq(S)) /\ Len(ExprIds(args)) = Len(args)
           /\ free_args(args) = FlattenSeq(Reverse(ExprIds(args))) /\ free_args(args) \in Seq(S)
<1>1. Len(args) \in Nat /\ DOMAIN args = 1..Len(args)
  BY SeqFacts DEF IsArgs
<1>2. \A i \in 1..Len(args) : free_expr(args[i]) \in Seq(S)
  BY LeafIdsFacts DEF IsArgs
<1>3. ExprIds(args) \in Seq(Seq(S)) /\ Len(ExprIds(args)) = Len(args)
  BY <1>1, <1>2 DEF ExprIds
<1>4. free_args(args) = FlattenSeq(Reverse(ExprIds(args)))
  BY DEF free_args, ExprIds
<1>5. Reverse(ExprIds(args)) \in Seq(Seq(S))
  BY <1>3, ReverseConcat
<1>6. FlattenSeq(Reverse(ExprIds(args))) \in Seq(S)
  BY <1>5, FlattenType
<1> QED BY <1>3, <1>4, <1>5, <1>6

LEMMA ArgsConcat ==
    ASSUME NEW S, NEW e, NEW f, IsArgs(e, S), IsArgs(f, S)
    PROVE  IsArgs(e \o f, S) /\ free_args(e \o f) = free_args(f) \o free_args(e)
<1>1. /\ IsSeq(e \o f) /\ Len(e \o f) = Len(e) + Len(f)
      /\ Len(e) \in Nat /\ DOMAIN e = 1..Len(e)
      /\ Len(f) \in Nat /\ DOMAIN f = 1..Len(f)
      /\ \A i \in 1..(Len(e) + Len(f)) :
            (e \o f)[i] = IF i <= Len(e) THEN e[i] ELSE f[i - Len(e)]
  BY SeqConcat, SeqFacts DEF IsArgs
<1>2. IsArgs(e \o f, S)
  <2>1. ASSUME NEW i \in 1..Len(e \o f) PROVE IsExpr((e \o f)[i], S)
    <3>1. CASE i <= Len(e)
      <4>1. i \in 1..Len(e) /\ (e \o f)[i] = e[i]
        BY <1>1, <3>1
      <4> QED BY <4>1 DEF IsArgs
    <3>2. CASE ~(i <= Len(e))
      <4>1. i - Len(e) \in 1..Len(f) /\ (e \o f)[i] = f[i - Len(e)]
        BY <1>1, <3>2
      <4> QED BY <4>1 DEF IsArgs
    <3> QED BY <3>1, <3>2
  <2> QED BY <1>1, <2>1 DEF IsArgs
<1>3. ExprIds(e \o f) = ExprIds(e) \o ExprIds(f)
  <2>1. DOMAIN (e \o f) = 1..(Len(e) + Len(f))
    BY <1>1, SeqFacts
  <2>2. /\ ExprIds(e) \in Seq(Seq(S)) /\ Len(ExprIds(e)) = Len(e)
        /\ ExprIds(f) \in Seq(Seq(S)) /\ Len(ExprIds(f)) = Len(f)
        /\ ExprIds(e \o f) \in Seq(Seq(S)) /\ Len(ExprIds(e \o f)) = Len(e) + Len(f)
    BY <1>1, <1>2, ArgsFacts
  <2>3. ASSUME NEW i \in 1..Len(e) PROVE ExprIds(e \o f)[i] = ExprIds(e)[i]
    <3>1. (e \o f)[i] = e[i]
      BY SeqConcat DEF IsArgs
    <3> QED BY <1>1, <2>1, <3>1 DEF ExprIds
  <2>4. ASSUME NEW i \in 1..Len(f) PROVE ExprIds(e \o f)[Len(e) + i] = ExprIds(f)[i]
    <3>1. (e \o f)[Len(e) + i] = f[i]
      BY SeqConcat DEF IsArgs
    <3> QED BY <1>1, <2>1, <3>1 DEF ExprIds
  <2> DEFINE a == ExprIds(e)
             b == ExprIds(f)
             c == ExprIds(e \o f)
  <2>5. /\ a \in Seq(Seq(S)) /\ b \in Seq(Seq(S)) /\ c \in Seq(Seq(S))
        /\ Len(c) = Len(a) + Len(b)
        /\ \A i \in 1..Len(a) : c[i] = a[i]
        /\ \A i \in 1..Len(b) : c[Len(a) + i] = b[i]
    BY <2>2, <2>3, <2>4
  <2> HIDE DEF a, b, c
  <2>6. c = a \o b
    BY <2>5, Joined
  <2> QED BY <2>6 DEF a, b, c
<1>4. /\ ExprIds(e) \in Seq(Seq(S)) /\ ExprIds(f) \in Seq(Seq(S))
      /\ free_args(e) = FlattenSeq(Reverse(ExprIds(e)))
      /\ free_args(f) = FlattenSeq(Reverse(ExprIds(f)))
      /\ free_args(e \o f) = FlattenSeq(Reverse(ExprIds(e \o f)))
  BY <1>2, ArgsFacts
<1>5. FlattenSeq(Reverse(ExprIds(e) \o ExprIds(f)))
         = FlattenSeq(Reverse(ExprIds(f))) \o FlattenSeq(Reverse(ExprIds(e)))
  BY <1>4, ReverseConcat, FlattenReversed
<1>6. free_args(e \o f) = free_args(f) \o free_args(e)
  BY <1>3, <1>4, <1>5, Zenon
<1> QED BY <1>2, <1>6

\* A list of one argument.
LEMMA ArgsOne ==
    ASSUME NEW S, NEW e, IsExpr(e, S)
    PROVE  IsArgs(<<e>>, S) /\ free_args(<<e>>) = free_expr(e)
<1> DEFINE args == <<e>>
<1>1. IsSeq(args) /\ Len(args) = 1 /\ args[1] = e /\ DOMAIN args = 1..1
  BY SeqOne, SeqFacts
<1> HIDE DEF args
<1>2. IsArgs(args, S)
  BY <1>1 DEF IsArgs
<1>3. ExprIds(args) = <<free_expr(e)>>
  BY <1>1 DEF ExprIds
<1>4. free_expr(e) \in Seq(S)
  BY LeafIdsFacts
<1>5. free_args(args) = FlattenSeq(<<free_expr(e)>>)
  BY <1>2, <1>3, ArgsFacts, ReverseOne
<1> QED BY <1>2, <1>4, <1>5, FlattenOne DEF args

LEMMA CommandsFacts ==
    ASSUME NEW S, NEW cmds, IsCommands(cmds, S)
    PROVE  /\ ArgsIds(cmds) \in Seq(Seq(S)) /\ Len(ArgsIds(cmds)) = Len(cmds)
           /\ free_commands(cmds) = FlattenSeq(Reverse(ArgsIds(cmds))) /\ free_commands(cmds) \in Seq(S)
<1>1. Len(cmds) \in Nat /\ DOMAIN cmds = 1..Len(cmds)
  BY SeqFacts DEF IsCommands
<1>2. \A i \in 1..Len(cmds) : free_args(cmds[i]) \in Seq(S)
  BY ArgsFacts DEF IsCommands
<1>3. ArgsIds(cmds) \in Seq(Seq(S)) /\ Len(ArgsIds(cmds)) = Len(cmds)
  BY <1>1, <1>2 DEF ArgsIds
<1>4. free_commands(cmds) = FlattenSeq(Reverse(ArgsIds(cmds)))
  BY DEF free_commands, ArgsIds
<1>5. Reverse(ArgsIds(cmds)) \in Seq(Seq(S))
  BY <1>3, ReverseConcat
<1>6. FlattenSeq(Reverse(ArgsIds(cmds))) \in Seq(S)
  BY <1>5, FlattenType
<1> QED BY <1>3, <1>4, <1>5, <1>6

LEMMA CommandsConcat ==
    ASSUME NEW S, NEW e, NEW f, IsCommands(e, S), IsCommands(f, S)
    PROVE  IsCommands(e \o f, S) /\ free_commands(e \o f) = free_commands(f) \o free_commands(e)
<1>1. /\ IsSeq(e \o f) /\ Len(e \o f) = Len(e) + Len(f)
      /\ Len(e) \in Nat /\ DOMAIN e = 1..Len(e)
      /\ Len(f) \in Nat /\ DOMAIN f = 1..Len(f)
      /\ \A i \in 1..(Len(e) + Len(f)) :
            (e \o f)[i] = IF i <= Len(e) THEN e[i] ELSE f[i - Len(e)]
  BY SeqConcat, SeqFacts DEF IsCommands
<1>2. IsCommands(e \o f, S)
  <2>1. ASSUME NEW i \in 1..Len(e \o f) PROVE IsArgs((e \o f)[i], S)
    <3>1. CASE i <= Len(e)
      <4>1. i \in 1..Len(e) /\ (e \o f)[i] = e[i]
        BY <1>1, <3>1
      <4> QED BY <4>1 DEF IsCommands
    <3>2. CASE ~(i <= Len(e))
      <4>1. i - Len(e) \in 1..Len(f) /\ (e \o f)[i] = f[i - Len(e)]
        BY <1>1, <3>2
      <4> QED BY <4>1 DEF IsCommands
    <3> QED BY <3>1, <3>2
  <2> QED BY <1>1, <2>1 DEF IsCommands
<1>3. ArgsIds(e \o f) = ArgsIds(e) \o ArgsIds(f)
  <2>1. DOMAIN (e \o f) = 1..(Len(e) + Len(f))
    BY <1>1, SeqFacts
  <2>2. /\ ArgsIds(e) \in Seq(Seq(S)) /\ Len(ArgsIds(e)) = Len(e)
        /\ ArgsIds(f) \in Seq(Seq(S)) /\ Len(ArgsIds(f)) = Len(f)
        /\ ArgsIds(e \o f) \in Seq(Seq(S)) /\ Len(ArgsIds(e \o f)) = Len(e) + Len(f)
    BY <1>1, <1>2, CommandsFacts
  <2>3. ASSUME NEW i \in 1..Len(e) PROVE ArgsIds(e \o f)[i] = ArgsIds(e)[i]
    <3>1. (e \o f)[i] = e[i]
      BY SeqConcat DEF IsCommands
    <3> QED BY <1>1, <2>1, <3>1 DEF ArgsIds
  <2>4. ASSUME NEW i \in 1..Len(f) PROVE ArgsIds(e \o f)[Len(e) + i] = ArgsIds(f)[i]
    <3>1. (e \o f)[Len(e) + i] = f[i]
      BY SeqConcat DEF IsCommands
    <3> QED BY <1>1, <2>1, <3>1 DEF ArgsIds
  <2> DEFINE a == ArgsIds(e)
             b == ArgsIds(f)
             c == ArgsIds(e \o f)
  <2>5. /\ a \in Seq(Seq(S)) /\ b \in Seq(Seq(S)) /\ c \in Seq(Seq(S))
        /\ Len(c) = Len(a) + Len(b)
        /\ \A i \in 1..Len(a) : c[i] = a[i]
        /\ \A i \in 1..Len(b) : c[Len(a) + i] = b[i]
    BY <2>2, <2>3, <2>4
  <2> HIDE DEF a, b, c
  <2>6. c = a \o b
    BY <2>5, Joined
  <2> QED BY <2>6 DEF a, b, c
<1>4. /\ ArgsIds(e) \in Seq(Seq(S)) /\ ArgsIds(f) \in Seq(Seq(S))
      /\ free_commands(e) = FlattenSeq(Reverse(ArgsIds(e)))
      /\ free_commands(f) = FlattenSeq(Reverse(ArgsIds(f)))
      /\ free_commands(e \o f) = FlattenSeq(Reverse(ArgsIds(e \o f)))
  BY <1>2, CommandsFacts
<1>5. FlattenSeq(Reverse(ArgsIds(e) \o ArgsIds(f)))
         = FlattenSeq(Reverse(ArgsIds(f))) \o FlattenSeq(Reverse(ArgsIds(e)))
  BY <1>4, ReverseConcat, FlattenReversed
<1>6. free_commands(e \o f) = free_commands(f) \o free_commands(e)
  BY <1>3, <1>4, <1>5, Zenon
<1> QED BY <1>2, <1>6

\* A pipeline of one command.
LEMMA CommandsOne ==
    ASSUME NEW S, NEW e, IsArgs(e, S)
    PROVE  IsCommands(<<e>>, S) /\ free_commands(<<e>>) = free_args(e)
<1> DEFINE cmds == <<e>>
<1>1. IsSeq(cmds) /\ Len(cmds) = 1 /\ cmds[1] = e /\ DOMAIN cmds = 1..1
  BY SeqOne, SeqFacts
<1> HIDE DEF cmds
<1>2. IsCommands(cmds, S)
  BY <1>1 DEF IsCommands
<1>3. ArgsIds(cmds) = <<free_args(e)>>
  BY <1>1 DEF ArgsIds
<1>4. free_args(e) \in Seq(S)
  BY ArgsFacts
<1>5. free_commands(cmds) = FlattenSeq(<<free_args(e)>>)
  BY <1>2, <1>3, CommandsFacts, ReverseOne
<1> QED BY <1>2, <1>4, <1>5, FlattenOne DEF cmds

LEMMA StringFacts ==
    ASSUME NEW S, NEW s, s = NULL \/ IsString(s, S)
    PROVE  /\ IsString(s, S) => s # NULL /\ s.id \in S
           /\ FreeString(s) \in Seq(S) /\ IsInjective(FreeString(s))
           /\ ToSet(FreeString(s)) = IF s = NULL THEN {} ELSE {s.id}
<1>1. IsString(s, S) => s # NULL /\ s.id \in S
  BY DEF IsString, String, NULL
<1>2. CASE s = NULL
  BY <1>1, <1>2 DEF FreeString, IsInjective, ToSet
<1>3. CASE s # NULL
  <2>1. FreeString(s) = <<s.id>> /\ s.id \in S
    BY <1>1, <1>3 DEF FreeString
  <2> QED BY <1>1, <1>3, <2>1 DEF IsInjective, ToSet
<1> QED BY <1>2, <1>3

LEMMA NoIds == <<>> \in Seq(Nat) /\ IsInjective(<<>>) /\ ToSet(<<>>) = {}
BY DEF IsInjective, ToSet

PipelineIds(p) == ToSet(free_commands(p.commands))

LEMMA PipelineFacts ==
    ASSUME NEW S, NEW p, IsPipeline(p, S)
    PROVE  /\ free_pipeline(p) \in Seq(S)
           /\ ToSet(free_pipeline(p)) = PipelineIds(p) \cup ToSet(FreeString(p.input))
                                                       \cup ToSet(FreeString(p.output))
           /\ IsInjective(free_pipeline(p)) <=>
                 /\ IsInjective(free_commands(p.commands))
                 /\ ToSet(FreeString(p.input)) \cap ToSet(FreeString(p.output)) = {}
                 /\ PipelineIds(p) \cap ToSet(FreeString(p.input)) = {}
                 /\ PipelineIds(p) \cap ToSet(FreeString(p.output)) = {}
<1> DEFINE c == free_commands(p.commands)
           i == FreeString(p.input)
           o == FreeString(p.output)
<1>1. c \in Seq(S) /\ i \in Seq(S) /\ o \in Seq(S) /\ IsInjective(i) /\ IsInjective(o)
  BY CommandsFacts, StringFacts DEF IsPipeline
<1>2. free_pipeline(p) = c \o i \o o
  BY DEF free_pipeline
<1> HIDE DEF c, i, o
<1>3. c \o i \in Seq(S) /\ ToSet(c \o i) = ToSet(c) \cup ToSet(i)
      /\ (IsInjective(c \o i) <=> IsInjective(c) /\ ToSet(c) \cap ToSet(i) = {})
  BY <1>1, ConcatIds
<1>4. /\ (c \o i) \o o \in Seq(S) /\ ToSet((c \o i) \o o) = ToSet(c \o i) \cup ToSet(o)
      /\ (IsInjective((c \o i) \o o) <=> IsInjective(c \o i) /\ ToSet(c \o i) \cap ToSet(o) = {})
  BY <1>1, <1>3, ConcatIds
<1> QED BY <1>2, <1>3, <1>4 DEF c, i, o, PipelineIds

\* The symbols on the right of the rules from 21 on: the first, the second, the third.
FirstOf ==
  <<49, 48, 48, 48, 50, 50, 51, 52, 52, 53, 60, 55, 56, 33, 53, 54, 54, 54, 54, 54, 54, 54, 32,
    54, 54, 54, 54, 54, 41, 42, 0, 58, 59, 3, 3, 4, 5, 6, 4, 6>>

SecondOf ==
  <<0, 25, 26, 26, 0, 24, 0, 0, 51, 0, 0, 0, 0, 54, 0, 27, 25, 26, 28, 29, 30, 31, 54, 35, 36,
    37, 38, 39, 4, 4, 0, 0, 0, 0, 0, 0, 0, 0, 0, 0>>

ThirdOf ==
  <<0, 61, 61, 13, 0, 49, 0, 0, 0, 0, 0, 0, 0, 34, 0, 54, 54, 54, 54, 54, 54, 54, 0, 54, 54,
    54, 54, 54, 0, 0, 0, 0, 0, 0, 0, 0, 0, 0, 0, 0>>

Rhs(r, i) == (IF i = 1 THEN FirstOf ELSE IF i = 2 THEN SecondOf ELSE ThirdOf)[r - 20]

OfString == 3..6 \cup {55, 56, 60, 61}
Typed(symbol, v) ==
    /\ symbol \in OfString => IsString(v, Nat)
    /\ symbol = 48 => IsPipeline(v, Nat)
    /\ symbol \in 49..50 => IsCommands(v, Nat)
    /\ symbol = 51 => IsArgs(v, Nat)
    /\ symbol \in 52..54 => IsExpr(v, Nat)

Owned(symbol, v) ==
    CASE symbol \in OfString -> FreeString(v)
      [] symbol = 48 -> free_pipeline(v)
      [] symbol \in 49..50 -> free_commands(v)
      [] symbol = 51 -> free_args(v)
      [] symbol \in 52..54 -> free_expr(v)
      [] OTHER -> <<>>

Ids(symbol, v) == ToSet(Owned(symbol, v))

\* A value of its type that owns no string twice.
Sound(symbol, v) == Typed(symbol, v) /\ IsInjective(Owned(symbol, v))

LEMMA OwnedType ==
    ASSUME NEW symbol, NEW v, Typed(symbol, v)
    PROVE  Owned(symbol, v) \in Seq(Nat)
<1>1. CASE symbol \in OfString
  <2>1. Owned(symbol, v) = FreeString(v) /\ IsString(v, Nat)
    BY <1>1 DEF Typed, Owned, OfString
  <2> QED BY <2>1, StringFacts
<1>2. CASE symbol = 48
  BY <1>2, PipelineFacts DEF Typed, Owned, OfString
<1>3. CASE symbol \in 49..50
  BY <1>3, CommandsFacts DEF Typed, Owned, OfString
<1>4. CASE symbol = 51
  BY <1>4, ArgsFacts DEF Typed, Owned, OfString
<1>5. CASE symbol \in 52..54
  BY <1>5, LeafIdsFacts DEF Typed, Owned, OfString
<1>6. CASE symbol \notin OfString \cup {48, 51} \cup 49..50 \cup 52..54
  <2>1. Owned(symbol, v) = <<>>
    BY <1>6 DEF Owned
  <2> QED BY <2>1
<1> QED BY <1>1, <1>2, <1>3, <1>4, <1>5, <1>6

\* The symbols that own nothing.
LEMMA Ownerless ==
    ASSUME NEW symbol, symbol \notin OfString \cup 48..54, NEW v
    PROVE  Sound(symbol, v) /\ Owned(symbol, v) = <<>> /\ Ids(symbol, v) = {}
<1>1. Typed(symbol, v) /\ Owned(symbol, v) = <<>>
  BY DEF Typed, Owned
<1> QED BY <1>1, NoIds DEF Sound, Ids

LEMMA OfStrings ==
    ASSUME NEW symbol \in OfString, NEW v
    PROVE  /\ Sound(symbol, v) <=> IsString(v, Nat)
           /\ IsString(v, Nat) => Ids(symbol, v) = {v.id} /\ v # NULL /\ v.id \in Nat
<1>1. symbol # 48 /\ symbol \notin 49..54
  BY DEF OfString
<1>2. (Typed(symbol, v) <=> IsString(v, Nat)) /\ Owned(symbol, v) = FreeString(v)
  BY <1>1 DEF Typed, Owned
<1> QED BY <1>2, StringFacts DEF Sound, Ids

LEMMA Others ==
    ASSUME NEW v
    PROVE  /\ (Typed(48, v) <=> IsPipeline(v, Nat)) /\ Owned(48, v) = free_pipeline(v)
           /\ \A symbol \in 49..50 : /\ Typed(symbol, v) <=> IsCommands(v, Nat)
                                     /\ Owned(symbol, v) = free_commands(v)
           /\ (Typed(51, v) <=> IsArgs(v, Nat)) /\ Owned(51, v) = free_args(v)
           /\ \A symbol \in 52..54 : /\ Typed(symbol, v) <=> IsExpr(v, Nat)
                                     /\ Owned(symbol, v) = free_expr(v)
BY DEF Typed, Owned, OfString

-----------------------------------------------------------------------------
(* The semantic actions, rule by rule.                                     *)

LEMMA LeftSides ==
    /\ \A r \in 21..24 : At(yyr1, r) = 48
    /\ \A r \in 25..26 : At(yyr1, r) = 49
    /\ At(yyr1, 27) = 50
    /\ \A r \in 28..29 : At(yyr1, r) = 51
    /\ At(yyr1, 30) = 52
    /\ \A r \in 31..34 : At(yyr1, r) = 53
    /\ \A r \in 35..48 : At(yyr1, r) = 54
    /\ At(yyr1, 49) = 55 /\ At(yyr1, 50) = 56
    /\ \A r \in 51..52 : At(yyr1, r) = 57
    /\ At(yyr1, 53) = 58 /\ At(yyr1, 54) = 59
    /\ \A r \in 55..58 : At(yyr1, r) = 60
    /\ \A r \in 59..60 : At(yyr1, r) = 61
BY DEF At, yyr1

LEMMA RightSides ==
    /\ Rhs(21, 1) = 49 /\ Rhs(25, 1) = 50 /\ Rhs(27, 1) = 51 /\ Rhs(28, 1) = 52
    /\ \A r \in 22..24 : Rhs(r, 1) = 48 /\ Rhs(r, 2) \in 25..26
    /\ Rhs(22, 3) = 61 /\ Rhs(23, 3) = 61 /\ Rhs(24, 3) = 13
    /\ Rhs(26, 1) = 50 /\ Rhs(26, 2) = 24 /\ Rhs(26, 3) = 49
    /\ Rhs(29, 1) = 52 /\ Rhs(29, 2) = 51
    /\ Rhs(30, 1) = 53 /\ Rhs(35, 1) = 53
    /\ Rhs(31, 1) = 60 /\ Rhs(32, 1) = 55 /\ Rhs(33, 1) = 56
    /\ Rhs(34, 1) = 33 /\ Rhs(34, 2) = 54 /\ Rhs(34, 3) = 34
    /\ Rhs(43, 1) = 32 /\ Rhs(43, 2) = 54
    /\ \A r \in 49..50 : Rhs(r, 1) \in 41..42 /\ Rhs(r, 2) = 4
    /\ Rhs(52, 1) = 58 /\ Rhs(53, 1) = 59 /\ Rhs(54, 1) = 3
    /\ \A r \in 55..60 : Rhs(r, 1) \in 3..6
BY DEF Rhs, FirstOf, SecondOf, ThirdOf

LEMMA BinaryRules ==
    \A r \in 36..42 \cup 44..48 : Rhs(r, 1) = 54 /\ Rhs(r, 2) \in 25..39 /\ Rhs(r, 3) = 54
BY DEF Rhs, FirstOf, SecondOf, ThirdOf

LEMMA Lengths ==
    /\ \A r \in {21, 25, 27, 28} \cup 30..33 \cup {35} \cup 52..60 : At(yyr2, r) = 1
    /\ \A r \in {29, 43, 49, 50} : At(yyr2, r) = 2
    /\ \A r \in {22, 23, 24, 26, 34} \cup 36..42 \cup 44..48 : At(yyr2, r) = 3
    /\ At(yyr2, 51) = 0
BY DEF At, yyr2

LEMMA PipelineValues ==
    ASSUME NEW r \in 21..29, NEW d
    PROVE  LET v == Value(r, d)
           IN  /\ r = 21 => v = [commands |-> d[1], input |-> NULL, output |-> NULL,
                                 capture |-> FALSE]
               /\ r = 22 => v = [d[1] EXCEPT !.input = d[3]]
               /\ r = 23 => v = [d[1] EXCEPT !.output = d[3]]
               /\ r = 24 => v = [d[1] EXCEPT !.capture = TRUE]
               /\ r = 25 => v = d[1]
               /\ r = 26 => v = d[1] \o d[3]
               /\ r \in 27..28 => v = <<d[1]>>
               /\ r = 29 => v = <<d[1]>> \o d[2]
<1>1. /\ r \notin 2..6 /\ r \notin 7..12 /\ r \notin 13..20 /\ r \in PipelineRules
      /\ r \notin ExprRules /\ ~(r >= 51)
  BY DEF PipelineRules, ExprRules
<1>2. Value(r, d) = PipelineValue(r, d)
  BY <1>1 DEF Value
<1>3. r = 21 => PipelineValue(r, d) = [commands |-> d[1], input |-> NULL, output |-> NULL, capture |-> FALSE]
  <2>1. r = 21 => r # 22 /\ r # 23 /\ r # 24 /\ r # 25 /\ r # 26 /\ r # 27 /\ r # 28 /\ r # 29
    OBVIOUS
  <2> QED BY <2>1, Zenon DEF PipelineValue
<1>4. r = 22 => PipelineValue(r, d) = [d[1] EXCEPT !.input = d[3]]
  <2>1. r = 22 => r # 21 /\ r # 23 /\ r # 24 /\ r # 25 /\ r # 26 /\ r # 27 /\ r # 28 /\ r # 29
    OBVIOUS
  <2> QED BY <2>1, Zenon DEF PipelineValue
<1>5. r = 23 => PipelineValue(r, d) = [d[1] EXCEPT !.output = d[3]]
  <2>1. r = 23 => r # 21 /\ r # 22 /\ r # 24 /\ r # 25 /\ r # 26 /\ r # 27 /\ r # 28 /\ r # 29
    OBVIOUS
  <2> QED BY <2>1, Zenon DEF PipelineValue
<1>6. r = 24 => PipelineValue(r, d) = [d[1] EXCEPT !.capture = TRUE]
  <2>1. r = 24 => r # 21 /\ r # 22 /\ r # 23 /\ r # 25 /\ r # 26 /\ r # 27 /\ r # 28 /\ r # 29
    OBVIOUS
  <2> QED BY <2>1, Zenon DEF PipelineValue
<1>7. r = 25 => PipelineValue(r, d) = d[1]
  <2>1. r = 25 => r # 21 /\ r # 22 /\ r # 23 /\ r # 24 /\ r # 26 /\ r # 27 /\ r # 28 /\ r # 29
    OBVIOUS
  <2> QED BY <2>1, Zenon DEF PipelineValue
<1>8. r = 26 => PipelineValue(r, d) = d[1] \o d[3]
  <2>1. r = 26 => r # 21 /\ r # 22 /\ r # 23 /\ r # 24 /\ r # 25 /\ r # 27 /\ r # 28 /\ r # 29
    OBVIOUS
  <2> QED BY <2>1, Zenon DEF PipelineValue
<1>9. r = 27 => PipelineValue(r, d) = <<d[1]>>
  <2>1. r = 27 => r # 21 /\ r # 22 /\ r # 23 /\ r # 24 /\ r # 25 /\ r # 26 /\ r # 28 /\ r # 29
    OBVIOUS
  <2> QED BY <2>1, Zenon DEF PipelineValue
<1>10. r = 28 => PipelineValue(r, d) = <<d[1]>>
  <2>1. r = 28 => r # 21 /\ r # 22 /\ r # 23 /\ r # 24 /\ r # 25 /\ r # 26 /\ r # 27 /\ r # 29
    OBVIOUS
  <2> QED BY <2>1, Zenon DEF PipelineValue
<1>11. r = 29 => PipelineValue(r, d) = <<d[1]>> \o d[2]
  <2>1. r = 29 => r # 21 /\ r # 22 /\ r # 23 /\ r # 24 /\ r # 25 /\ r # 26 /\ r # 27 /\ r # 28
    OBVIOUS
  <2> QED BY <2>1, Zenon DEF PipelineValue
<1>12. r \in 27..28 => r = 27 \/ r = 28
  OBVIOUS
<1> QED BY <1>2, <1>3, <1>4, <1>5, <1>6, <1>7, <1>8, <1>9, <1>10, <1>11, <1>12, Zenon

LEMMA ExprValues ==
    ASSUME NEW r \in 30..50, NEW d
    PROVE  LET v == Value(r, d)
           IN  /\ r \in {30, 35} => v = d[1]
               /\ r \in {34, 49, 50} => v = d[2]
               /\ r = 31 => v = Leaf("lit", d[1])
               /\ r = 32 => v = Leaf("num", d[1])
               /\ r = 33 => v = Leaf("str", d[1])
               /\ r = 43 => v = d[2] \o Operator("unary", "NOT")
               /\ r \in 36..42 \cup 44..48 =>
                     v = d[1] \o d[3] \o Operator("binary", BinaryRule[r])
<1>1. /\ r \notin 2..6 /\ r \notin 7..12 /\ r \notin 13..20 /\ r \notin PipelineRules
      /\ r \in ExprRules /\ ~(r >= 51)
  BY DEF PipelineRules, ExprRules
<1>2. Value(r, d) = ExprValue(r, d)
  BY <1>1 DEF Value
<1>3. r \in {30, 35} => ExprValue(r, d) = d[1]
  BY DEF ExprValue
<1>4. r \in {34, 49, 50} => ExprValue(r, d) = d[2]
  BY DEF ExprValue
<1>5. r = 31 => ExprValue(r, d) = LitExpr(d[1])
  BY DEF ExprValue
<1>6. r = 32 => ExprValue(r, d) = NumExpr(d[1])
  BY DEF ExprValue
<1>7. r = 33 => ExprValue(r, d) = StringExpr(d[1])
  BY DEF ExprValue
<1>8. r = 43 => ExprValue(r, d) = UnaryExpr("NOT", d[2])
  BY DEF ExprValue
<1>9. r \in 36..42 \cup 44..48 => ExprValue(r, d) = BinaryExpr(BinaryRule[r], d[1], d[3])
  BY DEF ExprValue
<1>10. /\ LitExpr(d[1]) = Leaf("lit", d[1]) /\ NumExpr(d[1]) = Leaf("num", d[1])
       /\ StringExpr(d[1]) = Leaf("str", d[1])
       /\ UnaryExpr("NOT", d[2]) = d[2] \o Operator("unary", "NOT")
       /\ BinaryExpr(BinaryRule[r], d[1], d[3]) = d[1] \o d[3] \o Operator("binary", BinaryRule[r])
  BY Zenon DEF LitExpr, NumExpr, StringExpr, UnaryExpr, BinaryExpr
<1> QED BY <1>2, <1>3, <1>4, <1>5, <1>6, <1>7, <1>8, <1>9, <1>10, Zenon

LEMMA LeafValues ==
    ASSUME NEW r \in 51..60, NEW d
    PROVE  /\ r \in 55..60 \cup 52..53 => Value(r, d) = d[1]
           /\ r = 54 => Value(r, d) = atoi(d[1])
<1>1. /\ r \notin 2..6 /\ r \notin 7..12 /\ r \notin 13..20 /\ r \notin PipelineRules
      /\ r \notin ExprRules /\ r >= 51
  BY DEF PipelineRules, ExprRules
<1>2. Value(r, d) = LeafValue(r, d)
  BY <1>1 DEF Value
<1> QED BY <1>2 DEF LeafValue

-----------------------------------------------------------------------------
(* The semantic actions.                                                   *)

LEMMA UnitRules ==
    ASSUME NEW r \in {21, 25, 27, 28} \cup 30..33 \cup {35, 52, 53} \cup 55..60, NEW d
    PROVE  LET of == Rhs(r, 1)
               lhs == At(yyr1, r)
               v == Value(r, d)
           IN  \/ r = 21 /\ of = 49 /\ lhs = 48
               \/ r = 25 /\ of = 50 /\ lhs = 49 /\ v = d[1]
               \/ r = 27 /\ of = 51 /\ lhs = 50 /\ v = <<d[1]>>
               \/ r = 28 /\ of = 52 /\ lhs = 51 /\ v = <<d[1]>>
               \/ r = 30 /\ of = 53 /\ lhs = 52 /\ v = d[1]
               \/ r = 35 /\ of = 53 /\ lhs = 54 /\ v = d[1]
               \/ /\ of \in OfString /\ lhs = 53
                  /\ \E class \in {"lit", "num", "str"} : v = Leaf(class, d[1])
               \/ of \in 58..59 /\ lhs \in 57..58
               \/ of \in OfString /\ lhs \in OfString /\ v = d[1]
<1>1. CASE r \in {21, 25, 27, 28}
  <2>1. r \in {21, 25, 27, 28} /\ r \in 21..29
    BY <1>1
  <2>2. At(yyr1, 21) = 48 /\ At(yyr1, 25) = 49 /\ At(yyr1, 27) = 50 /\ At(yyr1, 28) = 51
    BY LeftSides
  <2>3. Rhs(21, 1) = 49 /\ Rhs(25, 1) = 50 /\ Rhs(27, 1) = 51 /\ Rhs(28, 1) = 52
    BY RightSides
  <2>4. (r = 25 => Value(r, d) = d[1]) /\ (r \in 27..28 => Value(r, d) = <<d[1]>>)
    BY <2>1, PipelineValues
  <2>5. r \in {27, 28} => r \in 27..28
    OBVIOUS
  <2>6. CASE r = 21
    BY <2>2, <2>3, <2>6, Zenon
  <2>7. CASE r = 25
    BY <2>2, <2>3, <2>4, <2>7, Zenon
  <2>8. CASE r = 27
    BY <2>2, <2>3, <2>4, <2>5, <2>8, Zenon
  <2>9. CASE r = 28
    BY <2>2, <2>3, <2>4, <2>5, <2>9, Zenon
  <2>10. r = 21 \/ r = 25 \/ r = 27 \/ r = 28
    BY <2>1
  <2> QED BY <2>6, <2>7, <2>8, <2>9, <2>10, Zenon
<1>2. CASE r \in {30, 35}
  <2>1. r \in {30, 35} /\ r \in 30..50
    BY <1>2
  <2>2. At(yyr1, 30) = 52 /\ At(yyr1, 35) = 54
    BY LeftSides
  <2>3. Rhs(30, 1) = 53 /\ Rhs(35, 1) = 53
    BY RightSides
  <2>4. Value(r, d) = d[1]
    BY <2>1, ExprValues
  <2>5. CASE r = 30
    BY <2>2, <2>3, <2>4, <2>5, Zenon
  <2>6. CASE r = 35
    BY <2>2, <2>3, <2>4, <2>6, Zenon
  <2>7. r = 30 \/ r = 35
    BY <2>1
  <2> QED BY <2>5, <2>6, <2>7, Zenon
<1>3. CASE r \in 31..33
  <2>1. r \in {31, 32, 33} /\ r \in 30..50 /\ r \in 31..34
    BY <1>3
  <2>2. At(yyr1, r) = 53
    BY <2>1, LeftSides
  <2>3. Rhs(31, 1) \in OfString /\ Rhs(32, 1) \in OfString /\ Rhs(33, 1) \in OfString
    BY RightSides DEF OfString
  <2>4. /\ r = 31 => Value(r, d) = Leaf("lit", d[1])
        /\ r = 32 => Value(r, d) = Leaf("num", d[1])
        /\ r = 33 => Value(r, d) = Leaf("str", d[1])
    BY <2>1, ExprValues
  <2> QED BY <2>1, <2>2, <2>3, <2>4, Zenon
<1>4. CASE r \in {52, 53}
  <2>1. At(yyr1, 52) = 57 /\ At(yyr1, 53) = 58
    BY LeftSides
  <2>2. Rhs(52, 1) = 58 /\ Rhs(53, 1) = 59
    BY RightSides
  <2> QED BY <1>4, <2>1, <2>2
<1>5. CASE r \in 55..60
  <2>1. At(yyr1, r) \in OfString
    <3>1. r \in 55..58 \/ r \in 59..60
      BY <1>5
    <3> QED BY <3>1, LeftSides DEF OfString
  <2>2. Rhs(r, 1) \in OfString
    <3>1. Rhs(r, 1) \in 3..6
      BY <1>5, RightSides
    <3> QED BY <3>1 DEF OfString
  <2>3. Value(r, d) = d[1]
    <3>1. r \in 51..60 /\ r \in 55..60 \cup 52..53
      BY <1>5
    <3> QED BY <3>1, LeafValues, Zenon
  <2> QED BY <2>1, <2>2, <2>3, Zenon
<1> QED BY <1>1, <1>2, <1>3, <1>4, <1>5

\* One operand, whose value is handed on or wrapped.
LEMMA UnitValue ==
    ASSUME NEW r \in {21, 25, 27, 28} \cup 30..33 \cup {35, 52, 53} \cup 55..60,
           NEW d, Sound(Rhs(r, 1), d[1])
    PROVE  /\ Sound(At(yyr1, r), Value(r, d))
           /\ Ids(At(yyr1, r), Value(r, d)) = Ids(Rhs(r, 1), d[1])
<1> DEFINE of == Rhs(r, 1)
           lhs == At(yyr1, r)
           v == Value(r, d)
           x == d[1]
<1>0. r = 21 => v = [commands |-> x, input |-> NULL, output |-> NULL, capture |-> FALSE]
  BY PipelineValues
<1>9. \/ r = 21 /\ of = 49 /\ lhs = 48
      \/ of = 50 /\ lhs = 49 /\ v = x
      \/ of = 51 /\ lhs = 50 /\ v = <<x>>
      \/ of = 52 /\ lhs = 51 /\ v = <<x>>
      \/ of = 53 /\ lhs \in {52, 54} /\ v = x
      \/ of \in OfString /\ lhs = 53 /\ \E class \in {"lit", "num", "str"} : v = Leaf(class, x)
      \/ of \in 58..59 /\ lhs \in 57..58
      \/ of \in OfString /\ lhs \in OfString /\ v = x
  BY UnitRules
<1>10. Sound(of, x)
  OBVIOUS
<1> HIDE DEF of, lhs, v, x
<1> SUFFICES Sound(lhs, v) /\ Ids(lhs, v) = Ids(of, x)
  BY DEF of, lhs, v, x
<1>1. CASE r = 21 /\ of = 49 /\ lhs = 48
  <2>1. IsCommands(x, Nat) /\ IsInjective(free_commands(x)) /\ Ids(of, x) = ToSet(free_commands(x))
    BY <1>1, <1>10, Others DEF Sound, Ids
  <2>2. v.commands = x /\ v.input = NULL /\ v.output = NULL /\ v.capture = FALSE
    BY <1>1, <1>0
  <2>3. IsPipeline(v, Nat)
    BY <1>1, <1>0, <2>1, <2>2 DEF IsPipeline
  <2>4. ToSet(FreeString(NULL)) = {}
    BY StringFacts
  <2>5. IsInjective(free_pipeline(v)) /\ ToSet(free_pipeline(v)) = ToSet(free_commands(x))
    <3>1. /\ ToSet(free_pipeline(v)) = PipelineIds(v) \cup ToSet(FreeString(v.input))
                                                      \cup ToSet(FreeString(v.output))
          /\ IsInjective(free_pipeline(v)) <=>
                /\ IsInjective(free_commands(v.commands))
                /\ ToSet(FreeString(v.input)) \cap ToSet(FreeString(v.output)) = {}
                /\ PipelineIds(v) \cap ToSet(FreeString(v.input)) = {}
                /\ PipelineIds(v) \cap ToSet(FreeString(v.output)) = {}
      BY <2>3, PipelineFacts
    <3>2. PipelineIds(v) = ToSet(free_commands(x))
      BY <2>2 DEF PipelineIds
    <3> QED BY <2>1, <2>2, <2>4, <3>1, <3>2
  <2> QED BY <1>1, <2>1, <2>3, <2>5, Others DEF Sound, Ids
<1>2. CASE of = 50 /\ lhs = 49 /\ v = x
  BY <1>2, <1>10, Others DEF Sound, Ids
<1>3. CASE of = 51 /\ lhs = 50 /\ v = <<x>>
  BY <1>3, <1>10, Others, CommandsOne DEF Sound, Ids
<1>4. CASE of = 52 /\ lhs = 51 /\ v = <<x>>
  BY <1>4, <1>10, Others, ArgsOne DEF Sound, Ids
<1>5. CASE of = 53 /\ lhs \in {52, 54} /\ v = x
  <2>1. lhs \in 52..54 /\ of \in 52..54 /\ v = x
    BY <1>5
  <2>2. /\ Typed(of, x) <=> IsExpr(x, Nat)
        /\ Typed(lhs, x) <=> IsExpr(x, Nat)
        /\ Owned(of, x) = free_expr(x) /\ Owned(lhs, x) = free_expr(x)
    BY <2>1, Others, Zenon
  <2> QED BY <1>5, <2>1, <2>2, <1>10, Zenon DEF Sound, Ids
<1>6. CASE of \in OfString /\ lhs = 53 /\ \E class \in {"lit", "num", "str"} : v = Leaf(class, x)
  <2>1. IsString(x, Nat) /\ Ids(of, x) = {x.id}
    BY <1>6, <1>10, OfStrings
  <2>2. IsExpr(v, Nat) /\ free_expr(v) = <<x.id>>
    BY <1>6, <2>1, LeafFacts
  <2>3. IsInjective(<<x.id>>) /\ ToSet(<<x.id>>) = {x.id}
    BY DEF IsInjective, ToSet
  <2> QED BY <1>6, <2>1, <2>2, <2>3, Others DEF Sound, Ids
<1>7. CASE of \in 58..59 /\ lhs \in 57..58
  <2>1. of \notin OfString \cup 48..54 /\ lhs \notin OfString \cup 48..54
    BY <1>7 DEF OfString
  <2> QED BY <2>1, Ownerless
<1>8. CASE of \in OfString /\ lhs \in OfString /\ v = x
  BY <1>8, <1>10, OfStrings
<1> QED BY <1>9, <1>1, <1>2, <1>3, <1>4, <1>5, <1>6, <1>7, <1>8

\* Two operands with a mark between them.
JoiningRules == {26, 29, 34} \cup 36..50

LEMMA JoiningFacts ==
    ASSUME NEW r \in JoiningRules, NEW d
    PROVE  LET a == Rhs(r, 1)
               b == Rhs(r, 2)
               c == Rhs(r, 3)
               n == At(yyr2, r)
               lhs == At(yyr1, r)
               v == Value(r, d)
           IN  \/ n = 3 /\ a = 50 /\ b = 24 /\ c = 49 /\ lhs = 49 /\ v = d[1] \o d[3]
               \/ n = 2 /\ a = 52 /\ b = 51 /\ lhs = 51 /\ v = <<d[1]>> \o d[2]
               \/ n = 3 /\ a = 33 /\ b = 54 /\ c = 34 /\ lhs = 53 /\ v = d[2]
               \/ n = 2 /\ a = 32 /\ b = 54 /\ lhs = 54 /\ v = d[2] \o Operator("unary", "NOT")
               \/ /\ n = 3 /\ a = 54 /\ b \in 25..39 /\ c = 54 /\ lhs = 54
                  /\ \E op : v = d[1] \o d[3] \o Operator("binary", op)
               \/ n = 2 /\ a \in 41..42 /\ b = 4 /\ lhs \in 55..56 /\ v = d[2]
<1>1. CASE r \in {26, 29}
  <2>1. r \in 21..29 /\ (r = 26 \/ r = 29)
    BY <1>1
  <2>2. At(yyr1, 26) = 49 /\ At(yyr1, 29) = 51 /\ At(yyr2, 26) = 3 /\ At(yyr2, 29) = 2
    BY LeftSides, Lengths
  <2>3. (r = 26 => Value(r, d) = d[1] \o d[3]) /\ (r = 29 => Value(r, d) = <<d[1]>> \o d[2])
    BY <2>1, PipelineValues, Zenon
  <2>4. Rhs(26, 1) = 50 /\ Rhs(26, 2) = 24 /\ Rhs(26, 3) = 49 /\ Rhs(29, 1) = 52 /\ Rhs(29, 2) = 51
    BY RightSides
  <2>5. CASE r = 26
    BY <2>2, <2>3, <2>4, <2>5, Zenon
  <2>6. CASE r = 29
    BY <2>2, <2>3, <2>4, <2>6, Zenon
  <2> QED BY <2>1, <2>5, <2>6, Zenon
<1>2. CASE r \in {34, 43}
  <2>1. r \in 30..50 /\ (r = 34 \/ r = 43)
    BY <1>2
  <2>2. At(yyr1, 34) = 53 /\ At(yyr1, 43) = 54 /\ At(yyr2, 34) = 3 /\ At(yyr2, 43) = 2
    BY LeftSides, Lengths
  <2>3. (r = 34 => Value(r, d) = d[2]) /\ (r = 43 => Value(r, d) = d[2] \o Operator("unary", "NOT"))
    BY <2>1, ExprValues, Zenon
  <2>4. Rhs(34, 1) = 33 /\ Rhs(34, 2) = 54 /\ Rhs(34, 3) = 34 /\ Rhs(43, 1) = 32 /\ Rhs(43, 2) = 54
    BY RightSides
  <2>5. CASE r = 34
    BY <2>2, <2>3, <2>4, <2>5, Zenon
  <2>6. CASE r = 43
    BY <2>2, <2>3, <2>4, <2>6, Zenon
  <2> QED BY <2>1, <2>5, <2>6, Zenon
<1>3. CASE r \in 36..42 \cup 44..48
  <2>1. r \in 30..50 /\ r \in 35..48
    BY <1>3
  <2>2. At(yyr1, r) = 54
    BY <2>1, LeftSides
  <2>3. At(yyr2, r) = 3
    BY <1>3, Lengths
  <2>4. Value(r, d) = d[1] \o d[3] \o Operator("binary", BinaryRule[r])
    BY <1>3, <2>1, ExprValues, Zenon
  <2> QED BY <1>3, <2>2, <2>3, <2>4, BinaryRules, Zenon
<1>4. CASE r \in 49..50
  <2>1. r \in 30..50 /\ r \in {34, 49, 50} /\ (r = 49 \/ r = 50)
    BY <1>4
  <2>2. At(yyr1, r) \in 55..56 /\ At(yyr2, r) = 2
    BY <2>1, LeftSides, Lengths
  <2>3. Value(r, d) = d[2]
    <3>1. r \in {34, 49, 50} => Value(r, d) = d[2]
      BY <2>1, ExprValues
    <3> QED BY <2>1, <3>1, Zenon
  <2> QED BY <1>4, <2>2, <2>3, RightSides, Zenon
<1>5. r \in {26, 29} \/ r \in {34, 43} \/ r \in 36..42 \cup 44..48 \/ r \in 49..50
  BY DEF JoiningRules
<1> QED BY <1>1, <1>2, <1>3, <1>4, <1>5

LEMMA JoiningValue ==
    ASSUME NEW r \in JoiningRules, NEW d,
           \A i \in 1..At(yyr2, r) : Sound(Rhs(r, i), d[i]),
           \A i, j \in 1..At(yyr2, r) :
              i # j => Ids(Rhs(r, i), d[i]) \cap Ids(Rhs(r, j), d[j]) = {}
    PROVE  /\ Sound(At(yyr1, r), Value(r, d))
           /\ Ids(At(yyr1, r), Value(r, d))
                 = UNION {Ids(Rhs(r, i), d[i]) : i \in 1..At(yyr2, r)}
<1> DEFINE a == Rhs(r, 1)
           b == Rhs(r, 2)
           c == Rhs(r, 3)
           n == At(yyr2, r)
           lhs == At(yyr1, r)
           v == Value(r, d)
           x == d[1]
           y == d[2]
           z == d[3]
           all == UNION {Ids(Rhs(r, i), d[i]) : i \in 1..n}
<1>0. \/ n = 3 /\ a = 50 /\ b = 24 /\ c = 49 /\ lhs = 49 /\ v = x \o z
      \/ n = 2 /\ a = 52 /\ b = 51 /\ lhs = 51 /\ v = <<x>> \o y
      \/ n = 3 /\ a = 33 /\ b = 54 /\ c = 34 /\ lhs = 53 /\ v = y
      \/ n = 2 /\ a = 32 /\ b = 54 /\ lhs = 54 /\ v = y \o Operator("unary", "NOT")
      \/ /\ n = 3 /\ a = 54 /\ b \in 25..39 /\ c = 54 /\ lhs = 54
         /\ \E op : v = x \o z \o Operator("binary", op)
      \/ n = 2 /\ a \in 41..42 /\ b = 4 /\ lhs \in 55..56 /\ v = y
  BY JoiningFacts, Zenon
<1>7. ASSUME n = 2
      PROVE  /\ Sound(a, x) /\ Sound(b, y) /\ Ids(a, x) \cap Ids(b, y) = {}
             /\ all = Ids(a, x) \cup Ids(b, y)
  <2>1. 1..n = {1, 2}
    BY <1>7
  <2> QED BY <2>1
<1>8. ASSUME n = 3
      PROVE  /\ Sound(a, x) /\ Sound(b, y) /\ Sound(c, z) /\ Ids(a, x) \cap Ids(c, z) = {}
             /\ all = Ids(a, x) \cup Ids(b, y) \cup Ids(c, z)
  <2>1. 1..n = {1, 2, 3}
    BY <1>8
  <2> QED BY <2>1
<1> SUFFICES Sound(lhs, v) /\ Ids(lhs, v) = all
  OBVIOUS
<1> HIDE DEF a, b, c, n, lhs, v, x, y, z, all
<1>1. CASE n = 3 /\ a = 50 /\ b = 24 /\ c = 49 /\ lhs = 49 /\ v = x \o z
  <2>1. /\ IsCommands(x, Nat) /\ IsInjective(free_commands(x))
        /\ IsCommands(z, Nat) /\ IsInjective(free_commands(z))
        /\ ToSet(free_commands(x)) \cap ToSet(free_commands(z)) = {}
        /\ all = ToSet(free_commands(x)) \cup ToSet(free_commands(z))
    <3>1. Ids(24, y) = {}
      BY Ownerless DEF OfString
    <3> QED BY <1>1, <1>8, <3>1, Others DEF Sound, Ids
  <2>2. IsCommands(x \o z, Nat) /\ free_commands(x \o z) = free_commands(z) \o free_commands(x)
    BY <2>1, CommandsConcat
  <2>3. free_commands(x) \in Seq(Nat) /\ free_commands(z) \in Seq(Nat)
    BY <2>1, CommandsFacts
  <2>4. IsInjective(free_commands(v)) /\ ToSet(free_commands(v)) = all /\ IsCommands(v, Nat)
    BY <1>1, <2>1, <2>2, <2>3, ConcatIds
  <2> QED BY <1>1, <2>4, Others DEF Sound, Ids
<1>2. CASE n = 2 /\ a = 52 /\ b = 51 /\ lhs = 51 /\ v = <<x>> \o y
  <2> DEFINE e == <<x>>
  <2>1. IsExpr(x, Nat) /\ IsInjective(free_expr(x))
    BY <1>2, <1>7, Others DEF Sound
  <2>2. /\ IsArgs(e, Nat) /\ IsInjective(free_args(e))
        /\ IsArgs(y, Nat) /\ IsInjective(free_args(y))
        /\ ToSet(free_args(e)) \cap ToSet(free_args(y)) = {}
        /\ all = ToSet(free_args(e)) \cup ToSet(free_args(y))
    BY <1>2, <1>7, <2>1, Others, ArgsOne DEF Sound, Ids
  <2>3. v = e \o y
    BY <1>2
  <2> HIDE DEF e
  <2>4. IsArgs(e \o y, Nat) /\ free_args(e \o y) = free_args(y) \o free_args(e)
    BY <2>2, ArgsConcat
  <2>5. free_args(e) \in Seq(Nat) /\ free_args(y) \in Seq(Nat)
    BY <2>2, ArgsFacts
  <2>6. IsInjective(free_args(v)) /\ ToSet(free_args(v)) = all /\ IsArgs(v, Nat)
    BY <2>2, <2>3, <2>4, <2>5, ConcatIds
  <2> QED BY <1>2, <2>6, Others DEF Sound, Ids
<1>3. CASE n = 3 /\ a = 33 /\ b = 54 /\ c = 34 /\ lhs = 53 /\ v = y
  <2>1. Ids(33, x) = {} /\ Ids(34, z) = {}
    BY Ownerless DEF OfString
  <2>2. 53 \in 52..54 /\ 54 \in 52..54
    OBVIOUS
  <2> QED BY <1>3, <1>8, <2>1, <2>2, Others DEF Sound, Ids
<1>4. CASE n = 2 /\ a = 32 /\ b = 54 /\ lhs = 54 /\ v = y \o Operator("unary", "NOT")
  <2> DEFINE op == Operator("unary", "NOT")
  <2>1. IsExpr(y, Nat) /\ IsInjective(free_expr(y)) /\ all = ToSet(free_expr(y))
    <3>1. Ids(32, x) = {}
      BY Ownerless DEF OfString
    <3>2. Sound(54, y) /\ all = Ids(54, y)
      BY <1>4, <1>7, <3>1
    <3> QED BY <3>2, Others DEF Sound, Ids
  <2>2. IsExpr(op, Nat) /\ free_expr(op) = <<>>
    BY OperatorFacts
  <2>3. v = y \o op
    BY <1>4
  <2> HIDE DEF op
  <2>4. IsExpr(v, Nat) /\ IsInjective(free_expr(v)) /\ ToSet(free_expr(v)) = all
    <3>1. IsInjective(free_expr(op)) /\ ToSet(free_expr(op)) = {}
      BY <2>2, NoIds
    <3>2. /\ IsExpr(y \o op, Nat)
          /\ ToSet(free_expr(y \o op)) = ToSet(free_expr(y)) \cup ToSet(free_expr(op))
          /\ IsInjective(free_expr(y \o op)) <=>
                /\ IsInjective(free_expr(y)) /\ IsInjective(free_expr(op))
                /\ ToSet(free_expr(y)) \cap ToSet(free_expr(op)) = {}
      BY <2>1, <2>2, ExprConcat
    <3> QED BY <2>1, <2>3, <3>1, <3>2
  <2> QED BY <1>4, <2>1, <2>4, Others DEF Sound, Ids
<1>5. CASE /\ n = 3 /\ a = 54 /\ b \in 25..39 /\ c = 54 /\ lhs = 54
           /\ \E o : v = x \o z \o Operator("binary", o)
  <2> PICK o : v = x \o z \o Operator("binary", o)
    BY <1>5
  <2> DEFINE op == Operator("binary", o)
             e == x \o z
  <2>1. /\ IsExpr(x, Nat) /\ IsInjective(free_expr(x))
        /\ IsExpr(z, Nat) /\ IsInjective(free_expr(z))
        /\ ToSet(free_expr(x)) \cap ToSet(free_expr(z)) = {}
        /\ all = ToSet(free_expr(x)) \cup ToSet(free_expr(z))
    <3>1. b \in 25..39
      BY <1>5
    <3>2. Ids(b, y) = {}
      <4> HIDE DEF b
      <4>1. b \notin OfString \cup 48..54
        BY <3>1 DEF OfString
      <4> QED BY <4>1, Ownerless
    <3> QED BY <1>5, <1>8, <3>2, Others DEF Sound, Ids
  <2>2. IsExpr(op, Nat) /\ free_expr(op) = <<>>
    BY OperatorFacts
  <2>3. IsExpr(e, Nat) /\ IsInjective(free_expr(e)) /\ ToSet(free_expr(e)) = all
    <3>1. /\ IsExpr(x \o z, Nat)
          /\ ToSet(free_expr(x \o z)) = ToSet(free_expr(x)) \cup ToSet(free_expr(z))
          /\ IsInjective(free_expr(x \o z)) <=>
                /\ IsInjective(free_expr(x)) /\ IsInjective(free_expr(z))
                /\ ToSet(free_expr(x)) \cap ToSet(free_expr(z)) = {}
      BY <2>1, ExprConcat
    <3> QED BY <2>1, <3>1
  <2>4. v = e \o op
    OBVIOUS
  <2> HIDE DEF op, e
  <2>5. IsExpr(v, Nat) /\ IsInjective(free_expr(v)) /\ ToSet(free_expr(v)) = all
    <3>1. IsInjective(free_expr(op)) /\ ToSet(free_expr(op)) = {}
      BY <2>2, NoIds
    <3>2. /\ IsExpr(e \o op, Nat)
          /\ ToSet(free_expr(e \o op)) = ToSet(free_expr(e)) \cup ToSet(free_expr(op))
          /\ IsInjective(free_expr(e \o op)) <=>
                /\ IsInjective(free_expr(e)) /\ IsInjective(free_expr(op))
                /\ ToSet(free_expr(e)) \cap ToSet(free_expr(op)) = {}
      BY <2>2, <2>3, ExprConcat
    <3> QED BY <2>3, <2>4, <3>1, <3>2
  <2> QED BY <1>5, <2>5, Others DEF Sound, Ids
<1>6. CASE n = 2 /\ a \in 41..42 /\ b = 4 /\ lhs \in 55..56 /\ v = y
  <2>1. Ids(a, x) = {}
    BY <1>6, Ownerless DEF OfString
  <2>2. b \in OfString /\ lhs \in OfString
    BY <1>6 DEF OfString
  <2> QED BY <1>7, <1>6, <2>1, <2>2, OfStrings
<1> QED BY <1>0, <1>1, <1>2, <1>3, <1>4, <1>5, <1>6

File(p, r) == IF r = 22 THEN p.input ELSE p.output

\* A file takes the place of the one that was there.
LEMMA RedirectValue ==
    ASSUME NEW r \in 22..23, NEW d, Sound(48, d[1]), Sound(61, d[3]),
           Ids(48, d[1]) \cap Ids(61, d[3]) = {}
    PROVE  LET p == d[1]
               v == Value(r, d)
           IN  /\ Sound(48, v)
               /\ Ids(48, v) \subseteq Ids(48, p) \cup Ids(61, d[3])
               /\ Ids(48, p) \cup Ids(61, d[3])
                     \subseteq Ids(48, v) \cup ToSet(FreeString(File(p, r)))
               /\ File(v, r) = d[3]
               /\ r = 22 => v.output = p.output
               /\ r = 23 => v.input = p.input
<1> DEFINE p == d[1]
           f == d[3]
           v == Value(r, d)
<1>1. (r = 22 => v = [p EXCEPT !.input = f]) /\ (r = 23 => v = [p EXCEPT !.output = f])
  <2>1. r \in 21..29
    OBVIOUS
  <2> QED BY <2>1, PipelineValues, Zenon
<1>2. IsPipeline(p, Nat) /\ IsInjective(free_pipeline(p)) /\ Ids(48, p) = ToSet(free_pipeline(p))
  BY Others DEF Sound, Ids
<1>3. IsString(f, Nat) /\ Ids(61, f) = {f.id} /\ f # NULL
  <2>1. 61 \in OfString
    BY DEF OfString
  <2> QED BY <2>1, OfStrings
<1> HIDE DEF p, f, v
<1>4. p = [commands |-> p.commands, input |-> p.input, output |-> p.output, capture |-> p.capture]
  BY <1>2 DEF IsPipeline
<1>5. /\ r = 22 => v = [commands |-> p.commands, input |-> f, output |-> p.output,
                        capture |-> p.capture]
      /\ r = 23 => v = [commands |-> p.commands, input |-> p.input, output |-> f,
                        capture |-> p.capture]
  BY <1>1, <1>4
<1>6. /\ v = [commands |-> v.commands, input |-> v.input, output |-> v.output,
              capture |-> v.capture]
      /\ v.commands = p.commands
      /\ r = 22 => v.input = f /\ v.output = p.output
      /\ r = 23 => v.input = p.input /\ v.output = f
  BY <1>5
<1>7. IsPipeline(v, Nat)
  BY <1>2, <1>3, <1>6 DEF IsPipeline
<1>8. ToSet(FreeString(f)) = {f.id}
  BY <1>3, StringFacts
<1> DEFINE c == PipelineIds(p)
           i == ToSet(FreeString(p.input))
           o == ToSet(FreeString(p.output))
<1>9. /\ Ids(48, p) = c \cup i \cup o
      /\ IsInjective(free_commands(p.commands)) /\ i \cap o = {} /\ c \cap i = {} /\ c \cap o = {}
  BY <1>2, PipelineFacts
<1>10. /\ ToSet(free_pipeline(v)) = c \cup ToSet(FreeString(v.input)) \cup ToSet(FreeString(v.output))
       /\ IsInjective(free_pipeline(v)) <=>
             /\ IsInjective(free_commands(p.commands))
             /\ ToSet(FreeString(v.input)) \cap ToSet(FreeString(v.output)) = {}
             /\ c \cap ToSet(FreeString(v.input)) = {}
             /\ c \cap ToSet(FreeString(v.output)) = {}
  BY <1>6, <1>7, PipelineFacts DEF PipelineIds
<1>11. Typed(48, v) /\ Owned(48, v) = free_pipeline(v)
  BY <1>7, Others
<1>12. (c \cup i \cup o) \cap {f.id} = {}
  BY <1>3, <1>9 DEF p, f
<1> HIDE DEF c, i, o
<1>13. CASE r = 22
  <2>1. ToSet(FreeString(v.input)) = {f.id} /\ ToSet(FreeString(v.output)) = o
    BY <1>6, <1>8, <1>13 DEF o
  <2>2. Sound(48, v) /\ Ids(48, v) = c \cup {f.id} \cup o
    BY <1>9, <1>10, <1>11, <1>12, <2>1 DEF Sound, Ids
  <2>3. File(p, r) = p.input /\ File(v, r) = f
    BY <1>6, <1>13 DEF File
  <2> QED BY <1>3, <1>6, <1>9, <1>13, <2>2, <2>3 DEF p, f, v, i
<1>14. CASE r = 23
  <2>1. ToSet(FreeString(v.input)) = i /\ ToSet(FreeString(v.output)) = {f.id}
    BY <1>6, <1>8, <1>14 DEF i
  <2>2. Sound(48, v) /\ Ids(48, v) = c \cup i \cup {f.id}
    BY <1>9, <1>10, <1>11, <1>12, <2>1 DEF Sound, Ids
  <2>3. File(p, r) = p.output /\ File(v, r) = f
    BY <1>6, <1>14 DEF File
  <2> QED BY <1>3, <1>6, <1>9, <1>14, <2>2, <2>3 DEF p, f, v, o
<1>15. r = 22 \/ r = 23
  OBVIOUS
<1> QED BY <1>13, <1>14, <1>15

LEMMA CaptureValue ==
    ASSUME NEW d, Sound(48, d[1])
    PROVE  LET p == d[1]
               v == Value(24, d)
           IN  /\ Sound(48, v) /\ Ids(48, v) = Ids(48, p)
               /\ v.input = p.input /\ v.output = p.output
<1> DEFINE p == d[1]
           v == Value(24, d)
<1>1. v = [p EXCEPT !.capture = TRUE]
  BY PipelineValues
<1>2. IsPipeline(p, Nat) /\ IsInjective(free_pipeline(p)) /\ Ids(48, p) = ToSet(free_pipeline(p))
  BY Others DEF Sound, Ids
<1> HIDE DEF p, v
<1>3. p = [commands |-> p.commands, input |-> p.input, output |-> p.output, capture |-> p.capture]
  BY <1>2 DEF IsPipeline
<1>4. v = [commands |-> p.commands, input |-> p.input, output |-> p.output, capture |-> TRUE]
  BY <1>1, <1>3
<1>5. /\ v = [commands |-> v.commands, input |-> v.input, output |-> v.output,
              capture |-> v.capture]
      /\ v.commands = p.commands /\ v.input = p.input /\ v.output = p.output
  BY <1>4
<1>6. IsPipeline(v, Nat)
  BY <1>2, <1>5 DEF IsPipeline
<1>7. free_pipeline(v) = free_pipeline(p)
  BY <1>5, Zenon DEF free_pipeline
<1> QED BY <1>2, <1>5, <1>6, <1>7, Others DEF Sound, Ids, p, v

\* What a rule makes of the values on the right: a value of its type, which owns what
\* they owned; a second redirection forgets the first file, and the number of a line is
\* converted.
LEMMA ValueFacts ==
    ASSUME NEW r \in 21..60, NEW d,
           \A i \in 1..At(yyr2, r) : Sound(Rhs(r, i), d[i]),
           \A i, j \in 1..At(yyr2, r) :
              i # j => Ids(Rhs(r, i), d[i]) \cap Ids(Rhs(r, j), d[j]) = {}
    PROVE  LET all == UNION {Ids(Rhs(r, i), d[i]) : i \in 1..At(yyr2, r)}
               lhs == At(yyr1, r)
               v == Value(r, d)
           IN  /\ Sound(lhs, v) /\ Ids(lhs, v) \subseteq all
               /\ r \notin {22, 23, 54} => Ids(lhs, v) = all
               /\ r \in 22..23 => all \subseteq Ids(lhs, v) \cup ToSet(FreeString(File(d[1], r)))
               /\ r = 54 => /\ all = {d[1].id} /\ Ids(lhs, v) = {}
<1> DEFINE n == At(yyr2, r)
           all == UNION {Ids(Rhs(r, i), d[i]) : i \in 1..n}
           lhs == At(yyr1, r)
           v == Value(r, d)
<1>0. n = 1 => 1 \in 1..n /\ all = Ids(Rhs(r, 1), d[1])
  <2> HAVE n = 1
  <2>1. 1..n = {1}
    OBVIOUS
  <2> QED BY <2>1
<1>8. n = 3 => /\ 1 \in 1..n /\ 2 \in 1..n /\ 3 \in 1..n
               /\ all = Ids(Rhs(r, 1), d[1]) \cup Ids(Rhs(r, 2), d[2]) \cup Ids(Rhs(r, 3), d[3])
  <2> HAVE n = 3
  <2>1. 1..n = {1, 2, 3}
    OBVIOUS
  <2> QED BY <2>1
<1>9. \A i \in 1..n : Sound(Rhs(r, i), d[i])
  OBVIOUS
<1>10. \A i, j \in 1..n : i # j => Ids(Rhs(r, i), d[i]) \cap Ids(Rhs(r, j), d[j]) = {}
  OBVIOUS
<1> HIDE DEF n, all, lhs, v
<1> SUFFICES /\ Sound(lhs, v) /\ Ids(lhs, v) \subseteq all
             /\ r \notin {22, 23, 54} => Ids(lhs, v) = all
             /\ r \in 22..23 => all \subseteq Ids(lhs, v) \cup ToSet(FreeString(File(d[1], r)))
             /\ r = 54 => /\ all = {d[1].id} /\ Ids(lhs, v) = {}
  BY DEF all, lhs, v, n
<1>1. CASE r \in {21, 25, 27, 28} \cup 30..33 \cup {35, 52, 53} \cup 55..60
  <2>1. n = 1
    BY <1>1, Lengths DEF n
  <2>2. Sound(Rhs(r, 1), d[1]) /\ all = Ids(Rhs(r, 1), d[1])
    BY <1>0, <1>9, <2>1
  <2>3. Sound(lhs, v) /\ Ids(lhs, v) = all
    BY <1>1, <2>2, UnitValue DEF lhs, v
  <2>4. r \notin {22, 23, 54} /\ r \notin 22..23
    BY <1>1
  <2> QED BY <2>3, <2>4
<1>2. CASE r \in JoiningRules
  <2>1. Sound(lhs, v) /\ Ids(lhs, v) = all
    BY <1>2, <1>9, <1>10, JoiningValue DEF lhs, v, n, all
  <2>2. r \notin {22, 23, 54} /\ r \notin 22..23
    BY <1>2 DEF JoiningRules
  <2> QED BY <2>1, <2>2
<1>3. CASE r \in 22..23
  <2>1. n = 3 /\ lhs = 48 /\ Rhs(r, 1) = 48 /\ Rhs(r, 2) \in 25..26 /\ Rhs(r, 3) = 61
    BY <1>3, Lengths, LeftSides, RightSides DEF n, lhs
  <2>2. Ids(Rhs(r, 2), d[2]) = {}
    <3>1. Rhs(r, 2) \notin OfString \cup 48..54
      BY <2>1 DEF OfString
    <3> QED BY <3>1, Ownerless
  <2>3. /\ Sound(48, d[1]) /\ Sound(61, d[3]) /\ Ids(48, d[1]) \cap Ids(61, d[3]) = {}
        /\ all = Ids(48, d[1]) \cup Ids(61, d[3])
    BY <1>8, <1>9, <1>10, <2>1, <2>2
  <2>4. /\ Sound(48, v) /\ Ids(48, v) \subseteq all
        /\ all \subseteq Ids(48, v) \cup ToSet(FreeString(File(d[1], r)))
    BY <1>3, <2>3, RedirectValue DEF v
  <2>5. r \in {22, 23} /\ r # 54
    BY <1>3
  <2> QED BY <2>1, <2>4, <2>5
<1>4. CASE r = 24
  <2>1. n = 3 /\ lhs = 48 /\ Rhs(r, 1) = 48 /\ Rhs(r, 2) \in 25..26 /\ Rhs(r, 3) = 13
    BY <1>4, Lengths, LeftSides, RightSides DEF n, lhs
  <2>2. Ids(Rhs(r, 2), d[2]) = {} /\ Ids(13, d[3]) = {}
    <3>1. Rhs(r, 2) \notin OfString \cup 48..54 /\ 13 \notin OfString \cup 48..54
      BY <2>1 DEF OfString
    <3> QED BY <3>1, Ownerless
  <2>3. Sound(48, d[1]) /\ all = Ids(48, d[1])
    BY <1>8, <1>9, <2>1, <2>2
  <2>4. Sound(48, v) /\ Ids(48, v) = all
    BY <1>4, <2>3, CaptureValue DEF v
  <2> QED BY <1>4, <2>1, <2>4
<1>5. CASE r = 51
  <2>1. n = 0 /\ lhs = 57
    BY <1>5, Lengths, LeftSides DEF n, lhs
  <2>2. all = {}
    BY <2>1 DEF all
  <2>3. Sound(57, v) /\ Ids(57, v) = {}
    <3>1. 57 \notin OfString \cup 48..54
      BY DEF OfString
    <3> QED BY <3>1, Ownerless
  <2> QED BY <1>5, <2>1, <2>2, <2>3
<1>6. CASE r = 54
  <2>1. n = 1 /\ lhs = 59 /\ Rhs(r, 1) = 3
    BY <1>6, Lengths, LeftSides, RightSides DEF n, lhs
  <2>2. 3 \in OfString /\ 59 \notin OfString \cup 48..54
    BY DEF OfString
  <2>3. Sound(3, d[1]) /\ all = Ids(3, d[1])
    BY <1>0, <1>9, <2>1
  <2>4. all = {d[1].id}
    BY <2>2, <2>3, OfStrings
  <2>5. Sound(59, v) /\ Ids(59, v) = {}
    BY <2>2, Ownerless
  <2> QED BY <1>6, <2>1, <2>4, <2>5
<1>7. \/ r \in {21, 25, 27, 28} \cup 30..33 \cup {35, 52, 53} \cup 55..60
      \/ r \in JoiningRules \/ r \in 22..23 \/ r = 24 \/ r = 51 \/ r = 54
  BY DEF JoiningRules
<1> QED BY <1>1, <1>2, <1>3, <1>4, <1>5, <1>6, <1>7

\* The states in which an expression can begin, a simple one or any.
BeforeExpr == {23, 24, 25, 29, 32, 46, 86} \cup 71..82
BeforeAtom == BeforeExpr \cup {10, 39, 66}
\* The states behind an expression, by the operators that can follow.
AfterAny == {48, 49, 50, 54, 59, 110}
AfterArithmetic == AfterAny \cup 105..109
AfterLogic == AfterArithmetic \cup {70, 103, 104}

\* A state that only one other leads to.
Before(q) ==
    CASE q = 13 -> 1
      [] q = 14 -> 3
      [] q = 15 -> 4
      [] q = 16 -> 5
      [] q = 17 -> 6
      [] q \in 23..31 \cup {35, 36} -> 10
      [] q = 44 -> 11
      [] q = 45 -> 15
      [] q \in 48..50 -> q - 25
      [] q \in 51..53 -> q - 25
      [] q = 54 -> 29
      [] q = 55 -> 30
      [] q = 58 -> 31
      [] q = 59 -> 32
      [] q \in 60..61 -> q - 27
      [] q \in 62..65 -> 35
      [] q = 66 -> 37
      [] q = 67 -> 39
      [] q \in 68..70 -> q - 24
      [] q \in 83..85 -> q - 35
      [] q \in 86..87 -> q - 34
      [] q \in 88..89 -> q - 34
      [] q \in 90..91 -> q - 32
      [] q \in 92..93 -> q - 30
      [] q \in 94..95 -> 64
      [] q = 96 -> 66
      [] q = 97 -> 69
      [] q \in 98..109 -> q - 27
      [] q = 110 -> 86
      [] q = 111 -> 88
      [] q \in 112..113 -> q - 2
      [] OTHER -> 114

Leads(s, q) ==
    \/ s = 0 /\ q \in {1, 10, 11} \cup 3..8
    \/ s \in {0, 4, 30, 45, 88} /\ q \in {2, 12}
    \/ s \in BeforeAtom /\ q \in 19..22 \cup 32..34 \cup 41..43
    \/ s \in BeforeExpr /\ q \in 46..47
    \/ s \in {10, 66} /\ q \in 37..38
    \/ s \in {10, 39, 66} /\ q \in 39..40
    \/ s \in {31, 63, 64} /\ q \in 56..57
    \/ s \in AfterLogic /\ q \in 71..75
    \/ s \in AfterArithmetic /\ q \in 76..77
    \/ s \in AfterAny /\ q \in 78..82
    \/ q \in States /\ s = Before(q)

LEMMA ShiftSources ==
    ASSUME NEW s \in States \ {9, YYFINAL}, NeedsToken(s)
    PROVE  LET o == At(yypact, s)
           IN  \/ o = 61 /\ s \in {0}
               \/ o = -30 /\ s \in {1}
               \/ o = -28 /\ s \in {3}
               \/ o = 21 /\ s \in {4, 30, 45, 88}
               \/ o = -18 /\ s \in {5}
               \/ o = -16 /\ s \in {6}
               \/ o = 92 /\ s \in {10}
               \/ o = 18 /\ s \in {11}
               \/ o = -10 /\ s \in {15}
               \/ o = 85 /\ s \in 23..25 \cup 71..82 \cup {29, 32, 46, 86}
               \/ o = -12 /\ s \in {26}
               \/ o = 31 /\ s \in {27}
               \/ o = 32 /\ s \in {28}
               \/ o = 4 /\ s \in {31, 63}
               \/ o = 33 /\ s \in {33}
               \/ o = 34 /\ s \in {34}
               \/ o = -9 /\ s \in {35}
               \/ o = 8 /\ s \in {37}
               \/ o = 116 /\ s \in {39, 66}
               \/ o = -3 /\ s \in {44}
               \/ o = 117 /\ s \in {48}
               \/ o = 136 /\ s \in {49}
               \/ o = 155 /\ s \in {50}
               \/ o = 16 /\ s \in {52}
               \/ o = -1 /\ s \in {53}
               \/ o = 174 /\ s \in {54}
               \/ o = 0 /\ s \in {55}
               \/ o = 2 /\ s \in {58}
               \/ o = 208 /\ s \in {59}
               \/ o = 3 /\ s \in {62}
               \/ o = 1 /\ s \in {64}
               \/ o = 29 /\ s \in {69}
               \/ o = -7 /\ s \in {70, 103, 104}
               \/ o = 110 /\ s \in 105..109
               \/ o = 189 /\ s \in {110}
               \/ o = 30 /\ s \in {111}
<1>1. s \in 0..113
  BY TableSizes
<1> QED BY <1>1 DEF At, yypact, NeedsToken, YYPACT_NINF, YYFINAL

\* Where an entry of yytable that is reached from an offset of yypact leads.
Targets(o, to, t) ==
    /\ o \notin {-22, 22, -6, -23, -4, -52} => At(yystos, to) = t
    /\ o = 61 => to \in 1..8
    /\ o = -30 => to \in {13}
    /\ o = -28 => to \in {14}
    /\ o = 21 => to \in {2}
    /\ o = -18 => to \in {16}
    /\ o = -16 => to \in {17}
    /\ o = 92 => to \in 19..34
    /\ o = 18 => to \in {44}
    /\ o = -10 => to \in {45}
    /\ o = 85 => to \in 19..22 \cup 32..34 \cup {46}
    /\ o = -12 => to \in {51}
    /\ o = 31 => to \in {52}
    /\ o = 32 => to \in {53}
    /\ o = 4 => to \in {56, 57}
    /\ o = 33 => to \in {60}
    /\ o = 34 => to \in {61}
    /\ o = -9 => to \in 62..65
    /\ o = 8 => to \in {66}
    /\ o = 116 => to \in 19..22 \cup 32..34
    /\ o = -3 => to \in {68}
    /\ o = 117 => to \in 71..83
    /\ o = 136 => to \in 71..82 \cup {84}
    /\ o = 155 => to \in 71..82 \cup {85}
    /\ o = 16 => to \in {86}
    /\ o = -1 => to \in {87}
    /\ o = 174 => to \in 71..82 \cup {88}
    /\ o = 0 => to \in {89}
    /\ o = 2 => to \in {90}
    /\ o = 208 => to \in 71..82 \cup {91}
    /\ o = 3 => to \in {92}
    /\ o = 1 => to \in {56, 57, 94}
    /\ o = 29 => to \in {97}
    /\ o = -7 => to \in 71..75
    /\ o = 110 => to \in 71..77
    /\ o = 189 => to \in 71..82 \cup {112}
    /\ o = 30 => to \in {113}

LEMMA ShiftTargets ==
    ASSUME NEW n \in 0..247, NEW o, NEW to, NEW t,
           t = At(yycheck, n), o = n - t, to = At(yytable, n), to > 0
    PROVE  Targets(o, to, t)
<1>0. o \notin {-22, 22, -6, -23, -4, -52} => At(yystos, to) = t
  BY DEF At, yytable, yycheck, yystos
<1>1. o = 61 => to \in 1..8
  BY DEF At, yytable, yycheck
<1>2. o = -30 => to \in {13}
  BY DEF At, yytable, yycheck
<1>3. o = -28 => to \in {14}
  BY DEF At, yytable, yycheck
<1>4. o = 21 => to \in {2}
  BY DEF At, yytable, yycheck
<1>5. o = -18 => to \in {16}
  BY DEF At, yytable, yycheck
<1>6. o = -16 => to \in {17}
  BY DEF At, yytable, yycheck
<1>7. o = 92 => to \in 19..34
  BY DEF At, yytable, yycheck
<1>8. o = 18 => to \in {44}
  BY DEF At, yytable, yycheck
<1>9. o = -10 => to \in {45}
  BY DEF At, yytable, yycheck
<1>10. o = 85 => to \in 19..22 \cup 32..34 \cup {46}
  BY DEF At, yytable, yycheck
<1>11. o = -12 => to \in {51}
  BY DEF At, yytable, yycheck
<1>12. o = 31 => to \in {52}
  BY DEF At, yytable, yycheck
<1>13. o = 32 => to \in {53}
  BY DEF At, yytable, yycheck
<1>14. o = 4 => to \in {56, 57}
  BY DEF At, yytable, yycheck
<1>15. o = 33 => to \in {60}
  BY DEF At, yytable, yycheck
<1>16. o = 34 => to \in {61}
  BY DEF At, yytable, yycheck
<1>17. o = -9 => to \in 62..65
  BY DEF At, yytable, yycheck
<1>18. o = 8 => to \in {66}
  BY DEF At, yytable, yycheck
<1>19. o = 116 => to \in 19..22 \cup 32..34
  BY DEF At, yytable, yycheck
<1>20. o = -3 => to \in {68}
  BY DEF At, yytable, yycheck
<1>21. o = 117 => to \in 71..83
  BY DEF At, yytable, yycheck
<1>22. o = 136 => to \in 71..82 \cup {84}
  BY DEF At, yytable, yycheck
<1>23. o = 155 => to \in 71..82 \cup {85}
  BY DEF At, yytable, yycheck
<1>24. o = 16 => to \in {86}
  BY DEF At, yytable, yycheck
<1>25. o = -1 => to \in {87}
  BY DEF At, yytable, yycheck
<1>26. o = 174 => to \in 71..82 \cup {88}
  BY DEF At, yytable, yycheck
<1>27. o = 0 => to \in {89}
  BY DEF At, yytable, yycheck
<1>28. o = 2 => to \in {90}
  BY DEF At, yytable, yycheck
<1>29. o = 208 => to \in 71..82 \cup {91}
  BY DEF At, yytable, yycheck
<1>30. o = 3 => to \in {92}
  BY DEF At, yytable, yycheck
<1>31. o = 1 => to \in {56, 57, 94}
  BY DEF At, yytable, yycheck
<1>32. o = 29 => to \in {97}
  BY DEF At, yytable, yycheck
<1>33. o = -7 => to \in 71..75
  BY DEF At, yytable, yycheck
<1>34. o = 110 => to \in 71..77
  BY DEF At, yytable, yycheck
<1>35. o = 189 => to \in 71..82 \cup {112}
  BY DEF At, yytable, yycheck
<1>36. o = 30 => to \in {113}
  BY DEF At, yytable, yycheck
<1> QED BY <1>0, <1>1, <1>2, <1>3, <1>4, <1>5, <1>6, <1>7, <1>8, <1>9, <1>10, <1>11, <1>12, <1>13, <1>14, <1>15, <1>16, <1>17, <1>18, <1>19, <1>20, <1>21, <1>22, <1>23, <1>24, <1>25, <1>26, <1>27, <1>28, <1>29, <1>30, <1>31, <1>32, <1>33, <1>34, <1>35, <1>36 DEF Targets

LEMMA ShiftLeads ==
    ASSUME NEW s \in States \ {9, YYFINAL}, NEW t \in Tokens, Decision(s, t).do = "shift"
    PROVE  LET to == Decision(s, t).to
           IN  /\ to \in States \ {0} /\ Leads(s, to)
               /\ At(yystos, to) = t
<1> DEFINE o == At(yypact, s)
           n == o + t
           to == At(yytable, n)
<1>0. NeedsToken(s) /\ Listed(n, t) /\ to > 0 /\ Decision(s, t).to = to
  BY DEF Decision, Shift, Reduction
<1>37. n \in 0..247 /\ At(yycheck, n) = t /\ t \in 0..45
  BY <1>0, TableSizes DEF Listed, YYLAST
<1>38. to \in States \ {0}
  BY <1>0, <1>37, EntryFacts DEF YYLAST
<1>39. n - At(yycheck, n) = o
  <2>1. s \in 0..113
    BY TableSizes
  <2>2. o \in Int
    BY <2>1 DEF At, yypact
  <2> HIDE DEF o
  <2> QED BY <1>37, <2>2
<1>40. s \in States
  OBVIOUS
<1> HIDE DEF n
<1>41. Targets(o, to, t)
  <2>1. n - At(yycheck, n) = o /\ At(yytable, n) = to /\ At(yycheck, n) = t /\ n \in 0..247
        /\ At(yytable, n) > 0
    BY <1>0, <1>37, <1>39
  <2> HIDE DEF o, to
  <2> QED BY <2>1, ShiftTargets
<1>42. \/ o = 61 /\ s \in {0}
       \/ o = -30 /\ s \in {1}
       \/ o = -28 /\ s \in {3}
       \/ o = 21 /\ s \in {4, 30, 45, 88}
       \/ o = -18 /\ s \in {5}
       \/ o = -16 /\ s \in {6}
       \/ o = 92 /\ s \in {10}
       \/ o = 18 /\ s \in {11}
       \/ o = -10 /\ s \in {15}
       \/ o = 85 /\ s \in 23..25 \cup 71..82 \cup {29, 32, 46, 86}
       \/ o = -12 /\ s \in {26}
       \/ o = 31 /\ s \in {27}
       \/ o = 32 /\ s \in {28}
       \/ o = 4 /\ s \in {31, 63}
       \/ o = 33 /\ s \in {33}
       \/ o = 34 /\ s \in {34}
       \/ o = -9 /\ s \in {35}
       \/ o = 8 /\ s \in {37}
       \/ o = 116 /\ s \in {39, 66}
       \/ o = -3 /\ s \in {44}
       \/ o = 117 /\ s \in {48}
       \/ o = 136 /\ s \in {49}
       \/ o = 155 /\ s \in {50}
       \/ o = 16 /\ s \in {52}
       \/ o = -1 /\ s \in {53}
       \/ o = 174 /\ s \in {54}
       \/ o = 0 /\ s \in {55}
       \/ o = 2 /\ s \in {58}
       \/ o = 208 /\ s \in {59}
       \/ o = 3 /\ s \in {62}
       \/ o = 1 /\ s \in {64}
       \/ o = 29 /\ s \in {69}
       \/ o = -7 /\ s \in {70, 103, 104}
       \/ o = 110 /\ s \in 105..109
       \/ o = 189 /\ s \in {110}
       \/ o = 30 /\ s \in {111}
  BY <1>0, ShiftSources
<1> HIDE DEF to, o
<1>1. o = 61 /\ s \in {0} => Leads(s, to) /\ At(yystos, to) = t
  <2> HAVE o = 61 /\ s \in {0}
  <2>1. to \in 1..8 /\ At(yystos, to) = t
    BY <1>41 DEF Targets
  <2> QED BY <1>38, <2>1 DEF Leads, Before, BeforeExpr, BeforeAtom, AfterAny, AfterArithmetic, AfterLogic
<1>2. o = -30 /\ s \in {1} => Leads(s, to) /\ At(yystos, to) = t
  <2> HAVE o = -30 /\ s \in {1}
  <2>1. to \in {13} /\ At(yystos, to) = t
    BY <1>41 DEF Targets
  <2> QED BY <1>38, <2>1 DEF Leads, Before, BeforeExpr, BeforeAtom, AfterAny, AfterArithmetic, AfterLogic
<1>3. o = -28 /\ s \in {3} => Leads(s, to) /\ At(yystos, to) = t
  <2> HAVE o = -28 /\ s \in {3}
  <2>1. to \in {14} /\ At(yystos, to) = t
    BY <1>41 DEF Targets
  <2> QED BY <1>38, <2>1 DEF Leads, Before, BeforeExpr, BeforeAtom, AfterAny, AfterArithmetic, AfterLogic
<1>4. o = 21 /\ s \in {4, 30, 45, 88} => Leads(s, to) /\ At(yystos, to) = t
  <2> HAVE o = 21 /\ s \in {4, 30, 45, 88}
  <2>1. to \in {2} /\ At(yystos, to) = t
    BY <1>41 DEF Targets
  <2> QED BY <1>38, <2>1 DEF Leads, Before, BeforeExpr, BeforeAtom, AfterAny, AfterArithmetic, AfterLogic
<1>5. o = -18 /\ s \in {5} => Leads(s, to) /\ At(yystos, to) = t
  <2> HAVE o = -18 /\ s \in {5}
  <2>1. to \in {16} /\ At(yystos, to) = t
    BY <1>41 DEF Targets
  <2> QED BY <1>38, <2>1 DEF Leads, Before, BeforeExpr, BeforeAtom, AfterAny, AfterArithmetic, AfterLogic
<1>6. o = -16 /\ s \in {6} => Leads(s, to) /\ At(yystos, to) = t
  <2> HAVE o = -16 /\ s \in {6}
  <2>1. to \in {17} /\ At(yystos, to) = t
    BY <1>41 DEF Targets
  <2> QED BY <1>38, <2>1 DEF Leads, Before, BeforeExpr, BeforeAtom, AfterAny, AfterArithmetic, AfterLogic
<1>7. o = 92 /\ s \in {10} => Leads(s, to) /\ At(yystos, to) = t
  <2> HAVE o = 92 /\ s \in {10}
  <2>1. to \in 19..34 /\ At(yystos, to) = t
    BY <1>41 DEF Targets
  <2> QED BY <1>38, <2>1 DEF Leads, Before, BeforeExpr, BeforeAtom, AfterAny, AfterArithmetic, AfterLogic
<1>8. o = 18 /\ s \in {11} => Leads(s, to) /\ At(yystos, to) = t
  <2> HAVE o = 18 /\ s \in {11}
  <2>1. to \in {44} /\ At(yystos, to) = t
    BY <1>41 DEF Targets
  <2> QED BY <1>38, <2>1 DEF Leads, Before, BeforeExpr, BeforeAtom, AfterAny, AfterArithmetic, AfterLogic
<1>9. o = -10 /\ s \in {15} => Leads(s, to) /\ At(yystos, to) = t
  <2> HAVE o = -10 /\ s \in {15}
  <2>1. to \in {45} /\ At(yystos, to) = t
    BY <1>41 DEF Targets
  <2> QED BY <1>38, <2>1 DEF Leads, Before, BeforeExpr, BeforeAtom, AfterAny, AfterArithmetic, AfterLogic
<1>10. o = 85 /\ s \in 23..25 \cup 71..82 \cup {29, 32, 46, 86} => Leads(s, to) /\ At(yystos, to) = t
  <2> HAVE o = 85 /\ s \in 23..25 \cup 71..82 \cup {29, 32, 46, 86}
  <2>1. to \in 19..22 \cup 32..34 \cup {46} /\ At(yystos, to) = t
    BY <1>41 DEF Targets
  <2> QED BY <1>38, <2>1 DEF Leads, Before, BeforeExpr, BeforeAtom, AfterAny, AfterArithmetic, AfterLogic
<1>11. o = -12 /\ s \in {26} => Leads(s, to) /\ At(yystos, to) = t
  <2> HAVE o = -12 /\ s \in {26}
  <2>1. to \in {51} /\ At(yystos, to) = t
    BY <1>41 DEF Targets
  <2> QED BY <1>38, <2>1 DEF Leads, Before, BeforeExpr, BeforeAtom, AfterAny, AfterArithmetic, AfterLogic
<1>12. o = 31 /\ s \in {27} => Leads(s, to) /\ At(yystos, to) = t
  <2> HAVE o = 31 /\ s \in {27}
  <2>1. to \in {52} /\ At(yystos, to) = t
    BY <1>41 DEF Targets
  <2> QED BY <1>38, <2>1 DEF Leads, Before, BeforeExpr, BeforeAtom, AfterAny, AfterArithmetic, AfterLogic
<1>13. o = 32 /\ s \in {28} => Leads(s, to) /\ At(yystos, to) = t
  <2> HAVE o = 32 /\ s \in {28}
  <2>1. to \in {53} /\ At(yystos, to) = t
    BY <1>41 DEF Targets
  <2> QED BY <1>38, <2>1 DEF Leads, Before, BeforeExpr, BeforeAtom, AfterAny, AfterArithmetic, AfterLogic
<1>14. o = 4 /\ s \in {31, 63} => Leads(s, to) /\ At(yystos, to) = t
  <2> HAVE o = 4 /\ s \in {31, 63}
  <2>1. to \in {56, 57} /\ At(yystos, to) = t
    BY <1>41 DEF Targets
  <2> QED BY <1>38, <2>1 DEF Leads, Before, BeforeExpr, BeforeAtom, AfterAny, AfterArithmetic, AfterLogic
<1>15. o = 33 /\ s \in {33} => Leads(s, to) /\ At(yystos, to) = t
  <2> HAVE o = 33 /\ s \in {33}
  <2>1. to \in {60} /\ At(yystos, to) = t
    BY <1>41 DEF Targets
  <2> QED BY <1>38, <2>1 DEF Leads, Before, BeforeExpr, BeforeAtom, AfterAny, AfterArithmetic, AfterLogic
<1>16. o = 34 /\ s \in {34} => Leads(s, to) /\ At(yystos, to) = t
  <2> HAVE o = 34 /\ s \in {34}
  <2>1. to \in {61} /\ At(yystos, to) = t
    BY <1>41 DEF Targets
  <2> QED BY <1>38, <2>1 DEF Leads, Before, BeforeExpr, BeforeAtom, AfterAny, AfterArithmetic, AfterLogic
<1>17. o = -9 /\ s \in {35} => Leads(s, to) /\ At(yystos, to) = t
  <2> HAVE o = -9 /\ s \in {35}
  <2>1. to \in 62..65 /\ At(yystos, to) = t
    BY <1>41 DEF Targets
  <2> QED BY <1>38, <2>1 DEF Leads, Before, BeforeExpr, BeforeAtom, AfterAny, AfterArithmetic, AfterLogic
<1>18. o = 8 /\ s \in {37} => Leads(s, to) /\ At(yystos, to) = t
  <2> HAVE o = 8 /\ s \in {37}
  <2>1. to \in {66} /\ At(yystos, to) = t
    BY <1>41 DEF Targets
  <2> QED BY <1>38, <2>1 DEF Leads, Before, BeforeExpr, BeforeAtom, AfterAny, AfterArithmetic, AfterLogic
<1>19. o = 116 /\ s \in {39, 66} => Leads(s, to) /\ At(yystos, to) = t
  <2> HAVE o = 116 /\ s \in {39, 66}
  <2>1. to \in 19..22 \cup 32..34 /\ At(yystos, to) = t
    BY <1>41 DEF Targets
  <2> QED BY <1>38, <2>1 DEF Leads, Before, BeforeExpr, BeforeAtom, AfterAny, AfterArithmetic, AfterLogic
<1>20. o = -3 /\ s \in {44} => Leads(s, to) /\ At(yystos, to) = t
  <2> HAVE o = -3 /\ s \in {44}
  <2>1. to \in {68} /\ At(yystos, to) = t
    BY <1>41 DEF Targets
  <2> QED BY <1>38, <2>1 DEF Leads, Before, BeforeExpr, BeforeAtom, AfterAny, AfterArithmetic, AfterLogic
<1>21. o = 117 /\ s \in {48} => Leads(s, to) /\ At(yystos, to) = t
  <2> HAVE o = 117 /\ s \in {48}
  <2>1. to \in 71..83 /\ At(yystos, to) = t
    BY <1>41 DEF Targets
  <2> QED BY <1>38, <2>1 DEF Leads, Before, BeforeExpr, BeforeAtom, AfterAny, AfterArithmetic, AfterLogic
<1>22. o = 136 /\ s \in {49} => Leads(s, to) /\ At(yystos, to) = t
  <2> HAVE o = 136 /\ s \in {49}
  <2>1. to \in 71..82 \cup {84} /\ At(yystos, to) = t
    BY <1>41 DEF Targets
  <2> QED BY <1>38, <2>1 DEF Leads, Before, BeforeExpr, BeforeAtom, AfterAny, AfterArithmetic, AfterLogic
<1>23. o = 155 /\ s \in {50} => Leads(s, to) /\ At(yystos, to) = t
  <2> HAVE o = 155 /\ s \in {50}
  <2>1. to \in 71..82 \cup {85} /\ At(yystos, to) = t
    BY <1>41 DEF Targets
  <2> QED BY <1>38, <2>1 DEF Leads, Before, BeforeExpr, BeforeAtom, AfterAny, AfterArithmetic, AfterLogic
<1>24. o = 16 /\ s \in {52} => Leads(s, to) /\ At(yystos, to) = t
  <2> HAVE o = 16 /\ s \in {52}
  <2>1. to \in {86} /\ At(yystos, to) = t
    BY <1>41 DEF Targets
  <2> QED BY <1>38, <2>1 DEF Leads, Before, BeforeExpr, BeforeAtom, AfterAny, AfterArithmetic, AfterLogic
<1>25. o = -1 /\ s \in {53} => Leads(s, to) /\ At(yystos, to) = t
  <2> HAVE o = -1 /\ s \in {53}
  <2>1. to \in {87} /\ At(yystos, to) = t
    BY <1>41 DEF Targets
  <2> QED BY <1>38, <2>1 DEF Leads, Before, BeforeExpr, BeforeAtom, AfterAny, AfterArithmetic, AfterLogic
<1>26. o = 174 /\ s \in {54} => Leads(s, to) /\ At(yystos, to) = t
  <2> HAVE o = 174 /\ s \in {54}
  <2>1. to \in 71..82 \cup {88} /\ At(yystos, to) = t
    BY <1>41 DEF Targets
  <2> QED BY <1>38, <2>1 DEF Leads, Before, BeforeExpr, BeforeAtom, AfterAny, AfterArithmetic, AfterLogic
<1>27. o = 0 /\ s \in {55} => Leads(s, to) /\ At(yystos, to) = t
  <2> HAVE o = 0 /\ s \in {55}
  <2>1. to \in {89} /\ At(yystos, to) = t
    BY <1>41 DEF Targets
  <2> QED BY <1>38, <2>1 DEF Leads, Before, BeforeExpr, BeforeAtom, AfterAny, AfterArithmetic, AfterLogic
<1>28. o = 2 /\ s \in {58} => Leads(s, to) /\ At(yystos, to) = t
  <2> HAVE o = 2 /\ s \in {58}
  <2>1. to \in {90} /\ At(yystos, to) = t
    BY <1>41 DEF Targets
  <2> QED BY <1>38, <2>1 DEF Leads, Before, BeforeExpr, BeforeAtom, AfterAny, AfterArithmetic, AfterLogic
<1>29. o = 208 /\ s \in {59} => Leads(s, to) /\ At(yystos, to) = t
  <2> HAVE o = 208 /\ s \in {59}
  <2>1. to \in 71..82 \cup {91} /\ At(yystos, to) = t
    BY <1>41 DEF Targets
  <2> QED BY <1>38, <2>1 DEF Leads, Before, BeforeExpr, BeforeAtom, AfterAny, AfterArithmetic, AfterLogic
<1>30. o = 3 /\ s \in {62} => Leads(s, to) /\ At(yystos, to) = t
  <2> HAVE o = 3 /\ s \in {62}
  <2>1. to \in {92} /\ At(yystos, to) = t
    BY <1>41 DEF Targets
  <2> QED BY <1>38, <2>1 DEF Leads, Before, BeforeExpr, BeforeAtom, AfterAny, AfterArithmetic, AfterLogic
<1>31. o = 1 /\ s \in {64} => Leads(s, to) /\ At(yystos, to) = t
  <2> HAVE o = 1 /\ s \in {64}
  <2>1. to \in {56, 57, 94} /\ At(yystos, to) = t
    BY <1>41 DEF Targets
  <2> QED BY <1>38, <2>1 DEF Leads, Before, BeforeExpr, BeforeAtom, AfterAny, AfterArithmetic, AfterLogic
<1>32. o = 29 /\ s \in {69} => Leads(s, to) /\ At(yystos, to) = t
  <2> HAVE o = 29 /\ s \in {69}
  <2>1. to \in {97} /\ At(yystos, to) = t
    BY <1>41 DEF Targets
  <2> QED BY <1>38, <2>1 DEF Leads, Before, BeforeExpr, BeforeAtom, AfterAny, AfterArithmetic, AfterLogic
<1>33. o = -7 /\ s \in {70, 103, 104} => Leads(s, to) /\ At(yystos, to) = t
  <2> HAVE o = -7 /\ s \in {70, 103, 104}
  <2>1. to \in 71..75 /\ At(yystos, to) = t
    BY <1>41 DEF Targets
  <2> QED BY <1>38, <2>1 DEF Leads, Before, BeforeExpr, BeforeAtom, AfterAny, AfterArithmetic, AfterLogic
<1>34. o = 110 /\ s \in 105..109 => Leads(s, to) /\ At(yystos, to) = t
  <2> HAVE o = 110 /\ s \in 105..109
  <2>1. to \in 71..77 /\ At(yystos, to) = t
    BY <1>41 DEF Targets
  <2> QED BY <1>38, <2>1 DEF Leads, Before, BeforeExpr, BeforeAtom, AfterAny, AfterArithmetic, AfterLogic
<1>35. o = 189 /\ s \in {110} => Leads(s, to) /\ At(yystos, to) = t
  <2> HAVE o = 189 /\ s \in {110}
  <2>1. to \in 71..82 \cup {112} /\ At(yystos, to) = t
    BY <1>41 DEF Targets
  <2> QED BY <1>38, <2>1 DEF Leads, Before, BeforeExpr, BeforeAtom, AfterAny, AfterArithmetic, AfterLogic
<1>36. o = 30 /\ s \in {111} => Leads(s, to) /\ At(yystos, to) = t
  <2> HAVE o = 30 /\ s \in {111}
  <2>1. to \in {113} /\ At(yystos, to) = t
    BY <1>41 DEF Targets
  <2> QED BY <1>38, <2>1 DEF Leads, Before, BeforeExpr, BeforeAtom, AfterAny, AfterArithmetic, AfterLogic
<1>43. Leads(s, to) /\ At(yystos, to) = t
  BY <1>42, <1>1, <1>2, <1>3, <1>4, <1>5, <1>6, <1>7, <1>8, <1>9, <1>10, <1>11, <1>12, <1>13, <1>14, <1>15, <1>16, <1>17, <1>18, <1>19, <1>20, <1>21, <1>22, <1>23, <1>24, <1>25, <1>26, <1>27, <1>28, <1>29, <1>30, <1>31, <1>32, <1>33, <1>34, <1>35, <1>36, Zenon
<1> QED BY <1>0, <1>38, <1>43 DEF to

-----------------------------------------------------------------------------
(* Reductions.                                                             *)

\* The states on which the symbol of the left side of rule r can be pushed.
Bases(r) ==
    CASE r \in 21..24 -> {10}
      [] r \in 25..27 -> {10, 66}
      [] r \in 28..30 -> {10, 39, 66}
      [] r \in 31..34 \cup 49..50 \cup 55..58 -> BeforeAtom
      [] r \in 35..48 -> BeforeExpr
      [] r \in 51..52 -> {0}
      [] r \in 53..54 -> {0, 4, 30, 45, 88}
      [] r \in 59..60 -> {31, 63, 64}

\* The state in which rule r is reduced: there is one.
ReducedIn ==
  <<36, 93, 95, 94, 37, 96, 38, 39, 67, 40, 43, 41, 42, 91, 47, 100, 98, 99, 101, 102, 103, 104,
    70, 105, 106, 107, 108, 109, 60, 61, 114, 11, 12, 2, 19, 20, 21, 22, 56, 57>>

LEMMA OneState ==
    ASSUME NEW s \in States, At(yydefact, s) \in 21..60
    PROVE  s = ReducedIn[At(yydefact, s) - 20] /\ At(yydefact, s) # 51
<1>1. s \in 0..113
  BY TableSizes
<1> QED BY <1>1 DEF At, yydefact, ReducedIn

LEMMA UnitStates ==
    ASSUME NEW r \in {21, 25, 27, 28} \cup 30..33 \cup {35} \cup 52..60
    PROVE  LET s == ReducedIn[r - 20]
           IN  /\ At(yystos, s) = Rhs(r, 1)
               /\ r = 21 => s = 36
               /\ r \in {25, 27} => s \in 37..38
               /\ r \in {28, 30} => s \in 39..40
               /\ r \in 31..33 \cup 55..58 => s \in 19..22 \cup 41..43
               /\ r = 35 => s = 47
               /\ r = 52 => s = 11
               /\ r \in 53..54 => s \in {2, 12}
               /\ r \in 59..60 => s \in 56..57
BY DEF ReducedIn, Rhs, FirstOf, SecondOf, ThirdOf, At, yystos

LEMMA LeadsBack ==
    ASSUME NEW a \in States, NEW q, Leads(a, q)
    PROVE  /\ q \in {11, 5, 10} => a = 0
           /\ q \in {35, 36} => a = 10
           /\ q \in 37..38 => a \in {10, 66}
           /\ q \in 39..40 => a \in {10, 39, 66}
           /\ q \in 19..22 \cup 32..34 \cup 41..43 => a \in BeforeAtom
           /\ q \in 46..47 => a \in BeforeExpr
           /\ q \in {2, 12} => a \in {0, 4, 30, 45, 88}
           /\ q \in 56..57 => a \in {31, 63, 64}
           /\ q \in 63..64 => a = 35
           /\ q = 66 => a = 37
           /\ q = 59 => a = 32
           /\ q \in 60..61 => a = q - 27
           /\ q = 67 => a = 39
           /\ q = 70 => a = 46
           /\ q = 91 => a = 59
           /\ q = 93 => a = 63
           /\ q \in 94..95 => a = 64
           /\ q = 96 => a = 66
           /\ q \in 98..109 => a = q - 27
           /\ q \in 71..75 => a \in AfterLogic
           /\ q \in 76..77 => a \in AfterArithmetic
           /\ q \in 78..82 => a \in AfterAny
           /\ q \in AfterLogic => a \in BeforeExpr
<1> a \in 0..113
  BY TableSizes
<1>1. q \in {11, 5, 10} => a = 0
  BY DEF Leads, Before, BeforeExpr, BeforeAtom, AfterAny, AfterArithmetic, AfterLogic
<1>2. q \in {35, 36} => a = 10
  BY DEF Leads, Before, BeforeExpr, BeforeAtom, AfterAny, AfterArithmetic, AfterLogic
<1>3. q \in 37..38 => a \in {10, 66}
  BY DEF Leads, Before, BeforeExpr, BeforeAtom, AfterAny, AfterArithmetic, AfterLogic
<1>4. q \in 39..40 => a \in {10, 39, 66}
  BY DEF Leads, Before, BeforeExpr, BeforeAtom, AfterAny, AfterArithmetic, AfterLogic
<1>5. q \in 19..22 \cup 32..34 \cup 41..43 => a \in BeforeAtom
  BY DEF Leads, Before, BeforeExpr, BeforeAtom, AfterAny, AfterArithmetic, AfterLogic
<1>6. q \in 46..47 => a \in BeforeExpr
  BY DEF Leads, Before, BeforeExpr, BeforeAtom, AfterAny, AfterArithmetic, AfterLogic
<1>7. q \in {2, 12} => a \in {0, 4, 30, 45, 88}
  BY DEF Leads, Before, BeforeExpr, BeforeAtom, AfterAny, AfterArithmetic, AfterLogic
<1>8. q \in 56..57 => a \in {31, 63, 64}
  BY DEF Leads, Before, BeforeExpr, BeforeAtom, AfterAny, AfterArithmetic, AfterLogic
<1>9. q \in 63..64 => a = 35
  BY DEF Leads, Before, BeforeExpr, BeforeAtom, AfterAny, AfterArithmetic, AfterLogic
<1>10. q = 66 => a = 37
  BY DEF Leads, Before, BeforeExpr, BeforeAtom, AfterAny, AfterArithmetic, AfterLogic
<1>11. q = 59 => a = 32
  BY DEF Leads, Before, BeforeExpr, BeforeAtom, AfterAny, AfterArithmetic, AfterLogic
<1>12. q \in 60..61 => a = q - 27
  BY DEF Leads, Before, BeforeExpr, BeforeAtom, AfterAny, AfterArithmetic, AfterLogic
<1>13. q = 67 => a = 39
  BY DEF Leads, Before, BeforeExpr, BeforeAtom, AfterAny, AfterArithmetic, AfterLogic
<1>14. q = 70 => a = 46
  BY DEF Leads, Before, BeforeExpr, BeforeAtom, AfterAny, AfterArithmetic, AfterLogic
<1>15. q = 91 => a = 59
  BY DEF Leads, Before, BeforeExpr, BeforeAtom, AfterAny, AfterArithmetic, AfterLogic
<1>16. q = 93 => a = 63
  BY DEF Leads, Before, BeforeExpr, BeforeAtom, AfterAny, AfterArithmetic, AfterLogic
<1>17. q \in 94..95 => a = 64
  BY DEF Leads, Before, BeforeExpr, BeforeAtom, AfterAny, AfterArithmetic, AfterLogic
<1>18. q = 96 => a = 66
  BY DEF Leads, Before, BeforeExpr, BeforeAtom, AfterAny, AfterArithmetic, AfterLogic
<1>19. q \in 98..109 => a = q - 27
  BY DEF Leads, Before, BeforeExpr, BeforeAtom, AfterAny, AfterArithmetic, AfterLogic
<1>20. q \in 71..75 => a \in AfterLogic
  BY DEF Leads, Before, BeforeExpr, BeforeAtom, AfterAny, AfterArithmetic, AfterLogic
<1>21. q \in 76..77 => a \in AfterArithmetic
  BY DEF Leads, Before, BeforeExpr, BeforeAtom, AfterAny, AfterArithmetic, AfterLogic
<1>22. q \in 78..82 => a \in AfterAny
  BY DEF Leads, Before, BeforeExpr, BeforeAtom, AfterAny, AfterArithmetic, AfterLogic
<1>23. q \in AfterLogic => a \in BeforeExpr
  BY DEF Leads, Before, BeforeExpr, BeforeAtom, AfterAny, AfterArithmetic, AfterLogic
<1> QED BY <1>1, <1>2, <1>3, <1>4, <1>5, <1>6, <1>7, <1>8, <1>9, <1>10, <1>11, <1>12, <1>13, <1>14, <1>15, <1>16, <1>17, <1>18, <1>19, <1>20, <1>21, <1>22, <1>23

LEMMA UnitBases ==
    ASSUME NEW r \in {21, 25, 27, 28} \cup 30..33 \cup {35} \cup 52..60, NEW a \in States,
           Leads(a, ReducedIn[r - 20])
    PROVE  a \in Bases(r)
<1> DEFINE s == ReducedIn[r - 20]
<1> HIDE DEF s
<1>1. /\ r = 21 => s = 36
      /\ r \in {25, 27} => s \in 37..38
      /\ r \in {28, 30} => s \in 39..40
      /\ r \in 31..33 \cup 55..58 => s \in 19..22 \cup 41..43
      /\ r = 35 => s = 47
      /\ r = 52 => s = 11
      /\ r \in 53..54 => s \in {2, 12}
      /\ r \in 59..60 => s \in 56..57
  BY UnitStates DEF s
<1>2. Leads(a, s)
  BY DEF s
<1>3. /\ s = 36 => a = 10
      /\ s \in 37..38 => a \in {10, 66}
      /\ s \in 39..40 => a \in {10, 39, 66}
      /\ s \in 19..22 \cup 32..34 \cup 41..43 => a \in BeforeAtom
      /\ s \in 46..47 => a \in BeforeExpr
      /\ s = 11 => a = 0
      /\ s \in {2, 12} => a \in {0, 4, 30, 45, 88}
      /\ s \in 56..57 => a \in {31, 63, 64}
  BY <1>2, LeadsBack
<1> QED BY <1>1, <1>3 DEF Bases

\* The states of a right side of three symbols, or two.
LEMMA JoiningStates ==
    ASSUME NEW r \in JoiningRules \cup 22..24,
           NEW a \in States, NEW b \in States, NEW c \in States,
           Leads(a, ReducedIn[r - 20]), Leads(b, a), At(yyr2, r) = 3 => Leads(c, b)
    PROVE  LET s == ReducedIn[r - 20]
           IN  \/ r = 22 /\ s = 93 /\ a = 63 /\ b = 35 /\ c = 10
               \/ r = 23 /\ s = 95 /\ a = 64 /\ b = 35 /\ c = 10
               \/ r = 24 /\ s = 94 /\ a = 64 /\ b = 35 /\ c = 10
               \/ r = 26 /\ s = 96 /\ a = 66 /\ b = 37 /\ c \in {10, 66}
               \/ r = 29 /\ s = 67 /\ a = 39 /\ b \in {10, 39, 66}
               \/ r = 34 /\ s = 91 /\ a = 59 /\ b = 32 /\ c \in BeforeAtom
               \/ r = 43 /\ s = 70 /\ a = 46 /\ b \in BeforeExpr
               \/ r = 49 /\ s = 60 /\ a = 33 /\ b \in BeforeAtom
               \/ r = 50 /\ s = 61 /\ a = 34 /\ b \in BeforeAtom
               \/ /\ r \in 36..42 \cup 44..48 /\ s \in 98..109 /\ a = s - 27
                  /\ b \in AfterLogic /\ c \in BeforeExpr
<1> DEFINE s == ReducedIn[r - 20]
<1> DEFINE Case ==
           \/ r = 22 /\ s = 93 /\ a = 63 /\ b = 35 /\ c = 10
           \/ r = 23 /\ s = 95 /\ a = 64 /\ b = 35 /\ c = 10
           \/ r = 24 /\ s = 94 /\ a = 64 /\ b = 35 /\ c = 10
           \/ r = 26 /\ s = 96 /\ a = 66 /\ b = 37 /\ c \in {10, 66}
           \/ r = 29 /\ s = 67 /\ a = 39 /\ b \in {10, 39, 66}
           \/ r = 34 /\ s = 91 /\ a = 59 /\ b = 32 /\ c \in BeforeAtom
           \/ r = 43 /\ s = 70 /\ a = 46 /\ b \in BeforeExpr
           \/ r = 49 /\ s = 60 /\ a = 33 /\ b \in BeforeAtom
           \/ r = 50 /\ s = 61 /\ a = 34 /\ b \in BeforeAtom
           \/ /\ r \in 36..42 \cup 44..48 /\ s \in 98..109 /\ a = s - 27
              /\ b \in AfterLogic /\ c \in BeforeExpr
<1> SUFFICES Case
  OBVIOUS
<1>1. /\ r = 22 => s = 93
      /\ r = 23 => s = 95
      /\ r = 24 => s = 94
      /\ r = 26 => s = 96
      /\ r = 29 => s = 67
      /\ r = 34 => s = 91
      /\ r = 43 => s = 70
      /\ r = 49 => s = 60
      /\ r = 50 => s = 61
      /\ r \in 36..42 \cup 44..48 => s \in 98..109
  BY DEF ReducedIn
<1>2. \/ r \in 22..24 \cup {26, 34} \cup 36..42 \cup 44..48 /\ At(yyr2, r) = 3
      \/ r \in {29, 43, 49, 50}
  BY Lengths DEF JoiningRules
<1>3. Leads(a, s)
  OBVIOUS
<1> HIDE DEF s
<1>4. /\ s = 93 => a = 63
      /\ s \in 94..95 => a = 64
      /\ s = 96 => a = 66
      /\ s = 67 => a = 39
      /\ s = 91 => a = 59
      /\ s = 70 => a = 46
      /\ s \in 60..61 => a = s - 27
      /\ s \in 98..109 => a = s - 27
  BY <1>3, LeadsBack
<1>5. /\ a \in 63..64 => b = 35
      /\ a = 66 => b = 37
      /\ a \in 39..40 => b \in {10, 39, 66}
      /\ a = 59 => b = 32
      /\ a \in 46..47 => b \in BeforeExpr
      /\ a \in 19..22 \cup 32..34 \cup 41..43 => b \in BeforeAtom
      /\ a \in 71..75 => b \in AfterLogic
      /\ a \in 76..77 => b \in AfterArithmetic
      /\ a \in 78..82 => b \in AfterAny
  BY LeadsBack
<1>6. At(yyr2, r) = 3 =>
      /\ b \in {35, 36} => c = 10
      /\ b \in 37..38 => c \in {10, 66}
      /\ b \in 19..22 \cup 32..34 \cup 41..43 => c \in BeforeAtom
      /\ b \in AfterLogic => c \in BeforeExpr
  BY LeadsBack
<1>7. AfterAny \subseteq AfterLogic /\ AfterArithmetic \subseteq AfterLogic
  BY DEF AfterArithmetic, AfterLogic
<1>8. CASE r \in 36..42 \cup 44..48
  <2>1. s \in 98..109 /\ a = s - 27
    BY <1>1, <1>4, <1>8
  <2>2. a \in 71..75 \/ a \in 76..77 \/ a \in 78..82
    BY <2>1
  <2>3. b \in AfterLogic
    BY <1>5, <1>7, <2>2
  <2>4. At(yyr2, r) = 3
    BY <1>2, <1>8
  <2> QED BY <1>6, <1>8, <2>1, <2>3, <2>4
<1>9. CASE r \in {29, 43, 49, 50}
  BY <1>1, <1>4, <1>5, <1>9
<1>10. CASE r \in 22..24 \cup {26, 34}
  <2>1. At(yyr2, r) = 3
    BY <1>2, <1>10
  <2> QED BY <1>1, <1>4, <1>5, <1>6, <1>10, <2>1
<1> QED BY <1>2, <1>8, <1>9, <1>10

JoiningSymbols(r, s, a, b, c) ==
    IF At(yyr2, r) = 3
    THEN /\ At(yystos, s) = Rhs(r, 3) /\ At(yystos, a) = Rhs(r, 2) /\ At(yystos, b) = Rhs(r, 1)
         /\ c \in Bases(r)
    ELSE At(yystos, s) = Rhs(r, 2) /\ At(yystos, a) = Rhs(r, 1) /\ b \in Bases(r)

LEMMA JoiningChain ==
    ASSUME NEW r \in JoiningRules \cup 22..24,
           NEW a \in States, NEW b \in States, NEW c \in States,
           Leads(a, ReducedIn[r - 20]), Leads(b, a), At(yyr2, r) = 3 => Leads(c, b)
    PROVE  JoiningSymbols(r, ReducedIn[r - 20], a, b, c)
<1> DEFINE s == ReducedIn[r - 20]
           n == At(yyr2, r)
<1>1. \/ r = 22 /\ s = 93 /\ a = 63 /\ b = 35 /\ c = 10
      \/ r = 23 /\ s = 95 /\ a = 64 /\ b = 35 /\ c = 10
      \/ r = 24 /\ s = 94 /\ a = 64 /\ b = 35 /\ c = 10
      \/ r = 26 /\ s = 96 /\ a = 66 /\ b = 37 /\ c \in {10, 66}
      \/ r = 29 /\ s = 67 /\ a = 39 /\ b \in {10, 39, 66}
      \/ r = 34 /\ s = 91 /\ a = 59 /\ b = 32 /\ c \in BeforeAtom
      \/ r = 43 /\ s = 70 /\ a = 46 /\ b \in BeforeExpr
      \/ r = 49 /\ s = 60 /\ a = 33 /\ b \in BeforeAtom
      \/ r = 50 /\ s = 61 /\ a = 34 /\ b \in BeforeAtom
      \/ /\ r \in 36..42 \cup 44..48 /\ s \in 98..109 /\ a = s - 27
         /\ b \in AfterLogic /\ c \in BeforeExpr
  BY JoiningStates
<1>2. /\ r \in 22..24 \cup {26, 34} \cup 36..42 \cup 44..48 => n = 3
      /\ r \in {29, 43, 49, 50} => n = 2
  BY Lengths
<1>3. s = ReducedIn[r - 20]
  OBVIOUS
<1> HIDE DEF s, n
<1> SUFFICES JoiningSymbols(r, s, a, b, c)
  BY DEF s
<1>4. CASE r \in 22..24 \cup {26}
  <2>1. n = 3
    BY <1>2, <1>4
  <2>2. At(yystos, s) = Rhs(r, 3) /\ At(yystos, a) = Rhs(r, 2) /\ At(yystos, b) = Rhs(r, 1)
    BY <1>1, <1>4 DEF At, yystos, Rhs, FirstOf, SecondOf, ThirdOf
  <2>3. c \in Bases(r)
    BY <1>1, <1>4 DEF Bases
  <2> QED BY <2>1, <2>2, <2>3 DEF JoiningSymbols, n
<1>5. CASE r = 34
  <2>1. n = 3
    BY <1>2, <1>5
  <2>2. At(yystos, s) = Rhs(r, 3) /\ At(yystos, a) = Rhs(r, 2) /\ At(yystos, b) = Rhs(r, 1)
    BY <1>1, <1>5 DEF At, yystos, Rhs, FirstOf, SecondOf, ThirdOf
  <2>3. c \in Bases(r)
    BY <1>1, <1>5 DEF Bases
  <2> QED BY <2>1, <2>2, <2>3 DEF JoiningSymbols, n
<1>6. CASE r \in {29, 43, 49, 50}
  <2>1. n # 3
    BY <1>2, <1>6
  <2>2. At(yystos, s) = Rhs(r, 2) /\ At(yystos, a) = Rhs(r, 1)
    BY <1>1, <1>6 DEF At, yystos, Rhs, FirstOf, SecondOf, ThirdOf
  <2>3. b \in Bases(r)
    BY <1>1, <1>6 DEF Bases
  <2> QED BY <2>1, <2>2, <2>3 DEF JoiningSymbols, n
<1>7. CASE r \in 36..42 \cup 44..48
  <2>1. n = 3
    BY <1>2, <1>7
  <2>2. s \in 98..109 /\ a = s - 27 /\ b \in AfterLogic /\ c \in BeforeExpr
    BY <1>1, <1>7
  <2>3. At(yystos, s) = 54 /\ At(yystos, b) = 54
    BY <2>2 DEF At, yystos, AfterLogic, AfterArithmetic, AfterAny
  <2>4. At(yystos, a) = Rhs(r, 2)
    <3>1. At(yystos, ReducedIn[r - 20] - 27) = Rhs(r, 2)
      BY <1>7 DEF At, yystos, Rhs, SecondOf, ReducedIn
    <3> QED BY <1>3, <2>2, <3>1
  <2>5. Rhs(r, 1) = 54 /\ Rhs(r, 3) = 54
    BY <1>7, BinaryRules
  <2>6. c \in Bases(r)
    <3>1. r \in 35..48 /\ Bases(r) = BeforeExpr
      BY <1>7 DEF Bases
    <3> QED BY <2>2, <3>1
  <2> QED BY <2>1, <2>3, <2>4, <2>5, <2>6 DEF JoiningSymbols, n
<1>8. r \in 22..24 \cup {26} \/ r = 34 \/ r \in {29, 43, 49, 50} \/ r \in 36..42 \cup 44..48
  BY DEF JoiningRules
<1> QED BY <1>4, <1>5, <1>6, <1>7, <1>8

\* Where the automaton goes on.
LEMMA GotoStates ==
    ASSUME NEW r \in 21..60, NEW b \in Bases(r)
    PROVE  LET to == Goto(b, r)
           IN  /\ r \in 21..24 => to = 35
               /\ r \in 25..26 => to = IF b = 10 THEN 36 ELSE 96
               /\ r = 27 => to = 37
               /\ r \in 28..29 => to = IF b = 39 THEN 67 ELSE 38
               /\ r = 30 => to = 39
               /\ r \in 31..34 => to = IF b \in BeforeExpr THEN 47 ELSE 40
               /\ r \in 35..48 => to = IF b \in 23..25 THEN b + 25
                                       ELSE IF b \in {29, 86} THEN IF b = 29 THEN 54 ELSE 110
                                       ELSE IF b \in {32, 46} THEN IF b = 32 THEN 59 ELSE 70
                                       ELSE b + 27
               /\ r = 49 => to = 41
               /\ r = 50 => to = 42
               /\ r \in 51..52 => to = 10
               /\ r = 53 => to = IF b = 0 THEN 11 ELSE IF b = 4 THEN 15 ELSE IF b = 30 THEN 55
                                 ELSE IF b = 45 THEN 69 ELSE 111
               /\ r = 54 => to = 12
               /\ r \in 55..58 => to = 43
               /\ r \in 59..60 => to = IF b = 31 THEN 58 ELSE IF b = 63 THEN 93 ELSE 95
<1> DEFINE to == Goto(b, r)
           lhs == At(yyr1, r) - YYNTOKENS
           n == At(yypgoto, lhs) + b
<1>0. to = IF Listed(n, b) THEN At(yytable, n) ELSE At(yydefgoto, lhs)
  BY DEF Goto
<1> HIDE DEF to
<1>15. BeforeExpr \subseteq BeforeAtom /\ BeforeAtom \subseteq 0..113
  BY DEF BeforeAtom, BeforeExpr
<1>1. ASSUME r \in 21..24
       PROVE  to = 35
  <2>1. lhs = 2
    BY <1>1, LeftSides DEF YYNTOKENS
  <2>2. At(yypgoto, lhs) = -53 /\ At(yydefgoto, lhs) = 35
    BY <2>1 DEF At, yypgoto, yydefgoto
  <2>3. b \in {10}
    BY <1>1 DEF Bases
  <2>4. to = IF -53 + b \in 0..247 /\ At(yycheck, -53 + b) = b
             THEN At(yytable, -53 + b) ELSE 35
    BY <1>0, <2>2 DEF Listed, YYLAST
  <2> QED BY <2>3, <2>4 DEF At, yycheck, yytable
<1>2. ASSUME r \in 25..26
       PROVE  to = IF b = 10 THEN 36 ELSE 96
  <2>1. lhs = 3
    BY <1>2, LeftSides DEF YYNTOKENS
  <2>2. At(yypgoto, lhs) = -22 /\ At(yydefgoto, lhs) = 36
    BY <2>1 DEF At, yypgoto, yydefgoto
  <2>3. b \in {10, 66}
    BY <1>2 DEF Bases
  <2>4. to = IF -22 + b \in 0..247 /\ At(yycheck, -22 + b) = b
             THEN At(yytable, -22 + b) ELSE 36
    BY <1>0, <2>2 DEF Listed, YYLAST
  <2> QED BY <2>3, <2>4 DEF At, yycheck, yytable
<1>3. ASSUME r \in {27}
       PROVE  to = 37
  <2>1. lhs = 4
    BY <1>3, LeftSides DEF YYNTOKENS
  <2>2. At(yypgoto, lhs) = -53 /\ At(yydefgoto, lhs) = 37
    BY <2>1 DEF At, yypgoto, yydefgoto
  <2>3. b \in {10, 66}
    BY <1>3 DEF Bases
  <2>4. to = IF -53 + b \in 0..247 /\ At(yycheck, -53 + b) = b
             THEN At(yytable, -53 + b) ELSE 37
    BY <1>0, <2>2 DEF Listed, YYLAST
  <2> QED BY <2>3, <2>4 DEF At, yycheck, yytable
<1>4. ASSUME r \in 28..29
       PROVE  to = IF b = 39 THEN 67 ELSE 38
  <2>1. lhs = 5
    BY <1>4, LeftSides DEF YYNTOKENS
  <2>2. At(yypgoto, lhs) = 22 /\ At(yydefgoto, lhs) = 38
    BY <2>1 DEF At, yypgoto, yydefgoto
  <2>3. b \in {10, 39, 66}
    BY <1>4 DEF Bases
  <2>4. to = IF 22 + b \in 0..247 /\ At(yycheck, 22 + b) = b
             THEN At(yytable, 22 + b) ELSE 38
    BY <1>0, <2>2 DEF Listed, YYLAST
  <2> QED BY <2>3, <2>4 DEF At, yycheck, yytable
<1>5. ASSUME r \in {30}
       PROVE  to = 39
  <2>1. lhs = 6
    BY <1>5, LeftSides DEF YYNTOKENS
  <2>2. At(yypgoto, lhs) = -53 /\ At(yydefgoto, lhs) = 39
    BY <2>1 DEF At, yypgoto, yydefgoto
  <2>3. b \in {10, 39, 66}
    BY <1>5 DEF Bases
  <2>4. to = IF -53 + b \in 0..247 /\ At(yycheck, -53 + b) = b
             THEN At(yytable, -53 + b) ELSE 39
    BY <1>0, <2>2 DEF Listed, YYLAST
  <2> QED BY <2>3, <2>4 DEF At, yycheck, yytable
<1>6. ASSUME r \in 31..34
       PROVE  to = IF b \in BeforeExpr THEN 47 ELSE 40
  <2>1. lhs = 7
    BY <1>6, LeftSides DEF YYNTOKENS
  <2>2. At(yypgoto, lhs) = -6 /\ At(yydefgoto, lhs) = 47
    BY <2>1 DEF At, yypgoto, yydefgoto
  <2>3. b \in BeforeAtom
    BY <1>6 DEF Bases
  <2>4. to = IF -6 + b \in 0..247 /\ At(yycheck, -6 + b) = b
             THEN At(yytable, -6 + b) ELSE 47
    BY <1>0, <2>2 DEF Listed, YYLAST
  <2> QED BY <2>3, <2>4 DEF At, yycheck, yytable, BeforeAtom, BeforeExpr
<1>7. ASSUME r \in 35..48
       PROVE  to = IF b \in 23..25 THEN b + 25
                    ELSE IF b \in {29, 86} THEN IF b = 29 THEN 54 ELSE 110
                    ELSE IF b \in {32, 46} THEN IF b = 32 THEN 59 ELSE 70
                    ELSE b + 27
  <2>1. lhs = 8
    BY <1>7, LeftSides DEF YYNTOKENS
  <2>2. At(yypgoto, lhs) = -23 /\ At(yydefgoto, lhs) = 48
    BY <2>1 DEF At, yypgoto, yydefgoto
  <2>3. b \in BeforeExpr
    BY <1>7 DEF Bases
  <2>4. to = IF -23 + b \in 0..247 /\ At(yycheck, -23 + b) = b
             THEN At(yytable, -23 + b) ELSE 48
    BY <1>0, <2>2 DEF Listed, YYLAST
  <2> QED BY <2>3, <2>4 DEF At, yycheck, yytable, BeforeAtom, BeforeExpr
<1>8. ASSUME r \in {49}
       PROVE  to = 41
  <2>1. lhs = 9
    BY <1>8, LeftSides DEF YYNTOKENS
  <2>2. At(yypgoto, lhs) = -53 /\ At(yydefgoto, lhs) = 41
    BY <2>1 DEF At, yypgoto, yydefgoto
  <2>3. b \in BeforeAtom
    BY <1>8 DEF Bases
  <2>4. to = IF -53 + b \in 0..247 /\ At(yycheck, -53 + b) = b
             THEN At(yytable, -53 + b) ELSE 41
    BY <1>0, <2>2 DEF Listed, YYLAST
  <2> QED BY <2>3, <2>4 DEF At, yycheck, yytable, BeforeAtom, BeforeExpr
<1>9. ASSUME r \in {50}
       PROVE  to = 42
  <2>1. lhs = 10
    BY <1>9, LeftSides DEF YYNTOKENS
  <2>2. At(yypgoto, lhs) = -53 /\ At(yydefgoto, lhs) = 42
    BY <2>1 DEF At, yypgoto, yydefgoto
  <2>3. b \in BeforeAtom
    BY <1>9 DEF Bases
  <2>4. to = IF -53 + b \in 0..247 /\ At(yycheck, -53 + b) = b
             THEN At(yytable, -53 + b) ELSE 42
    BY <1>0, <2>2 DEF Listed, YYLAST
  <2> QED BY <2>3, <2>4 DEF At, yycheck, yytable, BeforeAtom, BeforeExpr
<1>10. ASSUME r \in 51..52
       PROVE  to = 10
  <2>1. lhs = 11
    BY <1>10, LeftSides DEF YYNTOKENS
  <2>2. At(yypgoto, lhs) = -53 /\ At(yydefgoto, lhs) = 10
    BY <2>1 DEF At, yypgoto, yydefgoto
  <2>3. b \in {0}
    BY <1>10 DEF Bases
  <2>4. to = IF -53 + b \in 0..247 /\ At(yycheck, -53 + b) = b
             THEN At(yytable, -53 + b) ELSE 10
    BY <1>0, <2>2 DEF Listed, YYLAST
  <2> QED BY <2>3, <2>4 DEF At, yycheck, yytable
<1>11. ASSUME r \in {53}
       PROVE  to = IF b = 0 THEN 11 ELSE IF b = 4 THEN 15 ELSE IF b = 30 THEN 55
                    ELSE IF b = 45 THEN 69 ELSE 111
  <2>1. lhs = 12
    BY <1>11, LeftSides DEF YYNTOKENS
  <2>2. At(yypgoto, lhs) = -4 /\ At(yydefgoto, lhs) = 11
    BY <2>1 DEF At, yypgoto, yydefgoto
  <2>3. b \in {0, 4, 30, 45, 88}
    BY <1>11 DEF Bases
  <2>4. to = IF -4 + b \in 0..247 /\ At(yycheck, -4 + b) = b
             THEN At(yytable, -4 + b) ELSE 11
    BY <1>0, <2>2 DEF Listed, YYLAST
  <2> QED BY <2>3, <2>4 DEF At, yycheck, yytable
<1>12. ASSUME r \in {54}
       PROVE  to = 12
  <2>1. lhs = 13
    BY <1>12, LeftSides DEF YYNTOKENS
  <2>2. At(yypgoto, lhs) = -53 /\ At(yydefgoto, lhs) = 12
    BY <2>1 DEF At, yypgoto, yydefgoto
  <2>3. b \in {0, 4, 30, 45, 88}
    BY <1>12 DEF Bases
  <2>4. to = IF -53 + b \in 0..247 /\ At(yycheck, -53 + b) = b
             THEN At(yytable, -53 + b) ELSE 12
    BY <1>0, <2>2 DEF Listed, YYLAST
  <2> QED BY <2>3, <2>4 DEF At, yycheck, yytable
<1>13. ASSUME r \in 55..58
       PROVE  to = 43
  <2>1. lhs = 14
    BY <1>13, LeftSides DEF YYNTOKENS
  <2>2. At(yypgoto, lhs) = -53 /\ At(yydefgoto, lhs) = 43
    BY <2>1 DEF At, yypgoto, yydefgoto
  <2>3. b \in BeforeAtom
    BY <1>13 DEF Bases
  <2>4. to = IF -53 + b \in 0..247 /\ At(yycheck, -53 + b) = b
             THEN At(yytable, -53 + b) ELSE 43
    BY <1>0, <2>2 DEF Listed, YYLAST
  <2> QED BY <2>3, <2>4 DEF At, yycheck, yytable, BeforeAtom, BeforeExpr
<1>14. ASSUME r \in 59..60
       PROVE  to = IF b = 31 THEN 58 ELSE IF b = 63 THEN 93 ELSE 95
  <2>1. lhs = 15
    BY <1>14, LeftSides DEF YYNTOKENS
  <2>2. At(yypgoto, lhs) = -52 /\ At(yydefgoto, lhs) = 58
    BY <2>1 DEF At, yypgoto, yydefgoto
  <2>3. b \in {31, 63, 64}
    BY <1>14 DEF Bases
  <2>4. to = IF -52 + b \in 0..247 /\ At(yycheck, -52 + b) = b
             THEN At(yytable, -52 + b) ELSE 58
    BY <1>0, <2>2 DEF Listed, YYLAST
  <2> QED BY <2>3, <2>4 DEF At, yycheck, yytable
<1> QED BY <1>1, <1>2, <1>3, <1>4, <1>5, <1>6, <1>7, <1>8, <1>9, <1>10, <1>11, <1>12, <1>13, <1>14 DEF to

LEMMA GotoLeads ==
    ASSUME NEW r \in 21..60, NEW b \in Bases(r)
    PROVE  LET to == Goto(b, r)
           IN  to \in States \ {0} /\ Leads(b, to) /\ At(yystos, to) = At(yyr1, r)
<1> DEFINE to == Goto(b, r)
<1>0. /\ r \in 21..24 => to = 35
      /\ r \in 25..26 => to = IF b = 10 THEN 36 ELSE 96
      /\ r = 27 => to = 37
      /\ r \in 28..29 => to = IF b = 39 THEN 67 ELSE 38
      /\ r = 30 => to = 39
      /\ r \in 31..34 => to = IF b \in BeforeExpr THEN 47 ELSE 40
      /\ r \in 35..48 => to = IF b \in 23..25 THEN b + 25
                            ELSE IF b \in {29, 86} THEN IF b = 29 THEN 54 ELSE 110
                            ELSE IF b \in {32, 46} THEN IF b = 32 THEN 59 ELSE 70
                            ELSE b + 27
      /\ r = 49 => to = 41
      /\ r = 50 => to = 42
      /\ r \in 51..52 => to = 10
      /\ r = 53 => to = IF b = 0 THEN 11 ELSE IF b = 4 THEN 15 ELSE IF b = 30 THEN 55
                            ELSE IF b = 45 THEN 69 ELSE 111
      /\ r = 54 => to = 12
      /\ r \in 55..58 => to = 43
      /\ r \in 59..60 => to = IF b = 31 THEN 58 ELSE IF b = 63 THEN 93 ELSE 95
  BY GotoStates
<1> HIDE DEF to
<1> SUFFICES to \in States \ {0} /\ Leads(b, to) /\ At(yystos, to) = At(yyr1, r)
  BY DEF to
<1>1. CASE r \in 21..24
  <2>1. to = 35
    BY <1>0, <1>1
  <2>2. b \in {10}
    BY <1>1 DEF Bases
  <2>3. At(yyr1, r) = 48
    BY <1>1, LeftSides
  <2>4. to \in 1..113 /\ to \in States
    BY <2>1, <2>2, TableSizes DEF BeforeAtom, BeforeExpr
  <2>5. Leads(b, to)
    BY SMTT(30), <2>1, <2>2, <2>4 DEF Leads, Before, BeforeAtom, BeforeExpr
  <2>6. At(yystos, to) = 48
    BY <2>1, <2>2, <2>4 DEF At, yystos, BeforeAtom, BeforeExpr
  <2> QED BY <2>3, <2>4, <2>5, <2>6
<1>2. CASE r \in 25..26
  <2>1. to = IF b = 10 THEN 36 ELSE 96
    BY <1>0, <1>2
  <2>2. b \in {10, 66}
    BY <1>2 DEF Bases
  <2>3. At(yyr1, r) = 49
    BY <1>2, LeftSides
  <2>4. to \in 1..113 /\ to \in States
    BY <2>1, <2>2, TableSizes DEF BeforeAtom, BeforeExpr
  <2>5. Leads(b, to)
    BY SMTT(30), <2>1, <2>2, <2>4 DEF Leads, Before, BeforeAtom, BeforeExpr
  <2>6. At(yystos, to) = 49
    BY <2>1, <2>2, <2>4 DEF At, yystos, BeforeAtom, BeforeExpr
  <2> QED BY <2>3, <2>4, <2>5, <2>6
<1>3. CASE r = 27
  <2>1. to = 37
    BY <1>0, <1>3
  <2>2. b \in {10, 66}
    BY <1>3 DEF Bases
  <2>3. At(yyr1, r) = 50
    BY <1>3, LeftSides
  <2>4. to \in 1..113 /\ to \in States
    BY <2>1, <2>2, TableSizes DEF BeforeAtom, BeforeExpr
  <2>5. Leads(b, to)
    BY SMTT(30), <2>1, <2>2, <2>4 DEF Leads, Before, BeforeAtom, BeforeExpr
  <2>6. At(yystos, to) = 50
    BY <2>1, <2>2, <2>4 DEF At, yystos, BeforeAtom, BeforeExpr
  <2> QED BY <2>3, <2>4, <2>5, <2>6
<1>4. CASE r \in 28..29
  <2>1. to = IF b = 39 THEN 67 ELSE 38
    BY <1>0, <1>4
  <2>2. b \in {10, 39, 66}
    BY <1>4 DEF Bases
  <2>3. At(yyr1, r) = 51
    BY <1>4, LeftSides
  <2>4. to \in 1..113 /\ to \in States
    BY <2>1, <2>2, TableSizes DEF BeforeAtom, BeforeExpr
  <2>5. Leads(b, to)
    BY SMTT(30), <2>1, <2>2, <2>4 DEF Leads, Before, BeforeAtom, BeforeExpr
  <2>6. At(yystos, to) = 51
    BY <2>1, <2>2, <2>4 DEF At, yystos, BeforeAtom, BeforeExpr
  <2> QED BY <2>3, <2>4, <2>5, <2>6
<1>5. CASE r = 30
  <2>1. to = 39
    BY <1>0, <1>5
  <2>2. b \in {10, 39, 66}
    BY <1>5 DEF Bases
  <2>3. At(yyr1, r) = 52
    BY <1>5, LeftSides
  <2>4. to \in 1..113 /\ to \in States
    BY <2>1, <2>2, TableSizes DEF BeforeAtom, BeforeExpr
  <2>5. Leads(b, to)
    BY SMTT(30), <2>1, <2>2, <2>4 DEF Leads, Before, BeforeAtom, BeforeExpr
  <2>6. At(yystos, to) = 52
    BY <2>1, <2>2, <2>4 DEF At, yystos, BeforeAtom, BeforeExpr
  <2> QED BY <2>3, <2>4, <2>5, <2>6
<1>6. CASE r \in 31..34
  <2>1. to = IF b \in BeforeExpr THEN 47 ELSE 40
    BY <1>0, <1>6
  <2>2. b \in BeforeAtom
    BY <1>6 DEF Bases
  <2>3. At(yyr1, r) = 53
    BY <1>6, LeftSides
  <2>4. to \in 1..113 /\ to \in States
    BY <2>1, <2>2, TableSizes DEF BeforeAtom, BeforeExpr
  <2>5. Leads(b, to)
    BY SMTT(30), <2>1, <2>2, <2>4 DEF Leads, Before, BeforeAtom, BeforeExpr
  <2>6. At(yystos, to) = 53
    BY <2>1, <2>2, <2>4 DEF At, yystos, BeforeAtom, BeforeExpr
  <2> QED BY <2>3, <2>4, <2>5, <2>6
<1>7. CASE r \in 35..48
  <2>1. to = IF b \in 23..25 THEN b + 25
                    ELSE IF b \in {29, 86} THEN IF b = 29 THEN 54 ELSE 110
                    ELSE IF b \in {32, 46} THEN IF b = 32 THEN 59 ELSE 70
                    ELSE b + 27
    BY <1>0, <1>7
  <2>2. b \in BeforeExpr
    BY <1>7 DEF Bases
  <2>3. At(yyr1, r) = 54
    BY <1>7, LeftSides
  <2>4. to \in 1..113 /\ to \in States
    BY <2>1, <2>2, TableSizes DEF BeforeAtom, BeforeExpr
  <2>5. Leads(b, to)
    <3>1. ASSUME b \in 23..25 PROVE Before(to) = b
      <4>1. \A s \in 48..50 : Before(s) = s - 25
        BY DEF Before
      <4>2. to \in 48..50 /\ to - 25 = b
        BY <2>1, <3>1
      <4> QED BY <4>1, <4>2
    <3>2. ASSUME b = 29 \/ b = 86 PROVE Before(to) = b
      <4>1. Before(54) = 29 /\ Before(110) = 86
        BY DEF Before
      <4> QED BY <2>1, <3>2, <4>1
    <3>3. ASSUME b = 32 \/ b = 46 PROVE Before(to) = b
      <4>1. Before(59) = 32 /\ Before(70) = 46
        BY DEF Before
      <4> QED BY <2>1, <3>3, <4>1
    <3>4. ASSUME b \in 71..82 PROVE Before(to) = b
      <4>1. \A s \in 98..109 : Before(s) = s - 27
        BY DEF Before
      <4>2. to \in 98..109 /\ to - 27 = b
        BY <2>1, <3>4
      <4> QED BY <4>1, <4>2
    <3>5. Before(to) = b
      BY <2>2, <3>1, <3>2, <3>3, <3>4 DEF BeforeExpr
    <3> QED BY <2>4, <3>5 DEF Leads
  <2>6. At(yystos, to) = 54
    BY <2>1, <2>2, <2>4 DEF At, yystos, BeforeAtom, BeforeExpr
  <2> QED BY <2>3, <2>4, <2>5, <2>6
<1>8. CASE r = 49
  <2>1. to = 41
    BY <1>0, <1>8
  <2>2. b \in BeforeAtom
    BY <1>8 DEF Bases
  <2>3. At(yyr1, r) = 55
    BY <1>8, LeftSides
  <2>4. to \in 1..113 /\ to \in States
    BY <2>1, <2>2, TableSizes DEF BeforeAtom, BeforeExpr
  <2>5. Leads(b, to)
    BY SMTT(30), <2>1, <2>2, <2>4 DEF Leads, Before, BeforeAtom, BeforeExpr
  <2>6. At(yystos, to) = 55
    BY <2>1, <2>2, <2>4 DEF At, yystos, BeforeAtom, BeforeExpr
  <2> QED BY <2>3, <2>4, <2>5, <2>6
<1>9. CASE r = 50
  <2>1. to = 42
    BY <1>0, <1>9
  <2>2. b \in BeforeAtom
    BY <1>9 DEF Bases
  <2>3. At(yyr1, r) = 56
    BY <1>9, LeftSides
  <2>4. to \in 1..113 /\ to \in States
    BY <2>1, <2>2, TableSizes DEF BeforeAtom, BeforeExpr
  <2>5. Leads(b, to)
    BY SMTT(30), <2>1, <2>2, <2>4 DEF Leads, Before, BeforeAtom, BeforeExpr
  <2>6. At(yystos, to) = 56
    BY <2>1, <2>2, <2>4 DEF At, yystos, BeforeAtom, BeforeExpr
  <2> QED BY <2>3, <2>4, <2>5, <2>6
<1>10. CASE r \in 51..52
  <2>1. to = 10
    BY <1>0, <1>10
  <2>2. b \in {0}
    BY <1>10 DEF Bases
  <2>3. At(yyr1, r) = 57
    BY <1>10, LeftSides
  <2>4. to \in 1..113 /\ to \in States
    BY <2>1, <2>2, TableSizes DEF BeforeAtom, BeforeExpr
  <2>5. Leads(b, to)
    BY SMTT(30), <2>1, <2>2, <2>4 DEF Leads, Before, BeforeAtom, BeforeExpr
  <2>6. At(yystos, to) = 57
    BY <2>1, <2>2, <2>4 DEF At, yystos, BeforeAtom, BeforeExpr
  <2> QED BY <2>3, <2>4, <2>5, <2>6
<1>11. CASE r = 53
  <2>1. to = IF b = 0 THEN 11 ELSE IF b = 4 THEN 15 ELSE IF b = 30 THEN 55
                    ELSE IF b = 45 THEN 69 ELSE 111
    BY <1>0, <1>11
  <2>2. b \in {0, 4, 30, 45, 88}
    BY <1>11 DEF Bases
  <2>3. At(yyr1, r) = 58
    BY <1>11, LeftSides
  <2>4. to \in 1..113 /\ to \in States
    BY <2>1, <2>2, TableSizes DEF BeforeAtom, BeforeExpr
  <2>5. Leads(b, to)
    BY SMTT(30), <2>1, <2>2, <2>4 DEF Leads, Before, BeforeAtom, BeforeExpr
  <2>6. At(yystos, to) = 58
    BY <2>1, <2>2, <2>4 DEF At, yystos, BeforeAtom, BeforeExpr
  <2> QED BY <2>3, <2>4, <2>5, <2>6
<1>12. CASE r = 54
  <2>1. to = 12
    BY <1>0, <1>12
  <2>2. b \in {0, 4, 30, 45, 88}
    BY <1>12 DEF Bases
  <2>3. At(yyr1, r) = 59
    BY <1>12, LeftSides
  <2>4. to \in 1..113 /\ to \in States
    BY <2>1, <2>2, TableSizes DEF BeforeAtom, BeforeExpr
  <2>5. Leads(b, to)
    BY SMTT(30), <2>1, <2>2, <2>4 DEF Leads, Before, BeforeAtom, BeforeExpr
  <2>6. At(yystos, to) = 59
    BY <2>1, <2>2, <2>4 DEF At, yystos, BeforeAtom, BeforeExpr
  <2> QED BY <2>3, <2>4, <2>5, <2>6
<1>13. CASE r \in 55..58
  <2>1. to = 43
    BY <1>0, <1>13
  <2>2. b \in BeforeAtom
    BY <1>13 DEF Bases
  <2>3. At(yyr1, r) = 60
    BY <1>13, LeftSides
  <2>4. to \in 1..113 /\ to \in States
    BY <2>1, <2>2, TableSizes DEF BeforeAtom, BeforeExpr
  <2>5. Leads(b, to)
    BY SMTT(30), <2>1, <2>2, <2>4 DEF Leads, Before, BeforeAtom, BeforeExpr
  <2>6. At(yystos, to) = 60
    BY <2>1, <2>2, <2>4 DEF At, yystos, BeforeAtom, BeforeExpr
  <2> QED BY <2>3, <2>4, <2>5, <2>6
<1>14. CASE r \in 59..60
  <2>1. to = IF b = 31 THEN 58 ELSE IF b = 63 THEN 93 ELSE 95
    BY <1>0, <1>14
  <2>2. b \in {31, 63, 64}
    BY <1>14 DEF Bases
  <2>3. At(yyr1, r) = 61
    BY <1>14, LeftSides
  <2>4. to \in 1..113 /\ to \in States
    BY <2>1, <2>2, TableSizes DEF BeforeAtom, BeforeExpr
  <2>5. Leads(b, to)
    BY SMTT(30), <2>1, <2>2, <2>4 DEF Leads, Before, BeforeAtom, BeforeExpr
  <2>6. At(yystos, to) = 61
    BY <2>1, <2>2, <2>4 DEF At, yystos, BeforeAtom, BeforeExpr
  <2> QED BY <2>3, <2>4, <2>5, <2>6
<1> QED BY <1>1, <1>2, <1>3, <1>4, <1>5, <1>6, <1>7, <1>8, <1>9, <1>10, <1>11, <1>12, <1>13, <1>14

-----------------------------------------------------------------------------
(* The stack.                                                              *)

IdsAt(ss, vv, k) == Ids(At(yystos, ss[k]), vv[k])
AllIds(ss, vv) == UNION {IdsAt(ss, vv, k) : k \in 1..Len(ss)}

\* A path through the automaton, with values of the types of its symbols, no two of
\* which own the same string.
Good(ss, vv) ==
    /\ ss \in Seq(States) /\ Len(ss) > 0
    /\ ss[1] = 0 /\ \A k \in 1..(Len(ss) - 1) : Leads(ss[k], ss[k + 1])
    /\ IsSeq(vv) /\ Len(vv) = Len(ss)
    /\ \A k \in 1..Len(ss) : Sound(At(yystos, ss[k]), vv[k])
    /\ \A k, l \in 1..Len(ss) : k # l => IdsAt(ss, vv, k) \cap IdsAt(ss, vv, l) = {}

LEMMA AppendSeq ==
    ASSUME NEW s, IsSeq(s), NEW x
    PROVE  /\ IsSeq(Append(s, x)) /\ Len(Append(s, x)) = Len(s) + 1
           /\ Append(s, x)[Len(s) + 1] = x
           /\ \A i \in 1..Len(s) : Append(s, x)[i] = s[i]
<1> DEFINE A == ToSet(s) \cup {x}
<1>1. Len(s) \in Nat /\ s = [i \in 1..Len(s) |-> s[i]] /\ DOMAIN s = 1..Len(s)
  BY SeqFacts
<1>2. \A i \in 1..Len(s) : s[i] \in A
  BY <1>1 DEF ToSet
<1>3. x \in A
  OBVIOUS
<1> HIDE DEF A
<1>4. s \in Seq(A)
  BY <1>1, <1>2
<1>5. Append(s, x) \in Seq(A)
  BY <1>3, <1>4
<1>6. IsSeq(Append(s, x))
  BY <1>5, SomeSeq
<1> QED BY <1>3, <1>4, <1>6

LEMMA PoppedSeq ==
    ASSUME NEW s, IsSeq(s), NEW n \in 0..Len(s)
    PROVE  /\ IsSeq(Popped(s, n)) /\ Len(Popped(s, n)) = Len(s) - n
           /\ \A i \in 1..(Len(s) - n) : Popped(s, n)[i] = s[i]
<1>1. Len(s) \in Nat /\ s \in Seq(ToSet(s))
  BY SeqFacts DEF IsSeq
<1> DEFINE A == ToSet(s)
<1>2. s \in Seq(A)
  BY <1>1
<1> HIDE DEF A
<1>3. Popped(s, n) \in Seq(A) /\ Len(Popped(s, n)) = Len(s) - n
      /\ \A i \in 1..(Len(s) - n) : Popped(s, n)[i] = s[i]
  BY <1>1, <1>2 DEF Popped
<1> QED BY <1>3, SomeSeq

LEMMA GoodPopped ==
    ASSUME NEW ss, NEW vv, Good(ss, vv), NEW n \in 0..(Len(ss) - 1)
    PROVE  LET s == Popped(ss, n)
               v == Popped(vv, n)
           IN  /\ Good(s, v)
               /\ Len(s) = Len(ss) - n /\ Last(s) = ss[Len(ss) - n]
               /\ Len(v) = Len(s)
               /\ \A k \in 1..Len(s) : s[k] = ss[k] /\ v[k] = vv[k]
               /\ \A k \in 1..Len(s) : IdsAt(s, v, k) = IdsAt(ss, vv, k)
               /\ AllIds(s, v) = UNION {IdsAt(ss, vv, k) : k \in 1..(Len(ss) - n)}
               /\ AllIds(s, v) \cap UNION {IdsAt(ss, vv, k) : k \in (Len(ss) - n + 1)..Len(ss)} = {}
<1> DEFINE s == Popped(ss, n)
           v == Popped(vv, n)
<1>1. Len(ss) \in Nat /\ Len(ss) > 0 /\ IsSeq(ss) /\ IsSeq(vv) /\ Len(vv) = Len(ss)
  BY SomeSeq DEF Good
<1>2. /\ s \in Seq(States) /\ Len(s) = Len(ss) - n /\ IsSeq(v) /\ Len(v) = Len(ss) - n
      /\ \A k \in 1..(Len(ss) - n) : s[k] = ss[k] /\ v[k] = vv[k]
  <2>1. s \in Seq(States)
    BY <1>1 DEF Popped, Good
  <2>2. n \in 0..Len(ss) /\ n \in 0..Len(vv)
    BY <1>1
  <2>3. IsSeq(s) /\ Len(s) = Len(ss) - n /\ \A k \in 1..(Len(ss) - n) : s[k] = ss[k]
    BY <1>1, <2>2, PoppedSeq
  <2>4. IsSeq(v) /\ Len(v) = Len(vv) - n /\ \A k \in 1..(Len(vv) - n) : v[k] = vv[k]
    BY <1>1, <2>2, PoppedSeq
  <2> QED BY <1>1, <2>1, <2>3, <2>4
<1>3. Last(s) = ss[Len(ss) - n]
  BY <1>1, <1>2 DEF Last
<1> HIDE DEF s, v
<1>4. \A k \in 1..Len(s) : IdsAt(s, v, k) = IdsAt(ss, vv, k) /\ k \in 1..Len(ss)
  BY <1>1, <1>2 DEF IdsAt
<1>5. Good(s, v)
  <2>1. s[1] = 0 /\ \A k \in 1..(Len(s) - 1) : Leads(s[k], s[k + 1])
    BY <1>1, <1>2 DEF Good
  <2>2. \A k \in 1..Len(s) : Sound(At(yystos, s[k]), v[k])
    BY <1>1, <1>2 DEF Good
  <2>3. \A k, l \in 1..Len(s) : k # l => IdsAt(s, v, k) \cap IdsAt(s, v, l) = {}
    BY <1>4 DEF Good
  <2>4. Len(s) > 0
    BY <1>1, <1>2
  <2> QED BY <1>2, <2>1, <2>2, <2>3, <2>4 DEF Good
<1>6. AllIds(s, v) = UNION {IdsAt(ss, vv, k) : k \in 1..(Len(ss) - n)}
  BY <1>2, <1>4 DEF AllIds
<1>7. AllIds(s, v) \cap UNION {IdsAt(ss, vv, k) : k \in (Len(ss) - n + 1)..Len(ss)} = {}
  <2> SUFFICES ASSUME NEW k \in 1..(Len(ss) - n), NEW l \in (Len(ss) - n + 1)..Len(ss)
               PROVE  IdsAt(ss, vv, k) \cap IdsAt(ss, vv, l) = {}
    BY <1>6
  <2>1. k # l /\ k \in 1..Len(ss) /\ l \in 1..Len(ss)
    BY <1>1
  <2> QED BY <2>1 DEF Good
<1> QED BY <1>2, <1>3, <1>4, <1>5, <1>6, <1>7 DEF s, v

LEMMA GoodPushed ==
    ASSUME NEW ss, NEW vv, Good(ss, vv), NEW q \in States, Leads(Last(ss), q),
           NEW v, Sound(At(yystos, q), v), Ids(At(yystos, q), v) \cap AllIds(ss, vv) = {}
    PROVE  /\ Good(Append(ss, q), Append(vv, v))
           /\ AllIds(Append(ss, q), Append(vv, v)) = AllIds(ss, vv) \cup Ids(At(yystos, q), v)
<1> DEFINE s == Append(ss, q)
           w == Append(vv, v)
           n == Len(ss)
<1>1. n \in Nat /\ n > 0 /\ ss \in Seq(States) /\ IsSeq(vv) /\ Len(vv) = n /\ Last(ss) = ss[n]
  BY DEF Good, Last
<1>2. /\ s \in Seq(States) /\ Len(s) = n + 1 /\ s[n + 1] = q /\ \A k \in 1..n : s[k] = ss[k]
      /\ IsSeq(w) /\ Len(w) = n + 1 /\ w[n + 1] = v /\ \A k \in 1..n : w[k] = vv[k]
  BY <1>1, AppendSeq
<1> HIDE DEF s, w
<1>3. \A k \in 1..n : IdsAt(s, w, k) = IdsAt(ss, vv, k) /\ IdsAt(ss, vv, k) \subseteq AllIds(ss, vv)
  BY <1>2 DEF IdsAt, AllIds
<1>4. IdsAt(s, w, n + 1) = Ids(At(yystos, q), v)
  BY <1>2 DEF IdsAt
<1>5. \A k \in 1..(n + 1) : k = n + 1 \/ k \in 1..n
  BY <1>1
<1>6. Good(s, w)
  <2>1. s[1] = 0 /\ \A k \in 1..(Len(s) - 1) : Leads(s[k], s[k + 1])
    <3>1. s[1] = 0
      BY <1>1, <1>2 DEF Good
    <3>2. ASSUME NEW k \in 1..n PROVE Leads(s[k], s[k + 1])
      <4>1. CASE k = n
        BY <1>1, <1>2, <4>1
      <4>2. CASE k # n
        <5>1. k \in 1..(n - 1) /\ k + 1 \in 1..n
          BY <1>1, <4>2
        <5>2. s[k] = ss[k] /\ s[k + 1] = ss[k + 1]
          BY <1>2, <5>1
        <5> QED BY <5>1, <5>2 DEF Good
      <4> QED BY <4>1, <4>2
    <3>3. Len(s) - 1 = n
      BY <1>1, <1>2
    <3> QED BY <3>1, <3>2, <3>3
  <2>2. \A k \in 1..(n + 1) : Sound(At(yystos, s[k]), w[k])
    <3>1. \A k \in 1..n : Sound(At(yystos, s[k]), w[k])
      BY <1>2 DEF Good
    <3> QED BY <1>2, <1>5, <3>1
  <2>3. \A k, l \in 1..(n + 1) : k # l => IdsAt(s, w, k) \cap IdsAt(s, w, l) = {}
    <3>1. \A k, l \in 1..n : k # l => IdsAt(s, w, k) \cap IdsAt(s, w, l) = {}
      BY <1>3 DEF Good
    <3>2. \A k \in 1..n : IdsAt(s, w, k) \cap IdsAt(s, w, n + 1) = {}
      BY <1>3, <1>4
    <3> QED BY <1>5, <3>1, <3>2
  <2> QED BY <1>1, <1>2, <2>1, <2>2, <2>3 DEF Good
<1>7. AllIds(s, w) = AllIds(ss, vv) \cup Ids(At(yystos, q), v)
  <2>1. AllIds(s, w) = UNION {IdsAt(s, w, k) : k \in 1..(n + 1)}
    BY <1>2 DEF AllIds
  <2>2. n + 1 \in 1..(n + 1) /\ \A k \in 1..n : k \in 1..(n + 1)
    BY <1>1
  <2>3. AllIds(s, w) \subseteq AllIds(ss, vv) \cup Ids(At(yystos, q), v)
    BY <1>3, <1>4, <1>5, <2>1
  <2>4. AllIds(ss, vv) \subseteq AllIds(s, w)
    <3> SUFFICES ASSUME NEW k \in 1..n PROVE IdsAt(ss, vv, k) \subseteq AllIds(s, w)
      BY DEF AllIds
    <3> QED BY <1>3, <2>1, <2>2
  <2>5. Ids(At(yystos, q), v) \subseteq AllIds(s, w)
    BY <1>4, <2>1, <2>2
  <2> QED BY <2>3, <2>4, <2>5
<1> QED BY <1>6, <1>7 DEF s, w

\* Nothing leads to state 0.
LEMMA Beneath ==
    ASSUME NEW ss, NEW vv, Good(ss, vv), NEW k \in 1..Len(ss)
    PROVE  /\ ss[k] \in States
           /\ ss[k] = 0 <=> k = 1
           /\ k > 1 => k - 1 \in 1..Len(ss) /\ ss[k - 1] \in States /\ Leads(ss[k - 1], ss[k])
<1>1. ss \in Seq(States) /\ Len(ss) \in Nat /\ ss[1] = 0
  BY DEF Good
<1>2. ss[k] \in States
  BY <1>1
<1>3. k > 1 => k - 1 \in 1..Len(ss) /\ ss[k - 1] \in States /\ Leads(ss[k - 1], ss[k])
  <2> HAVE k > 1
  <2>1. k - 1 \in 1..(Len(ss) - 1) /\ (k - 1) + 1 = k /\ k - 1 \in 1..Len(ss)
    BY <1>1
  <2> QED BY <1>1, <2>1 DEF Good
<1>4. \A a \in States : ~Leads(a, 0)
  <2>1. Before(0) = 114
    BY DEF Before
  <2>2. \A a \in 0..113 : ~Leads(a, 0)
    BY <2>1 DEF Leads, BeforeAtom, BeforeExpr, AfterAny, AfterArithmetic, AfterLogic
  <2> QED BY <2>2, TableSizes
<1>5. k = 1 \/ k > 1
  BY <1>1
<1> QED BY <1>1, <1>2, <1>3, <1>4, <1>5

\* In state s rule r is reduced.
Reduces(s, r) == r \in 21..60 /\ (r = At(yydefact, s) \/ (r = 51 /\ s = 0))

\* The symbols on top of the stack are those on the right of the rule.
LEMMA RightSide ==
    ASSUME NEW ss, NEW vv, Good(ss, vv), NEW r, Reduces(Last(ss), r),
           At(yyr2, r) <= Len(ss) - 1
    PROVE  LET n == At(yyr2, r)
               m == Len(ss) - n
           IN  /\ n \in 0..3 /\ m \in 1..Len(ss) /\ ss[m] \in Bases(r)
               /\ \A i \in 1..n : At(yystos, ss[m + i]) = Rhs(r, i)
<1> DEFINE l == Len(ss)
           n == At(yyr2, r)
           a == ss[l - 1]
           b == ss[l - 2]
           c == ss[l - 3]
           top == ss[l]
<1>1. l \in Nat \ {0} /\ ss \in Seq(States) /\ Last(ss) = top /\ top \in States
      /\ (top = 0 <=> l = 1)
  <2>1. l \in Nat \ {0} /\ ss \in Seq(States) /\ Last(ss) = top
    BY DEF Good, Last
  <2>2. l \in 1..Len(ss)
    BY <2>1
  <2> QED BY <2>1, <2>2, Beneath
<1>2. r \in 21..60 /\ (r = At(yydefact, top) \/ (r = 51 /\ top = 0))
  BY <1>1 DEF Reduces
<1>3. CASE r = 51
  <2>1. top = 0
    BY <1>1, <1>2, <1>3, OneState
  <2>2. l = 1
    BY <1>1, <2>1
  <2>3. n = 0 /\ Bases(r) = {0}
    BY <1>3, Lengths DEF Bases
  <2> QED BY <2>1, <2>2, <2>3
<1>4. CASE r # 51
  <2>1. top = ReducedIn[r - 20]
    BY <1>1, <1>2, <1>4, OneState
  <2>2. n \in 1..3 /\ n <= l - 1
    <3>1. \/ r \in {21, 25, 27, 28} \cup 30..33 \cup {35} \cup 52..60
          \/ r \in {29, 43, 49, 50}
          \/ r \in {22, 23, 24, 26, 34} \cup 36..42 \cup 44..48
      BY <1>2, <1>4
    <3>2. n = 1 \/ n = 2 \/ n = 3
      <4> HIDE DEF n
      <4>1. At(yyr2, r) = 1 \/ At(yyr2, r) = 2 \/ At(yyr2, r) = 3
        BY <3>1, Lengths
      <4> QED BY <4>1 DEF n
    <3> QED BY <3>2
  <2>3. l > 1 /\ a \in States /\ Leads(a, top)
    <3>1. l \in 1..Len(ss) /\ l > 1
      BY <1>1, <2>2
    <3> QED BY <3>1, Beneath
  <2>4. n > 1 => b \in States /\ Leads(b, a)
    <3> HAVE n > 1
    <3>1. l - 1 \in 1..Len(ss) /\ l - 1 > 1 /\ (l - 1) - 1 = l - 2
      BY <1>1, <2>2
    <3> QED BY <3>1, Beneath
  <2>5. n > 2 => c \in States /\ Leads(c, b)
    <3> HAVE n > 2
    <3>1. l - 2 \in 1..Len(ss) /\ l - 2 > 1 /\ (l - 2) - 1 = l - 3
      BY <1>1, <2>2
    <3> QED BY <3>1, Beneath
  <2> HIDE DEF a, b, c, top, l, n
  <2>6. CASE r \in {21, 25, 27, 28} \cup 30..33 \cup {35} \cup 52..60
    <3>1. n = 1
      BY <2>6, Lengths DEF n
    <3>2. At(yystos, top) = Rhs(r, 1) /\ a \in Bases(r)
      BY <2>1, <2>3, <2>6, UnitStates, UnitBases
    <3>3. l - 1 \in 1..l /\ (l - 1) + 1 = l
      BY <1>1, <2>3
    <3>4. \A i \in 1..1 : i = 1
      OBVIOUS
    <3> QED BY <3>1, <3>2, <3>3, <3>4 DEF a, top, l, n
  <2>7. CASE r \in JoiningRules \cup 22..24
    <3>1. n \in 2..3
      <4>1. \/ r \in {29, 43, 49, 50}
            \/ r \in {22, 23, 24, 26, 34} \cup 36..42 \cup 44..48
        BY <2>7 DEF JoiningRules
      <4>2. At(yyr2, r) = 2 \/ At(yyr2, r) = 3
        BY <4>1, Lengths
      <4> QED BY <4>2 DEF n
    <3>2. CASE n = 3
      <4>1. JoiningSymbols(r, ReducedIn[r - 20], a, b, c)
        BY <2>1, <2>3, <2>4, <2>5, <2>7, <3>2, JoiningChain
      <4>2. /\ At(yystos, top) = Rhs(r, 3) /\ At(yystos, a) = Rhs(r, 2)
            /\ At(yystos, b) = Rhs(r, 1) /\ c \in Bases(r)
        BY <2>1, <3>2, <4>1 DEF JoiningSymbols, n
      <4>3. /\ l - 3 \in 1..l /\ (l - 3) + 1 = l - 2 /\ (l - 3) + 2 = l - 1
            /\ (l - 3) + 3 = l
        BY <1>1, <2>2, <3>2
      <4>4. \A i \in 1..3 : i = 1 \/ i = 2 \/ i = 3
        OBVIOUS
      <4> QED BY <3>2, <4>2, <4>3, <4>4 DEF a, b, c, top, l, n
    <3>3. CASE n = 2
      <4>0. b \in States /\ Leads(b, a) /\ At(yyr2, r) # 3
        BY <2>4, <3>3 DEF n
      <4>1. JoiningSymbols(r, ReducedIn[r - 20], a, b, b)
        BY <2>1, <2>3, <2>7, <4>0, JoiningChain
      <4>2. At(yystos, top) = Rhs(r, 2) /\ At(yystos, a) = Rhs(r, 1) /\ b \in Bases(r)
        BY <2>1, <4>0, <4>1 DEF JoiningSymbols
      <4>3. l - 2 \in 1..l /\ (l - 2) + 1 = l - 1 /\ (l - 2) + 2 = l
        BY <1>1, <2>2, <3>3
      <4>4. \A i \in 1..2 : i = 1 \/ i = 2
        OBVIOUS
      <4> QED BY <3>3, <4>2, <4>3, <4>4 DEF a, b, top, l, n
    <3> QED BY <3>1, <3>2, <3>3
  <2>8. \/ r \in {21, 25, 27, 28} \cup 30..33 \cup {35} \cup 52..60
        \/ r \in JoiningRules \cup 22..24
    BY <1>2, <1>4 DEF JoiningRules
  <2> QED BY <2>6, <2>7, <2>8
<1> QED BY <1>3, <1>4

DollarsOf(vv, n) == SubSeq(vv, Len(vv) - n + 1, Len(vv))

LEMMA DollarFacts ==
    ASSUME NEW vv, IsSeq(vv), NEW n \in 0..Len(vv)
    PROVE  /\ Len(DollarsOf(vv, n)) = n
           /\ \A i \in 1..n : DollarsOf(vv, n)[i] = vv[Len(vv) - n + i]
<1>1. Len(vv) \in Nat /\ vv \in Seq(ToSet(vv))
  BY SeqFacts DEF IsSeq
<1> DEFINE A == ToSet(vv)
<1>2. vv \in Seq(A)
  BY <1>1
<1> HIDE DEF A
<1> QED BY <1>1, <1>2 DEF DollarsOf

\* A reduction keeps the stack good, and loses no string but those it frees or forgets.
LEMMA Reduced ==
    ASSUME NEW ss, NEW vv, Good(ss, vv), NEW r, Reduces(Last(ss), r),
           At(yyr2, r) <= Len(ss) - 1
    PROVE  LET n == At(yyr2, r)
               s == Popped(ss, n)
               d == DollarsOf(vv, n)
               ss2 == Append(s, Goto(Last(s), r))
               vv2 == Append(Popped(vv, n), Value(r, d))
               old == AllIds(ss, vv)
               new == AllIds(ss2, vv2)
           IN  /\ Good(ss2, vv2) /\ Goto(Last(s), r) \in States \ {0}
               /\ new \subseteq old
               /\ r \notin {22, 23, 54} => new = old
               /\ r \in 22..23 => old \subseteq new \cup ToSet(FreeString(File(d[1], r)))
               /\ r = 54 => d[1].id \in old \ new /\ old \subseteq new \cup {d[1].id}
<1> DEFINE n == At(yyr2, r)
           m == Len(ss) - n
           s == Popped(ss, n)
           u == Popped(vv, n)
           d == DollarsOf(vv, n)
           q == Goto(Last(s), r)
           x == Value(r, d)
           lhs == At(yyr1, r)
           old == AllIds(ss, vv)
           all == UNION {Ids(Rhs(r, i), d[i]) : i \in 1..n}
<1>1. /\ n \in 0..3 /\ m \in 1..Len(ss) /\ ss[m] \in Bases(r)
      /\ \A i \in 1..n : At(yystos, ss[m + i]) = Rhs(r, i)
  BY RightSide
<1>2. r \in 21..60
  BY DEF Reduces
<1>3. n \in 0..(Len(ss) - 1) /\ Len(ss) \in Nat /\ IsSeq(vv) /\ Len(vv) = Len(ss)
  BY <1>1 DEF Good
<1>4. Len(d) = n /\ \A i \in 1..n : d[i] = vv[m + i]
  BY <1>3, DollarFacts
<1>5. /\ Good(s, u) /\ Len(s) = m /\ Last(s) = ss[m] /\ Len(u) = m
      /\ AllIds(s, u) = UNION {IdsAt(ss, vv, k) : k \in 1..m}
      /\ AllIds(s, u) \cap UNION {IdsAt(ss, vv, k) : k \in (m + 1)..Len(ss)} = {}
  BY <1>3, GoodPopped
<1>6. q \in States \ {0} /\ Leads(Last(s), q) /\ At(yystos, q) = lhs
  BY <1>1, <1>2, <1>5, GotoLeads
<1>7. m + n = Len(ss) /\ n \in Nat /\ m \in Nat
  BY <1>1, <1>3
<1> HIDE DEF n, m, s, u, d, q, x, lhs
<1>8. \A i \in 1..n : m + i \in 1..Len(ss) /\ m + i \in (m + 1)..Len(ss)
  BY <1>7
<1>9. \A i \in 1..n : Ids(Rhs(r, i), d[i]) = IdsAt(ss, vv, m + i)
  BY <1>1, <1>4 DEF IdsAt
<1>10. \A i \in 1..n : Sound(Rhs(r, i), d[i])
  BY <1>1, <1>4, <1>8 DEF Good
<1>11. \A i, j \in 1..n : i # j => Ids(Rhs(r, i), d[i]) \cap Ids(Rhs(r, j), d[j]) = {}
  <2> TAKE i, j \in 1..n
  <2> HAVE i # j
  <2>1. m + i # m + j /\ m + i \in 1..Len(ss) /\ m + j \in 1..Len(ss)
    BY <1>7, <1>8
  <2> QED BY <1>9, <2>1 DEF Good
<1>12. all = UNION {IdsAt(ss, vv, k) : k \in (m + 1)..Len(ss)}
  <2>1. \A k \in (m + 1)..Len(ss) : k - m \in 1..n /\ m + (k - m) = k
    BY <1>7
  <2>2. ASSUME NEW k \in (m + 1)..Len(ss)
        PROVE  IdsAt(ss, vv, k) = Ids(Rhs(r, k - m), d[k - m])
    BY <1>9, <2>1
  <2>3. UNION {IdsAt(ss, vv, k) : k \in (m + 1)..Len(ss)} \subseteq all
    BY <2>1, <2>2
  <2>4. all \subseteq UNION {IdsAt(ss, vv, k) : k \in (m + 1)..Len(ss)}
    BY <1>8, <1>9
  <2> QED BY <2>3, <2>4
<1>13. old = AllIds(s, u) \cup all /\ AllIds(s, u) \cap all = {}
  <2>1. \A k \in 1..Len(ss) : k \in 1..m \/ k \in (m + 1)..Len(ss)
    BY <1>7
  <2>2. (\A k \in 1..m : k \in 1..Len(ss)) /\ (\A k \in (m + 1)..Len(ss) : k \in 1..Len(ss))
    BY <1>7
  <2>3. old \subseteq AllIds(s, u) \cup all
    BY <1>5, <1>12, <2>1 DEF AllIds
  <2>4. AllIds(s, u) \subseteq old /\ all \subseteq old
    <3>1. AllIds(s, u) \subseteq old
      BY <1>5, <2>2 DEF AllIds
    <3>2. all \subseteq old
      BY <1>12, <2>2 DEF AllIds
    <3> QED BY <3>1, <3>2
  <2> QED BY <1>5, <1>12, <2>3, <2>4
<1>14. /\ Sound(lhs, x) /\ Ids(lhs, x) \subseteq all
       /\ r \notin {22, 23, 54} => Ids(lhs, x) = all
       /\ r \in 22..23 => all \subseteq Ids(lhs, x) \cup ToSet(FreeString(File(d[1], r)))
       /\ r = 54 => all = {d[1].id} /\ Ids(lhs, x) = {}
  BY <1>2, <1>10, <1>11, ValueFacts DEF n, lhs, x
<1> HIDE DEF all, old
<1>15. /\ Good(Append(s, q), Append(u, x))
       /\ AllIds(Append(s, q), Append(u, x)) = AllIds(s, u) \cup Ids(lhs, x)
  <2>1. Sound(At(yystos, q), x) /\ Ids(At(yystos, q), x) \cap AllIds(s, u) = {}
    BY <1>6, <1>13, <1>14
  <2>2. q \in States
    BY <1>6
  <2> QED BY <1>5, <1>6, <2>1, <2>2, GoodPushed
<1> DEFINE new == AllIds(Append(s, q), Append(u, x))
<1>16. /\ Good(Append(s, q), Append(u, x)) /\ q \in States \ {0}
       /\ new \subseteq old
       /\ r \notin {22, 23, 54} => new = old
       /\ r \in 22..23 => old \subseteq new \cup ToSet(FreeString(File(d[1], r)))
       /\ r = 54 => d[1].id \in old \ new /\ old \subseteq new \cup {d[1].id}
  <2> HIDE DEF new
  <2>1. new = AllIds(s, u) \cup Ids(lhs, x)
    BY <1>15 DEF new
  <2> QED BY <1>6, <1>13, <1>14, <1>15, <2>1
<1> QED BY <1>16 DEF old, s, u, q, x, d, n

LEMMA ReductionIs ==
    ASSUME NEW s \in States \ {YYFINAL}, NEW t \in Tokens, Decision(s, t).do = "reduce"
    PROVE  LET r == Decision(s, t).to
           IN  r # 0 /\ (r = At(yydefact, s) \/ (r = 51 /\ s = 0))
<1> DEFINE n == At(yypact, s) + t
           entry == At(yytable, n)
<1>1. CASE NeedsToken(s) /\ Listed(n, t)
  <2>1. ~(entry > 0) /\ entry # 0 /\ Decision(s, t).to = -entry
    BY <1>1 DEF Decision, Shift, Reduction
  <2>2. n \in 0..247 /\ At(yycheck, n) = t
    BY <1>1 DEF Listed, YYLAST
  <2>3. entry = -51
    BY <2>1, <2>2, EntryFacts DEF YYLAST
  <2>4. n - t = 61
    <3> HIDE DEF n
    <3> QED BY <2>2, <2>3 DEF At, yytable, yycheck
  <2>5. s \in 0..113 /\ t \in 0..45
    BY TableSizes
  <2>6. At(yypact, s) \in Int
    BY <2>5 DEF At, yypact
  <2>7. At(yypact, s) = 61
    BY <2>4, <2>5, <2>6
  <2>8. s = 0
    BY <2>5, <2>7 DEF At, yypact
  <2> QED BY <2>1, <2>3, <2>8
<1>2. CASE ~(NeedsToken(s) /\ Listed(n, t))
  BY <1>2 DEF Decision, Reduction
<1> QED BY <1>1, <1>2

\* The state in which a statement is complete, for each of its rules.
CompleteIn ==
  <<14, 97, 16, 17, 68, 65, 92, 83, 84, 85, 51, 89, 112, 87, 113, 90, 7, 8, 13>>

LEMMA OneStatement ==
    ASSUME NEW s \in States, At(yydefact, s) \in 2..20
    PROVE  s = CompleteIn[At(yydefact, s) - 1]
<1>1. s \in 0..113
  BY TableSizes
<1> QED BY <1>1 DEF At, yydefact, CompleteIn

\* The states that one other leads to, of those in a statement.
Edge(a, q) ==
    /\ q \in {1, 3, 4, 5, 6, 7, 8, 10, 11} => a = 0
    /\ q = 13 => a = 1
    /\ q = 14 => a = 3
    /\ q = 15 => a = 4
    /\ q = 16 => a = 5
    /\ q = 17 => a = 6
    /\ q = 23 => a = 10
    /\ q = 24 => a = 10
    /\ q = 25 => a = 10
    /\ q = 26 => a = 10
    /\ q = 27 => a = 10
    /\ q = 28 => a = 10
    /\ q = 29 => a = 10
    /\ q = 30 => a = 10
    /\ q = 31 => a = 10
    /\ q = 35 => a = 10
    /\ q = 44 => a = 11
    /\ q = 45 => a = 15
    /\ q = 48 => a = 23
    /\ q = 49 => a = 24
    /\ q = 50 => a = 25
    /\ q = 51 => a = 26
    /\ q = 52 => a = 27
    /\ q = 53 => a = 28
    /\ q = 54 => a = 29
    /\ q = 55 => a = 30
    /\ q = 58 => a = 31
    /\ q = 62 => a = 35
    /\ q = 65 => a = 35
    /\ q = 68 => a = 44
    /\ q = 69 => a = 45
    /\ q = 83 => a = 48
    /\ q = 84 => a = 49
    /\ q = 85 => a = 50
    /\ q = 86 => a = 52
    /\ q = 87 => a = 53
    /\ q = 88 => a = 54
    /\ q = 89 => a = 55
    /\ q = 90 => a = 58
    /\ q = 92 => a = 62
    /\ q = 97 => a = 69
    /\ q = 110 => a = 86
    /\ q = 111 => a = 88
    /\ q = 112 => a = 110
    /\ q = 113 => a = 111

LEMMA StatementBack ==
    ASSUME NEW a \in States, NEW q, Leads(a, q)
    PROVE  Edge(a, q)
<1> a \in 0..113
  BY TableSizes
<1>1. q \in {1, 3, 4, 5, 6, 7, 8, 10, 11} => a = 0
  BY DEF Leads, Before, BeforeExpr, BeforeAtom, AfterAny, AfterArithmetic, AfterLogic
<1>2. q = 13 => a = 1
  BY DEF Leads, Before, BeforeExpr, BeforeAtom, AfterAny, AfterArithmetic, AfterLogic
<1>3. q = 14 => a = 3
  BY DEF Leads, Before, BeforeExpr, BeforeAtom, AfterAny, AfterArithmetic, AfterLogic
<1>4. q = 15 => a = 4
  BY DEF Leads, Before, BeforeExpr, BeforeAtom, AfterAny, AfterArithmetic, AfterLogic
<1>5. q = 16 => a = 5
  BY DEF Leads, Before, BeforeExpr, BeforeAtom, AfterAny, AfterArithmetic, AfterLogic
<1>6. q = 17 => a = 6
  BY DEF Leads, Before, BeforeExpr, BeforeAtom, AfterAny, AfterArithmetic, AfterLogic
<1>7. q = 23 => a = 10
  BY DEF Leads, Before, BeforeExpr, BeforeAtom, AfterAny, AfterArithmetic, AfterLogic
<1>8. q = 24 => a = 10
  BY DEF Leads, Before, BeforeExpr, BeforeAtom, AfterAny, AfterArithmetic, AfterLogic
<1>9. q = 25 => a = 10
  BY DEF Leads, Before, BeforeExpr, BeforeAtom, AfterAny, AfterArithmetic, AfterLogic
<1>10. q = 26 => a = 10
  BY DEF Leads, Before, BeforeExpr, BeforeAtom, AfterAny, AfterArithmetic, AfterLogic
<1>11. q = 27 => a = 10
  BY DEF Leads, Before, BeforeExpr, BeforeAtom, AfterAny, AfterArithmetic, AfterLogic
<1>12. q = 28 => a = 10
  BY DEF Leads, Before, BeforeExpr, BeforeAtom, AfterAny, AfterArithmetic, AfterLogic
<1>13. q = 29 => a = 10
  BY DEF Leads, Before, BeforeExpr, BeforeAtom, AfterAny, AfterArithmetic, AfterLogic
<1>14. q = 30 => a = 10
  BY DEF Leads, Before, BeforeExpr, BeforeAtom, AfterAny, AfterArithmetic, AfterLogic
<1>15. q = 31 => a = 10
  BY DEF Leads, Before, BeforeExpr, BeforeAtom, AfterAny, AfterArithmetic, AfterLogic
<1>16. q = 35 => a = 10
  BY DEF Leads, Before, BeforeExpr, BeforeAtom, AfterAny, AfterArithmetic, AfterLogic
<1>17. q = 44 => a = 11
  BY DEF Leads, Before, BeforeExpr, BeforeAtom, AfterAny, AfterArithmetic, AfterLogic
<1>18. q = 45 => a = 15
  BY DEF Leads, Before, BeforeExpr, BeforeAtom, AfterAny, AfterArithmetic, AfterLogic
<1>19. q = 48 => a = 23
  BY DEF Leads, Before, BeforeExpr, BeforeAtom, AfterAny, AfterArithmetic, AfterLogic
<1>20. q = 49 => a = 24
  BY DEF Leads, Before, BeforeExpr, BeforeAtom, AfterAny, AfterArithmetic, AfterLogic
<1>21. q = 50 => a = 25
  BY DEF Leads, Before, BeforeExpr, BeforeAtom, AfterAny, AfterArithmetic, AfterLogic
<1>22. q = 51 => a = 26
  BY DEF Leads, Before, BeforeExpr, BeforeAtom, AfterAny, AfterArithmetic, AfterLogic
<1>23. q = 52 => a = 27
  BY DEF Leads, Before, BeforeExpr, BeforeAtom, AfterAny, AfterArithmetic, AfterLogic
<1>24. q = 53 => a = 28
  BY DEF Leads, Before, BeforeExpr, BeforeAtom, AfterAny, AfterArithmetic, AfterLogic
<1>25. q = 54 => a = 29
  BY DEF Leads, Before, BeforeExpr, BeforeAtom, AfterAny, AfterArithmetic, AfterLogic
<1>26. q = 55 => a = 30
  BY DEF Leads, Before, BeforeExpr, BeforeAtom, AfterAny, AfterArithmetic, AfterLogic
<1>27. q = 58 => a = 31
  BY DEF Leads, Before, BeforeExpr, BeforeAtom, AfterAny, AfterArithmetic, AfterLogic
<1>28. q = 62 => a = 35
  BY DEF Leads, Before, BeforeExpr, BeforeAtom, AfterAny, AfterArithmetic, AfterLogic
<1>29. q = 65 => a = 35
  BY DEF Leads, Before, BeforeExpr, BeforeAtom, AfterAny, AfterArithmetic, AfterLogic
<1>30. q = 68 => a = 44
  BY DEF Leads, Before, BeforeExpr, BeforeAtom, AfterAny, AfterArithmetic, AfterLogic
<1>31. q = 69 => a = 45
  BY DEF Leads, Before, BeforeExpr, BeforeAtom, AfterAny, AfterArithmetic, AfterLogic
<1>32. q = 83 => a = 48
  BY DEF Leads, Before, BeforeExpr, BeforeAtom, AfterAny, AfterArithmetic, AfterLogic
<1>33. q = 84 => a = 49
  BY DEF Leads, Before, BeforeExpr, BeforeAtom, AfterAny, AfterArithmetic, AfterLogic
<1>34. q = 85 => a = 50
  BY DEF Leads, Before, BeforeExpr, BeforeAtom, AfterAny, AfterArithmetic, AfterLogic
<1>35. q = 86 => a = 52
  BY DEF Leads, Before, BeforeExpr, BeforeAtom, AfterAny, AfterArithmetic, AfterLogic
<1>36. q = 87 => a = 53
  BY DEF Leads, Before, BeforeExpr, BeforeAtom, AfterAny, AfterArithmetic, AfterLogic
<1>37. q = 88 => a = 54
  BY DEF Leads, Before, BeforeExpr, BeforeAtom, AfterAny, AfterArithmetic, AfterLogic
<1>38. q = 89 => a = 55
  BY DEF Leads, Before, BeforeExpr, BeforeAtom, AfterAny, AfterArithmetic, AfterLogic
<1>39. q = 90 => a = 58
  BY DEF Leads, Before, BeforeExpr, BeforeAtom, AfterAny, AfterArithmetic, AfterLogic
<1>40. q = 92 => a = 62
  BY DEF Leads, Before, BeforeExpr, BeforeAtom, AfterAny, AfterArithmetic, AfterLogic
<1>41. q = 97 => a = 69
  BY DEF Leads, Before, BeforeExpr, BeforeAtom, AfterAny, AfterArithmetic, AfterLogic
<1>42. q = 110 => a = 86
  BY DEF Leads, Before, BeforeExpr, BeforeAtom, AfterAny, AfterArithmetic, AfterLogic
<1>43. q = 111 => a = 88
  BY DEF Leads, Before, BeforeExpr, BeforeAtom, AfterAny, AfterArithmetic, AfterLogic
<1>44. q = 112 => a = 110
  BY DEF Leads, Before, BeforeExpr, BeforeAtom, AfterAny, AfterArithmetic, AfterLogic
<1>45. q = 113 => a = 111
  BY DEF Leads, Before, BeforeExpr, BeforeAtom, AfterAny, AfterArithmetic, AfterLogic
<1> QED BY <1>1, <1>2, <1>3, <1>4, <1>5, <1>6, <1>7, <1>8, <1>9, <1>10, <1>11, <1>12, <1>13, <1>14, <1>15, <1>16, <1>17, <1>18, <1>19, <1>20, <1>21, <1>22, <1>23, <1>24, <1>25, <1>26, <1>27, <1>28, <1>29, <1>30, <1>31, <1>32, <1>33, <1>34, <1>35, <1>36, <1>37, <1>38, <1>39, <1>40, <1>41, <1>42, <1>43, <1>44, <1>45 DEF Edge

\* The stack on which the rule r of a statement is reduced.
StackOf(r, ss) ==
    /\ r = 2 => ss[2] = 3 /\ ss[3] = 14
    /\ r = 3 => ss[2] = 4 /\ ss[3] = 15 /\ ss[4] = 45 /\ ss[5] = 69 /\ ss[6] = 97
    /\ r = 4 => ss[2] = 5 /\ ss[3] = 16
    /\ r = 5 => ss[2] = 6 /\ ss[3] = 17
    /\ r = 6 => ss[2] = 11 /\ ss[3] = 44 /\ ss[4] = 68
    /\ r = 7 => ss[2] = 10 /\ ss[3] = 35 /\ ss[4] = 65
    /\ r = 8 => ss[2] = 10 /\ ss[3] = 35 /\ ss[4] = 62 /\ ss[5] = 92
    /\ r = 9 => ss[2] = 10 /\ ss[3] = 23 /\ ss[4] = 48 /\ ss[5] = 83
    /\ r = 10 => ss[2] = 10 /\ ss[3] = 24 /\ ss[4] = 49 /\ ss[5] = 84
    /\ r = 11 => ss[2] = 10 /\ ss[3] = 25 /\ ss[4] = 50 /\ ss[5] = 85
    /\ r = 12 => ss[2] = 10 /\ ss[3] = 26 /\ ss[4] = 51
    /\ r = 13 => ss[2] = 10 /\ ss[3] = 30 /\ ss[4] = 55 /\ ss[5] = 89
    /\ r = 14 => ss[2] = 10 /\ ss[3] = 27 /\ ss[4] = 52 /\ ss[5] = 86 /\ ss[6] = 110 /\ ss[7] = 112
    /\ r = 15 => ss[2] = 10 /\ ss[3] = 28 /\ ss[4] = 53 /\ ss[5] = 87
    /\ r = 16 => ss[2] = 10 /\ ss[3] = 29 /\ ss[4] = 54 /\ ss[5] = 88 /\ ss[6] = 111 /\ ss[7] = 113
    /\ r = 17 => ss[2] = 10 /\ ss[3] = 31 /\ ss[4] = 58 /\ ss[5] = 90
    /\ r = 18 => ss[2] = 7
    /\ r = 19 => ss[2] = 8
    /\ r = 20 => ss[2] = 1 /\ ss[3] = 13

LEMMA StatementStack ==
    ASSUME NEW ss, NEW vv, Good(ss, vv), NEW r \in 2..20, r = At(yydefact, Last(ss))
    PROVE  /\ Len(ss) = At(yyr2, r) + 1
           /\ StackOf(r, ss)
<1> DEFINE l == Len(ss)
           n == At(yyr2, r)
           a0 == ss[l - 0]
           a1 == ss[l - 1]
           a2 == ss[l - 2]
           a3 == ss[l - 3]
           a4 == ss[l - 4]
           a5 == ss[l - 5]
           a6 == ss[l - 6]
<1>1. l \in Nat \ {0} /\ l \in 1..l /\ Last(ss) = ss[l] /\ ss[l] \in States
  <2>1. l \in Nat \ {0} /\ l \in 1..l /\ Last(ss) = ss[l]
    BY DEF Good, Last
  <2> QED BY <2>1, Beneath
<1>2. a0 = CompleteIn[r - 1]
  BY <1>1, OneStatement
<1>3. \A k \in 1..l : ss[k] = 0 => k = 1
  BY Beneath
<1>4. ASSUME NEW k \in 1..l, ss[k] # 0 PROVE k - 1 \in 1..l /\ Edge(ss[k - 1], ss[k])
  <2>1. k > 1
    BY <1>1, <1>4, Beneath
  <2> QED BY <2>1, Beneath, StatementBack
<1>5. l - 0 \in 1..l
  BY <1>1
<1>6. l - 0 \in 1..l /\ a0 # 0 => l - 1 \in 1..l /\ Edge(a1, a0)
  <2>1. (l - 0) - 1 = l - 1
    BY <1>1
  <2> QED BY <1>4, <2>1
<1>7. l - 1 \in 1..l /\ a1 # 0 => l - 2 \in 1..l /\ Edge(a2, a1)
  <2>1. (l - 1) - 1 = l - 2
    BY <1>1
  <2> QED BY <1>4, <2>1
<1>8. l - 2 \in 1..l /\ a2 # 0 => l - 3 \in 1..l /\ Edge(a3, a2)
  <2>1. (l - 2) - 1 = l - 3
    BY <1>1
  <2> QED BY <1>4, <2>1
<1>9. l - 3 \in 1..l /\ a3 # 0 => l - 4 \in 1..l /\ Edge(a4, a3)
  <2>1. (l - 3) - 1 = l - 4
    BY <1>1
  <2> QED BY <1>4, <2>1
<1>10. l - 4 \in 1..l /\ a4 # 0 => l - 5 \in 1..l /\ Edge(a5, a4)
  <2>1. (l - 4) - 1 = l - 5
    BY <1>1
  <2> QED BY <1>4, <2>1
<1>11. l - 5 \in 1..l /\ a5 # 0 => l - 6 \in 1..l /\ Edge(a6, a5)
  <2>1. (l - 5) - 1 = l - 6
    BY <1>1
  <2> QED BY <1>4, <2>1
<1>12. \A i \in 0..6 : l - i \in 1..l /\ ss[l - i] = 0 => l = i + 1
  BY <1>1, <1>3
<1>13. /\ l - 0 \in 1..l /\ a0 = 0 => l = 1
       /\ l - 1 \in 1..l /\ a1 = 0 => l = 2
       /\ l - 2 \in 1..l /\ a2 = 0 => l = 3
       /\ l - 3 \in 1..l /\ a3 = 0 => l = 4
       /\ l - 4 \in 1..l /\ a4 = 0 => l = 5
       /\ l - 5 \in 1..l /\ a5 = 0 => l = 6
       /\ l - 6 \in 1..l /\ a6 = 0 => l = 7
  BY <1>12
<1> HIDE DEF a0, a1, a2, a3, a4, a5, a6
<1>15. CASE r = 2
  <2>1. a0 = 14
    BY <1>2, <1>15 DEF CompleteIn
  <2>2. /\ a1 = 3 /\ a2 = 0
        /\ l = 3
    BY <2>1, <1>5, <1>6, <1>7, <1>13 DEF Edge
  <2>3. At(yyr2, 2) = 2
    BY DEF At, yyr2
  <2>4. ss[2] = 3 /\ ss[3] = 14
    BY <2>1, <2>2 DEF a0, a1
  <2> QED BY <1>15, <2>2, <2>3, <2>4 DEF StackOf
<1>16. CASE r = 3
  <2>1. a0 = 97
    BY <1>2, <1>16 DEF CompleteIn
  <2>2. /\ a1 = 69 /\ a2 = 45 /\ a3 = 15 /\ a4 = 4 /\ a5 = 0
        /\ l = 6
    BY <2>1, <1>5, <1>6, <1>7, <1>8, <1>9, <1>10, <1>13 DEF Edge
  <2>3. At(yyr2, 3) = 5
    BY DEF At, yyr2
  <2>4. ss[2] = 4 /\ ss[3] = 15 /\ ss[4] = 45 /\ ss[5] = 69 /\ ss[6] = 97
    BY <2>1, <2>2 DEF a0, a1, a2, a3, a4
  <2> QED BY <1>16, <2>2, <2>3, <2>4 DEF StackOf
<1>17. CASE r = 4
  <2>1. a0 = 16
    BY <1>2, <1>17 DEF CompleteIn
  <2>2. /\ a1 = 5 /\ a2 = 0
        /\ l = 3
    BY <2>1, <1>5, <1>6, <1>7, <1>13 DEF Edge
  <2>3. At(yyr2, 4) = 2
    BY DEF At, yyr2
  <2>4. ss[2] = 5 /\ ss[3] = 16
    BY <2>1, <2>2 DEF a0, a1
  <2> QED BY <1>17, <2>2, <2>3, <2>4 DEF StackOf
<1>18. CASE r = 5
  <2>1. a0 = 17
    BY <1>2, <1>18 DEF CompleteIn
  <2>2. /\ a1 = 6 /\ a2 = 0
        /\ l = 3
    BY <2>1, <1>5, <1>6, <1>7, <1>13 DEF Edge
  <2>3. At(yyr2, 5) = 2
    BY DEF At, yyr2
  <2>4. ss[2] = 6 /\ ss[3] = 17
    BY <2>1, <2>2 DEF a0, a1
  <2> QED BY <1>18, <2>2, <2>3, <2>4 DEF StackOf
<1>19. CASE r = 6
  <2>1. a0 = 68
    BY <1>2, <1>19 DEF CompleteIn
  <2>2. /\ a1 = 44 /\ a2 = 11 /\ a3 = 0
        /\ l = 4
    BY <2>1, <1>5, <1>6, <1>7, <1>8, <1>13 DEF Edge
  <2>3. At(yyr2, 6) = 3
    BY DEF At, yyr2
  <2>4. ss[2] = 11 /\ ss[3] = 44 /\ ss[4] = 68
    BY <2>1, <2>2 DEF a0, a1, a2
  <2> QED BY <1>19, <2>2, <2>3, <2>4 DEF StackOf
<1>20. CASE r = 7
  <2>1. a0 = 65
    BY <1>2, <1>20 DEF CompleteIn
  <2>2. /\ a1 = 35 /\ a2 = 10 /\ a3 = 0
        /\ l = 4
    BY <2>1, <1>5, <1>6, <1>7, <1>8, <1>13 DEF Edge
  <2>3. At(yyr2, 7) = 3
    BY DEF At, yyr2
  <2>4. ss[2] = 10 /\ ss[3] = 35 /\ ss[4] = 65
    BY <2>1, <2>2 DEF a0, a1, a2
  <2> QED BY <1>20, <2>2, <2>3, <2>4 DEF StackOf
<1>21. CASE r = 8
  <2>1. a0 = 92
    BY <1>2, <1>21 DEF CompleteIn
  <2>2. /\ a1 = 62 /\ a2 = 35 /\ a3 = 10 /\ a4 = 0
        /\ l = 5
    BY <2>1, <1>5, <1>6, <1>7, <1>8, <1>9, <1>13 DEF Edge
  <2>3. At(yyr2, 8) = 4
    BY DEF At, yyr2
  <2>4. ss[2] = 10 /\ ss[3] = 35 /\ ss[4] = 62 /\ ss[5] = 92
    BY <2>1, <2>2 DEF a0, a1, a2, a3
  <2> QED BY <1>21, <2>2, <2>3, <2>4 DEF StackOf
<1>22. CASE r = 9
  <2>1. a0 = 83
    BY <1>2, <1>22 DEF CompleteIn
  <2>2. /\ a1 = 48 /\ a2 = 23 /\ a3 = 10 /\ a4 = 0
        /\ l = 5
    BY <2>1, <1>5, <1>6, <1>7, <1>8, <1>9, <1>13 DEF Edge
  <2>3. At(yyr2, 9) = 4
    BY DEF At, yyr2
  <2>4. ss[2] = 10 /\ ss[3] = 23 /\ ss[4] = 48 /\ ss[5] = 83
    BY <2>1, <2>2 DEF a0, a1, a2, a3
  <2> QED BY <1>22, <2>2, <2>3, <2>4 DEF StackOf
<1>23. CASE r = 10
  <2>1. a0 = 84
    BY <1>2, <1>23 DEF CompleteIn
  <2>2. /\ a1 = 49 /\ a2 = 24 /\ a3 = 10 /\ a4 = 0
        /\ l = 5
    BY <2>1, <1>5, <1>6, <1>7, <1>8, <1>9, <1>13 DEF Edge
  <2>3. At(yyr2, 10) = 4
    BY DEF At, yyr2
  <2>4. ss[2] = 10 /\ ss[3] = 24 /\ ss[4] = 49 /\ ss[5] = 84
    BY <2>1, <2>2 DEF a0, a1, a2, a3
  <2> QED BY <1>23, <2>2, <2>3, <2>4 DEF StackOf
<1>24. CASE r = 11
  <2>1. a0 = 85
    BY <1>2, <1>24 DEF CompleteIn
  <2>2. /\ a1 = 50 /\ a2 = 25 /\ a3 = 10 /\ a4 = 0
        /\ l = 5
    BY <2>1, <1>5, <1>6, <1>7, <1>8, <1>9, <1>13 DEF Edge
  <2>3. At(yyr2, 11) = 4
    BY DEF At, yyr2
  <2>4. ss[2] = 10 /\ ss[3] = 25 /\ ss[4] = 50 /\ ss[5] = 85
    BY <2>1, <2>2 DEF a0, a1, a2, a3
  <2> QED BY <1>24, <2>2, <2>3, <2>4 DEF StackOf
<1>25. CASE r = 12
  <2>1. a0 = 51
    BY <1>2, <1>25 DEF CompleteIn
  <2>2. /\ a1 = 26 /\ a2 = 10 /\ a3 = 0
        /\ l = 4
    BY <2>1, <1>5, <1>6, <1>7, <1>8, <1>13 DEF Edge
  <2>3. At(yyr2, 12) = 3
    BY DEF At, yyr2
  <2>4. ss[2] = 10 /\ ss[3] = 26 /\ ss[4] = 51
    BY <2>1, <2>2 DEF a0, a1, a2
  <2> QED BY <1>25, <2>2, <2>3, <2>4 DEF StackOf
<1>26. CASE r = 13
  <2>1. a0 = 89
    BY <1>2, <1>26 DEF CompleteIn
  <2>2. /\ a1 = 55 /\ a2 = 30 /\ a3 = 10 /\ a4 = 0
        /\ l = 5
    BY <2>1, <1>5, <1>6, <1>7, <1>8, <1>9, <1>13 DEF Edge
  <2>3. At(yyr2, 13) = 4
    BY DEF At, yyr2
  <2>4. ss[2] = 10 /\ ss[3] = 30 /\ ss[4] = 55 /\ ss[5] = 89
    BY <2>1, <2>2 DEF a0, a1, a2, a3
  <2> QED BY <1>26, <2>2, <2>3, <2>4 DEF StackOf
<1>27. CASE r = 14
  <2>1. a0 = 112
    BY <1>2, <1>27 DEF CompleteIn
  <2>2. /\ a1 = 110 /\ a2 = 86 /\ a3 = 52 /\ a4 = 27 /\ a5 = 10 /\ a6 = 0
        /\ l = 7
    BY <2>1, <1>5, <1>6, <1>7, <1>8, <1>9, <1>10, <1>11, <1>13 DEF Edge
  <2>3. At(yyr2, 14) = 6
    BY DEF At, yyr2
  <2>4. ss[2] = 10 /\ ss[3] = 27 /\ ss[4] = 52 /\ ss[5] = 86 /\ ss[6] = 110 /\ ss[7] = 112
    BY <2>1, <2>2 DEF a0, a1, a2, a3, a4, a5
  <2> QED BY <1>27, <2>2, <2>3, <2>4 DEF StackOf
<1>28. CASE r = 15
  <2>1. a0 = 87
    BY <1>2, <1>28 DEF CompleteIn
  <2>2. /\ a1 = 53 /\ a2 = 28 /\ a3 = 10 /\ a4 = 0
        /\ l = 5
    BY <2>1, <1>5, <1>6, <1>7, <1>8, <1>9, <1>13 DEF Edge
  <2>3. At(yyr2, 15) = 4
    BY DEF At, yyr2
  <2>4. ss[2] = 10 /\ ss[3] = 28 /\ ss[4] = 53 /\ ss[5] = 87
    BY <2>1, <2>2 DEF a0, a1, a2, a3
  <2> QED BY <1>28, <2>2, <2>3, <2>4 DEF StackOf
<1>29. CASE r = 16
  <2>1. a0 = 113
    BY <1>2, <1>29 DEF CompleteIn
  <2>2. /\ a1 = 111 /\ a2 = 88 /\ a3 = 54 /\ a4 = 29 /\ a5 = 10 /\ a6 = 0
        /\ l = 7
    BY <2>1, <1>5, <1>6, <1>7, <1>8, <1>9, <1>10, <1>11, <1>13 DEF Edge
  <2>3. At(yyr2, 16) = 6
    BY DEF At, yyr2
  <2>4. ss[2] = 10 /\ ss[3] = 29 /\ ss[4] = 54 /\ ss[5] = 88 /\ ss[6] = 111 /\ ss[7] = 113
    BY <2>1, <2>2 DEF a0, a1, a2, a3, a4, a5
  <2> QED BY <1>29, <2>2, <2>3, <2>4 DEF StackOf
<1>30. CASE r = 17
  <2>1. a0 = 90
    BY <1>2, <1>30 DEF CompleteIn
  <2>2. /\ a1 = 58 /\ a2 = 31 /\ a3 = 10 /\ a4 = 0
        /\ l = 5
    BY <2>1, <1>5, <1>6, <1>7, <1>8, <1>9, <1>13 DEF Edge
  <2>3. At(yyr2, 17) = 4
    BY DEF At, yyr2
  <2>4. ss[2] = 10 /\ ss[3] = 31 /\ ss[4] = 58 /\ ss[5] = 90
    BY <2>1, <2>2 DEF a0, a1, a2, a3
  <2> QED BY <1>30, <2>2, <2>3, <2>4 DEF StackOf
<1>31. CASE r = 18
  <2>1. a0 = 7
    BY <1>2, <1>31 DEF CompleteIn
  <2>2. /\ a1 = 0
        /\ l = 2
    BY <2>1, <1>5, <1>6, <1>13 DEF Edge
  <2>3. At(yyr2, 18) = 1
    BY DEF At, yyr2
  <2>4. ss[2] = 7
    BY <2>1, <2>2 DEF a0
  <2> QED BY <1>31, <2>2, <2>3, <2>4 DEF StackOf
<1>32. CASE r = 19
  <2>1. a0 = 8
    BY <1>2, <1>32 DEF CompleteIn
  <2>2. /\ a1 = 0
        /\ l = 2
    BY <2>1, <1>5, <1>6, <1>13 DEF Edge
  <2>3. At(yyr2, 19) = 1
    BY DEF At, yyr2
  <2>4. ss[2] = 8
    BY <2>1, <2>2 DEF a0
  <2> QED BY <1>32, <2>2, <2>3, <2>4 DEF StackOf
<1>33. CASE r = 20
  <2>1. a0 = 13
    BY <1>2, <1>33 DEF CompleteIn
  <2>2. /\ a1 = 1 /\ a2 = 0
        /\ l = 3
    BY <2>1, <1>5, <1>6, <1>7, <1>13 DEF Edge
  <2>3. At(yyr2, 20) = 2
    BY DEF At, yyr2
  <2>4. ss[2] = 1 /\ ss[3] = 13
    BY <2>1, <2>2 DEF a0, a1
  <2> QED BY <1>33, <2>2, <2>3, <2>4 DEF StackOf
<1> QED BY <1>15, <1>16, <1>17, <1>18, <1>19, <1>20, <1>21, <1>22, <1>23, <1>24, <1>25, <1>26, <1>27, <1>28, <1>29, <1>30, <1>31, <1>32, <1>33

-----------------------------------------------------------------------------
(* Statements.                                                             *)

Owning == OfString \cup 48..54

LEMMA OwnedAt ==
    ASSUME NEW ss, NEW vv, Good(ss, vv), NEW K \in SUBSET (1..Len(ss)),
           \A k \in 1..Len(ss) : k \in K \/ At(yystos, ss[k]) \notin Owning
    PROVE  AllIds(ss, vv) = UNION {IdsAt(ss, vv, k) : k \in K}
<1>1. \A k \in 1..Len(ss) : k \in K \/ IdsAt(ss, vv, k) = {}
  BY Ownerless DEF Owning, IdsAt
<1> QED BY <1>1 DEF AllIds

LEMMA StatementValues ==
    ASSUME NEW d
    PROVE  /\ \A r \in {2, 4, 5, 6, 12} : \E class \in {"LIST", "RUN", "CONT", "STOP", "PAUSE"} :
                 \E n : Value(r, d) = Stmt(class, n)
           /\ Value(3, d) = [class |-> "DELETE", lineno |-> 0, from |-> d[2], to |-> d[4]]
           /\ Value(7, d) = [class |-> "FG", lineno |-> d[1], pipeline |-> d[2]]
           /\ Value(8, d) = [class |-> "BG", lineno |-> d[1], pipeline |-> d[2]]
           /\ Value(9, d) = [class |-> "WAIT", lineno |-> d[1], expr |-> d[3]]
           /\ Value(10, d) = [class |-> "POLL", lineno |-> d[1], expr |-> d[3]]
           /\ Value(11, d) = [class |-> "CANCEL", lineno |-> d[1], expr |-> d[3]]
           /\ Value(13, d) = [class |-> "GOTO", lineno |-> d[1], target |-> d[3]]
           /\ Value(14, d) = [class |-> "SET", lineno |-> d[1], name |-> d[3], expr |-> d[5]]
           /\ Value(15, d) = [class |-> "UNSET", lineno |-> d[1], name |-> d[3]]
           /\ Value(16, d) = [class |-> "IF", lineno |-> d[1], expr |-> d[3], target |-> d[5]]
           /\ Value(17, d) = [class |-> "SOURCE", lineno |-> d[1], file |-> d[3]]
           /\ Value(18, d) = NULL /\ Value(20, d) = NULL
<1>1. \A r \in 2..6 : Value(r, d) = SimpleStatement(r, d)
  BY DEF Value, PipelineRules, ExprRules
<1>2. \A r \in 7..12 : Value(r, d) = JobStatement(r, d)
  BY DEF Value, PipelineRules, ExprRules
<1>3. \A r \in 13..20 : Value(r, d) = ProgramStatement(r, d)
  BY DEF Value, PipelineRules, ExprRules
<1> QED BY <1>1, <1>2, <1>3 DEF SimpleStatement, JobStatement, ProgramStatement

LEMMA FreeStatement ==
    ASSUME NEW s
    PROVE  /\ s = NULL => free_stmt(s) = <<>>
           /\ s.class \in {"FG", "BG"} => free_stmt(s) = free_pipeline(s.pipeline)
           /\ s.class \in {"WAIT", "POLL", "CANCEL", "IF"} => free_stmt(s) = free_expr(s.expr)
           /\ s.class = "SET" => free_stmt(s) = FreeString(s.name) \o free_expr(s.expr)
           /\ s.class = "UNSET" => free_stmt(s) = FreeString(s.name)
           /\ s.class = "SOURCE" => free_stmt(s) = FreeString(s.file)
           /\ s.class \in {"LIST", "RUN", "CONT", "STOP", "PAUSE", "DELETE", "GOTO"} =>
                 free_stmt(s) = <<>>
<1>1. s = NULL => free_stmt(s) = <<>>
  <2>1. NULL.class = "null"
    BY DEF NULL
  <2>2. HAVE s = NULL
  <2>3. s.class \notin {"FG", "BG", "WAIT", "POLL", "CANCEL", "IF", "SET", "UNSET", "SOURCE"}
    BY <2>1, <2>2
  <2> QED BY <2>2, <2>3 DEF free_stmt
<1>2. s.class # "null" => s # NULL
  BY DEF NULL
<1>3. s.class \in {"FG", "BG"} => free_stmt(s) = free_pipeline(s.pipeline)
  BY <1>2 DEF free_stmt
<1>4. s.class \in {"WAIT", "POLL", "CANCEL", "IF"} => free_stmt(s) = free_expr(s.expr)
  BY <1>2 DEF free_stmt
<1>5. s.class = "SET" => free_stmt(s) = FreeString(s.name) \o free_expr(s.expr)
  BY <1>2 DEF free_stmt
<1>6. s.class = "UNSET" => free_stmt(s) = FreeString(s.name)
  BY <1>2 DEF free_stmt
<1>7. s.class = "SOURCE" => free_stmt(s) = FreeString(s.file)
  BY <1>2 DEF free_stmt
<1>8. s.class \in {"LIST", "RUN", "CONT", "STOP", "PAUSE", "DELETE", "GOTO"} =>
         free_stmt(s) = <<>>
  BY <1>2 DEF free_stmt
<1> QED BY <1>1, <1>3, <1>4, <1>5, <1>6, <1>7, <1>8

\* A statement that runs a pipeline.
IsRun(s) ==
    /\ s = [class |-> s.class, lineno |-> s.lineno, pipeline |-> s.pipeline]
    /\ IsPipeline(s.pipeline, Nat)

\* What the statement s owns is what was on the stack, each string once.
Owner(s, ids) ==
    /\ IsInjective(free_stmt(s)) /\ ToSet(free_stmt(s)) = ids
    /\ s # NULL /\ s.class \in {"FG", "BG"} => IsRun(s)

LEMMA StatementOwns ==
    ASSUME NEW ss, NEW vv, Good(ss, vv), NEW r \in 2..20, r = At(yydefact, Last(ss)), r # 19
    PROVE  Owner(Value(r, DollarsOf(vv, At(yyr2, r))), AllIds(ss, vv))
<1> DEFINE d == DollarsOf(vv, At(yyr2, r))
           s == Value(r, d)
           n == At(yyr2, r)
           Owns == IsInjective(free_stmt(s)) /\ ToSet(free_stmt(s)) = AllIds(ss, vv)
<1>1. n \in Nat /\ Len(ss) = n + 1 /\ IsSeq(vv) /\ Len(vv) = n + 1
  <2>1. Len(ss) = n + 1
    BY StatementStack
  <2>2. n \in Nat
    BY DEF At, yyr2
  <2> QED BY <2>1, <2>2 DEF Good
<1>2. \A i \in 1..n : d[i] = vv[i + 1]
  <2>1. n \in 0..Len(vv) /\ \A i \in 1..n : Len(vv) - n + i = i + 1
    BY <1>1
  <2>2. \A i \in 1..n : DollarsOf(vv, n)[i] = vv[Len(vv) - n + i]
    BY <1>1, <2>1, DollarFacts
  <2> QED BY <2>1, <2>2
<1>3. \A k \in 1..(n + 1) : Sound(At(yystos, ss[k]), vv[k])
  BY <1>1 DEF Good
<1>4. \A k, l \in 1..(n + 1) : k # l => IdsAt(ss, vv, k) \cap IdsAt(ss, vv, l) = {}
  BY <1>1 DEF Good
<1>5. ss[1] = 0
  BY DEF Good
<1>6. \A K \in SUBSET (1..(n + 1)) :
        (\A k \in 1..(n + 1) : k \in K \/ At(yystos, ss[k]) \notin Owning)
           => AllIds(ss, vv) = UNION {IdsAt(ss, vv, k) : k \in K}
  BY <1>1, OwnedAt
<1>7. StackOf(r, ss)
  BY StatementStack
<1>25. (\A k \in 1..(n + 1) : At(yystos, ss[k]) \notin Owning) => AllIds(ss, vv) = {}
  <2>1. {} \in SUBSET (1..(n + 1))
    OBVIOUS
  <2> QED BY <1>6, <2>1
<1>28. \A a \in 1..(n + 1) :
          (\A k \in 1..(n + 1) : k = a \/ At(yystos, ss[k]) \notin Owning)
             => AllIds(ss, vv) = IdsAt(ss, vv, a)
  <2> TAKE a \in 1..(n + 1)
  <2>1. {a} \in SUBSET (1..(n + 1))
    OBVIOUS
  <2> QED BY <1>6, <2>1
<1>29. \A a, b \in 1..(n + 1) :
          (\A k \in 1..(n + 1) : k \in {a, b} \/ At(yystos, ss[k]) \notin Owning)
             => AllIds(ss, vv) = IdsAt(ss, vv, a) \cup IdsAt(ss, vv, b)
  <2> TAKE a, b \in 1..(n + 1)
  <2>1. {a, b} \in SUBSET (1..(n + 1))
    OBVIOUS
  <2> QED BY <1>6, <2>1
<1> SUFFICES Owns /\ (s # NULL /\ s.class \in {"FG", "BG"} => IsRun(s))
  BY DEF Owner
<1>27. r \in {2, 4, 5, 6, 12} =>
          \E class \in {"LIST", "RUN", "CONT", "STOP", "PAUSE"} : \E x : s = Stmt(class, x)
  BY StatementValues, Zenon
<1> HIDE DEF n, s, d
<1>8. CASE r = 2
  <2>1. ss[2] = 3 /\ ss[3] = 14
    BY <1>8, <1>7 DEF StackOf
  <2>2. n = 2
    BY <1>8 DEF n, At, yyr2
  <2>3. \A k \in 1..3 : At(yystos, ss[k]) \notin Owning
    BY <1>5, <2>1 DEF At, yystos, Owning, OfString
  <2>4. AllIds(ss, vv) = {}
    BY <1>25, <2>2, <2>3
  <2>5. PICK class \in {"LIST", "RUN", "CONT", "STOP", "PAUSE"} : \E x : s = Stmt(class, x)
    BY <1>8, <1>27
  <2>6. s.class \in {"LIST", "RUN", "CONT", "STOP", "PAUSE", "DELETE", "GOTO"}
    BY <2>5 DEF Stmt
  <2>7. free_stmt(s) = <<>>
    BY <2>6, FreeStatement
  <2> QED BY <2>4, <2>6, <2>7, NoIds
<1>9. CASE r = 3
  <2>1. ss[2] = 4 /\ ss[3] = 15 /\ ss[4] = 45 /\ ss[5] = 69 /\ ss[6] = 97
    BY <1>9, <1>7 DEF StackOf
  <2>2. n = 5
    BY <1>9 DEF n, At, yyr2
  <2>3. \A k \in 1..6 : At(yystos, ss[k]) \notin Owning
    BY <1>5, <2>1 DEF At, yystos, Owning, OfString
  <2>4. AllIds(ss, vv) = {}
    BY <1>25, <2>2, <2>3
  <2>5. s = [class |-> "DELETE", lineno |-> 0, from |-> d[2], to |-> d[4]]
    BY <1>9, StatementValues DEF s
  <2>6. s.class \in {"LIST", "RUN", "CONT", "STOP", "PAUSE", "DELETE", "GOTO"}
    BY <2>5
  <2>7. free_stmt(s) = <<>>
    BY <2>6, FreeStatement
  <2> QED BY <2>4, <2>6, <2>7, NoIds
<1>10. CASE r = 4
  <2>1. ss[2] = 5 /\ ss[3] = 16
    BY <1>10, <1>7 DEF StackOf
  <2>2. n = 2
    BY <1>10 DEF n, At, yyr2
  <2>3. \A k \in 1..3 : At(yystos, ss[k]) \notin Owning
    BY <1>5, <2>1 DEF At, yystos, Owning, OfString
  <2>4. AllIds(ss, vv) = {}
    BY <1>25, <2>2, <2>3
  <2>5. PICK class \in {"LIST", "RUN", "CONT", "STOP", "PAUSE"} : \E x : s = Stmt(class, x)
    BY <1>10, <1>27
  <2>6. s.class \in {"LIST", "RUN", "CONT", "STOP", "PAUSE", "DELETE", "GOTO"}
    BY <2>5 DEF Stmt
  <2>7. free_stmt(s) = <<>>
    BY <2>6, FreeStatement
  <2> QED BY <2>4, <2>6, <2>7, NoIds
<1>11. CASE r = 5
  <2>1. ss[2] = 6 /\ ss[3] = 17
    BY <1>11, <1>7 DEF StackOf
  <2>2. n = 2
    BY <1>11 DEF n, At, yyr2
  <2>3. \A k \in 1..3 : At(yystos, ss[k]) \notin Owning
    BY <1>5, <2>1 DEF At, yystos, Owning, OfString
  <2>4. AllIds(ss, vv) = {}
    BY <1>25, <2>2, <2>3
  <2>5. PICK class \in {"LIST", "RUN", "CONT", "STOP", "PAUSE"} : \E x : s = Stmt(class, x)
    BY <1>11, <1>27
  <2>6. s.class \in {"LIST", "RUN", "CONT", "STOP", "PAUSE", "DELETE", "GOTO"}
    BY <2>5 DEF Stmt
  <2>7. free_stmt(s) = <<>>
    BY <2>6, FreeStatement
  <2> QED BY <2>4, <2>6, <2>7, NoIds
<1>12. CASE r = 6
  <2>1. ss[2] = 11 /\ ss[3] = 44 /\ ss[4] = 68
    BY <1>12, <1>7 DEF StackOf
  <2>2. n = 3
    BY <1>12 DEF n, At, yyr2
  <2>3. \A k \in 1..4 : At(yystos, ss[k]) \notin Owning
    BY <1>5, <2>1 DEF At, yystos, Owning, OfString
  <2>4. AllIds(ss, vv) = {}
    BY <1>25, <2>2, <2>3
  <2>5. PICK class \in {"LIST", "RUN", "CONT", "STOP", "PAUSE"} : \E x : s = Stmt(class, x)
    BY <1>12, <1>27
  <2>6. s.class \in {"LIST", "RUN", "CONT", "STOP", "PAUSE", "DELETE", "GOTO"}
    BY <2>5 DEF Stmt
  <2>7. free_stmt(s) = <<>>
    BY <2>6, FreeStatement
  <2> QED BY <2>4, <2>6, <2>7, NoIds
<1>13. CASE r = 7
  <2>1. ss[2] = 10 /\ ss[3] = 35 /\ ss[4] = 65
    BY <1>13, <1>7 DEF StackOf
  <2>2. n = 3
    BY <1>13 DEF n, At, yyr2
  <2>3. \A k \in 1..4 : k = 3 \/ At(yystos, ss[k]) \notin Owning
    BY <1>5, <2>1 DEF At, yystos, Owning, OfString
  <2>4. AllIds(ss, vv) = IdsAt(ss, vv, 3)
    <3>1. 3 \in 1..(n + 1)
      BY <2>2
    <3> QED BY <2>2, <2>3, <3>1, <1>28
  <2>5. At(yystos, ss[3]) = 48 /\ d[2] = vv[3]
    BY <1>2, <2>1, <2>2 DEF At, yystos
  <2>6. Sound(48, d[2]) /\ IdsAt(ss, vv, 3) = Ids(48, d[2])
    BY <1>3, <2>2, <2>5 DEF IdsAt
  <2>7. s = [class |-> "FG", lineno |-> d[1], pipeline |-> d[2]]
    BY <1>13, StatementValues DEF s
  <2>8. /\ s.class = "FG" /\ s.pipeline = d[2]
        /\ s = [class |-> s.class, lineno |-> s.lineno, pipeline |-> s.pipeline]
    BY <2>7
  <2>9. free_stmt(s) = free_pipeline(d[2])
    BY <2>8, FreeStatement
  <2> QED BY <2>4, <2>6, <2>8, <2>9, Others DEF Sound, Ids, IsRun
<1>14. CASE r = 8
  <2>1. ss[2] = 10 /\ ss[3] = 35 /\ ss[4] = 62 /\ ss[5] = 92
    BY <1>14, <1>7 DEF StackOf
  <2>2. n = 4
    BY <1>14 DEF n, At, yyr2
  <2>3. \A k \in 1..5 : k = 3 \/ At(yystos, ss[k]) \notin Owning
    BY <1>5, <2>1 DEF At, yystos, Owning, OfString
  <2>4. AllIds(ss, vv) = IdsAt(ss, vv, 3)
    <3>1. 3 \in 1..(n + 1)
      BY <2>2
    <3> QED BY <2>2, <2>3, <3>1, <1>28
  <2>5. At(yystos, ss[3]) = 48 /\ d[2] = vv[3]
    BY <1>2, <2>1, <2>2 DEF At, yystos
  <2>6. Sound(48, d[2]) /\ IdsAt(ss, vv, 3) = Ids(48, d[2])
    BY <1>3, <2>2, <2>5 DEF IdsAt
  <2>7. s = [class |-> "BG", lineno |-> d[1], pipeline |-> d[2]]
    BY <1>14, StatementValues DEF s
  <2>8. /\ s.class = "BG" /\ s.pipeline = d[2]
        /\ s = [class |-> s.class, lineno |-> s.lineno, pipeline |-> s.pipeline]
    BY <2>7
  <2>9. free_stmt(s) = free_pipeline(d[2])
    BY <2>8, FreeStatement
  <2> QED BY <2>4, <2>6, <2>8, <2>9, Others DEF Sound, Ids, IsRun
<1>15. CASE r = 9
  <2>1. ss[2] = 10 /\ ss[3] = 23 /\ ss[4] = 48 /\ ss[5] = 83
    BY <1>15, <1>7 DEF StackOf
  <2>2. n = 4
    BY <1>15 DEF n, At, yyr2
  <2>3. \A k \in 1..5 : k = 4 \/ At(yystos, ss[k]) \notin Owning
    BY <1>5, <2>1 DEF At, yystos, Owning, OfString
  <2>4. AllIds(ss, vv) = IdsAt(ss, vv, 4)
    <3>1. 4 \in 1..(n + 1)
      BY <2>2
    <3> QED BY <2>2, <2>3, <3>1, <1>28
  <2>5. At(yystos, ss[4]) = 54 /\ d[3] = vv[4]
    BY <1>2, <2>1, <2>2 DEF At, yystos
  <2>6. Sound(54, d[3]) /\ IdsAt(ss, vv, 4) = Ids(54, d[3])
    BY <1>3, <2>2, <2>5 DEF IdsAt
  <2>7. s = [class |-> "WAIT", lineno |-> d[1], expr |-> d[3]]
    BY <1>15, StatementValues DEF s
  <2>8. s.class = "WAIT" /\ s.expr = d[3]
    BY <2>7
  <2>9. free_stmt(s) = free_expr(d[3])
    BY <2>8, FreeStatement
  <2>10. 54 \in 52..54 /\ s.class \notin {"FG", "BG"}
    BY <2>8
  <2> QED BY <2>4, <2>6, <2>9, <2>10, Others DEF Sound, Ids
<1>16. CASE r = 10
  <2>1. ss[2] = 10 /\ ss[3] = 24 /\ ss[4] = 49 /\ ss[5] = 84
    BY <1>16, <1>7 DEF StackOf
  <2>2. n = 4
    BY <1>16 DEF n, At, yyr2
  <2>3. \A k \in 1..5 : k = 4 \/ At(yystos, ss[k]) \notin Owning
    BY <1>5, <2>1 DEF At, yystos, Owning, OfString
  <2>4. AllIds(ss, vv) = IdsAt(ss, vv, 4)
    <3>1. 4 \in 1..(n + 1)
      BY <2>2
    <3> QED BY <2>2, <2>3, <3>1, <1>28
  <2>5. At(yystos, ss[4]) = 54 /\ d[3] = vv[4]
    BY <1>2, <2>1, <2>2 DEF At, yystos
  <2>6. Sound(54, d[3]) /\ IdsAt(ss, vv, 4) = Ids(54, d[3])
    BY <1>3, <2>2, <2>5 DEF IdsAt
  <2>7. s = [class |-> "POLL", lineno |-> d[1], expr |-> d[3]]
    BY <1>16, StatementValues DEF s
  <2>8. s.class = "POLL" /\ s.expr = d[3]
    BY <2>7
  <2>9. free_stmt(s) = free_expr(d[3])
    BY <2>8, FreeStatement
  <2>10. 54 \in 52..54 /\ s.class \notin {"FG", "BG"}
    BY <2>8
  <2> QED BY <2>4, <2>6, <2>9, <2>10, Others DEF Sound, Ids
<1>17. CASE r = 11
  <2>1. ss[2] = 10 /\ ss[3] = 25 /\ ss[4] = 50 /\ ss[5] = 85
    BY <1>17, <1>7 DEF StackOf
  <2>2. n = 4
    BY <1>17 DEF n, At, yyr2
  <2>3. \A k \in 1..5 : k = 4 \/ At(yystos, ss[k]) \notin Owning
    BY <1>5, <2>1 DEF At, yystos, Owning, OfString
  <2>4. AllIds(ss, vv) = IdsAt(ss, vv, 4)
    <3>1. 4 \in 1..(n + 1)
      BY <2>2
    <3> QED BY <2>2, <2>3, <3>1, <1>28
  <2>5. At(yystos, ss[4]) = 54 /\ d[3] = vv[4]
    BY <1>2, <2>1, <2>2 DEF At, yystos
  <2>6. Sound(54, d[3]) /\ IdsAt(ss, vv, 4) = Ids(54, d[3])
    BY <1>3, <2>2, <2>5 DEF IdsAt
  <2>7. s = [class |-> "CANCEL", lineno |-> d[1], expr |-> d[3]]
    BY <1>17, StatementValues DEF s
  <2>8. s.class = "CANCEL" /\ s.expr = d[3]
    BY <2>7
  <2>9. free_stmt(s) = free_expr(d[3])
    BY <2>8, FreeStatement
  <2>10. 54 \in 52..54 /\ s.class \notin {"FG", "BG"}
    BY <2>8
  <2> QED BY <2>4, <2>6, <2>9, <2>10, Others DEF Sound, Ids
<1>18. CASE r = 12
  <2>1. ss[2] = 10 /\ ss[3] = 26 /\ ss[4] = 51
    BY <1>18, <1>7 DEF StackOf
  <2>2. n = 3
    BY <1>18 DEF n, At, yyr2
  <2>3. \A k \in 1..4 : At(yystos, ss[k]) \notin Owning
    BY <1>5, <2>1 DEF At, yystos, Owning, OfString
  <2>4. AllIds(ss, vv) = {}
    BY <1>25, <2>2, <2>3
  <2>5. PICK class \in {"LIST", "RUN", "CONT", "STOP", "PAUSE"} : \E x : s = Stmt(class, x)
    BY <1>18, <1>27
  <2>6. s.class \in {"LIST", "RUN", "CONT", "STOP", "PAUSE", "DELETE", "GOTO"}
    BY <2>5 DEF Stmt
  <2>7. free_stmt(s) = <<>>
    BY <2>6, FreeStatement
  <2> QED BY <2>4, <2>6, <2>7, NoIds
<1>19. CASE r = 13
  <2>1. ss[2] = 10 /\ ss[3] = 30 /\ ss[4] = 55 /\ ss[5] = 89
    BY <1>19, <1>7 DEF StackOf
  <2>2. n = 4
    BY <1>19 DEF n, At, yyr2
  <2>3. \A k \in 1..5 : At(yystos, ss[k]) \notin Owning
    BY <1>5, <2>1 DEF At, yystos, Owning, OfString
  <2>4. AllIds(ss, vv) = {}
    BY <1>25, <2>2, <2>3
  <2>5. s = [class |-> "GOTO", lineno |-> d[1], target |-> d[3]]
    BY <1>19, StatementValues DEF s
  <2>6. s.class \in {"LIST", "RUN", "CONT", "STOP", "PAUSE", "DELETE", "GOTO"}
    BY <2>5
  <2>7. free_stmt(s) = <<>>
    BY <2>6, FreeStatement
  <2> QED BY <2>4, <2>6, <2>7, NoIds
<1>20. CASE r = 14
  <2>1. ss[2] = 10 /\ ss[3] = 27 /\ ss[4] = 52 /\ ss[5] = 86 /\ ss[6] = 110 /\ ss[7] = 112
    BY <1>20, <1>7 DEF StackOf
  <2>2. n = 6
    BY <1>20 DEF n, At, yyr2
  <2>3. \A k \in 1..7 : k \in {4, 6} \/ At(yystos, ss[k]) \notin Owning
    BY <1>5, <2>1 DEF At, yystos, Owning, OfString
  <2>4. AllIds(ss, vv) = IdsAt(ss, vv, 4) \cup IdsAt(ss, vv, 6)
    <3>1. 4 \in 1..(n + 1) /\ 6 \in 1..(n + 1)
      BY <2>2
    <3> QED BY <2>2, <2>3, <3>1, <1>29
  <2>5. At(yystos, ss[4]) = 4 /\ d[3] = vv[4] /\ At(yystos, ss[6]) = 54 /\ d[5] = vv[6]
    BY <1>2, <2>1, <2>2 DEF At, yystos
  <2>6. /\ Sound(4, d[3]) /\ IdsAt(ss, vv, 4) = Ids(4, d[3])
        /\ Sound(54, d[5]) /\ IdsAt(ss, vv, 6) = Ids(54, d[5])
        /\ Ids(4, d[3]) \cap Ids(54, d[5]) = {}
    BY <1>3, <1>4, <2>2, <2>5 DEF IdsAt
  <2>7. s = [class |-> "SET", lineno |-> d[1], name |-> d[3], expr |-> d[5]]
    BY <1>20, StatementValues DEF s
  <2>8. s.class = "SET" /\ s.name = d[3] /\ s.expr = d[5]
    BY <2>7
  <2>9. free_stmt(s) = FreeString(d[3]) \o free_expr(d[5])
    BY <2>8, FreeStatement
  <2>10. 4 \in OfString /\ 54 \in 52..54 /\ s.class \notin {"FG", "BG"}
    BY <2>8 DEF OfString
  <2>11. Owned(4, d[3]) = FreeString(d[3]) /\ Owned(54, d[5]) = free_expr(d[5])
    BY <2>10, Others DEF Owned
  <2>12. FreeString(d[3]) \in Seq(Nat) /\ free_expr(d[5]) \in Seq(Nat)
    BY <2>6, <2>11, OwnedType DEF Sound
  <2>13. Owns
    BY <2>4, <2>6, <2>9, <2>11, <2>12, ConcatIds DEF Sound, Ids
  <2> QED BY <2>10, <2>13
<1>21. CASE r = 15
  <2>1. ss[2] = 10 /\ ss[3] = 28 /\ ss[4] = 53 /\ ss[5] = 87
    BY <1>21, <1>7 DEF StackOf
  <2>2. n = 4
    BY <1>21 DEF n, At, yyr2
  <2>3. \A k \in 1..5 : k = 4 \/ At(yystos, ss[k]) \notin Owning
    BY <1>5, <2>1 DEF At, yystos, Owning, OfString
  <2>4. AllIds(ss, vv) = IdsAt(ss, vv, 4)
    <3>1. 4 \in 1..(n + 1)
      BY <2>2
    <3> QED BY <2>2, <2>3, <3>1, <1>28
  <2>5. At(yystos, ss[4]) = 4 /\ d[3] = vv[4]
    BY <1>2, <2>1, <2>2 DEF At, yystos
  <2>6. Sound(4, d[3]) /\ IdsAt(ss, vv, 4) = Ids(4, d[3])
    BY <1>3, <2>2, <2>5 DEF IdsAt
  <2>7. s = [class |-> "UNSET", lineno |-> d[1], name |-> d[3]]
    BY <1>21, StatementValues DEF s
  <2>8. s.class = "UNSET" /\ s.name = d[3]
    BY <2>7
  <2>9. free_stmt(s) = FreeString(d[3])
    BY <2>8, FreeStatement
  <2>10. 4 \in OfString /\ s.class \notin {"FG", "BG"}
    BY <2>8 DEF OfString
  <2>11. Owned(4, d[3]) = FreeString(d[3])
    BY <2>10 DEF Owned
  <2> QED BY <2>4, <2>6, <2>9, <2>10, <2>11 DEF Sound, Ids
<1>22. CASE r = 16
  <2>1. ss[2] = 10 /\ ss[3] = 29 /\ ss[4] = 54 /\ ss[5] = 88 /\ ss[6] = 111 /\ ss[7] = 113
    BY <1>22, <1>7 DEF StackOf
  <2>2. n = 6
    BY <1>22 DEF n, At, yyr2
  <2>3. \A k \in 1..7 : k = 4 \/ At(yystos, ss[k]) \notin Owning
    BY <1>5, <2>1 DEF At, yystos, Owning, OfString
  <2>4. AllIds(ss, vv) = IdsAt(ss, vv, 4)
    <3>1. 4 \in 1..(n + 1)
      BY <2>2
    <3> QED BY <2>2, <2>3, <3>1, <1>28
  <2>5. At(yystos, ss[4]) = 54 /\ d[3] = vv[4]
    BY <1>2, <2>1, <2>2 DEF At, yystos
  <2>6. Sound(54, d[3]) /\ IdsAt(ss, vv, 4) = Ids(54, d[3])
    BY <1>3, <2>2, <2>5 DEF IdsAt
  <2>7. s = [class |-> "IF", lineno |-> d[1], expr |-> d[3], target |-> d[5]]
    BY <1>22, StatementValues DEF s
  <2>8. s.class = "IF" /\ s.expr = d[3]
    BY <2>7
  <2>9. free_stmt(s) = free_expr(d[3])
    BY <2>8, FreeStatement
  <2>10. 54 \in 52..54 /\ s.class \notin {"FG", "BG"}
    BY <2>8
  <2> QED BY <2>4, <2>6, <2>9, <2>10, Others DEF Sound, Ids
<1>23. CASE r = 17
  <2>1. ss[2] = 10 /\ ss[3] = 31 /\ ss[4] = 58 /\ ss[5] = 90
    BY <1>23, <1>7 DEF StackOf
  <2>2. n = 4
    BY <1>23 DEF n, At, yyr2
  <2>3. \A k \in 1..5 : k = 4 \/ At(yystos, ss[k]) \notin Owning
    BY <1>5, <2>1 DEF At, yystos, Owning, OfString
  <2>4. AllIds(ss, vv) = IdsAt(ss, vv, 4)
    <3>1. 4 \in 1..(n + 1)
      BY <2>2
    <3> QED BY <2>2, <2>3, <3>1, <1>28
  <2>5. At(yystos, ss[4]) = 61 /\ d[3] = vv[4]
    BY <1>2, <2>1, <2>2 DEF At, yystos
  <2>6. Sound(61, d[3]) /\ IdsAt(ss, vv, 4) = Ids(61, d[3])
    BY <1>3, <2>2, <2>5 DEF IdsAt
  <2>7. s = [class |-> "SOURCE", lineno |-> d[1], file |-> d[3]]
    BY <1>23, StatementValues DEF s
  <2>8. s.class = "SOURCE" /\ s.file = d[3]
    BY <2>7
  <2>9. free_stmt(s) = FreeString(d[3])
    BY <2>8, FreeStatement
  <2>10. 61 \in OfString /\ s.class \notin {"FG", "BG"}
    BY <2>8 DEF OfString
  <2>11. Owned(61, d[3]) = FreeString(d[3])
    BY <2>10 DEF Owned
  <2> QED BY <2>4, <2>6, <2>9, <2>10, <2>11 DEF Sound, Ids
<1>24. CASE r = 18
  <2>1. ss[2] = 7
    BY <1>24, <1>7 DEF StackOf
  <2>2. n = 1
    BY <1>24 DEF n, At, yyr2
  <2>3. \A k \in 1..2 : At(yystos, ss[k]) \notin Owning
    BY <1>5, <2>1 DEF At, yystos, Owning, OfString
  <2>4. AllIds(ss, vv) = {}
    BY <1>25, <2>2, <2>3
  <2>6. s = NULL
    BY <1>24, StatementValues DEF s
  <2>7. free_stmt(s) = <<>>
    BY <2>6, FreeStatement
  <2> QED BY <2>4, <2>6, <2>7, NoIds
<1>26. CASE r = 20
  <2>1. ss[2] = 1 /\ ss[3] = 13
    BY <1>26, <1>7 DEF StackOf
  <2>2. n = 2
    BY <1>26 DEF n, At, yyr2
  <2>3. \A k \in 1..3 : At(yystos, ss[k]) \notin Owning
    BY <1>5, <2>1 DEF At, yystos, Owning, OfString
  <2>4. AllIds(ss, vv) = {}
    BY <1>25, <2>2, <2>3
  <2>6. s = NULL
    BY <1>26, StatementValues DEF s
  <2>7. free_stmt(s) = <<>>
    BY <2>6, FreeStatement
  <2> QED BY <2>4, <2>6, <2>7, NoIds
<1> QED BY <1>8, <1>9, <1>10, <1>11, <1>12, <1>13, <1>14, <1>15, <1>16, <1>17, <1>18, <1>19, <1>20, <1>21, <1>22, <1>23, <1>24, <1>26

-----------------------------------------------------------------------------
(* Tokens, and the strings that are freed with a symbol.                   *)

\* The kinds of tokens by their numbers.
Named(kind, n) ==
    /\ kind = "NUMBER" <=> n = 3
    /\ kind = "NAME" <=> n = 4
    /\ kind = "WORD" <=> n = 5
    /\ kind = "STRING" <=> n = 6
    /\ kind = "LESS" <=> n = 25
    /\ kind = "GREATER" <=> n = 26
    /\ kind = "LPAREN" <=> n = 33
    /\ kind = "SHARP" <=> n = 41
    /\ kind = "DOLLAR" <=> n = 42
    /\ kind = "EOL" <=> n = 43

LEMMA KindNames ==
    ASSUME NEW kind
    PROVE  Named(kind, YYTRANSLATE(kind))
<1>1. /\ DOMAIN yytname = 1..46
      /\ ToSet(yytname) = {yytname[i] : i \in 1..46}
  BY DEF yytname, ToSet
<1>2. /\ \A i \in 1..46 : yytname[i] = "NUMBER" <=> i = 4
      /\ \A i \in 1..46 : yytname[i] = "NAME" <=> i = 5
      /\ \A i \in 1..46 : yytname[i] = "WORD" <=> i = 6
      /\ \A i \in 1..46 : yytname[i] = "STRING" <=> i = 7
      /\ \A i \in 1..46 : yytname[i] = "LESS" <=> i = 26
      /\ \A i \in 1..46 : yytname[i] = "GREATER" <=> i = 27
      /\ \A i \in 1..46 : yytname[i] = "LPAREN" <=> i = 34
      /\ \A i \in 1..46 : yytname[i] = "SHARP" <=> i = 42
      /\ \A i \in 1..46 : yytname[i] = "DOLLAR" <=> i = 43
      /\ \A i \in 1..46 : yytname[i] = "EOL" <=> i = 44
  BY DEF yytname
<1>3. CASE kind \in DOMAIN yytranslate
  <2>1. kind \in ToSet(yytname)
    BY <1>3 DEF yytranslate
  <2> DEFINE i == CHOOSE i \in DOMAIN yytname : yytname[i] = kind
  <2>2. i \in 1..46 /\ yytname[i] = kind
    BY <1>1, <2>1
  <2>3. YYTRANSLATE(kind) = i - 1
    BY <1>3, <2>1 DEF YYTRANSLATE, yytranslate
  <2> HIDE DEF i
  <2> QED BY <1>2, <2>2, <2>3 DEF Named
<1>4. CASE kind \notin DOMAIN yytranslate
  <2>1. \A n \in {4, 5, 6, 7, 26, 27, 34, 42, 43, 44} : yytname[n] \in DOMAIN yytranslate
    BY <1>1 DEF yytranslate
  <2>2. /\ yytname[4] = "NUMBER" /\ yytname[5] = "NAME" /\ yytname[6] = "WORD"
        /\ yytname[7] = "STRING" /\ yytname[26] = "LESS" /\ yytname[27] = "GREATER"
        /\ yytname[34] = "LPAREN" /\ yytname[42] = "SHARP" /\ yytname[43] = "DOLLAR"
        /\ yytname[44] = "EOL"
    BY <1>2
  <2>3. YYTRANSLATE(kind) = 2
    BY <1>4 DEF YYTRANSLATE, YYUNDEFTOK
  <2> QED BY <1>4, <2>1, <2>2, <2>3 DEF Named
<1> QED BY <1>3, <1>4

LEMMA KindFacts ==
    ASSUME NEW kind
    PROVE  LET n == YYTRANSLATE(kind)
           IN  /\ n \in 0..45 /\ n \notin 48..54
               /\ n \in OfString <=> kind \in StringTokens
               /\ n = EOL <=> kind = "EOL"
<1>1. YYTRANSLATE(kind) \in 0..45
  BY EOLNumber, TableSizes
<1> QED BY <1>1, KindNames DEF Named, OfString, StringTokens, EOL

\* What yydestruct frees are strings of the symbol.
LEMMA Destructed ==
    ASSUME NEW symbol \in 0..61, symbol # 47, NEW v, Sound(symbol, v)
    PROVE  LET ids == yydestruct(symbol, v)
           IN  /\ ids \in Seq(Nat) /\ IsInjective(ids) /\ ToSet(ids) \subseteq Ids(symbol, v)
               /\ symbol \notin 52..53 => ToSet(ids) = Ids(symbol, v)
<1>1. CASE symbol \in 52..53
  <2>1. yydestruct(symbol, v) = <<>>
    BY <1>1 DEF yydestruct
  <2> QED BY <1>1, <2>1, NoIds
<1>2. CASE symbol \notin 52..53
  <2>1. yydestruct(symbol, v) = Owned(symbol, v)
    BY <1>2 DEF yydestruct, Owned, OfString
  <2> QED BY <1>2, <2>1, OwnedType DEF Sound, Ids
<1> QED BY <1>1, <1>2

\* Where the error token is shifted.
LEMMA ErrorState ==
    /\ \A s \in States : ErrorShift(s) # 0 => s = 0
    /\ Leads(0, 1) /\ At(yystos, 1) = 1
<1>1. ASSUME NEW s \in States, ErrorShift(s) # 0 PROVE s = 0
  <2> DEFINE n == At(yypact, s) + YYTERROR
  <2>1. Listed(n, YYTERROR)
    BY <1>1 DEF ErrorShift
  <2>2. n \in 0..247 /\ At(yycheck, n) = 1
    BY <2>1 DEF Listed, YYLAST, YYTERROR
  <2>3. n = 62
    BY <2>2 DEF At, yycheck
  <2>4. At(yypact, s) = 61 /\ s \in 0..113
    <3>1. At(yypact, s) \in Int
      BY TableSizes DEF At, yypact
    <3> QED BY <2>3, <3>1, TableSizes DEF YYTERROR
  <2> QED BY <2>4 DEF At, yypact
<1>2. Leads(0, 1) /\ At(yystos, 1) = 1
  BY DEF Leads, At, yystos
<1> QED BY <1>1, <1>2

\* Behind the error token only the end of the line is shifted.
LEMMA ShiftBehindError ==
    ASSUME NEW t \in Tokens, Decision(1, t).do = "shift"
    PROVE  t = EOL
<1> DEFINE to == Decision(1, t).to
<1>1. 1 \in States \ {9, YYFINAL}
  BY TableSizes DEF YYFINAL
<1>2. to \in States \ {0} /\ Leads(1, to) /\ At(yystos, to) = t
  BY <1>1, ShiftLeads
<1> HIDE DEF to
<1>3. to = 13
  BY <1>2, TableSizes DEF Leads, BeforeAtom, BeforeExpr, AfterLogic, AfterArithmetic, AfterAny, Before
<1> QED BY <1>2, <1>3 DEF At, yystos, EOL

\* No state leads to those two.
LEMMA NowhereOnStack ==
    ASSUME NEW a \in States, NEW q, Leads(a, q)
    PROVE  q \notin {9, 18}
<1>1. Before(9) = 114
  BY DEF Before
<1>2. Before(18) = 114
  BY DEF Before
<1>3. ASSUME NEW b \in {9, 18}, Leads(a, b) PROVE FALSE
  <2>1. a = 114
    BY <1>1, <1>2, <1>3 DEF Leads
  <2> QED BY <2>1, TableSizes
<1> QED BY <1>3

LEMMA StateSymbols ==
    ASSUME NEW s, s \in States, s # 9
    PROVE  At(yystos, s) \in 0..61 /\ At(yystos, s) # 47
<1>1. \A i \in 1..114 : yystos[i] \in 0..61
  BY DEF yystos
<1>2. \A i \in 1..114 : yystos[i] = 47 => i = 10
  BY DEF yystos
<1>3. s + 1 \in 1..114 /\ s + 1 # 10
  BY TableSizes
<1> QED BY <1>1, <1>2, <1>3 DEF At

\* The states on a stack.
LEMMA OnStack ==
    ASSUME NEW ss, NEW vv, Good(ss, vv), NEW k \in 1..Len(ss)
    PROVE  /\ ss[k] \in States \ {9, YYFINAL}
           /\ At(yystos, ss[k]) \in 0..61 /\ At(yystos, ss[k]) # 47
<1>1. ss[k] \in States
  BY Beneath
<1>2. ss[k] \notin {9, 18}
  <2>1. CASE k = 1
    BY <2>1, Beneath
  <2>2. CASE k > 1
    BY <2>2, Beneath, NowhereOnStack
  <2>3. k \in Nat /\ k >= 1
    BY DEF Good
  <2> QED BY <2>1, <2>2, <2>3
<1> QED BY <1>1, <1>2, StateSymbols DEF YYFINAL

-----------------------------------------------------------------------------
(* Copies: the strings of a tree in blocks of their own.                   *)

Ren(s, at) == [j \in DOMAIN s |-> at[s[j]]]
RenAll(ss, at) == [i \in DOMAIN ss |-> Ren(ss[i], at)]

RenSet(X, at) == {at[x] : x \in X}
Renames(r, s, at, T) ==
    /\ r \in Seq(T) /\ Len(r) = Len(s)
    /\ \A i \in 1..Len(s) : r[i] = at[s[i]]

LEMMA RenFacts ==
    ASSUME NEW S, NEW T, NEW at \in [S -> T], NEW s \in Seq(S)
    PROVE  Renames(Ren(s, at), s, at, T) /\ ToSet(Ren(s, at)) = RenSet(ToSet(s), at)
<1>1. Len(s) \in Nat /\ DOMAIN s = 1..Len(s) /\ \A i \in 1..Len(s) : at[s[i]] \in T
  OBVIOUS
<1>2. Ren(s, at) = [i \in 1..Len(s) |-> at[s[i]]]
  BY <1>1 DEF Ren
<1>3. Ren(s, at) \in Seq(T) /\ Len(Ren(s, at)) = Len(s)
  BY <1>1, <1>2
<1>4. ToSet(Ren(s, at)) = {at[x] : x \in ToSet(s)}
  <2>1. ToSet(Ren(s, at)) = {Ren(s, at)[i] : i \in 1..Len(s)}
    BY <1>2 DEF ToSet
  <2>2. ToSet(s) = {s[i] : i \in 1..Len(s)}
    BY <1>1 DEF ToSet
  <2> QED BY <1>2, <2>1, <2>2
<1> QED BY <1>2, <1>3, <1>4 DEF Renames, RenSet

LEMMA RenInjective ==
    ASSUME NEW S, NEW T, NEW at \in [S -> T], NEW s \in Seq(S),
           \A x, y \in S : at[x] = at[y] => x = y, IsInjective(s)
    PROVE  IsInjective(Ren(s, at))
<1>1. Len(s) \in Nat /\ DOMAIN s = 1..Len(s) /\ \A i \in 1..Len(s) : s[i] \in S
  OBVIOUS
<1>2. DOMAIN Ren(s, at) = 1..Len(s)
  BY <1>1 DEF Ren
<1>4. Renames(Ren(s, at), s, at, T)
  BY RenFacts
<1>3. ASSUME NEW i \in 1..Len(s), NEW j \in 1..Len(s), Ren(s, at)[i] = Ren(s, at)[j]
      PROVE  i = j
  <2>1. at[s[i]] = at[s[j]]
    BY <1>3, <1>4, Zenon DEF Renames
  <2>2. s[i] = s[j]
    BY <1>1, <2>1
  <2> QED BY <1>1, <2>2 DEF IsInjective
<1> QED BY <1>2, <1>3 DEF IsInjective

IsJoined(a, b, c) ==
    /\ Len(c) = Len(a) + Len(b)
    /\ \A i \in 1..Len(a) : c[i] = a[i]
    /\ \A i \in 1..Len(b) : c[Len(a) + i] = b[i]

LEMMA JoinedSeqs ==
    ASSUME NEW A, NEW a, NEW b, NEW c,
           a \in Seq(A), b \in Seq(A), c \in Seq(A), IsJoined(a, b, c)
    PROVE  c = a \o b
<1>1. /\ Len(c) = Len(a) + Len(b)
      /\ \A i \in 1..Len(a) : c[i] = a[i]
      /\ \A i \in 1..Len(b) : c[Len(a) + i] = b[i]
  BY DEF IsJoined
<1> QED BY <1>1, Joined, Zenon

LEMMA RenConcat ==
    ASSUME NEW S, NEW T, NEW at \in [S -> T], NEW s \in Seq(S), NEW t \in Seq(S)
    PROVE  Ren(s \o t, at) = Ren(s, at) \o Ren(t, at)
<1> DEFINE a == Ren(s, at)
           b == Ren(t, at)
           c == Ren(s \o t, at)
<1>1. s \o t \in Seq(S) /\ Len(s \o t) = Len(s) + Len(t)
  OBVIOUS
<1>2. Renames(a, s, at, T) /\ Renames(b, t, at, T) /\ Renames(c, s \o t, at, T)
  BY <1>1, RenFacts
<1> HIDE DEF a, b, c
<1>6. /\ a \in Seq(T) /\ Len(a) = Len(s) /\ b \in Seq(T) /\ Len(b) = Len(t)
      /\ c \in Seq(T) /\ Len(c) = Len(a) + Len(b)
  BY <1>1, <1>2 DEF Renames
<1>3. \A i \in 1..Len(a) : c[i] = a[i]
  <2> TAKE i \in 1..Len(a)
  <2>1. i \in 1..Len(s) /\ i \in 1..Len(s \o t) /\ (s \o t)[i] = s[i]
    BY <1>1, <1>6
  <2> QED BY <1>2, <2>1 DEF Renames
<1>4. \A i \in 1..Len(b) : c[Len(a) + i] = b[i]
  <2> TAKE i \in 1..Len(b)
  <2>1. i \in 1..Len(t) /\ Len(a) + i \in 1..Len(s \o t) /\ (s \o t)[Len(a) + i] = t[i]
    BY <1>1, <1>6
  <2> QED BY <1>2, <2>1 DEF Renames
<1>5. c = a \o b
  <2>1. a \in Seq(T) /\ b \in Seq(T) /\ c \in Seq(T)
    BY <1>6
  <2>2. IsJoined(a, b, c)
    BY <1>3, <1>4, <1>6 DEF IsJoined
  <2> QED BY <2>1, <2>2, JoinedSeqs
<1> QED BY <1>5 DEF a, b, c

AllRenamed(ss, at, T) ==
    /\ RenAll(ss, at) \in Seq(Seq(T)) /\ Len(RenAll(ss, at)) = Len(ss)
    /\ \A i \in 1..Len(ss) : RenAll(ss, at)[i] = Ren(ss[i], at)

LEMMA RenAllFacts ==
    ASSUME NEW S, NEW T, NEW at \in [S -> T], NEW ss \in Seq(Seq(S))
    PROVE  AllRenamed(ss, at, T)
<1>1. Len(ss) \in Nat /\ DOMAIN ss = 1..Len(ss) /\ \A i \in 1..Len(ss) : ss[i] \in Seq(S)
  OBVIOUS
<1>2. \A i \in 1..Len(ss) : Ren(ss[i], at) \in Seq(T)
  BY <1>1, RenFacts DEF Renames
<1>3. RenAll(ss, at) = [i \in 1..Len(ss) |-> Ren(ss[i], at)]
  BY <1>1 DEF RenAll
<1> QED BY <1>1, <1>2, <1>3 DEF AllRenamed

LEMMA RenFlatten ==
    ASSUME NEW S, NEW T, NEW at \in [S -> T], NEW ss \in Seq(Seq(S))
    PROVE  FlattenSeq(RenAll(ss, at)) = Ren(FlattenSeq(ss), at)
<1> DEFINE r == RenAll(ss, at)
           F == Flattening(ss)
           G == Flattening(r)
           N == {n \in Nat : n \in 1..Len(ss) => G[n] = Ren(F[n], at)}
<1>1. /\ r \in Seq(Seq(T)) /\ Len(r) = Len(ss) /\ Len(ss) \in Nat
      /\ \A i \in 1..Len(ss) : r[i] = Ren(ss[i], at)
  <2>1. AllRenamed(ss, at, T)
    BY RenAllFacts
  <2> QED BY <2>1 DEF AllRenamed
<1>2. /\ \A i \in 1..Len(ss) : F[i] \in Seq(S) /\ ss[i] \in Seq(S)
      /\ \A i \in 1..Len(ss) : F[i] = IF i = 1 THEN ss[i] ELSE F[i - 1] \o ss[i]
  <2>1. F \in [1..Len(ss) -> Seq(S)]
    BY FlattenUnfold
  <2>2. \A i \in 1..Len(ss) : F[i] = IF i = 1 THEN ss[i] ELSE F[i - 1] \o ss[i]
    BY FlattenUnfold
  <2>3. \A i \in 1..Len(ss) : ss[i] \in Seq(S)
    OBVIOUS
  <2> HIDE DEF F
  <2> QED BY <2>1, <2>2, <2>3
<1> HIDE DEF r, F
<1>3. \A i \in 1..Len(ss) : G[i] = IF i = 1 THEN r[i] ELSE G[i - 1] \o r[i]
  BY <1>1, FlattenUnfold
<1> HIDE DEF G
<1>8. \A s, t \in Seq(S) : Ren(s \o t, at) = Ren(s, at) \o Ren(t, at)
  <2> TAKE s, t \in Seq(S)
  <2>1. at \in [S -> T] /\ s \in Seq(S) /\ t \in Seq(S)
    OBVIOUS
  <2> QED BY ONLY <2>1, RenConcat, Zenon
<1>4. \A n \in Nat : n \in N
  <2>1. 0 \in N
    OBVIOUS
  <2>2. ASSUME NEW n \in Nat, n \in N PROVE n + 1 \in N
    <3> SUFFICES ASSUME n + 1 \in 1..Len(ss) PROVE G[n + 1] = Ren(F[n + 1], at)
      OBVIOUS
    <3>1. CASE n = 0
      <4>1. G[1] = r[1] /\ F[1] = ss[1] /\ r[1] = Ren(ss[1], at)
        BY <1>1, <1>2, <1>3, <3>1
      <4> QED BY <3>1, <4>1
    <3>2. CASE n # 0
      <4>1. n \in 1..Len(ss) /\ (n + 1) - 1 = n /\ n + 1 # 1
        BY <1>1, <3>2
      <4>2. G[n + 1] = G[n] \o r[n + 1] /\ F[n + 1] = F[n] \o ss[n + 1]
        BY <1>2, <1>3, <4>1
      <4>3. G[n] = Ren(F[n], at) /\ r[n + 1] = Ren(ss[n + 1], at)
        BY <1>1, <2>2, <4>1
      <4>5. F[n] \in Seq(S) /\ ss[n + 1] \in Seq(S)
        BY <1>2, <4>1
      <4>4. Ren(F[n] \o ss[n + 1], at) = Ren(F[n], at) \o Ren(ss[n + 1], at)
        BY <4>5, <1>8
      <4> QED BY <4>2, <4>3, <4>4
    <3> QED BY <3>1, <3>2
  <2> HIDE DEF N
  <2> QED BY <2>1, <2>2, LengthInduction
<1>5. /\ FlattenSeq(ss) = IF Len(ss) = 0 THEN <<>> ELSE F[Len(ss)]
      /\ FlattenSeq(r) = IF Len(r) = 0 THEN <<>> ELSE G[Len(r)]
  BY <1>1, FlattenByLast DEF F, G
<1>6. Ren(<<>>, at) = <<>>
  BY DEF Ren
<1>7. Len(ss) # 0 => G[Len(ss)] = Ren(F[Len(ss)], at)
  BY <1>1, <1>4
<1> QED BY <1>1, <1>5, <1>6, <1>7 DEF r

LEMMA RenReversed ==
    ASSUME NEW S, NEW T, NEW at \in [S -> T], NEW ss \in Seq(Seq(S))
    PROVE  FlattenSeq(Reverse(RenAll(ss, at))) = Ren(FlattenSeq(Reverse(ss)), at)
<1> DEFINE r == RenAll(ss, at)
           v == Reverse(ss)
<1>1. /\ r \in Seq(Seq(T)) /\ Len(r) = Len(ss) /\ Len(ss) \in Nat
      /\ \A i \in 1..Len(ss) : r[i] = Ren(ss[i], at)
  <2>1. AllRenamed(ss, at, T)
    BY RenAllFacts
  <2> QED BY <2>1 DEF AllRenamed
<1>2. v \in Seq(Seq(S)) /\ v = [i \in 1..Len(ss) |-> ss[(Len(ss) - i) + 1]]
  BY ReverseConcat DEF Reverse
<1>3. Reverse(r) = [i \in 1..Len(ss) |-> r[(Len(ss) - i) + 1]]
  BY <1>1 DEF Reverse
<1>4. RenAll(v, at) = [i \in 1..Len(ss) |-> Ren(v[i], at)]
  BY <1>2 DEF RenAll
<1> HIDE DEF r, v
<1>5. \A i \in 1..Len(ss) : r[(Len(ss) - i) + 1] = Ren(v[i], at)
  <2> TAKE i \in 1..Len(ss)
  <2>1. (Len(ss) - i) + 1 \in 1..Len(ss)
    BY <1>1
  <2> QED BY <1>1, <1>2, <2>1
<1>6. Reverse(r) = RenAll(v, at)
  BY <1>3, <1>4, <1>5
<1>7. FlattenSeq(RenAll(v, at)) = Ren(FlattenSeq(v), at)
  BY <1>2, RenFlatten
<1> QED BY <1>6, <1>7 DEF r, v

-----------------------------------------------------------------------------
\* A copy frees what the tree frees, in its own blocks.
LEMMA StringCopy ==
    ASSUME NEW S, NEW T, NEW at \in [S -> T], NEW s, s = NULL \/ IsString(s, S)
    PROVE  /\ s = NULL => strdup(s, at) = NULL
           /\ IsString(s, S) => IsString(strdup(s, at), T)
           /\ FreeString(strdup(s, at)) = Ren(FreeString(s), at)
<1>1. CASE s = NULL
  <2>1. strdup(s, at) = NULL /\ FreeString(NULL) = <<>>
    BY <1>1 DEF strdup, FreeString
  <2>2. Ren(<<>>, at) = <<>>
    BY DEF Ren
  <2> QED BY <1>1, <2>1, <2>2, StringFacts
<1>2. CASE IsString(s, S)
  <2>1. s # NULL /\ s.id \in S
    BY <1>2, StringFacts
  <2>2. strdup(s, at) = [s EXCEPT !.id = at[s.id]]
    BY <2>1 DEF strdup
  <2>3. s = [class |-> "string", id |-> s.id, text |-> s.text]
    BY <1>2 DEF IsString, String
  <2>4. strdup(s, at) = [class |-> "string", id |-> at[s.id], text |-> s.text]
    BY <2>2, <2>3
  <2>5. IsString(strdup(s, at), T) /\ strdup(s, at).id = at[s.id]
    BY <2>1, <2>4 DEF IsString, String
  <2>6. strdup(s, at) # NULL
    BY <2>5, StringFacts
  <2>7. FreeString(strdup(s, at)) = <<at[s.id]>> /\ FreeString(s) = <<s.id>>
    BY <2>1, <2>5, <2>6 DEF FreeString
  <2>8. Ren(<<s.id>>, at) = <<at[s.id]>>
    BY DEF Ren
  <2> QED BY <2>1, <2>5, <2>7, <2>8
<1> QED BY <1>1, <1>2

LEMMA ExprCopy ==
    ASSUME NEW S, NEW T, NEW at \in [S -> T], NEW e, IsExpr(e, S)
    PROVE  /\ IsExpr(copy_expr(e, at), T)
           /\ free_expr(copy_expr(e, at)) = Ren(free_expr(e), at)
<1> DEFINE c == copy_expr(e, at)
<1>1. Len(e) \in Nat /\ DOMAIN e = 1..Len(e)
  BY SeqFacts DEF IsExpr
<1>2. c = [i \in 1..Len(e) |->
              IF IsLeaf(e[i]) THEN [e[i] EXCEPT !.string = strdup(e[i].string, at)] ELSE e[i]]
  BY <1>1 DEF copy_expr
<1>3. DOMAIN c = 1..Len(e) /\ Len(c) = Len(e) /\ IsSeq(c)
  <2>1. DOMAIN c = 1..Len(e) /\ Len(c) = Len(e)
    BY <1>1, <1>2
  <2> HIDE DEF c
  <2>2. c \in Seq({c[i] : i \in 1..Len(e)})
    BY <1>1, <1>2, <2>1
  <2> QED BY <2>1, <2>2, SomeSeq
<1> HIDE DEF c
<1>4. ASSUME NEW i \in 1..Len(e)
      PROVE  /\ IsLeaf(c[i]) <=> IsLeaf(e[i])
             /\ IsNode(c[i], T)
             /\ IsLeaf(e[i]) => c[i].string.id = at[e[i].string.id]
  <2>1. CASE IsLeaf(e[i])
    <3>1. e[i] = [class |-> e[i].class, string |-> e[i].string] /\ IsString(e[i].string, S)
      BY <2>1 DEF IsExpr, IsNode
    <3>2. c[i] = [e[i] EXCEPT !.string = strdup(e[i].string, at)]
      BY <1>2, <2>1
    <3>3. c[i] = [class |-> e[i].class, string |-> strdup(e[i].string, at)]
      BY <3>1, <3>2
    <3>4. c[i].class = e[i].class /\ c[i].string = strdup(e[i].string, at)
      BY <3>3
    <3>5. IsString(strdup(e[i].string, at), T)
      BY <3>1, StringCopy
    <3>6. strdup(e[i].string, at).id = at[e[i].string.id]
      <4>1. e[i].string # NULL
        BY <3>1, StringFacts
      <4>2. e[i].string = [class |-> "string", id |-> e[i].string.id, text |-> e[i].string.text]
        BY <3>1 DEF IsString, String
      <4> DEFINE s == e[i].string
      <4>3. strdup(s, at) = [s EXCEPT !.id = at[s.id]]
        BY <4>1 DEF strdup
      <4> HIDE DEF s
      <4>4. s = [class |-> "string", id |-> s.id, text |-> s.text]
        BY <4>2 DEF s
      <4>5. strdup(s, at).id = at[s.id]
        BY <4>3, <4>4
      <4> QED BY <4>5 DEF s
    <3> QED BY <2>1, <3>3, <3>4, <3>5, <3>6 DEF IsLeaf, IsNode
  <2>2. CASE ~IsLeaf(e[i])
    <3>1. c[i] = e[i]
      BY <1>2, <2>2
    <3> QED BY <2>2, <3>1 DEF IsNode
  <2> QED BY <2>1, <2>2
<1>5. IsExpr(c, T)
  BY <1>3, <1>4 DEF IsExpr
<1>6. LeafIds(c) = RenAll(LeafIds(e), at)
  <2>1. LeafIds(c) = [i \in 1..Len(e) |-> IF IsLeaf(c[i]) THEN <<c[i].string.id>> ELSE <<>>]
    BY <1>3 DEF LeafIds
  <2>2. LeafIds(e) = [i \in 1..Len(e) |-> IF IsLeaf(e[i]) THEN <<e[i].string.id>> ELSE <<>>]
    BY <1>1 DEF LeafIds
  <2>3. RenAll(LeafIds(e), at) = [i \in 1..Len(e) |-> Ren(LeafIds(e)[i], at)]
    BY <2>2 DEF RenAll
  <2>4. ASSUME NEW i \in 1..Len(e) PROVE LeafIds(c)[i] = Ren(LeafIds(e)[i], at)
    <3>1. \A x : Ren(<<x>>, at) = <<at[x]>>
      BY DEF Ren
    <3>2. Ren(<<>>, at) = <<>>
      BY DEF Ren
    <3>3. CASE IsLeaf(e[i])
      <4>1. LeafIds(c)[i] = <<c[i].string.id>> /\ LeafIds(e)[i] = <<e[i].string.id>>
        BY <1>4, <2>1, <2>2, <3>3
      <4> QED BY <1>4, <3>1, <3>3, <4>1
    <3>4. CASE ~IsLeaf(e[i])
      <4>1. LeafIds(c)[i] = <<>> /\ LeafIds(e)[i] = <<>>
        BY <1>4, <2>1, <2>2, <3>4
      <4> QED BY <3>2, <4>1
    <3> QED BY <3>3, <3>4
  <2> QED BY <2>1, <2>3, <2>4
<1>7. FlattenSeq(RenAll(LeafIds(e), at)) = Ren(FlattenSeq(LeafIds(e)), at)
  BY LeafIdsFacts, RenFlatten
<1>8. free_expr(c) = FlattenSeq(LeafIds(c)) /\ free_expr(e) = FlattenSeq(LeafIds(e))
  BY <1>5, LeafIdsFacts
<1> QED BY <1>5, <1>6, <1>7, <1>8 DEF c

LEMMA ArgsCopy ==
    ASSUME NEW S, NEW T, NEW at \in [S -> T], NEW args, IsArgs(args, S)
    PROVE  /\ IsArgs(copy_args(args, at), T)
           /\ free_args(copy_args(args, at)) = Ren(free_args(args), at)
<1> DEFINE c == copy_args(args, at)
<1>1. Len(args) \in Nat /\ DOMAIN args = 1..Len(args)
  BY SeqFacts DEF IsArgs
<1>2. c = [i \in 1..Len(args) |-> copy_expr(args[i], at)]
  BY <1>1 DEF copy_args
<1>3. DOMAIN c = 1..Len(args) /\ Len(c) = Len(args) /\ IsSeq(c)
  <2>1. DOMAIN c = 1..Len(args) /\ Len(c) = Len(args)
    BY <1>1, <1>2
  <2> HIDE DEF c
  <2>2. c \in Seq({c[i] : i \in 1..Len(args)})
    BY <1>1, <1>2, <2>1
  <2> QED BY <2>1, <2>2, SomeSeq
<1> HIDE DEF c
<1>4. \A i \in 1..Len(args) : /\ IsExpr(c[i], T)
                              /\ free_expr(c[i]) = Ren(free_expr(args[i]), at)
  BY <1>2, ExprCopy DEF IsArgs
<1>5. IsArgs(c, T)
  BY <1>3, <1>4 DEF IsArgs
<1>6. ExprIds(c) = RenAll(ExprIds(args), at)
  <2>1. ExprIds(c) = [i \in 1..Len(args) |-> free_expr(c[i])]
    BY <1>3 DEF ExprIds
  <2>2. ExprIds(args) = [i \in 1..Len(args) |-> free_expr(args[i])]
    BY <1>1 DEF ExprIds
  <2>3. RenAll(ExprIds(args), at) = [i \in 1..Len(args) |-> Ren(ExprIds(args)[i], at)]
    BY <2>2 DEF RenAll
  <2> QED BY <1>4, <2>1, <2>2, <2>3
<1>7. FlattenSeq(Reverse(RenAll(ExprIds(args), at)))
         = Ren(FlattenSeq(Reverse(ExprIds(args))), at)
  BY ArgsFacts, RenReversed
<1>8. /\ free_args(c) = FlattenSeq(Reverse(ExprIds(c)))
      /\ free_args(args) = FlattenSeq(Reverse(ExprIds(args)))
  BY <1>5, ArgsFacts
<1> QED BY <1>5, <1>6, <1>7, <1>8 DEF c

LEMMA CommandsCopy ==
    ASSUME NEW S, NEW T, NEW at \in [S -> T], NEW cmds, IsCommands(cmds, S)
    PROVE  /\ IsCommands(copy_commands(cmds, at), T)
           /\ free_commands(copy_commands(cmds, at)) = Ren(free_commands(cmds), at)
<1> DEFINE c == copy_commands(cmds, at)
<1>1. Len(cmds) \in Nat /\ DOMAIN cmds = 1..Len(cmds)
  BY SeqFacts DEF IsCommands
<1>2. c = [i \in 1..Len(cmds) |-> copy_args(cmds[i], at)]
  BY <1>1 DEF copy_commands
<1>3. DOMAIN c = 1..Len(cmds) /\ Len(c) = Len(cmds) /\ IsSeq(c)
  <2>1. DOMAIN c = 1..Len(cmds) /\ Len(c) = Len(cmds)
    BY <1>1, <1>2
  <2> HIDE DEF c
  <2>2. c \in Seq({c[i] : i \in 1..Len(cmds)})
    BY <1>1, <1>2, <2>1
  <2> QED BY <2>1, <2>2, SomeSeq
<1> HIDE DEF c
<1>4. \A i \in 1..Len(cmds) : /\ IsArgs(c[i], T)
                              /\ free_args(c[i]) = Ren(free_args(cmds[i]), at)
  BY <1>2, ArgsCopy DEF IsCommands
<1>5. IsCommands(c, T)
  BY <1>3, <1>4 DEF IsCommands
<1>6. ArgsIds(c) = RenAll(ArgsIds(cmds), at)
  <2>1. ArgsIds(c) = [i \in 1..Len(cmds) |-> free_args(c[i])]
    BY <1>3 DEF ArgsIds
  <2>2. ArgsIds(cmds) = [i \in 1..Len(cmds) |-> free_args(cmds[i])]
    BY <1>1 DEF ArgsIds
  <2>3. RenAll(ArgsIds(cmds), at) = [i \in 1..Len(cmds) |-> Ren(ArgsIds(cmds)[i], at)]
    BY <2>2 DEF RenAll
  <2> QED BY <1>4, <2>1, <2>2, <2>3
<1>7. FlattenSeq(Reverse(RenAll(ArgsIds(cmds), at)))
         = Ren(FlattenSeq(Reverse(ArgsIds(cmds))), at)
  BY CommandsFacts, RenReversed
<1>8. /\ free_commands(c) = FlattenSeq(Reverse(ArgsIds(c)))
      /\ free_commands(cmds) = FlattenSeq(Reverse(ArgsIds(cmds)))
  BY <1>5, CommandsFacts
<1> QED BY <1>5, <1>6, <1>7, <1>8 DEF c

LEMMA PipelineCopy ==
    ASSUME NEW S, NEW T, NEW at \in [S -> T], NEW p, IsPipeline(p, S)
    PROVE  LET c == copy_pipeline(p, at)
           IN  /\ IsPipeline(c, T) /\ free_pipeline(c) = Ren(free_pipeline(p), at)
               /\ free_pipeline(p) \in Seq(S)
<1> DEFINE c == copy_pipeline(p, at)
           a == free_commands(p.commands)
           i == FreeString(p.input)
           o == FreeString(p.output)
<1>1. c = [commands |-> copy_commands(p.commands, at), capture |-> p.capture,
           input |-> strdup(p.input, at), output |-> strdup(p.output, at)]
  BY DEF copy_pipeline
<1>2. /\ c.commands = copy_commands(p.commands, at) /\ c.capture = p.capture
      /\ c.input = strdup(p.input, at) /\ c.output = strdup(p.output, at)
      /\ c = [commands |-> c.commands, input |-> c.input, output |-> c.output,
              capture |-> c.capture]
  BY <1>1
<1> HIDE DEF c
<1>3. IsCommands(c.commands, T) /\ free_commands(c.commands) = Ren(a, at)
  BY <1>2, CommandsCopy DEF IsPipeline
<1>4. (c.input = NULL \/ IsString(c.input, T)) /\ FreeString(c.input) = Ren(i, at)
  BY <1>2, StringCopy DEF IsPipeline
<1>5. (c.output = NULL \/ IsString(c.output, T)) /\ FreeString(c.output) = Ren(o, at)
  BY <1>2, StringCopy DEF IsPipeline
<1>6. IsPipeline(c, T)
  BY <1>2, <1>3, <1>4, <1>5 DEF IsPipeline
<1>7. a \in Seq(S) /\ i \in Seq(S) /\ o \in Seq(S)
  BY CommandsFacts, StringFacts DEF IsPipeline
<1>8. free_pipeline(p) = (a \o i) \o o
  BY DEF free_pipeline
<1>9. free_pipeline(c) = (Ren(a, at) \o Ren(i, at)) \o Ren(o, at)
  BY <1>3, <1>4, <1>5 DEF free_pipeline
<1> HIDE DEF a, i, o
<1>10. a \o i \in Seq(S) /\ (a \o i) \o o \in Seq(S)
  BY <1>7
<1>11. Ren((a \o i) \o o, at) = (Ren(a, at) \o Ren(i, at)) \o Ren(o, at)
  <2>1. Ren((a \o i) \o o, at) = Ren(a \o i, at) \o Ren(o, at)
    BY <1>7, <1>10, RenConcat, Zenon
  <2>2. Ren(a \o i, at) = Ren(a, at) \o Ren(i, at)
    BY <1>7, RenConcat, Zenon
  <2> QED BY <2>1, <2>2
<1> QED BY <1>6, <1>8, <1>9, <1>10, <1>11 DEF c

-----------------------------------------------------------------------------
\* The strings of a tree are among those it frees.
LEMMA FlattenMembers ==
    ASSUME NEW S, NEW ss \in Seq(Seq(S)), NEW m \in 1..Len(ss)
    PROVE  ToSet(ss[m]) \subseteq ToSet(FlattenSeq(ss))
<1> DEFINE F == Flattening(ss)
           N == {n \in Nat : n \in 1..Len(ss) /\ m <= n => ToSet(ss[m]) \subseteq ToSet(F[n])}
<1>1. /\ Len(ss) \in Nat
      /\ \A i \in 1..Len(ss) : F[i] \in Seq(S) /\ ss[i] \in Seq(S)
      /\ \A i \in 1..Len(ss) : F[i] = IF i = 1 THEN ss[i] ELSE F[i - 1] \o ss[i]
  <2>1. F \in [1..Len(ss) -> Seq(S)]
    BY FlattenUnfold
  <2>2. \A i \in 1..Len(ss) : F[i] = IF i = 1 THEN ss[i] ELSE F[i - 1] \o ss[i]
    BY FlattenUnfold
  <2>3. Len(ss) \in Nat /\ \A i \in 1..Len(ss) : ss[i] \in Seq(S)
    OBVIOUS
  <2> HIDE DEF F
  <2> QED BY <2>1, <2>2, <2>3
<1> HIDE DEF F
<1>2. \A n \in Nat : n \in N
  <2>1. 0 \in N
    OBVIOUS
  <2>2. ASSUME NEW n \in Nat, n \in N PROVE n + 1 \in N
    <3> SUFFICES ASSUME n + 1 \in 1..Len(ss), m <= n + 1
                 PROVE  ToSet(ss[m]) \subseteq ToSet(F[n + 1])
      OBVIOUS
    <3>1. CASE n = 0
      <4>1. m = 1 /\ F[1] = ss[1]
        BY <1>1, <3>1
      <4> QED BY <3>1, <4>1
    <3>2. CASE n # 0
      <4>1. n \in 1..Len(ss) /\ (n + 1) - 1 = n /\ n + 1 # 1
        BY <1>1, <3>2
      <4>2. F[n + 1] = F[n] \o ss[n + 1] /\ F[n] \in Seq(S) /\ ss[n + 1] \in Seq(S)
        BY <1>1, <4>1
      <4>3. ToSet(F[n + 1]) = ToSet(F[n]) \cup ToSet(ss[n + 1])
        BY <4>2, ConcatIds
      <4>4. m = n + 1 \/ m <= n
        BY <1>1
      <4> QED BY <2>2, <4>1, <4>3, <4>4
    <3> QED BY <3>1, <3>2
  <2> HIDE DEF N
  <2> QED BY <2>1, <2>2, LengthInduction
<1>3. FlattenSeq(ss) = F[Len(ss)] /\ Len(ss) \in 1..Len(ss) /\ m <= Len(ss)
  BY <1>1, FlattenByLast DEF F
<1> QED BY <1>1, <1>2, <1>3

LEMMA ReversedMembers ==
    ASSUME NEW S, NEW ss \in Seq(Seq(S)), NEW m \in 1..Len(ss)
    PROVE  ToSet(ss[m]) \subseteq ToSet(FlattenSeq(Reverse(ss)))
<1> DEFINE v == Reverse(ss)
           n == (Len(ss) - m) + 1
<1>1. v \in Seq(Seq(S)) /\ v = [i \in 1..Len(ss) |-> ss[(Len(ss) - i) + 1]]
  BY ReverseConcat DEF Reverse
<1> HIDE DEF v
<1>2. n \in 1..Len(ss) /\ (Len(ss) - n) + 1 = m /\ Len(v) = Len(ss)
  BY <1>1
<1>3. v[n] = ss[m]
  BY <1>1, <1>2
<1> HIDE DEF n
<1>4. ToSet(v[n]) \subseteq ToSet(FlattenSeq(v))
  BY <1>1, <1>2, FlattenMembers
<1> QED BY <1>3, <1>4 DEF v

LEMMA ExprOwn ==
    ASSUME NEW S, NEW e, IsExpr(e, Nat), ToSet(free_expr(e)) \subseteq S
    PROVE  IsExpr(e, S)
<1>1. /\ LeafIds(e) \in Seq(Seq(Nat)) /\ Len(LeafIds(e)) = Len(e)
      /\ free_expr(e) = FlattenSeq(LeafIds(e)) /\ DOMAIN e = 1..Len(e)
  BY LeafIdsFacts, SeqFacts DEF IsExpr
<1>2. ASSUME NEW i \in 1..Len(e), IsLeaf(e[i]) PROVE e[i].string.id \in S
  <2>1. LeafIds(e)[i] = <<e[i].string.id>>
    BY <1>1, <1>2 DEF LeafIds
  <2>2. \A x : x \in ToSet(<<x>>)
    BY DEF ToSet
  <2>3. ToSet(LeafIds(e)[i]) \subseteq ToSet(free_expr(e))
    BY <1>1, FlattenMembers
  <2> QED BY <2>1, <2>2, <2>3
<1> QED BY <1>2 DEF IsExpr, IsNode, IsString

LEMMA ArgsOwn ==
    ASSUME NEW S, NEW e, IsArgs(e, Nat), ToSet(free_args(e)) \subseteq S
    PROVE  IsArgs(e, S)
<1>1. /\ ExprIds(e) \in Seq(Seq(Nat)) /\ Len(ExprIds(e)) = Len(e)
      /\ free_args(e) = FlattenSeq(Reverse(ExprIds(e))) /\ DOMAIN e = 1..Len(e)
  BY ArgsFacts, SeqFacts DEF IsArgs
<1>2. ASSUME NEW i \in 1..Len(e) PROVE IsExpr(e[i], S)
  <2>1. ExprIds(e)[i] = free_expr(e[i])
    BY <1>1 DEF ExprIds
  <2>2. ToSet(ExprIds(e)[i]) \subseteq ToSet(free_args(e))
    BY <1>1, ReversedMembers
  <2>3. IsExpr(e[i], Nat)
    BY DEF IsArgs
  <2> QED BY <2>1, <2>2, <2>3, ExprOwn
<1> QED BY <1>2 DEF IsArgs

LEMMA CommandsOwn ==
    ASSUME NEW S, NEW e, IsCommands(e, Nat), ToSet(free_commands(e)) \subseteq S
    PROVE  IsCommands(e, S)
<1>1. /\ ArgsIds(e) \in Seq(Seq(Nat)) /\ Len(ArgsIds(e)) = Len(e)
      /\ free_commands(e) = FlattenSeq(Reverse(ArgsIds(e))) /\ DOMAIN e = 1..Len(e)
  BY CommandsFacts, SeqFacts DEF IsCommands
<1>2. ASSUME NEW i \in 1..Len(e) PROVE IsArgs(e[i], S)
  <2>1. ArgsIds(e)[i] = free_args(e[i])
    BY <1>1 DEF ArgsIds
  <2>2. ToSet(ArgsIds(e)[i]) \subseteq ToSet(free_commands(e))
    BY <1>1, ReversedMembers
  <2>3. IsArgs(e[i], Nat)
    BY DEF IsCommands
  <2> QED BY <2>1, <2>2, <2>3, ArgsOwn
<1> QED BY <1>2 DEF IsCommands

LEMMA PipelineOwn ==
    ASSUME NEW p, IsPipeline(p, Nat)
    PROVE  IsPipeline(p, ToSet(free_pipeline(p)))
<1> DEFINE S == ToSet(free_pipeline(p))
<1>1. S = PipelineIds(p) \cup ToSet(FreeString(p.input)) \cup ToSet(FreeString(p.output))
  BY PipelineFacts
<1> HIDE DEF S
<1>2. IsCommands(p.commands, S)
  BY <1>1, CommandsOwn DEF IsPipeline, PipelineIds
<1>3. p.input = NULL \/ IsString(p.input, S)
  <2> SUFFICES ASSUME IsString(p.input, Nat) PROVE IsString(p.input, S)
    BY DEF IsPipeline
  <2>1. ToSet(FreeString(p.input)) = {p.input.id}
    BY StringFacts
  <2> QED BY <1>1, <2>1 DEF IsString
<1>4. p.output = NULL \/ IsString(p.output, S)
  <2> SUFFICES ASSUME IsString(p.output, Nat) PROVE IsString(p.output, S)
    BY DEF IsPipeline
  <2>1. ToSet(FreeString(p.output)) = {p.output.id}
    BY StringFacts
  <2> QED BY <1>1, <2>1 DEF IsString
<1>5. IsPipeline(p, S)
  BY <1>2, <1>3, <1>4 DEF IsPipeline
<1> QED BY <1>5 DEF S

\* The copy of a pipeline in blocks of its own.
IsCopy(c, at, old) ==
    /\ IsPipeline(c, Nat) /\ IsInjective(free_pipeline(c))
    /\ ToSet(free_pipeline(c)) = RenSet(old, at)

LEMMA PipelineRenamed ==
    ASSUME NEW p, IsPipeline(p, Nat), IsInjective(free_pipeline(p)),
           NEW old, old = ToSet(free_pipeline(p)),
           NEW at \in [old -> Nat], \A x, y \in old : at[x] = at[y] => x = y
    PROVE  IsCopy(copy_pipeline(p, at), at, old)
<1>2. IsPipeline(p, old)
  BY PipelineOwn
<1> DEFINE c == copy_pipeline(p, at)
           f == free_pipeline(p)
<1>3. IsPipeline(c, Nat) /\ free_pipeline(c) = Ren(f, at) /\ f \in Seq(old)
  BY <1>2, PipelineCopy
<1> HIDE DEF c, f
<1>4. ToSet(Ren(f, at)) = RenSet(ToSet(f), at)
  <2>1. f \in Seq(old)
    BY <1>3
  <2> QED BY <2>1, RenFacts, Zenon
<1>5. IsInjective(Ren(f, at))
  <2>1. IsInjective(f)
    BY DEF f
  <2> QED BY <1>3, <2>1, RenInjective
<1>6. ToSet(f) = old
  BY DEF f
<1> QED BY <1>3, <1>4, <1>5, <1>6 DEF c, IsCopy

LEMMA PipelineCopied ==
    ASSUME NEW p, IsPipeline(p, Nat), IsInjective(free_pipeline(p)),
           NEW old, old = ToSet(free_pipeline(p)), old \subseteq 1..99,
           NEW at, at = [id \in old |-> 100 + id]
    PROVE  IsCopy(copy_pipeline(p, at), at, old)
<1>1. at \in [old -> Nat] /\ \A x, y \in old : at[x] = at[y] => x = y
  OBVIOUS
<1> QED BY <1>1, PipelineRenamed, Zenon

-----------------------------------------------------------------------------
(* Who owns the strings that are allocated.                                *)

LookIds == IF yychar = Empty THEN {} ELSE Ids(YYTRANSLATE(yychar.kind), yychar.value)
Held == AllIds(yyss, yyvs)

\* The strings of the stack and of the lookahead are apart, and allocated; the strings
\* are numbered by the tokens of the line, but for one that is read after an error.
Apart ==
    /\ Good(yyss, yyvs)
    /\ yychar # Empty => Sound(YYTRANSLATE(yychar.kind), yychar.value)
    /\ LookIds \cap Held = {}
    /\ Held \cup LookIds \subseteq live
    /\ IsSeq(line)
    /\ live \subseteq 1..Len(line) \cup LookIds
    /\ yyerrstatus = 0 => LookIds \subseteq 1..Len(line)

\* After an error a line is read to its end and no further.
Status ==
    /\ yyerrstatus \in {0, 2, 3}
    /\ pc = "recover" => yyerrstatus = 3
    /\ pc = "parse" /\ yyerrstatus = 2 => EndsLine(Top)

ReturnedSound ==
    /\ StringsOf(mush_parsed_stmt) \subseteq live
    /\ IsInjective(free_stmt(mush_parsed_stmt))
    /\ mush_parsed_stmt # NULL /\ mush_parsed_stmt.class \in {"FG", "BG"} =>
          IsRun(mush_parsed_stmt)

OwnInv ==
    /\ LineInv
    /\ ~twice
    /\ pc \in {"parse", "recover"} => Apart /\ Status
    /\ pc = "returned" => ReturnedSound

-----------------------------------------------------------------------------
LEMMA Freed ==
    ASSUME NEW ids, Free(ids), ~twice, IsInjective(ids), ToSet(ids) \subseteq live
    PROVE  live' = live \ ToSet(ids) /\ ~twice'
BY DEF Free

LEMMA OneIdFacts ==
    ASSUME NEW x
    PROVE  IsInjective(<<x>>) /\ ToSet(<<x>>) = {x}
BY DEF IsInjective, ToSet

\* What is decided, when it is something to do with the lookahead.
LEMMA DecidedBy ==
    ASSUME LineInv, Ready
    PROVE  \E t \in Tokens :
              /\ Decided = Decision(Top, t)
              /\ Top \in States \ {YYFINAL}
              /\ NeedsToken(Top) => yychar # Empty
              /\ yychar # Empty => t = YYTRANSLATE(yychar.kind)
<1>1. Top \in States \ {YYFINAL} /\ (NeedsToken(Top) => yychar # Empty)
  BY TopFacts DEF Ready, LineInv
<1>2. CASE yychar = Empty
  <2>1. 0 \in Tokens /\ Decided = Decision(Top, 0)
    BY <1>2, TableSizes DEF Decided
  <2> QED BY <1>1, <1>2, <2>1
<1>3. CASE yychar # Empty
  <2>1. Decided = Decision(Top, YYTRANSLATE(yychar.kind))
    BY <1>3 DEF Decided
  <2>2. YYTRANSLATE(yychar.kind) \in Tokens
    BY EOLNumber
  <2> QED BY <1>1, <1>3, <2>1, <2>2
<1> QED BY <1>2, <1>3

LEMMA LookFacts ==
    ASSUME Apart, yychar # Empty
    PROVE  LET ids == yydestruct(YYTRANSLATE(yychar.kind), yychar.value)
           IN  /\ ids \in Seq(Nat) /\ IsInjective(ids) /\ ToSet(ids) = LookIds
               /\ LookIds \subseteq live
<1> DEFINE n == YYTRANSLATE(yychar.kind)
<1>1. n \in 0..45
  BY KindFacts
<1>2. Sound(n, yychar.value) /\ LookIds = Ids(n, yychar.value) /\ LookIds \subseteq live
  BY DEF Apart, LookIds
<1> HIDE DEF n
<1>3. n \in 0..61 /\ n # 47 /\ n \notin 52..53
  BY <1>1
<1>4. /\ yydestruct(n, yychar.value) \in Seq(Nat) /\ IsInjective(yydestruct(n, yychar.value))
      /\ ToSet(yydestruct(n, yychar.value)) = Ids(n, yychar.value)
  BY <1>2, <1>3, Destructed
<1> QED BY <1>2, <1>4 DEF n

\* The end of a line is no string.
LEMMA NoLookIds ==
    ASSUME NEW kind, kind \notin StringTokens, NEW v
    PROVE  Ids(YYTRANSLATE(kind), v) = {} /\ Sound(YYTRANSLATE(kind), v)
<1>1. YYTRANSLATE(kind) \notin OfString \cup 48..54
  BY KindFacts
<1> QED BY <1>1, Ownerless

\* What a shift finds.
LEMMA ShiftingFacts ==
    ASSUME OwnInv, YyShift
    PROVE  LET q == Decided.to
               t == YYTRANSLATE(yychar.kind)
           IN  /\ pc = "parse" /\ Apart /\ Status /\ ~twice /\ Good(yyss, yyvs)
               /\ Top = yyss[Len(yyss)] /\ Len(yyss) \in 1..Len(yyss) /\ Top = Last(yyss)
               /\ Top \in States \ {9, YYFINAL} /\ yychar # Empty
               /\ t \in Tokens /\ Decision(Top, t).do = "shift" /\ q = Decision(Top, t).to
               /\ q \in States \ {0} /\ Leads(Top, q) /\ At(yystos, q) = t
<1> DEFINE q == Decided.to
           t == YYTRANSLATE(yychar.kind)
<1>1. pc = "parse" /\ Apart /\ Status /\ ~twice
  BY DEF OwnInv, YyShift, Ready
<1>2. /\ Good(yyss, yyvs) /\ Top = yyss[Len(yyss)] /\ Len(yyss) \in 1..Len(yyss)
      /\ Top = Last(yyss)
  BY <1>1, TopFacts DEF Apart, OwnInv, LineInv, Top
<1>3. Top \in States \ {9, YYFINAL}
  BY <1>2, OnStack
<1>4. yychar # Empty /\ t \in Tokens /\ Decision(Top, t).do = "shift" /\ q = Decision(Top, t).to
  <2>1. PICK u \in Tokens : /\ Decided = Decision(Top, u)
                            /\ NeedsToken(Top) => yychar # Empty
                            /\ yychar # Empty => u = YYTRANSLATE(yychar.kind)
    BY DecidedBy DEF YyShift, OwnInv
  <2>2. Decision(Top, u).do = "shift"
    BY <2>1 DEF YyShift
  <2>3. NeedsToken(Top)
    BY <1>3, <2>1, <2>2, ShiftFacts
  <2> QED BY <2>1, <2>2, <2>3
<1>5. q \in States \ {0} /\ Leads(Top, q) /\ At(yystos, q) = t
  BY <1>3, <1>4, ShiftLeads
<1> QED BY <1>1, <1>2, <1>3, <1>4, <1>5

LEMMA ShiftOwn ==
    ASSUME OwnInv, YyShift, LineInv'
    PROVE  /\ OwnInv' /\ Held' = Held \cup LookIds /\ yyerrstatus \in {0, 3}
           /\ yyerrstatus = 3 => EndsLine(Decided.to)
<1> DEFINE q == Decided.to
           t == YYTRANSLATE(yychar.kind)
           v == yychar.value
<1>1. pc = "parse" /\ Apart /\ Status /\ ~twice
  BY ShiftingFacts
<1>2. Good(yyss, yyvs) /\ Len(yyss) \in 1..Len(yyss) /\ Top = Last(yyss)
  BY ShiftingFacts
<1>3. Top \in States \ {9, YYFINAL}
  BY ShiftingFacts
<1>4. yychar # Empty /\ t \in Tokens /\ Decision(Top, t).do = "shift" /\ q = Decision(Top, t).to
  BY ShiftingFacts
<1>5. q \in States \ {0} /\ Leads(Top, q) /\ At(yystos, q) = t
  BY ShiftingFacts
<1>6. /\ yyss' = Append(yyss, q) /\ yyvs' = Append(yyvs, v) /\ yychar' = Empty
      /\ pc' = "parse" /\ live' = live /\ twice' = twice /\ line' = line
      /\ yyerrstatus' = IF yyerrstatus > 0 THEN yyerrstatus - 1 ELSE 0
  BY <1>1 DEF YyShift, memory, lexer
<1>7. Sound(t, v) /\ LookIds = Ids(t, v) /\ LookIds \cap Held = {}
  BY <1>1, <1>4 DEF Apart, LookIds
<1>8. LookIds' = {}
  BY <1>6 DEF LookIds
<1>9. yyerrstatus = 3 \/ yyerrstatus = 0
  <2>1. ~EndsLine(Top)
    BY <1>3, <1>4, EndFacts
  <2> QED BY <1>1, <2>1 DEF Status
<1>10. yyerrstatus = 3 => t = EOL /\ EndsLine(q)
  <2> HAVE yyerrstatus = 3
  <2>1. Top = 1
    BY <1>1 DEF OwnInv, LineInv, LineKept
  <2> QED BY <1>4, <1>5, <2>1, ShiftBehindError DEF EndsLine
<1>11. LookIds \subseteq 1..Len(line)
  <2>1. CASE yyerrstatus = 0
    BY <1>1, <2>1 DEF Apart
  <2>2. CASE yyerrstatus = 3
    <3>1. t \notin OfString \cup 48..54
      BY <1>10, <2>2 DEF OfString, EOL
    <3> QED BY <1>7, <3>1, Ownerless
  <2> QED BY <1>9, <2>1, <2>2
<1>12. /\ Good(Append(yyss, q), Append(yyvs, v))
       /\ AllIds(Append(yyss, q), Append(yyvs, v)) = AllIds(yyss, yyvs) \cup Ids(t, v)
  <2>1. Ids(At(yystos, q), v) \cap AllIds(yyss, yyvs) = {} /\ Sound(At(yystos, q), v)
    BY <1>5, <1>7 DEF Held
  <2> HIDE DEF q, v, t
  <2>2. /\ Good(Append(yyss, q), Append(yyvs, v))
        /\ AllIds(Append(yyss, q), Append(yyvs, v))
              = AllIds(yyss, yyvs) \cup Ids(At(yystos, q), v)
    BY <1>2, <1>5, <2>1, GoodPushed
  <2> QED BY <1>5, <2>2
<1>13. Good(yyss, yyvs)' /\ Held' = Held \cup LookIds
  BY <1>6, <1>7, <1>12 DEF Held
<1>14. Apart'
  <2>1. (yychar # Empty => Sound(YYTRANSLATE(yychar.kind), yychar.value))'
    BY <1>6
  <2>2. Held' \cup LookIds' \subseteq live' /\ LookIds' \cap Held' = {}
    BY <1>1, <1>6, <1>8, <1>13 DEF Apart
  <2>3. IsSeq(line)' /\ (live \subseteq 1..Len(line) \cup LookIds)'
    <3>1. IsSeq(line) /\ live \subseteq 1..Len(line)
      BY <1>1, <1>11 DEF Apart
    <3> QED BY <1>6, <3>1
  <2> QED BY <1>8, <1>13, <2>1, <2>2, <2>3 DEF Apart
<1>15. Status'
  <2>1. Top' = q
    <3>1. Len(yyss) \in Nat
      BY <1>2 DEF Good
    <3>2. yyss \in Seq(States)
      BY <1>2 DEF Good
    <3> HIDE DEF q
    <3> QED BY <1>6, <3>1, <3>2 DEF Top, Last
  <2>2. yyerrstatus = 0 => yyerrstatus' = 0
    BY <1>6
  <2>3. yyerrstatus = 3 => yyerrstatus' = 2 /\ EndsLine(Top)'
    BY <1>6, <1>10, <2>1 DEF EndsLine
  <2> QED BY <1>6, <1>9, <2>2, <2>3 DEF Status
<1> QED BY <1>1, <1>6, <1>9, <1>10, <1>13, <1>14, <1>15 DEF OwnInv

\* What a reduction, of a rule that does not return, finds.
LEMMA ReducingFacts ==
    ASSUME OwnInv, Reducing
    PROVE  /\ pc = "parse" /\ Apart /\ Status /\ ~twice
           /\ Top = Last(yyss) /\ Top \in States \ {9, YYFINAL}
           /\ Rule # 0 /\ (Rule = At(yydefact, Top) \/ (Rule = 51 /\ Top = 0))
           /\ Rule \in 2..60
           /\ EndsLine(Top) => Rule \in 2..20
           /\ Rule \notin 2..20 => At(yyr2, Rule) \in 0..Below(Top) /\ Below(Top) < Len(yyss)
<1>1. pc = "parse" /\ Apart /\ Status /\ ~twice
  BY DEF OwnInv, Reducing, Ready
<1>2. /\ Good(yyss, yyvs) /\ Top = yyss[Len(yyss)] /\ Len(yyss) \in 1..Len(yyss)
      /\ Below(Top) < Len(yyss)
  BY <1>1, TopFacts DEF Apart, OwnInv, LineInv
<1>3. Top \in States \ {9, YYFINAL}
  BY <1>2, OnStack
<1>4. PICK t \in Tokens : Decided = Decision(Top, t)
  BY DecidedBy DEF Reducing, OwnInv
<1>5. Decision(Top, t).do = "reduce" /\ Rule = Decision(Top, t).to
  BY <1>4 DEF Reducing, Rule
<1>6. Rule # 0 /\ (Rule = At(yydefact, Top) \/ (Rule = 51 /\ Top = 0))
  BY <1>3, <1>5, ReductionIs
<1>7. /\ Rule \in 2..60
      /\ EndsLine(Top) => Rule \in 2..20
      /\ Rule \notin 2..20 => At(yyr2, Rule) \in 0..Below(Top)
  BY <1>3, <1>5, ReduceFacts
<1> QED BY <1>1, <1>2, <1>3, <1>6, <1>7 DEF Top

\* The new stack, as far as what it owns is concerned.
Shrunk ==
    LET d == Dollars
    IN  /\ Good(yyss, yyvs)' /\ Held' \subseteq Held
        /\ Rule \notin {22, 23, 54} => Held' = Held
        /\ Rule \in 22..23 => Held \subseteq Held' \cup ToSet(FreeString(File(d[1], Rule)))
        /\ Rule = 54 => d[1].id \in Held \ Held' /\ Held \subseteq Held' \cup {d[1].id}

LEMMA StackReduced ==
    ASSUME OwnInv, YyReduce
    PROVE  Shrunk
<1>1. /\ pc = "parse" /\ Apart /\ Top = Last(yyss)
      /\ Rule = At(yydefact, Top) \/ (Rule = 51 /\ Top = 0)
      /\ Rule \in 21..60
      /\ At(yyr2, Rule) \in 0..Below(Top) /\ Below(Top) < Len(yyss)
  BY ReducingFacts DEF YyReduce, Returning
<1>2. Reduces(Last(yyss), Rule)
  BY <1>1 DEF Reduces
<1>3. At(yyr2, Rule) <= Len(yyss) - 1
  <2>1. Below(Top) \in 0..3 /\ Len(yyss) \in Nat
    BY TopFacts DEF OwnInv, LineInv
  <2> QED BY <1>1, <2>1
<1> DEFINE n == At(yyr2, Rule)
           s == Popped(yyss, n)
           d == DollarsOf(yyvs, n)
           ss2 == Append(s, Goto(Last(s), Rule))
           vv2 == Append(Popped(yyvs, n), Value(Rule, d))
           old == AllIds(yyss, yyvs)
           new == AllIds(ss2, vv2)
<1>4. /\ Good(ss2, vv2)
      /\ new \subseteq old
      /\ Rule \notin {22, 23, 54} => new = old
      /\ Rule \in 22..23 => old \subseteq new \cup ToSet(FreeString(File(d[1], Rule)))
      /\ Rule = 54 => d[1].id \in old \ new /\ old \subseteq new \cup {d[1].id}
  BY <1>1, <1>2, <1>3, Reduced DEF Apart
<1>5. yyss' = ss2 /\ yyvs' = vv2 /\ Dollars = d
  BY DEF YyReduce, Dollars, DollarsOf, Length
<1>6. Held = old /\ Held' = new
  BY <1>5 DEF Held
<1> HIDE DEF ss2, vv2, old, new, d
<1>7. Shrunk
  BY <1>4, <1>5, <1>6 DEF Shrunk
<1> QED BY <1>7

LEMMA ReduceOwn ==
    ASSUME OwnInv, YyReduce, LineInv'
    PROVE  /\ OwnInv' /\ Shrunk /\ LookIds' = LookIds
           /\ live' = IF Rule = 54 THEN live \ {Dollars[1].id} ELSE live
<1>1. pc = "parse" /\ Apart /\ Status /\ ~twice
  BY ReducingFacts DEF YyReduce
<1>2. Shrunk /\ Rule \in 21..60
  <2>1. Rule \in 21..60
    BY ReducingFacts DEF YyReduce, Returning
  <2> QED BY <2>1, StackReduced
<1>3. /\ yychar' = yychar /\ yyerrstatus' = yyerrstatus /\ pc' = pc /\ line' = line
      /\ IF Rule = 54 THEN Free(<<Dollars[1].id>>) ELSE live' = live /\ twice' = twice
  BY DEF YyReduce, lexer, memory
<1>4. LookIds' = LookIds
  BY <1>3 DEF LookIds
<1>5. /\ ~twice'
      /\ live' = IF Rule = 54 THEN live \ {Dollars[1].id} ELSE live
  <2>1. CASE Rule = 54
    <3>1. Dollars[1].id \in live
      BY <1>1, <1>2, <2>1 DEF Shrunk, Apart
    <3>2. IsInjective(<<Dollars[1].id>>) /\ ToSet(<<Dollars[1].id>>) = {Dollars[1].id}
      BY OneIdFacts
    <3>3. Free(<<Dollars[1].id>>)
      BY <1>3, <2>1
    <3> QED BY <1>1, <2>1, <3>1, <3>2, <3>3, Freed
  <2>2. CASE Rule # 54
    BY <1>1, <1>3, <2>2
  <2> QED BY <2>1, <2>2
<1>6. Apart'
  <2>1. LookIds \cap Held' = {} /\ Held' \cup LookIds \subseteq live'
    <3>1. Held' \subseteq Held /\ (Rule = 54 => Dollars[1].id \in Held \ Held')
      BY <1>2 DEF Shrunk
    <3>2. LookIds \cap Held = {} /\ Held \cup LookIds \subseteq live
      BY <1>1 DEF Apart
    <3> QED BY <1>5, <3>1, <3>2
  <2>2. Good(yyss, yyvs)'
    BY <1>2 DEF Shrunk
  <2>3. live' \subseteq live
    BY <1>5
  <2> QED BY <1>1, <1>3, <1>4, <2>1, <2>2, <2>3 DEF Apart
<1>7. Status'
  <2>1. yyerrstatus # 2
    <3>1. ~EndsLine(Top)
      BY <1>2, ReducingFacts DEF YyReduce
    <3> QED BY <1>1, <3>1 DEF Status
  <2> QED BY <1>1, <1>3, <2>1 DEF Status
<1>8. pc' = "parse"
  BY <1>1, <1>3
<1> QED BY <1>2, <1>4, <1>5, <1>6, <1>7, <1>8 DEF OwnInv

\* Nothing is left below a statement but the bottom of the stack.
LEMMA CleanedUp ==
    ASSUME NEW rest, Len(rest) = 1, NEW look,
           look = IF yychar = Empty THEN <<>>
                  ELSE yydestruct(YYTRANSLATE(yychar.kind), yychar.value),
           look \in Seq(Nat), Cleanup(rest)
    PROVE  Free(look)
<1> DEFINE f == [i \in 1..(Len(rest) - 1) |->
                    LET k == Len(rest) + 1 - i IN yydestruct(At(yystos, rest[k]), yyvs[k])]
<1>1. 1..(Len(rest) - 1) = {}
  OBVIOUS
<1>2. f = <<>>
  BY <1>1
<1>3. FlattenSeq(f) = <<>>
  <2>1. <<>> \in Seq(Seq(Nat)) /\ Len(<<>>) = 0
    OBVIOUS
  <2> QED BY <1>2, <2>1, FlattenByLast
<1>4. Cleanup(rest) = Free(look \o FlattenSeq(f))
  BY DEF Cleanup
<1> HIDE DEF f
<1>5. look \o FlattenSeq(f) = look
  BY <1>3
<1> QED BY <1>4, <1>5

LEMMA StatementRest ==
    ASSUME OwnInv, Reducing, Rule \in 2..20
    PROVE  /\ Rule = At(yydefact, Last(yyss))
           /\ Len(yyss) = At(yyr2, Rule) + 1
           /\ Len(Popped(yyss, Length)) = 1
<1>1. Apart /\ Top = Last(yyss) /\ Rule = At(yydefact, Top)
  BY ReducingFacts
<1>2. Len(yyss) = At(yyr2, Rule) + 1
  BY <1>1, StatementStack DEF Apart
<1>3. yyss \in Seq(States)
  BY <1>1 DEF Apart, Good
<1>4. Length = At(yyr2, Rule)
  BY DEF Length
<1>5. Length \in Nat
  <2>1. \A r \in 2..20 : At(yyr2, r) \in Nat
    BY DEF At, yyr2
  <2> QED BY <1>4, <2>1
<1>6. Len(Popped(yyss, Length)) = 1
  <2> DEFINE n == Len(yyss) - Length
  <2>1. n = 1 /\ 1 <= Len(yyss) /\ Len(yyss) \in Nat
    BY <1>2, <1>3, <1>4, <1>5
  <2>2. Popped(yyss, Length) = SubSeq(yyss, 1, n)
    BY DEF Popped
  <2> HIDE DEF n
  <2>3. Popped(yyss, Length) = SubSeq(yyss, 1, 1)
    BY <2>1, <2>2
  <2> QED BY <1>3, <2>1, <2>3
<1> QED BY <1>1, <1>2, <1>6

LEMMA AcceptOwn ==
    ASSUME OwnInv, YyAccept, LineInv'
    PROVE  OwnInv' /\ live' = live /\ StringsOf(mush_parsed_stmt)' = Held /\ yychar = Empty
<1>1. pc = "parse" /\ Apart /\ ~twice /\ Top = Last(yyss) /\ Top \in States
  BY ReducingFacts DEF YyAccept
<1>2. Rule \in 2..20 /\ Rule # 19
  BY DEF YyAccept, Returning
<1>3. Rule = At(yydefact, Last(yyss)) /\ Len(Popped(yyss, Length)) = 1
  BY <1>2, StatementRest DEF YyAccept
<1>4. EndsLine(Top)
  BY <1>1, <1>2, <1>3, DefaultFacts
<1>5. yychar = Empty
  BY <1>1, <1>4 DEF OwnInv, LineInv, LineKept
<1>6. live' = live /\ ~twice'
  <2>1. Cleanup(Popped(yyss, Length))
    BY DEF YyAccept
  <2>2. <<>> \in Seq(Nat) /\ IsInjective(<<>>) /\ ToSet(<<>>) = {}
    BY NoIds
  <2>3. Free(<<>>)
    BY <1>3, <1>5, <2>1, <2>2, CleanedUp
  <2> QED BY <1>1, <2>2, <2>3, Freed
<1>7. Owner(mush_parsed_stmt', Held)
  <2>1. Owner(Value(Rule, DollarsOf(yyvs, At(yyr2, Rule))), AllIds(yyss, yyvs))
    BY <1>1, <1>2, <1>3, StatementOwns DEF Apart
  <2>2. mush_parsed_stmt' = Value(Rule, DollarsOf(yyvs, At(yyr2, Rule)))
    BY DEF YyAccept, Dollars, DollarsOf, Length
  <2> QED BY <2>1, <2>2 DEF Held
<1>8. StringsOf(mush_parsed_stmt)' = Held
  BY <1>7 DEF Owner, StringsOf
<1>9. ReturnedSound'
  <2>1. Held \subseteq live
    BY <1>1 DEF Apart
  <2> QED BY <1>6, <1>7, <1>8, <2>1 DEF ReturnedSound, Owner
<1>10. pc' = "returned"
  BY DEF YyAccept
<1> QED BY <1>5, <1>6, <1>8, <1>9, <1>10 DEF OwnInv

LEMMA AbortOwn ==
    ASSUME OwnInv, YyAbort, LineInv'
    PROVE  OwnInv'
<1>1. pc = "parse" /\ Apart /\ ~twice
  BY ReducingFacts DEF YyAbort
<1>2. Len(Popped(yyss, Length)) = 1
  BY StatementRest DEF YyAbort
<1> DEFINE look == IF yychar = Empty THEN <<>>
                   ELSE yydestruct(YYTRANSLATE(yychar.kind), yychar.value)
<1>3. look \in Seq(Nat) /\ IsInjective(look) /\ ToSet(look) \subseteq live
  BY <1>1, NoIds, LookFacts
<1>4. Cleanup(Popped(yyss, Length))
  BY DEF YyAbort
<1>5. \A l : l = look /\ l \in Seq(Nat) => Free(l)
  BY <1>2, <1>4, CleanedUp
<1> HIDE DEF look
<1>6. ~twice'
  BY <1>1, <1>3, <1>5, Freed
<1>7. pc' = "stopped"
  BY DEF YyAbort
<1> QED BY <1>6, <1>7 DEF OwnInv

\* A number that is not positive is taken off the stack, with nothing that it owns.
LEMMA RejectOwn ==
    ASSUME OwnInv, RejectLineNumber, LineInv'
    PROVE  OwnInv' /\ Held' = Held /\ LookIds' = LookIds /\ live' = live
<1>1. /\ pc = "parse" /\ Apart /\ ~twice /\ Top = Last(yyss)
      /\ Rule = At(yydefact, Top) \/ (Rule = 51 /\ Top = 0)
      /\ Below(Top) < Len(yyss) /\ Rule = 52 /\ At(yyr2, Rule) \in 0..Below(Top)
  BY ReducingFacts DEF RejectLineNumber, BadLineNumber
<1>2. At(yyr2, 52) = 1 /\ Length = 1 /\ Below(Top) \in 0..3 /\ Len(yyss) \in Nat
  <2>1. At(yyr2, 52) = 1
    BY DEF At, yyr2
  <2> QED BY <1>1, <2>1, TopFacts DEF Length, OwnInv, LineInv
<1>3. At(yyr2, 52) <= Len(yyss) - 1 /\ 1 \in 0..(Len(yyss) - 1)
  BY <1>1, <1>2
<1>4. Reduces(Last(yyss), 52)
  BY <1>1 DEF Reduces
<1>5. At(yystos, yyss[Len(yyss)]) = 58
  <2>1. At(yystos, yyss[(Len(yyss) - 1) + 1]) = Rhs(52, 1)
    BY <1>1, <1>2, <1>3, <1>4, RightSide DEF Apart
  <2> QED BY <1>2, <2>1, RightSides
<1>6. IdsAt(yyss, yyvs, Len(yyss)) = {}
  <2>1. 58 \notin OfString \cup 48..54
    BY DEF OfString
  <2> QED BY <1>5, <2>1, Ownerless DEF IdsAt
<1> DEFINE s == Popped(yyss, 1)
           w == Popped(yyvs, 1)
<1>7. Good(s, w) /\ AllIds(s, w) = UNION {IdsAt(yyss, yyvs, k) : k \in 1..(Len(yyss) - 1)}
  BY <1>1, <1>3, GoodPopped DEF Apart
<1>8. AllIds(s, w) = Held
  <2>1. Held = UNION {IdsAt(yyss, yyvs, k) : k \in 1..Len(yyss)}
    BY DEF Held, AllIds
  <2>2. \A k \in 1..Len(yyss) : k \in 1..(Len(yyss) - 1) \/ k = Len(yyss)
    BY <1>2
  <2>3. \A k \in 1..(Len(yyss) - 1) : k \in 1..Len(yyss)
    BY <1>2
  <2> HIDE DEF s, w
  <2>4. Held \subseteq AllIds(s, w)
    BY <1>6, <1>7, <2>1, <2>2
  <2>5. AllIds(s, w) \subseteq Held
    BY <1>7, <2>1, <2>3
  <2> QED BY <2>4, <2>5
<1>9. /\ yyss' = s /\ yyvs' = w /\ yyerrstatus' = 3 /\ pc' = "recover" /\ yychar' = yychar
      /\ live' = live /\ twice' = twice /\ line' = line
  BY <1>2 DEF RejectLineNumber, lexer, memory
<1> HIDE DEF s, w
<1>10. Good(yyss, yyvs)' /\ Held' = Held /\ LookIds' = LookIds
  BY <1>7, <1>8, <1>9 DEF Held, LookIds
<1>11. Apart'
  BY <1>1, <1>9, <1>10 DEF Apart
<1>12. Status'
  BY <1>9 DEF Status
<1> QED BY <1>1, <1>9, <1>10, <1>11, <1>12 DEF OwnInv

\* A token that is tried a second time is freed.
LEMMA ErrorOwn ==
    ASSUME OwnInv, YyError, LineInv'
    PROVE  /\ OwnInv' /\ Held' = Held
           /\ IF yyerrstatus = 3 THEN LookIds' = {} /\ live' = live \ LookIds /\ yychar # Empty
              ELSE LookIds' = LookIds /\ live' = live
<1>1. pc = "parse" /\ Apart /\ Status /\ ~twice
  BY DEF OwnInv, YyError, Ready
<1>2. /\ UNCHANGED <<yyss, yyvs, line>> /\ yyerrstatus' = 3 /\ pc' = "recover"
      /\ IF yyerrstatus = 3
         THEN /\ Free(yydestruct(YYTRANSLATE(yychar.kind), yychar.value))
              /\ yychar' = Empty
         ELSE UNCHANGED <<yychar, live, twice>>
  BY DEF YyError, memory, lexer
<1>3. Held' = Held /\ (Good(yyss, yyvs) => Good(yyss, yyvs)')
  BY <1>2 DEF Held
<1>4. Status'
  BY <1>2 DEF Status
<1>5. CASE yyerrstatus = 3
  <2>1. Top = 1
    BY <1>1, <1>5 DEF OwnInv, LineInv, LineKept
  <2>2. yychar # Empty
    <3>1. PICK t \in Tokens : NeedsToken(Top) => yychar # Empty
      BY DecidedBy DEF OwnInv, YyError
    <3> QED BY <2>1, <3>1, ErrorFacts
  <2> DEFINE ids == yydestruct(YYTRANSLATE(yychar.kind), yychar.value)
  <2>3. IsInjective(ids) /\ ToSet(ids) = LookIds /\ LookIds \subseteq live
    BY <1>1, <2>2, LookFacts
  <2>4. Free(ids) /\ yychar' = Empty
    BY <1>2, <1>5
  <2> HIDE DEF ids
  <2>5. live' = live \ LookIds /\ ~twice' /\ LookIds' = {}
    BY <1>1, <2>3, <2>4, Freed DEF LookIds
  <2>6. Apart'
    BY <1>1, <1>2, <1>3, <2>4, <2>5 DEF Apart
  <2> QED BY <1>2, <1>3, <1>4, <1>5, <2>2, <2>5, <2>6 DEF OwnInv
<1>6. CASE yyerrstatus # 3
  <2>1. LookIds' = LookIds /\ live' = live /\ yychar' = yychar /\ twice' = twice
    BY <1>2, <1>6 DEF LookIds
  <2>2. Apart'
    BY <1>1, <1>2, <1>3, <2>1 DEF Apart
  <2> QED BY <1>1, <1>2, <1>3, <1>4, <1>6, <2>1, <2>2 DEF OwnInv
<1> QED BY <1>5, <1>6

\* A symbol is taken off the stack, and freed but for an arg.
LEMMA PopOwn ==
    ASSUME OwnInv, PopSymbol, LineInv'
    PROVE  /\ OwnInv' /\ LookIds' = LookIds
           /\ live' \subseteq live
           /\ At(yystos, Top) \notin 52..53 =>
                 live' = live \ IdsAt(yyss, yyvs, Len(yyss)) /\ Held' = Held \ (live \ live')
<1> DEFINE n == Len(yyss)
           ids == yydestruct(At(yystos, Top), Last(yyvs))
           own == IdsAt(yyss, yyvs, n)
           s == Popped(yyss, 1)
           w == Popped(yyvs, 1)
<1>1. pc = "recover" /\ Apart /\ Status /\ ~twice /\ Len(yyss) > 1
  BY DEF OwnInv, PopSymbol
<1>2. /\ n \in Nat /\ n \in 1..Len(yyss) /\ 1 \in 0..(Len(yyss) - 1) /\ Top = yyss[n]
      /\ yyss \in Seq(States) /\ IsSeq(yyvs) /\ Len(yyvs) = n /\ Last(yyvs) = yyvs[n]
  BY <1>1, TopFacts DEF Apart, Good, OwnInv, LineInv, Last
<1>3. /\ IsInjective(ids) /\ ToSet(ids) \subseteq own
      /\ At(yystos, Top) \notin 52..53 => ToSet(ids) = own
  <2>1. Sound(At(yystos, Top), Last(yyvs))
    BY <1>1, <1>2 DEF Apart, Good
  <2>2. At(yystos, Top) \in 0..61 /\ At(yystos, Top) # 47
    BY <1>1, <1>2, OnStack DEF Apart
  <2>3. own = Ids(At(yystos, Top), Last(yyvs))
    BY <1>2 DEF IdsAt
  <2> HIDE DEF own
  <2> QED BY <2>1, <2>2, <2>3, Destructed
<1>4. /\ Good(s, w)
      /\ AllIds(s, w) = UNION {IdsAt(yyss, yyvs, k) : k \in 1..(n - 1)}
  BY <1>1, <1>2, GoodPopped DEF Apart
<1>5. AllIds(s, w) = Held \ own /\ own \subseteq Held
  <2>1. Held = UNION {IdsAt(yyss, yyvs, k) : k \in 1..n}
    BY DEF Held, AllIds
  <2>2. \A k \in 1..n : k \in 1..(n - 1) \/ k = n
    BY <1>2
  <2>3. \A k \in 1..(n - 1) : k \in 1..n /\ k # n
    BY <1>2
  <2>4. \A k \in 1..(n - 1) : IdsAt(yyss, yyvs, k) \cap own = {}
    <3>1. \A k, l \in 1..n : k # l => IdsAt(yyss, yyvs, k) \cap IdsAt(yyss, yyvs, l) = {}
      BY <1>1 DEF Apart, Good
    <3> QED BY <1>2, <2>3, <3>1
  <2>5. own \subseteq Held
    BY <1>2, <2>1
  <2> HIDE DEF own, s, w
  <2>6. AllIds(s, w) \subseteq Held \ own
    BY <1>4, <2>1, <2>3, <2>4
  <2>7. Held \ own \subseteq AllIds(s, w)
    <3> SUFFICES ASSUME NEW x \in Held, x \notin own PROVE x \in AllIds(s, w)
      OBVIOUS
    <3>1. PICK k \in 1..n : x \in IdsAt(yyss, yyvs, k)
      BY <2>1
    <3>2. k # n
      BY <3>1 DEF own
    <3> QED BY <1>4, <2>2, <3>1, <3>2
  <2> QED BY <2>5, <2>6, <2>7
<1>6. /\ Free(ids) /\ yyss' = s /\ yyvs' = w
      /\ UNCHANGED <<yychar, yyerrstatus, pc, line>>
  BY <1>2 DEF PopSymbol, Front, Popped, lexer
<1>7. Held \cup LookIds \subseteq live /\ LookIds \cap Held = {}
  BY <1>1 DEF Apart
<1> HIDE DEF n, ids, own, s, w
<1>8. live' = live \ ToSet(ids) /\ ~twice'
  BY <1>1, <1>3, <1>5, <1>6, <1>7, Freed
<1>9. Held' = Held \ own /\ Good(yyss, yyvs)' /\ LookIds' = LookIds
  BY <1>4, <1>5, <1>6 DEF Held, LookIds
<1>10. Held' \cup LookIds' \subseteq live' /\ LookIds' \cap Held' = {}
  BY <1>3, <1>5, <1>7, <1>8, <1>9
<1>11. Apart'
  <2>1. live' \subseteq live
    BY <1>8
  <2> QED BY <1>1, <1>6, <1>9, <1>10, <2>1 DEF Apart
<1>12. Status'
  BY <1>1, <1>6 DEF Status
<1>13. At(yystos, Top) \notin 52..53 => live' = live \ own /\ Held' = Held \ (live \ live')
  BY <1>3, <1>5, <1>7, <1>8, <1>9
<1> QED BY <1>1, <1>6, <1>8, <1>9, <1>11, <1>12, <1>13 DEF OwnInv, own, n

LEMMA ShiftErrorOwn ==
    ASSUME OwnInv, ShiftError, LineInv'
    PROVE  OwnInv' /\ Held' = Held /\ LookIds' = LookIds /\ live' = live
<1>1. pc = "recover" /\ Apart /\ Status /\ ~twice /\ Top = Last(yyss) /\ Top \in States
  BY TopFacts DEF OwnInv, ShiftError, LineInv, Top
<1>2. ErrorShift(Top) = 1 /\ Top = 0
  BY <1>1, ErrorFacts, ErrorState DEF ShiftError
<1>3. 1 \in States /\ Leads(Last(yyss), 1)
  BY <1>1, <1>2, ErrorFacts, ErrorState
<1>4. Ids(At(yystos, 1), NULL) = {} /\ Sound(At(yystos, 1), NULL)
  <2>1. 1 \notin OfString \cup 48..54
    BY DEF OfString
  <2> QED BY <2>1, ErrorState, Ownerless
<1>5. /\ Good(Append(yyss, 1), Append(yyvs, NULL))
      /\ AllIds(Append(yyss, 1), Append(yyvs, NULL)) = AllIds(yyss, yyvs)
  <2>1. Ids(At(yystos, 1), NULL) \cap AllIds(yyss, yyvs) = {}
    BY <1>4
  <2>2. /\ Good(Append(yyss, 1), Append(yyvs, NULL))
        /\ AllIds(Append(yyss, 1), Append(yyvs, NULL))
              = AllIds(yyss, yyvs) \cup Ids(At(yystos, 1), NULL)
    BY <1>1, <1>3, <1>4, <2>1, GoodPushed DEF Apart
  <2> QED BY <1>4, <2>2
<1>6. /\ yyss' = Append(yyss, 1) /\ yyvs' = Append(yyvs, NULL) /\ pc' = "parse"
      /\ UNCHANGED <<yychar, yyerrstatus, line, live, twice>>
  BY <1>2 DEF ShiftError, lexer, memory
<1>7. Good(yyss, yyvs)' /\ Held' = Held /\ LookIds' = LookIds
  BY <1>5, <1>6 DEF Held, LookIds
<1>8. Apart'
  BY <1>1, <1>6, <1>7 DEF Apart
<1>9. Status'
  BY <1>1, <1>6 DEF Status
<1> QED BY <1>1, <1>6, <1>7, <1>8, <1>9 DEF OwnInv

\* A token from the lexer: the block of a string is a new one.
LEMMA HandOwn ==
    ASSUME OwnInv, WantsToken, NEW t, Hand(t), LineInv',
           UNCHANGED <<yyss, yyvs, yyerrstatus, pc, twice>>
    PROVE  /\ OwnInv' /\ Held' = Held /\ yychar = Empty /\ LookIds = {} /\ pc = "parse"
           /\ LookIds' = IF t.kind \in StringTokens THEN {Len(line) + 1} ELSE {}
           /\ live' = live \cup LookIds' /\ live \subseteq 1..Len(line)
           /\ yychar' # Empty /\ yychar'.kind = t.kind
<1> DEFINE n == YYTRANSLATE(t.kind)
           id == Len(line) + 1
           v == IF t.kind \in StringTokens THEN String(id, t.text) ELSE NULL
<1>1. pc = "parse" /\ Apart /\ Status /\ ~twice /\ yychar = Empty /\ Top' = Top
  BY DEF OwnInv, WantsToken, Top
<1>2. LookIds = {} /\ live \subseteq 1..Len(line) /\ Len(line) \in Nat /\ IsSeq(line)
  <2>1. LookIds = {} /\ IsSeq(line)
    BY <1>1 DEF LookIds, Apart
  <2> QED BY <1>1, <2>1, SeqFacts DEF Apart
<1>3. /\ Sound(n, v) /\ Ids(n, v) = IF t.kind \in StringTokens THEN {id} ELSE {}
  <2>1. CASE t.kind \in StringTokens
    <3>1. n \in OfString
      BY <2>1, KindFacts
    <3>2. IsString(String(id, t.text), Nat) /\ String(id, t.text).id = id
      BY <1>2 DEF IsString, String
    <3>3. v = String(id, t.text)
      BY <2>1
    <3> HIDE DEF n, v, id
    <3>4. IsString(v, Nat) /\ v.id = id
      BY <3>2, <3>3
    <3>5. Sound(n, v) /\ Ids(n, v) = {v.id}
      BY <3>1, <3>4, OfStrings
    <3> QED BY <2>1, <3>4, <3>5
  <2>2. CASE t.kind \notin StringTokens
    BY <2>2, NoLookIds
  <2> QED BY <2>1, <2>2
<1>4. /\ yychar' = [kind |-> t.kind, value |-> v]
      /\ live' = IF t.kind \in StringTokens THEN live \cup {id} ELSE live
      /\ line' = IF yyerrstatus = 0 THEN Append(line, t) ELSE line
  BY DEF Hand
<1>5. yychar' # Empty /\ yychar'.kind = t.kind /\ yychar'.value = v
  <2>1. yychar'.kind = t.kind /\ yychar'.value = v /\ DOMAIN yychar' = {"kind", "value"}
    BY <1>4
  <2>2. DOMAIN Empty = {"kind"}
    BY DEF Empty
  <2> QED BY <2>1, <2>2
<1>6. LookIds' = IF t.kind \in StringTokens THEN {id} ELSE {}
  BY <1>3, <1>5 DEF LookIds
<1>7. Held' = Held /\ (Good(yyss, yyvs) => Good(yyss, yyvs)')
  BY DEF Held
<1>8. (yychar # Empty => Sound(YYTRANSLATE(yychar.kind), yychar.value))'
  BY <1>3, <1>5
<1>9. live' = live \cup LookIds' /\ id \notin live
  BY <1>2, <1>4, <1>6
<1>10. IsSeq(line') /\ Len(line') = IF yyerrstatus = 0 THEN id ELSE Len(line)
  BY <1>2, <1>4, AppendSeq
<1>11. /\ live' \subseteq 1..Len(line') \cup LookIds'
       /\ yyerrstatus' = 0 => LookIds' \subseteq 1..Len(line')
  <2>1. yyerrstatus = 0 => id \in 1..Len(line') /\ 1..Len(line) \subseteq 1..Len(line')
    BY <1>2, <1>10
  <2>2. 1..Len(line) \subseteq 1..Len(line')
    BY <1>2, <1>10
  <2> HIDE DEF id
  <2> QED BY <1>2, <1>6, <1>9, <2>1, <2>2
<1>12. Apart'
  <2>1. LookIds' \cap Held' = {} /\ Held' \cup LookIds' \subseteq live'
    <3>1. Held \subseteq live
      BY <1>1 DEF Apart
    <3> HIDE DEF id
    <3> QED BY <1>6, <1>7, <1>9, <3>1
  <2> HIDE DEF n, v, id
  <2> QED BY <1>1, <1>7, <1>8, <1>10, <1>11, <2>1 DEF Apart
<1>13. Status'
  BY <1>1 DEF Status
<1> QED BY <1>1, <1>2, <1>5, <1>6, <1>7, <1>9, <1>12, <1>13 DEF OwnInv

-----------------------------------------------------------------------------
NoValues == <<NULL>>
NoTokens == <<>>

\* Nothing is owned before anything is read.
LEMMA NothingOwned ==
    ASSUME NEW ss, ss = NewStack, NEW vv, vv = NoValues, NEW l, l = NoTokens
    PROVE  Good(ss, vv) /\ AllIds(ss, vv) = {} /\ IsSeq(l) /\ Len(l) = 0
<1>1. ss \in Seq(States) /\ Len(ss) = 1 /\ ss[1] = 0 /\ Len(vv) = 1 /\ vv[1] = NULL
  BY TableSizes DEF NewStack, NoValues
<1>2. IsSeq(vv) /\ IsSeq(l) /\ Len(l) = 0
  <2>1. NoValues \in Seq({NULL}) /\ NoTokens \in Seq({})
    BY DEF NoValues, NoTokens
  <2>2. Len(NoTokens) = 0
    BY DEF NoTokens
  <2> QED BY <2>1, <2>2, SomeSeq
<1>3. Sound(At(yystos, 0), NULL) /\ Ids(At(yystos, 0), NULL) = {}
  <2>1. At(yystos, 0) \notin OfString \cup 48..54
    BY DEF At, yystos, OfString
  <2> QED BY <2>1, Ownerless
<1>4. \A k \in 1..Len(ss) : k = 1
  BY <1>1
<1>5. IdsAt(ss, vv, 1) = {}
  BY <1>1, <1>3 DEF IdsAt
<1>6. Good(ss, vv)
  <2>1. \A k \in 1..(Len(ss) - 1) : Leads(ss[k], ss[k + 1])
    BY <1>1
  <2>2. \A k \in 1..Len(ss) : Sound(At(yystos, ss[k]), vv[k])
    BY <1>1, <1>3, <1>4
  <2>3. \A k, m \in 1..Len(ss) : k # m => IdsAt(ss, vv, k) \cap IdsAt(ss, vv, m) = {}
    BY <1>4
  <2> QED BY <1>1, <1>2, <2>1, <2>2, <2>3 DEF Good
<1>7. AllIds(ss, vv) = {}
  BY <1>4, <1>5 DEF AllIds
<1> QED BY <1>2, <1>6, <1>7

LEMMA NewCallOwn ==
    ASSUME NewCall, pc' = "parse", ~twice', LineInv'
    PROVE  OwnInv' /\ Held' = {} /\ LookIds' = {} /\ live' = {} /\ Len(line') = 0 /\ yychar' = Empty
<1>1. /\ yyss' = NewStack /\ yyvs' = NoValues /\ line' = NoTokens
      /\ yychar' = Empty /\ yyerrstatus' = 0 /\ live' = {}
  BY DEF NewCall, NewStack, NoValues, NoTokens
<1>2. Good(yyss, yyvs)' /\ Held' = {} /\ IsSeq(line') /\ Len(line') = 0
  BY <1>1, NothingOwned DEF Held
<1>3. LookIds' = {}
  BY <1>1 DEF LookIds
<1>4. Apart'
  BY <1>1, <1>2, <1>3 DEF Apart
<1>5. Status'
  BY <1>1 DEF Status
<1> QED BY <1>1, <1>2, <1>3, <1>4, <1>5 DEF OwnInv

LEMMA InitOwn == Init => OwnInv /\ Held = {} /\ LookIds = {} /\ live = {} /\ Len(line) = 0
<1> SUFFICES ASSUME Init
             PROVE  OwnInv /\ Held = {} /\ LookIds = {} /\ live = {} /\ Len(line) = 0
  OBVIOUS
<1>1. /\ yyss = NewStack /\ yyvs = NoValues /\ line = NoTokens /\ ~twice
      /\ yychar = Empty /\ yyerrstatus = 0 /\ live = {} /\ pc = "parse"
  BY DEF Init, NewStack, NoValues, NoTokens
<1>2. Good(yyss, yyvs) /\ Held = {} /\ IsSeq(line) /\ Len(line) = 0
  BY <1>1, NothingOwned DEF Held
<1>3. LookIds = {}
  BY <1>1 DEF LookIds
<1>4. Apart
  BY <1>1, <1>2, <1>3 DEF Apart
<1>5. Status
  BY <1>1 DEF Status
<1>6. LineInv
  BY NothingRead DEF NewStack, Init, LineInv, LineKept, Empty
<1> QED BY <1>1, <1>2, <1>3, <1>4, <1>5, <1>6 DEF OwnInv

\* A copy takes the place of the pipeline it was made of.
LEMMA CopyOwn ==
    ASSUME OwnInv, CopyPipeline, LineInv'
    PROVE  /\ OwnInv'
           /\ live = StringsOf(mush_parsed_stmt) => live' = StringsOf(mush_parsed_stmt')
<1> DEFINE m == mush_parsed_stmt
           p == m.pipeline
           old == StringsOf(m)
           at == [id \in old |-> 100 + id]
           copy == copy_pipeline(p, at)
<1>1. /\ pc = "returned" /\ m # NULL /\ m.class \in {"FG", "BG"} /\ old \subseteq 1..99
      /\ m' = [m EXCEPT !.pipeline = copy]
      /\ live' = (live \ old) \cup {at[id] : id \in old}
      /\ pc' = pc /\ twice' = twice
  BY DEF CopyPipeline
<1>2. ~twice /\ IsRun(m) /\ IsInjective(free_stmt(m)) /\ old \subseteq live
  BY <1>1 DEF OwnInv, ReturnedSound
<1>3. free_stmt(m) = free_pipeline(p) /\ old = ToSet(free_pipeline(p)) /\ IsPipeline(p, Nat)
  BY <1>1, <1>2 DEF free_stmt, StringsOf, IsRun
<1>4. IsCopy(copy, at, old)
  BY <1>1, <1>2, <1>3, PipelineCopied
<1>5. m' = [class |-> m.class, lineno |-> m.lineno, pipeline |-> copy]
  <2> HIDE DEF copy
  <2> QED BY <1>1, <1>2 DEF IsRun
<1>6. /\ m'.class = m.class /\ m'.pipeline = copy /\ IsRun(m)'
      /\ m' # NULL
  <2>1. m'.class = m.class /\ m'.pipeline = copy /\ m'.lineno = m.lineno
    BY <1>5
  <2>2. IsPipeline(copy, Nat)
    BY <1>4 DEF IsCopy
  <2> HIDE DEF copy
  <2>3. IsRun(m)'
    BY <1>5, <2>1, <2>2 DEF IsRun
  <2>4. m' # NULL
    BY <1>1, <2>1 DEF NULL
  <2> QED BY <2>1, <2>3, <2>4
<1>7. free_stmt(m)' = free_pipeline(copy)
  BY <1>1, <1>6 DEF free_stmt
<1>8. IsInjective(free_stmt(m))' /\ StringsOf(m)' = RenSet(old, at)
  BY <1>4, <1>7 DEF IsCopy, StringsOf
<1>9. RenSet(old, at) = {at[id] : id \in old}
  BY DEF RenSet
<1>10. ReturnedSound'
  BY <1>1, <1>6, <1>8, <1>9 DEF ReturnedSound
<1> QED BY <1>1, <1>2, <1>8, <1>9, <1>10 DEF OwnInv

\* The statement that is executed, and freed, is sound.
LEMMA ExecuteOwn ==
    ASSUME OwnInv, Execute, LineInv'
    PROVE  OwnInv' /\ NewCall /\ yychar' = Empty
<1>1. NewCall /\ pc' = "parse" /\ pc = "returned"
  BY DEF Execute
<1>2. ~twice /\ ReturnedSound
  BY <1>1 DEF OwnInv
<1>3. IF mush_parsed_stmt = NULL \/ mush_parsed_stmt.lineno # 0 THEN twice' = twice
      ELSE twice' = (twice \/ ~(StringsOf(mush_parsed_stmt) \subseteq live)
                           \/ ~IsInjective(free_stmt(mush_parsed_stmt)))
  BY DEF Execute
<1>4. ~twice'
  BY <1>2, <1>3 DEF ReturnedSound
<1> QED BY <1>1, <1>4, NewCallOwn

LEMMA RetypeOwn ==
    ASSUME OwnInv, ListAndRetype, LineInv'
    PROVE  OwnInv' /\ NewCall /\ yychar' = Empty
<1>1. NewCall /\ pc' = "parse" /\ twice' = twice
  BY DEF ListAndRetype
<1>2. ~twice
  BY DEF OwnInv
<1> QED BY <1>1, <1>2, NewCallOwn

LEMMA LexOwn ==
    ASSUME OwnInv, yylex, LineInv'
    PROVE  OwnInv'
<1>1. WantsToken /\ UNCHANGED <<yyss, yyvs, yyerrstatus, pc, twice>> /\ \E t : Hand(t)
  BY DEF yylex, ReadToken, ReadEOL, ReadEOF, ReadListed
<1> QED BY <1>1, HandOwn

LEMMA OwnStep == OwnInv /\ [Next]_vars => OwnInv'
<1> SUFFICES ASSUME OwnInv, [Next]_vars PROVE OwnInv'
  OBVIOUS
<1>1. LineInv'
  BY LineStep DEF OwnInv
<1>2. CASE yyparse
  <2>1. CASE YyShift
    BY <1>1, <2>1, ShiftOwn
  <2>2. CASE YyReduce
    BY <1>1, <2>2, ReduceOwn
  <2>3. CASE YyAccept
    BY <1>1, <2>3, AcceptOwn
  <2>4. CASE YyAbort
    BY <1>1, <2>4, AbortOwn
  <2>5. CASE RejectLineNumber
    BY <1>1, <2>5, RejectOwn
  <2>6. CASE YyError
    BY <1>1, <2>6, ErrorOwn
  <2>7. CASE PopSymbol
    BY <1>1, <2>7, PopOwn
  <2>8. CASE ShiftError
    BY <1>1, <2>8, ShiftErrorOwn
  <2> QED BY <1>2, <2>1, <2>2, <2>3, <2>4, <2>5, <2>6, <2>7, <2>8 DEF yyparse
<1>3. CASE yylex
  BY <1>1, <1>3, LexOwn
<1>4. CASE Execute
  BY <1>1, <1>4, ExecuteOwn
<1>5. CASE CopyPipeline
  BY <1>1, <1>5, CopyOwn
<1>6. CASE ListAndRetype
  BY <1>1, <1>6, RetypeOwn
<1>7. CASE UNCHANGED vars
  <2>1. /\ UNCHANGED <<yyss, yyvs, yychar, yyerrstatus, pc, mush_parsed_stmt, line, live, twice>>
        /\ UNCHANGED <<depth, ended, eols>>
    BY <1>7 DEF vars, parser, lexer, memory
  <2>2. Apart => Apart'
    BY <2>1 DEF Apart, LookIds, Held
  <2>3. Status /\ pc \in {"parse", "recover"} => Status'
    BY <2>1 DEF Status, Top
  <2>4. ReturnedSound => ReturnedSound'
    BY <2>1 DEF ReturnedSound
  <2> QED BY <1>1, <2>1, <2>2, <2>3, <2>4 DEF OwnInv
<1> QED BY <1>2, <1>3, <1>4, <1>5, <1>6, <1>7 DEF Next, Stopped

\* Whatever lines are read: no string is freed twice.
THEOREM NoStringIsFreedTwice == Spec => []~twice
<1>1. Init => OwnInv
  BY InitOwn
<1>2. OwnInv => ~twice
  BY DEF OwnInv
<1> QED BY <1>1, <1>2, OwnStep, PTL DEF Spec

-----------------------------------------------------------------------------
(* Where the strings went that nobody owns.                                *)

\* The line redirects a stream twice, or is a pipeline with an error.
TwoFiles == \E kind \in {"LESS", "GREATER"} : \E i, j \in Redirections(kind) : i # j
Excused == TwoFiles \/ (yyerrstatus > 0 /\ BeginsPipeline)
Kept == live \subseteq Held \cup LookIds \/ Excused

\* The name of a file is numbered by its token, the one behind its redirection; the
\* redirections of the two directions are at ins and at outs.
Redirected(p, ins, outs) ==
    /\ p.input # NULL => p.input.id - 1 \in ins
    /\ p.output # NULL => p.output.id - 1 \in outs
FileStates == {56, 57, 93, 95}
IsFile(a, q, v, ins, outs) ==
    /\ a = 63 /\ q \in FileStates => v.id - 1 \in ins
    /\ a = 64 /\ q \in FileStates => v.id - 1 \in outs
Files(ss, vv, ins, outs) ==
    /\ \A k \in 1..Len(ss) : ss[k] = 35 => Redirected(vv[k], ins, outs)
    /\ \A k \in 1..(Len(ss) - 1) : IsFile(ss[k], ss[k + 1], vv[k + 1], ins, outs)
Ins == Redirections("LESS")
Outs == Redirections("GREATER")

\* The tokens read before the lookahead.
ShiftedTokens == Len(line) - (IF yychar = Empty THEN 0 ELSE 1)
Direction(state) == IF state = 63 THEN "LESS" ELSE "GREATER"
LastToken ==
    /\ yychar # Empty => Len(line) > 0 /\ line[Len(line)].kind = yychar.kind
    /\ yychar # Empty /\ yychar.kind \in StringTokens => yychar.value.id = Len(line)
    /\ Top \in {63, 64} => ShiftedTokens > 0 /\ line[ShiftedTokens].kind = Direction(Top)

\* The tokens that a pipeline begins with, and the states behind the first of its symbols.
Starters == StringTokens \cup {"SHARP", "DOLLAR", "LPAREN"}
HasNumber == Len(line) > 0 /\ line[1].kind = "NUMBER"
Begun ==
    \/ HasNumber /\ Len(line) > 1 /\ line[2].kind \in Starters
    \/ Len(line) > 0 /\ ~HasNumber /\ line[1].kind \in Starters
FirstTokens ==
    /\ Len(yyss) = 1 => ShiftedTokens = 0
    /\ Len(yyss) = 2 /\ Top \in {2, 11, 12} => ShiftedTokens = 1 /\ HasNumber
    /\ Top = 10 => \/ ShiftedTokens = 1 /\ HasNumber
                   \/ ShiftedTokens = 0 /\ Len(line) = 1 /\ ~HasNumber

InPipeline == 35..40 \cup 62..67 \cup 93..96
AtStart == 32..43 \cup 19..22
Starts(ss, begun) ==
    /\ \A k \in 1..Len(ss) : ss[k] \in InPipeline => begun
    /\ \A k \in 1..(Len(ss) - 1) : ss[k] = 10 /\ ss[k + 1] \in AtStart => begun

Traced(ss, vv, ins, outs, begun) == Files(ss, vv, ins, outs) /\ Starts(ss, begun)

Trace ==
    /\ Traced(yyss, yyvs, Ins, Outs, Begun)
    /\ pc = "recover" => Top \notin {40, 47}
    /\ pc = "parse" /\ yyerrstatus = 0 => LastToken /\ FirstTokens

KeptInv ==
    /\ OwnInv
    /\ pc \in {"parse", "recover"} => Kept /\ Trace
    /\ pc = "returned" => IsSeq(line) /\ (live = StringsOf(mush_parsed_stmt) \/ Excused)

-----------------------------------------------------------------------------
LEMMA TracedPushed ==
    ASSUME NEW ss, NEW vv, Good(ss, vv), NEW ins, NEW outs, NEW begun,
           Traced(ss, vv, ins, outs, begun), NEW q, NEW v,
           q = 35 => Redirected(v, ins, outs), IsFile(Last(ss), q, v, ins, outs),
           q \in InPipeline => begun, Last(ss) = 10 /\ q \in AtStart => begun
    PROVE  Traced(Append(ss, q), Append(vv, v), ins, outs, begun)
<1> DEFINE s == Append(ss, q)
           w == Append(vv, v)
           n == Len(ss)
<1>1. n \in Nat /\ n > 0 /\ IsSeq(ss) /\ IsSeq(vv) /\ Len(vv) = n /\ Last(ss) = ss[n]
  BY SomeSeq DEF Good, Last
<1>2. /\ Len(s) = n + 1 /\ s[n + 1] = q /\ \A k \in 1..n : s[k] = ss[k]
      /\ w[n + 1] = v /\ \A k \in 1..n : w[k] = vv[k]
  BY <1>1, AppendSeq
<1> HIDE DEF s, w
<1>3. \A k \in 1..(n + 1) : k = n + 1 \/ k \in 1..n
  BY <1>1
<1>4. \A k \in 1..n : k = n \/ (k \in 1..(n - 1) /\ k + 1 \in 1..n)
  BY <1>1
<1>5. Files(ss, vv, ins, outs) /\ Starts(ss, begun)
  BY DEF Traced
<1>6. \A k \in 1..(n + 1) : s[k] = 35 => Redirected(w[k], ins, outs)
  <2>1. \A k \in 1..n : ss[k] = 35 => Redirected(vv[k], ins, outs)
    BY <1>5 DEF Files
  <2> QED BY <1>2, <1>3, <2>1
<1>7. \A k \in 1..n : IsFile(s[k], s[k + 1], w[k + 1], ins, outs)
  <2> SUFFICES ASSUME NEW k \in 1..n PROVE IsFile(s[k], s[k + 1], w[k + 1], ins, outs)
    OBVIOUS
  <2>1. CASE k = n
    BY <1>1, <1>2, <2>1
  <2>2. CASE k # n
    <3>1. k \in 1..(n - 1) /\ k + 1 \in 1..n
      BY <1>4, <2>2
    <3>2. s[k] = ss[k] /\ s[k + 1] = ss[k + 1] /\ w[k + 1] = vv[k + 1]
      BY <1>2, <3>1
    <3>3. IsFile(ss[k], ss[k + 1], vv[k + 1], ins, outs)
      BY <1>5, <3>1 DEF Files
    <3> QED BY <3>2, <3>3
  <2> QED BY <2>1, <2>2
<1>8. Files(s, w, ins, outs)
  <2>1. Len(s) - 1 = n
    BY <1>1, <1>2
  <2> QED BY <1>2, <1>6, <1>7, <2>1 DEF Files
<1>9. \A k \in 1..(n + 1) : s[k] \in InPipeline => begun
  <2>1. \A k \in 1..n : ss[k] \in InPipeline => begun
    BY <1>5 DEF Starts
  <2> QED BY <1>2, <1>3, <2>1
<1>10. \A k \in 1..n : s[k] = 10 /\ s[k + 1] \in AtStart => begun
  <2> SUFFICES ASSUME NEW k \in 1..n, s[k] = 10, s[k + 1] \in AtStart PROVE begun
    OBVIOUS
  <2>1. CASE k = n
    BY <1>1, <1>2, <2>1
  <2>2. CASE k # n
    <3>1. k \in 1..(n - 1) /\ k + 1 \in 1..n
      BY <1>4, <2>2
    <3>2. s[k] = ss[k] /\ s[k + 1] = ss[k + 1]
      BY <1>2, <3>1
    <3> QED BY <1>5, <3>1, <3>2 DEF Starts
  <2> QED BY <2>1, <2>2
<1>11. Starts(s, begun)
  <2>1. Len(s) - 1 = n
    BY <1>1, <1>2
  <2> QED BY <1>2, <1>9, <1>10, <2>1 DEF Starts
<1> QED BY <1>8, <1>11 DEF Traced, s, w

LEMMA TracedPopped ==
    ASSUME NEW ss, NEW vv, Good(ss, vv), NEW ins, NEW outs, NEW begun,
           Traced(ss, vv, ins, outs, begun), NEW n \in 0..(Len(ss) - 1)
    PROVE  Traced(Popped(ss, n), Popped(vv, n), ins, outs, begun)
<1> DEFINE s == Popped(ss, n)
           w == Popped(vv, n)
<1>1. Len(s) = Len(ss) - n /\ \A k \in 1..Len(s) : s[k] = ss[k] /\ w[k] = vv[k]
  BY GoodPopped
<1>2. Len(ss) \in Nat
  BY DEF Good
<1> HIDE DEF s, w
<1>3. \A k \in 1..Len(s) : k \in 1..Len(ss)
  BY <1>1, <1>2
<1>4. \A k \in 1..(Len(s) - 1) : /\ k \in 1..Len(s) /\ k + 1 \in 1..Len(s)
                                /\ k \in 1..(Len(ss) - 1)
  BY <1>1, <1>2
<1>5. Files(ss, vv, ins, outs) /\ Starts(ss, begun)
  BY DEF Traced
<1>6. \A k \in 1..Len(s) : s[k] = 35 => Redirected(w[k], ins, outs)
  BY <1>1, <1>3, <1>5 DEF Files
<1>7. \A k \in 1..(Len(s) - 1) : IsFile(s[k], s[k + 1], w[k + 1], ins, outs)
  BY <1>1, <1>4, <1>5 DEF Files
<1>8. \A k \in 1..Len(s) : s[k] \in InPipeline => begun
  BY <1>1, <1>3, <1>5 DEF Starts
<1>9. \A k \in 1..(Len(s) - 1) : s[k] = 10 /\ s[k + 1] \in AtStart => begun
  BY <1>1, <1>4, <1>5 DEF Starts
<1>10. Files(s, w, ins, outs) /\ Starts(s, begun)
  BY <1>6, <1>7, <1>8, <1>9 DEF Files, Starts
<1> QED BY <1>10 DEF Traced, s, w

LEMMA TracedGrown ==
    ASSUME NEW ss, NEW vv, NEW ins, NEW outs, NEW begun, Traced(ss, vv, ins, outs, begun),
           NEW ins2, ins \subseteq ins2, NEW outs2, outs \subseteq outs2,
           NEW begun2, begun => begun2
    PROVE  Traced(ss, vv, ins2, outs2, begun2)
<1>1. Files(ss, vv, ins2, outs2)
  <2>1. \A p : Redirected(p, ins, outs) => Redirected(p, ins2, outs2)
    BY DEF Redirected
  <2>2. \A a, q, v : IsFile(a, q, v, ins, outs) => IsFile(a, q, v, ins2, outs2)
    BY DEF IsFile
  <2> QED BY <2>1, <2>2 DEF Traced, Files
<1>2. Starts(ss, begun2)
  BY DEF Traced, Starts
<1> QED BY <1>1, <1>2 DEF Traced

\* What was said of the line remains true while it grows.
Grown ==
    /\ Ins \subseteq Ins' /\ Outs \subseteq Outs'
    /\ TwoFiles => TwoFiles'
    /\ Begun => Begun'

LEMMA LineGrows ==
    ASSUME IsSeq(line), NEW t, line' = line \/ line' = Append(line, t)
    PROVE  Grown
<1>1. CASE line' = line
  BY <1>1 DEF Grown, Ins, Outs, TwoFiles, Redirections, Begun, HasNumber
<1>2. CASE line' = Append(line, t)
  <2>1. /\ Len(line') = Len(line) + 1 /\ Len(line) \in Nat
        /\ \A i \in 1..Len(line) : line'[i] = line[i]
    BY <1>2, AppendSeq, SeqFacts
  <2>2. \A kind : Redirections(kind) \subseteq Redirections(kind)'
    <3> SUFFICES ASSUME NEW kind, NEW i \in Redirections(kind) PROVE i \in Redirections(kind)'
      OBVIOUS
    <3>1. i \in 1..(Len(line) - 1) /\ line[i].kind = kind /\ line[i + 1].kind \in {"NAME", "STRING"}
      BY DEF Redirections
    <3>2. i \in 1..Len(line) /\ i + 1 \in 1..Len(line) /\ i \in 1..(Len(line') - 1)
      BY <2>1, <3>1
    <3> QED BY <2>1, <3>1, <3>2 DEF Redirections
  <2>3. TwoFiles => TwoFiles'
    BY <2>2 DEF TwoFiles
  <2>4. Begun => Begun'
    <3>1. Len(line) > 0 => 1 \in 1..Len(line) /\ Len(line') > 0
      BY <2>1
    <3>2. Len(line) > 1 => 2 \in 1..Len(line) /\ Len(line') > 1
      BY <2>1
    <3> QED BY <2>1, <3>1, <3>2 DEF Begun, HasNumber
  <2> QED BY <2>2, <2>3, <2>4 DEF Grown, Ins, Outs
<1> QED BY <1>1, <1>2

LEMMA BegunBegins == Begun /\ Len(line) \in Nat => BeginsPipeline
BY DEF Begun, HasNumber, BeginsPipeline, Starters

\* An excuse stays one to the end of the call.
LEMMA ExcusedStays ==
    ASSUME Excused, line' = line, yyerrstatus > 0 => yyerrstatus' > 0
    PROVE  Excused'
BY DEF Excused, TwoFiles, Redirections, BeginsPipeline

-----------------------------------------------------------------------------
(* The states of a pipeline, and the tokens that lead to them.             *)

StarterTokens == 3..6 \cup {33, 41, 42}

\* Where a token leads.
TokenLeads(a, q, t) ==
    /\ q \notin {10, 11, 12, 35}
    /\ q = 2 => t = 3
    /\ q = 63 => t = 25
    /\ q = 64 => t = 26
    /\ q \in FileStates => t \in {4, 6}
    /\ q \in InPipeline => a \in InPipeline
    /\ a = 10 /\ q \in AtStart => t \in StarterTokens

LEMMA TokenTargets ==
    ASSUME NEW a \in States, NEW q \in States, Leads(a, q), At(yystos, q) \in Tokens
    PROVE  TokenLeads(a, q, At(yystos, q))
<1>1. q \in 0..113 /\ a \in 0..113 /\ At(yystos, q) \in 0..45
  BY TableSizes
<1>2. q \notin {10, 11, 12} \cup 35..40 \cup {67, 93, 95, 96} \cup 41..43
  BY <1>1 DEF At, yystos
<1>3. q = 2 => At(yystos, q) = 3
  BY DEF At, yystos
<1>4. (q = 63 => At(yystos, q) = 25) /\ (q = 64 => At(yystos, q) = 26)
  BY DEF At, yystos
<1>5. q \in FileStates => At(yystos, q) \in {4, 6}
  <2>1. q \in FileStates => q \in {56, 57}
    BY <1>2 DEF FileStates
  <2>2. At(yystos, 56) = 4 /\ At(yystos, 57) = 6
    BY DEF At, yystos
  <2> QED BY <2>1, <2>2
<1>6. q \in InPipeline => a \in InPipeline
  <2>1. q \in InPipeline => q \in {62, 63, 64, 65, 66, 94}
    BY <1>1, <1>2 DEF InPipeline
  <2>2. \A x \in {62, 63, 64, 65} : Before(x) = 35
    BY DEF Before
  <2>3. Before(66) = 37 /\ Before(94) = 64
    BY DEF Before
  <2>4. \A x \in {62, 63, 64, 65, 66, 94} : Leads(a, x) => a = Before(x)
    BY DEF Leads
  <2>5. q \in {62, 63, 64, 65, 66, 94} => a \in {35, 37, 64}
    BY <2>2, <2>3, <2>4
  <2> QED BY <2>1, <2>5 DEF InPipeline
<1>7. q \in AtStart => At(yystos, q) \in StarterTokens
  <2>1. q \in AtStart => q \in {19, 20, 21, 22, 32, 33, 34}
    BY <1>1, <1>2 DEF AtStart
  <2>2. \A x \in {19, 20, 21, 22, 32, 33, 34} : At(yystos, x) \in {3, 4, 5, 6, 33, 41, 42}
    BY DEF At, yystos
  <2> QED BY <2>1, <2>2 DEF StarterTokens
<1> QED BY <1>2, <1>3, <1>4, <1>5, <1>6, <1>7 DEF TokenLeads

LEMMA StarterKinds ==
    ASSUME NEW kind
    PROVE  kind \in Starters <=> YYTRANSLATE(kind) \in StarterTokens
BY KindNames DEF Named, Starters, StringTokens, StarterTokens

\* Where a nonterminal leads.
SymbolLeads(a, q) ==
    /\ q \notin {2, 56, 57, 63, 64}
    /\ q \in InPipeline => a \in InPipeline \cup {10}
    /\ q \in {10, 11} => a = 0
    /\ q \in AtStart => q \notin 19..22 \cup 32..34

LEMMA SymbolTargets ==
    ASSUME NEW a \in States, NEW q \in States, Leads(a, q), At(yystos, q) >= 46
    PROVE  SymbolLeads(a, q)
<1>1. q \in 0..113 /\ a \in 0..113
  BY TableSizes
<1>2. q \notin {2, 56, 57} \cup 62..66 \cup {94} \cup 19..22 \cup 32..34
  BY <1>1 DEF At, yystos
<1>3. q \in InPipeline => a \in InPipeline \cup {10}
  <2>1. q \in InPipeline => q \in 35..36 \cup 37..38 \cup 39..40 \cup {67, 93, 95, 96}
    BY <1>1, <1>2 DEF InPipeline
  <2>2. q \in 35..36 => a = 10
    <3>1. \A x \in 35..36 : Before(x) = 10
      BY DEF Before
    <3> QED BY <3>1 DEF Leads
  <2>3. q \in 37..38 => a \in {10, 66}
    <3>1. \A x \in 37..38 : Before(x) = 114
      BY DEF Before
    <3> QED BY <1>1, <3>1 DEF Leads
  <2>4. q \in 39..40 => a \in {10, 39, 66}
    <3>1. \A x \in 39..40 : Before(x) = 114
      BY DEF Before
    <3> QED BY <1>1, <3>1 DEF Leads
  <2>5. q \in {67, 93, 95, 96} => a \in {39, 63, 64, 66}
    <3>1. Before(67) = 39 /\ Before(93) = 63 /\ Before(95) = 64 /\ Before(96) = 66
      BY DEF Before
    <3>2. q \in {67, 93, 95, 96} => a = Before(q)
      BY DEF Leads
    <3> QED BY <3>1, <3>2
  <2> QED BY <2>1, <2>2, <2>3, <2>4, <2>5 DEF InPipeline
<1>4. q \in {10, 11} => a = 0
  <2>1. \A x \in 10..11 : Before(x) = 114
    BY DEF Before
  <2> QED BY <1>1, <2>1 DEF Leads
<1> QED BY <1>2, <1>3, <1>4 DEF SymbolLeads

\* What a rule has on its right is no keyword.
LEMMA NoKeywords ==
    ASSUME NEW r \in 21..60, At(yyr2, r) >= 1
    PROVE  Rhs(r, 1) \notin 14..22
BY DEF Rhs, FirstOf, At, yyr2

\* The first symbol of a pipeline, behind its line number.
LEMMA FirstSymbols ==
    ASSUME NEW x \in States, Leads(10, x), At(yystos, x) \notin 14..22
    PROVE  x \in AtStart
<1>1. x \in 0..113
  BY TableSizes
<1>2. x \notin 23..31
  <2>1. \A y \in 23..31 : At(yystos, y) \in 14..22
    BY DEF At, yystos
  <2> QED BY <2>1
<1>3. Before(x) = 10 => x \in 23..31 \cup 35..36
  BY <1>1 DEF Before
<1>4. x \in 19..22 \cup 32..34 \cup 41..43 \cup 37..38 \cup 39..40 \/ Before(x) = 10
  BY DEF Leads, BeforeExpr, AfterAny, AfterArithmetic, AfterLogic
<1> QED BY <1>2, <1>3, <1>4 DEF AtStart

\* The state in which a rule is reduced.
ReducedAt(s, r) ==
    /\ r = 54 => s = 2
    /\ r = 53 => s = 12
    /\ r = 52 => s = 11
    /\ r = 51 => s = 0
    /\ r = 59 => s = 56
    /\ r = 60 => s = 57
    /\ r = 22 => s = 93
    /\ r = 23 => s = 95

LEMMA ReductionStates ==
    ASSUME NEW s \in States, NEW r \in 21..60, Reduces(s, r)
    PROVE  ReducedAt(s, r)
<1>1. s \in 0..113 /\ (r = At(yydefact, s) \/ (r = 51 /\ s = 0))
  BY TableSizes DEF Reduces
<1>2. \A x \in 0..113 : At(yydefact, x) \in {54, 53, 52, 51} => x \in {2, 12, 11}
  BY DEF At, yydefact
<1>3. \A x \in 0..113 : At(yydefact, x) \in {59, 60, 22, 23} => x \in {56, 57, 93, 95}
  BY DEF At, yydefact
<1>4. At(yydefact, 2) = 54 /\ At(yydefact, 12) = 53 /\ At(yydefact, 11) = 52
  BY DEF At, yydefact
<1>5. At(yydefact, 56) = 59 /\ At(yydefact, 57) = 60 /\ At(yydefact, 93) = 22
      /\ At(yydefact, 95) = 23
  BY DEF At, yydefact
<1>6. r \in {54, 53, 52, 51} => (s \in {2, 12, 11} /\ r = At(yydefact, s)) \/ (r = 51 /\ s = 0)
  BY <1>1, <1>2
<1>7. r \in {59, 60, 22, 23} => s \in {56, 57, 93, 95} /\ r = At(yydefact, s)
  BY <1>1, <1>3
<1> QED BY <1>4, <1>5, <1>6, <1>7 DEF ReducedAt

\* The rules by the states they lead to.
RuleOf(r, q) ==
    /\ q = 12 => r = 54
    /\ q = 11 => r = 53
    /\ q = 10 => r \in 51..52
    /\ q = 35 => r \in 21..24
    /\ q \in {93, 95} => r \in 59..60

LEMMA RulesOf ==
    ASSUME NEW r \in 21..60, NEW q \in States, At(yystos, q) = At(yyr1, r)
    PROVE  RuleOf(r, q) /\ At(yystos, q) >= 46
<1>1. /\ At(yystos, 12) = 59 /\ At(yystos, 11) = 58 /\ At(yystos, 10) = 57
      /\ At(yystos, 35) = 48 /\ At(yystos, 93) = 61 /\ At(yystos, 95) = 61
  BY DEF At, yystos
<1>2. \A x \in 21..60 : At(yyr1, x) \in {59, 58, 57} => x \in 51..54
  BY DEF At, yyr1
<1>3. At(yyr1, 51) = 57 /\ At(yyr1, 52) = 57 /\ At(yyr1, 53) = 58 /\ At(yyr1, 54) = 59
  BY DEF At, yyr1
<1>4. \A x \in 21..60 : At(yyr1, x) = 48 => x \in 21..24
  BY DEF At, yyr1
<1>5. \A x \in 21..60 : At(yyr1, x) = 61 => x \in 59..60
  BY DEF At, yyr1
<1>6. \A x \in 21..60 : At(yyr1, x) >= 46
  BY DEF At, yyr1
<1> DEFINE lhs == At(yyr1, r)
<1>7. lhs \in {59, 58, 57} => r \in 51..54
  BY <1>2
<1>9. r \in 51..54 => (lhs = 59 => r = 54) /\ (lhs = 58 => r = 53) /\ (lhs = 57 => r \in 51..52)
  BY <1>3
<1>10. (lhs = 48 => r \in 21..24) /\ (lhs = 61 => r \in 59..60) /\ lhs >= 46
  BY <1>4, <1>5, <1>6
<1>8. /\ q = 12 => lhs = 59
      /\ q = 11 => lhs = 58
      /\ q = 10 => lhs = 57
      /\ q = 35 => lhs = 48
      /\ q \in {93, 95} => lhs = 61
      /\ At(yystos, q) = lhs
  BY <1>1
<1> HIDE DEF lhs
<1> QED BY <1>7, <1>8, <1>9, <1>10 DEF RuleOf

\* No symbol follows an arg that is simple, and it is reduced whatever follows.
LEMMA SimpleOnTop ==
    /\ \A s, q \in States : Leads(s, q) => s \notin {40, 47}
    /\ \A s \in States, t \in Tokens : Decision(s, t).do = "error" => s \notin {40, 47}
    /\ \A s \in States : At(yystos, s) \in 52..53 => s \in {39, 40, 47}
<1>1. ASSUME NEW s \in {40, 47}, NEW q \in States, Leads(s, q) PROVE FALSE
  <2>1. q \in 0..113
    BY TableSizes
  <2>2. s = Before(q)
    BY <1>1 DEF Leads, BeforeAtom, BeforeExpr, AfterAny, AfterArithmetic, AfterLogic
  <2>3. Before(q) \notin {40, 47}
    BY <2>1 DEF Before
  <2> QED BY <2>2, <2>3
<1>2. ASSUME NEW s \in {40, 47}, NEW t \in Tokens, Decision(s, t).do = "error" PROVE FALSE
  <2>1. \A x \in {40, 47} : At(yypact, x) = -53 /\ At(yydefact, x) \in {30, 35}
    BY DEF At, yypact, yydefact
  <2>2. ~NeedsToken(s) /\ At(yydefact, s) # 0
    BY <2>1 DEF NeedsToken, YYPACT_NINF
  <2> QED BY <1>2, <2>2 DEF Decision, Reduction
<1>3. ASSUME NEW s \in States, At(yystos, s) \in 52..53 PROVE s \in {39, 40, 47}
  <2>1. s \in 0..113
    BY TableSizes
  <2> QED BY <1>3, <2>1 DEF At, yystos
<1> QED BY <1>1, <1>2, <1>3

\* A file name that was just read is behind its redirection.
LEMMA FileRead ==
    ASSUME LastToken, yychar # Empty, Len(line) \in Nat, Top \in {63, 64},
           yychar.kind \in {"NAME", "STRING"}
    PROVE  /\ Top = 63 => yychar.value.id - 1 \in Ins
           /\ Top = 64 => yychar.value.id - 1 \in Outs
<1> DEFINE n == Len(line)
<1>1. /\ n > 0 /\ line[n].kind = yychar.kind /\ yychar.value.id = n
      /\ n - 1 > 0 /\ line[n - 1].kind = Direction(Top)
  <2>1. ShiftedTokens = n - 1
    BY DEF ShiftedTokens
  <2>2. yychar.kind \in StringTokens
    BY DEF StringTokens
  <2> QED BY <2>1, <2>2 DEF LastToken
<1>2. n - 1 \in 1..(n - 1) /\ (n - 1) + 1 = n
  BY <1>1
<1>3. n - 1 \in Redirections(Direction(Top))
  BY <1>1, <1>2 DEF Redirections
<1> QED BY <1>1, <1>3 DEF Direction, Ins, Outs

\* A token that begins a pipeline was the first of the line, or the first but its number.
LEMMA PipelineBegins ==
    ASSUME LastToken, FirstTokens, yychar # Empty, Len(line) \in Nat, Top = 10,
           yychar.kind \in Starters
    PROVE  Begun
<1>1. Len(line) > 0 /\ line[Len(line)].kind = yychar.kind /\ ShiftedTokens = Len(line) - 1
  BY DEF LastToken, ShiftedTokens
<1>2. CASE ShiftedTokens = 1 /\ HasNumber
  <2> DEFINE n == Len(line)
  <2>1. n - 1 = 1 /\ n \in Nat
    BY <1>1, <1>2, Zenon
  <2>2. n = 2
    <3> HIDE DEF n
    <3> QED BY <2>1
  <2> QED BY <1>1, <1>2, <2>2 DEF Begun
<1>3. CASE ShiftedTokens = 0 /\ Len(line) = 1 /\ ~HasNumber
  BY <1>1, <1>3 DEF Begun
<1> QED BY <1>2, <1>3 DEF FirstTokens

LEMMA ShiftKept ==
    ASSUME KeptInv, YyShift, LineInv'
    PROVE  KeptInv'
<1> DEFINE q == Decided.to
           t == YYTRANSLATE(yychar.kind)
           v == yychar.value
<1>1. OwnInv' /\ Held' = Held \cup LookIds /\ yyerrstatus \in {0, 3}
      /\ (yyerrstatus = 3 => EndsLine(q))
  BY ShiftOwn DEF KeptInv
<1>2. /\ pc = "parse" /\ Apart /\ Good(yyss, yyvs) /\ Top = Last(yyss)
      /\ Top \in States /\ yychar # Empty
  BY ShiftingFacts DEF KeptInv
<1>3. t \in Tokens /\ q \in States \ {0} /\ Leads(Top, q) /\ At(yystos, q) = t
  BY ShiftingFacts DEF KeptInv
<1>4. Kept /\ Trace
  BY <1>2 DEF KeptInv
<1>5. /\ yyss' = Append(yyss, q) /\ yyvs' = Append(yyvs, v) /\ yychar' = Empty
      /\ pc' = "parse" /\ live' = live /\ line' = line
      /\ yyerrstatus' = IF yyerrstatus > 0 THEN yyerrstatus - 1 ELSE 0
  BY <1>2 DEF YyShift, memory, lexer
<1>6. TokenLeads(Top, q, t) /\ Len(line) \in Nat
  <2>1. TokenLeads(Top, q, At(yystos, q))
    BY <1>2, <1>3, TokenTargets
  <2> QED BY <1>2, <1>3, <2>1, SeqFacts DEF Apart
<1>7. yyerrstatus = 3 => t = EOL
  BY <1>1, <1>3 DEF EndsLine
<1>8. Top' = q /\ Len(yyss') = Len(yyss) + 1 /\ Len(yyss) \in Nat \ {0}
  <2>1. yyss \in Seq(States) /\ Len(yyss) > 0
    BY <1>2 DEF Good
  <2>2. q \in States
    BY <1>3
  <2> HIDE DEF q
  <2> QED BY <1>5, <2>1, <2>2 DEF Top, Last
<1>9. Kept'
  <2>1. LookIds' = {}
    BY <1>5 DEF LookIds
  <2>2. Excused => Excused'
    BY <1>1, <1>5, ExcusedStays
  <2> QED BY <1>1, <1>4, <1>5, <2>1, <2>2 DEF Kept
<1>10. Traced(yyss, yyvs, Ins, Outs, Begun)'
  <2>1. q = 35 => Redirected(v, Ins, Outs)
    BY <1>6 DEF TokenLeads
  <2>2. IsFile(Last(yyss), q, v, Ins, Outs)
    <3> SUFFICES ASSUME Top \in {63, 64}, q \in FileStates
                 PROVE  /\ Top = 63 => v.id - 1 \in Ins
                        /\ Top = 64 => v.id - 1 \in Outs
      BY <1>2 DEF IsFile
    <3>1. t \in {4, 6}
      BY <1>6 DEF TokenLeads
    <3>2. yychar.kind \in {"NAME", "STRING"}
      BY <3>1, KindNames DEF Named
    <3>3. yyerrstatus = 0
      BY <1>1, <1>7, <3>1 DEF EOL
    <3> QED BY <1>2, <1>4, <1>6, <3>2, <3>3, FileRead DEF Trace
  <2>3. q \in InPipeline => Begun
    <3>1. q \in InPipeline => Top \in InPipeline
      BY <1>6 DEF TokenLeads
    <3>2. Top \in InPipeline => Begun
      <4>1. \A k \in 1..Len(yyss) : yyss[k] \in InPipeline => Begun
        BY <1>4 DEF Trace, Traced, Starts
      <4>2. Len(yyss) \in 1..Len(yyss) /\ Top = yyss[Len(yyss)]
        BY <1>8 DEF Top, Last
      <4> QED BY <4>1, <4>2
    <3> QED BY <3>1, <3>2
  <2>4. Last(yyss) = 10 /\ q \in AtStart => Begun
    <3> SUFFICES ASSUME Top = 10, q \in AtStart PROVE Begun
      BY <1>2
    <3>1. t \in StarterTokens
      BY <1>6 DEF TokenLeads
    <3>2. yychar.kind \in Starters
      BY <3>1, StarterKinds
    <3>3. yyerrstatus = 0
      BY <1>1, <1>7, <3>1 DEF EOL, StarterTokens
    <3> QED BY <1>2, <1>4, <1>6, <3>2, <3>3, PipelineBegins DEF Trace
  <2>5. Traced(yyss, yyvs, Ins, Outs, Begun)
    BY <1>4 DEF Trace
  <2> HIDE DEF q, v
  <2>6. Traced(Append(yyss, q), Append(yyvs, v), Ins, Outs, Begun)
    BY <1>2, <2>1, <2>2, <2>3, <2>4, <2>5, TracedPushed
  <2>7. Ins' = Ins /\ Outs' = Outs /\ Begun' = Begun
    BY <1>5 DEF Ins, Outs, Redirections, Begun, HasNumber
  <2> QED BY <1>5, <2>6, <2>7
<1>11. yyerrstatus' = 0 => LastToken' /\ FirstTokens'
  <2> HAVE yyerrstatus' = 0
  <2>1. yyerrstatus = 0 /\ LastToken /\ FirstTokens
    BY <1>1, <1>2, <1>4, <1>5 DEF Trace
  <2>2. Len(line) > 0 /\ line[Len(line)].kind = yychar.kind
    BY <1>2, <2>1 DEF LastToken
  <2>3. ShiftedTokens' = Len(line) /\ ShiftedTokens = Len(line) - 1
    BY <1>2, <1>5, <1>6 DEF ShiftedTokens
  <2>4. LastToken'
    <3>1. q = 63 => yychar.kind = "LESS"
      BY <1>6, KindNames DEF Named, TokenLeads
    <3>2. q = 64 => yychar.kind = "GREATER"
      BY <1>6, KindNames DEF Named, TokenLeads
    <3> HIDE DEF q
    <3> QED BY <1>5, <1>8, <2>2, <2>3, <3>1, <3>2 DEF LastToken, Direction
  <2>5. FirstTokens'
    <3>1. Len(yyss') # 1 /\ q \notin {10, 11, 12}
      BY <1>6, <1>8 DEF TokenLeads
    <3>2. Len(yyss') = 2 /\ q = 2 => Len(line) = 1 /\ line[1].kind = "NUMBER"
      <4> HAVE Len(yyss') = 2 /\ q = 2
      <4>1. yychar.kind = "NUMBER"
        BY <1>6, KindNames DEF Named, TokenLeads
      <4>2. Len(yyss) = 1
        <5> DEFINE l == Len(yyss)
        <5>1. l + 1 = 2 /\ l \in Nat
          BY <1>8, Zenon
        <5> HIDE DEF l
        <5>2. l = 1
          BY <5>1
        <5> QED BY <5>2 DEF l
      <4> DEFINE n == Len(line)
      <4>3. n - 1 = 0 /\ n \in Nat
        BY <1>6, <2>1, <2>3, <4>2, Zenon DEF FirstTokens
      <4>4. n = 1
        <5> HIDE DEF n
        <5> QED BY <4>3
      <4> QED BY <2>2, <4>1, <4>4
    <3> HIDE DEF q
    <3> QED BY <1>5, <1>8, <2>3, <3>1, <3>2 DEF FirstTokens, HasNumber
  <2> QED BY <2>4, <2>5
<1> QED BY <1>1, <1>5, <1>9, <1>10, <1>11 DEF KeptInv, Trace

\* The stack below a reduction of rule r, and what is on its right.
ReducedOn(ss, vv, r) ==
    LET n == At(yyr2, r)
        m == Len(ss) - n
        q == Goto(ss[m], r)
        d == DollarsOf(vv, n)
    IN  /\ n \in 0..3 /\ n \in 0..(Len(ss) - 1) /\ m \in 1..Len(ss)
        /\ ss[m] \in States /\ Last(Popped(ss, n)) = ss[m] /\ Good(Popped(ss, n), Popped(vv, n))
        /\ q \in States /\ Leads(ss[m], q) /\ At(yystos, q) = At(yyr1, r)
        /\ \A i \in 1..n : /\ At(yystos, ss[m + i]) = Rhs(r, i) /\ d[i] = vv[m + i]
                          /\ m + i \in 1..Len(ss) /\ (m + i) - 1 \in 1..(Len(ss) - 1)
                          /\ Leads(ss[(m + i) - 1], ss[m + i]) /\ ss[m + i] \in States
        /\ ReducedAt(Last(ss), r) /\ RuleOf(r, q) /\ SymbolLeads(ss[m], q)

LEMMA ReductionOn ==
    ASSUME NEW ss, NEW vv, Good(ss, vv), NEW r, Reduces(Last(ss), r),
           At(yyr2, r) <= Len(ss) - 1
    PROVE  ReducedOn(ss, vv, r)
<1> DEFINE n == At(yyr2, r)
           m == Len(ss) - n
           q == Goto(ss[m], r)
           d == DollarsOf(vv, n)
<1>1. /\ n \in 0..3 /\ m \in 1..Len(ss) /\ ss[m] \in Bases(r)
      /\ \A i \in 1..n : At(yystos, ss[m + i]) = Rhs(r, i)
  BY RightSide
<1>2. r \in 21..60
  BY DEF Reduces
<1>3. /\ n \in 0..(Len(ss) - 1) /\ Len(ss) \in Nat /\ IsSeq(vv) /\ Len(vv) = Len(ss)
      /\ ss \in Seq(States) /\ Len(ss) > 0 /\ Last(ss) \in States
  BY <1>1 DEF Good, Last
<1>4. \A i \in 1..n : d[i] = vv[m + i]
  <2>1. n \in 0..Len(vv) /\ Len(vv) - n = m
    BY <1>3
  <2>2. \A i \in 1..n : DollarsOf(vv, n)[i] = vv[Len(vv) - n + i]
    BY <1>3, <2>1, DollarFacts
  <2> QED BY <2>1, <2>2
<1>5. Good(Popped(ss, n), Popped(vv, n)) /\ Last(Popped(ss, n)) = ss[m]
  BY <1>3, GoodPopped
<1>6. q \in States /\ Leads(ss[m], q) /\ At(yystos, q) = At(yyr1, r)
  BY <1>1, <1>2, GotoLeads
<1>7. ss[m] \in States
  BY <1>1, <1>3
<1>8. ReducedAt(Last(ss), r)
  BY <1>2, <1>3, ReductionStates
<1>9. RuleOf(r, q) /\ SymbolLeads(ss[m], q)
  BY <1>2, <1>6, <1>7, RulesOf, SymbolTargets
<1>10. ASSUME NEW i \in 1..n
       PROVE  /\ m + i \in 1..Len(ss) /\ (m + i) - 1 \in 1..(Len(ss) - 1)
              /\ Leads(ss[(m + i) - 1], ss[m + i]) /\ ss[m + i] \in States
  <2>1. m + i \in 1..Len(ss) /\ (m + i) - 1 \in 1..(Len(ss) - 1) /\ m + i > 1
    BY <1>1, <1>3
  <2>2. \A k \in 1..Len(ss) : k > 1 => ss[k] \in States /\ Leads(ss[k - 1], ss[k])
    BY Beneath
  <2> DEFINE k == m + i
  <2>4. k \in 1..Len(ss) /\ k > 1
    BY <2>1
  <2> HIDE DEF m, k
  <2>5. ss[k] \in States /\ Leads(ss[k - 1], ss[k])
    BY <2>2, <2>4
  <2>3. ss[m + i] \in States /\ Leads(ss[(m + i) - 1], ss[m + i])
    BY <2>5 DEF k
  <2> QED BY <2>1, <2>3
<1> HIDE DEF q, d
<1> QED BY <1>1, <1>3, <1>4, <1>5, <1>6, <1>7, <1>8, <1>9, <1>10 DEF ReducedOn, q, d

\* The rule of a redirection finds a pipeline, and a file behind the redirection.
LEMMA RedirectsOn ==
    ASSUME NEW ss, NEW vv, Good(ss, vv), NEW r \in 22..23, ReducedOn(ss, vv, r),
           NEW ins, NEW outs, Files(ss, vv, ins, outs),
           NEW d, d = DollarsOf(vv, 3)
    PROVE  /\ Redirected(d[1], ins, outs)
           /\ d[3].id - 1 \in (IF r = 22 THEN ins ELSE outs)
           /\ Sound(48, d[1]) /\ Sound(61, d[3]) /\ Ids(48, d[1]) \cap Ids(61, d[3]) = {}
<1> DEFINE at == IF r = 22 THEN ins ELSE outs
           m == Len(ss) - 3
<1>1. At(yyr2, r) = 3
  BY DEF At, yyr2
<1>2. /\ m \in 1..Len(ss) /\ ReducedAt(Last(ss), r)
      /\ \A i \in 1..3 : /\ At(yystos, ss[m + i]) = Rhs(r, i) /\ d[i] = vv[m + i]
                         /\ m + i \in 1..Len(ss) /\ (m + i) - 1 \in 1..(Len(ss) - 1)
                         /\ Leads(ss[(m + i) - 1], ss[m + i]) /\ ss[m + i] \in States
  BY <1>1 DEF ReducedOn
<1>3. Len(ss) \in Nat /\ m \in Nat /\ m + 3 = Len(ss)
  BY <1>2 DEF Good
<1> HIDE DEF m
<1>4. /\ At(yystos, ss[m + 1]) = 48 /\ At(yystos, ss[m + 3]) = 61
      /\ d[1] = vv[m + 1] /\ d[3] = vv[m + 3]
      /\ m + 1 \in 1..Len(ss) /\ m + 3 \in 1..Len(ss) /\ m + 1 # m + 3
      /\ ss[m + 1] \in States /\ ss[m + 3] \in States /\ ss[m + 2] \in States
      /\ m + 2 \in 1..(Len(ss) - 1)
      /\ Leads(ss[m + 2], ss[m + 3])
  <2>1. Rhs(r, 1) = 48 /\ Rhs(r, 3) = 61
    BY RightSides
  <2>2. (m + 3) - 1 = m + 2 /\ m + 1 # m + 3 /\ m + 2 \in 1..(Len(ss) - 1)
    BY <1>3
  <2>3. \A i \in {1, 2, 3} : i \in 1..3
    OBVIOUS
  <2> QED BY <1>2, <2>1, <2>2, <2>3
<1>5. ss[m + 1] = 35
  <2>1. \A y \in 0..113 : At(yystos, y) = 48 => y = 35
    BY DEF At, yystos
  <2> QED BY <1>4, <2>1, TableSizes
<1>6. Redirected(d[1], ins, outs)
  BY <1>4, <1>5 DEF Files
<1>7. Last(ss) = ss[m + 3] /\ ss[m + 3] = (IF r = 22 THEN 93 ELSE 95)
  <2>1. Last(ss) = ss[m + 3]
    BY <1>3 DEF Last
  <2> QED BY <1>2, <2>1 DEF ReducedAt
<1>8. ss[m + 2] = IF r = 22 THEN 63 ELSE 64
  <2>1. Before(93) = 63 /\ Before(95) = 64
    BY DEF Before
  <2>2. \A y \in {93, 95} : Leads(ss[m + 2], y) => ss[m + 2] = Before(y)
    BY DEF Leads
  <2> QED BY <1>4, <1>7, <2>1, <2>2
<1>9. d[3].id - 1 \in at
  <2>1. IsFile(ss[m + 2], ss[m + 3], d[3], ins, outs)
    <3>1. (m + 2) + 1 = m + 3
      BY <1>3
    <3>2. IsFile(ss[m + 2], ss[(m + 2) + 1], vv[(m + 2) + 1], ins, outs)
      BY <1>4 DEF Files
    <3> QED BY <1>4, <3>1, <3>2
  <2> QED BY <1>7, <1>8, <2>1 DEF IsFile, FileStates
<1>10. Sound(48, d[1]) /\ Sound(61, d[3]) /\ Ids(48, d[1]) \cap Ids(61, d[3]) = {}
  <2>1. Sound(48, d[1]) /\ Sound(61, d[3])
    BY <1>4 DEF Good
  <2>2. IdsAt(ss, vv, m + 1) = Ids(48, d[1]) /\ IdsAt(ss, vv, m + 3) = Ids(61, d[3])
    BY <1>4 DEF IdsAt
  <2>3. IdsAt(ss, vv, m + 1) \cap IdsAt(ss, vv, m + 3) = {}
    BY <1>4 DEF Good
  <2> QED BY <2>1, <2>2, <2>3
<1> QED BY <1>6, <1>9, <1>10

\* A new file takes the place of one that was there: the stream is redirected twice.
LEMMA FileLost ==
    ASSUME NEW ss, NEW vv, Good(ss, vv), NEW r \in 22..23, ReducedOn(ss, vv, r),
           NEW ins, NEW outs, Files(ss, vv, ins, outs),
           NEW d, d = DollarsOf(vv, 3), NEW x \in ToSet(FreeString(File(d[1], r)))
    PROVE  LET at == IF r = 22 THEN ins ELSE outs
           IN  x - 1 \in at /\ d[3].id - 1 \in at /\ x # d[3].id /\ x \in Nat /\ d[3].id \in Nat
<1> DEFINE at == IF r = 22 THEN ins ELSE outs
<1>6. Redirected(d[1], ins, outs)
  BY RedirectsOn
<1>9. d[3].id - 1 \in at
  BY RedirectsOn
<1>10. Sound(48, d[1]) /\ Sound(61, d[3]) /\ Ids(48, d[1]) \cap Ids(61, d[3]) = {}
  BY RedirectsOn
<1>11. d[3].id \in Nat /\ Ids(61, d[3]) = {d[3].id}
  <2>1. 61 \in OfString
    BY DEF OfString
  <2> QED BY <1>10, <2>1, OfStrings
<1>12. /\ File(d[1], r) # NULL /\ x = File(d[1], r).id /\ x \in Nat /\ x \in Ids(48, d[1])
  <2>1. IsPipeline(d[1], Nat) /\ Ids(48, d[1]) = ToSet(free_pipeline(d[1]))
    BY <1>10, Others DEF Sound, Ids
  <2>2. File(d[1], r) = NULL \/ IsString(File(d[1], r), Nat)
    BY <2>1 DEF IsPipeline, File
  <2>3. File(d[1], r) # NULL /\ x = File(d[1], r).id /\ x \in Nat
    BY <2>2, StringFacts
  <2>4. /\ ToSet(FreeString(d[1].input)) \subseteq Ids(48, d[1])
        /\ ToSet(FreeString(d[1].output)) \subseteq Ids(48, d[1])
    BY <2>1, PipelineFacts
  <2>5. x \in Ids(48, d[1])
    BY <2>4 DEF File
  <2> QED BY <2>3, <2>5
<1>13. x - 1 \in at
  BY <1>6, <1>12 DEF Redirected, File
<1>14. x # d[3].id
  BY <1>10, <1>11, <1>12
<1> QED BY <1>9, <1>11, <1>12, <1>13, <1>14

\* What is redirected to files in the value of a rule was so before.
LEMMA FilesOfRule ==
    ASSUME NEW ss, NEW vv, Good(ss, vv), NEW r \in 21..24, ReducedOn(ss, vv, r),
           NEW ins, NEW outs, Files(ss, vv, ins, outs),
           NEW d, d = DollarsOf(vv, At(yyr2, r))
    PROVE  Redirected(Value(r, d), ins, outs)
<1>1. r \in 21..29
  OBVIOUS
<1>2. CASE r = 21
  <2>1. Value(r, d).input = NULL /\ Value(r, d).output = NULL
    <3>1. Value(r, d) = [commands |-> d[1], input |-> NULL, output |-> NULL, capture |-> FALSE]
      BY <1>1, <1>2, PipelineValues
    <3> QED BY <3>1
  <2> QED BY <2>1 DEF Redirected
<1>3. CASE r \in 22..23
  <2>1. At(yyr2, r) = 3
    BY <1>3 DEF At, yyr2
  <2>2. /\ Redirected(d[1], ins, outs)
        /\ d[3].id - 1 \in (IF r = 22 THEN ins ELSE outs)
        /\ Sound(48, d[1]) /\ Sound(61, d[3]) /\ Ids(48, d[1]) \cap Ids(61, d[3]) = {}
    BY <1>3, <2>1, RedirectsOn
  <2>3. /\ File(Value(r, d), r) = d[3]
        /\ r = 22 => Value(r, d).output = d[1].output
        /\ r = 23 => Value(r, d).input = d[1].input
    BY <1>3, <2>2, RedirectValue
  <2>4. CASE r = 22
    BY <2>2, <2>3, <2>4 DEF Redirected, File
  <2>5. CASE r = 23
    BY <2>2, <2>3, <2>5 DEF Redirected, File
  <2> QED BY <1>3, <2>4, <2>5
<1>4. CASE r = 24
  <2> DEFINE m == Len(ss) - 3
  <2>1. At(yyr2, r) = 3 /\ Rhs(r, 1) = 48 /\ 1 \in 1..3
    BY <1>4, RightSides DEF At, yyr2
  <2>2. /\ At(yystos, ss[m + 1]) = 48 /\ d[1] = vv[m + 1] /\ m + 1 \in 1..Len(ss)
        /\ ss[m + 1] \in States
    BY <2>1 DEF ReducedOn
  <2> HIDE DEF m
  <2>3. ss[m + 1] = 35
    <3>1. \A y \in 0..113 : At(yystos, y) = 48 => y = 35
      BY DEF At, yystos
    <3> QED BY <2>2, <3>1, TableSizes
  <2>4. Redirected(d[1], ins, outs)
    BY <2>2, <2>3 DEF Files
  <2>5. Sound(48, d[1])
    BY <2>2 DEF Good
  <2>6. Value(r, d).input = d[1].input /\ Value(r, d).output = d[1].output
    BY <1>4, <2>5, CaptureValue
  <2> QED BY <2>4, <2>6 DEF Redirected
<1> QED BY <1>2, <1>3, <1>4

LEMMA EmptyRule == \A k \in 21..60 : k = 51 \/ At(yyr2, k) \in 1..3
BY DEF At, yyr2

\* Behind a line number only what begins a pipeline is reduced.
LEMMA BegunReduced ==
    ASSUME NEW ss, NEW vv, Good(ss, vv), NEW r \in 21..60, ReducedOn(ss, vv, r),
           NEW begun \in BOOLEAN, Starts(ss, begun), ss[Len(ss) - At(yyr2, r)] \in InPipeline \cup {10}
    PROVE  begun = TRUE
<1> DEFINE n == At(yyr2, r)
           m == Len(ss) - n
<1>1. /\ n \in 0..3 /\ m \in 1..Len(ss) /\ ReducedAt(Last(ss), r)
      /\ \A i \in 1..n : /\ At(yystos, ss[m + i]) = Rhs(r, i)
                         /\ (m + i) - 1 \in 1..(Len(ss) - 1)
                         /\ Leads(ss[(m + i) - 1], ss[m + i]) /\ ss[m + i] \in States
  BY DEF ReducedOn
<1>2. Len(ss) \in Nat /\ Last(ss) = ss[Len(ss)]
  BY DEF Good, Last
<1>3. CASE ss[m] \in InPipeline
  BY <1>1, <1>3 DEF Starts
<1>4. CASE ss[m] = 10
  <2>1. n # 0
    <3> SUFFICES ASSUME n = 0 PROVE FALSE
      OBVIOUS
    <3>1. r = 51
      <4>1. n \in 1..3 => n # 0
        OBVIOUS
      <4> QED BY <4>1, EmptyRule
    <3>2. m = Len(ss)
      BY <1>2
    <3> QED BY <1>1, <1>2, <1>4, <3>1, <3>2 DEF ReducedAt
  <2>2. 1 \in 1..n /\ n >= 1
    BY <1>1, <2>1
  <2>3. (m + 1) - 1 = m /\ m \in Int
    BY <1>1, <1>2
  <2>4. /\ At(yystos, ss[m + 1]) = Rhs(r, 1) /\ m \in 1..(Len(ss) - 1)
        /\ Leads(10, ss[m + 1]) /\ ss[m + 1] \in States
    BY <1>1, <1>4, <2>2, <2>3
  <2>5. ss[m + 1] \in AtStart
    BY <2>2, <2>4, NoKeywords, FirstSymbols
  <2> QED BY <1>4, <2>4, <2>5 DEF Starts
<1> QED BY <1>3, <1>4

LEMMA TracedReduced ==
    ASSUME NEW ss, NEW vv, Good(ss, vv), NEW r \in 21..60, ReducedOn(ss, vv, r),
           NEW ins, NEW outs, NEW begun \in BOOLEAN, Traced(ss, vv, ins, outs, begun)
    PROVE  LET n == At(yyr2, r)
               q == Goto(ss[Len(ss) - n], r)
               v == Value(r, DollarsOf(vv, n))
           IN  Traced(Append(Popped(ss, n), q), Append(Popped(vv, n), v), ins, outs, begun)
<1> DEFINE n == At(yyr2, r)
           m == Len(ss) - n
           a == ss[m]
           q == Goto(a, r)
           d == DollarsOf(vv, n)
           v == Value(r, d)
           s == Popped(ss, n)
           u == Popped(vv, n)
<1>1. /\ n \in 0..(Len(ss) - 1) /\ Last(s) = a /\ Good(s, u)
      /\ RuleOf(r, q) /\ SymbolLeads(a, q) /\ ReducedAt(Last(ss), r)
      /\ \A i \in 1..n : /\ d[i] = vv[m + i] /\ (m + i) - 1 \in 1..(Len(ss) - 1)
  BY DEF ReducedOn
<1>2. Traced(s, u, ins, outs, begun)
  BY <1>1, TracedPopped
<1>3. Files(ss, vv, ins, outs) /\ Starts(ss, begun)
  BY DEF Traced
<1>4. q = 35 => Redirected(v, ins, outs)
  <2> HAVE q = 35
  <2>1. r \in 21..24
    BY <1>1 DEF RuleOf
  <2> QED BY <1>3, <2>1, FilesOfRule
<1>5. IsFile(a, q, v, ins, outs)
  <2> SUFFICES ASSUME a \in {63, 64}, q \in FileStates PROVE IsFile(a, q, v, ins, outs)
    BY DEF IsFile
  <2>1. r \in 59..60
    BY <1>1 DEF RuleOf, SymbolLeads, FileStates
  <2>2. n = 1
    <3>1. At(yyr2, 59) = 1 /\ At(yyr2, 60) = 1
      BY DEF At, yyr2
    <3> QED BY <2>1, <3>1
  <2>3. /\ Len(ss) \in Nat /\ Last(ss) = ss[Len(ss)] /\ m + 1 = Len(ss) /\ (m + 1) - 1 = m
        /\ 1 \in 1..n
    BY <2>2 DEF Good, Last
  <2>4. d[1] = vv[m + 1] /\ m \in 1..(Len(ss) - 1)
    BY <1>1, <2>3
  <2>5. ss[m + 1] \in FileStates
    BY <1>1, <2>1, <2>3 DEF ReducedAt, FileStates
  <2>6. IsFile(a, ss[m + 1], vv[m + 1], ins, outs)
    BY <1>3, <2>4 DEF Files
  <2>7. v = d[1]
    <3>1. \A dd : Value(59, dd) = dd[1] /\ Value(60, dd) = dd[1]
      BY DEF Value, LeafValue, PipelineRules, ExprRules
    <3> QED BY <2>1, <3>1
  <2> HIDE DEF a, q, v, d, m
  <2> QED BY <2>4, <2>5, <2>6, <2>7 DEF IsFile
<1>6. a \in InPipeline \cup {10} => begun
  <2> SUFFICES ASSUME a \in InPipeline \cup {10} PROVE begun
    OBVIOUS
  <2>1. ss[Len(ss) - At(yyr2, r)] \in InPipeline \cup {10} /\ Starts(ss, begun)
    BY <1>3
  <2>2. begun = TRUE
    BY <2>1, BegunReduced
  <2> QED BY <2>2
<1>7. (q \in InPipeline => begun) /\ (a = 10 /\ q \in AtStart => begun)
  BY <1>1, <1>6 DEF SymbolLeads
<1> HIDE DEF a, q, v, d, m, s, u
<1>8. Traced(Append(s, q), Append(u, v), ins, outs, begun)
  BY <1>1, <1>2, <1>4, <1>5, <1>7, TracedPushed
<1> QED BY <1>8 DEF a, q, v, d, m, s, u

FirstReduction(ss, r, q) ==
    /\ Len(ss) - At(yyr2, r) >= 1
    /\ q \notin {2, 63, 64}
    /\ q = 10 /\ r = 51 => Len(ss) = 1 /\ Last(ss) = 0
    /\ q = 10 /\ r # 51 => Len(ss) = 2 /\ Last(ss) \in {2, 11, 12}
    /\ Len(ss) - At(yyr2, r) = 1 /\ q \in {11, 12} =>
         Len(ss) = 2 /\ Last(ss) \in {2, 11, 12}

\* The tokens that were read before a line number, whole or in part.
LEMMA FirstReduced ==
    ASSUME NEW ss, NEW vv, Good(ss, vv), NEW r \in 21..60, ReducedOn(ss, vv, r),
           NEW q, q = Goto(ss[Len(ss) - At(yyr2, r)], r)
    PROVE  FirstReduction(ss, r, q)
<1> DEFINE n == At(yyr2, r)
           m == Len(ss) - n
<1>1. /\ m \in 1..Len(ss) /\ ReducedAt(Last(ss), r) /\ RuleOf(r, q) /\ SymbolLeads(ss[m], q)
  BY DEF ReducedOn
<1>2. Len(ss) \in Nat /\ Last(ss) = ss[Len(ss)] /\ (ss[m] = 0 <=> m = 1)
  BY <1>1, Beneath DEF Good, Last
<1>3. q \in {10, 11, 12} => r \in {51, 52, 53, 54}
  BY <1>1 DEF RuleOf
<1>4. n = IF r = 51 THEN 0 ELSE IF r \in {52, 53, 54} THEN 1 ELSE n
  <2>1. At(yyr2, 51) = 0 /\ At(yyr2, 52) = 1 /\ At(yyr2, 53) = 1 /\ At(yyr2, 54) = 1
    BY DEF At, yyr2
  <2> QED BY <2>1
<1>5. q \in {10, 11} => m = 1
  BY <1>1, <1>2 DEF SymbolLeads
<1>6. q \in {11, 12} => r \in {53, 54}
  BY <1>1 DEF RuleOf
<1>7. r = 51 => Last(ss) = 0
  BY <1>1 DEF ReducedAt
<1>8. r \in {52, 53, 54} => Last(ss) \in {2, 11, 12}
  BY <1>1 DEF ReducedAt
<1>9. m >= 1 /\ m = Len(ss) - n
  BY <1>1
<1>10. q \notin {2, 63, 64}
  BY <1>1 DEF SymbolLeads
<1> HIDE DEF n, m
<1>11. r = 51 /\ m = 1 => Len(ss) = 1
  BY <1>2, <1>4, <1>9
<1>12. r \in {52, 53, 54} /\ m = 1 => Len(ss) = 2
  <2> DEFINE l == Len(ss)
  <2> SUFFICES ASSUME r \in {52, 53, 54}, m = 1 PROVE l = 2
    OBVIOUS
  <2>1. r # 51
    OBVIOUS
  <2>2. n = 1
    BY <1>4, <2>1
  <2>3. l \in Nat /\ 1 = l - 1
    BY <1>2, <1>9, <2>2, Zenon
  <2> HIDE DEF l
  <2> QED BY <2>3
<1>13. q = 10 => (r = 51 \/ r \in {52, 53, 54}) /\ m = 1
  BY <1>3, <1>5
<1> QED BY <1>6, <1>7, <1>8, <1>9, <1>10, <1>11, <1>12, <1>13 DEF m, n, FirstReduction

LEMMA ReduceKept ==
    ASSUME KeptInv, YyReduce, LineInv'
    PROVE  KeptInv'
<1> DEFINE r == Rule
           n == At(yyr2, r)
           a == yyss[Len(yyss) - n]
           q == Goto(a, r)
           d == DollarsOf(yyvs, n)
           v == Value(r, d)
<1>1. /\ OwnInv' /\ Shrunk /\ LookIds' = LookIds
      /\ live' = IF r = 54 THEN live \ {Dollars[1].id} ELSE live
  BY ReduceOwn DEF KeptInv
<1>2. /\ pc = "parse" /\ Apart /\ Status /\ Top = Last(yyss) /\ Top \in States
      /\ r = At(yydefact, Top) \/ (r = 51 /\ Top = 0)
      /\ r \in 21..60 /\ ~EndsLine(Top)
      /\ At(yyr2, r) \in 0..Below(Top) /\ Below(Top) < Len(yyss)
  BY ReducingFacts DEF YyReduce, Returning, KeptInv
<1>3. Kept /\ Trace
  BY <1>2 DEF KeptInv
<1>4. Good(yyss, yyvs) /\ ReducedOn(yyss, yyvs, r)
  <2>1. At(yyr2, r) <= Len(yyss) - 1
    <3>1. Below(Top) \in 0..3 /\ Len(yyss) \in Nat
      BY TopFacts DEF OwnInv, LineInv, KeptInv
    <3> QED BY <1>2, <3>1
  <2>2. Reduces(Last(yyss), r)
    BY <1>2 DEF Reduces
  <2> QED BY <1>2, <2>1, <2>2, ReductionOn DEF Apart
<1>5. Last(Popped(yyss, n)) = a /\ n \in 0..(Len(yyss) - 1)
  BY <1>4 DEF ReducedOn
<1>6. /\ yyss' = Append(Popped(yyss, n), q) /\ yyvs' = Append(Popped(yyvs, n), v)
      /\ UNCHANGED <<yychar, yyerrstatus, line>> /\ pc' = "parse" /\ d = Dollars
  <2>1. Length = n /\ Dollars = d
    BY DEF Length, Dollars, DollarsOf
  <2>2. /\ yyss' = Append(Popped(yyss, Length), Goto(Last(Popped(yyss, Length)), Rule))
        /\ yyvs' = Append(Popped(yyvs, Length), Value(Rule, Dollars))
        /\ UNCHANGED <<yychar, yyerrstatus, line>> /\ pc' = "parse"
    BY <1>2 DEF YyReduce, lexer
  <2> HIDE DEF n, d
  <2> QED BY <1>5, <2>1, <2>2
<1>7. yyerrstatus = 0
  <2>1. yyerrstatus # 2
    BY <1>2 DEF Status
  <2>2. yyerrstatus # 3
    <3> SUFFICES ASSUME yyerrstatus = 3 PROVE FALSE
      OBVIOUS
    <3>1. Top = 1
      BY <1>2 DEF KeptInv, OwnInv, LineInv, LineKept
    <3>2. PICK t \in Tokens : Decided = Decision(Top, t)
      BY DecidedBy DEF YyReduce, Reducing, KeptInv, OwnInv
    <3> QED BY <3>1, <3>2, ErrorFacts DEF YyReduce, Reducing
  <2> QED BY <1>2, <2>1, <2>2 DEF Status
<1>8. LastToken /\ FirstTokens /\ Traced(yyss, yyvs, Ins, Outs, Begun)
  BY <1>2, <1>3, <1>7 DEF Trace
<1>9. Excused => Excused'
  BY <1>6, ExcusedStays
<1>10. r \in 22..23 /\ ToSet(FreeString(File(d[1], r))) # {} => TwoFiles
  <2> SUFFICES ASSUME r \in 22..23, NEW x \in ToSet(FreeString(File(d[1], r))) PROVE TwoFiles
    OBVIOUS
  <2>1. n = 3
    <3>1. At(yyr2, 22) = 3 /\ At(yyr2, 23) = 3
      BY DEF At, yyr2
    <3> QED BY <3>1
  <2>2. LET at == IF r = 22 THEN Ins ELSE Outs
        IN  x - 1 \in at /\ d[3].id - 1 \in at /\ x # d[3].id /\ x \in Nat /\ d[3].id \in Nat
    <3>1. d = DollarsOf(yyvs, 3) /\ Files(yyss, yyvs, Ins, Outs)
      BY <1>8, <2>1 DEF Traced
    <3> HIDE DEF d, r
    <3> QED BY <1>4, <3>1, FileLost
  <2> HIDE DEF d, r
  <2>3. x - 1 # d[3].id - 1
    BY <2>2
  <2> QED BY <2>2, <2>3 DEF TwoFiles, Ins, Outs
<1>11. Kept'
  <2>1. Shrunk /\ Dollars = d
    BY <1>1, <1>6
  <2>2. /\ r \notin {22, 23, 54} => Held' = Held
        /\ r \in 22..23 => Held \subseteq Held' \cup ToSet(FreeString(File(d[1], r)))
        /\ r = 54 => Held \subseteq Held' \cup {d[1].id}
    <3> HIDE DEF d
    <3> QED BY <2>1 DEF Shrunk
  <2>3. live' = IF r = 54 THEN live \ {d[1].id} ELSE live
    BY <1>1, <1>6
  <2> HIDE DEF d, r
  <2>4. CASE r \in 22..23
    <3>1. r # 54
      BY <2>4
    <3>2. TwoFiles => Excused'
      BY <1>9 DEF Excused
    <3> QED BY <1>1, <1>3, <1>9, <1>10, <2>2, <2>3, <2>4, <3>1, <3>2 DEF Kept
  <2>5. CASE r \notin 22..23
    <3>1. r \notin {22, 23}
      BY <2>5
    <3> QED BY <1>1, <1>3, <1>9, <2>2, <2>3, <3>1 DEF Kept
  <2> QED BY <2>4, <2>5
<1>12. Traced(yyss, yyvs, Ins, Outs, Begun)'
  <2>1. Begun \in BOOLEAN
    BY DEF Begun
  <2>2. Traced(Append(Popped(yyss, n), q), Append(Popped(yyvs, n), v), Ins, Outs, Begun)
    <3>1. /\ Good(yyss, yyvs) /\ r \in 21..60 /\ ReducedOn(yyss, yyvs, r)
          /\ Traced(yyss, yyvs, Ins, Outs, Begun)
      BY <1>2, <1>4, <1>8
    <3> HIDE DEF r
    <3> QED BY ONLY <2>1, <3>1, TracedReduced
  <2>3. Ins' = Ins /\ Outs' = Outs /\ Begun' = Begun
    BY <1>6 DEF Ins, Outs, Redirections, Begun, HasNumber
  <2> HIDE DEF q, v, n
  <2> QED BY <1>6, <2>2, <2>3
<1>13. Len(yyss') = Len(yyss) - n + 1 /\ Top' = q
  <2>1. Good(Popped(yyss, n), Popped(yyvs, n)) /\ q \in States
    BY <1>4 DEF ReducedOn
  <2>2. Len(Popped(yyss, n)) = Len(yyss) - n /\ IsSeq(Popped(yyss, n))
    BY <1>4, <1>5, <2>1, GoodPopped, SomeSeq DEF Good
  <2> HIDE DEF q, n
  <2>3. Len(Append(Popped(yyss, n), q)) = Len(Popped(yyss, n)) + 1
        /\ Append(Popped(yyss, n), q)[Len(Popped(yyss, n)) + 1] = q
    BY <2>2, AppendSeq
  <2> QED BY <1>6, <2>2, <2>3 DEF Top, Last
<1>14. /\ Len(yyss) - n >= 1
       /\ q \notin {2, 63, 64}
       /\ q = 10 /\ r = 51 => Len(yyss) = 1 /\ Top = 0
       /\ q = 10 /\ r # 51 => Len(yyss) = 2 /\ Top \in {2, 11, 12}
       /\ Len(yyss) - n = 1 /\ q \in {11, 12} => Len(yyss) = 2 /\ Top \in {2, 11, 12}
  <2>1. q = Goto(yyss[Len(yyss) - At(yyr2, r)], r) /\ Last(yyss) = Top
    BY <1>2
  <2> HIDE DEF r, q
  <2>2. FirstReduction(yyss, r, q)
    BY <1>2, <1>4, <2>1, FirstReduced
  <2> QED BY <2>1, <2>2 DEF FirstReduction
<1>15. ShiftedTokens' = ShiftedTokens /\ Len(line) \in Nat
  BY <1>2, <1>6, SeqFacts DEF ShiftedTokens, Apart
<1>16. LastToken'
  <2> HIDE DEF q
  <2> QED BY <1>6, <1>8, <1>13, <1>14 DEF LastToken
<1>17. q = 10 /\ r = 51 => ShiftedTokens = 0 /\ Len(line) = 1 /\ ~HasNumber
  <2> HAVE q = 10 /\ r = 51
  <2>1. Top = 0 /\ Len(yyss) = 1
    BY <1>14
  <2>2. PICK t \in Tokens : /\ Decided = Decision(Top, t)
                            /\ NeedsToken(Top) => yychar # Empty
                            /\ yychar # Empty => t = YYTRANSLATE(yychar.kind)
    BY DecidedBy DEF YyReduce, Reducing, KeptInv, OwnInv
  <2>3. NeedsToken(0) /\ Decision(0, 3).do # "reduce"
    <3>1. At(yypact, 0) = 61
      BY DEF At, yypact
    <3>2. At(yycheck, 64) = 3 /\ At(yytable, 64) > 0
      BY DEF At, yycheck, yytable
    <3>3. Listed(64, 3) /\ 61 + 3 = 64 /\ NeedsToken(0)
      BY <3>1, <3>2 DEF Listed, YYLAST, NeedsToken, YYPACT_NINF
    <3> QED BY <3>1, <3>2, <3>3 DEF Decision, Shift
  <2>4. yychar # Empty /\ YYTRANSLATE(yychar.kind) # 3
    BY <2>1, <2>2, <2>3 DEF YyReduce, Reducing
  <2>5. yychar.kind # "NUMBER"
    BY <2>4, KindNames DEF Named
  <2>6. Len(line) > 0 /\ line[Len(line)].kind = yychar.kind
    BY <1>8, <2>4 DEF LastToken
  <2>7. ShiftedTokens = 0 /\ ShiftedTokens = Len(line) - 1
    BY <1>8, <2>1, <2>4 DEF FirstTokens, ShiftedTokens
  <2>8. Len(line) = 1
    <3> DEFINE l == Len(line)
    <3>1. l - 1 = 0 /\ l \in Nat
      BY <1>15, <2>7, Zenon
    <3> HIDE DEF l
    <3>2. l = 1
      BY <3>1
    <3> QED BY <3>2 DEF l
  <2> QED BY <2>5, <2>6, <2>7, <2>8 DEF HasNumber
<1>18. FirstTokens'
  <2>1. HasNumber' = HasNumber /\ Len(line') = Len(line)
    BY <1>6 DEF HasNumber
  <2>2. Len(yyss) = 2 /\ Top \in {2, 11, 12} => ShiftedTokens = 1 /\ HasNumber
    BY <1>8 DEF FirstTokens
  <2> DEFINE l == Len(yyss)
  <2>3. l \in Nat /\ n \in Nat /\ Len(yyss') = l - n + 1
    BY <1>4, <1>5, <1>13 DEF Good
  <2>4. l - n >= 1 /\ (Len(yyss') = 2 => l - n = 1)
    <3>1. l - n >= 1
      BY <1>14
    <3> HIDE DEF l, n
    <3> QED BY <2>3, <3>1
  <2>5. Len(yyss') # 1
    <3> HIDE DEF l, n
    <3> QED BY <2>3, <2>4
  <2>6. Len(yyss') = 2 /\ q \in {2, 11, 12} => ShiftedTokens = 1 /\ HasNumber
    <3> HAVE Len(yyss') = 2 /\ q \in {2, 11, 12}
    <3>1. Len(yyss) - n = 1 /\ q \in {11, 12}
      BY <1>14, <2>4
    <3> HIDE DEF q
    <3> QED BY <1>14, <2>2, <3>1
  <2>7. q = 10 => \/ ShiftedTokens = 1 /\ HasNumber
                  \/ ShiftedTokens = 0 /\ Len(line) = 1 /\ ~HasNumber
    <3> HIDE DEF q
    <3> QED BY <1>14, <1>17, <2>2
  <2> HIDE DEF q
  <2> QED BY <1>13, <1>15, <2>1, <2>5, <2>6, <2>7 DEF FirstTokens
<1> QED BY <1>1, <1>6, <1>11, <1>12, <1>16, <1>18 DEF KeptInv, Trace

\* Below the top of the stack is no simple arg.
LEMMA NotSimple ==
    ASSUME NEW ss, NEW vv, Good(ss, vv), Len(ss) > 1
    PROVE  Last(Popped(ss, 1)) \notin {40, 47}
<1> DEFINE n == Len(ss)
<1>1. n \in Nat /\ n \in 1..Len(ss) /\ 1 \in 0..(Len(ss) - 1) /\ n > 1
  BY DEF Good
<1>2. ss[n] \in States /\ ss[n - 1] \in States /\ Leads(ss[n - 1], ss[n])
  BY <1>1, Beneath
<1>3. Last(Popped(ss, 1)) = ss[n - 1]
  BY <1>1, GoodPopped
<1> QED BY <1>2, <1>3, SimpleOnTop

\* The line stays, and what it says.
LEMMA LineStays ==
    ASSUME line' = line
    PROVE  Ins' = Ins /\ Outs' = Outs /\ Begun' = Begun
BY DEF Ins, Outs, Redirections, Begun, HasNumber

LEMMA RejectKept ==
    ASSUME KeptInv, RejectLineNumber, LineInv'
    PROVE  KeptInv'
<1>1. OwnInv' /\ Held' = Held /\ LookIds' = LookIds /\ live' = live
  BY RejectOwn DEF KeptInv
<1>2. /\ pc = "parse" /\ Apart /\ Rule = 52 /\ Below(Top) < Len(yyss)
      /\ At(yyr2, Rule) \in 0..Below(Top)
  BY ReducingFacts DEF RejectLineNumber, BadLineNumber, KeptInv
<1>3. Length = 1 /\ Len(yyss) > 1 /\ 1 \in 0..(Len(yyss) - 1)
  <2>1. At(yyr2, 52) = 1
    BY DEF At, yyr2
  <2>2. Below(Top) \in 0..3 /\ Len(yyss) \in Nat
    BY TopFacts DEF OwnInv, LineInv, KeptInv
  <2> QED BY <1>2, <2>1, <2>2 DEF Length
<1>4. /\ yyss' = Popped(yyss, 1) /\ yyvs' = Popped(yyvs, 1) /\ line' = line
      /\ yyerrstatus' = 3 /\ pc' = "recover"
  BY <1>3 DEF RejectLineNumber, lexer
<1>5. Kept /\ Traced(yyss, yyvs, Ins, Outs, Begun) /\ Good(yyss, yyvs)
  BY <1>2 DEF KeptInv, Trace, Apart
<1>6. Kept'
  <2>1. Excused => Excused'
    BY <1>4, ExcusedStays
  <2> QED BY <1>1, <1>5, <2>1 DEF Kept
<1>7. Traced(yyss, yyvs, Ins, Outs, Begun)'
  <2>1. Traced(Popped(yyss, 1), Popped(yyvs, 1), Ins, Outs, Begun)
    BY <1>3, <1>5, TracedPopped
  <2> QED BY <1>4, <2>1, LineStays
<1>8. Top' \notin {40, 47}
  BY <1>3, <1>4, <1>5, NotSimple DEF Top
<1> QED BY <1>1, <1>4, <1>6, <1>7, <1>8 DEF KeptInv, Trace

LEMMA ErrorKept ==
    ASSUME KeptInv, YyError, LineInv'
    PROVE  KeptInv'
<1>1. /\ OwnInv' /\ Held' = Held
      /\ IF yyerrstatus = 3 THEN LookIds' = {} /\ live' = live \ LookIds
         ELSE LookIds' = LookIds /\ live' = live
  BY ErrorOwn DEF KeptInv
<1>2. /\ UNCHANGED <<yyss, yyvs, line>> /\ yyerrstatus' = 3 /\ pc' = "recover"
  BY DEF YyError, lexer
<1>3. Kept /\ Traced(yyss, yyvs, Ins, Outs, Begun)
  BY DEF KeptInv, Trace, YyError, Ready
<1>4. Kept'
  <2>1. Excused => Excused'
    BY <1>2, ExcusedStays
  <2> QED BY <1>1, <1>3, <2>1 DEF Kept
<1>5. Traced(yyss, yyvs, Ins, Outs, Begun)'
  BY <1>2, <1>3, LineStays
<1>6. Top' \notin {40, 47}
  <2>1. PICK t \in Tokens : Decided = Decision(Top, t) /\ Top \in States
    BY DecidedBy DEF YyError, KeptInv, OwnInv
  <2>2. Top \notin {40, 47}
    BY <2>1, SimpleOnTop DEF YyError
  <2> QED BY <1>2, <2>2 DEF Top
<1> QED BY <1>1, <1>2, <1>4, <1>5, <1>6 DEF KeptInv, Trace

\* Of a symbol that is discarded all is freed, but for the expression of an arg, and an arg
\* is of a pipeline.
LEMMA PopKept ==
    ASSUME KeptInv, PopSymbol, LineInv'
    PROVE  KeptInv'
<1>1. /\ OwnInv' /\ LookIds' = LookIds /\ live' \subseteq live
      /\ At(yystos, Top) \notin 52..53 => Held' = Held \ (live \ live')
  BY PopOwn DEF KeptInv
<1>2. /\ pc = "recover" /\ Len(yyss) > 1 /\ Apart /\ Good(yyss, yyvs) /\ yyerrstatus = 3
  BY DEF PopSymbol, KeptInv, OwnInv, Apart, Status
<1>3. Kept /\ Traced(yyss, yyvs, Ins, Outs, Begun) /\ Top \notin {40, 47}
  BY <1>2 DEF KeptInv, Trace
<1>4. /\ yyss' = Popped(yyss, 1) /\ yyvs' = Popped(yyvs, 1) /\ line' = line
      /\ pc' = "recover" /\ yyerrstatus' = 3
  BY <1>2 DEF PopSymbol, lexer, Front, Popped
<1>5. Len(yyss) \in Nat /\ Top = yyss[Len(yyss)] /\ Top \in States /\ Len(line) \in Nat
      /\ 1 \in 0..(Len(yyss) - 1) /\ Len(yyss) \in 1..Len(yyss)
  <2>1. Len(yyss) \in Nat /\ Top = yyss[Len(yyss)] /\ Top \in States
    BY TopFacts DEF OwnInv, LineInv, KeptInv
  <2>2. Len(line) \in Nat
    BY <1>2, SeqFacts DEF Apart
  <2> QED BY <1>2, <2>1, <2>2
<1>6. Kept'
  <2>1. Excused => Excused'
    BY <1>2, <1>4, ExcusedStays
  <2>2. CASE At(yystos, Top) \notin 52..53
    BY <1>1, <1>3, <2>1, <2>2 DEF Kept
  <2>3. CASE At(yystos, Top) \in 52..53
    <3>1. Top = 39
      BY <1>3, <1>5, <2>3, SimpleOnTop
    <3>2. Begun
      <4>1. \A k \in 1..Len(yyss) : yyss[k] \in InPipeline => Begun
        BY <1>3 DEF Traced, Starts
      <4>2. Top \in InPipeline
        BY <3>1 DEF InPipeline
      <4> QED BY <1>5, <4>1, <4>2
    <3>3. BeginsPipeline
      BY <1>5, <3>2, BegunBegins
    <3>4. Excused
      BY <1>2, <3>3 DEF Excused
    <3> QED BY <2>1, <3>4 DEF Kept
  <2> QED BY <2>2, <2>3
<1>7. Traced(yyss, yyvs, Ins, Outs, Begun)'
  <2>1. Traced(Popped(yyss, 1), Popped(yyvs, 1), Ins, Outs, Begun)
    BY <1>2, <1>3, <1>5, TracedPopped
  <2> QED BY <1>4, <2>1, LineStays
<1>8. Top' \notin {40, 47}
  BY <1>2, <1>4, NotSimple DEF Top
<1> QED BY <1>1, <1>4, <1>6, <1>7, <1>8 DEF KeptInv, Trace

LEMMA ShiftErrorKept ==
    ASSUME KeptInv, ShiftError, LineInv'
    PROVE  KeptInv'
<1>1. OwnInv' /\ Held' = Held /\ LookIds' = LookIds /\ live' = live
  BY ShiftErrorOwn DEF KeptInv
<1>2. pc = "recover" /\ Good(yyss, yyvs) /\ yyerrstatus = 3 /\ Top = Last(yyss) /\ Top \in States
  BY TopFacts DEF ShiftError, KeptInv, OwnInv, LineInv, Apart, Status, Top
<1>3. ErrorShift(Top) = 1 /\ Top = 0
  BY <1>2, ErrorFacts, ErrorState DEF ShiftError
<1>4. /\ yyss' = Append(yyss, 1) /\ yyvs' = Append(yyvs, NULL) /\ line' = line
      /\ pc' = "parse" /\ yyerrstatus' = 3
  BY <1>2, <1>3 DEF ShiftError, lexer
<1>5. Kept /\ Traced(yyss, yyvs, Ins, Outs, Begun)
  BY <1>2 DEF KeptInv, Trace
<1>6. Kept'
  <2>1. Excused => Excused'
    BY <1>2, <1>4, ExcusedStays
  <2> QED BY <1>1, <1>5, <2>1 DEF Kept
<1>7. Traced(yyss, yyvs, Ins, Outs, Begun)'
  <2>1. /\ 1 \notin InPipeline /\ 1 \notin AtStart /\ 1 # 35
        /\ IsFile(Last(yyss), 1, NULL, Ins, Outs)
    BY <1>2, <1>3 DEF InPipeline, AtStart, IsFile
  <2>2. Traced(Append(yyss, 1), Append(yyvs, NULL), Ins, Outs, Begun)
    BY <1>2, <1>5, <2>1, TracedPushed
  <2> QED BY <1>4, <2>2, LineStays
<1> QED BY <1>1, <1>4, <1>6, <1>7 DEF KeptInv, Trace

LEMMA AcceptKept ==
    ASSUME KeptInv, YyAccept, LineInv'
    PROVE  KeptInv'
<1>1. OwnInv' /\ live' = live /\ StringsOf(mush_parsed_stmt)' = Held /\ yychar = Empty
  BY AcceptOwn DEF KeptInv
<1>2. pc = "parse" /\ pc' = "returned" /\ line' = line /\ yyerrstatus' = yyerrstatus
  BY DEF YyAccept, Reducing, Ready, lexer
<1>3. Kept /\ LookIds = {} /\ Held \subseteq live /\ IsSeq(line)
  BY <1>1, <1>2 DEF KeptInv, LookIds, OwnInv, Apart
<1>4. Excused => Excused'
  BY <1>2, ExcusedStays
<1> QED BY <1>1, <1>2, <1>3, <1>4 DEF KeptInv, Kept

LEMMA AbortKept ==
    ASSUME KeptInv, YyAbort, LineInv'
    PROVE  KeptInv'
<1>1. OwnInv' /\ pc' = "stopped"
  BY AbortOwn DEF KeptInv, YyAbort
<1> QED BY <1>1 DEF KeptInv

\* The token that is handed over is the last of the line.
LEMMA HandKept ==
    ASSUME KeptInv, WantsToken, NEW t, Hand(t), LineInv',
           UNCHANGED <<yyss, yyvs, yyerrstatus, pc, twice>>
    PROVE  KeptInv'
<1>1. /\ OwnInv' /\ Held' = Held /\ yychar = Empty /\ LookIds = {} /\ pc = "parse"
      /\ LookIds' = IF t.kind \in StringTokens THEN {Len(line) + 1} ELSE {}
      /\ live' = live \cup LookIds'
      /\ yychar' # Empty /\ yychar'.kind = t.kind
  BY HandOwn DEF KeptInv
<1>2. IsSeq(line) /\ Len(line) \in Nat /\ Top' = Top /\ yyerrstatus \in {0, 2, 3}
  BY <1>1, SeqFacts DEF KeptInv, OwnInv, Apart, Status, Top
<1>3. /\ line' = IF yyerrstatus = 0 THEN Append(line, t) ELSE line
      /\ t.kind \in StringTokens => yychar'.value.id = Len(line) + 1
  <2>1. /\ line' = IF yyerrstatus = 0 THEN Append(line, t) ELSE line
        /\ t.kind \in StringTokens => yychar'.value = String(Len(line) + 1, t.text)
    BY DEF Hand
  <2> QED BY <2>1 DEF String
<1>4. Kept /\ Trace
  BY <1>1 DEF KeptInv
<1>5. Grown
  BY <1>2, <1>3, LineGrows
<1>6. Excused => Excused'
  <2>1. CASE yyerrstatus = 0
    BY <1>5, <2>1 DEF Excused, Grown
  <2>2. CASE yyerrstatus # 0
    BY <1>3, <2>2, ExcusedStays
  <2> QED BY <2>1, <2>2
<1>7. Kept'
  BY <1>1, <1>4, <1>6 DEF Kept
<1>8. Traced(yyss, yyvs, Ins, Outs, Begun)'
  <2>1. Traced(yyss, yyvs, Ins, Outs, Begun)
    BY <1>4 DEF Trace
  <2>2. Ins \subseteq Ins' /\ Outs \subseteq Outs' /\ (Begun => Begun')
    BY <1>5 DEF Grown
  <2>3. Traced(yyss, yyvs, Ins', Outs', Begun')
    BY <2>1, <2>2, TracedGrown
  <2> QED BY <2>3
<1>9. ASSUME yyerrstatus = 0 PROVE LastToken' /\ FirstTokens'
  <2>1. LastToken /\ FirstTokens
    BY <1>1, <1>4, <1>9 DEF Trace
  <2>2. /\ line' = Append(line, t) /\ Len(line') = Len(line) + 1
        /\ line'[Len(line) + 1] = t /\ \A i \in 1..Len(line) : line'[i] = line[i]
    BY <1>2, <1>3, <1>9, AppendSeq
  <2>3. ShiftedTokens = Len(line) /\ ShiftedTokens' = Len(line)
    <3>1. ShiftedTokens' = Len(line') - 1
      BY <1>1 DEF ShiftedTokens
    <3>2. ShiftedTokens = Len(line)
      BY <1>1, <1>2 DEF ShiftedTokens
    <3> QED BY <1>2, <2>2, <3>1, <3>2
  <2>4. LastToken'
    <3>1. Top \in {63, 64} => /\ Len(line) > 0 /\ Len(line) \in 1..Len(line)
                              /\ line[Len(line)].kind = Direction(Top)
      BY <1>2, <2>1, <2>3 DEF LastToken
    <3>2. Len(line') > 0 /\ line'[Len(line')].kind = t.kind
      BY <1>2, <2>2
    <3> QED BY <1>1, <1>2, <1>3, <2>2, <2>3, <3>1, <3>2 DEF LastToken
  <2>5. HasNumber => HasNumber'
    <3>1. Len(line) > 0 => 1 \in 1..Len(line) /\ Len(line') > 0
      BY <1>2, <2>2
    <3> QED BY <2>2, <3>1 DEF HasNumber
  <2>6. Top = 10 => ShiftedTokens = 1 /\ HasNumber
    <3>1. ~(ShiftedTokens = 0 /\ Len(line) = 1)
      BY <2>3
    <3> QED BY <2>1, <3>1 DEF FirstTokens
  <2> QED BY <1>2, <2>1, <2>3, <2>4, <2>5, <2>6 DEF FirstTokens
<1> QED BY <1>1, <1>7, <1>8, <1>9 DEF KeptInv, Trace

LEMMA NothingTraced ==
    ASSUME NEW ss, ss = NewStack, NEW vv, NEW ins, NEW outs, NEW begun
    PROVE  Traced(ss, vv, ins, outs, begun) /\ Len(ss) = 1 /\ Last(ss) = 0
<1>1. Len(ss) = 1 /\ ss[1] = 0
  BY DEF NewStack
<1>2. Last(ss) = 0
  BY <1>1 DEF Last
<1>3. \A k \in 1..Len(ss) : ss[k] = 0
  BY <1>1
<1>4. 1..(Len(ss) - 1) = {}
  BY <1>1
<1>5. Files(ss, vv, ins, outs)
  BY <1>3, <1>4 DEF Files
<1>6. Starts(ss, begun)
  BY <1>3, <1>4 DEF Starts, InPipeline
<1> QED BY <1>1, <1>2, <1>5, <1>6 DEF Traced

LEMMA NewCallKept ==
    ASSUME NewCall, pc' = "parse", OwnInv'
    PROVE  KeptInv'
<1>1. /\ yyss' = NewStack /\ line' = NoTokens
      /\ yychar' = Empty /\ yyerrstatus' = 0 /\ live' = {}
  BY DEF NewCall, NewStack, NoTokens
<1>2. Kept'
  BY <1>1 DEF Kept
<1>3. Traced(yyss, yyvs, Ins, Outs, Begun)' /\ Len(yyss') = 1 /\ Top' = 0
  BY <1>1, NothingTraced DEF Top
<1>4. ShiftedTokens' = 0
  <2>1. Len(NoTokens) = 0
    BY DEF NoTokens
  <2> QED BY <1>1, <2>1 DEF ShiftedTokens
<1>5. LastToken' /\ FirstTokens'
  BY <1>1, <1>3, <1>4 DEF LastToken, FirstTokens
<1> QED BY <1>2, <1>3, <1>5 DEF KeptInv, Trace

LEMMA InitKept == Init => KeptInv
<1> SUFFICES ASSUME Init PROVE KeptInv
  OBVIOUS
<1>1. /\ yyss = NewStack /\ line = NoTokens /\ yychar = Empty /\ yyerrstatus = 0
      /\ live = {} /\ pc = "parse"
  BY DEF Init, NewStack, NoTokens
<1>2. Kept /\ OwnInv
  BY <1>1, InitOwn DEF Kept
<1>3. Traced(yyss, yyvs, Ins, Outs, Begun) /\ Len(yyss) = 1 /\ Top = 0
  BY <1>1, NothingTraced DEF Top
<1>4. ShiftedTokens = 0
  <2>1. Len(NoTokens) = 0
    BY DEF NoTokens
  <2> QED BY <1>1, <2>1 DEF ShiftedTokens
<1>5. LastToken /\ FirstTokens
  BY <1>1, <1>3, <1>4 DEF LastToken, FirstTokens
<1> QED BY <1>1, <1>2, <1>3, <1>5 DEF KeptInv, Trace

LEMMA CopyKept ==
    ASSUME KeptInv, CopyPipeline, LineInv'
    PROVE  KeptInv'
<1>1. /\ OwnInv'
      /\ live = StringsOf(mush_parsed_stmt) => live' = StringsOf(mush_parsed_stmt')
  BY CopyOwn DEF KeptInv
<1>2. pc = "returned" /\ pc' = "returned" /\ line' = line /\ yyerrstatus' = yyerrstatus
  BY DEF CopyPipeline, lexer
<1>3. Excused => Excused'
  BY <1>2, ExcusedStays
<1>4. StringsOf(mush_parsed_stmt)' = StringsOf(mush_parsed_stmt')
  BY DEF StringsOf, free_stmt
<1> QED BY <1>1, <1>2, <1>3, <1>4 DEF KeptInv

LEMMA KeptStep == KeptInv /\ [Next]_vars => KeptInv'
<1> SUFFICES ASSUME KeptInv, [Next]_vars PROVE KeptInv'
  OBVIOUS
<1>1. LineInv'
  BY LineStep DEF KeptInv, OwnInv
<1>2. CASE yyparse
  <2>1. CASE YyShift
    BY <1>1, <2>1, ShiftKept
  <2>2. CASE YyReduce
    BY <1>1, <2>2, ReduceKept
  <2>3. CASE YyAccept
    BY <1>1, <2>3, AcceptKept
  <2>4. CASE YyAbort
    BY <1>1, <2>4, AbortKept
  <2>5. CASE RejectLineNumber
    BY <1>1, <2>5, RejectKept
  <2>6. CASE YyError
    BY <1>1, <2>6, ErrorKept
  <2>7. CASE PopSymbol
    BY <1>1, <2>7, PopKept
  <2>8. CASE ShiftError
    BY <1>1, <2>8, ShiftErrorKept
  <2> QED BY <1>2, <2>1, <2>2, <2>3, <2>4, <2>5, <2>6, <2>7, <2>8 DEF yyparse
<1>3. CASE yylex
  <2>1. /\ WantsToken /\ UNCHANGED <<yyss, yyvs, yyerrstatus, pc, twice>>
        /\ \E t : Hand(t)
    BY <1>3 DEF yylex, ReadToken, ReadEOL, ReadEOF, ReadListed
  <2> QED BY <1>1, <2>1, HandKept
<1>4. CASE Execute
  <2>1. OwnInv' /\ NewCall /\ pc' = "parse"
    BY <1>1, <1>4, ExecuteOwn DEF KeptInv, Execute
  <2> QED BY <2>1, NewCallKept
<1>5. CASE CopyPipeline
  BY <1>1, <1>5, CopyKept
<1>6. CASE ListAndRetype
  <2>1. OwnInv' /\ NewCall /\ pc' = "parse"
    BY <1>1, <1>6, RetypeOwn DEF KeptInv, ListAndRetype
  <2> QED BY <2>1, NewCallKept
<1>7. CASE UNCHANGED vars
  <2>1. OwnInv'
    BY <1>7, OwnStep DEF KeptInv
  <2>2. UNCHANGED <<yyss, yyvs, yychar, yyerrstatus, pc, mush_parsed_stmt, line, live>>
    BY <1>7 DEF vars, parser, lexer, memory
  <2>3. (Kept => Kept') /\ (Excused => Excused') /\ StringsOf(mush_parsed_stmt)' = StringsOf(mush_parsed_stmt)
    BY <2>2 DEF Kept, Excused, TwoFiles, Redirections, BeginsPipeline, Held, LookIds, StringsOf
  <2>4. Trace => Trace'
    BY <2>2 DEF Trace, LastToken, FirstTokens, ShiftedTokens, Top, HasNumber, Ins, Outs,
                Redirections, Begun
  <2> QED BY <2>1, <2>2, <2>3, <2>4 DEF KeptInv
<1> QED BY <1>2, <1>3, <1>4, <1>5, <1>6, <1>7 DEF Next, Stopped

LEMMA TwoAreMore ==
    ASSUME NEW n \in Int, NEW S \in SUBSET (1..n), NEW i \in S, NEW j \in S, i # j
    PROVE  ~(Cardinality(S) <= 1)
<1>1. IsFiniteSet(1..n)
  BY FS_Interval
<1>2. IsFiniteSet(S) /\ Cardinality(S) \in Nat
  BY <1>1, FS_Subset, FS_CardinalityType
<1>3. IsFiniteSet({i}) /\ Cardinality({i}) = 1
  BY FS_Singleton
<1>4. Cardinality({i} \cup {j}) = 2
  <2>1. j \notin {i}
    OBVIOUS
  <2> QED BY <1>3, <2>1, FS_AddElement
<1>5. Cardinality({i} \cup {j}) <= Cardinality(S)
  <2>1. {i} \cup {j} \in SUBSET S
    OBVIOUS
  <2> QED BY <1>2, <2>1, FS_Subset
<1> QED BY <1>2, <1>4, <1>5

LEMMA KeptFreed == KeptInv => StringsFreedOnce
<1> SUFFICES ASSUME KeptInv PROVE StringsFreedOnce
  OBVIOUS
<1>1. ~twice
  BY DEF KeptInv, OwnInv
<1>2. ASSUME pc = "returned", \A kind \in {"LESS", "GREATER"} : Cardinality(Redirections(kind)) <= 1,
             yyerrstatus > 0 => ~BeginsPipeline
      PROVE  live = StringsOf(mush_parsed_stmt)
  <2>1. Len(line) - 1 \in Int
    BY <1>2, SeqFacts DEF KeptInv
  <2>2. \A kind : Redirections(kind) \in SUBSET (1..(Len(line) - 1))
    BY DEF Redirections
  <2>3. ~TwoFiles
    <3> SUFFICES ASSUME NEW kind \in {"LESS", "GREATER"},
                        NEW i \in Redirections(kind), NEW j \in Redirections(kind), i # j
                 PROVE  FALSE
      BY DEF TwoFiles
    <3>1. ~(Cardinality(Redirections(kind)) <= 1)
      BY <2>1, <2>2, TwoAreMore
    <3> QED BY <1>2, <3>1
  <2> QED BY <1>2, <2>3 DEF KeptInv, Excused
<1> QED BY <1>1, <1>2 DEF StringsFreedOnce

\* Whatever lines are read, no string of a statement is freed twice, and when yyparse has
\* returned the strings still allocated are those of its statement, but for the two kinds
\* of line that lose one.
THEOREM StringsAreFreedOnce == Spec => []StringsFreedOnce
<1> QED BY InitKept, KeptStep, KeptFreed, PTL DEF Spec
=============================================================================

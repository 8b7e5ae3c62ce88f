----------------------------- MODULE MushGrammar ----------------------------
(***************************************************************************)
(* The grammar of mush as bison compiled it (hw4/src/mush.tab.c): the      *)
(* tables of the automaton, what they say to do in a state, and the        *)
(* semantic action of each rule.  There is no mush.y in the repository.    *)
(***************************************************************************)
EXTENDS MushSyntax

YYFINAL == 18
YYLAST == 247
YYNTOKENS == 46
YYPACT_NINF == -53
YYTERROR == 1
YYUNDEFTOK == 2

\* The terminals in the order of their numbers; the first has number 0.
yytname == <<
    "$end", "error", "$undefined", "NUMBER", "NAME", "WORD", "STRING",
    "LIST", "DELETE", "RUN", "CONT", "STOP", "BG", "CAPTURE", "WAIT", "POLL",
    "CANCEL", "PAUSE", "SET", "UNSET", "IF", "GOTO", "SOURCE", "EQ", "PIPE",
    "LESS", "GREATER", "EQUAL", "LESSEQ", "GREATEQ", "AND", "OR", "NOT",
    "LPAREN", "RPAREN", "PLUS", "MINUS", "TIMES", "DIVIDE", "MOD", "COMMA",
    "SHARP", "DOLLAR", "EOL", "EoF", "UNKNOWN">>

yytranslate == [k \in ToSet(yytname) |-> (CHOOSE i \in DOMAIN yytname : yytname[i] = k) - 1]
YYTRANSLATE(kind) == IF kind \in DOMAIN yytranslate THEN yytranslate[kind] ELSE YYUNDEFTOK

yypact ==
  <<61, -30, -53, -28, 21, -18, -16, -53, -53, 28, 92, 18, -53, -53, -53, -10, -53, -53, -53,
    -53, -53, -53, -53, 85, 85, 85, -12, 31, 32, 85, 21, 4, 85, 33, 34, -9, -53, 8, -53, 116,
    -53, -53, -53, -53, -3, 21, 85, -53, 117, 136, 155, -53, 16, -1, 174, 0, -53, -53, 2, 208,
    -53, -53, 3, 4, 1, -53, 116, -53, -53, 29, -7, 85, 85, 85, 85, 85, 85, 85, 85, 85, 85, 85,
    85, -53, -53, -53, 85, -53, 21, -53, -53, -53, -53, -53, -53, -53, -53, -53, -53, -53, -53,
    -53, -53, -7, -7, 110, 110, 110, 110, 110, 189, 30, -53, -53>>

yydefact ==
  <<0, 0, 54, 0, 0, 0, 0, 18, 19, 0, 0, 52, 53, 20, 2, 0, 4, 5, 1, 55, 56, 57, 58, 0, 0, 0, 0,
    0, 0, 0, 0, 0, 0, 0, 0, 0, 21, 25, 27, 28, 30, 32, 33, 31, 0, 0, 0, 35, 0, 0, 0, 12, 0, 0,
    0, 0, 59, 60, 0, 0, 49, 50, 0, 0, 0, 7, 0, 29, 6, 0, 43, 0, 0, 0, 0, 0, 0, 0, 0, 0, 0, 0, 0,
    9, 10, 11, 0, 15, 0, 13, 17, 34, 8, 22, 24, 23, 26, 3, 37, 38, 36, 39, 40, 41, 42, 44, 45,
    46, 47, 48, 0, 0, 14, 16>>

yypgoto ==
  <<-53, -53, -53, -22, -53, 22, -53, -6, -23, -53, -53, -53, -4, -53, -53, -52>>

yydefgoto ==
  <<-1, 9, 35, 36, 37, 38, 39, 47, 48, 41, 42, 10, 11, 12, 43, 58>>

yytable ==
  <<15, 49, 50, 62, 40, 56, 54, 57, 56, 59, 57, 93, 95, 13, 94, 14, 63, 64, 71, 72, 73, 74, 75,
    70, 2, 16, 55, 17, 18, 44, 45, 51, 66, 40, 65, 52, 53, 60, 61, 86, 68, 69, 87, 89, 96, 90,
    92, 0, 98, 99, 100, 101, 102, 103, 104, 105, 106, 107, 108, 109, 40, 67, 1, 110, 2, -51,
    -51, -51, 3, 4, 5, 6, 97, 113, 0, -51, -51, -51, -51, -51, -51, -51, -51, -51, 111, 0, 0, 0,
    19, 20, 21, 22, 0, 0, -51, 19, 20, 21, 22, 0, 0, 0, -51, -51, 7, 8, 23, 24, 25, 26, 27, 28,
    29, 30, 31, 0, 0, 46, 32, 19, 20, 21, 22, 0, 0, 32, 33, 34, 0, 0, 0, 0, 0, 33, 34, 71, 72,
    73, 74, 75, 76, 77, 71, 72, 73, 74, 75, 76, 77, 32, 0, 0, 78, 79, 80, 81, 82, 33, 34, 0, 83,
    71, 72, 73, 74, 75, 76, 77, 0, 0, 0, 78, 79, 80, 81, 82, 0, 0, 0, 84, 71, 72, 73, 74, 75,
    76, 77, 0, 0, 0, 78, 79, 80, 81, 82, 88, 0, 0, 85, 71, 72, 73, 74, 75, 76, 77, 0, 0, 0, 78,
    79, 80, 81, 82, 71, 72, 73, 74, 75, 76, 77, 0, 0, 0, 78, 79, 80, 81, 82, 0, 0, 0, 112, 71,
    72, 73, 74, 75, 76, 77, 0, 0, 91, 78, 79, 80, 81, 82>>

yycheck ==
  <<4, 24, 25, 12, 10, 4, 29, 6, 4, 32, 6, 63, 64, 43, 13, 43, 25, 26, 25, 26, 27, 28, 29, 46,
    3, 43, 30, 43, 0, 11, 40, 43, 24, 39, 43, 4, 4, 4, 4, 23, 43, 45, 43, 43, 66, 43, 43, -1,
    71, 72, 73, 74, 75, 76, 77, 78, 79, 80, 81, 82, 66, 39, 1, 86, 3, 4, 5, 6, 7, 8, 9, 10, 43,
    43, -1, 14, 15, 16, 17, 18, 19, 20, 21, 22, 88, -1, -1, -1, 3, 4, 5, 6, -1, -1, 33, 3, 4, 5,
    6, -1, -1, -1, 41, 42, 43, 44, 14, 15, 16, 17, 18, 19, 20, 21, 22, -1, -1, 32, 33, 3, 4, 5,
    6, -1, -1, 33, 41, 42, -1, -1, -1, -1, -1, 41, 42, 25, 26, 27, 28, 29, 30, 31, 25, 26, 27,
    28, 29, 30, 31, 33, -1, -1, 35, 36, 37, 38, 39, 41, 42, -1, 43, 25, 26, 27, 28, 29, 30, 31,
    -1, -1, -1, 35, 36, 37, 38, 39, -1, -1, -1, 43, 25, 26, 27, 28, 29, 30, 31, -1, -1, -1, 35,
    36, 37, 38, 39, 21, -1, -1, 43, 25, 26, 27, 28, 29, 30, 31, -1, -1, -1, 35, 36, 37, 38, 39,
    25, 26, 27, 28, 29, 30, 31, -1, -1, -1, 35, 36, 37, 38, 39, -1, -1, -1, 43, 25, 26, 27, 28,
    29, 30, 31, -1, -1, 34, 35, 36, 37, 38, 39>>

yystos ==
  <<0, 1, 3, 7, 8, 9, 10, 43, 44, 47, 57, 58, 59, 43, 43, 58, 43, 43, 0, 3, 4, 5, 6, 14, 15, 16,
    17, 18, 19, 20, 21, 22, 33, 41, 42, 48, 49, 50, 51, 52, 53, 55, 56, 60, 11, 40, 32, 53, 54,
    54, 54, 43, 4, 4, 54, 58, 4, 6, 61, 54, 4, 4, 12, 25, 26, 43, 24, 51, 43, 58, 54, 25, 26,
    27, 28, 29, 30, 31, 35, 36, 37, 38, 39, 43, 43, 43, 23, 43, 21, 43, 43, 34, 43, 61, 13, 61,
    49, 43, 54, 54, 54, 54, 54, 54, 54, 54, 54, 54, 54, 54, 54, 58, 43, 43>>

yyr1 ==
  <<0, 46, 47, 47, 47, 47, 47, 47, 47, 47, 47, 47, 47, 47, 47, 47, 47, 47, 47, 47, 47, 48, 48,
    48, 48, 49, 49, 50, 51, 51, 52, 53, 53, 53, 53, 54, 54, 54, 54, 54, 54, 54, 54, 54, 54, 54,
    54, 54, 54, 55, 56, 57, 57, 58, 59, 60, 60, 60, 60, 61, 61>>

yyr2 ==
  <<0, 2, 2, 5, 2, 2, 3, 3, 4, 4, 4, 4, 3, 4, 6, 4, 6, 4, 1, 1, 2, 1, 3, 3, 3, 1, 3, 1, 1, 2, 1,
    1, 1, 1, 3, 1, 3, 3, 3, 3, 3, 3, 3, 2, 3, 3, 3, 3, 3, 2, 2, 0, 1, 1, 1, 1, 1, 1, 1, 1, 1>>

\* A C array starts at 0.
At(table, i) == table[i + 1]

---------------------------------------------------------------------------
(* What the tables say.                                                    *)

NeedsToken(state) == At(yypact, state) # YYPACT_NINF

Shift(s) == [do |-> "shift", to |-> s]
Reduction(r) == IF r = 0 THEN [do |-> "error", to |-> 0] ELSE [do |-> "reduce", to |-> r]

Listed(n, symbol) == n \in 0..YYLAST /\ At(yycheck, n) = symbol

\* yybackup and yydefault; token is a number, unused in a state that needs none.
Decision(state, token) ==
    LET n == At(yypact, state) + token
        entry == At(yytable, n)
    IN  IF NeedsToken(state) /\ Listed(n, token)
        THEN IF entry > 0 THEN Shift(entry) ELSE Reduction(-entry)
        ELSE Reduction(At(yydefact, state))

\* The state after rule r was reduced and `state` came to the top.
Goto(state, r) ==
    LET lhs == At(yyr1, r) - YYNTOKENS
        n == At(yypgoto, lhs) + state
    IN  IF Listed(n, state) THEN At(yytable, n) ELSE At(yydefgoto, lhs)

\* The state the error token leads to, 0 when the state cannot handle it.
ErrorShift(state) ==
    LET n == At(yypact, state) + YYTERROR
    IN  IF NeedsToken(state) /\ Listed(n, YYTERROR) /\ At(yytable, n) > 0
        THEN At(yytable, n) ELSE 0

---------------------------------------------------------------------------
(* The semantic actions: the value of $$ from d = << $1, ..., $n >>.       *)

Stmt(class, lineno) == [class |-> class, lineno |-> lineno]

\* A number does not fit into the int of atoi when its text is "huge".
atoi(s) == IF s.text = "huge" THEN 0 ELSE 1

SimpleStatement(r, d) ==
    CASE r = 2 -> Stmt("LIST", 0)
      [] r = 3 -> [class |-> "DELETE", lineno |-> 0, from |-> d[2], to |-> d[4]]
      [] r = 4 -> Stmt("RUN", 0)
      [] r = 5 -> Stmt("CONT", 0)
      [] r = 6 -> Stmt("STOP", d[1])

JobStatement(r, d) ==
    CASE r = 7 -> [class |-> "FG", lineno |-> d[1], pipeline |-> d[2]]
      [] r = 8 -> [class |-> "BG", lineno |-> d[1], pipeline |-> d[2]]
      [] r = 9 -> [class |-> "WAIT", lineno |-> d[1], expr |-> d[3]]
      [] r = 10 -> [class |-> "POLL", lineno |-> d[1], expr |-> d[3]]
      [] r = 11 -> [class |-> "CANCEL", lineno |-> d[1], expr |-> d[3]]
      [] r = 12 -> Stmt("PAUSE", d[1])

ProgramStatement(r, d) ==
    CASE r = 13 -> [class |-> "GOTO", lineno |-> d[1], target |-> d[3]]
      [] r = 14 -> [class |-> "SET", lineno |-> d[1], name |-> d[3], expr |-> d[5]]
      [] r = 15 -> [class |-> "UNSET", lineno |-> d[1], name |-> d[3]]
      [] r = 16 -> [class |-> "IF", lineno |-> d[1], expr |-> d[3], target |-> d[5]]
      [] r = 17 -> [class |-> "SOURCE", lineno |-> d[1], file |-> d[3]]
      [] r \in {18, 20} -> NULL             \* an empty line, and one with an error

PipelineRules == 21..29
PipelineValue(r, d) ==
    CASE r = 21 -> [commands |-> d[1], input |-> NULL, output |-> NULL, capture |-> FALSE]
      [] r = 22 -> [d[1] EXCEPT !.input = d[3]]
      [] r = 23 -> [d[1] EXCEPT !.output = d[3]]
      [] r = 24 -> [d[1] EXCEPT !.capture = TRUE]
      [] r = 25 -> d[1]
      [] r = 26 -> d[1] \o d[3]            \* $1->next = $3, $1 is one command
      [] r = 27 -> <<d[1]>>
      [] r = 28 -> <<d[1]>>
      [] r = 29 -> <<d[1]>> \o d[2]

Operators == {"LESS", "GREATER", "EQUAL", "LESSEQ", "GREATEQ", "AND", "OR",
              "PLUS", "MINUS", "TIMES", "DIVIDE", "MOD"}
BinaryRule == [r \in 36..42 \cup 44..48 |->
    CASE r = 36 -> "EQUAL"   [] r = 37 -> "LESS"  [] r = 38 -> "GREATER"
      [] r = 39 -> "LESSEQ"  [] r = 40 -> "GREATEQ"
      [] r = 41 -> "AND"     [] r = 42 -> "OR"
      [] r = 44 -> "PLUS"    [] r = 45 -> "MINUS" [] r = 46 -> "TIMES"
      [] r = 47 -> "DIVIDE"  [] r = 48 -> "MOD"]

\* Mutant: the operands of an operator change places.
OperandsSwapped(r, d) ==
    CASE r \in {30, 31, 35} -> IF r = 31 THEN LitExpr(d[1]) ELSE d[1]
      [] r \in {32, 33} -> NumExpr(d[1])
      [] r \in {34, 49, 50} -> d[2]
      [] r = 43 -> UnaryExpr("NOT", d[2])
      [] OTHER -> BinaryExpr(BinaryRule[r], d[3], d[1])

ExprRules == 30..50
ExprValue(r, d) ==
    CASE r \in {30, 35} -> d[1]
      [] r = 31 -> LitExpr(d[1])
      [] r = 32 -> NumExpr(d[1])
      [] r = 33 -> StringExpr(d[1])
      [] r = 34 -> d[2]
      [] r = 43 -> UnaryExpr("NOT", d[2])
      [] r \in {49, 50} -> d[2]
      [] OTHER -> BinaryExpr(BinaryRule[r], d[1], d[3])

\* A number becomes an int where it is a lineno and stays a string elsewhere.
LeafValue(r, d) ==
    CASE r = 51 -> 0
      [] r = 54 -> atoi(d[1])
      [] OTHER -> d[1]                      \* 52, 53, 55..60

Value(r, d) ==
    CASE r \in 2..6 -> SimpleStatement(r, d)
      [] r \in 7..12 -> JobStatement(r, d)
      [] r \in 13..20 -> ProgramStatement(r, d)
      [] r \in PipelineRules -> PipelineValue(r, d)
      [] r \in ExprRules -> ExprValue(r, d)
      [] r >= 51 -> LeafValue(r, d)

\* Mutant: the text of a literal and of a file name is forgotten.
DestructNoFile(symbol, v) ==
    CASE symbol \in {3, 4, 5, 6, 55, 56} -> FreeString(v)
      [] symbol = 54 -> free_expr(v)
      [] OTHER -> <<>>

\* yydestruct: the strings freed with a symbol that error recovery or the end
\* of yyparse throws away.  Of an arg only the node is freed.
yydestruct(symbol, v) ==
    CASE symbol \in {3, 4, 5, 6, 55, 56, 60, 61} -> FreeString(v)
      [] symbol = 47 -> free_stmt(v)
      [] symbol = 48 -> free_pipeline(v)
      [] symbol \in {49, 50} -> free_commands(v)
      [] symbol = 51 -> free_args(v)
      [] symbol = 54 -> free_expr(v)
      [] OTHER -> <<>>
=============================================================================

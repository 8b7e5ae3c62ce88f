----------------------------- MODULE MushParser -----------------------------
(***************************************************************************)
(* yyparse of hw4/src/mush.tab.c driving the tables of MushGrammar, the    *)
(* lexer as the parser sees it (tokens, and the stack of inputs that       *)
(* `source` pushes), and the loop of exec_interactive that calls it.       *)
(*                                                                         *)
(* Tokens are drawn as they are read.  Strings are blocks of memory: live  *)
(* holds those strdup'ed and not freed, whoever owns them.                 *)
(***************************************************************************)
EXTENDS MushGrammar, FiniteSets

CONSTANTS
    Vocabularies,   \* records: the kinds of token a run of lines is made of,
                    \* the texts of its strings, and how long a line may get
    MaxDepth        \* how many inputs are pushed at a time

VARIABLES
    yyss, yyvs,     \* the stacks of states and of semantic values
    yychar,         \* the lookahead token
    yyerrstatus,    \* 3 after an error, until tokens are shifted again
    pc,             \* "parse", "recover" (yyerrlab1), "returned", "stopped"
    mush_parsed_stmt,
    depth, ended,   \* input_depth(), and whether stdin is at its end
    voc,            \* the vocabulary in use
    line,           \* the tokens read by this call up to its first error
    eols,           \* how many of the tokens read by this call were EOL
    live, twice,    \* the strings allocated, and whether one was freed twice
    pending, shown  \* the text of a listed statement being read back, and it

parser == <<yyss, yyvs, yychar, yyerrstatus, pc, mush_parsed_stmt>>
lexer == <<depth, ended, line, eols, pending>>
memory == <<live, twice>>
vars == <<parser, lexer, memory, voc, shown>>

Empty == [kind |-> "empty"]
StringTokens == {"NUMBER", "NAME", "WORD", "STRING"}
AllTokens == ToSet(yytname) \ {"$end", "error", "$undefined"}

ASSUME VocabularyAssumption ==
    \A v \in Vocabularies : v.kinds \subseteq AllTokens /\ "EOL" \in v.kinds
ASSUME DepthAssumption == MaxDepth \in Nat

Top == Last(yyss)
\* yyparse would accept in YYFINAL, where only $end leads; no rule of the lexer hands that over.
Ready == pc = "parse" /\ Top # YYFINAL /\ (yychar # Empty \/ ~NeedsToken(Top))
Decided == Decision(Top, IF yychar = Empty THEN 0 ELSE YYTRANSLATE(yychar.kind))

Popped(s, n) == SubSeq(s, 1, Len(s) - n)

\* free() of a sequence of blocks.
Free(ids) ==
    /\ live' = live \ ToSet(ids)
    /\ twice' = (twice \/ ~IsInjective(ids) \/ ~(ToSet(ids) \subseteq live))

\* The next call.  The pointer mush_parsed_stmt stays, but nobody reads it
\* again before it is assigned.
NewCall ==
    /\ mush_parsed_stmt' = NULL
    /\ yyss' = <<0>>
    /\ yyvs' = <<NULL>>
    /\ yychar' = Empty
    /\ yyerrstatus' = 0
    /\ line' = <<>>
    /\ eols' = 0
    /\ live' = {}

Init ==
    /\ yyss = <<0>>
    /\ yyvs = <<NULL>>
    /\ yychar = Empty
    /\ yyerrstatus = 0
    /\ pc = "parse"
    /\ mush_parsed_stmt = NULL
    /\ depth = 0
    /\ ended = FALSE
    /\ voc \in Vocabularies
    /\ line = <<>>
    /\ eols = 0
    /\ live = {}
    /\ twice = FALSE
    /\ pending = <<>>
    /\ shown = NULL

---------------------------------------------------------------------------
(* yylex.                                                                  *)

\* The lexer strdup's the text of four kinds of token.
Hand(t) ==
    LET id == Len(line) + 1
    IN  /\ yychar' = [kind |-> t.kind, value |->
                IF t.kind \in StringTokens THEN String(id, t.text) ELSE NULL]
        /\ live' = IF t.kind \in StringTokens THEN live \cup {id} ELSE live
        /\ line' = IF yyerrstatus = 0 THEN Append(line, t) ELSE line
        /\ eols' = IF t.kind = "EOL" THEN eols + 1 ELSE eols

WantsToken == pc = "parse" /\ NeedsToken(Top) /\ yychar = Empty

TextsOf(kind) ==
    CASE kind = "NUMBER" -> voc.texts \cap {"number", "huge"}
      [] kind = "NAME" -> {"name"}
      [] kind = "WORD" -> {"word"}
      [] kind = "STRING" -> voc.texts \cap {"name", "blank"}
      [] OTHER -> {"none"}

\* The next token of the line, which is bounded while it has no error.
ReadToken ==
    /\ WantsToken /\ ~ended /\ pending = <<>>
    /\ Len(line) < voc.max \/ yyerrstatus > 0
    /\ \E kind \in voc.kinds \ {"EOL"} : \E text \in TextsOf(kind) : Hand(Token(kind, text))
    /\ UNCHANGED <<yyss, yyvs, yyerrstatus, pc, mush_parsed_stmt, depth, ended, voc, twice,
                   pending, shown>>

ReadEOL ==
    /\ WantsToken /\ ~ended /\ pending = <<>>
    /\ Hand(Token("EOL", "none"))
    /\ UNCHANGED <<yyss, yyvs, yyerrstatus, pc, mush_parsed_stmt, depth, ended, voc, twice,
                   pending, shown>>


\* The <<EOF>> rule.  stdin at its end stays there.
ReadEOF ==
    /\ WantsToken /\ pending = <<>>
    /\ IF depth = 0
       THEN ended' = TRUE /\ depth' = depth /\ Hand(Token("EoF", "none"))
       ELSE depth' = depth - 1 /\ ended' = ended /\ Hand(Token("EOL", "none"))
    /\ UNCHANGED <<yyss, yyvs, yyerrstatus, pc, mush_parsed_stmt, voc, twice, pending, shown>>

\* The text of a listed statement, read back.
ReadListed ==
    /\ WantsToken /\ pending # <<>>
    /\ Hand(Head(pending))
    /\ pending' = Tail(pending)
    /\ UNCHANGED <<yyss, yyvs, yyerrstatus, pc, mush_parsed_stmt, depth, ended, voc, twice, shown>>

---------------------------------------------------------------------------
(* yyparse.                                                                *)

\* Shift the lookahead token.
YyShift ==
    /\ Ready /\ Decided.do = "shift"
    /\ yyss' = Append(yyss, Decided.to)
    /\ yyvs' = Append(yyvs, yychar.value)
    /\ yychar' = Empty
    /\ yyerrstatus' = IF yyerrstatus > 0 THEN yyerrstatus - 1 ELSE 0
    /\ UNCHANGED <<pc, mush_parsed_stmt, lexer, memory, voc, shown>>

Rule == Decided.to
Length == At(yyr2, Rule)
Dollars == SubSeq(yyvs, Len(yyvs) - Length + 1, Len(yyvs))

Reducing == Ready /\ Decided.do = "reduce"
BadLineNumber == Rule = 52 /\ Dollars[1] <= 0
Returning == Rule \in 2..20

\* yyreduce, for a rule that neither returns nor raises an error.  Rule 54
\* frees the digits it converted.
YyReduce ==
    /\ Reducing /\ ~Returning /\ ~BadLineNumber
    /\ LET below == Popped(yyss, Length)
       IN  yyss' = Append(below, Goto(Last(below), Rule))
    /\ yyvs' = Append(Popped(yyvs, Length), Value(Rule, Dollars))
    /\ IF Rule = 54 THEN Free(<<Dollars[1].id>>) ELSE UNCHANGED memory
    /\ UNCHANGED <<yychar, yyerrstatus, pc, mush_parsed_stmt, lexer, voc, shown>>

\* yyreturn: the lookahead and the symbols left on the stack are destructed.
Cleanup(rest) ==
    Free((IF yychar = Empty THEN <<>> ELSE yydestruct(YYTRANSLATE(yychar.kind), yychar.value))
         \o FlattenSeq([i \in 1..(Len(rest) - 1) |->
                LET k == Len(rest) + 1 - i IN yydestruct(At(yystos, rest[k]), yyvs[k])]))

\* YYACCEPT, in every rule of a statement but one.
YyAccept ==
    /\ Reducing /\ Returning /\ Rule # 19
    /\ mush_parsed_stmt' = Value(Rule, Dollars)
    /\ Cleanup(Popped(yyss, Length))
    /\ pc' = "returned"
    /\ UNCHANGED <<yyss, yyvs, yychar, yyerrstatus, lexer, voc, shown>>

\* YYABORT, on the end of the input; the loop of exec_interactive ends, for
\* pop_input() finds no input to go back to.
YyAbort ==
    /\ Reducing /\ Rule = 19
    /\ depth = 0
    /\ Cleanup(Popped(yyss, Length))
    /\ pc' = "stopped"
    /\ UNCHANGED <<yyss, yyvs, yychar, yyerrstatus, mush_parsed_stmt, lexer, voc, shown>>

\* YYERROR: the line number is not positive.  yyerrlab1 follows.
RejectLineNumber ==
    /\ Reducing /\ BadLineNumber
    /\ yyss' = Popped(yyss, Length)
    /\ yyvs' = Popped(yyvs, Length)
    /\ yyerrstatus' = 3
    /\ pc' = "recover"
    /\ UNCHANGED <<yychar, mush_parsed_stmt, lexer, memory, voc, shown>>

\* Mutant: a token is discarded at once.
ErrorEatsToken ==
    /\ Ready /\ Decided.do = "error"
    /\ Free(yydestruct(YYTRANSLATE(yychar.kind), yychar.value))
    /\ yychar' = Empty
    /\ yyerrstatus' = 3
    /\ pc' = "recover"
    /\ UNCHANGED <<yyss, yyvs, mush_parsed_stmt, lexer, voc, shown>>

\* yyerrlab: a token that was tried once after an error is discarded.
YyError ==
    /\ Ready /\ Decided.do = "error"
    /\ IF yyerrstatus = 3
       THEN /\ Free(yydestruct(YYTRANSLATE(yychar.kind), yychar.value))
            /\ yychar' = Empty
       ELSE UNCHANGED <<yychar, memory>>
    /\ yyerrstatus' = 3
    /\ pc' = "recover"
    /\ UNCHANGED <<yyss, yyvs, mush_parsed_stmt, lexer, voc, shown>>

\* yyerrlab1: pop until a state can shift the error token.  State 0 can, so
\* the stack is never popped empty.
PopSymbol ==
    /\ pc = "recover" /\ ErrorShift(Top) = 0
    /\ Len(yyss) > 1
    /\ Free(yydestruct(At(yystos, Top), Last(yyvs)))
    /\ yyss' = Front(yyss)
    /\ yyvs' = Front(yyvs)
    /\ UNCHANGED <<yychar, yyerrstatus, pc, mush_parsed_stmt, lexer, voc, shown>>

ShiftError ==
    /\ pc = "recover" /\ ErrorShift(Top) # 0
    /\ yyss' = Append(yyss, ErrorShift(Top))
    /\ yyvs' = Append(yyvs, NULL)
    /\ pc' = "parse"
    /\ UNCHANGED <<yychar, yyerrstatus, mush_parsed_stmt, lexer, memory, voc, shown>>

---------------------------------------------------------------------------
(* The caller.                                                             *)

StringsOf(stmt) == ToSet(free_stmt(stmt))

\* exec_interactive after yyparse() returned 0: the statement is put into the
\* program, or executed and freed.  A source statement pushes an input.
Execute ==
    /\ pc = "returned"
    /\ LET stmt == mush_parsed_stmt
       IN  /\ IF stmt = NULL \/ stmt.lineno # 0 THEN twice' = twice
              ELSE twice' = (twice \/ ~(StringsOf(stmt) \subseteq live)
                                   \/ ~IsInjective(free_stmt(stmt)))
           /\ \/ depth' = depth
              \/ /\ stmt # NULL /\ stmt.class = "SOURCE" /\ stmt.lineno = 0
                 /\ shown = NULL /\ depth < MaxDepth
                 /\ depth' = depth + 1
    /\ pc' = "parse"
    /\ NewCall
    /\ shown' = NULL
    /\ pending' = <<>>
    /\ UNCHANGED <<ended, voc>>

\* A client of syntax.h: it keeps a copy of the pipeline and frees the
\* statement, whose place the copy takes.
CopyPipeline ==
    /\ pc = "returned" /\ shown = NULL
    /\ mush_parsed_stmt # NULL
    /\ mush_parsed_stmt.class \in {"FG", "BG"}
    /\ LET old == StringsOf(mush_parsed_stmt)
           at == [id \in old |-> 100 + id]
           copy == copy_pipeline(mush_parsed_stmt.pipeline, at)
       IN  /\ old \subseteq 1..99
           /\ mush_parsed_stmt' = [mush_parsed_stmt EXCEPT !.pipeline = copy]
           /\ live' = (live \ old) \cup {at[id] : id \in old}
    /\ UNCHANGED <<yyss, yyvs, yychar, yyerrstatus, pc, lexer, twice, voc, shown>>

\* `list` shows a statement of the program, and what it shows is typed in again.
ListAndRetype ==
    /\ pc = "returned" /\ shown = NULL
    /\ mush_parsed_stmt # NULL /\ mush_parsed_stmt.lineno # 0
    /\ shown' = mush_parsed_stmt
    /\ pending' = show_stmt(mush_parsed_stmt)
    /\ pc' = "parse"
    /\ NewCall
    /\ UNCHANGED <<depth, ended, voc, twice>>

yyparse == \/ YyShift \/ YyReduce \/ YyAccept \/ YyAbort \/ RejectLineNumber
           \/ YyError \/ PopSymbol \/ ShiftError
yylex == ReadToken \/ ReadEOL \/ ReadEOF \/ ReadListed
Stopped == pc = "stopped" /\ UNCHANGED vars
Next == yyparse \/ yylex \/ Execute \/ CopyPipeline \/ ListAndRetype \/ Stopped

Spec == Init /\ [][Next]_vars

---------------------------------------------------------------------------
(* A reference definition of how an expression groups.                     *)

Nowhere(stmt) == [id \in StringsOf(stmt) |-> 0]

\* A statement with its strings told apart by their texts only.
Shape(stmt) ==
    [f \in DOMAIN stmt |->
        CASE f = "pipeline" -> copy_pipeline(stmt.pipeline, Nowhere(stmt))
          [] f = "expr" -> copy_expr(stmt.expr, Nowhere(stmt))
          [] f \in {"name", "file"} -> strdup(stmt[f], Nowhere(stmt))
          [] OTHER -> stmt[f]]

Binding(kind) ==
    CASE kind \in {"PLUS", "MINUS", "TIMES", "DIVIDE", "MOD"} -> 1
      [] kind \in {"AND", "OR"} -> 2
      [] kind \in {"LESS", "GREATER", "EQUAL", "LESSEQ", "GREATEQ"} -> 3

Count(t, n, kind) == Cardinality({i \in 1..n : t[i].kind = kind})
Outside(t, i) == Count(t, i, "LPAREN") = Count(t, i, "RPAREN")

\* The operator at the root of the tokens t, 0 when it is no binary one: the
\* last of those that bind least; comparisons are taken by a NOT before them.
Root(t) ==
    LET nots == {i \in DOMAIN t : t[i].kind = "NOT" /\ Outside(t, i)}
        ops == {i \in DOMAIN t : t[i].kind \in Operators /\ Outside(t, i)}
        free == {i \in ops : Binding(t[i].kind) < 3 \/ \A j \in nots : i < j}
        least == {i \in free : \A j \in free : Binding(t[i].kind) <= Binding(t[j].kind)}
    IN  IF least = {} THEN 0 ELSE Max(least)

Grouping[t \in Seq([kind : AllTokens, text : Texts \cup {"none"}])] ==
    LET text == String(0, Last(t).text)
    IN  CASE Root(t) # 0 ->
                BinaryExpr(t[Root(t)].kind, Grouping[SubSeq(t, 1, Root(t) - 1)],
                           Grouping[SubSeq(t, Root(t) + 1, Len(t))])
          [] Root(t) = 0 /\ t[1].kind = "NOT" -> UnaryExpr("NOT", Grouping[Tail(t)])
          [] t[1].kind = "LPAREN" /\ Root(t) = 0 -> Grouping[SubSeq(t, 2, Len(t) - 1)]
          [] t[1].kind = "SHARP" -> NumExpr(text)
          [] t[1].kind = "DOLLAR" -> StringExpr(text)
          [] OTHER -> LitExpr(text)

---------------------------------------------------------------------------
(* Properties.                                                             *)

\* The tokens that follow a redirection in one direction.
Redirections(kind) ==
    {i \in 1..(Len(line) - 1) : line[i].kind = kind /\ line[i + 1].kind \in {"NAME", "STRING"}}

\* Whether the line, less its number, begins as a pipeline does.
BeginsPipeline ==
    LET first == IF line[1].kind = "NUMBER" /\ Len(line) > 1 THEN 2 ELSE 1
    IN  line[first].kind \in StringTokens \cup {"SHARP", "DOLLAR", "LPAREN"}

\* No string of a statement is freed twice, not by the conversion of a line
\* number, error recovery and the end of yyparse (mush.tab.c), nor by free_stmt
\* after it (syntax.c); and whatever was read, when yyparse has returned the
\* strings still allocated are those of the statement it returned.  Two lines may
\* lose a string: one that redirects a stream twice, for the first file name is
\* overwritten (rules 22 and 23), and a pipeline with an error, for yydestruct
\* frees the node of an arg and not the expression below it.
StringsFreedOnce ==
    /\ ~twice
    /\ /\ pc = "returned"
       /\ \A kind \in {"LESS", "GREATER"} : Cardinality(Redirections(kind)) <= 1
       /\ yyerrstatus > 0 => ~BeginsPipeline
       => live = StringsOf(mush_parsed_stmt)

ExprTokens ==
    LET from == IF line[1].kind = "NUMBER" THEN 3 ELSE 2
        to == IF \E i \in DOMAIN line : line[i].kind = "GOTO"
              THEN CHOOSE i \in DOMAIN line : line[i].kind = "GOTO"
              ELSE Len(line)
    IN  SubSeq(line, from, to - 1)

\* The tables group an expression as the reference does: arithmetic binds
\* least and all of it alike, then AND, OR and NOT, then the comparisons, each
\* to the left.  (So 1 + 2 < 3 is 1 + (2 < 3), and 1 + 2 * 3 is 9.)
GroupsAsDeclared ==
    pc = "returned" /\ mush_parsed_stmt # NULL /\ mush_parsed_stmt.class \in {"WAIT", "IF"}
        => Shape(mush_parsed_stmt).expr = Grouping[ExprTokens]

TextsIn(e) == {node.string.text : node \in {n \in ToSet(e) : n.class = "lit"}}

PlainFile(s) == s = NULL \/ s.text # "blank"
PlainArgument(e) == Len(e) = 1 /\ "blank" \notin TextsIn(e)

\* What show_stmt shows of a statement is that statement: no number became 0,
\* no quoted text lost its quotes, no argument its parentheses.
ShowsAll(stmt) ==
    CASE stmt.class \in {"FG", "BG"} ->
            /\ PlainFile(stmt.pipeline.input) /\ PlainFile(stmt.pipeline.output)
            /\ \A cmd \in ToSet(stmt.pipeline.commands) : \A e \in ToSet(cmd) : PlainArgument(e)
      [] stmt.class \in {"WAIT", "POLL", "CANCEL", "SET"} -> "blank" \notin TextsIn(stmt.expr)
      [] stmt.class = "IF" -> "blank" \notin TextsIn(stmt.expr) /\ stmt.target > 0
      [] stmt.class = "GOTO" -> stmt.target > 0
      [] stmt.class = "SOURCE" -> PlainFile(stmt.file)
      [] OTHER -> TRUE

\* Typing in what `list` shows of a line (show_stmt, syntax.c) yields the same
\* statement (yyparse), parentheses and the order of redirections included.
ListingReadsBack ==
    shown # NULL /\ ShowsAll(shown) /\ depth = 0 /\ ~ended
        => /\ yyerrstatus = 0
           /\ pc = "returned" => Shape(mush_parsed_stmt) = Shape(shown)

\* A call of yyparse reads one line, to its end and no further, whatever error
\* it meets and wherever (yyerrlab, yyerrlab1, rule 20): no statement is lost
\* with the erroneous one before it.
OneLinePerCall ==
    /\ eols <= 1
    /\ pc = "returned" => eols = 1
=============================================================================

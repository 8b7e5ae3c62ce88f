----------------------------- MODULE MushSyntax -----------------------------
(***************************************************************************)
(* The statement trees of mush (hw4/include/syntax.h) and what syntax.c    *)
(* does with them: showing, freeing and copying.                           *)
(*                                                                         *)
(* A string is a block of memory, id, with a text.  Of a text only what    *)
(* the lexer would make of it counts: "number" (a positive line number),   *)
(* "huge" (digits whose atoi is 0), "name", "word", or "blank" (several    *)
(* words, which only a quoted string can hold).  What is shown is a        *)
(* sequence of tokens, what the lexer reads in the characters written.     *)
(***************************************************************************)
EXTENDS Integers, Sequences, SequencesExt

NULL == [class |-> "null"]              \* an absent string, statement or list
Texts == {"number", "huge", "name", "word", "blank"}
String(id, text) == [class |-> "string", id |-> id, text |-> text]

\* A tree of an expression is the sequence of its nodes, operands before their
\* operator, the first one first: the order in which they are freed.
Leaf(class, s) == <<[class |-> class, string |-> s]>>
Operator(class, op) == <<[class |-> class, oprtr |-> op]>>

LitExpr(s) == Leaf("lit", s)
NumExpr(s) == Leaf("num", s)
StringExpr(s) == Leaf("str", s)
UnaryExpr(op, e) == e \o Operator("unary", op)
BinaryExpr(op, e1, e2) == e1 \o e2 \o Operator("binary", op)

IsLeaf(node) == node.class \in {"lit", "num", "str"}

Token(kind, text) == [kind |-> kind, text |-> text]
Mark(kind) == <<Token(kind, "none")>>

\* The tokens the lexer makes of the text of a string written without quotes.
ShowString(s) ==
    CASE s.text \in {"number", "huge"} -> <<Token("NUMBER", s.text)>>
      [] s.text = "name" -> <<Token("NAME", "name")>>
      [] s.text = "word" -> <<Token("WORD", "word")>>
      [] s.text = "blank" -> <<Token("NAME", "name"), Token("NAME", "name")>>

\* fprintf("%d"): the number 0 is no NUMBER to the lexer, but a WORD.
ShowNumber(n) == IF n > 0 THEN <<Token("NUMBER", "number")>> ELSE <<Token("WORD", "word")>>

show_lineno(n) == IF n # 0 THEN ShowNumber(n) ELSE <<>>

\* Mutant: operands are shown without parentheses.
Bare(parens, shown) == shown

Enclosed(parens, shown) ==
    IF parens THEN Mark("LPAREN") \o shown \o Mark("RPAREN") ELSE shown

Shown(tokens, parens) == [tokens |-> tokens, parens |-> parens]

\* texts holds what is shown of the operands, and whether they want parentheses.
ShowNode(texts, node) ==
    LET n == Len(texts)
        operand(i) == Enclosed(texts[i].parens, texts[i].tokens)
    IN  CASE node.class = "lit" -> Append(texts, Shown(ShowString(node.string), FALSE))
          [] node.class = "num" ->
                Append(texts, Shown(Mark("SHARP") \o ShowString(node.string), FALSE))
          [] node.class = "str" ->
                Append(texts, Shown(Mark("DOLLAR") \o ShowString(node.string), FALSE))
          [] node.class = "unary" ->
                Append(Front(texts), Shown(Mark(node.oprtr) \o operand(n), TRUE))
          [] node.class = "binary" ->
                Append(SubSeq(texts, 1, n - 2),
                       Shown(operand(n - 1) \o Mark(node.oprtr) \o operand(n), TRUE))

show_expr(e, parens) ==
    LET root == Last(FoldLeft(ShowNode, <<>>, e))
    IN  Enclosed(parens /\ root.parens, root.tokens)

show_command(args) == FlattenSeq([i \in DOMAIN args |-> show_expr(args[i], FALSE)])

show_pipeline(p) ==
    FlattenSeq([i \in DOMAIN p.commands |->
                    (IF i > 1 THEN Mark("PIPE") ELSE <<>>) \o show_command(p.commands[i])])
    \o (IF p.input # NULL THEN Mark("LESS") \o ShowString(p.input) ELSE <<>>)
    \o (IF p.capture THEN Mark("GREATER") \o Mark("CAPTURE") ELSE <<>>)
    \o (IF p.output # NULL THEN Mark("GREATER") \o ShowString(p.output) ELSE <<>>)

ShowMembers(s) ==
    CASE s.class = "FG" -> show_pipeline(s.pipeline)
      [] s.class = "BG" -> show_pipeline(s.pipeline) \o Mark("BG")
      [] s.class = "DELETE" ->
            Mark("DELETE") \o ShowNumber(s.from) \o Mark("COMMA") \o ShowNumber(s.to)
      [] s.class \in {"WAIT", "POLL", "CANCEL"} -> Mark(s.class) \o show_expr(s.expr, FALSE)
      [] s.class = "SET" ->
            Mark("SET") \o ShowString(s.name) \o Mark("EQ") \o show_expr(s.expr, FALSE)
      [] s.class = "UNSET" -> Mark("UNSET") \o ShowString(s.name)
      [] s.class = "IF" ->
            Mark("IF") \o show_expr(s.expr, FALSE) \o Mark("GOTO") \o ShowNumber(s.target)
      [] s.class = "GOTO" -> Mark("GOTO") \o ShowNumber(s.target)
      [] s.class = "SOURCE" -> Mark("SOURCE") \o ShowString(s.file)
      [] OTHER -> Mark(s.class)         \* list, run, cont, stop, pause

show_stmt(s) == show_lineno(s.lineno) \o ShowMembers(s) \o Mark("EOL")

---------------------------------------------------------------------------
(* What the free functions hand back: the ids of the strings, in order.    *)

FreeString(s) == IF s = NULL THEN <<>> ELSE <<s.id>>

free_expr(e) == FlattenSeq([i \in DOMAIN e |-> IF IsLeaf(e[i]) THEN <<e[i].string.id>> ELSE <<>>])

free_args(args) == FlattenSeq(Reverse([i \in DOMAIN args |-> free_expr(args[i])]))

free_commands(cmds) == FlattenSeq(Reverse([i \in DOMAIN cmds |-> free_args(cmds[i])]))

free_pipeline(p) ==
    free_commands(p.commands) \o FreeString(p.input) \o FreeString(p.output)

free_stmt(s) ==
    CASE s = NULL -> <<>>
      [] s.class \in {"FG", "BG"} -> free_pipeline(s.pipeline)
      [] s.class \in {"WAIT", "POLL", "CANCEL", "IF"} -> free_expr(s.expr)
      [] s.class = "SET" -> FreeString(s.name) \o free_expr(s.expr)
      [] s.class = "UNSET" -> FreeString(s.name)
      [] s.class = "SOURCE" -> FreeString(s.file)
      [] OTHER -> <<>>

---------------------------------------------------------------------------
(* The copies are in blocks of their own: strdup(s) is block at[s.id].     *)

strdup(s, at) == IF s = NULL THEN NULL ELSE [s EXCEPT !.id = at[s.id]]

copy_expr(e, at) ==
    [i \in DOMAIN e |->
        IF IsLeaf(e[i]) THEN [e[i] EXCEPT !.string = strdup(@, at)] ELSE e[i]]

copy_args(args, at) == [i \in DOMAIN args |-> copy_expr(args[i], at)]

copy_commands(cmds, at) == [i \in DOMAIN cmds |-> copy_args(cmds[i], at)]

copy_pipeline(p, at) ==
    [commands |-> copy_commands(p.commands, at), capture |-> p.capture,
     input |-> strdup(p.input, at), output |-> strdup(p.output, at)]
=============================================================================

---------------------------- MODULE MCParInput ----------------------------
(* Instances of ParInput: what par is started with. *)
EXTENDS ParInput

CONSTANTS
    MaxText         \* bound: the length of the input

Characters == {"x", "y", " ", "\n"}

Word(letter, number) == [letter |-> letter, number |-> number]
Arg(letter, number, apart) == [letter |-> letter, number |-> number, apart |-> apart]

\* All short texts, and some of up to three longer lines.
Lines == {<<"x", " ", " ", "y">>, <<"y", " ", " ", "y">>, <<"x", " ", "y">>, <<"y">>, <<" ">>}
Joined(lines) == FoldLeft(LAMBDA text, line : text \o <<"\n">> \o line, lines[1], Tail(lines))
Texts ==
    UNION {[1..n -> Characters] : n \in 0..MaxText}
    \cup {Joined(lines) : lines \in UNION {[1..n -> Lines] : n \in 1..3}}
Started(e, a, t) == [env |-> e, args |-> a, text |-> t]

\* Options that matter to how the text is read.
TextOptions == {<<>>, <<Arg("h", NoNumber, FALSE)>>, <<Arg("w", 2, TRUE), Arg("s", 1, FALSE)>>}

\* All words, alone and before others.
Words == {Word("version", NoNumber), Word("", NoNumber), Word("", 8), Word("", 9), Word("", 10000),
          Word("w", NoNumber), Word("w", 9999), Word("p", 3), Word("s", 1), Word("h", NoNumber), Word("h", 0),
          Word("l", 0), Word("m", NoNumber), Word("m", 2), Word("other", 1)}
Args == {Arg("w", 60, FALSE), Arg("w", 0, TRUE), Arg("p", 3, TRUE), Arg("p", 2, FALSE), Arg("s", 1, TRUE), Arg("s", -1, TRUE),
         Arg("h", NoNumber, FALSE), Arg("h", 2, FALSE), Arg("l", NoNumber, FALSE), Arg("m", NoNumber, FALSE),
         Arg("L", NoNumber, FALSE), Arg("M", NoNumber, FALSE), Arg("K", NoNumber, FALSE), Arg("N", NoNumber, FALSE),
         Arg("v", NoNumber, FALSE), Arg("?", NoNumber, FALSE)}
Operand(n) == Arg("operand", n, FALSE)
Upto(set, n) == UNION {[1..k -> set] : k \in 0..n}

AllCases ==
    {Started(<<>>, a, t) : a \in TextOptions, t \in Texts}
    \cup {Started(e, a, <<"x">>) : e \in Upto(Words, 2), a \in Upto(Args, 1) \cup {<<Operand(80)>>}}
    \cup {Started(e, a, <<"x">>) : e \in Upto(Words, 1), a \in Upto(Args, 2)}
    \cup {Started(<<>>, <<a, b, c>>, <<"x">>) : a \in Args, b \in Args \cup {Operand(0)}, c \in {Operand(4), Operand(80)}}
    \cup {Started(<<>>, <<a, b, a>>, <<"x">>) : a \in Args, b \in Args}
=============================================================================

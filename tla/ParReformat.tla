---------------------------- MODULE ParReformat ----------------------------
(***************************************************************************)
(* A paragraph on its way through par (hw2/src/reformat.c, with the loop   *)
(* of par.c that calls it): the words are read and cut, the first one is   *)
(* expanded, breaks are chosen, lines are built and printed.  The options  *)
(* are the values setdefaults ends with.  The input arrives line by line   *)
(* and word by word, a word being its length.  What is copied into the     *)
(* prefix and the suffix of a line is left out, how long they are is not.  *)
(***************************************************************************)
EXTENDS ParBreaks

CONSTANTS
    Widths, PrefixLens, SuffixLens, Hangs,  \* values of the options
    WordLengths,                        \* lengths of the words of the input
    Indents,                            \* spaces before the first word
    MaxIn, MaxWords                     \* bounds on the input

ASSUME OptionAssumption ==
    /\ Widths \cup PrefixLens \cup SuffixLens \cup Hangs \cup Indents \subseteq Nat
    /\ WordLengths \subseteq Nat \ {0}
    /\ MaxIn \in Nat \ {0} /\ MaxWords \in Nat

\* par.doc:195, "It is an error if <width> <= <prefix> + <suffix>".  The code
\* makes no such check; words are then cut into pieces of no length for ever.
ASSUME WidthAssumption ==
    \A w \in Widths, p \in PrefixLens, s \in SuffixLens : w > p + s

VARIABLES
    opt,        \* width, prefix, suffix, hang, last, min
    pc,         \* what reformat and its caller are doing
    error,      \* the error indication of errmsg.c
    numin,      \* number of input lines, so far
    rest,       \* what is left of the input word p1 points into
    indent,     \* spaces before the first word, on the first line
    words,      \* the list of words, by their lengths
    breaks,     \* what choosebreaks left in the words
    w1,         \* the word the next line begins with
    out         \* the lines built

vars == <<opt, pc, error, numin, rest, indent, words, breaks, w1, out>>
input == <<opt, numin, rest, indent, words>>

Options == [width : Widths, prefix : PrefixLens, suffix : SuffixLens, hang : Hangs,
            last : BOOLEAN, min : BOOLEAN]
L == opt.width - opt.prefix - opt.suffix
affix == opt.prefix + opt.suffix

Init ==
    /\ opt \in Options
    /\ pc = "read" /\ error = "none"
    /\ numin = 0 /\ rest = 0 /\ indent = 0 /\ words = <<>>
    /\ breaks = NoBreaks /\ w1 = 1 /\ out = <<>>

Goto(label) == pc' = label /\ UNCHANGED error
Fail(what) == pc' = "cleanup" /\ error' = what

-----------------------------------------------------------------------------
(* Words. *)

\* Mutant: a long word is kept in one piece.
CutNothing ==
    /\ pc = "read" /\ rest > 0
    /\ words' = Append(words, rest)
    /\ rest' = 0
    /\ UNCHANGED <<opt, pc, error, numin, indent, breaks, w1, out>>

InputLine ==
    /\ pc = "read" /\ rest = 0 /\ numin < MaxIn
    /\ numin' = numin + 1
    /\ UNCHANGED <<opt, pc, error, rest, indent, words, breaks, w1, out>>

\* A line of the paragraph is shorter than its prefix and suffix; it is not
\* blank, so it has a character.
ShortLine ==
    /\ pc = "read" /\ rest = 0 /\ numin < MaxIn /\ affix > 1
    /\ Fail("short")
    /\ UNCHANGED <<input, breaks, w1, out>>

InputWord(length, spaces) ==
    /\ pc = "read" /\ rest = 0 /\ numin > 0
    /\ Len(words) + (length + L - 1) \div L <= MaxWords
    /\ rest' = length
    /\ indent' = IF numin = 1 /\ words = <<>> THEN spaces ELSE indent
    /\ UNCHANGED <<opt, pc, error, numin, words, breaks, w1, out>>

CutWord ==
    /\ pc = "read" /\ rest > 0
    /\ words' = Append(words, Lesser(rest, L))
    /\ rest' = rest - Lesser(rest, L)
    /\ UNCHANGED <<opt, pc, error, numin, indent, breaks, w1, out>>

\* The end of the input: the first word takes in the spaces before it.
Expand ==
    /\ pc = "read" /\ rest = 0 /\ numin > 0
    /\ words' = IF words = <<>> THEN words ELSE [words EXCEPT ![1] = @ + indent]
    /\ Goto("break")
    /\ UNCHANGED <<opt, numin, rest, indent, breaks, w1, out>>

-----------------------------------------------------------------------------
(* Lines. *)

ChooseBreaks ==
    /\ pc = "break"
    /\ breaks' = choosebreaks(LineLens(words), L, opt.last, opt.min)
    /\ IF breaks'.impossible THEN Fail("impossible") ELSE Goto("build")
    /\ UNCHANGED <<input, w1, out>>

HasWord == w1 \in DOMAIN words

\* What the line that begins with w1 is allocated for, prefix and suffix aside.
Room ==
    IF opt.suffix > 0 THEN breaks.newL
    ELSE IF HasWord THEN breaks.lines[w1].linelen ELSE 0

\* Mutant: the loop over the words of a line ends one word late.
NextLineLate ==
    IF HasWord THEN Lesser(breaks.lines[w1].nextline + 1, Len(words) + 1) ELSE w1

NextLine == IF HasWord THEN breaks.lines[w1].nextline ELSE w1

Line ==
    [first |-> w1,
     next |-> NextLine,
     room |-> Room,
     text |-> IF HasWord THEN LineLens(words)[w1][NextLine - 1] ELSE 0]

MakeLine ==
    /\ pc = "build" /\ (Len(out) < opt.hang \/ HasWord)
    /\ out' = Append(out, Line)
    /\ w1' = NextLine
    /\ UNCHANGED <<input, pc, error, breaks>>

\* Mutant: <hang> lines are enough, words or not.
PutLinesEarly ==
    /\ pc = "build" /\ (~HasWord \/ Len(out) > opt.hang)
    /\ Goto("printed")
    /\ UNCHANGED <<input, breaks, w1, out>>

PutLines ==
    /\ pc = "build" /\ Len(out) >= opt.hang /\ ~HasWord
    /\ Goto("printed")
    /\ UNCHANGED <<input, breaks, w1, out>>

\* The loop of par goes on to the next paragraph.
NextParagraph ==
    /\ pc = "printed"
    /\ Goto("read")
    /\ numin' = 0 /\ indent' = 0 /\ words' = <<>>
    /\ breaks' = NoBreaks /\ w1' = 1 /\ out' = <<>>
    /\ UNCHANGED <<opt, rest>>

-----------------------------------------------------------------------------
(* Errors. *)

\* malloc fails for a word, for a line, or in the buffer of the lines.
NoMemory ==
    /\ pc \in {"read", "build"}
    /\ Fail("memory")
    /\ UNCHANGED <<input, breaks, w1, out>>

\* rfcleanup returns outlines, which only a short line has set; the caller
\* frees what it points to, unless it happens to be NULL.
Report ==
    /\ pc = "cleanup"
    /\ \/ Goto("reported")
       \/ error # "short" /\ Goto("crashed")
    /\ UNCHANGED <<input, breaks, w1, out>>

Next ==
    \/ InputLine \/ ShortLine \/ CutWord \/ Expand
    \/ ChooseBreaks \/ MakeLine \/ PutLines \/ NextParagraph
    \/ NoMemory \/ Report
    \/ \E length \in WordLengths, spaces \in Indents : InputWord(length, spaces)

Spec == Init /\ [][Next]_vars

-----------------------------------------------------------------------------
(* Properties. *)

\* reformat.c:37-40: whenever choosebreaks returns, its three chained passes
\* have found one of the best of all ways to break the paragraph, by the policy
\* of par.doc:245-265, and the newL that belongs to it.
BreaksAreBest ==
    pc = "build" /\ out = <<>> /\ words # <<>> =>
        LET len == LineLens(words)
        IN  /\ breaks.newL = PolicyL(len, L, opt.last, opt.min)
            /\ Begun(breaks.lines) \in Best(len, L, opt.last, breaks.newL)

\* The three "impossibilities" of choosebreaks happen in one case only: the
\* first word grew beyond a line when it took in the spaces before it.
OnlyGrownWordFails ==
    error = "impossible" => words[1] > L /\ words[1] - indent <= L

\* reformat.c:254-280: the text, which the loop over the words writes, fills
\* what linelen had allocated, or with a suffix leaves room for padding to newL;
\* the linelen kept by the last pass belongs to the nextline kept by it.
TextFitsRoom ==
    \A k \in DOMAIN out :
        /\ out[k].text <= out[k].room
        /\ out[k].room <= L
        /\ opt.suffix = 0 => out[k].text = out[k].room

\* Following nextline from the first word, the printed lines hold every word
\* once and in order; blank lines come last and only to make up <hang>.
EveryWordPrinted ==
    pc = "printed" =>
        /\ \A k \in DOMAIN out :
              /\ out[k].first = IF k = 1 THEN 1 ELSE out[k - 1].next
              /\ out[k].first = out[k].next => k <= opt.hang /\ out[k].first > Len(words)
        /\ IF out = <<>> THEN words = <<>> ELSE out[Len(out)].next = Len(words) + 1

=============================================================================

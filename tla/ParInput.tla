------------------------------ MODULE ParInput ------------------------------
(***************************************************************************)
(* What par does around reformat (hw2/src/par.c, with the error indication *)
(* of errmsg.c): options are read from PARINIT and from the command line,  *)
(* then the input is cut into paragraphs and blank lines, and each         *)
(* paragraph gets its defaults and is formatted.  Characters are read one  *)
(* by one; a word of an option is a letter and a number; how a paragraph   *)
(* is formatted is the subject of ParReformat.                             *)
(***************************************************************************)
EXTENDS Integers, Sequences, SequencesExt, FiniteSets

CONSTANTS
    Cases,          \* PARINIT, the arguments and the input the program is started with
    MaxUnreported   \* bound: the steps that go on after an error without a message

NoNumber == -9

\* A word of PARINIT is a letter, or none, and a number; an argument is an option or an
\* operand, and its number is in the same string or apart.
PARINITWords == [letter : {"version", "", "w", "p", "s", "h", "l", "m", "other"}, number : Int]
Arguments ==
    [letter : {"w", "p", "s", "h", "operand"}, number : Int, apart : BOOLEAN]
    \cup [letter : {"l", "L", "m", "M", "K", "N", "v", "?"}, number : {NoNumber}, apart : {FALSE}]
ASSUME CasesAssumption == Cases \subseteq [env : Seq(PARINITWords), args : Seq(Arguments), text : Seq(STRING)]
ASSUME BoundAssumption == MaxUnreported \in Nat

VARIABLES
    given,      \* the case
    pc,         \* where original_main is
    env,        \* the words of PARINIT that strtok has not returned
    args,       \* the options getopt_long has not returned
    settings,   \* widthbak ... minbak, -1 where unset
    stdin,      \* the characters not read
    cbuf,       \* the line readlines is reading
    blank,      \* whether only white characters were in that line
    pbuf,       \* the lines it has read, NULL pointers among them aside
    nullat,     \* how many of them come before a NULL pointer, -1 without one
    inlines,    \* the paragraph
    stdout,     \* what was printed: newlines and formatted paragraphs
    message,    \* errmsg of errmsg.c: "none", "set", "freed", or "freed twice"
    held,       \* the storage that is allocated
    status,     \* how the program ended; "crashed" where what it does is undefined
    unreported  \* history: the steps that went on after an error without a message

vars == <<given, pc, env, args, settings, stdin, cbuf, blank, pbuf, nullat, inlines, stdout,
          message, held, status, unreported>>
front == <<env, args, settings>>
reading == <<cbuf, blank, pbuf, nullat>>
paragraph == <<reading, inlines>>
errors == <<message, unreported>>

Unset == -1
isspace(c) == c = " "
Blank(line) == \A i \in DOMAIN line : isspace(line[i])

\* par.c looks at is_error after the calls that may fail; the message a call leaves
\* is freed by the next that succeeds, and the pointer to it is kept.
clear_error(m) == CASE m = "none" -> "none" [] m = "set" -> "freed" [] OTHER -> "freed twice"
is_error(m) == m # "none"

\* The message is a copy of what set_error is given.  Memory may have run out for the
\* copy as well: then the pointer is NULL, and for is_error there was no error.
Reported == message' = "set" /\ UNCHANGED unreported
Unreported ==
    /\ unreported < MaxUnreported
    /\ unreported' = unreported + 1
    /\ message' = "none"

Goto(label) == pc' = label /\ UNCHANGED status
Succeeds == message' = clear_error(message) /\ UNCHANGED unreported
\* After an error par goes to parcleanup if is_error says so, and in two places anyway.
Fails == Goto("cleanup") /\ Reported
FailsAnyway == Goto("cleanup") /\ (Reported \/ Unreported)
Crashes == pc' = "exited" /\ status' = "crashed"

Variables == {"width", "prefix", "suffix", "hang", "last", "min"}

Init ==
    /\ given \in Cases
    /\ pc = "parinit"
    /\ env = given.env /\ args = given.args /\ stdin = given.text
    /\ settings = [x \in Variables |-> Unset]
    /\ cbuf = <<>> /\ blank = TRUE /\ pbuf = <<>> /\ nullat = Unset /\ inlines = <<>>
    /\ stdout = <<>>
    /\ message = "none" /\ unreported = 0
    /\ held = {"errmsg"}
    /\ status = "runs"

---------------------------------------------------------------------------
(* Options. *)

strtoudec(n) == n \in 0..9999
Variable == [w |-> "width", p |-> "prefix", s |-> "suffix", h |-> "hang", l |-> "last", m |-> "min"]

\* A word of PARINIT is a number, with a letter before it or without.
OfNumber(n) == IF n <= 8 THEN "prefix" ELSE "width"
Accepted(word) ==
    CASE word.letter = "version" -> FALSE
      [] word.letter = "" -> strtoudec(word.number)
      [] word.letter \in {"w", "p", "s"} -> strtoudec(word.number)
      [] word.letter = "h" -> word.number = NoNumber \/ strtoudec(word.number)
      [] OTHER -> word.number = NoNumber \/ word.number \in 0..1
parseopt(word) ==
    LET n == IF word.number = NoNumber THEN 1 ELSE word.number
    IN  CASE word.letter = "" -> [settings EXCEPT ![OfNumber(n)] = n]
          [] word.letter \in DOMAIN Variable -> [settings EXCEPT ![Variable[word.letter]] = n]
          [] OTHER -> settings

\* A word that is refused is passed over when there is no memory for the message; par
\* crashes if there is none for the text of it either.
Refuse ==
    \/ Fails /\ UNCHANGED env
    \/ Unreported /\ env' = Tail(env) /\ UNCHANGED <<pc, status>>
    \/ Crashes /\ UNCHANGED <<env, errors>>

ReadParinit ==
    /\ pc = "parinit" /\ env # <<>>
    /\ \/ /\ "picopy" \notin held
          /\ held' = held \cup {"picopy"}
          /\ UNCHANGED <<env, settings, errors, pc, status>>
       \/ /\ "picopy" \notin held
          /\ FailsAnyway /\ UNCHANGED <<env, settings, held>>
       \/ /\ "picopy" \in held /\ ~Accepted(Head(env))
          /\ Refuse /\ UNCHANGED <<settings, held>>
       \/ /\ "picopy" \in held /\ Accepted(Head(env))
          /\ settings' = parseopt(Head(env))
          /\ env' = Tail(env)
          /\ Succeeds /\ UNCHANGED <<held, pc, status>>
    /\ UNCHANGED <<given, args, stdin, paragraph, stdout>>

EndOfParinit ==
    /\ pc = "parinit" /\ env = <<>>
    /\ held' = held \ {"picopy"}
    /\ Goto("getopt")
    /\ UNCHANGED <<given, front, stdin, paragraph, stdout, errors>>

IsOption(arg) == arg.letter # "operand"
Options == {i \in DOMAIN args : IsOption(args[i])}

Set(arg) ==
    CASE arg.letter \in {"w", "p", "s"} -> [settings EXCEPT ![Variable[arg.letter]] = arg.number]
      [] arg.letter = "h" -> [settings EXCEPT !.hang = IF arg.number = NoNumber THEN 1 ELSE arg.number]
      [] arg.letter \in {"l", "L"} -> [settings EXCEPT !.last = 1]
      [] arg.letter \in {"m", "M"} -> [settings EXCEPT !.min = 1]
      [] arg.letter = "K" -> [settings EXCEPT !.last = 0]
      [] arg.letter = "N" -> [settings EXCEPT !.min = 0]

\* getopt_long returns the options first, wherever they are.  The texts of the message
\* and of the version need memory that may have run out when par was started.
getopt ==
    /\ pc = "getopt" /\ Options # {}
    /\ LET arg == args[Min(Options)]
       IN  \/ /\ arg.number = 0
              /\ FailsAnyway /\ UNCHANGED <<args, settings, stdout>>
           \/ /\ arg.number = 0 \/ arg.letter = "v"
              /\ Crashes /\ UNCHANGED <<args, settings, stdout, errors>>
           \/ /\ arg.letter = "v"
              /\ stdout' = Append(stdout, [is |-> "version"])
              /\ Goto("cleanup") /\ UNCHANGED <<args, settings, errors>>
           \/ /\ arg.letter = "?"
              /\ Goto("cleanup") /\ UNCHANGED <<args, settings, stdout, errors>>
           \/ /\ arg.number # 0 /\ arg.letter \notin {"v", "?"}
              /\ settings' = Set(arg)
              /\ args' = RemoveAt(args, Min(Options))
              /\ UNCHANGED <<pc, status, stdout, errors>>
    /\ UNCHANGED <<given, env, stdin, paragraph, held>>

\* With an operand every string of the command line, the options first, is taken for
\* a number; one that begins with a minus sign or a letter is 0.
Strings ==
    LET argv == given.args
        options == {i \in DOMAIN argv : IsOption(argv[i])}
        operands == DOMAIN argv \ options
    IN  {[at |-> 2 * i, number |-> 0] : i \in options}
        \cup {[at |-> 2 * i + 1, number |-> argv[i].number] : i \in {j \in options : argv[j].apart}}
        \cup {[at |-> 2 * (Len(argv) + i), number |-> argv[i].number] : i \in operands}

\* Each sets what such a number sets, and the last one stays.
AsOperands(x) ==
    LET setters == {n \in Strings : OfNumber(n.number) = x}
    IN  IF setters = {} THEN settings[x]
        ELSE (CHOOSE n \in setters : \A k \in setters : k.at <= n.at).number

ReadOperands ==
    /\ pc = "getopt" /\ Options = {}
    /\ settings' = IF args = <<>> THEN settings ELSE [x \in Variables |-> AsOperands(x)]
    /\ Goto("skip")
    /\ UNCHANGED <<given, env, args, stdin, paragraph, stdout, errors, held>>

---------------------------------------------------------------------------
(* Paragraphs. *)

EOF == "EOF"
\* The next character; it is read by what takes it from stdin.
getchar == IF stdin = <<>> THEN EOF ELSE Head(stdin)
AtEndOfLine == getchar \in {EOF, "\n"}

EndOfInput ==
    /\ pc = "skip" /\ getchar = EOF
    /\ Goto("cleanup")
    /\ UNCHANGED <<given, front, stdin, paragraph, stdout, errors, held>>

CopyNewline ==
    /\ pc = "skip" /\ getchar = "\n"
    /\ stdout' = Append(stdout, [is |-> "newline"])
    /\ stdin' = Tail(stdin)
    /\ UNCHANGED <<given, pc, front, paragraph, errors, held, status>>

\* Any other character is put back for readlines.
BeginLines ==
    /\ pc = "skip" /\ ~AtEndOfLine
    /\ Goto("lines") /\ Succeeds
    /\ held' = held \cup {"cbuf", "pbuf"}
    /\ cbuf' = <<>> /\ blank' = TRUE /\ pbuf' = <<>> /\ nullat' = Unset
    /\ UNCHANGED <<given, front, stdin, inlines, stdout>>

\* A character is stored, or lost when memory ran out and there is no message.  (The
\* buffers take memory for many items at a time; here any item may need it.)
ReadCharacter ==
    /\ pc = "lines" /\ ~AtEndOfLine
    /\ \/ cbuf' = Append(cbuf, Head(stdin)) /\ Succeeds
       \/ cbuf' = cbuf /\ Unreported
    /\ blank' = (blank /\ isspace(Head(stdin)))
    /\ stdin' = Tail(stdin)
    /\ UNCHANGED <<given, pc, front, pbuf, nullat, inlines, stdout, held, status>>

\* So is a line.  Without memory for its copy a NULL pointer is stored, without memory
\* for the pointer nothing, and the copy, if there was one, is never freed.
Store ==
    \/ /\ pbuf' = Append(pbuf, cbuf)
       /\ Succeeds /\ UNCHANGED <<nullat, held>>
    \/ /\ nullat' = IF nullat = Unset THEN Len(pbuf) ELSE nullat
       /\ Unreported /\ UNCHANGED <<pbuf, held>>
    \/ /\ held' \in {held, held \cup {"line"}}
       /\ Unreported /\ UNCHANGED <<pbuf, nullat>>

\* The newline of the last line may be missing.
ReadLine ==
    /\ pc = "lines" /\ AtEndOfLine /\ ~blank
    /\ Store
    /\ cbuf' = <<>> /\ blank' = TRUE
    /\ stdin' = IF stdin = <<>> THEN <<>> ELSE Tail(stdin)
    /\ UNCHANGED <<given, pc, front, inlines, stdout, status>>

\* A NULL pointer ends the array of the lines, those behind it are never freed.
Returned == IF nullat = Unset THEN pbuf ELSE SubSeq(pbuf, 1, nullat)
Behind == IF Returned = pbuf THEN {} ELSE {"line"}

\* Mutant: the newline of the blank line is not put back.
SwallowBlankLine ==
    /\ pc = "lines" /\ AtEndOfLine /\ blank
    /\ inlines' = Returned
    /\ held' = (held \ {"cbuf", "pbuf"}) \cup {"inlines"} \cup Behind
    /\ stdin' = IF stdin = <<>> THEN <<>> ELSE Tail(stdin)
    /\ Goto("format") /\ Succeeds
    /\ UNCHANGED <<given, front, reading, stdout>>

\* A blank line or the end of the input ends the paragraph; the newline of the
\* blank line is put back, spaces before it are lost.
EndLines ==
    /\ pc = "lines" /\ AtEndOfLine /\ blank
    /\ inlines' = Returned
    /\ held' = (held \ {"cbuf", "pbuf"}) \cup {"inlines"} \cup Behind
    /\ Goto("format") /\ Succeeds
    /\ UNCHANGED <<given, front, stdin, reading, stdout>>

\* Memory runs out in newbuffer, additem or copyitems: the lines are freed, but
\* not one that was copied and could not be added.
LinesFail ==
    /\ \/ /\ pc = "skip" /\ ~AtEndOfLine
          /\ UNCHANGED held
       \/ /\ pc = "lines"
          /\ held' = held \ {"cbuf", "pbuf"}
       \/ /\ pc = "lines" /\ AtEndOfLine /\ ~blank
          /\ held' = (held \ {"cbuf", "pbuf"}) \cup {"line"}
    /\ Fails
    /\ UNCHANGED <<given, front, stdin, paragraph, stdout>>

\* Without a message the pointer to a buffer or to the array is NULL, or a line or the
\* array is without its end, and what par does when it goes on is undefined.
LinesGoWrong ==
    /\ \/ pc = "skip" /\ ~AtEndOfLine
       \/ pc = "lines" /\ AtEndOfLine
    /\ Crashes /\ Unreported
    /\ UNCHANGED <<given, front, stdin, paragraph, stdout, held>>

\* How many characters a line has in common with the beginning of another, and
\* what all lines have in common with the end of the first.
InCommon(a, b) ==
    CHOOSE n \in 0..Len(a) : /\ n <= Len(b) /\ SubSeq(a, 1, n) = SubSeq(b, 1, n)
                             /\ n < Len(a) /\ n < Len(b) => a[n + 1] # b[n + 1]
Beginning(lines) == Min({InCommon(lines[1], lines[i]) : i \in DOMAIN lines})
Reversed(lines) == [i \in DOMAIN lines |-> Reverse(lines[i])]
Ending(lines) == Reverse(SubSeq(Reverse(lines[1]), 1, Beginning(Reversed(lines))))

\* A suffix starts with at most one white character.
StripWhite(end) ==
    LET strips == {n \in 0..Len(end) : \A i \in 1..n : i < Len(end) /\ isspace(end[i]) /\ isspace(end[i + 1])}
    IN  Len(end) - (CHOOSE n \in strips : \A k \in strips : k <= n)

Or(value, default) == IF value < 0 THEN default ELSE value
\* Mutant: the first lines count for the prefix.
DefaultsWithHang(lines, s) ==
    LET hang == Or(s.hang, 0)
        last == Or(s.last, 0)
        bodies == lines
    IN  [width |-> Or(s.width, 72), hang |-> hang, last |-> last, min |-> Or(s.min, last),
         prefix |-> Or(s.prefix, IF Len(lines) <= hang + 1 THEN 0
                                 ELSE Beginning(bodies)),
         suffix |-> Or(s.suffix, IF Len(lines) <= 1 THEN 0
                                 ELSE StripWhite(Ending(lines)))]

setdefaults(lines, s) ==
    LET hang == Or(s.hang, 0)
        last == Or(s.last, 0)
        bodies == SubSeq(lines, hang + 1, Len(lines))
    IN  [width |-> Or(s.width, 72), hang |-> hang, last |-> last, min |-> Or(s.min, last),
         prefix |-> Or(s.prefix, IF Len(lines) <= hang + 1 THEN 0
                                 ELSE Beginning(bodies)),
         suffix |-> Or(s.suffix, IF Len(lines) <= 1 THEN 0
                                 ELSE StripWhite(Ending(lines)))]

\* reformat, with the values of this paragraph.  It fails on a line that is too
\* short, and otherwise when memory runs out: as it must when there is no room for
\* a word, and a word.  Then it is a crash, if outlines was not yet assigned; without
\* a message, unless it is a line of the result that is lost, and never freed.
TooShort(opt) == \E i \in DOMAIN inlines : Len(inlines[i]) < opt.prefix + opt.suffix
Remainder(line, opt) == SubSeq(line, opt.prefix + 1, Len(line) - opt.suffix)
Endless(opt) ==
    /\ opt.width <= opt.prefix + opt.suffix
    /\ \E i \in DOMAIN inlines : ~Blank(Remainder(inlines[i], opt))
Formatted(opt) == [is |-> "paragraph", lines |-> inlines, opt |-> opt]

\* Mutant: the paragraph's values are kept for the next.
FormatAndKeep(opt) ==
    /\ ~TooShort(opt) /\ ~Endless(opt)
    /\ stdout' = Append(stdout, Formatted(opt))
    /\ held' = held \ {"inlines"} /\ Succeeds
    /\ settings' = opt
    /\ Goto("skip")

Format(opt) ==
    /\ ~TooShort(opt) /\ ~Endless(opt)
    /\ stdout' = Append(stdout, Formatted(opt))
    /\ \/ held' = held \ {"inlines"} /\ Succeeds
       \/ held' = (held \ {"inlines"}) \cup {"line"} /\ Unreported
    /\ Goto("skip") /\ UNCHANGED settings

FormatParagraph ==
    /\ pc = "format" /\ inlines # <<>>
    /\ \/ Fails /\ UNCHANGED <<settings, stdout, held>>
       \/ Crashes /\ UNCHANGED <<settings, stdout, held, errors>>
       \/ \E opt \in {setdefaults(inlines, settings)} : Format(opt)
    /\ UNCHANGED <<given, env, args, stdin, paragraph>>

\* Mutant: the array of no lines is not freed.
ForgetNoLines ==
    /\ pc = "format" /\ inlines = <<>>
    /\ held' = (held \ {"inlines"}) \cup {"line"}
    /\ Goto("skip")
    /\ UNCHANGED <<given, front, stdin, paragraph, stdout, errors>>

NoLines ==
    /\ pc = "format" /\ inlines = <<>>
    /\ held' = held \ {"inlines"}
    /\ Goto("skip")
    /\ UNCHANGED <<given, front, stdin, paragraph, stdout, errors>>

parcleanup ==
    /\ pc = "cleanup"
    /\ held' = held \ {"picopy", "inlines", "errmsg"}
    /\ status' = IF is_error(message) THEN "failure" ELSE "success"
    /\ message' = IF is_error(message) THEN clear_error(message) ELSE message
    /\ pc' = "exited"
    /\ UNCHANGED <<given, front, stdin, paragraph, stdout, unreported>>

Ended == pc = "exited" /\ UNCHANGED vars

Next ==
    \/ ReadParinit \/ EndOfParinit \/ getopt \/ ReadOperands
    \/ EndOfInput \/ CopyNewline \/ BeginLines \/ ReadCharacter \/ ReadLine \/ EndLines
    \/ LinesFail \/ LinesGoWrong
    \/ FormatParagraph \/ NoLines
    \/ parcleanup
    \/ Ended

\* par is one process, and goes on as long as it can.
Spec == Init /\ [][Next]_vars /\ WF_vars(Next)

---------------------------------------------------------------------------
(* Properties. *)

\* The lines of a text; the newline of the last may be missing.
TextLines(text) ==
    LET finished == IF text = <<>> \/ Last(text) = "\n" THEN text ELSE Append(text, "\n")
        ends == SelectSeq([i \in DOMAIN finished |-> i], LAMBDA i : finished[i] = "\n")
    IN  [k \in DOMAIN ends |-> SubSeq(text, IF k = 1 THEN 1 ELSE ends[k - 1] + 1, ends[k] - 1)]

\* Each blank line, as no lines, and each maximal sequence of others.
Parts(lines) ==
    LET starts == SelectSeq([i \in DOMAIN lines |-> i],
                            LAMBDA i : Blank(lines[i]) \/ i = 1 \/ Blank(lines[i - 1]))
        End(k) == IF k = Len(starts) THEN Len(lines) ELSE starts[k + 1] - 1
    IN  [k \in DOMAIN starts |-> IF Blank(lines[starts[k]]) THEN <<>> ELSE SubSeq(lines, starts[k], End(k))]

\* What is documented of an unfinished line (par.doc:210) is not so of a blank one:
\* nothing is printed for it.
Finished(text) ==
    LET lines == TextLines(text)
    IN  IF text # <<>> /\ Last(text) # "\n" /\ Blank(Last(lines)) THEN Front(lines) ELSE lines

Printed == [i \in DOMAIN stdout |-> IF stdout[i].is = "newline" THEN <<>> ELSE stdout[i].lines]

\* Every paragraph, that is every maximal sequence of lines that are not blank, is
\* formatted, and every blank line printed as an empty one, all in the order of the
\* input; of these what comes before an error (par.doc:216-223, 305; readlines and
\* the loop of original_main, between which a newline is put back).  An error without
\* a message is not noticed: after one, characters, lines or all of the rest may be
\* missing though par succeeds.  And par ends, in any case.
PrintsEveryPart ==
    /\ [](unreported = 0 /\ stdout # <<[is |-> "version"]>> =>
              /\ IsPrefix(Printed, Parts(Finished(given.text)))
              /\ status = "success" /\ Options = {} => Printed = Parts(Finished(given.text)))
    /\ <>(pc = "exited")

HaveInCommon(lines, n) ==
    \A i \in DOMAIN lines : Len(lines[i]) >= n /\ SubSeq(lines[i], 1, n) = SubSeq(lines[1], 1, n)
LongestInCommon(lines, n) == HaveInCommon(lines, n) /\ ~HaveInCommon(lines, n + 1)

\* The suffix is n characters of the last m, which are the longest common suffix; the
\* others are white, and it begins with white only if none of it follows.
SuffixOf(lines, n) ==
    \E m \in 0..Len(lines[1]) :
        LET end == SubSeq(lines[1], Len(lines[1]) - m + 1, Len(lines[1]))
        IN  /\ LongestInCommon(Reversed(lines), m)
            /\ n <= m /\ Blank(SubSeq(end, 1, m - n))
            /\ n < m => isspace(end[m - n + 1])
            /\ n > 1 => ~(isspace(end[m - n + 1]) /\ isspace(end[m - n + 2]))

\* The values a paragraph is formatted with are those that were set, and otherwise
\* those documented, of this paragraph alone (setdefaults, par.doc:142-181).
DefaultsAsDocumented ==
    \A i \in DOMAIN stdout : stdout[i].is = "paragraph" =>
        LET lines == stdout[i].lines
            opt == stdout[i].opt
            bodies == SubSeq(lines, opt.hang + 1, Len(lines))
        IN  /\ \A x \in Variables : settings[x] >= 0 => opt[x] = settings[x]
            /\ settings.width < 0 => opt.width = 72
            /\ settings.min < 0 => opt.min = opt.last
            /\ settings.prefix < 0 =>
                   IF Len(lines) <= opt.hang + 1 THEN opt.prefix = 0 ELSE LongestInCommon(bodies, opt.prefix)
            /\ settings.suffix < 0 =>
                   IF Len(lines) <= 1 THEN opt.suffix = 0 ELSE SuffixOf(lines, opt.suffix)

\* What a word sets, as the variable and the value.
WordSets(word) ==
    CASE word.letter \in {"", "operand"} -> <<OfNumber(word.number), word.number>>
      [] word.letter \in {"w", "p", "s"} -> <<Variable[word.letter], word.number>>
      [] word.letter \in {"h", "l", "m"} -> <<Variable[word.letter], IF word.number = NoNumber THEN 1 ELSE word.number>>
      [] word.letter = "L" -> <<"last", 1>>
      [] word.letter = "M" -> <<"min", 1>>
      [] word.letter = "K" -> <<"last", 0>>
      [] word.letter = "N" -> <<"min", 0>>
      [] OTHER -> <<"nothing", 0>>
LastValue(x) ==
    LET words == given.env \o given.args
        setters == {i \in DOMAIN words : WordSets(words[i])[1] = x}
    IN  IF setters = {} THEN Unset ELSE WordSets(words[CHOOSE i \in setters : \A j \in setters : j <= i])[2]
OptionsRead == pc \in {"skip", "lines", "format"}
AsSetLast == \A x \in Variables : settings[x] = LastValue(x)

\* Without operands every variable has the value it was given last, in PARINIT or
\* after it on the command line (parseopt and the loop over getopt_long), unless a word
\* was refused for which there was no memory for a message.
OptionsSetLast ==
    OptionsRead /\ unreported = 0 /\ (\A i \in DOMAIN given.args : IsOption(given.args[i])) => AsSetLast

\* At its end par has freed what it allocated, once, but for lines that could not be
\* stored in their list, or were stored behind a NULL pointer, for lack of memory
\* (readlines, reformat, parcleanup); when it succeeds and no error went without a
\* message, it has freed all.  The pointer to the message is kept and is_error goes by
\* it (errmsg.c), but par ends after the first error it knows of.
AllFreed ==
    /\ message # "freed twice"
    /\ status \in {"success", "failure"} => held \subseteq {"line"}
    /\ status = "success" /\ unreported = 0 => held = {}
=============================================================================

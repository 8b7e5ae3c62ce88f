-------------------------------- MODULE Argo --------------------------------
(***************************************************************************)
(* argo (hw1/src): argo.c reads JSON into an array of values linked into   *)
(* circular lists, each behind a sentinel of no type, and writes it in     *)
(* canonical form; validargs.c and main.c choose what is done.             *)
(*                                                                         *)
(* calls is the stack of the recursive functions that are active.  The     *)
(* program is run once on an input and once more on what it wrote.         *)
(***************************************************************************)
EXTENDS ArgoText, FiniteSets

CONSTANTS
    Inputs,     \* records: a text, the value it denotes, and whether it is
                \* well-formed JSON without the forms argo is known to misread
    Argvs,      \* argument lists, without the name of the program
    NUM_ARGO_VALUES

VARIABLES
    input, argv,
    stdin,                      \* what is still to be read
    argo_value_storage, argo_next_value,
    calls,                      \* the active calls of the reader or the writer
    level, stdout,
    pc,                         \* "main", "read", "write", "exit", or "overrun"
                                \* when a slot behind the array was asked for
    options,                    \* global_options and indent_level
    result,                     \* what argo_read_value returned
    earlier,                    \* value, strings and output of the run before this one
    values,                     \* how many values argo_read_value itself has met
    turns                       \* how many steps this run took

store == <<argo_value_storage, argo_next_value>>
chosen == <<input, argv, options, earlier>>
vars == <<store, chosen, stdin, calls, level, stdout, pc, result, values, turns>>

Untyped == "none"
Value == [type |-> Untyped, name |-> <<>>, string |-> <<>>,
          number |-> [isInt |-> FALSE, sign |-> 1, value |-> Decimal(<<>>, 0)],
          basic |-> <<>>, list |-> 0, next |-> 0, prev |-> 0]
Slots == 0..(NUM_ARGO_VALUES - 1)
Nothing == [ran |-> FALSE, value |-> <<>>, strings |-> {}, stdout |-> <<>>]

ASSUME StorageAssumption == NUM_ARGO_VALUES \in Nat \ {0}
ASSUME InputAssumption == \A i \in Inputs : i.text \in Seq(0..255)
ASSUME ArgvAssumption ==
    \A args \in Argvs :
        /\ DOMAIN args = 1..Len(args)
        /\ \A i \in DOMAIN args : "number" \in DOMAIN args[i] => args[i].number \in Nat

Init ==
    /\ input \in Inputs /\ argv \in Argvs
    /\ stdin = input.text
    /\ argo_value_storage = [i \in Slots |-> Value]
    /\ argo_next_value = 0
    /\ calls = <<>>
    /\ level = 0
    /\ stdout = <<>>
    /\ pc = "main"
    /\ options = [do |-> "none", indent |-> 0]
    /\ result = "none"
    /\ earlier = Nothing
    /\ values = 0
    /\ turns = 0

---------------------------------------------------------------------------
(* validargs.c and main.c.                                                 *)

\* Of a numeral the model keeps the number; other arguments are what they are.
Numeral(arg) == "number" \in DOMAIN arg
Is(arg, text) == ~Numeral(arg) /\ arg.text = text

Rejected == [do |-> "usage", indent |-> 0]

validargs(args) ==
    LET n == Len(args)
        given(i, text) == n >= i /\ Is(args[i], text)
    IN  CASE n \notin 1..3 -> Rejected
          [] n \in 1..3 /\ given(1, "-h") -> [do |-> "help", indent |-> 0]
          [] n = 1 /\ given(1, "-v") -> [do |-> "validate", indent |-> 0]
          [] n = 1 /\ given(1, "-c") -> [do |-> "canonicalize", indent |-> 0]
          [] n = 2 /\ given(1, "-c") /\ given(2, "-p") -> [do |-> "pretty", indent |-> 4]
          [] n = 3 /\ given(1, "-c") /\ given(2, "-p") /\ Numeral(args[3])
                /\ args[3].number <= 127 -> [do |-> "pretty", indent |-> args[3].number]
          [] OTHER -> Rejected

ValueCall == [fn |-> "value", sent |-> 0, last |-> 0, c |-> Fetch(stdin), at |-> "loop", from |-> 1]

main ==
    /\ pc = "main"
    /\ options' = validargs(argv)
    /\ IF options'.do \in {"usage", "help"}
       THEN pc' = "exit" /\ UNCHANGED <<stdin, calls>>
       ELSE pc' = "read" /\ stdin' = Rest(stdin) /\ calls' = <<ValueCall>>
    /\ turns' = turns + 1
    /\ UNCHANGED <<store, input, argv, earlier, level, stdout, result, values>>

---------------------------------------------------------------------------
(* The reader.                                                             *)

\* Mutant: only the way forward is linked.
LinkForward(st, a, b) == [st EXCEPT ![b].next = a]

link(st, a, b) == [st EXCEPT ![a].prev = b, ![b].next = a]

Call == Last(calls)
Reading(fns, at) == pc = "read" /\ Call.fn \in fns /\ Call.at = at
Replaced(call) == [calls EXCEPT ![Len(calls)] = call]
CloserOf(fn) == IF fn = "array" THEN ARGO_RBRACK ELSE ARGO_RBRACE

Begins(type, c) ==
    CASE type = "array" -> c = ARGO_LBRACK
      [] type = "object" -> c = ARGO_LBRACE
      [] type = "string" -> c = ARGO_QUOTE
      [] type = "number" -> argo_is_digit(c) \/ c = ARGO_MINUS
      [] type = "basic" -> c \in {ARGO_N, ARGO_T, ARGO_F}

\* The tests of a loop, in their order; 6 when none from `from` on succeeds.
Order(fn) == IF fn = "array" THEN <<"array", "object", "string", "number", "basic">>
             ELSE <<"object", "array", "string", "number", "basic">>
Chosen(fn, from, c) ==
    LET hits == {k \in from..5 : Begins(Order(fn)[k], c)}
    IN  IF hits = {} THEN 6 ELSE CHOOSE k \in hits : \A j \in hits : k <= j
Choice == Chosen(Call.fn, Call.from, Call.c)
Type == Order(Call.fn)[Choice]
Testing(fns) == \/ Reading(fns, "test")
                \/ Reading(fns \cap {"value"}, "loop") /\ Call.c # EOF

\* The read fails: every caller fails in turn, and main exits.
Fails ==
    /\ result' = "null"
    /\ pc' = "exit"
    /\ calls' = <<>>

\* The call returns 0 and its caller goes on where it was.
ReturnsWith(st) ==
    /\ argo_value_storage' = st
    /\ calls' = Front(calls)

GoesOn == UNCHANGED <<pc, result>>
Turned == turns' = turns + 1
Meets == UNCHANGED <<chosen, level, stdout>> /\ Turned
ReaderKeeps == Meets /\ UNCHANGED values

\* No reader compares the index with the bound: what happens behind the array is
\* undefined, and the model ends.
Overruns ==
    /\ pc' = "overrun"
    /\ UNCHANGED <<store, stdin, calls, result>>

\* Mutant: the slot behind the sentinel stays unused.
OpenWithGap ==
    /\ Reading({"array", "object"}, "first")
    /\ LET c == Fetch(stdin)
           sent == argo_next_value + 1
           closes == c = CloserOf(Call.fn)
           top == IF closes THEN sent ELSE sent + 2
       IN  IF top \notin Slots THEN Overruns
           ELSE /\ stdin' = Rest(stdin)
                /\ argo_next_value' = top
                /\ IF closes THEN ReturnsWith(link(argo_value_storage, sent, sent))
                   ELSE /\ argo_value_storage' = link(argo_value_storage, top, sent)
                        /\ calls' = Replaced([Call EXCEPT !.last = top, !.c = c, !.at = "loop"])
                /\ GoesOn
    /\ ReaderKeeps

\* argo_read_array and argo_read_object, up to their loops.
Open ==
    /\ Reading({"array", "object"}, "first")
    /\ LET c == Fetch(stdin)
           sent == argo_next_value + 1
           closes == c = CloserOf(Call.fn)
           top == IF closes THEN sent ELSE sent + 1
           typed == [argo_value_storage EXCEPT ![sent].type = Untyped]
       IN  IF top \notin Slots THEN Overruns
           ELSE /\ stdin' = Rest(stdin)
                /\ argo_next_value' = top
                /\ IF closes THEN ReturnsWith(link(typed, sent, sent))
                   ELSE /\ argo_value_storage' = link(typed, top, sent)
                        /\ calls' = Replaced([Call EXCEPT !.last = top, !.c = c, !.at = "loop"])
                /\ GoesOn
    /\ ReaderKeeps

\* The loops end at the end of the input, and at the closing bracket.
EndOfInput ==
    /\ Reading({"array", "object"}, "loop") /\ Call.c = EOF
    /\ Fails
    /\ UNCHANGED <<store, stdin>> /\ ReaderKeeps

Close ==
    /\ Reading({"array", "object"}, "loop") /\ Call.c = CloserOf(Call.fn)
    /\ ReturnsWith(link(argo_value_storage, Call.sent, argo_next_value))
    /\ UNCHANGED <<stdin, argo_next_value>> /\ GoesOn /\ ReaderKeeps

\* Another character is compared with the beginnings of values.
Turn ==
    /\ Reading({"array"}, "loop") /\ Call.c \notin {EOF, ARGO_RBRACK}
    /\ calls' = Replaced([Call EXCEPT !.last = argo_next_value, !.at = "test", !.from = 1])
    /\ UNCHANGED <<store, stdin>> /\ GoesOn /\ ReaderKeeps

\* In an object only a name is waited for, and everything else skipped.
Skip ==
    /\ Reading({"object"}, "loop") /\ Call.c \notin {EOF, ARGO_RBRACE, ARGO_QUOTE}
    /\ calls' = Replaced([Call EXCEPT !.last = argo_next_value, !.c = Fetch(stdin)])
    /\ stdin' = Rest(stdin)
    /\ UNCHANGED store /\ GoesOn /\ ReaderKeeps

ReadName ==
    /\ Reading({"object"}, "loop") /\ Call.c = ARGO_QUOTE
    /\ LET read == argo_read_string(argo_value_storage[argo_next_value].name, stdin)
       IN  IF read.ok
           THEN /\ argo_value_storage' = [argo_value_storage EXCEPT ![argo_next_value].name = read.value]
                /\ calls' = Replaced([Call EXCEPT !.last = argo_next_value, !.c = Fetch(read.in),
                                                  !.at = "test", !.from = 1])
                /\ stdin' = Rest(read.in)
                /\ GoesOn
           ELSE Fails /\ UNCHANGED <<argo_value_storage, stdin>>
    /\ UNCHANGED argo_next_value /\ ReaderKeeps

\* A value that is a container: its sentinel is the next slot.
Nest ==
    /\ Testing({"value", "array", "object"}) /\ Choice <= 5 /\ Type \in {"array", "object"}
    /\ argo_value_storage' = [argo_value_storage EXCEPT ![argo_next_value].type = Type,
                                                        ![argo_next_value].list = argo_next_value + 1]
    /\ calls' = Append(Replaced([Call EXCEPT !.at = "nested", !.from = Choice]),
                       [fn |-> Type, sent |-> argo_next_value + 1, last |-> 0, c |-> EOF,
                        at |-> "first", from |-> 1])
    /\ values' = IF Call.fn = "value" THEN values + 1 ELSE values
    /\ UNCHANGED <<argo_next_value, stdin>> /\ GoesOn /\ Meets

\* What the readers of strings, numbers and basic values leave in slot v.
Scalar(type, v) ==
    LET given == Unget(Call.c, stdin)
    IN  CASE type = "string" ->
                LET read == argo_read_string(v.string, stdin)
                IN  [read EXCEPT !.value = [v EXCEPT !.type = type, !.string = read.value]]
          [] type = "number" ->
                LET read == argo_read_number(given)
                IN  [read EXCEPT !.value = [v EXCEPT !.type = type, !.number = read.value]]
          [] type = "basic" ->
                LET read == argo_read_basic(given)
                IN  [read EXCEPT !.value = [v EXCEPT !.type = type, !.basic = read.value]]

\* Behind a value: the closing bracket ends the call, anything else is left for
\* the loop, which a new slot is ready for.  Objects skip white space behind a
\* scalar, and leave their tests; arrays go on with those that follow `test`.
Behind(st, in, previous, spaces, test) ==
    LET ahead == IF Call.fn = "object" /\ spaces
                 THEN SubSeq(in, 1 + RunLength(in, argo_is_whitespace), Len(in)) ELSE in
        c == Fetch(ahead)
        left == Peeked(ahead)
        top == argo_next_value + 1
    IN  CASE c = CloserOf(Call.fn) ->
                /\ ReturnsWith(link(st, Call.sent, Call.last))
                /\ stdin' = Rest(ahead)
                /\ UNCHANGED argo_next_value /\ GoesOn
          [] c # CloserOf(Call.fn) /\ top \notin Slots -> Overruns
          [] OTHER ->
                /\ argo_next_value' = top
                /\ argo_value_storage' = link(st, top, previous)
                /\ IF Call.fn = "array"
                   THEN /\ calls' = Replaced([Call EXCEPT !.c = c, !.at = "test", !.from = test + 1])
                        /\ stdin' = left
                   ELSE /\ calls' = Replaced([Call EXCEPT !.c = Fetch(left), !.at = "loop"])
                        /\ stdin' = Rest(left)
                /\ GoesOn

ReadScalar ==
    /\ Testing({"array", "object"}) /\ Choice <= 5 /\ Type \in {"string", "number", "basic"}
    /\ LET read == Scalar(Type, argo_value_storage[argo_next_value])
           st == [argo_value_storage EXCEPT ![argo_next_value] = read.value]
       IN  IF read.ok THEN Behind(st, read.in, argo_next_value, TRUE, Choice)
           ELSE Fails /\ UNCHANGED <<store, stdin>>
    /\ ReaderKeeps

BackFromNested ==
    /\ Reading({"array", "object"}, "nested")
    /\ Behind(argo_value_storage, stdin, Call.last, FALSE, Call.from)
    /\ ReaderKeeps

\* No test succeeds: the character is skipped.
NextCharacter ==
    /\ \/ Testing({"value", "array", "object"}) /\ Choice = 6
       \/ Reading({"value"}, "nested")
    /\ LET stays == Call.fn = "object" /\ Call.c # EOF
       IN  calls' = Replaced([Call EXCEPT !.c = Fetch(stdin), !.from = 1,
                                          !.at = IF stays THEN "test" ELSE "loop"])
    /\ stdin' = Rest(stdin)
    /\ UNCHANGED store /\ GoesOn /\ ReaderKeeps

\* argo_read_value: a value goes into the slot that is next, which only a
\* container moves on.  A basic value needs white space behind it.  (What a second
\* value finds in its slot is a C union: here it finds the string, number or basic
\* value that was last read there, never the bytes of another.)
ReadTop ==
    /\ Testing({"value"}) /\ Choice <= 5 /\ Type \in {"string", "number", "basic"}
    /\ LET read == Scalar(Type, argo_value_storage[argo_next_value])
           ahead == IF Type = "basic" THEN Rest(read.in) ELSE read.in
       IN  IF read.ok /\ (Type = "basic" => argo_is_whitespace(Fetch(read.in)))
           THEN /\ argo_value_storage' = [argo_value_storage EXCEPT ![argo_next_value] = read.value]
                /\ calls' = Replaced([Call EXCEPT !.c = Fetch(ahead)])
                /\ stdin' = Rest(ahead)
                /\ GoesOn
           ELSE Fails /\ UNCHANGED <<argo_value_storage, stdin>>
    /\ values' = values + 1
    /\ UNCHANGED argo_next_value /\ Meets

---------------------------------------------------------------------------
(* The writer.                                                             *)

Pretty == options.do = "pretty"
indent(n) == IF ~Pretty THEN <<>>
             ELSE <<ARGO_LF>> \o [i \in 1..((n + 1) * options.indent) |-> ARGO_SPACE]
Newline == IF Pretty THEN <<ARGO_LF>> ELSE <<>>
OpenerOf(type) == IF type = "array" THEN <<ARGO_LBRACK>> ELSE <<ARGO_LBRACE>>

Written(v) ==
    CASE v.type = "string" -> argo_write_string(v.string)
      [] v.type = "number" -> argo_write_number(v.number)
      [] v.type = "basic" -> argo_write_basic(v.basic)
      [] OTHER -> <<>>

Writes(text) == stdout' = stdout \o text
WriterKeeps == UNCHANGED <<store, chosen, stdin, result, values>> /\ Turned

WriteCall(v) == [fn |-> v.type, head |-> argo_value_storage[v.list].next]

\* argo_read_value has come to the end of the input; main goes on.
EndRead ==
    /\ Reading({"value"}, "loop") /\ Call.c = EOF
    /\ result' = "storage"
    /\ calls' = <<>>
    /\ pc' = IF options.do = "validate" THEN "exit" ELSE "write"
    /\ UNCHANGED <<store, stdin>> /\ ReaderKeeps

\* argo_write_value.
WriteValue ==
    /\ pc = "write" /\ calls = <<>>
    /\ LET v == argo_value_storage[0]
       IN  IF v.type \in {"array", "object"}
           THEN /\ Writes(OpenerOf(v.type) \o indent(level))
                /\ calls' = <<WriteCall(v)>>
                /\ pc' = pc
           ELSE /\ Writes(Written(v) \o Newline)
                /\ pc' = "exit"
                /\ calls' = calls
    /\ level' = level /\ WriterKeeps

Here == argo_value_storage[Call.head]
Writing(more) == pc = "write" /\ calls # <<>> /\ (Here.type # Untyped) = more

Named == IF Call.fn = "array" THEN <<>>
         ELSE argo_write_string(Here.name) \o <<ARGO_COLON>>
              \o (IF Pretty THEN <<ARGO_SPACE>> ELSE <<>>)

\* What follows an element, at nesting n.
Separator(v, n) ==
    CASE argo_value_storage[v.next].type # Untyped -> <<ARGO_COMMA>> \o indent(n)
      [] argo_value_storage[v.next].type = Untyped /\ n = 0 -> Newline
      [] OTHER -> <<>>

WriteScalar ==
    /\ Writing(TRUE) /\ Here.type \notin {"array", "object"}
    /\ Writes(Named \o Written(Here) \o Separator(Here, level))
    /\ calls' = Replaced([Call EXCEPT !.head = Here.next])
    /\ UNCHANGED <<level, pc>> /\ WriterKeeps


WriteNested ==
    /\ Writing(TRUE) /\ Here.type \in {"array", "object"}
    /\ Writes(Named \o OpenerOf(Here.type) \o indent(level + 1))
    /\ level' = level + 1
    /\ calls' = Append(calls, WriteCall(Here))
    /\ pc' = pc /\ WriterKeeps

\* A container is at its end; the one around it goes on behind it.
WriteClose ==
    /\ Writing(FALSE) /\ Len(calls) > 1
    /\ LET outer == calls[Len(calls) - 1]
           v == argo_value_storage[outer.head]
       IN  /\ Writes(indent(level - 1) \o <<CloserOf(v.type)>> \o Separator(v, level - 1))
           /\ calls' = Append(SubSeq(calls, 1, Len(calls) - 2), [outer EXCEPT !.head = v.next])
    /\ level' = level - 1
    /\ pc' = pc /\ WriterKeeps

WriteEnd ==
    /\ Writing(FALSE) /\ Len(calls) = 1
    /\ Writes(<<CloserOf(Call.fn)>> \o Newline)
    /\ calls' = <<>>
    /\ pc' = "exit"
    /\ level' = level /\ WriterKeeps

---------------------------------------------------------------------------
(* The value in the storage, and the program run again on its output.      *)

\* The value in slot i, and the elements from slot i on to one without a type.
Denoted ==
    LET read[part \in {"value", "elements"}, i \in Slots] ==
            LET v == argo_value_storage[i]
            IN  CASE part = "elements" /\ v.type = Untyped -> <<>>
                  [] part = "elements" /\ v.type # Untyped ->
                        <<[name |-> v.name, value |-> read["value", i]]>> \o read["elements", v.next]
                  [] part = "value" /\ v.type \in {"array", "object"} ->
                        [type |-> v.type, list |-> read["elements", argo_value_storage[v.list].next]]
                  [] part = "value" /\ v.type = "string" -> [type |-> v.type, string |-> v.string]
                  [] part = "value" /\ v.type = "number" -> [type |-> v.type, number |-> v.number]
                  [] part = "value" /\ v.type = "basic" -> [type |-> v.type, basic |-> v.basic]
                  [] OTHER -> [type |-> v.type]
    IN  read
ValueAt(i) == Denoted["value", i]
StringsRead == UNION {{argo_value_storage[i].name, argo_value_storage[i].string} : i \in Slots}

Piped == pc = "exit" /\ result = "storage" /\ earlier = Nothing /\ options.do # "validate"
RunAgain ==
    /\ Piped
    /\ earlier' = [ran |-> TRUE, value |-> ValueAt(0), strings |-> StringsRead, stdout |-> stdout]
    /\ stdin' = stdout
    /\ argo_value_storage' = [i \in Slots |-> Value]
    /\ argo_next_value' = 0
    /\ calls' = <<>>
    /\ level' = 0
    /\ stdout' = <<>>
    /\ pc' = "main"
    /\ result' = "none"
    /\ values' = 0
    /\ turns' = 0
    /\ UNCHANGED <<input, argv, options>>

Reader == \/ Open \/ EndOfInput \/ Close \/ Turn \/ Skip \/ ReadName \/ Nest
          \/ ReadScalar \/ BackFromNested \/ NextCharacter \/ ReadTop \/ EndRead
Writer == WriteValue \/ WriteScalar \/ WriteNested \/ WriteClose \/ WriteEnd
Exited == pc \in {"exit", "overrun"} /\ ~Piped /\ UNCHANGED vars
Next == main \/ Reader \/ Writer \/ RunAgain \/ Exited
Spec == Init /\ [][Next]_vars

---------------------------------------------------------------------------
(* Properties.                                                             *)

Finished == pc = "exit" /\ result = "storage"

\* A well-formed text is read as the value it denotes, and read to its end
\* (argo_read_value and all it calls).
ReadsTheValue ==
    /\ pc = "exit" /\ earlier = Nothing /\ input.plain /\ options.do \notin {"usage", "help"}
    => result = "storage" /\ ValueAt(0) = input.value

\* The lists of a value that was read are circular both ways and pass their
\* sentinel once; only the last element can be without a type (link, and the
\* slot each loop keeps ready).  argo_read_value goes on to the end of the input,
\* and puts a second value over what the first one ends with: nothing is said then.
Lists == {argo_value_storage[i].list : i \in {j \in 0..argo_next_value :
                argo_value_storage[j].type \in {"array", "object"}}}
Around(s) ==
    LET slot[n \in 0..NUM_ARGO_VALUES] ==
            IF n = 0 THEN s ELSE argo_value_storage[slot[n - 1]].next
    IN  slot
Circular(s) ==
    /\ argo_value_storage[s].type = Untyped
    /\ LET slot == Around(s)
       IN  \E n \in 1..NUM_ARGO_VALUES :
              /\ slot[n] = s
              /\ \A k \in 1..n : argo_value_storage[slot[k]].prev = slot[k - 1]
              /\ \A k \in 1..(n - 1) : slot[k] # s
              /\ \A k \in 1..(n - 2) : argo_value_storage[slot[k]].type # Untyped
ListsAreCircular ==
    Finished /\ values <= 1 => \A s \in Lists : Circular(s)

\* What a run takes is bounded by what it reads.  The index of the storage grows by
\* at most two for each character, so that an input of less than half as many
\* characters as there are values cannot leave the array, which nothing else
\* prevents.  And the run comes to an end, soon: no loop turns without a character,
\* an element or a call that it uses up.  Only what the writer does with a second
\* value is not bounded.
TurnsPerCharacter == 5
Text == IF earlier = Nothing THEN input.text ELSE earlier.stdout
InputBoundsRun ==
    /\ pc = "read" => argo_next_value <= 2 * (Len(Text) - Len(stdin))
    /\ pc = "overrun" => NUM_ARGO_VALUES <= 2 * Len(Text)
    /\ result # "storage" \/ values <= 1 => turns <= 2 + TurnsPerCharacter * (1 + Len(Text))

\* A character that is written as \u and its number, and what follows it is then
\* read as a part of the number if it is a hex digit; and a character that is written
\* as one byte and read as a negative number, or as the end.
Numbered(c) == c \notin 32..255 /\ \A e \in DOMAIN Escaped : c # Escaped[e]
RunsOn(s) == \E i \in 1..(Len(s) - 1) : Numbered(s[i]) /\ argo_is_hex(s[i + 1])
Latin(s) == \E i \in DOMAIN s : s[i] \in 128..255

\* What was written is canonical: read again it gives the same value, and it is
\* written the same way (argo_write_value and all it calls).  Not so null, true or
\* false by itself: argo_read_value needs white space behind it.  And not so the
\* strings above: every hex digit behind \u is taken for one of the number, and a char
\* is signed.
OutputReadsBack ==
    /\ pc = "exit" /\ earlier # Nothing /\ input.plain
    /\ Pretty \/ earlier.value.type # "basic"
    /\ \A s \in earlier.strings : ~RunsOn(s) /\ ~Latin(s)
    => result = "storage" /\ ValueAt(0) = earlier.value /\ stdout = earlier.stdout
=============================================================================

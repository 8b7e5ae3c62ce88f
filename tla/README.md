# A verification project for Things-Built-In-C

The repository holds six small C programs, `hw0` to `hw5`. This directory models
the ones with state worth reasoning about in TLA+, checks the models with TLC on
small instances, and proves theorems about ten of the components with TLAPS for
every value of their constants. `PROJECT.json` is the machine-readable index: components, runs,
the lines each definition stands for, mutants, hazards and theorems.
Paths below are relative to `src/`.

    tlc -workers 2 -config MushShell.cfg MCMushShell     # one run
    tlapm MushShellProofs.tla                            # one module of proofs

## 1. The system

Nothing is shared between the programs; each is a process of its own.

| component | code | state | operations |
|---|---|---|---|
| mush program store | `hw4/src/program.c` | a list of numbered statements, a counter, a length | list, insert, delete, fetch, reset, next, goto |
| mush data store | `hw4/src/store.c` | variables with a string and a number; errno of libc | get and set as string and as integer, unset, show |
| mush job table | `hw4/src/jobs.c` | a list of jobs (ID, pid, status, captured output), the next ID; the child processes | run, wait, poll, expunge, cancel, pause, get_output, show, init, fini |
| mush execution engine | `hw4/src/execution.c` | the statement being executed, the SIGQUIT handler and its flag, nested input files | interactive loop, run, cont, one case per statement, expressions |
| mush statements, parser | `hw4/src/mush.tab.c` (bison), `mush.lex.c` (flex), `syntax.c`, `main.c` | the parser's stack, lookahead and error status; the strings of its values; nested inputs | yyparse, the semantic actions, yylex, freeing, copying and showing trees |
| par buffer | `hw2/src/buffer.c`, `hw2/include/buffer.h` | a chain of blocks, the current one, a reading pointer | newbuffer, additem, clearbuffer, numitems, copyitems, rewindbuffer, nextitem, freebuffer |
| par paragraph formatter | `hw2/src/reformat.c` | a list of words, the breaks chosen, the lines built | choosebreaks (three dynamic-programming passes), reformat |
| par front end | `hw2/src/par.c`, `errmsg.c`, `main.c` | options, the error indication, the paragraph read | parseopt, readlines, setdefaults, printing |
| sfmm allocator | `hw3/src/sfmm.c` | a heap of words with headers and footers, free lists, quick lists | sf_malloc, sf_free, sf_realloc, fragmentation |
| argo | `hw1/src/argo.c`, `validargs.c`, `const.c`, `main.c` | an array of values linked in circular lists, the digest | read, write, options |
| pbx server | `hw5/src/server.c`, `main.c`, `globals.c` | the main thread, one thread per connection, descriptors | accept, parse commands, hang up, shut down |
| pbx units | `hw5/src/pbx.c`, `tu.c` | (bodies are `#if 0`; the code that is linked is `hw5/lib/pbx.a`) | |
| hw0 | `hw0/src/main.c` | none | prints a line |

**How they interact.** In mush the engine is the hub. It calls the parser for the next
statement, the program store to keep and fetch statements, the data store for `JOB`,
`STATUS`, `OUTPUT` and the variables of expressions, and the job table to fork
pipelines. The child processes run beside the shell and meet it in the kernel:
`waitpid`, `kill` and the pipe of captured output. The user interferes at any time
with SIGQUIT, whose handler sets the flag `got_quit`, which the loop of `exec_cont`
reads. In par, `main` reads a paragraph through a buffer, `reformat` cuts it into
words, `choosebreaks` picks the line breaks, and the lines go through a buffer again;
`errmsg.c` is the error channel of all of them. In pbx one thread accepts
connections and starts a thread for each; they share the argument of
`pbx_client_service`, the table of descriptors and the exchange.

**What is hard in this code.** Children that end before, while or after the shell
waits for them; job IDs that are given back and used again; a SIGQUIT during the last
steps of a run; a program that is edited while it is stopped; blocks of a buffer that
are used again with old items in them; a dynamic program with three chained
objectives; errors half way through a function; a token that is discarded by error
recovery; a heap whose neighbours must agree on two bits of each other; a reader of
one character at a time that may meet the end anywhere; a descriptor handed to a
thread through memory; lines that arrive in parts. "hazards" in `PROJECT.json` lists
each at its line, with the properties that would catch it.

**What makes each component correct.** The program store: statements are found by
their number and executed from where the counter says, whatever was edited. The
job table: an ID names one job, a wait ends and is for the right child, no child
is forgotten. The engine: a quit ends the run it was sent to and no other. The data
store: what was set is read back. The parser: one call reads one line, groups it as
declared and loses or frees twice no string. The buffer: it is the sequence of the
items added. The formatter: the lines are the best by the documented policy and hold
every word. The front end: options and paragraphs are read as documented, everything
is freed. sfmm: blocks tile the heap, every free block is in exactly one list and can
be found. argo: what is read is the value written, and what is written is what was
read. pbx: a thread serves the connection it was started for, and obeys in order.

## 2. Modules

| module | models | state | actions and operators |
|---|---|---|---|
| `MushProgram` | `program.c` | `prog` (the list), `counter`, `length` | one operator per function, under its name |
| `ProgramStore` | the promise in the comments of `program.c` | `stmts` by line number, `pc` a line | insert, delete, reset, next, goto |
| `MushProgramContract` | the refinement, and the orderly use under which it holds | `orderly`, a history variable, besides | `ContractNext`, `KeepsPromise` |
| `MushJobs` | `jobs.c` with the job statements of `exec_stmt`, the children, the kernel calls | `jobs`, `ID`, `procs`, `call` (where the shell blocks), `ret` (what this step returns) | one action per statement up to the call that blocks, one per return from it; `Exit`, `Fill` for a child |
| `MushStore` | `store.c` | `store`, `errno` | operators giving the store after a call |
| `MushShell` | `execution.c`, composing the three above by EXTENDS | `pc`, `cur`, `armed`, `got_quit`, `depth` | one action per statement; `Loop`, `LeaveRun`, `ShowTables`, the user's input, `Quit`, `Child` |
| `MushSyntax` | the trees (an expression is its nodes in the order they are freed), and `syntax.c`: showing, freeing, copying | none | one operator per function |
| `MushGrammar` | the tables of `mush.tab.c`, the semantic actions, yydestruct | none | the tables under their names, `Decision` and `Goto` on them, `Value` of a rule, `yydestruct` |
| `MushParser` | `yyparse` with `yylex`, what its caller does with a statement, nested inputs | `yyss`, `yyvs`, `yychar`, `yyerrstatus`, `pc`, `depth`, the statement, `live` (strings not freed) | `Read...` for yylex, `YyShift`, `YyReduce`, `YyAccept`, `YyAbort`, `RejectLineNumber`, `YyError`, `PopSymbol`, `ShiftError`; `Execute`, `CopyPipeline`, `ListAndRetype` |
| `ParBuffer` | `buffer.c` | `blocks`, `current`, `nextblk`, `nextindex` and what the last call returned | one action per function; `additem` by where the item goes |
| `ItemBuffer` | the promise of `buffer.h` | `items`, `slot`, `last` | one action per function |
| `ParBufferContract` | `ParBuffer` with the slot `buffer.h` speaks of, and the refinement | `slot` besides | `ReadLastSpec`, `KeepsContract` |
| `ParBreaks` | `choosebreaks`, and the policy of `doc/par.doc` | none | one recursive function per pass, of the word a line begins with; `Even`, `PolicyL`, `Best` over all ways to break |
| `ParReformat` | `reformat` and the paragraph loop of `par.c` | options, words, breaks, lines, error, `pc` | one action per step of the function |
| `ParInput` | `par.c`: `parseopt`, `readlines`, `setdefaults`, printing; `errmsg.c` | `settings`, `stdin`, the line and paragraph being read, `message`, `held` (storage), `stdout` | one action per step of `original_main` (`ReadParinit`, `getopt`, `ReadOperands`, `FormatParagraph`, `parcleanup`) and of `readlines`; memory may run out in any |
| `ArgoText` | how values are spelled: strings, numbers, the writer's text | none | one operator per `argo_write_*`; decimals as digits and a point |
| `Argo` | `argo.c`, `validargs.c`, `main.c` | `argo_value_storage` and its next free entry, `calls` (the active ones), `stdin`, `stdout`, `turns` | one action per branch of the reader and of the writer; `Overruns` where the array ends; `RunAgain` starts the program on its own output |
| `SfmmHeap` | `sfmm.c` | `heap` (words that are headers or footers, the lists, what went wrong), `live` (what the client holds), magic, errno | `sf_malloc`, `sf_free`, `sf_realloc`, of the operators named like the functions they call |
| `PbxServer` | `server.c`, `main.c` and the sockets and signals they use | `main`, `connfd` and its `block`s, `pc`, `arg`, `fd` and `buf` of each thread, the `table` of descriptors, `stream`s | `Start`, `Accept`, `Create`; `Take`, `Register`, `Read`, `Dispatch`, `Leave` of a thread; `handler`, `Exit`; the clients |
| `MC...` | the instances: values, texts, statements typed | | |
| `ListLemmas` | lemmas on sequences, least and greatest numbers, recursive functions over an interval | | |
| `MushShellProofs` (with the program store and the job table), `MushParserProofs`, `ArgoProofs`, `ParReformatProofs` (with the line breaks and the buffer), `ParInputProofs`, `SfmmHeapProofs`, `PbxServerProofs` | the theorems of section 4 | | |

Some choices deserve a word.

*Blocking.* In `MushJobs` the shell runs undisturbed between kernel calls that block
(fgets on the pipe, waitpid), since nothing else touches its memory; children change
state between any two of its steps. A statement is therefore an action up to the
first such call, and another action from each return. In `PbxServer`, where threads
share memory, every access to what is shared is a step of its own.

*Undefined values.* `jobs_wait` and `jobs_poll` read a `status` that waitpid may not
have written (`NotWritten`), and a `pid` that was never set when an ID is unknown
(`LookedUp`). Both are any value of their range. `jobs_show` keeps the status of the
previous entry (`call.arg`), because it is one variable for the whole loop. An
uninitialised `outlines` makes `Report` choose between a reported error and a crash.
The buffer of a pbx thread starts with what the stack held (`Leftovers`).

*Failed fork.* `jobs_run` does not test it; the pid of the entry is `AnyPid`, which
waitpid and kill read as "every child".

*Lists.* A doubly linked list with a sentinel is a sequence, the sentinel is position
0 or the position after the last. The chain of blocks is a sequence as well, NULL a
value of its own. argo's circular lists keep their links, which are what its
property is about.

*Parser.* The automaton is the compiled one, not the grammar: defaults, precedences
and the error token decide as the tables of `mush.tab.c` do. Strings are counted, not
spelled: each has an owner (a value on the stack, the statement returned) until it is
freed.

*Heap.* Memory is a function from the addresses that hold a header or footer, live
or left behind, to their decoded words; the code's own arithmetic finds them. The first
time the code does something wrong (a stale footer believed, a block of the wrong size
handed out, a list lost) is recorded in `heap`, and the model stops: what happens in
a corrupted heap is undefined. `SfmmHeap` was compared with the compiled
`sfmm.c` on 600 random traces of about 9 700 calls, `ParInput` with the compiled par on
3 310 cases, without a difference.

*Data.* Bodies, items, strings are model values; a word is its length. A character of
par's input is a letter, a blank or a newline; argo's are their codes, because spelling
is what its properties are about. Numbers of argo are exact decimals.

## 3. Runs

Every run is exhaustive within its bounds. The times are those of two workers.

| run | instance | states | asks |
|---|---|---|---|
| `MushProgram` | 4 line numbers, 2 bodies, counter up to 6 | 4 998, 3 s | any calls to `program.c` in any order: does the listing show the counter, does a deletion ahead keep the next statement, and in orderly use, are listings sorted and the promise of `ProgramStore` kept? |
| `MushJobs_table` | 2 pids, 2 jobs; forks fail, pipes fill; fg, bg, capture, wait, poll, pause, show | 233 164, 45 s | the shape of the table under everything that is undefined; does every statement end but for the one known way? |
| `MushJobs_orderly` | 3 pids, 3 jobs; forks fail, pipes fill; fg, bg, capture, cancel, pause, exit | 2 504 182, 80 s | where jobs are not waited for or polled by their ID, nor shown: do IDs tell jobs apart, is no child forgotten, is only what ended called completed? |
| `MushShell` | 1 child, 1 job, 1 line, every kind of statement, one nested file, terminal or none | 3 215 196, 75 s | all statements in all states of the rest, with SIGQUIT at any moment |
| `MushShell_live` | 2 children, 2 lines, jobs and jumps | 284 140, 80 s | a quit ends a run; a straight program ends by itself |
| `MushParser` | 4 vocabularies: control statements, data statements, pipelines (lines of 5 tokens), expressions (8) | 1 736 413, 35 s | right and wrong lines, one nested input, the listing typed in again |
| `ParBuffer` | 2 items, blocks of 1, 2 and 4 | 52 213, 8 s | does `buffer.c` implement `buffer.h`? |
| `ParReformat` | 6 words of 1, 2, 3 or 8 characters, lines of 5 or 6, suffix, hang, last, min, indent | 3 217 744, 65 s | are the breaks the best of all 2^(n-1) ways, and do the lines hold every word? |
| `ParInput` | all texts of 5 characters, some of 3 lines; PARINIT and arguments in twos and threes, options given twice; memory running out at any step, and once for the message as well | 1 074 002, 60 s | until an error goes without a message, are options and paragraphs read as `par.doc` says, and is everything printed? what is not freed? |
| `Argo` | values nested up to 3, tight and loose spelling; texts that are no JSON, or several values; 6 command lines; 40 slots | 193 220, 18 s | is the value read, is the output read back, are the lists circular, how many slots and steps does an input take? |
| `SfmmHeap` | 2 pages of 256 bytes, 3 quick lists of 2, 4 free lists, 8 sizes of 10 bits, 7 calls, magic 0 or not | 707 281, 80 s | until something goes wrong, is the heap tiled, are the lists and footers right, is fragmentation what it should be? |
| `PbxServer` | 2 clients, one with 2 lines, 3 accepts, 2 descriptors, 1 signal | 485 870, 132 s | does a thread serve its own connection, are extensions apart, are lines obeyed in order, does the server end? |

**Bounds, and why they are enough.** `MaxCounter` caps a counter that grows with every
appended statement; with 4 line numbers a store can be filled, emptied and filled
again before it is reached. `MaxJobs` caps the table: reuse of an ID needs two entries
alive and a third made after an expunge, which 3 allow; what the table run asks of the
shape of the table needs no third. `Pids` is as large as `MaxJobs`, and a pid is free
again after it was reaped and left the table, so that a run may start any number of
jobs. In `MushShell` one line is enough for every kind of statement to be met as the first, as
the last and as the only one, typed or stored, with the counter before or behind it;
two lines are for the liveness run, where order matters. In `MushParser` five tokens
hold the longest statement with its line number, every pair of redirections, and an
error before, at and after each; after an error three tokens must be shifted before the
next is reported, which five tokens reach; eight give every pair of operators beside
each other with a negation or parentheses. With `MaxBlocks` 3 and a first
block of 1, every relation between the current block and the reading pointer occurs
(same, before, after, at the end), also after a clear. Six words give one to six
lines and 32 ways to choose them; 8 is a word longer than a line, which is cut.
Five characters are enough for two paragraphs with a blank line between them and for
prefixes and suffixes of length 1; longer ones come with the lines of `MCParInput`. Two
arguments show every pair of options in both orders. `MaxUnreported` 1 lets one error go without its
message, at any step: what the properties say after one does not change with a second, but for the number of
lines that are lost, which they leave open. In `SfmmHeap` seven calls fill both pages, fill and
flush a quick list, and coalesce on both sides; sizes of 0 to 264 reach every class,
a split with and without remainder, and growth; `SizeRange` 1024 stands for 2^32 and is more than the two pages,
so that the three largest sizes wrap around, hang the first call, or find no block, and the others do not. argo's 40 slots hold every value of the run, and
some of its texts, of brackets only, ask for more. Two clients and two descriptors let a
connection overtake another between accept and the start of its thread, and a third
accept find no descriptor. `CHECK_DEADLOCK FALSE` stands where the shell exits or
crashes, where a child blocked on a full pipe may block the shell, where a bound stops
it, where par exits, and where the server has ended.

**Fairness.** `FairSpec` (jobs) has weak fairness of the shell's return from a blocking
call: once waitpid or fgets can return, the kernel lets it. It has weak fairness of `Exit`
per child: that a job ends is an assumption about the programs the user starts, not about
mush, and `StatementsEnd` is claimed under it only. `FairShellSpec` says the same of
`Engine` (the shell is one thread that nothing else preempts for ever). par is one
process: `PrintsEveryPart` has weak fairness of its next step. `PbxServer` has weak
fairness of the main thread, of each service thread and of the exit, each a thread
the kernel schedules; a thread blocked in read is enabled only when there is something
to read. The user and the clients are never fair: no property assumes that anything is
typed, sent or signalled.

**Mutants.** Every property has one: an operator with a bug someone could have written
(ID not given back, entry put in front, loop that does not advance, signal re-ignored
in the wrong order, last line counted, a token freed under the wrong rule, a block split
without its share, the argument of a thread not allocated anew), next to the definition
it stands for, with which TLC finds the property violated.

## 4. Theorems

Proved for all values of the constants, from the named ASSUMEs alone. 47 theorems are
listed in `PROJECT.json`; 30 state a property that a run checks. TLC checked each of
the inductive invariants below on the instance of the run before it was proved.

*Program store* (`MushShellProofs`; any line numbers, bodies and
bound of the counter; `LinesAssumption`, `BoundAssumption`, `AboveAssumption`). `ProgInv`
joins types, `LinesUnique` and `LengthAgrees`, which need each other: insertion looks for
the line at any position, and only because there is one at most does replacing it keep
the length. From it follow `ProgTypeCorrect`, `LinesAreUnique`, `LengthIsCounted`,
`EditingStaysAtEnd`, `ArrowShowsCounter` (the listing shows the counter once, at the
statement that comes next) and `DeletionAheadIsSafe` (deleting statements not yet passed
keeps the next one the next). `ContractInv` adds that in orderly use the list is
increasing; hence `OrderlyIsListed` and **`PromiseIsKept`**, the refinement: in orderly use
`program.c` implements `ProgramStore`. A step maps to a step by one lemma per operation
(`ReplaceInserts`, `AppendInserts`, `DeletionDeletes`, `ResetResets`, `NextAdvances`, `GoToGoes`). The
list is abstracted to a function of line numbers, the counter to the number of the
statement it is at, so the hard case is a deletion: `PassedStay` shows that what the
counter has passed is still in front of it.

*Shell* (`MushShellProofs`; any children, lines, statements). **`ShellUsesTheStore`** is the
composition: every behaviour of the whole shell, with jobs, variables, signals and nested
input, is one of the program store, so every theorem about `ProgSpec` holds inside the
shell; `ShellKeepsTheStore` is its invariant. `QuitStaysWithItsRun` and `RunsStayInside` state
two of the properties of the run. The first rests on `QuitInv`: outside a run the
handler is not installed and its flag is down, and between the two steps that end a run the
handler goes before the flag does. `ShellKeepsTheTable` and `ShellMindsItsChildren` compose
the engine with the job table: `StepIsTable` shows that a step of the shell is a step
of the table (`TableNext`, in which the ID may be any number that a variable holds) or
leaves it alone, and so the invariants below hold inside the shell.

*Job table* (`MushShellProofs`; any sets of pids and operations, any `MaxJobs`, forks failing
or not; `PidAssumption`, `SizeAssumption`, `SwitchAssumption`). `JobsTypeCorrect`,
`IdCountsEntries` (the next ID is the number of entries) and `IdBoundsPositionAlways`
(the entry with ID n is among the first n+1). The last two are about the odd way
`jobs_expunge` gives IDs back. None is inductive by itself: an expunge
decrements ID, which is right only if exactly one entry goes; entries behind it move
forward, so their bound survives, and a new entry meets its bound just because ID is
the length. `JobsInv` = `TableInv` /\ `ProcInv` /\ `CallInv` joins them. `CallInv` is needed
because a blocked call keeps a position in the table, which is used after other steps.
`TableInv` is stated of any list, so that the lemmas (`SetStatusKeepsTable`,
`ExpungeKeepsTable`, `NewJobKeepsInv`) can be cited for the list between the two
halves of a statement, when it has been marked and not yet expunged. `ForegroundIsOwn`
assumes that `wait` and `poll` are not used: then only the youngest job is ever
expunged, IDs are positions (`OwnInv`), and a foreground job waits for the child it started.
`CompletedAreGone` and `NoChildForgotten` assume `Watched`: that neither these statements nor the
tables of the prompt are used, as in a script that is read from a file. This is needed: `jobs_poll`
and `jobs_show` judge an entry by a status that waitpid may not have written, and an entry that is
marked completed while its child runs is expunged with it. `NamedInv` adds to the two properties
that the call that blocks is for the entry at its position, and holds with failing forks
because an entry without a pid names no child.

*Buffer* (the last part of `ParReformatProofs`, for reformat keeps its lines in one; any items, any capacity of the first block, any
`MaxBlocks`; `FirstAssumption`, `MaxBlocksAssumption`). `BufTypeCorrect` and `FilledInOrderAlways` (blocks before
the current one are full, those behind it empty, and `numprevious` adds up) follow
from `BufInv` = `Sound` /\ `Pointer`. **`BufferKeepsContract`** is the refinement: with
`ReadLastSpec` the chain of blocks implements the sequence of `ItemBuffer`, step by step.
Its invariant `SlotInv` adds that pointer and slot agree: the pointer is at slot
`numprevious + nextindex` of the chain, or NULL when the slot is the capacity of the
chain. The lemmas of the section "Chains" describe what storing, growing, reusing
and clearing do to `Sound` and to the items the chain holds, `Apart` and `Covered`
being what makes the block of an item unique and existing.

*Line breaks* (the first part of `ParReformatProofs`; any table of lengths in which a longer line has more characters,
any width, `last`, `min`). **`ChooseBreaksIsBest`** is the correctness of the dynamic program, for
any number of words: if `choosebreaks` does not give up, `newL` is the smallest longest line
among the ways to break that have the longest shortest line, and the breaks it leaves in the words
are one with the least sum of squares among those. `ShortWordsBreak` adds that it does not give up when
every word fits a line. Each pass is a recursive function from the last word to the first, and
the proof has the same shape three times: a way to break the words from i on is a first line and
a way to break those from its end on; the value of the pass at i bounds every such way, and some way
reaches it. These are inductions over the number of words. They rest on
`BackwardInduction` and `RecursionBack` of `ListLemmas`, which are instances of the principle that
a nonempty set of naturals has a least member, stated of a set instead of an
operator, so that the provers can use them. The third pass works on the ways that
the second leaves, so `LeastSquares` is shown optimal among the narrow ones only, which is
what the policy asks.

*Formatter* (the second part; any width that exceeds prefix and suffix, any input). `Inv`
joins the types, that no word but the first is longer than a line (`WordsCut`), that the
breaks belong to the words (`BreaksKept`), and that each line begins where the one before ended
(`LinesLinked`). With the theorems on breaks it gives `BreaksAlwaysBest`, `OnlyGrownWordEverFails`
(a missed cut is the only impossibility), `TextAlwaysFits` (the copying loop stays inside what was
allocated) and `EveryWordIsPrinted`. None is inductive: that the text fits needs that `linelen`
belongs to the same candidate as `nextline`, which is a fact about the third pass.

*Front end of par* (`ParInputProofs`; any arguments, any PARINIT, any input;
`CasesAssumption`). `EverythingIsFreed`: `Storage` says what is held at each label and that
the message is set only on the way to the cleanup, so that memory which runs out
at any allocation leaves lines at most, and none where par succeeds and every error had its
message. It holds for any bound on the errors that go without one (`MaxUnreported`). `DocumentedDefaults`: what the code computes by
comparing characters (`InCommon`, `StripWhite`) is what `par.doc` says of prefixes and suffixes; the
lemmas are about the longest common beginning of any number of lines of any length.
`LastOptionCounts`: `Reading` says that the settings are the last values in the part
of PARINIT and of the command line that was read, getopt_long taking options from between operands,
unless an error went without a message, by which a word of PARINIT may have been passed over.

*Heap* (`SfmmHeapProofs`; any number of quick lists from 2, of free lists from 3, any length of a
quick list, sizes of any width (`SizeRange`, 2^32 in the code) and any requests that have it, any number of pages
that fit in that range, of any size that divides it, is a multiple of 16 and holds the
smallest heap: `SizesAssumption`). **`BlocksTileTheHeap`**, `ListsAreRight`,
`FreeBlocksAreFound` and `FragmentationIsCounted` are the four properties of the run: until the code has done
something wrong, the blocks fill the heap, the lists hold what they are for, no free block is lost,
and the fragmentation is that of the blocks which are taken.
None is inductive: sf_free finds a neighbour by its footer and unlinks it by its size, so that each
needs the others. `IInv` says that the heap is not there yet or `Kempt`: `Tiled` (every block
begins where one ends, does not overlap another, and has a footer like its header if it is free;
nothing at the place of a footer is marked allocated, so that a footer left
behind is never taken for a taken block; and no word at the place of a header is marked allocated or
has size 0, `Spent`, unless a block begins there), `Filed` (free lists hold free blocks of their sizes, each once),
`Stored` (quick lists hold taken blocks of their size), `Owned` (what is taken
and in no quick list is what the client holds, with the payload it asked for), that the heap is not
larger than its pages, and that no free block is unfiled unless a list was flushed. Blocks are a
set given by a walk, so the proof is about what a change of a stretch of memory does to that set:
`RebuiltIsTiled` says that blocks which fill the stretch from one header to another may take the
place of those that did, and what writes headers is an instance of it: `TwoBecomeOne` for coalesce and
collapse, `DividedIsRebuilt` for splitting, `FreedIsLoose` and `RetaggedIsSane` for a block that is
freed or marked. `ExtendedIsTiled` adds the page of extendHeap. That the walk meets the blocks of a tiled
heap and no others is an induction over addresses (`StartsUnfold`, `WalkedIsStarts`). Between two halves of a call the invariant is
broken in one place, by a block that is free and in no list (`Loose`), or taken and nobody's
(`Lending`). Sizes are taken modulo `SizeRange`; `BlockForFacts` says that a block is as large as was asked for
unless its size wrapped around, and that is an event. The lemmas carry this through coalesce, the flush of a quick list, the search, which grows the heap any number
of times (`SearchedIsSane`, an induction over the number of searches), and the copying of
sf_realloc. sf_internal_fragmentation does not walk from block to block: it looks at
every word where a header could be, so it needs that headers left behind by splitting
and coalescing look free, which is what `Spent` says (`CountedAreTaken`). What is counted is then summed
in the order the fold chooses; that the order does not matter, and that a block with payload 0 adds
nothing, is shown for a function that gives the sum of every subset (`SumsExist`, `SumsUnique`,
`SumsWithout`, `SumsAgree`), an induction over finite sets. The theorems are about every branch of the code that does no wrong; those that do
end in an event, and section 5 lists them.

*Parser* (`MushParserProofs`; any vocabularies, lines of any length, inputs nested to any depth;
`VocabularyAssumption`, `DepthAssumption`). **`OneLineIsRead`**: `LineInv` says that the end of the line, once
it was read, is the lookahead or on top of the stack (`LineKept`), and that the automaton is in states
it can be in (`Stack`). The second part is needed because a reduction looks at the state that
comes to light below what it takes away: at least `Below(s)` symbols lie under state s, which is
one, two or three according to s, and no rule takes more than that in a state where it is reduced. What the tables
say is proved for every state and token from the numbers themselves (`EntryFacts`, `DefaultFacts`,
`ReduceFacts`, `GotoFacts`): only EOL leads to a state that ends a line, such a state reads no
token and reduces a rule that returns. Error recovery is the hard part: it discards tokens, and
must not discard EOL. It does not because state 0 alone shifts the error token, and in the
state that leads to EOL is shifted at once (`ErrorFacts`).

`NoStringIsFreedTwice` and **`StringsAreFreedOnce`** say what becomes of the strings. `OwnInv` gives every
string that is allocated to at most one value: the stack is a path through the automaton whose values
have the shapes of their symbols (`Sound`) and share no string with each other or with the lookahead
(`Apart`), and after an error a line is read to its end and no further (`Status`). That a reduction keeps
this is shown rule by rule: what the value of a rule owns is what its right side owned, less what the
action frees. `KeptInv` turns it round: what is allocated is held by the stack or the lookahead
(`Kept`), unless the line is one of the two that lose a string. To know that it is one, `Trace` remembers
of the tokens read what the states of the stack need: which of them begin a pipeline, and behind which
redirection a file name stands. Both rest on facts about the paths of the automaton, read off the tables.
That the copy and the listing of a tree own as many strings as the tree, and what `FlattenSeq` does, are
inductions over the length of a sequence.

*argo* (`ArgoProofs`; any inputs, any arguments, any number of slots; `StorageAssumption`,
`InputAssumption`, `ArgvAssumption`). **`RunsAreBounded`** and **`ListsStayCircular`** are two of the four
properties of the run; `ArgoInvAlways` is the invariant they follow from, in three parts.

- `Checked`: types; the stack of calls (`StackOK`: every call but the last waits for a container it
  met, and the sentinels grow from call to call); the list of a container is the slot behind it; and
  `Budget`. A character pays for two slots and five steps, and `Budget` says what must be left of that
  at each place where the reader can be. It is not the same everywhere: behind a `[` that was looked
  at and not yet taken for a value there must be enough for a sentinel and a first slot, at a
  closing bracket for what comes behind it. Four steps for a character would not do. `[[]-[]-...]`
  takes five for some, and only the slot that each value leaves behind keeps it to that. The
  functions that read strings, numbers and basic values take at least one character (`ReadString`,
  `ReadNumber`, `ReadBasic`), which is shown for every input, by induction on what is left of it.
- `Shapes`: the storage is shared out among the lists. `own` gives every slot its sentinel, and
  `Structure` says that a list is an increasing chain from its sentinel, linked both ways, that lists are
  nested in one another like brackets (`Owners`), that those still open are the ones on the stack, and
  that the closed ones turn back. An open list and its unfinished last slot are exceptions that `Opened`
  and `ready` describe; closing a list leaves out the slot that was kept ready (`CloseList`), and it
  belongs to none from then on. That the walk round such a list comes back after at most as many steps as
  there are slots is `RoundList`, an induction along the chain.
- `Paced`: the writer has passed every slot up to `p`, and every slot it still comes to lies behind `p` or
  is a sentinel it closes (`Passing`), so that no slot is met twice and the slots the reader took are the
  steps the writer may take.

*Server* (`PbxServerProofs`; any clients, descriptors, commands and bounds).
`PbxTypeCorrect`, **`ThreadsServeTheirOwn`** (a thread serves the connection accepted for it)
and `ExtensionsAreApart`. What a thread reads was written by another, so `PbxInv` follows
the descriptor on its way: into the block (`PointsAtLast`, `Stored`), to the thread
(`Handed`), and into the table, where it stays in use (`InUse`); `ReturnedOnce` says that
accept never returns the same descriptor twice, which holds because none is closed.

**Only model-checked.** Liveness (`StatementsEnd`, `QuitEnds`, `StraightRunsEnd`, `PrintsEveryPart`,
`ObeysInOrder`, `EndsWithItsClients`). Of the parser, `GroupsAsDeclared` and `ListingReadsBack`, which are inductions over trees.
Of argo, `ReadsTheValue` and `OutputReadsBack`: they compare recursive functions over
values and texts of any depth, which is an induction over data.

## 5. Where code and documents disagree

Met while modelling and built into the models where state is affected. The properties
above say what does hold; where a document says more, it is listed here.

*mush, store, jobs and execution.*

- `program.c:157`. Deleting statements before the counter makes it skip as many behind
  it. The comment at 129 says deletion keeps the next statement the next; it does when
  only statements ahead are deleted (`DeletionAheadKeepsNext`).
- `jobs.c:290`. After an ID was given back and used again, a foreground job waits for the older job
  with that ID, against 274; `ForegroundWaitsForOwn` holds without `wait` and `poll`.
- `jobs.c:261`. One line is read from a capturing child; one that writes more than a
  pipe holds blocks for ever, and the shell waits for it (273). `StatementsEnd` excepts it.
- The first job has ID 0, and `store_get_int` (`store.c:94`) takes 0 for no integer, so `#JOB`
  fails after it. `rsrc/wait_test.mush` stops there. `store_set_int` keeps the old string.
  `store_set_string` (`store.c:144`) takes an errno that was set before for a failure of its own conversion;
  nothing clears it but the scanner, where it fills its buffer from a file (`mush.lex.c:729`), and what comes
  between, as the system calls of a job, may set it.
- SIGQUIT does not interrupt waitpid (`execution.c:39`, the handler restarts calls),
  though the comment at 35 says so. `QuitEnds` therefore needs children that end.
- `jobs_wait` and `jobs_poll` never set ABORTED, `jobs_poll` may report a running
  job as ended (`jobs.c:337`), `jobs_cancel` sets CANCELED at once (415), `jobs_pause`
  waits for every entry (465), `jobs_fini` for none (97), `jobs_get_output` returns
  an array never written when nothing was captured (440). Each job keeps a descriptor
  of its pipe (209), so that after some hundred jobs none is left.
- `prog_insert` moves the counter when it appends (`program.c:121`) and lists in
  typing order (116), so "increasing order" (37) holds for programs typed in order.
- `unset` of a variable not in use dereferences NULL; a background job typed without
  line number leaves a freed pipeline in the table (`execution.c:78`).
- `delete`, `list`, `run` and `cont` can be typed but not stored, so that a program
  is never edited while it runs, only while it is stopped.

*mush, parser.*

- At a last line without newline the end of file becomes an end of line for ever:
  `yyparse` returns no more.
- A syntax error in a pipeline leaks the strings of its last argument; a second `<` or
  `>` leaks the name of the first. `StringsFreedOnce` counts these and allows no other.
- `+ - * / %` have one precedence, below AND, OR and NOT; comparisons bind tightest.
- What `list` shows of `echo (1 + 2)` or of a text with blanks is not the same statement
  when it is typed again. `ListingReadsBack` is about the others.
- The check for a positive line number only fails when atoi overflows: "0" is a word.
- `copy_pipeline` (`syntax.c:296`) is called by nobody; `CopyPipeline` checks it on what the parser returns.

*par.*

- `reformat.c:236`. Words are cut before the first one is expanded by its indent, so it may
  be too long for a line, against `par.doc:233-240`. par then reports "Impossibility #1", or
  crashes, because `outlines` is returned uninitialised (304). `OnlyGrownWordFails` says
  that nothing else makes it fail.
- `nextitem` (`buffer.c:206`) sets its pointer to NULL behind a full last block, and
  items added later in a new block are not seen until a rewind, against `buffer.h:65`.
  par never adds after that; `ReadLastSpec` is the use without it.
- par does not check that the width exceeds prefix and suffix (`par.doc:195`). With
  equality, words of length 0 are cut until memory runs out.
- As soon as there is an operand, atoi is applied to every argument, and one that is an
  option counts as the number 0: it sets the prefix to 0 (`par.c:375`; `par.doc:109`, 115, 187).
- `-p0` and `-w0` are refused; `-h3` and `-l1` are refused with an exit status of success,
  as is an unknown option (`par.doc:302`). Unknown letters in PARINIT are ignored. Numbers of
  the command line are not limited to 9999 (`par.doc:193`), and negative ones count as unset.
- A last line of blanks without newline is not printed (`par.doc:210`). Two equal lines
  have no text between prefix and suffix and are refused as too short.
- `clear_error` (`errmsg.c:58`) does not reset the pointer it frees. It is freed twice only
  if a call succeeds after two that failed; par ends at the first (`AllFreed`).
- A line that was copied and could not be added, for lack of memory, is not freed.
- `set_error` (`errmsg.c:26`) copies its message, and does not look whether there was memory for the copy. If
  there was none, `is_error` says that there was no error: a character or a line is lost and par goes on,
  or it exits with success and nothing printed (`par.c:298`), or goes on with a pointer that is NULL, which is
  undefined. `AllFreed`, `PrintsEveryPart` and `OptionsSetLast` say what holds then and what only without it.
  So for the 200 bytes of each message (`par.c:84`, 293), which are written to without a look at the pointer.

*sfmm.* Every one of these is an event of the model; it stops there, and the properties
say what holds until then.

- `sf_realloc` takes the size of a block for that of its payload: a request of n bytes with
  size - 8 < n <= size is met in place and reaches into the next block (`sfmm.c:507`, 509, 518;
  `sfmm.h:231-243` promises a valid region).
- Sizes have 32 bits (`sfmm.h:99`). For the last 8 requests below 2^32, size + 8 wraps around (414), and a block of
  32 bytes is handed out; the 15 before them are rounded up (418) to a block of size 0. A first request
  of 2^32 - 48 asks for a heap of no page (205), and the prologue is written where none is; with one that is
  up to a page smaller the loop that counts the pages never ends. The first two are the event `wrapped`, which
  `BlocksTileTheHeap` excepts as it does the others, the last two end the model as a crash.
- Blocks are listed by size - 8: one of 32 bytes equals no class and is in no list
  (`sfmm.c:22`, `sfmm.h:204`). A merged block is listed under the size it had (371).
- A flush of a quick list places the last block only; the others are lost, or the links
  it writes are followed into free storage (294).
- A stale footer is taken for a free block and merged with, allocated or not; a new
  page is merged with whatever precedes it, and carries the quick flag if that did.
- The heap grows after the first list without a fit (383), though larger blocks are free,
  and does not grow when all lists are empty. A growth that fails half way leaves no epilogue.
- A double free of a block in a quick list is not noticed. With a magic number, sizes in
  quick lists are compared without removing it, and blocks too small are handed out;
  without one, a NULL list is followed.
- `sf_peak_utilization` is the current one (`sfmm.h:276-282`); `sf_internal_fragmentation` is 0/0
  when nothing is allocated, and counts blocks in quick lists as allocated.

*argo.*

- Texts that are no JSON are read against `argo.c:363-383`: `["\u0041bc"]` gives one string
  of one letter, `[1.5e+3]` two numbers, while `[1e5]` is refused.
- A value that is only `null`, `true` or `false` is written so that it cannot be read again.
- All hexadecimal digits behind `\u` are taken for one number (`argo.c:490`), not four. A character that is written
  with such a number (986) and comes before a letter `a` to `f` or a digit, as in `["\u0001\u0061"]`, is written as `\u0001a`
  and read back as one character. Codes from 128 to 255 are written as they are, and read as negative
  numbers, 255 as the end of the input. `OutputReadsBack` excepts both kinds of string and no other.
- `argo_read_value` goes on to the end of the input (`argo.c:388`), and a second value is put where the
  first one ends: `[1] 5` is read as `[5]`, `1 [2]` as `[2]`; after `[] 5`, `[] []` or `{} "a"` the list that is written
  never ends, and `-c` prints for ever. `ListsAreCircular` and the last part of `InputBoundsRun` are therefore
  about inputs of one value (`values <= 1`), and the texts of the run that have more are
  among those whose output ends.
- Nobody compares the index with `NUM_ARGO_VALUES`, which `global.h:52-55` asks for. In the model the run
  ends there (`overrun`); `InputBoundsRun` says how long an input must be for that. Nor is
  `argo_chars_read` reset (32). `-c -p ""` is accepted. main always exits with success.
- `argo.c:1033-1103` is never called.

*pbx.*

- The buffer of a thread is neither cleared nor terminated: a read shorter than the one
  before executes the bytes that were left, and a chat carries their tail. Several lines in one
  read are one command: only the first is obeyed, which `ObeysInOrder` allows and no more. What it says of the order
  of commands is therefore about reads that are not cut; that everything sent is read in the end is said of all.
- `chat` without text is ignored, though `tests/script_tester.c` sends it; so is a number
  that is not positive.
- At end of file a thread leaves its loop without closing or unregistering, against
  `server.h`. Descriptors run out, accept returns -1, nobody looks, and the main thread starts
  threads for -1 as fast as it can. A failing `pthread_create` is not noticed either.
- The handler of SIGHUP ends whichever thread received it; `terminate()` and `pbx_shutdown`
  are never reached by it (`main.c:38-41` speaks of a clean shutdown, `tests/basecode_tests.c:70` expects
  it). `EndsWithItsClients` therefore says when the process does end: with its last thread.
- The value of `-p` and the result of getaddrinfo are not checked.

## 6. What is not modelled, and why

- **pbx telephone units**: `pbx.c` and `tu.c` have no body in the source; the archive that is
  linked has no source. Of the exchange, `PbxServer` keeps that it is called, with what
  and in which order.
- **hw0** has no state.
- **mush execution engine**: the arithmetic of expressions (`eval_to_numeric`) and how values
  are printed; conditions are a variable, its negation or its comparison with a literal.
  Nothing else in the shell tells numbers apart.
- **mush**: memory that runs out; in `MushShell`, background jobs with captured output (`MushJobs` has them); the growth of the parser's stack; the buffers of the
  generated lexer, which is modelled as the tokens it hands over. Trees of statements have
  no address, so use after free of a tree is out of reach; that of strings is counted.
- **par buffer**: `freebuffer`, after which there is no buffer, and a failing `newbuffer`.
- **par**: which characters the prefix and suffix of a printed line are copied from (their
  number matters, and is kept).
- **sfmm**: client data, or fresh memory, that happens to decode as the footer of a free
  block; `sf_peak_utilization`, which reads the heap as `sf_internal_fragmentation` does.
- **argo**: that the string and the number of a value share their storage, in a union (`argo.h:159`), which matters only
  where a second value is read into the place of a first; rounding of floating point (numbers are exact decimals with at most 9 digits of
  fraction), inputs of several values whose output does not end, the counters of lines and characters in messages.
- **par**, also: the buffers of `readlines` are sequences, of which any item may need memory that has run out; the
  steps that go on after an error without a message are bounded in the run (`MaxUnreported`), and in `ParReformat`
  every error has its message.
- **pbx server**: connections that are reset and lose data; a signal that arrives inside a call
  of the library.

What is left to do, in order of weight: the liveness properties as
implications between states, whose safety halves could be proved; a composition of `ParInput` with
`ParReformat`, which now meet in `Formatted`.

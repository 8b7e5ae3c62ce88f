---------------------------- MODULE MCMushParser ----------------------------
(* Instances of MushParser: vocabularies of statements, of pipelines and of   *)
(* expressions, each with lines long enough for its rules to combine.         *)
EXTENDS MushParser

Control ==
    [kinds |-> {"NUMBER", "NAME", "LIST", "DELETE", "RUN", "CONT", "STOP", "PAUSE", "IF",
                "GOTO", "COMMA", "SHARP", "EOL"},
     texts |-> {"number", "huge"}, max |-> 5]

Data ==
    [kinds |-> {"NUMBER", "NAME", "STRING", "WAIT", "POLL", "CANCEL", "SET", "UNSET", "SOURCE",
                "EQ", "DOLLAR", "EOL"},
     texts |-> {"number", "blank"}, max |-> 5]

Pipelines ==
    [kinds |-> {"NUMBER", "NAME", "STRING", "PIPE", "LESS", "GREATER", "CAPTURE", "BG",
                "LPAREN", "RPAREN", "EOL"},
     texts |-> {"number", "name"}, max |-> 5]

Expressions ==
    [kinds |-> {"NUMBER", "WAIT", "NOT", "LPAREN", "RPAREN", "PLUS", "TIMES", "AND", "LESS", "EOL"},
     texts |-> {"number"}, max |-> 8]

MCVocabularies == {Control, Data, Pipelines, Expressions}
=============================================================================

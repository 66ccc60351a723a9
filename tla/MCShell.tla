------------------------------- MODULE MCShell --------------------------------
(* Lines of up to three commands joined by every operator, with and        *)
(* without parentheses, and lines that change what later lines see: the    *)
(* tables of variables and aliases, the directory, scripts and evaluation. *)
(* The table of builtins is too short for the last one registered.         *)
EXTENDS Shell

MCLetters == {"true", "false", "nosuch", "set", "export", "unset", "env", "echo", "pwd", "cd",
              "alias", "unalias", "exit", "read", "test", "umask", "hostname", "shift", "let",
              "cat", "ls", "which", "source", "eval", "head", "help", "go", "qemu", "n", "t", "eq",
              "x", "a", "b", "e", "s", "d", "HOME", "PWD", "HOSTNAME", "UMASK", "home", "root",
              "miraos"}
MCDigits == {ToString(n) : n \in 0..9}

MCRegistrations ==
    <<"echo", "cd", "pwd", "export", "set", "unset", "env", "alias", "unalias", "exit", "help",
      "read", "test", "true", "false", "umask", "shift", ".", "source", "eval", "let", "head",
      "cat", "ls", "hostname", "which", "go", "qemu">>

Var(name, value, exported) == [name |-> <<name>>, value |-> value, exported |-> exported]
MCInitVars ==
    <<Var("HOME", <<"/", "home", "/", "root">>, TRUE), Var("PWD", <<"/">>, TRUE),
      Var("HOSTNAME", <<"miraos">>, TRUE), Var("?", <<"0">>, FALSE)>>

(* A script that runs itself, one without text, one that runs the latter. *)
MCFiles == <<"s">> :> <<"source", " ", "s", ";", "false", ";", "source", " ", "e">> @@
           <<"e">> :> <<>> @@
           <<"t">> :> <<"source", " ", "e", "|", "|", "set", " ", "\"", "x", "=", "-", "n", "\"">>
MCDirs == {<<"/">>, <<"d">>}

Word(w) == <<w>>
And == <<" ", "&", "&", " ">>
Or == <<" ", "|", "|">>
Then == <<";", " ">>
Pipe == <<"|">>
MCWords == {"true", "false"}

One == {Word(w) : w \in {"true", "false", "nosuch"}}
Two == {a \o op \o b : a, b \in One, op \in {And, Or, Then, Pipe}}
Three == {Word(a) \o p \o Word(b) \o q \o Word("true") :
             a, b \in MCWords, p, q \in {And, Or, Then}}
Grouped == {<<"(">> \o Word(a) \o p \o Word(b) \o <<")">> \o q \o Word("true") :
               a, b \in MCWords, p \in {And, Pipe}, q \in {And, Or, Then}}

Changing == {
    SetLine("x", <<"a", "=", "b">>),
    SetLine("x", <<"a", " ", ";", " ", "false">>),
    <<"shift", " ", "9", ";", "export", " ", "\"", "b", "=", "\"", " ", "x", ";", "read", " ", "x">>,
    <<"unset", " ", "x", " ", "b">>,
    <<"cd", " ", "d", ";", "exit", " ", "2">>,
    <<"cd", ";", "hostname", " ", "b", ";", "let", " ",
      "\"", "+", "1", "2", "*", "2", "-", " ", "4", "/", "3", "\"">>,
    <<"alias", " ", "\"", "e", "=", "echo", "\"", " ", "\"", "set", "=", "true", "\"">>,
    <<"alias", " ", "\"", "echo", "=", "false", "\"">>,
    <<"unalias", " ", "e", " ", "echo", " ", "set">>,
    <<"source", " ", "s">>, <<".", " ", "t">>, <<"source">>,
    <<"eval", " ", "$", "x", " ", "\"", "|", "|", "\"", " ", "true">> }

Reading == {
    EchoLine("x"),
    <<"e", " ", "\"", "-", "n", "\"", " ", "$", "{", "x", "}", " ", "~">>,
    <<"env", ">", "x">>, <<"pwd", "<", "<", "x">>, <<"hostname">>, <<"umask">>, <<"alias">>,
    <<"cat", " ", "s", " ", "nosuch">>, <<"ls", " ", "d">>, <<"ls", " ", "s">>,
    <<"which", " ", "qemu">>, <<"which", " ", "go">>, <<"qemu">>, <<"go">>, <<"head">>,
    <<"test", " ", "\"", "-", "eq", "\"", " ", "0">>, <<"test", " ", "x", " ", "=", " ", "x">>,
    <<"help", " ", "&", " ", "true">>, <<"(", ")">>, <<"%">>, <<"$", "nosuch">> }

MCLines == One \cup Two \cup Three \cup Grouped \cup Changing \cup Reading
=============================================================================

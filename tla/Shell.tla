-------------------------------- MODULE Shell --------------------------------
(***************************************************************************)
(* The command interpreter of src/ui/shell.c.  A command runs inside       *)
(* shell_tick, which nothing interrupts but the drivers, so executing a    *)
(* line is one step: it expands variables, tokenizes, parses and executes  *)
(* the tree.  The interpreter's state is passed through as a record st;    *)
(* st.ret is what the last command returned, st.ran notes which commands   *)
(* of the line ran, st.out what they drew without messages and fixed texts.*)
(*                                                                         *)
(* The tokens, the tree and its lists of children are slab objects; kfree  *)
(* takes the objects before them for block headers and follows the links   *)
(* it finds there (heap.c), so any of these calls may end in a page fault. *)
(* Each call of shell_run_script and builtin_eval has a buffer of 4096     *)
(* bytes on the stack, which has 32768; what happens below it is not       *)
(* followed.  In both cases st.halted is set and nothing more is executed. *)
(*                                                                         *)
(* The files are fixed: mkdir and touch are actions of the module Vfs.     *)
(* Left out are commands that never return (yes, sleep with a negative     *)
(* argument) and those that dereference a null pointer (nohup and exec     *)
(* with an argument) or divide by zero (let).  No code adds a job, so the  *)
(* table of jobs is empty.  Descriptors do not run out: there are more of  *)
(* them than buffers fit on the stack.                                     *)
(***************************************************************************)
EXTENDS Integers, ShellText, ShellTables

CONSTANTS
    MaxNest,        \* buffers of shell_run_script and builtin_eval on the stack
    MaxFrees,       \* bound: calls of kfree that do no harm in a line
    MaxBuiltins,    \* size of builtins (128)
    Registrations,  \* the names given to shell_register_builtin, in order
    InitVars,       \* the variables that shell_init_context sets
    Files,          \* the texts of the files, by path
    Dirs,           \* paths of directories
    Lines           \* lines that are typed

VARIABLES
    st,      \* global_vars, global_aliases, shell_ctx
    line     \* the line just executed, or <<>> at the prompt

vars == <<st, line>>

(* shell_register_builtin: what does not fit is dropped. *)
Builtins == {<<Registrations[i]>> : i \in {j \in DOMAIN Registrations : j <= MaxBuiltins}}

(* shell_init_context. *)
Init ==
    /\ st = [vars |-> InitVars, aliases |-> <<>>, dir |-> <<"/">>,
             status |-> 0, exit |-> FALSE, halted |-> FALSE, frees |-> 0,
             ret |-> 0, nest |-> 0, ran |-> <<>>, out |-> <<>>]
    /\ line = <<>>

Return(s, r) == [s EXCEPT !.ret = r]
Set(s, name, value) == [s EXCEPT !.vars = shell_set_variable(s.vars, name, value)]
Get(s, name) == shell_get_variable(s.vars, name)
Draw(s, text) == [s EXCEPT !.out = Append(@, text)]

-----------------------------------------------------------------------------
RECURSIVE shell_resolve_variables(_, _)

(* Mutant: a value is copied up to its first blank. *)
ResolveWord(s, text) ==
    IF text = <<>> THEN <<>>
    ELSE IF Head(text) = "$"
    THEN LET name == NameAfter(Tail(text))
         IN Prefix(Get(s, name.value), WordChars) \o shell_resolve_variables(s, name.rest)
    ELSE <<Head(text)>> \o shell_resolve_variables(s, Tail(text))

(* shell_resolve_variables: values are put in without a further look at    *)
(* them; a tilde before a slash or at the end is the home directory.       *)
shell_resolve_variables(s, text) ==
    IF text = <<>> THEN <<>>
    ELSE IF Head(text) = "$"
    THEN LET name == NameAfter(Tail(text))
         IN Get(s, name.value) \o shell_resolve_variables(s, name.rest)
    ELSE (IF Head(text) = "~" /\ (Len(text) = 1 \/ text[2] = "/")
          THEN Get(s, <<"HOME">>) ELSE <<Head(text)>>)
         \o shell_resolve_variables(s, Tail(text))

(* atoi_simple: digits after blanks and an optional sign. *)
Value(d) == CHOOSE n \in 0..9 : ToString(n) = d
atoi_simple(text) ==
    LET number == After(text, Len(Prefix(text, {" ", "TAB"})))
        signed == number # <<>> /\ Head(number) \in {"-", "+"}
        digits == Prefix(IF signed THEN Tail(number) ELSE number, Digits)
        n == FoldLeft(LAMBDA acc, d : acc * 10 + Value(d), 0, digits)
    IN IF signed /\ Head(number) = "-" THEN -n ELSE n

RECURSIVE int_to_str(_)

int_to_str(n) ==
    IF n < 0 THEN <<"-">> \o int_to_str(-n)
    ELSE IF n < 10 THEN <<ToString(n)>>
    ELSE Append(int_to_str(n \div 10), ToString(n % 10))

(* Mutant: the last equals sign counts. *)
LastEquals(arg) ==
    LET at == {i \in DOMAIN arg : arg[i] = "="}
    IN IF at = {} THEN 0 ELSE CHOOSE i \in at : \A j \in at : j <= i

(* strchr(arg, '='). *)
Equals(arg) == SelectInSeq(arg, LAMBDA c : c = "=")
NameOf(arg) == SubSeq(arg, 1, Equals(arg) - 1)
ValueOf(arg) == After(arg, Equals(arg))

Operands(args) == Tail(args)

-----------------------------------------------------------------------------
(* The builtins; args[1] is the command's name. *)

(* Texts of several arguments with blanks between them. *)
Joined(texts) ==
    IF texts = <<>> THEN <<>>
    ELSE FoldLeft(LAMBDA acc, t : acc \o <<" ">> \o t, Head(texts), Tail(texts))

builtin_echo(s, args) ==
    LET bare == Len(args) > 1 /\ args[2] = <<"-", "n">>
        shown == [i \in DOMAIN After(args, IF bare THEN 2 ELSE 1) |->
                     Unquote(shell_resolve_variables(s, args[IF bare THEN i + 2 ELSE i + 1]), "").value]
    IN Return(Draw(s, Joined(shown) \o IF bare THEN <<>> ELSE <<"NL">>), 0)

builtin_cd(s, args) ==
    LET path == IF Len(args) > 1 THEN args[2] ELSE Get(s, <<"HOME">>)
        dir == shell_resolve_variables(s, path)
    IN Return(Set([s EXCEPT !.dir = dir], <<"PWD">>, dir), 0)

builtin_pwd(s) == Return(Draw(s, Append(s.dir, "NL")), 0)

(* builtin_set takes the arguments with an equals sign. *)
builtin_set(s, args) ==
    LET One(acc, arg) == IF Equals(arg) > 0 THEN Set(acc, NameOf(arg), ValueOf(arg)) ELSE acc
    IN Return(FoldLeft(One, s, Operands(args)), 0)

builtin_export(s, args) ==
    LET Export(acc, name) == [acc EXCEPT !.vars = shell_export_variable(@, name)]
        One(acc, arg) == IF Equals(arg) > 0
                         THEN Export(Set(acc, NameOf(arg), ValueOf(arg)), NameOf(arg))
                         ELSE Export(acc, arg)
    IN Return(FoldLeft(One, s, Operands(args)), 0)

builtin_unset(s, args) ==
    Return([s EXCEPT !.vars = FoldLeft(Without, @, Operands(args))], 0)

builtin_env(s) ==
    LET One(acc, v) == IF v.exported THEN Draw(acc, v.name \o <<"=">> \o v.value \o <<"NL">>) ELSE acc
    IN Return(FoldLeft(One, s, s.vars), 0)

builtin_alias(s, args) ==
    LET One(acc, arg) == IF Equals(arg) > 0
                         THEN [acc EXCEPT !.aliases = shell_add_alias(@, NameOf(arg), ValueOf(arg))]
                         ELSE acc
        Show(acc, a) == Draw(acc, <<"alias", " ">> \o a.name \o <<"=">> \o a.value \o <<"NL">>)
    IN Return(IF Len(args) = 1 THEN FoldLeft(Show, s, s.aliases)
              ELSE FoldLeft(One, s, Operands(args)), 0)

builtin_unalias(s, args) ==
    Return([s EXCEPT !.aliases = FoldLeft(Without, @, Operands(args))], 0)

(* exit notes the request; nothing reads it. *)
builtin_exit(s, args) ==
    Return([s EXCEPT !.exit = TRUE], IF Len(args) > 1 THEN atoi_simple(args[2]) ELSE s.status)

(* read copies the input line, which is empty while a command runs. *)
builtin_read(s, args) ==
    IF Len(args) < 2 THEN Return(s, 1) ELSE Return(Set(s, args[2], <<>>), 0)

(* test compares the operator itself with what follows it. *)
builtin_test(args) ==
    LET op == args[2]
        arg == args[3]
        n == atoi_simple(op)
        m == atoi_simple(arg)
    IN Len(args) > 2 /\
       CASE op = <<"-", "z">> -> arg = <<>>
         [] op = <<"-", "n">> -> arg # <<>>
         [] op \in {<<"=">>, <<"=", "=">>} -> op = arg
         [] op = <<"!", "=">> -> op # arg
         [] op = <<"-", "eq">> -> n = m
         [] op = <<"-", "ne">> -> n # m
         [] op = <<"-", "lt">> -> n < m
         [] op = <<"-", "gt">> -> n > m
         [] OTHER -> FALSE

(* umask and hostname set a variable when they have an argument. *)
SetsOwn(s, name, args) ==
    IF Len(args) > 1 THEN Return(Set(s, name, args[2]), 0) 
    ELSE Return(Draw(s, Append(Get(s, name), "NL")), 0)

builtin_shift(s, args) ==
    LET n == IF Len(args) > 1 THEN atoi_simple(args[2]) ELSE 1
        One(acc, j) == Set(acc, int_to_str(j), int_to_str(j + n))
    IN Return(IF n > 0 THEN FoldLeft(One, s, [j \in 1..9 |-> j]) ELSE s, 0)

(* Division as in C, which rounds towards zero. *)
Quotient(n, d) ==
    LET Abs(k) == IF k < 0 THEN -k ELSE k
    IN (IF (n < 0) = (d < 0) THEN 1 ELSE -1) * (Abs(n) \div Abs(d))

builtin_let(s, args) ==
    IF Len(args) < 2 THEN Return(s, 1)
    ELSE LET At(i) == atoi_simple(After(args[2], i))
             One(acc, i) == CASE args[2][i] = "+" -> acc + At(i)
                              [] args[2][i] = "-" -> acc - At(i)
                              [] args[2][i] = "*" -> acc * At(i)
                              [] args[2][i] = "/" -> Quotient(acc, At(i))
                              [] OTHER -> acc
             result == FoldLeft(One, 0, [i \in DOMAIN args[2] |-> i])
         IN Return(Set(s, <<"?">>, int_to_str(result)), IF result = 0 THEN 0 ELSE 1)

builtin_cat(s, args) ==
    LET One(acc, path) == IF path \in DOMAIN Files
                          THEN Draw(acc, Append(Files[path], "NL")) ELSE acc
    IN Return(FoldLeft(One, s, Operands(args)), 0)

builtin_ls(s, args) ==
    Return(s, IF (IF Len(args) > 1 THEN args[2] ELSE <<"/">>) \in Dirs THEN 0 ELSE 1)

builtin_which(s, args) == Return(s, IF Len(args) > 1 /\ args[2] \in Builtins THEN 0 ELSE 1)

(* Commands that print an error and return 1 ... *)
TextTools == {"head", "tail", "wc", "grep", "sed", "awk"}
FileTools == {"cp", "mv", "chmod", "chown"}
Archives == {"xargs", "find", "sort", "uniq", "tr", "cut", "paste", "join", "comm", "diff",
             "patch", "tar", "gzip", "gunzip", "bzip2", "xz", "zip", "unzip"}
Network == {"ssh", "scp", "wget", "curl", "ping"}
Services == {"route", "netstat", "ss", "iptables", "systemctl", "service", "journalctl",
             "logger", "wall", "write"}
DevTools == {"tee", "less", "more", "vi", "nano", "emacs", "vim", "gcc", "make", "git", "python",
             "perl", "ruby", "node", "rustc", "go", "zig", "docker", "kubectl", "helm",
             "terraform", "ansible", "puppet", "chef", "salt", "vagrant", "virtualbox", "qemu"}
Mounts == {"umount", "mount"}
Removers == {"rmdir", "rm"}
JobControl == {"fg", "bg"}
Unsupported ==
    TextTools \cup FileTools \cup Archives \cup Network \cup Services \cup DevTools
    \cup Mounts \cup Removers \cup JobControl \cup {"kill", "false", "nohup"}

(* ... and those that print a text and return 0. *)
Reports == {"whoami", "id", "uptime", "uname"}
Listings == {"help", "type"}
Clocks == {"sleep", "date"}
Printers ==
    Reports \cup Listings \cup Clocks
    \cup {"history", "jobs", "clear", "printf", "true", "ulimit", "trap", "df", "ps", "wait",
          "exec", "time", "ifconfig", "dmesg"}

RECURSIVE shell_execute_ast(_, _)
RECURSIVE shell_execute_text(_, _)
RECURSIVE ExecuteAll(_, _, _)

(* A text executed from a buffer on the stack. *)
Nested(s, text) ==
    IF s.nest = MaxNest THEN [s EXCEPT !.halted = TRUE]
    ELSE LET ran == shell_execute_text([s EXCEPT !.nest = @ + 1], text)
         IN [ran EXCEPT !.nest = @ - 1]

shell_run_script(s, path) == IF path \in DOMAIN Files THEN Nested(s, Files[path]) ELSE s

builtin_dot(s, args) ==
    IF Len(args) < 2 THEN Return(s, 1) ELSE Return(shell_run_script(s, args[2]), 0)

builtin_eval(s, args) ==
    IF Len(args) < 2 THEN Return(s, 0)
    ELSE Return(Nested(s, Joined(Operands(args))), 0)

(* The handler of a builtin. *)
Handle(s, name, args) ==
    CASE name = "echo" -> builtin_echo(s, args)
      [] name = "cd" -> builtin_cd(s, args)
      [] name = "pwd" -> builtin_pwd(s)
      [] name = "set" -> builtin_set(s, args)
      [] name = "export" -> builtin_export(s, args)
      [] name = "unset" -> builtin_unset(s, args)
      [] name = "env" -> builtin_env(s)
      [] name = "alias" -> builtin_alias(s, args)
      [] name = "unalias" -> builtin_unalias(s, args)
      [] name = "exit" -> builtin_exit(s, args)
      [] name = "read" -> builtin_read(s, args)
      [] name \in {"test", "["} -> Return(s, IF builtin_test(args) THEN 0 ELSE 1)
      [] name = "umask" -> SetsOwn(s, <<"UMASK">>, args)
      [] name = "hostname" -> SetsOwn(s, <<"HOSTNAME">>, args)
      [] name = "shift" -> builtin_shift(s, args)
      [] name = "let" -> builtin_let(s, args)
      [] name = "cat" -> builtin_cat(s, args)
      [] name = "ls" -> builtin_ls(s, args)
      [] name = "which" -> builtin_which(s, args)
      [] name \in {".", "source"} -> builtin_dot(s, args)
      [] name = "eval" -> builtin_eval(s, args)
      [] name \in Unsupported -> Return(s, 1)
      [] name \in Printers -> Return(s, 0)

-----------------------------------------------------------------------------
(* A command: the name is expanded once more and looked up as an alias,    *)
(* then as a builtin.  Commands of the line itself are noted in ran.       *)
ExecuteCommand(s, node) ==
    LET name == shell_resolve_alias(s.aliases, shell_resolve_variables(s, node.args[1]))
        noted == IF s.nest = 0 THEN [s EXCEPT !.ran = Append(@, node.left)] ELSE s
    IN IF s.halted THEN s
       ELSE IF node.args = <<>> THEN Return(s, 0)
       ELSE IF name \in Builtins THEN Handle(noted, name[1], node.args)
       ELSE Return(noted, 127)

(* Children one after the other; in a sequence each one sets the status. *)
ExecuteAll(s, children, sequence) ==
    IF children = <<>> THEN s
    ELSE LET after == shell_execute_ast(s, Head(children))
         IN ExecuteAll(IF sequence THEN [after EXCEPT !.status = after.ret] ELSE after,
                       Tail(children), sequence)

(* Mutant: || runs its right side when the left one succeeds. *)
AstOrRunsOn(s, node) ==
    CASE node.type \in {"SEQUENCE", "PIPELINE"} ->
            ExecuteAll(Return(s, 0), node.children, node.type = "SEQUENCE")
      [] node.type \in {"AND", "OR"} ->
            LET left == shell_execute_ast(s, node.children[1])
            IN IF left.ret = 0 THEN shell_execute_ast(left, node.children[2]) ELSE left
      [] node.type = "SUBSHELL" ->
            IF node.children = <<>> THEN Return(s, 0) ELSE shell_execute_ast(s, node.children[1])
      [] node.type = "COMMAND" -> ExecuteCommand(s, node)

(* shell_execute_ast. *)
shell_execute_ast(s, node) ==
    CASE node.type \in {"SEQUENCE", "PIPELINE"} ->
            ExecuteAll(Return(s, 0), node.children, node.type = "SEQUENCE")
      [] node.type \in {"AND", "OR"} ->
            LET left == shell_execute_ast(s, node.children[1])
            IN IF (left.ret = 0) = (node.type = "AND")
               THEN shell_execute_ast(left, node.children[2]) ELSE left
      [] node.type = "SUBSHELL" ->
            IF node.children = <<>> THEN Return(s, 0) ELSE shell_execute_ast(s, node.children[1])
      [] node.type = "COMMAND" -> ExecuteCommand(s, node)

(* One of the calls of kfree: it does no harm, or the kernel halts. *)
Free(s) == [s EXCEPT !.halted = @ \/ s.frees = 0, !.frees = IF @ > 0 THEN @ - 1 ELSE 0]

RECURSIVE Grown(_)

(* ast_add_child has replaced the children of a node and freed the old list. *)
Grown(node) ==
    /\ node.type # "COMMAND"
    /\ Len(node.children) > 1 \/ \E i \in DOMAIN node.children : Grown(node.children[i])

(* shell_execute_command: the parser frees lists of children, and          *)
(* ast_free and tokenizer_free_tokens everything, the texts even twice.    *)
shell_execute_text(s, text) ==
    LET ast == parse_tokens(tokenize(shell_resolve_variables(s, text)))
        parsed == IF ast # None /\ Grown(ast) THEN Free(s) ELSE s
    IN IF s.halted \/ text = <<>> THEN s
       ELSE Free(IF ast = None THEN s ELSE shell_execute_ast(parsed, ast))

shell_execute_command(l) ==
    /\ line = <<>>
    /\ line' = l
    /\ \E n \in 0..MaxFrees :
          st' = [shell_execute_text([st EXCEPT !.frees = n], l) EXCEPT !.frees = 0]

(* shell_tick returns to the prompt; what was drawn and run is forgotten. *)
Prompt ==
    /\ line # <<>> /\ ~st.halted
    /\ line' = <<>>
    /\ st' = [st EXCEPT !.ran = <<>>, !.out = <<>>, !.ret = 0]

Next == Prompt \/ \E l \in Lines : shell_execute_command(l)

Spec == Init /\ [][Next]_vars

-----------------------------------------------------------------------------
(* Type invariant; the tables keep their bounds. *)
TypeOK ==
    /\ Len(st.vars) <= MaxVars /\ Len(st.aliases) <= MaxAliases
    /\ st.status \in Int /\ st.exit \in BOOLEAN
    /\ st.nest \in 0..MaxNest

(* No sequence of set, export, unset, cd, read, let and shift enters a     *)
(* name twice: what a variable expands to is what was last assigned.       *)
NamesUnique == \A i, j \in DOMAIN st.vars : st.vars[i].name = st.vars[j].name => i = j

(* The tables of variables and aliases keep their bounds, and names stay   *)
(* unique, through every sequence of builtins that change them.            *)
TablesSound == TypeOK /\ NamesUnique

(* The commands of a line run from left to right, each at most once,       *)
(* whatever the tree looks like that the parser makes of the line.         *)
RunsInOrder == \A i, j \in DOMAIN st.ran : i < j => st.ran[i] > st.ran[j]

(* Lines of single words that all are true, false or no command, joined by *)
(* the operators of a sequence, with no semicolon behind && or ||.         *)
Status(word) == CASE word = <<"true">> -> 0 [] word = <<"false">> -> 1 [] OTHER -> 127
Simple(toks) ==
    /\ Len(toks) % 2 = 0
    /\ \A i \in DOMAIN toks :
          /\ i % 2 = 1 => toks[i].type = "WORD" /\ toks[i].value \in {<<"true">>, <<"false">>, <<"nosuch">>}
          /\ i % 2 = 0 /\ i < Len(toks) => toks[i].type \in {"AND", "OR", "SEMICOLON"}
          /\ toks[i].type = "SEMICOLON" => \A j \in 1..i : toks[j].type \notin {"AND", "OR"}

(* What has run, and the status, after the first n of the words. *)
Reference(toks) ==
    LET after[n \in 0..(Len(toks) \div 2)] ==
            IF n = 0 THEN [ran |-> <<>>, status |-> 0]
            ELSE LET op == IF n = 1 THEN "SEMICOLON" ELSE toks[2 * n - 2].type
                     before == after[n - 1]
                     runs == \/ op = "SEMICOLON"
                             \/ op = "AND" /\ before.status = 0
                             \/ op = "OR" /\ before.status # 0
                 IN IF runs THEN [ran |-> Append(before.ran, Len(toks) - 2 * n + 2),
                                  status |-> Status(toks[2 * n - 1].value)]
                    ELSE before
    IN after[Len(toks) \div 2]

(* The trees built for && and || have the meaning of the line read from    *)
(* left to right: the same commands run and the same status results,       *)
(* unless the kernel halts on the way.                                     *)
ShortCircuits ==
    LET toks == tokenize(line)
    IN line # <<>> /\ ~st.halted /\ "$" \notin ToSet(line) /\ Simple(toks) =>
          st.ran = Reference(toks).ran /\ st.ret = Reference(toks).status

(* A quoted assignment stores the text between the quotes as it was typed, *)
(* also when it holds blanks, operators or another equals sign, unless the *)
(* table is full or set is an alias.                                       *)
SetLine(name, text) == <<"set", " ", "\"", name, "=">> \o text \o <<"\"">>
Untouched == {"$", "\"", "\\", "~"}
AssignmentsKept ==
    \A n \in Letters :
        /\ IsPrefix(<<"set", " ", "\"", n, "=">>, line)
        /\ shell_resolve_alias(st.aliases, <<"set">>) = <<"set">>
        =>
            LET text == SubSeq(line, 6, Len(line) - 1)
            IN line = SetLine(n, text) /\ ToSet(text) \cap Untouched = {} =>
                  \/ Get(st, <<n>>) = text
                  \/ Find(st.vars, <<n>>) = 0 /\ Len(st.vars) = MaxVars

(* echo of a quoted variable draws exactly its value, although the value   *)
(* went through the tokenizer again, unless echo is an alias; a value that *)
(* is echo's option is taken for that.                                     *)
EchoLine(name) == <<"echo", " ", "\"", "$", name, "\"">>
EchoFaithful ==
    \A n \in Letters :
        LET value == Get(st, <<n>>)
        IN /\ line = EchoLine(n) /\ ToSet(value) \cap Untouched = {}
           /\ shell_resolve_alias(st.aliases, <<"echo">>) = <<"echo">>
           => st.out = IF value = <<"-", "n">> THEN <<<<>>>> ELSE <<Append(value, "NL")>>
=============================================================================

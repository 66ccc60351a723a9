------------------------------ MODULE ShellText ------------------------------
(***************************************************************************)
(* The tokenizer and the parser of src/ui/shell.c as functions.  A text is *)
(* a sequence of symbols: punctuation marks stand for themselves, a letter *)
(* symbol for one or more letters.  A token has a type and a text; a node  *)
(* of the syntax tree has a type, children and, if it is a command, its    *)
(* arguments.  left, the number of tokens not yet read at a command, is    *)
(* added to tell commands apart.  kmalloc succeeds (it panics otherwise),  *)
(* and texts fit into the buffers.                                         *)
(***************************************************************************)
EXTENDS Naturals, Sequences, SequencesExt, TLC

CONSTANTS
    Letters,  \* symbols made of letters and underscores
    Digits    \* symbols that are digits

NameChars == Letters \cup Digits
WordChars == NameChars \cup {".", "-", "/"}
Blank == {" ", "TAB", "NL"}

(* The longest prefix of s in S, and what follows n symbols of s. *)
Prefix(s, S) ==
    LET i == SelectInSeq(s, LAMBDA c : c \notin S)
    IN IF i = 0 THEN s ELSE SubSeq(s, 1, i - 1)
After(s, n) == SubSeq(s, n + 1, Len(s))

Tok(type, value) == [type |-> type, value |-> value]

(* Types of the tokens of two and of one character. *)
PairType ==
    <<"|", "|">> :> "OR" @@ <<"&", "&">> :> "AND" @@ <<">", ">">> :> "APPEND" @@
    <<"<", "<">> :> "IN" @@ <<"!", "=">> :> "OPERATOR"

CharType ==
    "|" :> "PIPE" @@ ">" :> "OUT" @@ "<" :> "IN" @@ "&" :> "BACKGROUND" @@
    ";" :> "SEMICOLON" @@ "(" :> "LPAREN" @@ ")" :> "RPAREN" @@
    "=" :> "OPERATOR" @@ "+" :> "OPERATOR" @@ "-" :> "OPERATOR" @@
    "*" :> "OPERATOR" @@ "/" :> "OPERATOR" @@ "%" :> "OPERATOR"

Escaped(c) == CASE c = "n" -> "NL" [] c = "t" -> "TAB" [] OTHER -> c

RECURSIVE Unquote(_, _)

(* The text up to the closing quote or the end, without backslashes. *)
Unquote(s, quote) ==
    IF s = <<>> THEN [value |-> <<>>, rest |-> <<>>]
    ELSE IF Head(s) = quote THEN [value |-> <<>>, rest |-> Tail(s)]
    ELSE IF Head(s) = "\\" /\ Len(s) > 1
    THEN LET more == Unquote(After(s, 2), quote)
         IN [more EXCEPT !.value = <<Escaped(s[2])>> \o @]
    ELSE LET more == Unquote(Tail(s), quote) IN [more EXCEPT !.value = <<Head(s)>> \o @]

(* A variable name after a dollar, with or without braces. *)
NameAfter(s) ==
    IF s # <<>> /\ Head(s) = "{"
    THEN LET i == SelectInSeq(s, LAMBDA c : c = "}")
         IN IF i = 0 THEN [value |-> Tail(s), rest |-> <<>>]
            ELSE [value |-> SubSeq(s, 2, i - 1), rest |-> After(s, i)]
    ELSE LET name == Prefix(s, NameChars) IN [value |-> name, rest |-> After(s, Len(name))]

(* The first token of s, which does not begin with a blank. *)
FirstToken(s) ==
    LET c == Head(s)
        pair == IF Len(s) > 1 THEN <<c, s[2]>> ELSE <<c>>
        Of(type, text) == [tok |-> Tok(type, text.value), rest |-> text.rest]
        Run(type, S) == LET value == Prefix(s, S)
                        IN [tok |-> Tok(type, value), rest |-> After(s, Len(value))]
    IN CASE pair \in DOMAIN PairType -> [tok |-> Tok(PairType[pair], pair), rest |-> After(s, 2)]
         [] c \in {"\"", "'"} -> Of("STRING", Unquote(Tail(s), c))
         [] c = "$" -> Of("WORD", NameAfter(Tail(s)))
         [] c \in Letters \cup {"."} -> Run("WORD", WordChars)
         [] c \in Digits -> Run("NUMBER", Digits)
         [] OTHER -> [tok |-> Tok(IF c \in DOMAIN CharType THEN CharType[c] ELSE "ERROR", <<c>>),
                      rest |-> Tail(s)]

RECURSIVE tokenize(_)

tokenize(s) ==
    IF s = <<>> THEN <<Tok("EOF", <<>>)>>
    ELSE IF Head(s) \in Blank THEN tokenize(Tail(s))
    ELSE <<FirstToken(s).tok>> \o tokenize(FirstToken(s).rest)

-----------------------------------------------------------------------------
(* The parser.  Each function takes the tokens and returns the node and    *)
(* the tokens that it leaves; None is the null pointer.                    *)
None == [type |-> "none"]
Node(type, children) == [type |-> type, children |-> children]

ArgTypes == {"WORD", "STRING", "NUMBER"}

(* parse_command: arguments up to the first other token.  The branches for *)
(* redirections are never reached, as the loop ends before them.           *)
parse_command(toks) ==
    IF Head(toks).type = "EOF" THEN [node |-> None, rest |-> toks]
    ELSE LET n == SelectInSeq(toks, LAMBDA t : t.type \notin ArgTypes) - 1
         IN [node |-> [type |-> "COMMAND", left |-> Len(toks),
                       args |-> [i \in 1..n |-> toks[i].value]],
             rest |-> After(toks, n)]

RECURSIVE MorePipeline(_, _)

MorePipeline(cmds, toks) ==
    IF Head(toks).type # "PIPE" THEN [node |-> Node("PIPELINE", cmds), rest |-> toks]
    ELSE LET next == parse_command(Tail(toks))
         IN IF next.node = None THEN [node |-> Node("PIPELINE", cmds), rest |-> next.rest]
            ELSE MorePipeline(Append(cmds, next.node), next.rest)

parse_pipeline(toks) ==
    LET first == parse_command(toks)
    IN IF first.node = None THEN first ELSE MorePipeline(<<first.node>>, first.rest)

RECURSIVE parse_expression(_)

(* A subshell holds one pipeline or subshell. *)
parse_expression(toks) ==
    IF Head(toks).type # "LPAREN" THEN parse_pipeline(toks)
    ELSE LET inner == parse_expression(Tail(toks))
         IN [node |-> Node("SUBSHELL", IF inner.node = None THEN <<>> ELSE <<inner.node>>),
             rest |-> IF Head(inner.rest).type = "RPAREN" THEN Tail(inner.rest) ELSE inner.rest]

(* Mutant: the new command becomes the left side. *)
JoinSwapped(op, seq, expr) ==
    IF op = "SEMICOLON" THEN [seq EXCEPT !.children = Append(@, expr)]
    ELSE Node(op, <<expr, seq>>)

(* How parse_sequence joins what it has with the next expression: after a  *)
(* semicolon the expression becomes a child of whatever node there is.     *)
Join(op, seq, expr) ==
    IF op = "SEMICOLON" THEN [seq EXCEPT !.children = Append(@, expr)]
    ELSE Node(op, <<seq, expr>>)

RECURSIVE MoreSequence(_, _)

MoreSequence(seq, toks) ==
    IF Head(toks).type \notin {"SEMICOLON", "AND", "OR"} THEN seq
    ELSE LET next == parse_expression(Tail(toks))
         IN IF next.node = None THEN seq
            ELSE MoreSequence(Join(Head(toks).type, seq, next.node), next.rest)

(* parse_sequence; whatever follows is left unread. *)
parse_tokens(toks) ==
    LET first == parse_expression(toks)
    IN IF first.node = None THEN None
       ELSE MoreSequence(Node("SEQUENCE", <<first.node>>), first.rest)
=============================================================================

--------------------------- MODULE InventoryScan ---------------------------
(***************************************************************************)
(* The lexical scanner of the compatibility inventory: what mask_noncode   *)
(* blanks, and the findings scan_text reports in what is left.             *)
(*                                                                         *)
(* A text is a sequence of tokens, one for each piece of syntax that the   *)
(* scanner tells apart: "M" stands for any module path, "x" for any other  *)
(* identifier or literal, "op" for an operator other than =, == and !=,    *)
(* "<:x<" for the start of a Camlp quotation, "qopen" and "qclose" for the *)
(* marks of a quoted string, "quote", "tick", "prime", "escape" and "nl"   *)
(* for the double quote, the backtick, the single quote, the backslash and *)
(* the newline.  White space between tokens is left out, and a masked      *)
(* token is white space.                                                   *)
(***************************************************************************)
EXTENDS Integers, Sequences, FiniteSets, SequencesExt

Dialects == {"ocaml", "camlp_legacy_generated_ml", "verification_source_vhl"}

\* The token of a text at a position, and an empty one outside of it.
At(text, i) == IF i \in DOMAIN text THEN text[i] ELSE ""

FirstOf(S, default) == IF S = {} THEN default ELSE Min(S)

Position(text, i, token) ==
    FirstOf({k \in DOMAIN text : k >= i /\ text[k] = token}, Len(text) + 1)

\* The tokens of one character that a character literal may hold.
Characters == {"x", "(", ")", ".", "=", ":", "quote", "tick"}

IsCharLiteral(text, i) ==
    /\ At(text, i) = "prime"
    /\ \/ At(text, i + 1) \in Characters /\ At(text, i + 2) = "prime"
       \/ /\ At(text, i + 1) = "escape"
          /\ At(text, i + 2) \in Characters \cup {"prime", "escape"}
          /\ At(text, i + 3) = "prime"

\* A bug: a comment ends at the first end mark, whatever it contains.
FlatCommentEnd(text, i) == Position(text, i, "*)")

\* The last token of the construct that opens at i, and the position after the
\* text where the construct is never closed.
CommentEnd(text, i) ==
    LET Depth(k) == Cardinality({j \in i..k : text[j] = "(*"})
                        - Cardinality({j \in i..k : text[j] = "*)"})
    IN  FirstOf({k \in i..Len(text) : Depth(k) = 0}, Len(text) + 1)

\* A bug: an escaped quote ends the string.
PlainStringEnd(text, i) == Position(text, i + 1, "quote")

StringEnd(text, i) ==
    LET escaped[k \in 0..Len(text)] ==
            k > i + 1 /\ text[k - 1] = "escape" /\ ~escaped[k - 1]
    IN  FirstOf({k \in (i + 1)..Len(text) : text[k] = "quote" /\ ~escaped[k]},
                Len(text) + 1)

Construct(dialect, text, i) ==
    CASE text[i] = "--" /\ dialect = "verification_source_vhl" -> "line"
      [] text[i] = "(*" -> "comment"
      [] text[i] = "<:x<" -> "camlp_quotation"
      [] text[i] = "qopen" -> "quoted_string"
      [] text[i] = "quote" -> "string"
      [] text[i] = "tick" /\ dialect # "camlp_legacy_generated_ml" -> "hol_quotation"
      [] IsCharLiteral(text, i) -> "char"
      [] OTHER -> "code"

EndOf(construct, text, i) ==
    CASE construct = "line" -> Position(text, i, "nl") - 1
      [] construct = "comment" -> CommentEnd(text, i)
      [] construct = "camlp_quotation" -> Position(text, i + 1, ">>")
      [] construct = "quoted_string" -> Position(text, i + 1, "qclose")
      [] construct = "string" -> StringEnd(text, i)
      [] construct = "hol_quotation" -> Position(text, i + 1, "tick")
      [] construct = "char" -> IF text[i + 1] = "escape" THEN i + 3 ELSE i + 2
      [] OTHER -> i

ConstructEnd(dialect, text, i) == EndOf(Construct(dialect, text, i), text, i)

\* The masking loop tests for a construct and goes on after the end of it.
Visit(dialect, text, loop, i) ==
    IF i = loop.index
    THEN [index |-> ConstructEnd(dialect, text, i) + 1, visited |-> loop.visited \cup {i}]
    ELSE loop

\* Where it tests next and where it has done so, before the text and after each
\* position of it.
Loop(dialect, text) ==
    LET loop[n \in 0..Len(text)] ==
            IF n = 0 THEN [index |-> 1, visited |-> {}]
                     ELSE Visit(dialect, text, loop[n - 1], n)
    IN  loop

LoopPositions(dialect, text) == Loop(dialect, text)[Len(text)].visited

Openings(dialect, text) ==
    {i \in LoopPositions(dialect, text) : Construct(dialect, text, i) # "code"}

Masked(dialect, text) ==
    {k \in DOMAIN text : \E i \in Openings(dialect, text) :
                             k \in i..ConstructEnd(dialect, text, i)}

\* The lexical notes: constructs that the text does not close.
Notes(dialect, text) ==
    {[at |-> i, kind |-> Construct(dialect, text, i)] :
        i \in {j \in Openings(dialect, text) :
                  ConstructEnd(dialect, text, j) > Len(text)}}

LineOf(text, i) == 1 + Cardinality({k \in DOMAIN text : k < i /\ text[k] = "nl"})

\* The members of a set of positions, in the order of the text.
InOrder(text, positions) ==
    LET before[n \in 0..Len(text)] ==
            IF n = 0 THEN <<>>
            ELSE before[n - 1] \o (IF n \in positions THEN <<n>> ELSE <<>>)
    IN  before[Len(text)]

\* What the patterns see: the positions of the code, without blanks.
CodePositions(dialect, text) ==
    InOrder(text, {i \in DOMAIN text \ Masked(dialect, text) : text[i] # "nl"})

\* The kind of a module declaration, from the rest of its line up to a ;; mark.
DeclarationCategory(rest) ==
    LET tail == SubSeq(rest, 1, Position(rest, 1, ";;") - 1)
        Binds(words) == \E n \in DOMAIN tail :
                            tail[n] = "=" /\ \A m \in DOMAIN words :
                                                At(tail, n + m) \in words[m]
    IN  CASE \/ At(tail, 1) = "("
             \/ \E n \in DOMAIN tail : tail[n] = "functor" /\ At(tail, n + 1) = "("
               -> "module.declaration_functor"
          [] Binds(<<{"struct"}>>) -> "module.declaration_structure"
          [] Binds(<<{"M"}, {"", ":"}>>) -> "module.declaration_alias"
          [] Binds(<<{"("}, {"val"}>>) -> "module.declaration_first_class_unpack"
          [] OTHER -> "module.declaration_other"

PointerCategory(code, k) ==
    IF At(code, k - 1) = "(" /\ At(code, k + 1) = ")"
    THEN IF At(code, k + 2) = "=" THEN "pointer_equality.operator_binding"
                                  ELSE "pointer_equality.operator_reference"
    ELSE "pointer_equality.infix_use"

\* The code has these words from the k-th token on.
Seen(code, k, words) == \A n \in DOMAIN words : At(code, k + n - 1) \in words[n]

StartsLine(line, n) == n = 1 \/ line[n - 1] < line[n]

\* What follows the k-th token on its line.
RestOfLine(code, line, k) ==
    SelectSeq([m \in 1..(Len(code) - k) |->
                  IF line[k + m] = line[k] THEN code[k + m] ELSE ""],
              LAMBDA token : token # "")

\* The categories of the patterns that match at the k-th token of the code; line
\* is the line of every token.
OpenCategories(code, k) ==
    {c \in {"open.local_let"} : Seen(code, k, <<{"let"}, {"open"}, {"M"}, {"in"}>>)}
    \cup {c \in {"open.local_parenthesized"} : Seen(code, k, <<{"M"}, {"."}, {"("}>>)}
    \cup {c \in {"open.declaration"} :
             /\ Seen(code, k, <<{"open"}, {"M", "struct"}>>)
             /\ ~(/\ At(code, k - 1) = "let"
                  /\ At(code, k + 1) = "M" /\ At(code, k + 2) = "in")}
    \cup {c \in {"module.include"} : Seen(code, k, <<{"include"}, {"M", "struct"}>>)}

\* Where the name stands of the module that is declared from the k-th token on.
NameOf(code, k) ==
    LET word == IF At(code, k) = "let" THEN k + 1 ELSE k
    IN  IF At(code, word + 1) = "rec" THEN word + 2 ELSE word + 1

\* A let that starts a line takes the module of the next one with it.
Declares(code, line, k) ==
    /\ \/ Seen(code, k, <<{"module"}>>)
       \/ Seen(code, k, <<{"let"}, {"module"}>>)
    /\ At(code, NameOf(code, k)) = "M"
    /\ StartsLine(line, k)
    /\ ~(At(code, k - 1) = "let" /\ StartsLine(line, k - 1))

ModuleCategories(code, line, k) ==
    {c \in {DeclarationCategory(RestOfLine(code, line, NameOf(code, k)))} :
        Declares(code, line, k)}
    \cup {c \in {"module.type_declaration"} :
             Seen(code, k, <<{"module"}, {"type"}, {"M"}>>) /\ StartsLine(line, k)}
    \cup {c \in {"module.first_class_pack"} : Seen(code, k, <<{"("}, {"module"}>>)}
    \cup {c \in {"module.first_class_unpack"} :
             /\ Seen(code, k, <<{"("}, {"val"}>>)
             /\ \E m \in DOMAIN code :
                   /\ m > k + 1 /\ code[m] = ":" /\ line[m] = line[k + 1]
                   /\ \A n \in (k + 2)..m : code[n] \notin {")", "*)"}}

ReviewCategories(code, k) ==
    {c \in {PointerCategory(code, k)} : At(code, k) \in {"==", "!="}}
    \cup {c \in {"ffi.custom_call"} : At(code, k) = "customFFI"}
    \cup {c \in {"ffi.ocaml_external_declaration"} :
             Seen(code, k, <<{"external"}, {"x"}, {":"}>>)}

Categories(code, line, k) ==
    OpenCategories(code, k) \cup ModuleCategories(code, line, k)
        \cup ReviewCategories(code, k)

\* The command of a custom call is looked up in the text, not in the code.
Command(text, i) ==
    LET k == FirstOf({j \in (i + 1)..Len(text) : text[j] # "nl"}, Len(text) + 1)
    IN  IF At(text, k) = "quote" /\ StringEnd(text, k) <= Len(text)
        THEN SubSeq(text, k + 1, StringEnd(text, k) - 1)
        ELSE <<"dynamic">>

\* Whether the body of M.( is an operator reference or a general expression.
BodyForm(code, k) ==
    IF At(code, k + 3) \in {"op", "=", "==", "!="} /\ At(code, k + 4) = ")"
    THEN "operator_reference" ELSE "general_expression"

\* The findings in the code that is left at these positions of the text.
FindingsAt(text, position) ==
    LET Found(code, line) ==
            UNION {{[category |-> c, at |-> position[k], line |-> line[k],
                     details |-> CASE c = "ffi.custom_call" -> Command(text, position[k])
                                   [] c = "open.local_parenthesized" -> <<BodyForm(code, k)>>
                                   [] OTHER -> <<>>] : c \in Categories(code, line, k)} :
                   k \in DOMAIN position}
    IN  Found([k \in DOMAIN position |-> text[position[k]]],
              [k \in DOMAIN position |-> LineOf(text, position[k])])

Findings(dialect, text) == FindingsAt(text, CodePositions(dialect, text))

PointerCategories ==
    {"pointer_equality.infix_use", "pointer_equality.operator_binding",
     "pointer_equality.operator_reference"}

-----------------------------------------------------------------------------
(* What the documentation says of the scanner, as an automaton that reads   *)
(* one token after the other and knows only where it is.                    *)

Inside(mode, depth) == [mode |-> mode, depth |-> depth]

InCode == Inside("code", 0)

Enter(dialect, text, i) ==
    CASE text[i] = "(*" -> Inside("comment", 1)
      [] text[i] = "quote" -> Inside("string", 0)
      [] text[i] = "<:x<" -> Inside(">>", 0)
      [] text[i] = "qopen" -> Inside("qclose", 0)
      [] text[i] = "tick" /\ dialect # "camlp_legacy_generated_ml" -> Inside("tick", 0)
      [] text[i] = "--" /\ dialect = "verification_source_vhl" -> Inside("nl", 0)
      [] IsCharLiteral(text, i) ->
             Inside("char", IF text[i + 1] = "escape" THEN 3 ELSE 2)
      [] OTHER -> InCode

Advance(before, token) ==
    CASE before.mode = "comment" ->
             LET depth == before.depth + (IF token = "(*" THEN 1 ELSE 0)
                                       - (IF token = "*)" THEN 1 ELSE 0)
             IN  IF depth = 0 THEN InCode ELSE Inside("comment", depth)
      [] before.mode = "string" ->
             IF token = "escape" THEN Inside("escaped", 0)
             ELSE IF token = "quote" THEN InCode ELSE before
      [] before.mode = "escaped" -> Inside("string", 0)
      [] before.mode = "char" ->
             IF before.depth = 1 THEN InCode ELSE Inside("char", before.depth - 1)
      [] OTHER -> IF token = before.mode THEN InCode ELSE before

Step(dialect, text, before, i) ==
    IF before = InCode THEN Enter(dialect, text, i) ELSE Advance(before, text[i])

\* Where the automaton is before the text and after each position of it.
Lexer(dialect, text) ==
    LET at[n \in 0..Len(text)] ==
            IF n = 0 THEN InCode ELSE Step(dialect, text, at[n - 1], n)
    IN  at

\* The positions that are code.
LexedCode(dialect, text) ==
    LET at == Lexer(dialect, text)
    IN  {i \in DOMAIN text : at[i - 1] = InCode /\ at[i] = InCode}

\* Positions of the words that need a review wherever they are code.
ReviewWords(dialect, text) ==
    {i \in LexedCode(dialect, text) : text[i] \in {"==", "!=", "customFFI"}}
=============================================================================

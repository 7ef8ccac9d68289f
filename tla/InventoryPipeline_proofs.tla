----------------------- MODULE InventoryPipeline_proofs -----------------------
(***************************************************************************)
(* Proofs about the compatibility inventory, for any sources, texts,       *)
(* commits, rules and ledger entries: what the scanner leaves is the code  *)
(* of the documented lexer, and what an accepted check has read fits       *)
(* together.                                                               *)
(***************************************************************************)
EXTENDS InventoryPipeline, FiniteSetTheorems, TLAPS

-----------------------------------------------------------------------------
(* Induction.  The strict subsets of the finite sets of naturals are well   *)
(* founded, and so are the naturals, as the intervals 1..n.                 *)

\* Every set of naturals that is not empty has a least member.
LEMMA LeastElement ==
  ASSUME NEW T \in SUBSET Nat, T # {}
  PROVE  \E x \in T : \A y \in T : x <= y
<1> DEFINE Below == {1..n : n \in T}
<1>1. Below \subseteq FiniteSubsetsOf(Nat) /\ Below # {}
  <2>1. \A n \in Nat : IsFiniteSet(1..n) /\ 1..n \subseteq Nat
    BY FS_Interval
  <2> QED BY <2>1 DEF FiniteSubsetsOf
<1>2. IsWellFoundedOn(StrictSubsetOrdering(Nat), FiniteSubsetsOf(Nat))
  BY FS_StrictSubsetOrderingWellFounded
<1> HIDE DEF Below
<1>3. PICK b \in Below : \A c \in Below : ~(<<c, b>> \in StrictSubsetOrdering(Nat))
  BY <1>1, <1>2, WFMin
<1>4. PICK x \in T : b = 1..x
  BY DEF Below
<1>5. ASSUME NEW y \in T, y < x
      PROVE  FALSE
  <2>1. 1..y \in Below
    BY DEF Below
  <2>2. x \in 1..x /\ x \notin 1..y
    BY <1>5
  <2>3. 1..y \subseteq 1..x /\ 1..y # 1..x
    BY <2>2, <1>5
  <2>4. <<1..y, 1..x>> \in StrictSubsetOrdering(Nat)
    BY <2>3 DEF StrictSubsetOrdering
  <2> QED
    BY <2>1, <2>4, <1>3, <1>4
<1> QED
  BY <1>5

\* A set of numbers from a on that has a, and with each number the next one up to
\* b, has all of a..b.
LEMMA IntervalInduction ==
  ASSUME NEW S, NEW a \in Nat, NEW b \in Nat, a \in S,
         \A n \in a..b : n \in S /\ n < b => n + 1 \in S
  PROVE  a..b \subseteq S
<1> SUFFICES ASSUME (a..b) \ S # {}
             PROVE  FALSE
  OBVIOUS
<1>1. PICK x \in (a..b) \ S : \A y \in (a..b) \ S : x <= y
  <2>1. (a..b) \ S \in SUBSET Nat
    OBVIOUS
  <2> QED BY <2>1, LeastElement
<1>2. x - 1 \in a..b /\ x - 1 < b
  BY <1>1
<1>3. x - 1 \in S
  BY <1>1, <1>2
<1>4. x \in S
  BY <1>1, <1>2, <1>3
<1> QED
  BY <1>1, <1>4

IsStep(F, S, m) == F \in [S \X (1..m) -> S]

\* A recursive definition over 0..m has a solution.
LEMMA Recursion ==
  ASSUME NEW S, NEW base \in S, NEW m \in Nat, NEW F, IsStep(F, S, m)
  PROVE  \E g \in [0..m -> S] : g[0] = base /\ \A n \in 1..m : g[n] = F[<<g[n - 1], n>>]
<1> USE DEF IsStep
<1> DEFINE Solves(g, k) == /\ g \in [0..k -> S] /\ g[0] = base
                           /\ \A n \in 1..k : g[n] = F[<<g[n - 1], n>>]
           Solvable == {k \in 0..m : \E g : Solves(g, k)}
<1>1. 0 \in Solvable
  <2>1. Solves([n \in 0..0 |-> base], 0)
    OBVIOUS
  <2> HIDE DEF Solves
  <2> QED BY <2>1
<1>2. ASSUME NEW k \in 0..m, k \in Solvable, k < m
      PROVE  k + 1 \in Solvable
  <2>1. PICK g : Solves(g, k)
    BY <1>2
  <2> DEFINE h == [n \in 0..(k + 1) |-> IF n = k + 1 THEN F[<<g[k], k + 1>>] ELSE g[n]]
  <2>0. k \in Nat /\ k \in 0..(k + 1) /\ k + 1 \in 0..(k + 1) /\ 0 \in 0..(k + 1) /\ k # k + 1
    BY <1>2
  <2>2. h[k + 1] = F[<<h[k], k + 1>>] /\ h[0] = base
    <3>1. h[k + 1] = F[<<g[k], k + 1>>] /\ h[k] = g[k] /\ h[0] = g[0]
      BY <2>0
    <3> QED BY <3>1, <2>1
  <2>3. \A n \in 1..k : h[n] = F[<<h[n - 1], n>>]
    BY <2>1
  <2>4. h \in [0..(k + 1) -> S]
    <3>1. F[<<g[k], k + 1>>] \in S
      BY <2>1, <1>2
    <3> QED BY <3>1, <2>1
  <2> HIDE DEF h
  <2>5. \A n \in 1..(k + 1) : h[n] = F[<<h[n - 1], n>>]
    BY <2>2, <2>3
  <2>6. Solves(h, k + 1)
    BY <2>2, <2>4, <2>5
  <2> HIDE DEF Solves
  <2> QED BY <2>6, <1>2
<1> HIDE DEF Solvable
<1>3. 0..m \subseteq Solvable
  BY <1>1, <1>2, IntervalInduction
<1> QED
  BY <1>3 DEF Solvable

-----------------------------------------------------------------------------
(* Searching a text.                                                        *)

Texts == Seq(STRING)

LEMMA TextType ==
  ASSUME NEW text \in Texts
  PROVE  /\ Len(text) \in Nat /\ DOMAIN text = 1..Len(text)
         /\ \A k \in 1..Len(text) : text[k] \in STRING
BY DEF Texts

\* The least member of a set of positions, if there is one.
LEMMA FirstOfIsLeast ==
  ASSUME NEW S \in SUBSET Nat, NEW default
  PROVE  /\ S = {} => FirstOf(S, default) = default
         /\ S # {} => FirstOf(S, default) \in S /\ \A k \in S : FirstOf(S, default) <= k
<1>1. CASE S = {}
  BY <1>1 DEF FirstOf
<1>2. CASE S # {}
  <2>1. \E x \in S : \A y \in S : x <= y
    BY <1>2, LeastElement
  <2>2. Min(S) \in S /\ \A y \in S : Min(S) <= y
    BY <2>1 DEF Min
  <2> QED BY <2>2, <1>2 DEF FirstOf
<1> QED
  BY <1>1, <1>2

\* Position finds the next occurrence of a token.
LEMMA PositionFinds ==
  ASSUME NEW text \in Texts, NEW i \in 1..(Len(text) + 1), NEW token
  PROVE  /\ Position(text, i, token) \in i..(Len(text) + 1)
         /\ \A k \in i..Len(text) : k < Position(text, i, token) => text[k] # token
         /\ Position(text, i, token) <= Len(text) => text[Position(text, i, token)] = token
<1> DEFINE S == {k \in DOMAIN text : k >= i /\ text[k] = token}
<1>1. Len(text) \in Nat /\ DOMAIN text = 1..Len(text)
  BY TextType
<1>2. S \in SUBSET Nat /\ Position(text, i, token) = FirstOf(S, Len(text) + 1)
  BY <1>1 DEF Position
<1>3. \A k \in i..Len(text) : k \in S <=> text[k] = token
  BY <1>1
<1>4. \A k \in S : k \in i..Len(text) /\ text[k] = token
  BY <1>1
<1> HIDE DEF S
<1>5. CASE S = {}
  BY <1>5, <1>1, <1>2, <1>3, FirstOfIsLeast
<1>6. CASE S # {}
  <2>1. Position(text, i, token) \in S /\ \A k \in S : Position(text, i, token) <= k
    BY <1>6, <1>2, FirstOfIsLeast
  <2> QED BY <2>1, <1>1, <1>3, <1>4
<1> QED
  BY <1>5, <1>6

\* The open comments that the text up to k leaves, of those from i on.
Depth(text, i, k) ==
    Cardinality({j \in i..k : text[j] = "(*"}) - Cardinality({j \in i..k : text[j] = "*)"})

LEMMA CommentEndFinds ==
  ASSUME NEW text \in Texts, NEW i \in 1..Len(text)
  PROVE  /\ CommentEnd(text, i) \in i..(Len(text) + 1)
         /\ \A k \in i..Len(text) : k < CommentEnd(text, i) => Depth(text, i, k) # 0
         /\ CommentEnd(text, i) <= Len(text) => Depth(text, i, CommentEnd(text, i)) = 0
<1> DEFINE S == {k \in i..Len(text) : Depth(text, i, k) = 0}
<1>1. Len(text) \in Nat
  BY TextType
<1>2. S \in SUBSET Nat /\ CommentEnd(text, i) = FirstOf(S, Len(text) + 1)
  BY <1>1 DEF CommentEnd, Depth
<1>3. \A k \in i..Len(text) : k \in S <=> Depth(text, i, k) = 0
  OBVIOUS
<1>4. \A k \in S : k \in i..Len(text) /\ Depth(text, i, k) = 0
  OBVIOUS
<1> HIDE DEF S
<1>5. CASE S = {}
  <2>1. CommentEnd(text, i) = Len(text) + 1
    BY <1>5, <1>2, FirstOfIsLeast
  <2>2. \A k \in i..Len(text) : Depth(text, i, k) # 0
    BY <1>5, <1>3
  <2> QED BY <2>1, <2>2, <1>1
<1>6. CASE S # {}
  <2>1. CommentEnd(text, i) \in S /\ \A k \in S : CommentEnd(text, i) <= k
    BY <1>6, <1>2, FirstOfIsLeast
  <2> QED BY <2>1, <1>1, <1>3, <1>4
<1> QED
  BY <1>5, <1>6

\* The depth at the start of a comment, and how it changes with each token.
LEMMA DepthCounts ==
  ASSUME NEW text, NEW i \in Nat
  PROVE  /\ text[i] = "(*" => Depth(text, i, i) = 1
         /\ \A k \in Nat :
                k >= i => /\ Depth(text, i, k) \in Int
                          /\ Depth(text, i, k + 1) =
                                Depth(text, i, k) + (IF text[k + 1] = "(*" THEN 1 ELSE 0)
                                                  - (IF text[k + 1] = "*)" THEN 1 ELSE 0)
<1> DEFINE Among(k, token) == {j \in i..k : text[j] = token}
<1>1. ASSUME NEW k \in Nat, k >= i, NEW token
      PROVE  /\ Cardinality(Among(k, token)) \in Nat
             /\ Cardinality(Among(k + 1, token)) =
                  Cardinality(Among(k, token)) + (IF text[k + 1] = token THEN 1 ELSE 0)
  <2>1. IsFiniteSet(i..k)
    BY FS_Interval
  <2>2. IsFiniteSet(Among(k, token))
    BY <2>1, FS_Subset
  <2>3. CASE text[k + 1] = token
    <3>1. Among(k + 1, token) = Among(k, token) \cup {k + 1} /\ k + 1 \notin Among(k, token)
      BY <2>3, <1>1
    <3> HIDE DEF Among
    <3> QED BY <3>1, <2>2, <2>3, FS_AddElement, FS_CardinalityType
  <2>4. CASE text[k + 1] # token
    <3>1. Among(k + 1, token) = Among(k, token)
      BY <2>4, <1>1
    <3> HIDE DEF Among
    <3> QED BY <3>1, <2>2, <2>4, FS_CardinalityType
  <2> QED BY <2>3, <2>4
<1>2. ASSUME text[i] = "(*"
      PROVE  Among(i, "(*") = {i} /\ Among(i, "*)") = {}
  BY <1>2
<1>3. \A k, token : Among(k, token) = {j \in i..k : text[j] = token}
  OBVIOUS
<1>4. \A k : Depth(text, i, k) = Cardinality(Among(k, "(*")) - Cardinality(Among(k, "*)"))
  BY DEF Depth
<1> HIDE DEF Among
<1>5. text[i] = "(*" => Depth(text, i, i) = 1
  BY <1>2, <1>4, FS_Singleton, FS_EmptySet
<1>6. ASSUME NEW k \in Nat, k >= i
      PROVE  /\ Depth(text, i, k) \in Int
             /\ Depth(text, i, k + 1) =
                    Depth(text, i, k) + (IF text[k + 1] = "(*" THEN 1 ELSE 0)
                                      - (IF text[k + 1] = "*)" THEN 1 ELSE 0)
  <2>1. k + 1 \in Nat /\ k + 1 >= i
    BY <1>6
  <2> QED BY <1>1, <1>4, <1>6, <2>1
<1> QED
  BY <1>5, <1>6

\* Which tokens of a string that opens at i an escape stands before.
Escapes(text, i, escaped) ==
    escaped = [k \in 0..Len(text) |->
                  k > i + 1 /\ text[k - 1] = "escape" /\ ~escaped[k - 1]]

LEMMA EscapesExist ==
  ASSUME NEW text \in Texts, NEW i \in 1..Len(text)
  PROVE  \E escaped : Escapes(text, i, escaped)
<1> DEFINE m == Len(text)
           Bit == {0, 1}
           F == [p \in Bit \X (1..m) |->
                    IF p[2] > i + 1 /\ text[p[2] - 1] = "escape" /\ p[1] = 0 THEN 1 ELSE 0]
<1>1. m \in Nat /\ i \in Nat
  BY TextType
<1>2. IsStep(F, Bit, m)
  BY DEF IsStep
<1>3. \A b \in Bit, n \in 1..m :
         F[<<b, n>>] = IF n > i + 1 /\ text[n - 1] = "escape" /\ b = 0 THEN 1 ELSE 0
  OBVIOUS
<1>4. 0 \in Bit /\ 1 \in Bit /\ \A b \in Bit : b = 0 \/ b = 1
  OBVIOUS
<1> HIDE DEF F, m, Bit
<1>5. PICK g \in [0..m -> Bit] : g[0] = 0 /\ \A n \in 1..m : g[n] = F[<<g[n - 1], n>>]
  BY <1>1, <1>2, <1>4, Recursion
<1>6. ASSUME NEW k \in 0..m
      PROVE  (g[k] = 1) <=> (k > i + 1 /\ text[k - 1] = "escape" /\ ~(g[k - 1] = 1))
  <2>1. CASE k = 0
    BY <2>1, <1>1, <1>5
  <2>2. CASE k # 0
    <3>1. k \in 1..m /\ k - 1 \in 0..m
      BY <2>2, <1>1
    <3>2. g[k] = F[<<g[k - 1], k>>] /\ g[k - 1] \in Bit
      BY <3>1, <1>5
    <3>3. g[k] = IF k > i + 1 /\ text[k - 1] = "escape" /\ g[k - 1] = 0 THEN 1 ELSE 0
      BY <3>1, <3>2, <1>3
    <3> QED BY <3>2, <3>3, <1>4
  <2> QED BY <2>1, <2>2
<1> DEFINE e == [k \in 0..m |-> g[k] = 1]
<1>7. \A k \in 0..m : k > i + 1 => k - 1 \in 0..m
  BY <1>1
<1>8. \A k \in 0..m : k > i + 1 => (e[k - 1] <=> g[k - 1] = 1)
  BY <1>7, Zenon
<1> HIDE DEF e
<1>9. \A k \in 0..m : (g[k] = 1) = (k > i + 1 /\ text[k - 1] = "escape" /\ ~e[k - 1])
  BY <1>6, <1>8, Zenon
<1>10. e = [k \in 0..m |-> k > i + 1 /\ text[k - 1] = "escape" /\ ~e[k - 1]]
  <2>1. e = [k \in 0..m |-> g[k] = 1]
    BY DEF e
  <2> QED BY <2>1, <1>9, Zenon
<1> QED
  BY <1>10, Zenon DEF Escapes, m

LEMMA StringEndFinds ==
  ASSUME NEW text \in Texts, NEW i \in 1..Len(text)
  PROVE  \E escaped :
           /\ \A k \in 0..Len(text) :
                 escaped[k] <=> k > i + 1 /\ text[k - 1] = "escape" /\ ~escaped[k - 1]
           /\ StringEnd(text, i) \in (i + 1)..(Len(text) + 1)
           /\ \A k \in (i + 1)..Len(text) :
                 k < StringEnd(text, i) => text[k] # "quote" \/ escaped[k]
           /\ StringEnd(text, i) <= Len(text) =>
                 text[StringEnd(text, i)] = "quote" /\ ~escaped[StringEnd(text, i)]
<1> DEFINE escaped == CHOOSE g : Escapes(text, i, g)
           S == {k \in (i + 1)..Len(text) : text[k] = "quote" /\ ~escaped[k]}
<1>1. Len(text) \in Nat
  BY TextType
<1>2. Escapes(text, i, escaped)
  BY EscapesExist
<1>3. StringEnd(text, i) = FirstOf(S, Len(text) + 1)
  BY Zenon DEF StringEnd, Escapes
<1>4. S \in SUBSET Nat
  BY <1>1
<1>5. \A k \in (i + 1)..Len(text) : k \in S <=> text[k] = "quote" /\ ~escaped[k]
  OBVIOUS
<1>6. \A k \in S : k \in (i + 1)..Len(text) /\ text[k] = "quote" /\ ~escaped[k]
  OBVIOUS
<1> HIDE DEF S, escaped
<1>7. \A k \in 0..Len(text) :
         escaped[k] <=> k > i + 1 /\ text[k - 1] = "escape" /\ ~escaped[k - 1]
  BY <1>2 DEF Escapes
<1>8. CASE S = {}
  <2>1. StringEnd(text, i) = Len(text) + 1
    BY <1>8, <1>3, <1>4, FirstOfIsLeast
  <2>2. \A k \in (i + 1)..Len(text) : text[k] # "quote" \/ escaped[k]
    BY <1>8, <1>5
  <2> QED BY <2>1, <2>2, <1>1, <1>7
<1>9. CASE S # {}
  <2>1. StringEnd(text, i) \in S /\ \A k \in S : StringEnd(text, i) <= k
    BY <1>9, <1>3, <1>4, FirstOfIsLeast
  <2>2. StringEnd(text, i) \in (i + 1)..(Len(text) + 1)
    BY <2>1, <1>1, <1>6
  <2>3. \A k \in (i + 1)..Len(text) :
                 k < StringEnd(text, i) => text[k] # "quote" \/ escaped[k]
    BY <2>1, <2>2, <1>1, <1>5
  <2> QED BY <2>1, <2>2, <2>3, <1>6, <1>7
<1> QED
  BY <1>8, <1>9

-----------------------------------------------------------------------------
(* The masking loop and the lexer, position by position.                    *)

\* A construct ends behind its first token, at the latest after the text.
LEMMA ConstructEndType ==
  ASSUME NEW dialect, NEW text \in Texts, NEW i \in 1..Len(text)
  PROVE  ConstructEnd(dialect, text, i) \in i..(Len(text) + 1)
<1> DEFINE c == Construct(dialect, text, i)
<1>1. /\ Len(text) \in Nat /\ DOMAIN text = 1..Len(text)
      /\ i + 1 \in 1..(Len(text) + 1) /\ i \in 1..(Len(text) + 1)
  BY TextType
<1>1a. ConstructEnd(dialect, text, i) = EndOf(c, text, i)
  BY DEF ConstructEnd
<1> HIDE DEF c
<1>2. CASE c = "line"
  <2>1. text[i] = "--"
    BY <1>2 DEF Construct, c
  <2>2. Position(text, i, "nl") \in i..(Len(text) + 1)
    BY <1>1, PositionFinds
  <2>3. Position(text, i, "nl") <= Len(text) => text[Position(text, i, "nl")] = "nl"
    BY <1>1, PositionFinds
  <2>4. Position(text, i, "nl") # i
    BY <2>1, <2>3
  <2> QED BY <1>1, <1>2, <2>2, <2>4, <1>1a DEF EndOf
<1>3. CASE c = "comment"
  BY <1>3, CommentEndFinds, <1>1a DEF EndOf
<1>4. CASE c = "camlp_quotation" \/ c = "quoted_string" \/ c = "hol_quotation"
  <2>1. \A token : Position(text, i + 1, token) \in (i + 1)..(Len(text) + 1)
    BY <1>1, PositionFinds
  <2>2. \E token : EndOf(c, text, i) = Position(text, i + 1, token)
    BY <1>4 DEF EndOf
  <2> QED BY <1>1, <2>1, <2>2, <1>1a
<1>5. CASE c = "string"
  <2>1. StringEnd(text, i) \in (i + 1)..(Len(text) + 1)
    BY StringEndFinds
  <2> QED BY <1>1, <1>5, <2>1, <1>1a DEF EndOf
<1>6. CASE c = "char"
  <2>1. IsCharLiteral(text, i)
    BY <1>6 DEF Construct, c
  <2>2. \A k : At(text, k) # "" => k \in 1..Len(text)
    BY <1>1 DEF At
  <2>3. \/ At(text, i + 1) \in Characters /\ At(text, i + 2) = "prime"
        \/ At(text, i + 1) = "escape" /\ At(text, i + 3) = "prime"
    BY <2>1 DEF IsCharLiteral
  <2>4. At(text, i + 1) # ""
    BY <2>3 DEF Characters
  <2>5. text[i + 1] = At(text, i + 1)
    BY <2>2, <2>4, <1>1 DEF At
  <2>6. IF text[i + 1] = "escape" THEN i + 3 \in 1..Len(text) ELSE i + 2 \in 1..Len(text)
    BY <2>2, <2>3, <2>5 DEF Characters
  <2> QED BY <1>1, <1>6, <2>6, <1>1a DEF EndOf
<1>7. CASE /\ c # "line" /\ c # "comment" /\ c # "camlp_quotation" /\ c # "quoted_string"
           /\ c # "hol_quotation" /\ c # "string" /\ c # "char"
  <2>1. EndOf(c, text, i) = i
    BY <1>7 DEF EndOf
  <2> QED BY <1>1, <2>1, <1>1a
<1> QED
  BY <1>2, <1>3, <1>4, <1>5, <1>6, <1>7

ModeNames == {"code", "comment", "string", "escaped", ">>", "qclose", "tick", "nl", "char"}

Modes == [mode : ModeNames, depth : Int]

LEMMA InsideType ==
  /\ \A mode \in ModeNames, depth \in Int : Inside(mode, depth) \in Modes
  /\ InCode \in Modes
BY DEF Inside, InCode, Modes, ModeNames

LEMMA StepType ==
  ASSUME NEW dialect, NEW text \in Texts, NEW before \in Modes, NEW i \in 1..Len(text)
  PROVE  Step(dialect, text, before, i) \in Modes
<1>3. Enter(dialect, text, i) \in Modes
  <2>1. Enter(dialect, text, i) \in {Inside("comment", 1), Inside("string", 0), Inside(">>", 0),
            Inside("qclose", 0), Inside("tick", 0), Inside("nl", 0), Inside("char", 3),
            Inside("char", 2), InCode}
    BY DEF Enter
  <2>2. \A mode \in ModeNames : Inside(mode, 0) \in Modes /\ Inside(mode, 1) \in Modes
            /\ Inside(mode, 2) \in Modes /\ Inside(mode, 3) \in Modes
    BY InsideType
  <2>3. /\ "comment" \in ModeNames /\ "string" \in ModeNames /\ ">>" \in ModeNames
        /\ "qclose" \in ModeNames /\ "tick" \in ModeNames /\ "nl" \in ModeNames
        /\ "char" \in ModeNames
    BY DEF ModeNames
  <2> QED BY <2>1, <2>2, <2>3, InsideType
<1>4. Advance(before, text[i]) \in Modes
  <2>1. before.depth \in Int /\ before.mode \in ModeNames
    BY DEF Modes
  <2> DEFINE depth == before.depth + (IF text[i] = "(*" THEN 1 ELSE 0)
                                   - (IF text[i] = "*)" THEN 1 ELSE 0)
  <2>2. depth \in Int /\ before.depth - 1 \in Int
    BY <2>1
  <2> HIDE DEF depth
  <2>3. Advance(before, text[i]) \in {Inside("comment", depth), Inside("escaped", 0),
            Inside("string", 0), Inside("char", before.depth - 1), InCode, before}
    BY DEF Advance, depth
  <2>4. /\ "comment" \in ModeNames /\ "string" \in ModeNames
        /\ "escaped" \in ModeNames /\ "char" \in ModeNames /\ 0 \in Int
    BY DEF ModeNames
  <2>5. /\ Inside("comment", depth) \in Modes /\ Inside("escaped", 0) \in Modes
        /\ Inside("string", 0) \in Modes /\ Inside("char", before.depth - 1) \in Modes
    BY <2>2, <2>4, InsideType
  <2> QED BY <2>3, <2>5, InsideType
<1> QED
  BY <1>3, <1>4 DEF Step

\* The lexer starts in the code and makes one step at each position.
LEMMA LexerSteps ==
  ASSUME NEW dialect, NEW text \in Texts
  PROVE  /\ Lexer(dialect, text)[0] = InCode
         /\ \A n \in 1..Len(text) :
                Lexer(dialect, text)[n] = Step(dialect, text, Lexer(dialect, text)[n - 1], n)
<1> DEFINE m == Len(text)
           F == [p \in Modes \X (1..m) |-> Step(dialect, text, p[1], p[2])]
           Runs(g) == g = [n \in 0..m |-> IF n = 0 THEN InCode
                                           ELSE Step(dialect, text, g[n - 1], n)]
<1>1. m \in Nat /\ InCode \in Modes
  BY TextType, InsideType
<1>2. IsStep(F, Modes, m)
  BY StepType DEF IsStep
<1>3. \A b \in Modes, n \in 1..m : F[<<b, n>>] = Step(dialect, text, b, n)
  OBVIOUS
<1> HIDE DEF F, m
<1>4. PICK g \in [0..m -> Modes] :
         g[0] = InCode /\ \A n \in 1..m : g[n] = F[<<g[n - 1], n>>]
  BY <1>1, <1>2, Recursion
<1>5. \A n \in 0..m : g[n] = IF n = 0 THEN InCode ELSE Step(dialect, text, g[n - 1], n)
  <2>1. \A n \in 1..m : g[n - 1] \in Modes
    BY <1>1, <1>4
  <2>2. \A n \in 0..m : n = 0 \/ n \in 1..m
    BY <1>1
  <2> QED BY <2>1, <2>2, <1>3, <1>4
<1>6. Runs(g)
  BY <1>4, <1>5
<1>7. Runs(Lexer(dialect, text))
  BY <1>6 DEF Lexer, m
<1> HIDE DEF Runs
<1>8. /\ 0 \in 0..m
      /\ \A n \in 1..m : n \in 0..m /\ n # 0
  BY <1>1
<1> QED
  BY <1>7, <1>8 DEF Runs, m

Loops == [index : Int, visited : SUBSET Int]

\* The masking loop looks at one position after the other.
LEMMA LoopSteps ==
  ASSUME NEW dialect, NEW text \in Texts
  PROVE  /\ Loop(dialect, text)[0] = [index |-> 1, visited |-> {}]
         /\ \A n \in 1..Len(text) :
                Loop(dialect, text)[n] = Visit(dialect, text, Loop(dialect, text)[n - 1], n)
<1> DEFINE m == Len(text)
           start == [index |-> 1, visited |-> {}]
           F == [p \in Loops \X (1..m) |-> Visit(dialect, text, p[1], p[2])]
           Runs(g) == g = [n \in 0..m |-> IF n = 0 THEN start
                                           ELSE Visit(dialect, text, g[n - 1], n)]
<1>1. m \in Nat /\ start \in Loops
  BY TextType DEF Loops
<1>2. ASSUME NEW b \in Loops, NEW n \in 1..m
      PROVE  Visit(dialect, text, b, n) \in Loops
  <2>1. ConstructEnd(dialect, text, n) + 1 \in Int
    BY <1>1, ConstructEndType
  <2>2. b.visited \cup {n} \in SUBSET Int
    BY DEF Loops
  <2> QED BY <2>1, <2>2 DEF Visit, Loops
<1>3. \A b \in Loops, n \in 1..m : F[<<b, n>>] = Visit(dialect, text, b, n)
  OBVIOUS
<1>4. IsStep(F, Loops, m)
  BY <1>2 DEF IsStep
<1> HIDE DEF F, m, start
<1>5. PICK g \in [0..m -> Loops] :
         g[0] = start /\ \A n \in 1..m : g[n] = F[<<g[n - 1], n>>]
  BY <1>1, <1>4, Recursion
<1>6. \A n \in 0..m : g[n] = IF n = 0 THEN start ELSE Visit(dialect, text, g[n - 1], n)
  <2>1. \A n \in 1..m : g[n - 1] \in Loops
    BY <1>1, <1>5
  <2>2. \A n \in 0..m : n = 0 \/ n \in 1..m
    BY <1>1
  <2> QED BY <2>1, <2>2, <1>3, <1>5
<1>7. Runs(g)
  BY <1>5, <1>6
<1>8. Runs(Loop(dialect, text))
  BY <1>7 DEF Loop, m, start
<1> HIDE DEF Runs
<1>9. /\ 0 \in 0..m
      /\ \A n \in 1..m : n \in 0..m /\ n # 0
  BY <1>1
<1> QED
  BY <1>8, <1>9 DEF Runs, m, start

\* A list of the members of a set up to n, each once.
Lists(list, positions, n) ==
    /\ list \in Seq(Nat)
    /\ \A k \in 1..Len(list) : list[k] \in positions /\ list[k] <= n
    /\ \A i \in positions : i <= n => \E k \in 1..Len(list) : list[k] = i
    /\ \A k, l \in 1..Len(list) : list[k] = list[l] => k = l

Extended(list, positions, n) == list \o (IF n \in positions THEN <<n>> ELSE <<>>)

LEMMA ListGrows ==
  ASSUME NEW positions \in SUBSET Nat, NEW n \in Nat, NEW list, Lists(list, positions, n)
  PROVE  Lists(Extended(list, positions, n + 1), positions, n + 1)
<1> DEFINE longer == Extended(list, positions, n + 1)
<1>1. /\ list \in Seq(Nat)
      /\ \A k \in 1..Len(list) : list[k] \in positions /\ list[k] <= n
      /\ \A i \in positions : i <= n => \E k \in 1..Len(list) : list[k] = i
      /\ \A k, l \in 1..Len(list) : list[k] = list[l] => k = l
  BY DEF Lists
<1>2. CASE n + 1 \in positions
  <2>1. longer = Append(list, n + 1)
    BY <1>1, <1>2 DEF Extended
  <2>2. /\ longer \in Seq(Nat) /\ Len(longer) = Len(list) + 1 /\ Len(list) \in Nat
        /\ \A k \in 1..Len(list) : longer[k] = list[k]
        /\ longer[Len(list) + 1] = n + 1
    <3> HIDE DEF longer
    <3>1. list \in Seq(Nat) /\ n + 1 \in Nat
      BY <1>1
    <3>2. longer \in Seq(Nat) /\ Len(longer) = Len(list) + 1 /\ Len(list) \in Nat
      BY <2>1, <3>1
    <3>3. \A k \in 1..Len(list) : longer[k] = list[k]
      BY <2>1, <3>1
    <3>4. longer[Len(list) + 1] = n + 1
      BY <2>1, <3>1
    <3> QED BY <3>2, <3>3, <3>4
  <2> DEFINE len == Len(list)
  <2>3. /\ len \in Nat /\ Len(longer) = len + 1
        /\ \A k \in 1..(len + 1) : k \in 1..len \/ k = len + 1
    BY <2>2
  <2>4. /\ \A k \in 1..len : longer[k] \in positions /\ longer[k] <= n /\ longer[k] = list[k]
        /\ longer[len + 1] = n + 1
    BY <1>1, <2>2
  <2> HIDE DEF longer, len
  <2>5. \A k \in 1..(len + 1) : longer[k] \in positions /\ longer[k] <= n + 1
    <3> SUFFICES ASSUME NEW k \in 1..(len + 1)
                 PROVE  longer[k] \in positions /\ longer[k] <= n + 1
      OBVIOUS
    <3>1. CASE k \in 1..len
      <4>1. longer[k] \in positions /\ longer[k] <= n /\ longer[k] \in Nat
        BY <3>1, <2>4
      <4> QED BY <4>1
    <3>2. CASE k = len + 1
      BY <3>2, <2>4, <1>2
    <3> QED BY <3>1, <3>2, <2>3
  <2>6. ASSUME NEW i \in positions, i <= n + 1
        PROVE  \E k \in 1..(len + 1) : longer[k] = i
    <3>1. CASE i <= n
      <4>1. PICK k \in 1..len : list[k] = i
        BY <3>1, <1>1 DEF len
      <4> QED BY <4>1, <2>3, <2>4
    <3>2. CASE i = n + 1
      BY <3>2, <2>3, <2>4
    <3> QED BY <3>1, <3>2, <2>6
  <2>7. ASSUME NEW k \in 1..(len + 1), NEW l \in 1..(len + 1), longer[k] = longer[l]
        PROVE  k = l
    <3>1. CASE k \in 1..len /\ l \in 1..len
      BY <3>1, <2>7, <2>4, <1>1 DEF len
    <3>2. CASE k = len + 1 /\ l \in 1..len
      BY <3>2, <2>7, <2>4
    <3>3. CASE k \in 1..len /\ l = len + 1
      BY <3>3, <2>7, <2>4
    <3> QED BY <3>1, <3>2, <3>3, <2>3
  <2>8. longer \in Seq(Nat)
    BY <2>2
  <2> QED BY <2>3, <2>5, <2>6, <2>7, <2>8 DEF Lists, longer
<1>3. CASE n + 1 \notin positions
  <2>1. longer = list
    BY <1>1, <1>3 DEF Extended
  <2>2. \A i \in positions : i <= n + 1 => i <= n
    BY <1>3
  <2>3. \A k \in 1..Len(list) : list[k] <= n + 1
    BY <1>1
  <2> QED BY <1>1, <2>1, <2>2, <2>3 DEF Lists
<1> QED
  BY <1>2, <1>3

\* InOrder lists each position of a set once.
LEMMA InOrderLists ==
  ASSUME NEW text \in Texts, NEW positions \in SUBSET (1..Len(text))
  PROVE  Lists(InOrder(text, positions), positions, Len(text))
<1> DEFINE m == Len(text)
           Orders == Seq(Nat)
           F == [p \in Orders \X (1..m) |-> Extended(p[1], positions, p[2])]
           Runs(g) == g = [n \in 0..m |-> IF n = 0 THEN <<>>
                                           ELSE Extended(g[n - 1], positions, n)]
<1>1. m \in Nat /\ <<>> \in Orders
  BY TextType
<1>2. ASSUME NEW b \in Orders, NEW n \in 1..m
      PROVE  Extended(b, positions, n) \in Orders
  BY <1>1 DEF Extended
<1>3. \A b \in Orders, n \in 1..m : F[<<b, n>>] = Extended(b, positions, n)
  OBVIOUS
<1>4. IsStep(F, Orders, m)
  BY <1>2 DEF IsStep
<1> HIDE DEF F, m, Orders
<1>5. PICK g \in [0..m -> Orders] :
         g[0] = <<>> /\ \A n \in 1..m : g[n] = F[<<g[n - 1], n>>]
  BY <1>1, <1>4, Recursion
<1>6. \A n \in 0..m : g[n] = IF n = 0 THEN <<>> ELSE Extended(g[n - 1], positions, n)
  <2>1. \A n \in 1..m : g[n - 1] \in Orders
    BY <1>1, <1>5
  <2>2. \A n \in 0..m : n = 0 \/ n \in 1..m
    BY <1>1
  <2> QED BY <2>1, <2>2, <1>3, <1>5
<1>7. \E h : Runs(h)
  BY <1>5, <1>6
<1>8. PICK h : Runs(h) /\ InOrder(text, positions) = h[m]
  BY <1>7 DEF InOrder, m, Extended
<1>9. h[0] = <<>> /\ \A n \in 1..m : h[n] = Extended(h[n - 1], positions, n)
  <2>1. 0 \in 0..m /\ \A n \in 1..m : n \in 0..m /\ n # 0
    BY <1>1
  <2> QED BY <1>8, <2>1
<1> HIDE DEF Runs
<1>10. positions \in SUBSET Nat /\ \A i \in positions : ~(i <= 0)
  BY DEF m
<1> DEFINE Listed == {n \in 0..m : Lists(h[n], positions, n)}
<1>11. 0 \in Listed
  <2>1. Lists(<<>>, positions, 0)
    BY <1>10 DEF Lists
  <2> QED BY <2>1, <1>1, <1>9
<1>12. ASSUME NEW n \in 0..m, n \in Listed, n < m
       PROVE  n + 1 \in Listed
  <2>1. n + 1 \in 1..m /\ (n + 1) - 1 = n /\ n \in Nat /\ n + 1 \in 0..m
    BY <1>12, <1>1
  <2>2. h[n + 1] = Extended(h[n], positions, n + 1)
    BY <2>1, <1>9
  <2>3. Lists(h[n], positions, n)
    BY <1>12
  <2>4. Lists(Extended(h[n], positions, n + 1), positions, n + 1)
    BY <1>10, <2>1, <2>3, ListGrows
  <2> QED BY <2>1, <2>2, <2>4
<1> HIDE DEF Listed
<1>13. 0..m \subseteq Listed
  <2>1. 0 \in Nat
    OBVIOUS
  <2> QED BY <2>1, <1>1, <1>11, <1>12, IntervalInduction
<1>14. m \in 0..m
  BY <1>1
<1> QED
  BY <1>8, <1>13, <1>14 DEF Listed, m

-----------------------------------------------------------------------------
(* What the loop masks is what the lexer does not read as code.             *)

\* The states of a lexer that starts in the code and makes one step at each position.
IsRun(dialect, text, at) ==
    /\ at[0] = InCode
    /\ \A n \in 1..Len(text) : at[n] = Step(dialect, text, at[n - 1], n)

\* The lexer waits for a token.
Waits(at, i, token) ==
    /\ token \notin {"code", "comment", "string", "escaped", "char"}
    /\ at[i] = Inside(token, 0)

\* The lexer is not in the code from i on, and it is at the end.
Leaves(text, at, i, end) ==
    /\ at[i] # InCode
    /\ \A k \in i..Len(text) : k < end => at[k] # InCode
    /\ end <= Len(text) => at[end] = InCode

\* In a construct that one token ends, the lexer waits for that token.
LEMMA LexerWaits ==
  ASSUME NEW dialect, NEW text \in Texts, NEW at, IsRun(dialect, text, at),
         NEW i \in 1..Len(text),
         NEW token, Waits(at, i, token)
  PROVE  Leaves(text, at, i, Position(text, i + 1, token))
<1> DEFINE len == Len(text)
           end == Position(text, i + 1, token)
           S == {k \in i..len : k < end => at[k] = Inside(token, 0)}
<1>1. len \in Nat /\ i \in Nat /\ i \in i..len
  BY TextType
<1>2. /\ end \in (i + 1)..(len + 1)
      /\ \A k \in (i + 1)..len : k < end => text[k] # token
      /\ end <= len => text[end] = token
  <2>1. i + 1 \in 1..(Len(text) + 1)
    BY <1>1
  <2> QED BY <2>1, PositionFinds
<1>3. \A k \in i..len : k < len => at[k + 1] = Step(dialect, text, at[k], k + 1)
  BY <1>1 DEF IsRun
<1>4. \A n : /\ text[n] # token =>
                    Step(dialect, text, Inside(token, 0), n) = Inside(token, 0)
             /\ text[n] = token => Step(dialect, text, Inside(token, 0), n) = InCode
  BY DEF Step, Advance, Inside, InCode, Waits
<1>4a. at[i] = Inside(token, 0) /\ Inside(token, 0) # InCode
  BY DEF Waits, Inside, InCode
<1> HIDE DEF len, end
<1>5. i \in S
  BY <1>1, <1>4a
<1>6. ASSUME NEW k \in i..len, k \in S, k < len
      PROVE  k + 1 \in S
  <2>1. k + 1 \in (i + 1)..len /\ k + 1 \in i..len
    BY <1>1, <1>6
  <2>2. ASSUME k + 1 < end
        PROVE  at[k + 1] = Inside(token, 0)
    <3>1. k < end
      BY <2>2, <1>1, <1>2
    <3> QED BY <3>1, <2>1, <2>2, <1>2, <1>3, <1>4, <1>6
  <2> QED BY <2>1, <2>2
<1> HIDE DEF S
<1>7. i..len \subseteq S
  BY <1>1, <1>5, <1>6, IntervalInduction
<1>8. \A k \in i..len : k < end => at[k] = Inside(token, 0)
  BY <1>7 DEF S
<1>9. ASSUME end <= len
      PROVE  at[end] = InCode
  <2>1. end - 1 \in i..len /\ end - 1 < end /\ end - 1 < len /\ (end - 1) + 1 = end
    BY <1>9, <1>1, <1>2
  <2>2. at[end] = Step(dialect, text, Inside(token, 0), end)
    BY <2>1, <1>3, <1>8
  <2> QED BY <2>2, <1>2, <1>4, <1>9
<1> QED
  BY <1>4a, <1>8, <1>9 DEF len, end, Leaves

\* In a comment the lexer counts the comments that are open.
LEMMA LexerCounts ==
  ASSUME NEW dialect, NEW text \in Texts, NEW at, IsRun(dialect, text, at),
         NEW i \in 1..Len(text), text[i] = "(*", at[i] = Inside("comment", 1)
  PROVE  LET end == CommentEnd(text, i) IN
         /\ end > i
         /\ \A k \in i..Len(text) : k < end => at[k] = Inside("comment", Depth(text, i, k))
         /\ end <= Len(text) => at[end] = InCode
<1> DEFINE len == Len(text)
           end == CommentEnd(text, i)
           D(k) == Depth(text, i, k)
           S == {k \in i..len : k < end => at[k] = Inside("comment", D(k))}
<1>1. len \in Nat /\ i \in Nat /\ i \in i..len
  BY TextType
<1>2. /\ end \in i..(len + 1)
      /\ \A k \in i..len : k < end => D(k) # 0
      /\ end <= len => D(end) = 0
  BY CommentEndFinds
<1>3. \A k \in i..len : k < len => at[k + 1] = Step(dialect, text, at[k], k + 1)
  BY <1>1 DEF IsRun
<1>4. /\ D(i) = 1
      /\ \A k \in i..len : /\ D(k) \in Int
                           /\ D(k + 1) = D(k) + (IF text[k + 1] = "(*" THEN 1 ELSE 0)
                                              - (IF text[k + 1] = "*)" THEN 1 ELSE 0)
  <2>1. \A k \in i..len : k \in Nat /\ k >= i
    BY <1>1
  <2> HIDE DEF len
  <2> QED BY <1>1, <2>1, DepthCounts
<1>5. \A k \in i..len : Step(dialect, text, Inside("comment", D(k)), k + 1)
                            = IF D(k + 1) = 0 THEN InCode ELSE Inside("comment", D(k + 1))
  <2>1. \A d, n : Step(dialect, text, Inside("comment", d), n)
                    = LET depth == d + (IF text[n] = "(*" THEN 1 ELSE 0)
                                     - (IF text[n] = "*)" THEN 1 ELSE 0)
                      IN  IF depth = 0 THEN InCode ELSE Inside("comment", depth)
    BY DEF Step, Advance, Inside, InCode
  <2> HIDE DEF D
  <2> QED BY <2>1, <1>4
<1> HIDE DEF end, len, D
<1>6. i \in S
  BY <1>1, <1>4
<1>6a. end > i
  BY <1>1, <1>2, <1>4 DEF len
<1>7. ASSUME NEW k \in i..len, k \in S, k < len
      PROVE  k + 1 \in S
  <2>1. k + 1 \in i..len
    BY <1>1, <1>7
  <2>2. ASSUME k + 1 < end
        PROVE  at[k + 1] = Inside("comment", D(k + 1))
    <3>1. k < end
      BY <2>2, <1>1, <1>2
    <3>2. D(k + 1) # 0
      BY <2>1, <2>2, <1>2
    <3>3. at[k + 1] = Step(dialect, text, Inside("comment", D(k)), k + 1)
      BY <3>1, <1>3, <1>7
    <3> QED BY <3>2, <3>3, <1>5
  <2> QED BY <2>1, <2>2
<1> HIDE DEF S
<1>8. i..len \subseteq S
  BY <1>1, <1>6, <1>7, IntervalInduction
<1>9. \A k \in i..len : k < end => at[k] = Inside("comment", D(k))
  BY <1>8 DEF S
<1>10. ASSUME end <= len
       PROVE  at[end] = InCode
  <2>1. end - 1 \in i..len /\ end - 1 < end /\ end - 1 < len /\ (end - 1) + 1 = end
    BY <1>10, <1>1, <1>2, <1>6a
  <2>2. at[end] = Step(dialect, text, Inside("comment", D(end - 1)), end)
    BY <2>1, <1>3, <1>9
  <2>3. at[end] = IF D(end) = 0 THEN InCode ELSE Inside("comment", D(end))
    BY <2>1, <2>2, <1>5
  <2> QED BY <2>3, <1>2, <1>10
<1> QED
  BY <1>6a, <1>9, <1>10 DEF end, len, D

\* In a string the lexer knows whether the next token is escaped.
LEMMA LexerEscapes ==
  ASSUME NEW dialect, NEW text \in Texts, NEW at, IsRun(dialect, text, at),
         NEW i \in 1..Len(text), at[i] = Inside("string", 0)
  PROVE  LET end == StringEnd(text, i) IN
         /\ end > i
         /\ \A k \in i..Len(text) :
                k < end => at[k] \in {Inside("string", 0), Inside("escaped", 0)}
         /\ end <= Len(text) => at[end] = InCode
<1> DEFINE len == Len(text)
           end == StringEnd(text, i)
<1>1. len \in Nat /\ i \in Nat /\ i \in i..len
  BY TextType
<1>2. PICK escaped :
        /\ \A k \in 0..len : escaped[k] <=> k > i + 1 /\ text[k - 1] = "escape" /\ ~escaped[k - 1]
        /\ end \in (i + 1)..(len + 1)
        /\ \A k \in (i + 1)..len : k < end => text[k] # "quote" \/ escaped[k]
        /\ end <= len => text[end] = "quote" /\ ~escaped[end]
  BY StringEndFinds
<1>3. \A k \in i..len : k < len => at[k + 1] = Step(dialect, text, at[k], k + 1)
  BY <1>1 DEF IsRun
<1> DEFINE E(k) == k > i /\ text[k] = "escape" /\ ~escaped[k]
           S == {k \in i..len : k < end =>
                    /\ E(k) => at[k] = Inside("escaped", 0)
                    /\ ~E(k) => at[k] = Inside("string", 0)}
<1>4. \A k \in i..len : k < len => (escaped[k + 1] <=> E(k))
  <2> SUFFICES ASSUME NEW k \in i..len, k < len
               PROVE  escaped[k + 1] <=> E(k)
    OBVIOUS
  <2>1. k + 1 \in 0..len /\ (k + 1) - 1 = k /\ (k + 1 > i + 1 <=> k > i)
    BY <1>1
  <2>2. escaped[k + 1] <=> k + 1 > i + 1 /\ text[(k + 1) - 1] = "escape" /\ ~escaped[(k + 1) - 1]
    BY <2>1, <1>2
  <2> QED BY <2>1, <2>2, Zenon
<1>5. \A n : /\ Step(dialect, text, Inside("escaped", 0), n) = Inside("string", 0)
             /\ Step(dialect, text, Inside("string", 0), n) =
                  IF text[n] = "escape" THEN Inside("escaped", 0)
                  ELSE IF text[n] = "quote" THEN InCode ELSE Inside("string", 0)
  BY DEF Step, Advance, Inside, InCode
<1> HIDE DEF end, len
<1>6. i \in S
  BY <1>1
<1>7. ASSUME NEW k \in i..len, k \in S, k < len
      PROVE  k + 1 \in S
  <2>1. k + 1 \in i..len /\ k + 1 \in (i + 1)..len /\ k + 1 > i
    BY <1>1, <1>7
  <2> SUFFICES ASSUME k + 1 < end
               PROVE  /\ E(k + 1) => at[k + 1] = Inside("escaped", 0)
                      /\ ~E(k + 1) => at[k + 1] = Inside("string", 0)
    BY <2>1
  <2>2. k < end
    BY <1>1, <1>2
  <2>3. at[k + 1] = Step(dialect, text, at[k], k + 1)
    BY <1>3, <1>7
  <2>4. text[k + 1] # "quote" \/ escaped[k + 1]
    BY <2>1, <1>2
  <2>5. escaped[k + 1] <=> E(k)
    BY <1>4, <1>7
  <2>6. /\ E(k) => at[k] = Inside("escaped", 0)
        /\ ~E(k) => at[k] = Inside("string", 0)
    BY <1>7, <2>2
  <2>7. E(k + 1) <=> text[k + 1] = "escape" /\ ~escaped[k + 1]
    BY <2>1
  <2> HIDE DEF E
  <2>8. CASE E(k)
    BY <2>8, <2>3, <2>5, <2>6, <2>7, <1>5
  <2>9. CASE ~E(k)
    BY <2>9, <2>3, <2>4, <2>5, <2>6, <2>7, <1>5
  <2> QED BY <2>8, <2>9
<1> HIDE DEF S
<1>8. i..len \subseteq S
  BY <1>1, <1>6, <1>7, IntervalInduction
<1>9. \A k \in i..len : k < end => /\ E(k) => at[k] = Inside("escaped", 0)
                                   /\ ~E(k) => at[k] = Inside("string", 0)
  BY <1>8 DEF S
<1> HIDE DEF E
<1>10. ASSUME end <= len
       PROVE  at[end] = InCode
  <2>1. end - 1 \in i..len /\ end - 1 < end /\ end - 1 < len /\ (end - 1) + 1 = end
    BY <1>10, <1>1, <1>2
  <2>2. at[end] = Step(dialect, text, at[end - 1], end)
    BY <2>1, <1>3
  <2>3. ~E(end - 1)
    BY <2>1, <1>2, <1>4, <1>10
  <2> QED BY <2>1, <2>2, <2>3, <1>2, <1>5, <1>9, <1>10
<1>11. end > i
  BY <1>1, <1>2
<1> QED
  BY <1>9, <1>10, <1>11 DEF end, len

\* How the lexer enters a construct.
LEMMA LexerEnters ==
  ASSUME NEW dialect, NEW text \in Texts, NEW at, IsRun(dialect, text, at),
         NEW i \in 1..Len(text), at[i - 1] = InCode
  PROVE  LET c == Construct(dialect, text, i) IN
         \/ c = "line" /\ text[i] = "--" /\ at[i] = Inside("nl", 0)
         \/ c = "comment" /\ text[i] = "(*" /\ at[i] = Inside("comment", 1)
         \/ c = "camlp_quotation" /\ at[i] = Inside(">>", 0)
         \/ c = "quoted_string" /\ at[i] = Inside("qclose", 0)
         \/ c = "string" /\ at[i] = Inside("string", 0)
         \/ c = "hol_quotation" /\ at[i] = Inside("tick", 0)
         \/ /\ c = "char"
            /\ at[i] = Inside("char", IF text[i + 1] = "escape" THEN 3 ELSE 2)
         \/ c = "code" /\ at[i] = InCode
<1>1. at[i] = Enter(dialect, text, i)
  BY DEF IsRun, Step
<1> DEFINE token == text[i]
<1>2. CASE token = "--" /\ dialect = "verification_source_vhl"
  BY <1>1, <1>2 DEF Construct, Enter, IsCharLiteral, At
<1>3. CASE token = "(*"
  BY <1>1, <1>3 DEF Construct, Enter
<1>4. CASE token = "<:x<"
  BY <1>1, <1>4 DEF Construct, Enter
<1>5. CASE token = "qopen"
  <2>1. ~IsCharLiteral(text, i)
    BY <1>5 DEF IsCharLiteral, At
  <2>2. Construct(dialect, text, i) = "quoted_string"
    BY <1>5, <2>1, SMTT(60) DEF Construct
  <2>3. Enter(dialect, text, i) = Inside("qclose", 0)
    BY <1>5, <2>1, SMTT(60) DEF Enter
  <2> QED BY <1>1, <2>2, <2>3
<1>6. CASE token = "quote"
  BY <1>1, <1>6 DEF Construct, Enter
<1>7. CASE token = "tick" /\ dialect # "camlp_legacy_generated_ml"
  BY <1>1, <1>7 DEF Construct, Enter
<1>8. CASE /\ ~(token = "--" /\ dialect = "verification_source_vhl")
           /\ token # "(*" /\ token # "<:x<" /\ token # "qopen" /\ token # "quote"
           /\ ~(token = "tick" /\ dialect # "camlp_legacy_generated_ml")
  <2> HIDE DEF token
  <2>1. CASE IsCharLiteral(text, i)
    BY <1>1, <1>8, <2>1 DEF Construct, Enter, token
  <2>2. CASE ~IsCharLiteral(text, i)
    BY <1>1, <1>8, <2>2 DEF Construct, Enter, token
  <2> QED BY <2>1, <2>2
<1> QED
  BY <1>2, <1>3, <1>4, <1>5, <1>6, <1>7, <1>8

\* The last token of a construct is where the lexer is back in the code, but for a
\* comment line, which ends before the newline.
LEMMA ConstructSpan ==
  ASSUME NEW dialect, NEW text \in Texts, NEW at, IsRun(dialect, text, at),
         NEW i \in 1..Len(text), at[i - 1] = InCode
  PROVE  LET end == ConstructEnd(dialect, text, i) IN
         /\ Construct(dialect, text, i) = "code" => end = i /\ at[i] = InCode
         /\ Construct(dialect, text, i) # "code" =>
              /\ at[i] # InCode
              /\ \A k \in i..Len(text) : k < end => at[k] # InCode
              /\ end <= Len(text) => \/ at[end] = InCode
                                     \/ /\ at[end] # InCode
                                        /\ end < Len(text) => /\ text[end + 1] = "nl"
                                                              /\ at[end + 1] = InCode
<1> DEFINE c == Construct(dialect, text, i)
           end == ConstructEnd(dialect, text, i)
           len == Len(text)
           Spans ==
             /\ c = "code" => end = i /\ at[i] = InCode
             /\ c # "code" =>
                  /\ at[i] # InCode
                  /\ \A k \in i..len : k < end => at[k] # InCode
                  /\ end <= len => \/ at[end] = InCode
                                   \/ /\ at[end] # InCode
                                      /\ end < len => text[end + 1] = "nl" /\ at[end + 1] = InCode
<1> SUFFICES Spans
  OBVIOUS
<1>0. \/ c = "line" /\ text[i] = "--" /\ at[i] = Inside("nl", 0)
      \/ c = "comment" /\ text[i] = "(*" /\ at[i] = Inside("comment", 1)
      \/ c = "camlp_quotation" /\ at[i] = Inside(">>", 0)
      \/ c = "quoted_string" /\ at[i] = Inside("qclose", 0)
      \/ c = "string" /\ at[i] = Inside("string", 0)
      \/ c = "hol_quotation" /\ at[i] = Inside("tick", 0)
      \/ /\ c = "char"
         /\ at[i] = Inside("char", IF text[i + 1] = "escape" THEN 3 ELSE 2)
      \/ c = "code" /\ at[i] = InCode
  BY LexerEnters
<1>1. /\ len \in Nat /\ i \in 1..len /\ i \in i..len
      /\ i + 1 \in 1..(len + 1) /\ i \in 1..(len + 1)
  BY TextType
<1>2. end = EndOf(c, text, i)
  BY DEF ConstructEnd
<1>3. end \in i..(len + 1)
  BY ConstructEndType
<1>4. \A mode, depth : mode # "code" => Inside(mode, depth) # InCode
  BY DEF Inside, InCode
<1> HIDE DEF c, end, len
<1>5. CASE c = "line" /\ text[i] = "--" /\ at[i] = Inside("nl", 0)
  <2> DEFINE newline == Position(text, i + 1, "nl")
             first == Position(text, i, "nl")
  <2>1. /\ newline \in (i + 1)..(len + 1)
        /\ \A k \in (i + 1)..len : k < newline => text[k] # "nl"
        /\ newline <= len => text[newline] = "nl"
    BY <1>1, PositionFinds DEF len
  <2>2. /\ first \in i..(len + 1)
        /\ \A k \in i..len : k < first => text[k] # "nl"
        /\ first <= len => text[first] = "nl"
    BY <1>1, PositionFinds DEF len
  <2>3. /\ at[i] # InCode
        /\ \A k \in i..len : k < newline => at[k] # InCode
        /\ newline <= len => at[newline] = InCode
    <3>1. Waits(at, i, "nl")
      BY <1>5 DEF Waits
    <3>2. Leaves(text, at, i, newline)
      BY <3>1, LexerWaits
    <3> QED BY <3>2 DEF len, Leaves
  <2>4. end = first - 1
    BY <1>2, <1>5 DEF EndOf
  <2> HIDE DEF newline, first
  <2>5. first # i
    BY <1>1, <1>5, <2>2
  <2>6. first = newline
    <3>1. ~(first < newline)
      BY <1>1, <2>1, <2>2, <2>5
    <3>2. ~(newline < first)
      BY <1>1, <2>1, <2>2
    <3> QED BY <3>1, <3>2, <1>1, <2>1, <2>2
  <2>8. ASSUME end <= len
        PROVE  at[end] # InCode
    <3>1. end \in i..len /\ end < newline
      BY <1>1, <2>1, <2>4, <2>6, <2>8
    <3> QED BY <3>1, <2>3
  <2>9. ASSUME end < len
        PROVE  text[end + 1] = "nl" /\ at[end + 1] = InCode
    <3>1. end + 1 = newline /\ newline <= len
      BY <1>1, <2>1, <2>4, <2>6, <2>9
    <3> QED BY <3>1, <2>1, <2>3
  <2>10. \A k \in i..len : k < end => k < newline
    BY <1>1, <2>1, <2>4, <2>6
  <2> QED BY <1>5, <2>3, <2>8, <2>9, <2>10
<1>6. CASE c = "comment" /\ text[i] = "(*" /\ at[i] = Inside("comment", 1)
  <2>1. end = CommentEnd(text, i)
    BY <1>2, <1>6 DEF EndOf
  <2>2. /\ \A k \in i..len : k < end => at[k] = Inside("comment", Depth(text, i, k))
        /\ end <= len => at[end] = InCode
    BY <2>1, <1>6, LexerCounts DEF len
  <2>3. \A k \in i..len : k < end => at[k] # InCode
    BY <2>2, <1>4
  <2>4. at[i] # InCode
    BY <1>4, <1>6
  <2> QED BY <1>6, <2>2, <2>3, <2>4
<1>7. ASSUME NEW token, Waits(at, i, token), end = Position(text, i + 1, token)
      PROVE  c # "code" => Spans
  <2>1. Leaves(text, at, i, end)
    BY <1>7, LexerWaits
  <2> QED BY <2>1 DEF len, Leaves
<1>8. CASE c = "camlp_quotation" /\ at[i] = Inside(">>", 0)
  <2>1. end = Position(text, i + 1, ">>")
    BY <1>2, <1>8 DEF EndOf
  <2>2. Waits(at, i, ">>")
    BY <1>8 DEF Waits
  <2> HIDE DEF Spans
  <2> QED BY <2>1, <2>2, <1>7, <1>8
<1>9. CASE c = "quoted_string" /\ at[i] = Inside("qclose", 0)
  <2>1. end = Position(text, i + 1, "qclose")
    BY <1>2, <1>9 DEF EndOf
  <2>2. Waits(at, i, "qclose")
    BY <1>9 DEF Waits
  <2> HIDE DEF Spans
  <2> QED BY <2>1, <2>2, <1>7, <1>9
<1>10. CASE c = "hol_quotation" /\ at[i] = Inside("tick", 0)
  <2>1. end = Position(text, i + 1, "tick")
    BY <1>2, <1>10 DEF EndOf
  <2>2. Waits(at, i, "tick")
    BY <1>10 DEF Waits
  <2> HIDE DEF Spans
  <2> QED BY <2>1, <2>2, <1>7, <1>10
<1>11. CASE c = "string" /\ at[i] = Inside("string", 0)
  <2>1. end = StringEnd(text, i)
    BY <1>2, <1>11 DEF EndOf
  <2>2. /\ \A k \in i..len : k < end => at[k] \in {Inside("string", 0), Inside("escaped", 0)}
        /\ end <= len => at[end] = InCode
    BY <2>1, <1>11, LexerEscapes DEF len
  <2>3. Inside("string", 0) # InCode /\ Inside("escaped", 0) # InCode
    BY <1>4
  <2> QED BY <1>11, <2>2, <2>3
<1>12. CASE /\ c = "char"
            /\ at[i] = Inside("char", IF text[i + 1] = "escape" THEN 3 ELSE 2)
  <2>1. end = IF text[i + 1] = "escape" THEN i + 3 ELSE i + 2
    BY <1>2, <1>12 DEF EndOf
  <2>2. \A k \in i..len : k < len => at[k + 1] = Step(dialect, text, at[k], k + 1)
    <3> SUFFICES ASSUME NEW k \in i..len, k < len
                 PROVE  at[k + 1] = Step(dialect, text, at[k], k + 1)
      OBVIOUS
    <3>1. k + 1 \in 1..Len(text) /\ (k + 1) - 1 = k
      BY <1>1 DEF len
    <3> QED BY <3>1 DEF IsRun
  <2>3. \A n : /\ Step(dialect, text, Inside("char", 3), n) = Inside("char", 2)
               /\ Step(dialect, text, Inside("char", 2), n) = Inside("char", 1)
               /\ Step(dialect, text, Inside("char", 1), n) = InCode
    BY DEF Step, Advance, Inside, InCode
  <2>4. /\ Inside("char", 1) # InCode /\ Inside("char", 2) # InCode
        /\ Inside("char", 3) # InCode
    BY <1>4
  <2>5. CASE text[i + 1] = "escape"
    <3>1. at[i] = Inside("char", 3) /\ end = i + 3
      BY <1>12, <2>1, <2>5
    <3>2. i + 1 <= len => at[i + 1] = Inside("char", 2)
      BY <1>1, <2>2, <2>3, <3>1
    <3>3. i + 2 <= len => at[i + 2] = Inside("char", 1)
      <4> SUFFICES ASSUME i + 2 <= len
                   PROVE  at[i + 2] = Inside("char", 1)
        OBVIOUS
      <4>1. i + 1 \in i..len /\ i + 1 < len /\ (i + 1) + 1 = i + 2
        BY <1>1
      <4> QED BY <4>1, <2>2, <2>3, <3>2
    <3>4. i + 3 <= len => at[i + 3] = InCode
      <4> SUFFICES ASSUME i + 3 <= len
                   PROVE  at[i + 3] = InCode
        OBVIOUS
      <4>1. i + 2 \in i..len /\ i + 2 < len /\ (i + 2) + 1 = i + 3
        BY <1>1
      <4> QED BY <4>1, <2>2, <2>3, <3>3
    <3>5. \A k \in i..len : k < end => k = i \/ k = i + 1 \/ k = i + 2
      BY <1>1, <3>1
    <3>6. \A k \in i..len : k < end => at[k] # InCode
      BY <3>1, <3>2, <3>3, <3>5, <2>4
    <3> QED BY <1>12, <3>1, <3>4, <3>6, <2>4
  <2>6. CASE text[i + 1] # "escape"
    <3>1. at[i] = Inside("char", 2) /\ end = i + 2
      BY <1>12, <2>1, <2>6
    <3>2. i + 1 <= len => at[i + 1] = Inside("char", 1)
      BY <1>1, <2>2, <2>3, <3>1
    <3>3. i + 2 <= len => at[i + 2] = InCode
      <4> SUFFICES ASSUME i + 2 <= len
                   PROVE  at[i + 2] = InCode
        OBVIOUS
      <4>1. i + 1 \in i..len /\ i + 1 < len /\ (i + 1) + 1 = i + 2
        BY <1>1
      <4> QED BY <4>1, <2>2, <2>3, <3>2
    <3>5. \A k \in i..len : k < end => k = i \/ k = i + 1
      BY <1>1, <3>1
    <3>6. \A k \in i..len : k < end => at[k] # InCode
      BY <3>1, <3>2, <3>5, <2>4
    <3> QED BY <1>12, <3>1, <3>3, <3>6, <2>4
  <2> QED BY <2>5, <2>6
<1>13. CASE c = "code" /\ at[i] = InCode
  <2>1. end = i
    BY <1>2, <1>13 DEF EndOf
  <2> QED BY <1>13, <2>1
<1> HIDE DEF Spans
<1> QED
  BY <1>0, <1>5, <1>6, <1>8, <1>9, <1>10, <1>11, <1>12, <1>13

\* The loop at n is where the lexer is back in the code, or where it will be.
Together(dialect, text, at, index, visited, n) ==
    \/ index = n + 1 /\ at[n] = InCode
    \/ \E o \in visited : /\ Construct(dialect, text, o) # "code" /\ at[o - 1] = InCode
                          /\ index = ConstructEnd(dialect, text, o) + 1
                          /\ n <= ConstructEnd(dialect, text, o)

\* A position is in a construct that opens before it.
Behind(dialect, text, visited, k) ==
    \E o \in visited : /\ Construct(dialect, text, o) # "code"
                       /\ o < k /\ k <= ConstructEnd(dialect, text, o)

\* What the loop has visited when the lexer has read n tokens: of the tokens that
\* are not newlines, the code and the first token of each construct.
InStepAt(dialect, text, at, index, visited, n) ==
    /\ visited \in SUBSET (1..n)
    /\ Together(dialect, text, at, index, visited, n)
    /\ \A k \in 1..n : text[k] # "nl" =>
           (at[k - 1] = InCode /\ at[k] = InCode
              <=> k \in visited /\ Construct(dialect, text, k) = "code")
    /\ \A k \in 1..n : k \notin visited => Behind(dialect, text, visited, k)
    /\ \A o \in visited : ConstructEnd(dialect, text, o) < index
    /\ \A o, k \in visited : o < k => ConstructEnd(dialect, text, o) < k

\* At the next position either the lexer is in the code and the loop visits it, or
\* the position is in the construct that the loop has visited before.
LEMMA LoopFollows ==
  ASSUME NEW dialect, NEW text \in Texts, NEW at, IsRun(dialect, text, at),
         NEW n \in 0..Len(text), n < Len(text), NEW index,
         NEW visited \in SUBSET (1..n), Together(dialect, text, at, index, visited, n)
  PROVE  \/ index = n + 1 /\ at[n] = InCode
         \/ /\ index = n + 1 /\ at[n] # InCode /\ at[n + 1] = InCode /\ text[n + 1] = "nl"
            /\ Construct(dialect, text, n + 1) = "code"
         \/ /\ index # n + 1 /\ at[n] # InCode
            /\ \E o \in visited : /\ Construct(dialect, text, o) # "code" /\ at[o - 1] = InCode
                                  /\ index = ConstructEnd(dialect, text, o) + 1
                                  /\ n + 1 <= ConstructEnd(dialect, text, o)
<1>1. Len(text) \in Nat /\ n \in Nat
  BY TextType
<1>2. CASE index = n + 1 /\ at[n] = InCode
  BY <1>2
<1>3. ASSUME NEW o \in visited, Construct(dialect, text, o) # "code", at[o - 1] = InCode,
             index = ConstructEnd(dialect, text, o) + 1, n <= ConstructEnd(dialect, text, o)
      PROVE  \/ index = n + 1 /\ at[n] = InCode
             \/ /\ index = n + 1 /\ at[n] # InCode /\ at[n + 1] = InCode /\ text[n + 1] = "nl"
             \/ /\ index # n + 1 /\ at[n] # InCode /\ n + 1 <= ConstructEnd(dialect, text, o)
  <2> DEFINE end == ConstructEnd(dialect, text, o)
  <2>0. o \in 1..n
    OBVIOUS
  <2>1. o \in 1..Len(text) /\ n \in o..Len(text)
    BY <2>0, <1>1
  <2>2. end \in o..(Len(text) + 1)
    BY <2>1, ConstructEndType
  <2>3. /\ \A k \in o..Len(text) : k < end => at[k] # InCode
        /\ end <= Len(text) => \/ at[end] = InCode
                               \/ /\ at[end] # InCode
                                  /\ end < Len(text) => /\ text[end + 1] = "nl"
                                                        /\ at[end + 1] = InCode
    BY <1>3, <2>1, ConstructSpan
  <2>4. index = end + 1 /\ n <= end
    BY <1>3
  <2> HIDE DEF end
  <2>5. CASE n = end
    BY <2>3, <2>4, <2>5, <1>1
  <2>6. CASE n < end
    <3>1. at[n] # InCode
      BY <2>1, <2>3, <2>6
    <3>2. index # n + 1 /\ n + 1 <= end
      BY <1>1, <2>1, <2>2, <2>4, <2>6
    <3> QED BY <3>1, <3>2 DEF end
  <2> QED BY <2>4, <2>5, <2>6, <1>1, <2>1, <2>2
<1>4. text[n + 1] = "nl" => Construct(dialect, text, n + 1) = "code"
  BY <1>1 DEF Construct, IsCharLiteral, At
<1> QED
  BY <1>2, <1>3, <1>4 DEF Together

LEMMA LoopStep ==
  ASSUME NEW dialect, NEW text \in Texts, NEW at, IsRun(dialect, text, at),
         NEW n \in 0..Len(text), n < Len(text), NEW index, NEW visited,
         InStepAt(dialect, text, at, index, visited, n)
  PROVE  LET loop == Visit(dialect, text, [index |-> index, visited |-> visited], n + 1) IN
         InStepAt(dialect, text, at, loop.index, loop.visited, n + 1)
<1> DEFINE End(k) == ConstructEnd(dialect, text, k)
           C(k) == Construct(dialect, text, k)
<1>1. /\ Len(text) \in Nat /\ n \in Nat /\ n + 1 \in 1..Len(text) /\ (n + 1) - 1 = n
      /\ 1..(n + 1) = (1..n) \cup {n + 1} /\ n + 1 \notin 1..n
  BY TextType
<1>2. /\ visited \in SUBSET (1..n)
      /\ Together(dialect, text, at, index, visited, n)
      /\ \A k \in 1..n : text[k] # "nl" =>
             (at[k - 1] = InCode /\ at[k] = InCode <=> k \in visited /\ C(k) = "code")
      /\ \A k \in 1..n : k \notin visited => Behind(dialect, text, visited, k)
      /\ \A o \in visited : End(o) < index
      /\ \A o, k \in visited : o < k => End(o) < k
  BY DEF InStepAt
<1>3. \/ index = n + 1 /\ at[n] = InCode
      \/ /\ index = n + 1 /\ at[n] # InCode /\ at[n + 1] = InCode /\ text[n + 1] = "nl"
         /\ C(n + 1) = "code"
      \/ /\ index # n + 1 /\ at[n] # InCode
         /\ \E o \in visited : /\ C(o) # "code" /\ at[o - 1] = InCode
                               /\ index = End(o) + 1 /\ n + 1 <= End(o)
  BY <1>2, LoopFollows
<1>4. End(n + 1) \in (n + 1)..(Len(text) + 1)
  BY <1>1, ConstructEndType
<1>5. \A k \in visited : k \in 1..n /\ k < n + 1 /\ End(k) \in Int
  <2>1. \A k \in 1..n : k \in 1..Len(text) /\ k < n + 1
    BY <1>1
  <2>2. \A k \in 1..Len(text) : End(k) \in Int
    BY ConstructEndType, <1>1
  <2> QED BY <2>1, <2>2, <1>2
<1>6. CASE index = n + 1
  <2> DEFINE more == visited \cup {n + 1}
             next == End(n + 1) + 1
  <2>1. Visit(dialect, text, [index |-> index, visited |-> visited], n + 1)
            = [index |-> next, visited |-> more]
    BY <1>6 DEF Visit
  <2>2. more \in SUBSET (1..(n + 1))
    BY <1>1, <1>2
  <2>3. /\ C(n + 1) = "code" => End(n + 1) = n + 1 /\ at[n + 1] = InCode
        /\ at[n] = InCode /\ C(n + 1) # "code" => at[n + 1] # InCode
        /\ at[n] # InCode => C(n + 1) = "code" /\ text[n + 1] = "nl"
    <3>1. CASE at[n] = InCode
      <4>1. PICK i \in 1..Len(text) : i = n + 1
        BY <1>1
      <4>2. at[i - 1] = InCode
        BY <3>1, <4>1, <1>1
      <4>3. /\ C(i) = "code" => End(i) = i /\ at[i] = InCode
            /\ C(i) # "code" => at[i] # InCode
        BY <4>2, ConstructSpan
      <4> QED BY <3>1, <4>1, <4>3, ZenonT(60)
    <3>2. CASE at[n] # InCode
      <4>1. at[n + 1] = InCode /\ text[n + 1] = "nl" /\ C(n + 1) = "code"
        BY <3>2, <1>3, <1>6
      <4>2. End(n + 1) = n + 1
        BY <4>1 DEF ConstructEnd, EndOf
      <4> QED BY <3>2, <4>1, <4>2
    <3> QED BY <3>1, <3>2
  <2>4. Together(dialect, text, at, next, more, n + 1)
    <3>1. CASE C(n + 1) = "code"
      BY <3>1, <2>3 DEF Together
    <3>2. CASE C(n + 1) # "code"
      <4>1. at[(n + 1) - 1] = InCode /\ n + 1 \in more /\ n + 1 <= End(n + 1)
        BY <3>2, <2>3, <1>1, <1>4
      <4> QED BY <3>2, <4>1 DEF Together
    <3> QED BY <3>1, <3>2
  <2> HIDE DEF C, End
  <2>5. \A k \in 1..(n + 1) : text[k] # "nl" =>
           (at[k - 1] = InCode /\ at[k] = InCode <=> k \in more /\ C(k) = "code")
    <3> SUFFICES ASSUME NEW k \in 1..(n + 1), text[k] # "nl"
                 PROVE  at[k - 1] = InCode /\ at[k] = InCode <=> k \in more /\ C(k) = "code"
      OBVIOUS
    <3>1. CASE k \in 1..n
      <4>1. k # n + 1
        BY <3>1, <1>1
      <4> QED BY <3>1, <4>1, <1>2
    <3>2. CASE k = n + 1
      <4>1. k - 1 = n /\ k \in more
        BY <3>2, <1>1
      <4> QED BY <3>2, <4>1, <2>3
    <3> QED BY <3>1, <3>2, <1>1
  <2>6. \A k \in 1..(n + 1) : k \notin more => Behind(dialect, text, more, k)
    <3> SUFFICES ASSUME NEW k \in 1..(n + 1), k \notin more
                 PROVE  Behind(dialect, text, more, k)
      OBVIOUS
    <3>1. Behind(dialect, text, visited, k)
      BY <1>1, <1>2
    <3> QED BY <3>1 DEF Behind
  <2>7. \A o \in more : End(o) < next
    BY <1>1, <1>2, <1>4, <1>5, <1>6
  <2>8. \A o, k \in more : o < k => End(o) < k
    BY <1>1, <1>2, <1>5, <1>6
  <2>9. InStepAt(dialect, text, at, next, more, n + 1)
    BY <2>2, <2>4, <2>5, <2>6, <2>7, <2>8 DEF InStepAt, C, End
  <2> HIDE DEF more, next
  <2> QED BY <2>1, <2>9
<1>7. CASE index # n + 1
  <2>1. PICK o \in visited : /\ C(o) # "code" /\ at[o - 1] = InCode
                             /\ index = End(o) + 1 /\ n + 1 <= End(o)
    BY <1>3, <1>7
  <2>2. at[n] # InCode
    BY <1>3, <1>7
  <2>3. Visit(dialect, text, [index |-> index, visited |-> visited], n + 1)
            = [index |-> index, visited |-> visited]
    BY <1>7 DEF Visit
  <2>4. Together(dialect, text, at, index, visited, n + 1)
    BY <2>1 DEF Together
  <2>5. n + 1 \notin visited /\ visited \in SUBSET (1..(n + 1))
    BY <1>1, <1>2
  <2>6. Behind(dialect, text, visited, n + 1)
    BY <2>1, <1>5 DEF Behind
  <2> HIDE DEF C, End
  <2>7. \A k \in 1..(n + 1) : text[k] # "nl" =>
           (at[k - 1] = InCode /\ at[k] = InCode <=> k \in visited /\ C(k) = "code")
    <3> SUFFICES ASSUME NEW k \in 1..(n + 1), text[k] # "nl"
                 PROVE  at[k - 1] = InCode /\ at[k] = InCode <=> k \in visited /\ C(k) = "code"
      OBVIOUS
    <3>1. CASE k \in 1..n
      BY <3>1, <1>2
    <3>2. CASE k = n + 1
      <4>1. k - 1 = n
        BY <3>2, <1>1
      <4> QED BY <3>2, <4>1, <2>2, <2>5
    <3> QED BY <3>1, <3>2, <1>1
  <2>8. \A k \in 1..(n + 1) : k \notin visited => Behind(dialect, text, visited, k)
    BY <1>1, <1>2, <2>6
  <2>9. InStepAt(dialect, text, at, index, visited, n + 1)
    BY <1>2, <2>4, <2>5, <2>7, <2>8 DEF InStepAt, C, End
  <2> QED BY <2>3, <2>9
<1> QED
  BY <1>6, <1>7

\* The masking loop and the lexer agree after the whole text.
LEMMA LoopAndLexer ==
  ASSUME NEW dialect, NEW text \in Texts
  PROVE  LET loop == Loop(dialect, text)[Len(text)] IN
         InStepAt(dialect, text, Lexer(dialect, text), loop.index, loop.visited, Len(text))
<1> DEFINE at == Lexer(dialect, text)
           loop == Loop(dialect, text)
           len == Len(text)
           IsState(s) == s = [index |-> s.index, visited |-> s.visited]
           S == {n \in 0..len : /\ IsState(loop[n])
                                /\ InStepAt(dialect, text, at, loop[n].index, loop[n].visited, n)}
<1>1. len \in Nat /\ 0 \in Nat
  BY TextType
<1>2. IsRun(dialect, text, at)
  BY LexerSteps DEF IsRun
<1>3. /\ loop[0] = [index |-> 1, visited |-> {}]
      /\ \A n \in 1..len : loop[n] = Visit(dialect, text, loop[n - 1], n)
  BY LoopSteps
<1> HIDE DEF at, loop
<1>4. 0 \in S
  <2>1. InStepAt(dialect, text, at, 1, {}, 0)
    BY <1>2 DEF InStepAt, Together, IsRun
  <2>2. loop[0].index = 1 /\ loop[0].visited = {} /\ IsState(loop[0])
    BY <1>3
  <2> HIDE DEF len, IsState
  <2> QED BY <2>1, <2>2, <1>1
<1>5. ASSUME NEW n \in 0..len, n \in S, n < len
      PROVE  n + 1 \in S
  <2> DEFINE index == loop[n].index
             visited == loop[n].visited
             next == Visit(dialect, text, [index |-> index, visited |-> visited], n + 1)
  <2>1. n + 1 \in 1..len /\ n + 1 \in 0..len /\ (n + 1) - 1 = n
    BY <1>1, <1>5
  <2>2. loop[n] = [index |-> index, visited |-> visited]
    BY <1>5
  <2>3. InStepAt(dialect, text, at, index, visited, n)
    BY <1>5
  <2>4. loop[n + 1] = next
    BY <1>3, <2>1, <2>2
  <2> HIDE DEF index, visited
  <2>5. InStepAt(dialect, text, at, next.index, next.visited, n + 1)
    BY <1>2, <1>5, <2>3, LoopStep
  <2>6. IsState(next)
    BY DEF Visit
  <2> HIDE DEF next, IsState
  <2> QED BY <2>1, <2>4, <2>5, <2>6
<1> HIDE DEF S
<1>6. 0..len \subseteq S
  BY <1>1, <1>4, <1>5, IntervalInduction
<1>7. len \in 0..len
  BY <1>1
<1>8. InStepAt(dialect, text, at, loop[len].index, loop[len].visited, len)
  BY <1>6, <1>7 DEF S
<1> QED
  BY <1>8 DEF at, loop, len

\* The scanner loses its place in no text: but for the newlines, what mask_noncode
\* leaves is what the documented lexer reads as code, whatever comments, strings,
\* quotations, characters and escapes the text nests, cuts short or leaves open.
THEOREM ScannerFollowsLexer ==
  ASSUME NEW dialect, NEW text \in Texts
  PROVE  {i \in DOMAIN text \ Masked(dialect, text) : text[i] # "nl"}
            = {i \in LexedCode(dialect, text) : text[i] # "nl"}
<1> DEFINE at == Lexer(dialect, text)
           visited == LoopPositions(dialect, text)
           index == Loop(dialect, text)[Len(text)].index
           End(k) == ConstructEnd(dialect, text, k)
           C(k) == Construct(dialect, text, k)
<1>1. InStepAt(dialect, text, at, index, visited, Len(text))
  BY LoopAndLexer DEF LoopPositions
<1>2. DOMAIN text = 1..Len(text) /\ Len(text) \in Nat
  BY TextType
<1>3. LexedCode(dialect, text) = {i \in DOMAIN text : at[i - 1] = InCode /\ at[i] = InCode}
  BY DEF LexedCode
<1>4. \A k \in DOMAIN text : k \in Masked(dialect, text) <=>
         \E o \in visited : C(o) # "code" /\ k \in o..End(o)
  BY DEF Masked, Openings
<1>5. \A k \in visited : k \in 1..Len(text) /\ End(k) \in k..(Len(text) + 1)
  BY <1>1, ConstructEndType DEF InStepAt
<1> HIDE DEF at, visited, index
<1>6. ASSUME NEW k \in DOMAIN text, text[k] # "nl"
      PROVE  k \in Masked(dialect, text) <=> k \notin visited \/ C(k) # "code"
  <2>1. ASSUME k \notin visited
        PROVE  k \in Masked(dialect, text)
    <3>1. PICK o \in visited : C(o) # "code" /\ o < k /\ k <= End(o)
      BY <2>1, <1>1, <1>2 DEF InStepAt, Behind
    <3>2. k \in o..End(o)
      BY <3>1, <1>2, <1>5
    <3> QED BY <3>1, <3>2, <1>4
  <2>2. ASSUME k \in visited, C(k) # "code"
        PROVE  k \in Masked(dialect, text)
    <3>1. k \in k..End(k)
      BY <2>2, <1>5
    <3> QED BY <3>1, <2>2, <1>4
  <2>3. ASSUME k \in visited, C(k) = "code", k \in Masked(dialect, text)
        PROVE  FALSE
    <3>1. PICK o \in visited : C(o) # "code" /\ k \in o..End(o)
      BY <2>3, <1>4
    <3>2. o # k
      BY <2>3, <3>1
    <3>3. o < k /\ k <= End(o)
      BY <3>1, <3>2, <1>2, <1>5
    <3>4. End(o) < k
      BY <2>3, <3>3, <1>1 DEF InStepAt
    <3> QED BY <3>1, <3>3, <3>4, <1>2, <1>5
  <2> QED BY <2>1, <2>2, <2>3
<1>7. ASSUME NEW k \in DOMAIN text, text[k] # "nl"
      PROVE  k \in LexedCode(dialect, text) <=> k \in visited /\ C(k) = "code"
  BY <1>1, <1>2, <1>3, <1>7 DEF InStepAt
<1> HIDE DEF C
<1>8. \A k \in DOMAIN text : text[k] # "nl" =>
         (k \notin Masked(dialect, text) <=> k \in LexedCode(dialect, text))
  BY <1>6, <1>7
<1>9. LexedCode(dialect, text) \subseteq DOMAIN text
  BY <1>3
<1> QED
  BY <1>8, <1>9

\* The patterns see each position of the code once, and no other.
LEMMA PatternsSeeCode ==
  ASSUME NEW dialect, NEW text \in Texts
  PROVE  /\ {i \in LexedCode(dialect, text) : text[i] # "nl"} \subseteq 1..Len(text)
         /\ Lists(CodePositions(dialect, text),
                  {i \in LexedCode(dialect, text) : text[i] # "nl"}, Len(text))
<1> DEFINE P == {i \in DOMAIN text \ Masked(dialect, text) : text[i] # "nl"}
<1>1. DOMAIN text = 1..Len(text)
  BY TextType
<1>2. P \in SUBSET (1..Len(text))
  BY <1>1
<1>3. P = {i \in LexedCode(dialect, text) : text[i] # "nl"}
  BY ScannerFollowsLexer
<1>4. CodePositions(dialect, text) = InOrder(text, P)
  BY DEF CodePositions
<1> HIDE DEF P
<1>5. Lists(InOrder(text, P), P, Len(text))
  BY <1>2, InOrderLists
<1> QED
  BY <1>2, <1>3, <1>4, <1>5

-----------------------------------------------------------------------------
(* The inductive invariant of the pipeline.                                 *)

\* What the check requires of the artifacts before it uses them, by their own
\* contents: each was written whole, from one findings file.
SummaryWhole(d) ==
    d # Torn => d.findings.commit = d.commit /\ IsReading(d.findings.of)

PointerWhole(d) == d # Torn => d.records = PointerTriage(d.findings, d.rules).records

FfiWhole(d) == d # Torn => d.records = FfiTriage(d.findings, d.review).records

Keys(F) == {StableKey(x) : x \in Lines(F)}

DeltaWhole(d) ==
    d # Torn => /\ d.selectedOnly = Keys(d.findings) \ Comparison.keys
                /\ d.comparisonOnly = Comparison.keys \ Keys(d.findings)

Whole(a, d) ==
    /\ a = "summary" => SummaryWhole(d)
    /\ a = "pointer" => PointerWhole(d)
    /\ a = "ffi" => FfiWhole(d)
    /\ a = "delta" => DeltaWhole(d)

WorldTyped ==
    /\ repo = [head |-> repo.head, work |-> repo.work]
    /\ repo.head \in Commits /\ IsReading(repo.work)
    /\ DOMAIN inputs = {"scope", "contract", "rules", "review", "manifest"}
    /\ inputs.rules \in DOMAIN Rules
    /\ DOMAIN ledger.artifacts = Recorded
    /\ budget \in Nat

IsTodo(todo) ==
    /\ todo \in Seq(Range(todo))
    /\ \A k \in 1..Len(todo) : todo[k][1] \in Artifacts /\ Whole(todo[k][1], todo[k][2])

GenTyped ==
    /\ gen = [pc |-> gen.pc, commit |-> gen.commit, listing |-> gen.listing,
              read |-> gen.read, todo |-> gen.todo, then |-> gen.then]
    /\ gen.pc \in {"idle", "head", "status", "read", "open", "write", "triage", "compare"}
    /\ gen.then \in {"idle", "triage", "compare"}
    /\ gen.pc \in {"open", "write"} <=> gen.todo # <<>>
    /\ IsReading(gen.read)
    /\ IsTodo(gen.todo)

OnDisk == DOMAIN art = Artifacts /\ \A a \in Artifacts : Whole(a, art[a])

SeenUpTo(n) == {Reads[k] : k \in 1..n}

ChkTyped ==
    /\ chk = [result |-> chk.result, seen |-> chk.seen, quiet |-> chk.quiet]
    /\ chk.result \in {"none", "running", "refused", "accepted"}
    /\ chk.quiet \in BOOLEAN
    /\ chk.result \in {"none", "refused"} => chk.seen = <<>>
    /\ chk.result = "running" => \E n \in 0..15 : DOMAIN chk.seen = SeenUpTo(n)
    /\ chk.result = "accepted" => DOMAIN chk.seen = SeenUpTo(16)

Vetted ==
    /\ \A name \in DOMAIN chk.seen : Holds(name, chk.seen) /\ Whole(name, chk.seen[name])
    /\ "reviewed" \in DOMAIN chk.seen => chk.seen.reviewed.rules \in DOMAIN Rules

\* While nothing disturbs the check, all is as it was when it began.
Undisturbed ==
    chk.quiet => /\ chk.result \in {"running", "accepted"}
                 /\ chk.result = "running" =>
                      /\ InStep
                      /\ \A name \in DOMAIN chk.seen : chk.seen[name] = Read(name)

IInv ==
    WorldTyped /\ GenTyped /\ OnDisk /\ ChkTyped /\ Vetted /\ Undisturbed

-----------------------------------------------------------------------------
(* What the check has required of what it has read.                         *)

LEMMA ReadsInOrder ==
  /\ Reads[1] = "ledger" /\ Reads[2] = "summary" /\ Reads[3] = "findings"
  /\ Reads[4] = "notes" /\ Reads[5] = "checkout" /\ Reads[6] = "sources"
  /\ Reads[7] = "contract" /\ Reads[8] = "artifacts" /\ Reads[9] = "delta"
  /\ Reads[10] = "inventory" /\ Reads[11] = "pointer" /\ Reads[12] = "ffi"
  /\ Reads[13] = "reviewed" /\ Reads[14] = "manifest" /\ Reads[15] = "lines"
  /\ Reads[16] = "closure"
  /\ \A k, l \in 1..16 : Reads[k] = Reads[l] => k = l
<1>1. \A k \in 1..16 : \/ k = 1 \/ k = 2 \/ k = 3 \/ k = 4 \/ k = 5 \/ k = 6 \/ k = 7 \/ k = 8
                       \/ k = 9 \/ k = 10 \/ k = 11 \/ k = 12 \/ k = 13 \/ k = 14
                       \/ k = 15 \/ k = 16
  OBVIOUS
<1>2. /\ Reads[1] = "ledger" /\ Reads[2] = "summary" /\ Reads[3] = "findings"
      /\ Reads[4] = "notes" /\ Reads[5] = "checkout" /\ Reads[6] = "sources"
      /\ Reads[7] = "contract" /\ Reads[8] = "artifacts" /\ Reads[9] = "delta"
      /\ Reads[10] = "inventory" /\ Reads[11] = "pointer" /\ Reads[12] = "ffi"
      /\ Reads[13] = "reviewed" /\ Reads[14] = "manifest" /\ Reads[15] = "lines"
      /\ Reads[16] = "closure"
  BY DEF Reads
<1> QED
  BY <1>1, <1>2

\* What each step of the check requires.
LEMMA HoldsMeans ==
  ASSUME NEW s
  PROVE  /\ Holds("ledger", s) <=> \A e \in s.ledger.entries : EntryAccepted(e)
         /\ Holds("summary", s) <=> s.summary # Torn
         /\ Holds("findings", s) <=> /\ s.findings = s.summary.findings
                                     /\ Counts(s.findings) = s.summary.counts
         /\ Holds("notes", s) <=> s.notes # Torn /\ NoteCounts(s.notes) = s.summary.notes
         /\ Holds("checkout", s) <=> /\ s.checkout.head = s.summary.commit
                                     /\ s.checkout.dirty = s.summary.dirty
                                     /\ s.checkout.listing = s.summary.listing
         /\ Holds("sources", s) <=> SourcesHold(s)
         /\ Holds("contract", s) <=> ContractHolds(s)
         /\ Holds("artifacts", s) <=> s.ledger.artifacts = s.artifacts
         /\ Holds("delta", s) <=> DeltaHolds(s)
         /\ Holds("inventory", s)
         /\ Holds("pointer", s) <=> s.pointer # Torn /\ s.pointer.findings = s.inventory
         /\ Holds("ffi", s) <=> s.ffi # Torn /\ s.ffi.findings = s.inventory
         /\ Holds("reviewed", s) <=> TriageHolds(s)
         /\ Holds("manifest", s) /\ Holds("lines", s)
         /\ Holds("closure", s) <=> ClosureHolds(s)
BY DEF Holds

\* A step looks at nothing that the check reads after it.
LEMMA HoldsAgree ==
  ASSUME NEW k \in 1..16, NEW s, NEW t, \A j \in 1..k : s[Reads[j]] = t[Reads[j]],
         Holds(Reads[k], s)
  PROVE  Holds(Reads[k], t)
<1> USE ReadsInOrder, HoldsMeans
<1>1. CASE k = 1
  <2>1. s.ledger = t.ledger
    BY <1>1
  <2> QED BY <1>1, <2>1
<1>2. CASE k = 2
  <2>1. s.summary = t.summary
    BY <1>2
  <2> QED BY <1>2, <2>1
<1>3. CASE k = 3
  <2>1. s.summary = t.summary /\ s.findings = t.findings
    BY <1>3
  <2> QED BY <1>3, <2>1
<1>4. CASE k = 4
  <2>1. s.summary = t.summary /\ s.notes = t.notes
    BY <1>4
  <2> QED BY <1>4, <2>1
<1>5. CASE k = 5
  <2>1. s.summary = t.summary /\ s.checkout = t.checkout
    BY <1>5
  <2> QED BY <1>5, <2>1
<1>6. CASE k = 6
  <2>1. s.findings = t.findings /\ s.sources = t.sources
    BY <1>6
  <2> QED BY <1>6, <2>1 DEF SourcesHold
<1>7. CASE k = 7
  <2>1. s.ledger = t.ledger /\ s.summary = t.summary /\ s.contract = t.contract
    BY <1>7
  <2> QED BY <1>7, <2>1 DEF ContractHolds
<1>8. CASE k = 8
  <2>1. s.ledger = t.ledger /\ s.artifacts = t.artifacts
    BY <1>8
  <2> QED BY <1>8, <2>1
<1>9. CASE k = 9
  <2>1. s.ledger = t.ledger /\ s.summary = t.summary /\ s.findings = t.findings /\ s.delta = t.delta
    BY <1>9
  <2> QED BY <1>9, <2>1 DEF DeltaHolds
<1>10. CASE k = 10
  BY <1>10
<1>11. CASE k = 11
  <2>1. s.inventory = t.inventory /\ s.pointer = t.pointer
    BY <1>11
  <2> QED BY <1>11, <2>1
<1>12. CASE k = 12
  <2>1. s.inventory = t.inventory /\ s.ffi = t.ffi
    BY <1>12
  <2> QED BY <1>12, <2>1
<1>13. CASE k = 13
  <2>1. /\ s.ledger = t.ledger /\ s.findings = t.findings /\ s.reviewed = t.reviewed
        /\ s.pointer = t.pointer /\ s.ffi = t.ffi
    BY <1>13
  <2> QED BY <1>13, <2>1 DEF TriageHolds
<1>14. CASE k = 14
  BY <1>14
<1>15. CASE k = 15
  BY <1>15
<1>16. CASE k = 16
  <2>1. s.manifest = t.manifest /\ s.lines = t.lines /\ s.closure = t.closure
    BY <1>16
  <2> QED BY <1>16, <2>1 DEF ClosureHolds
<1>17. \/ k = 1 \/ k = 2 \/ k = 3 \/ k = 4 \/ k = 5 \/ k = 6 \/ k = 7 \/ k = 8 \/ k = 9
       \/ k = 10 \/ k = 11 \/ k = 12 \/ k = 13 \/ k = 14 \/ k = 15 \/ k = 16
  OBVIOUS
<1> QED
  BY <1>1, <1>2, <1>3, <1>4, <1>5, <1>6, <1>7, <1>8, <1>9, <1>10, <1>11, <1>12, <1>13, <1>14,
     <1>15, <1>16, <1>17

-----------------------------------------------------------------------------
(* What the generator writes is whole.                                      *)

LEMMA FindingsOfReading ==
  ASSUME NEW c, NEW read, IsReading(read)
  PROVE  /\ FindingsFile(c, read).commit = c
         /\ IsReading(FindingsFile(c, read).of)
<1> DEFINE D == {g \in DOMAIN read : ScanOf[g][read[g]] # {}}
           of == [f \in D |-> read[f]]
<1>1. FindingsFile(c, read) = [commit |-> c, of |-> of]
  BY DEF FindingsFile
<1>2. D \subseteq DOMAIN read
  OBVIOUS
<1>3. DOMAIN read \subseteq Files /\ \A f \in DOMAIN read : read[f] \in Contents
  BY DEF IsReading
<1> HIDE DEF D
<1>4. DOMAIN of = D /\ of \in [D -> Contents] /\ D \subseteq Files
  BY <1>2, <1>3
<1> HIDE DEF of
<1>5. IsReading(of)
  BY <1>4 DEF IsReading
<1> QED
  BY <1>1, <1>5

LEMMA WrittenIsWhole ==
  /\ \A a : Whole(a, Torn)
  /\ \A c, read : IsReading(read) => Whole("summary", Summary(c, read))
  /\ \A F, rules : Whole("pointer", PointerTriage(F, rules))
  /\ \A F, review : Whole("ffi", FfiTriage(F, review))
  /\ \A contract, summary, F, pointer, ffi :
         Whole("delta", PinDelta(contract, summary, F, pointer, ffi))
  /\ \A d : Whole("findings", d) /\ Whole("notes", d) /\ Whole("closure", d)
<1>1. \A a : Whole(a, Torn)
  BY DEF Whole, SummaryWhole, PointerWhole, FfiWhole, DeltaWhole
<1>2. ASSUME NEW c, NEW read, IsReading(read)
      PROVE  Whole("summary", Summary(c, read))
  <2>1. /\ Summary(c, read).commit = c
        /\ Summary(c, read).findings = FindingsFile(c, read)
    BY DEF Summary
  <2> QED BY <2>1, <1>2, FindingsOfReading DEF Whole, SummaryWhole
<1>3. ASSUME NEW F, NEW rules
      PROVE  Whole("pointer", PointerTriage(F, rules))
  <2>1. /\ PointerTriage(F, rules).findings = F
        /\ PointerTriage(F, rules).rules = rules
    BY DEF PointerTriage
  <2> QED BY <2>1 DEF Whole, PointerWhole
<1>4. ASSUME NEW F, NEW review
      PROVE  Whole("ffi", FfiTriage(F, review))
  <2>1. /\ FfiTriage(F, review).findings = F
        /\ FfiTriage(F, review).review = review
    BY DEF FfiTriage
  <2> QED BY <2>1 DEF Whole, FfiWhole
<1>5. ASSUME NEW contract, NEW summary, NEW F, NEW pointer, NEW ffi
      PROVE  Whole("delta", PinDelta(contract, summary, F, pointer, ffi))
  <2> DEFINE d == PinDelta(contract, summary, F, pointer, ffi)
  <2>1. /\ d.findings = F
        /\ d.selectedOnly = Keys(F) \ Comparison.keys
        /\ d.comparisonOnly = Comparison.keys \ Keys(F)
    BY DEF PinDelta, Keys
  <2> HIDE DEF d
  <2>2. Whole("delta", d)
    BY <2>1 DEF Whole, DeltaWhole
  <2> QED BY <2>2 DEF d
<1>6. \A d : Whole("findings", d) /\ Whole("notes", d) /\ Whole("closure", d)
  BY DEF Whole
<1> QED
  BY <1>1, <1>2, <1>3, <1>4, <1>5, <1>6

LEMMA GeneratedIsWhole ==
  ASSUME NEW c, NEW read, IsReading(read), NEW in
  PROVE  LET files == Generated(c, read, in) IN
         /\ DOMAIN files = Artifacts
         /\ \A a \in Artifacts : Whole(a, files[a])
<1> DEFINE files == Generated(c, read, in)
           F == FindingsFile(c, read)
           pointer == PointerTriage(F, in.rules)
           ffi == FfiTriage(F, in.review)
           delta == PinDelta(in.contract, Summary(c, read), F, pointer, ffi)
<1>1. /\ DOMAIN files = Artifacts
      /\ files["summary"] = Summary(c, read) /\ files["pointer"] = pointer
      /\ files["ffi"] = ffi /\ files["delta"] = delta
  BY DEF Generated, Artifacts
<1>2. /\ Whole("summary", Summary(c, read)) /\ Whole("pointer", pointer)
      /\ Whole("ffi", ffi) /\ Whole("delta", delta)
  BY WrittenIsWhole
<1> HIDE DEF files, pointer, ffi, delta
<1>3. ASSUME NEW a \in Artifacts
      PROVE  Whole(a, files[a])
  BY <1>1, <1>2, WrittenIsWhole DEF Artifacts
<1> QED
  BY <1>1, <1>3 DEF files

\* A list of what is to be written.
LEMMA TodoLists ==
  /\ IsTodo(<<>>)
  /\ \A x : x[1] \in Artifacts /\ Whole(x[1], x[2]) => IsTodo(<<x>>) /\ <<x>> # <<>>
  /\ \A x, y : /\ x[1] \in Artifacts /\ Whole(x[1], x[2])
               /\ y[1] \in Artifacts /\ Whole(y[1], y[2])
               => IsTodo(<<x, y>>) /\ <<x, y>> # <<>>
  /\ \A x, y, z : /\ x[1] \in Artifacts /\ Whole(x[1], x[2])
                  /\ y[1] \in Artifacts /\ Whole(y[1], y[2])
                  /\ z[1] \in Artifacts /\ Whole(z[1], z[2])
                  => IsTodo(<<x, y, z>>) /\ <<x, y, z>> # <<>>
<1>1. IsTodo(<<>>)
  BY DEF IsTodo, Range
<1>2. ASSUME NEW x, x[1] \in Artifacts, Whole(x[1], x[2])
      PROVE  IsTodo(<<x>>) /\ <<x>> # <<>>
  <2>1. <<x>> \in Seq({x}) /\ Len(<<x>>) = 1 /\ <<x>>[1] = x
    OBVIOUS
  <2>2. Range(<<x>>) = {x}
    BY DEF Range
  <2> QED BY <2>1, <2>2, <1>2 DEF IsTodo
<1>3. ASSUME NEW x, x[1] \in Artifacts, Whole(x[1], x[2]),
             NEW y, y[1] \in Artifacts, Whole(y[1], y[2])
      PROVE  IsTodo(<<x, y>>) /\ <<x, y>> # <<>>
  <2> DEFINE l == <<x, y>>
  <2>1. l \in Seq({x, y}) /\ Len(l) = 2 /\ l[1] = x /\ l[2] = y /\ DOMAIN l = 1..2
    OBVIOUS
  <2> HIDE DEF l
  <2>2. Range(l) = {x, y}
    BY <2>1 DEF Range
  <2>3. \A k \in 1..Len(l) : k = 1 \/ k = 2
    BY <2>1
  <2>4. \A k \in 1..Len(l) : l[k][1] \in Artifacts /\ Whole(l[k][1], l[k][2])
    BY <2>1, <2>3, <1>3, SMTT(30)
  <2>5. l # <<>>
    BY <2>1
  <2>6. IsTodo(l)
    BY <2>1, <2>2, <2>4 DEF IsTodo
  <2> QED BY <2>5, <2>6 DEF l
<1>4. ASSUME NEW x, x[1] \in Artifacts, Whole(x[1], x[2]),
             NEW y, y[1] \in Artifacts, Whole(y[1], y[2]),
             NEW z, z[1] \in Artifacts, Whole(z[1], z[2])
      PROVE  IsTodo(<<x, y, z>>) /\ <<x, y, z>> # <<>>
  <2> DEFINE l == <<x, y, z>>
  <2>1. /\ l \in Seq({x, y, z}) /\ Len(l) = 3 /\ l[1] = x /\ l[2] = y /\ l[3] = z
        /\ DOMAIN l = 1..3
    OBVIOUS
  <2> HIDE DEF l
  <2>2. Range(l) = {x, y, z}
    BY <2>1 DEF Range
  <2>3. \A k \in 1..Len(l) : k = 1 \/ k = 2 \/ k = 3
    BY <2>1
  <2>4. \A k \in 1..Len(l) : l[k][1] \in Artifacts /\ Whole(l[k][1], l[k][2])
    BY <2>1, <2>3, <1>4, SMTT(30)
  <2>5. l # <<>>
    BY <2>1
  <2>6. IsTodo(l)
    BY <2>1, <2>2, <2>4 DEF IsTodo
  <2> QED BY <2>5, <2>6 DEF l
<1> QED
  BY <1>1, <1>2, <1>3, <1>4

LEMMA TodoTail ==
  ASSUME NEW todo, IsTodo(todo), todo # <<>>
  PROVE  /\ IsTodo(Tail(todo)) /\ todo[1][1] \in Artifacts /\ Whole(todo[1][1], todo[1][2])
         /\ Tail(todo) # <<>> <=> Len(todo) > 1
<1> DEFINE rest == Tail(todo)
           S == Range(todo)
<1>1. /\ todo \in Seq(S)
      /\ \A k \in 1..Len(todo) : todo[k][1] \in Artifacts /\ Whole(todo[k][1], todo[k][2])
  BY DEF IsTodo
<1> HIDE DEF S
<1>2. Len(todo) \in Nat /\ Len(todo) > 0
  BY <1>1
<1>3. /\ rest \in Seq(S) /\ Len(rest) = Len(todo) - 1
      /\ \A k \in 1..Len(rest) : rest[k] = todo[k + 1]
  BY <1>1, <1>2
<1> HIDE DEF rest
<1>4. DOMAIN rest = 1..Len(rest) /\ rest \in [1..Len(rest) -> S]
  BY <1>3
<1>5. rest \in Seq(Range(rest))
  <2>1. rest \in [1..Len(rest) -> Range(rest)]
    BY <1>4 DEF Range
  <2>2. Len(rest) \in Nat
    BY <1>2, <1>3
  <2> QED BY <2>1, <2>2
<1>6. \A k \in 1..Len(rest) : k + 1 \in 1..Len(todo)
  BY <1>2, <1>3
<1>7. IsTodo(rest)
  BY <1>1, <1>3, <1>5, <1>6 DEF IsTodo
<1>8. rest # <<>> <=> Len(todo) > 1
  BY <1>2, <1>3
<1> QED
  BY <1>1, <1>2, <1>7, <1>8 DEF rest

-----------------------------------------------------------------------------
(* The steps of the generator.                                              *)

\* What is not the check disturbs it, and the check keeps what it has read.
LEMMA DisturbStep ==
  ASSUME ChkTyped, Vetted, Disturb
  PROVE  ChkTyped' /\ Vetted' /\ Undisturbed'
<1>1. chk' = [result |-> chk.result, seen |-> chk.seen, quiet |-> FALSE]
  BY DEF ChkTyped, Disturb
<1>2. /\ chk'.result = chk.result /\ chk'.seen = chk.seen /\ chk'.quiet = FALSE
  BY <1>1
<1>3. ChkTyped'
  BY <1>1, <1>2 DEF ChkTyped
<1>4. Vetted'
  <2>1. chk.seen' = chk.seen
    BY <1>2
  <2>2. \A name \in DOMAIN chk.seen : Holds(name, chk.seen') /\ Whole(name, chk.seen'[name])
    BY <2>1 DEF Vetted
  <2> QED BY <2>1, <2>2 DEF Vetted
<1>5. Undisturbed'
  BY <1>2 DEF Undisturbed
<1> QED
  BY <1>3, <1>4, <1>5

\* A record of the generator is what its fields say.
LEMMA GenRecords ==
  ASSUME NEW pc \in {"idle", "head", "status", "read", "open", "write", "triage", "compare"},
         NEW commit, NEW listing, NEW read, IsReading(read), NEW todo, IsTodo(todo),
         NEW then \in {"idle", "triage", "compare"},
         pc \in {"open", "write"} <=> todo # <<>>,
         gen' = [pc |-> pc, commit |-> commit, listing |-> listing, read |-> read,
                 todo |-> todo, then |-> then]
  PROVE  GenTyped'
<1>1. /\ gen.pc' = pc /\ gen.commit' = commit /\ gen.listing' = listing
      /\ gen.read' = read /\ gen.todo' = todo /\ gen.then' = then
  OBVIOUS
<1> QED
  BY <1>1 DEF GenTyped

LEMMA NothingRead == IsReading(<<>>)
BY DEF IsReading

LEMMA IdleIsTyped ==
  ASSUME gen' = Idle
  PROVE  GenTyped'
<1>1. gen' = [pc |-> "idle", commit |-> Absent, listing |-> <<>>, read |-> <<>>,
              todo |-> <<>>, then |-> "idle"]
  BY DEF Idle
<1> QED
  BY <1>1, GenRecords, NothingRead, TodoLists

LEMMA OneMoreRead ==
  ASSUME NEW read, IsReading(read), NEW f \in Files, NEW t \in Contents
  PROVE  IsReading(AndRead(read, f, t))
<1> DEFINE both == AndRead(read, f, t)
<1>1. both = [x \in DOMAIN read \cup {f} |-> IF x = f THEN t ELSE read[x]]
  BY DEF AndRead
<1>2. DOMAIN both = DOMAIN read \cup {f}
  BY <1>1
<1>3. \A x \in DOMAIN both : both[x] \in Contents
  BY <1>1, <1>2 DEF IsReading
<1> HIDE DEF both
<1>4. both \in [DOMAIN both -> Contents]
  BY <1>1, <1>2, <1>3
<1> QED
  BY <1>2, <1>4 DEF IsReading, both

\* What one step of the generator does to what it has and to what is on disk.
LEMMA GenStep ==
  ASSUME GenTyped, OnDisk, WorldTyped,
         StartUpdate \/ CheckHead \/ CheckStatus \/ ReadSource \/ OpenArtifact
           \/ WriteArtifact \/ Triage \/ Compare \/ WriteClosure
  PROVE  GenTyped' /\ OnDisk'
<1> DEFINE New(pc, commit, listing, read, todo, then) ==
             gen' = [pc |-> pc, commit |-> commit, listing |-> listing, read |-> read,
                     todo |-> todo, then |-> then]
<1>a. /\ gen = [pc |-> gen.pc, commit |-> gen.commit, listing |-> gen.listing,
                read |-> gen.read, todo |-> gen.todo, then |-> gen.then]
      /\ gen.pc \in {"open", "write"} <=> gen.todo # <<>>
      /\ gen.then \in {"idle", "triage", "compare"}
      /\ IsReading(gen.read) /\ IsTodo(gen.todo)
  BY DEF GenTyped
<1>b. Idle = [pc |-> "idle", commit |-> Absent, listing |-> <<>>, read |-> <<>>,
              todo |-> <<>>, then |-> "idle"]
  BY DEF Idle
<1>c. ASSUME UNCHANGED art
      PROVE  OnDisk'
  BY <1>c DEF OnDisk
<1>d. ASSUME Fail
      PROVE  GenTyped' /\ OnDisk'
  BY <1>d, <1>c, IdleIsTyped DEF Fail
<1>1. CASE StartUpdate
  <2>1. New("head", gen.commit, gen.listing, gen.read, gen.todo, gen.then)
    BY <1>1, <1>a DEF StartUpdate
  <2>2. UNCHANGED art /\ gen.pc = "idle"
    BY <1>1 DEF StartUpdate
  <2>3. "head" \in {"open", "write"} <=> gen.todo # <<>>
    BY <2>2, <1>a
  <2>4. GenTyped'
    BY <2>1, <2>3, <1>a DEF GenTyped
  <2> QED BY <2>2, <2>4, <1>c
<1>2. CASE CheckHead
  <2>1. CASE repo.head = inputs.scope
    <3>1. New("status", repo.head, gen.listing, gen.read, gen.todo, gen.then)
      BY <1>2, <2>1, <1>a DEF CheckHead
    <3>2. UNCHANGED art /\ gen.pc = "head"
      BY <1>2, <2>1 DEF CheckHead
    <3>3. GenTyped'
      BY <3>1, <3>2, <1>a DEF GenTyped
    <3> QED BY <3>2, <3>3, <1>c
  <2>2. CASE repo.head # inputs.scope
    BY <1>2, <2>2, <1>d DEF CheckHead
  <2> QED BY <2>1, <2>2
<1>3. CASE CheckStatus
  <2>1. CASE ~Dirty
    <3>1. New("read", gen.commit, Tracked, gen.read, gen.todo, gen.then)
      BY <1>3, <2>1, <1>a DEF CheckStatus
    <3>2. UNCHANGED art /\ gen.pc = "status"
      BY <1>3, <2>1 DEF CheckStatus
    <3>3. GenTyped'
      BY <3>1, <3>2, <1>a DEF GenTyped
    <3> QED BY <3>2, <3>3, <1>c
  <2>2. CASE Dirty
    BY <1>3, <2>2, <1>d DEF CheckStatus
  <2> QED BY <2>1, <2>2
<1>4. CASE ReadSource
  <2> DEFINE f == Head(gen.listing)
             read == AndRead(gen.read, f, repo.work[f])
  <2>1. CASE f \notin DOMAIN repo.work
    BY <1>4, <2>1, <1>d DEF ReadSource
  <2>2. CASE f \in DOMAIN repo.work /\ Len(gen.listing) > 1
    <3>1. New("read", gen.commit, Tail(gen.listing), read, gen.todo, gen.then)
      BY <1>4, <2>2, <1>a DEF ReadSource
    <3>2. UNCHANGED art /\ gen.pc = "read"
      BY <1>4, <2>2 DEF ReadSource
    <3>3. f \in Files /\ repo.work[f] \in Contents
      BY <2>2 DEF WorldTyped, IsReading
    <3>4. IsReading(read)
      BY <3>3, <1>a, OneMoreRead
    <3> HIDE DEF read
    <3>5. GenTyped'
      BY <3>1, <3>2, <3>4, <1>a DEF GenTyped
    <3> QED BY <3>2, <3>5, <1>c
  <2>3. CASE f \in DOMAIN repo.work /\ ~(Len(gen.listing) > 1)
    <3> DEFINE x == <<"findings", FindingsFile(gen.commit, read)>>
               y == <<"notes", NotesFile(read)>>
               z == <<"summary", Summary(gen.commit, read)>>
    <3>1. New("open", gen.commit, <<>>, <<>>, <<x, y, z>>, "triage")
      BY <1>4, <2>3, <1>b DEF ReadSource
    <3>2. UNCHANGED art
      BY <1>4, <2>3 DEF ReadSource
    <3>3. f \in Files /\ repo.work[f] \in Contents
      BY <2>3 DEF WorldTyped, IsReading
    <3>4. IsReading(read)
      BY <3>3, <1>a, OneMoreRead
    <3>5. /\ x[1] \in Artifacts /\ Whole(x[1], x[2])
          /\ y[1] \in Artifacts /\ Whole(y[1], y[2])
          /\ z[1] \in Artifacts /\ Whole(z[1], z[2])
      BY <3>4, WrittenIsWhole DEF Artifacts
    <3> HIDE DEF x, y, z
    <3>6. IsTodo(<<x, y, z>>) /\ <<x, y, z>> # <<>>
      BY <3>5, TodoLists
    <3>7. GenTyped'
      BY <3>1, <3>6, NothingRead DEF GenTyped
    <3> QED BY <3>2, <3>7, <1>c
  <2> QED BY <2>1, <2>2, <2>3
<1>5. CASE OpenArtifact
  <2> DEFINE a == gen.todo[1][1]
  <2>1. gen.pc = "open" /\ gen.todo # <<>>
    BY <1>5, <1>a DEF OpenArtifact
  <2>2. New("write", gen.commit, gen.listing, gen.read, gen.todo, gen.then)
    BY <1>5, <1>a DEF OpenArtifact
  <2>3. GenTyped'
    BY <2>1, <2>2, <1>a DEF GenTyped
  <2>4. PICK t : /\ a # "findings" => t = Torn
                 /\ art' = [art EXCEPT ![a] = t]
    BY <1>5 DEF OpenArtifact
  <2>5. Whole(a, t)
    BY <2>4, WrittenIsWhole
  <2> HIDE DEF a
  <2>6. OnDisk'
    BY <2>4, <2>5 DEF OnDisk
  <2> QED BY <2>3, <2>6
<1>6. CASE WriteArtifact
  <2> DEFINE a == gen.todo[1][1]
             d == gen.todo[1][2]
             rest == Written(gen.todo)
  <2>1. gen.pc = "write" /\ gen.todo # <<>>
    BY <1>6, <1>a DEF WriteArtifact
  <2>2. IsTodo(rest) /\ a \in Artifacts /\ Whole(a, d) /\ (rest # <<>> <=> Len(gen.todo) > 1)
    BY <2>1, <1>a, TodoTail DEF Written
  <2>3. art' = [art EXCEPT ![a] = d]
    BY <1>6 DEF WriteArtifact
  <2>4. OnDisk'
    <3> HIDE DEF a, d
    <3> QED BY <2>3, <2>2 DEF OnDisk
  <2>5. CASE Len(gen.todo) > 1
    <3>1. New("open", gen.commit, gen.listing, gen.read, rest, gen.then)
      BY <1>6, <2>5, <1>a DEF WriteArtifact
    <3> HIDE DEF rest, a, d
    <3> QED BY <3>1, <2>2, <2>4, <2>5, <1>a DEF GenTyped
  <2>6. CASE ~(Len(gen.todo) > 1)
    <3>1. New(gen.then, Absent, <<>>, <<>>, rest, "idle")
      BY <1>6, <2>6, <1>b DEF WriteArtifact
    <3> HIDE DEF rest, a, d
    <3>2. /\ gen.then \notin {"open", "write"}
          /\ gen.then \in {"idle", "head", "status", "read", "open", "write", "triage", "compare"}
      BY <1>a
    <3> QED BY <3>1, <3>2, <2>2, <2>4, <2>6, NothingRead DEF GenTyped
  <2> QED BY <2>5, <2>6
<1>7. CASE Triage
  <2> DEFINE x == <<"pointer", PointerTriage(art.findings, inputs.rules)>>
             y == <<"ffi", FfiTriage(art.findings, inputs.review)>>
  <2>1. Fail \/ (UNCHANGED art /\ New("open", Absent, <<>>, <<>>, <<x, y>>, "compare"))
    BY <1>7, <1>b DEF Triage
  <2>2. /\ x[1] \in Artifacts /\ Whole(x[1], x[2])
        /\ y[1] \in Artifacts /\ Whole(y[1], y[2])
    BY WrittenIsWhole DEF Artifacts
  <2> HIDE DEF x, y
  <2>3. IsTodo(<<x, y>>) /\ <<x, y>> # <<>>
    BY <2>2, TodoLists
  <2>4. CASE Fail
    BY <2>4, <1>d
  <2>5. CASE UNCHANGED art /\ New("open", Absent, <<>>, <<>>, <<x, y>>, "compare")
    <3>1. GenTyped'
      BY <2>3, <2>5, NothingRead DEF GenTyped
    <3> QED BY <2>5, <3>1, <1>c
  <2> QED BY <2>1, <2>4, <2>5
<1>8. CASE Compare
  <2> DEFINE x == <<"delta", PinDelta(inputs.contract, art.summary,
                                      art.findings, art.pointer, art.ffi)>>
  <2>1. Fail \/ (UNCHANGED art /\ New("open", Absent, <<>>, <<>>, <<x>>, "idle"))
    BY <1>8, <1>b DEF Compare
  <2>2. x[1] \in Artifacts /\ Whole(x[1], x[2])
    BY WrittenIsWhole DEF Artifacts
  <2> HIDE DEF x
  <2>3. IsTodo(<<x>>) /\ <<x>> # <<>>
    BY <2>2, TodoLists
  <2>4. CASE Fail
    BY <2>4, <1>d
  <2>5. CASE UNCHANGED art /\ New("open", Absent, <<>>, <<>>, <<x>>, "idle")
    <3>1. GenTyped'
      BY <2>3, <2>5, NothingRead DEF GenTyped
    <3> QED BY <2>5, <3>1, <1>c
  <2> QED BY <2>1, <2>4, <2>5
<1>9. CASE WriteClosure
  <2> DEFINE x == <<"closure", Closure(inputs.manifest, art.findings)>>
  <2>1. UNCHANGED art /\ New("open", Absent, <<>>, <<>>, <<x>>, "idle")
    BY <1>9, <1>b DEF WriteClosure
  <2>2. x[1] \in Artifacts /\ Whole(x[1], x[2])
    BY WrittenIsWhole DEF Artifacts
  <2> HIDE DEF x
  <2>3. IsTodo(<<x>>) /\ <<x>> # <<>>
    BY <2>2, TodoLists
  <2> QED BY <2>1, <2>3, <1>c, NothingRead DEF GenTyped
<1> QED
  BY <1>1, <1>2, <1>3, <1>4, <1>5, <1>6, <1>7, <1>8, <1>9

-----------------------------------------------------------------------------
(* The steps of the check and of the world.                                 *)

\* The image of a finite set, and when it has as many members.
LEMMA ImageOf ==
  ASSUME NEW S, IsFiniteSet(S), NEW f
  PROVE  /\ IsFiniteSet({f[x] : x \in S})
         /\ Cardinality({f[x] : x \in S}) = Cardinality(S)
              <=> \A x, y \in S : f[x] = f[y] => x = y
<1> DEFINE T == {f[x] : x \in S}
           g == [x \in S |-> f[x]]
<1>1. g \in [S -> T] /\ \A x \in S : g[x] = f[x]
  OBVIOUS
<1>2. \A t \in T : \E x \in S : g[x] = t
  OBVIOUS
<1> HIDE DEF g, T
<1>3. g \in Surjection(S, T)
  BY <1>1, <1>2 DEF Surjection
<1>4. IsFiniteSet(T) /\ (Cardinality(T) = Cardinality(S) <=> g \in Injection(S, T))
  BY <1>3, FS_Surjection
<1>5. g \in Injection(S, T) <=> \A x, y \in S : g[x] = g[y] => x = y
  BY <1>1, Zenon DEF Injection, IsInjective
<1>6. (\A x, y \in S : g[x] = g[y] => x = y) <=> \A x, y \in S : f[x] = f[y] => x = y
  BY <1>1
<1> QED
  BY <1>4, <1>5, <1>6 DEF T

\* The check reads one name after the other.
LEMMA SeenSize ==
  ASSUME NEW n \in 0..16
  PROVE  /\ Cardinality(SeenUpTo(n)) = n
         /\ n < 16 => /\ Reads[n + 1] \notin SeenUpTo(n)
                      /\ SeenUpTo(n + 1) = SeenUpTo(n) \cup {Reads[n + 1]}
                      /\ Reads[n + 1] = "closure" <=> n = 15
<1>1. IsFiniteSet(1..n) /\ Cardinality(1..n) = n
  <2>1. 1 \in Int /\ n \in Int
    OBVIOUS
  <2>2. IsFiniteSet(1..n) /\ Cardinality(1..n) = IF 1 > n THEN 0 ELSE n - 1 + 1
    BY <2>1, FS_Interval
  <2> QED BY <2>2
<1>2. \A k, l \in 1..n : Reads[k] = Reads[l] => k = l
  BY ReadsInOrder
<1>3. Cardinality({Reads[k] : k \in 1..n}) = n
  BY <1>1, <1>2, ImageOf, ZenonT(60)
<1>4. ASSUME n < 16
      PROVE  /\ Reads[n + 1] \notin SeenUpTo(n)
             /\ SeenUpTo(n + 1) = SeenUpTo(n) \cup {Reads[n + 1]}
             /\ Reads[n + 1] = "closure" <=> n = 15
  <2>1. n + 1 \in 1..16 /\ 1..(n + 1) = (1..n) \cup {n + 1} /\ 1..n \subseteq 1..16
        /\ n + 1 \notin 1..n
    BY <1>4
  <2>2. Reads[n + 1] \notin SeenUpTo(n)
    BY <2>1, ReadsInOrder DEF SeenUpTo
  <2>3. SeenUpTo(n + 1) = SeenUpTo(n) \cup {Reads[n + 1]}
    BY <2>1 DEF SeenUpTo
  <2>4. Reads[n + 1] = "closure" <=> n + 1 = 16
    BY <2>1, ReadsInOrder
  <2> QED BY <2>2, <2>3, <2>4
<1> QED
  BY <1>3, <1>4 DEF SeenUpTo

LEMMA WorldStep ==
  ASSUME WorldTyped, WorldAssumption, [Next]_vars
  PROVE  WorldTyped'
<1>a. /\ repo = [head |-> repo.head, work |-> repo.work]
      /\ repo.head \in Commits /\ IsReading(repo.work)
      /\ DOMAIN inputs = {"scope", "contract", "rules", "review", "manifest"}
      /\ inputs.rules \in DOMAIN Rules
      /\ DOMAIN ledger.artifacts = Recorded
      /\ budget \in Nat
  BY DEF WorldTyped
<1>b. ASSUME World
      PROVE  budget' \in Nat
  BY <1>b, <1>a DEF World
<1>1. ASSUME UNCHANGED <<repo, inputs, ledger, budget>>
      PROVE  WorldTyped'
  BY <1>1 DEF WorldTyped
<1>2. CASE StartUpdate \/ CheckHead \/ CheckStatus \/ ReadSource \/ OpenArtifact
             \/ WriteArtifact \/ Triage \/ Compare \/ WriteClosure
  BY <1>1, <1>2 DEF StartUpdate, CheckHead, CheckStatus, ReadSource, OpenArtifact, WriteArtifact,
     Triage, Compare, WriteClosure, GenGoes
<1>3. CASE StartCheck \/ CheckStep
  BY <1>1, <1>3 DEF StartCheck, CheckStep
<1>4. ASSUME NEW edit \in Edits, Edit(edit[1], edit[2])
      PROVE  WorldTyped'
  <2> DEFINE f == edit[1]
             t == edit[2]
             work == [repo.work EXCEPT ![f] = t]
  <2>1. repo' = [repo EXCEPT !.work[f] = t] /\ UNCHANGED <<inputs, ledger>> /\ World
    BY <1>4 DEF Edit
  <2>2. repo' = [head |-> repo.head, work |-> work]
    BY <2>1, <1>a
  <2>3. t \in Contents
    BY WorldAssumption DEF WorldAssumption
  <2> HIDE DEF f, t
  <2>4. IsReading(work)
    <3>1. DOMAIN repo.work \subseteq Files /\ repo.work \in [DOMAIN repo.work -> Contents]
      BY <1>a DEF IsReading
    <3>2. work \in [DOMAIN repo.work -> Contents]
      BY <3>1, <2>3
    <3> HIDE DEF work
    <3> QED BY <3>1, <3>2 DEF IsReading
  <2> HIDE DEF work
  <2>5. repo'.head = repo.head /\ repo'.work = work /\ repo' = [head |-> repo'.head, work |-> repo'.work]
    BY <2>2
  <2> QED BY <2>1, <2>4, <2>5, <1>a, <1>b DEF WorldTyped
<1>5. ASSUME NEW c \in Changes, CheckOut(c)
      PROVE  WorldTyped'
  <2>1. repo' = [head |-> c, work |-> Tree(c)] /\ UNCHANGED <<inputs, ledger>> /\ World
    BY <1>5 DEF CheckOut
  <2>2. c \in Commits /\ IsReading(Tree(c))
    BY WorldAssumption DEF WorldAssumption
  <2>3. repo'.head = c /\ repo'.work = Tree(c) /\ repo' = [head |-> repo'.head, work |-> repo'.work]
    BY <2>1
  <2> QED BY <2>1, <2>2, <2>3, <1>a, <1>b DEF WorldTyped
<1>6. ASSUME NEW amendment \in Amendments, Amend(amendment[1], amendment[2])
      PROVE  WorldTyped'
  <2> DEFINE field == amendment[1]
             value == amendment[2]
  <2>1. inputs' = [inputs EXCEPT ![field] = value] /\ UNCHANGED <<repo, ledger>> /\ World
    BY <1>6 DEF Amend
  <2>2. field = "rules" => value \in DOMAIN Rules
    BY WorldAssumption DEF WorldAssumption
  <2> HIDE DEF field, value
  <2>3. DOMAIN inputs' = DOMAIN inputs
    BY <2>1
  <2>4. "rules" \in DOMAIN inputs
    BY <1>a
  <2>5. inputs'["rules"] = IF field = "rules" THEN value ELSE inputs["rules"]
    BY <2>1, <2>4
  <2>6. inputs'.rules \in DOMAIN Rules
    BY <2>2, <2>5, <1>a
  <2> QED BY <2>1, <2>3, <2>6, <1>a, <1>b DEF WorldTyped
<1>7. CASE Record
  <2>1. ledger' = Provenance(inputs, art, ledger.entries) /\ UNCHANGED <<repo, inputs, budget>>
    BY <1>7 DEF Record
  <2>2. DOMAIN ledger'.artifacts = Recorded
    BY <2>1 DEF Provenance
  <2> QED BY <2>1, <2>2, <1>a DEF WorldTyped
<1>8. CASE KillGenerator
  BY <1>8, <1>a, <1>b DEF KillGenerator, WorldTyped
<1>9. CASE UNCHANGED vars
  BY <1>9, <1>1 DEF vars
<1> QED
  BY <1>2, <1>3, <1>4, <1>5, <1>6, <1>7, <1>8, <1>9 DEF Next

-----------------------------------------------------------------------------
(* The findings of a scan and the lines of a findings file.                 *)

LEMMA FiveAreFinite ==
  ASSUME NEW a, NEW b, NEW c, NEW d, NEW e, NEW S \in SUBSET {a, b, c, d, e}
  PROVE  IsFiniteSet(S)
<1>1. /\ IsFiniteSet({a}) /\ IsFiniteSet({b}) /\ IsFiniteSet({c}) /\ IsFiniteSet({d})
      /\ IsFiniteSet({e})
  BY FS_Singleton
<1>2. IsFiniteSet({a} \cup {b}) /\ IsFiniteSet({c} \cup {d})
  BY <1>1, FS_Union
<1>3. IsFiniteSet(({a} \cup {b}) \cup ({c} \cup {d}))
  BY <1>2, FS_Union
<1>4. IsFiniteSet((({a} \cup {b}) \cup ({c} \cup {d})) \cup {e})
  BY <1>1, <1>3, FS_Union
<1>5. {a, b, c, d, e} = (({a} \cup {b}) \cup ({c} \cup {d})) \cup {e}
  OBVIOUS
<1> QED
  BY <1>4, <1>5, FS_Subset

LEMMA CategoriesFinite ==
  ASSUME NEW code, NEW line, NEW k
  PROVE  IsFiniteSet(Categories(code, line, k))
<1> DEFINE O == OpenCategories(code, k)
           M == ModuleCategories(code, line, k)
           R == ReviewCategories(code, k)
<1>1. O \in SUBSET {"open.local_let", "open.local_parenthesized", "open.declaration",
                    "module.include", "module.include"}
  BY DEF OpenCategories
<1>2. M \in SUBSET {DeclarationCategory(RestOfLine(code, line, NameOf(code, k))),
                    "module.type_declaration", "module.first_class_pack",
                    "module.first_class_unpack", "module.first_class_unpack"}
  BY DEF ModuleCategories
<1>3. R \in SUBSET {PointerCategory(code, k), "ffi.custom_call",
                    "ffi.ocaml_external_declaration", "ffi.custom_call", "ffi.custom_call"}
  BY DEF ReviewCategories
<1> HIDE DEF O, M, R
<1>4. IsFiniteSet(O) /\ IsFiniteSet(M) /\ IsFiniteSet(R)
  <2>1. IsFiniteSet(O)
    BY <1>1, FiveAreFinite
  <2>2. IsFiniteSet(M)
    BY <1>2, FiveAreFinite
  <2>3. IsFiniteSet(R)
    BY <1>3, FiveAreFinite
  <2> QED BY <2>1, <2>2, <2>3
<1>5. IsFiniteSet(O \cup M)
  BY <1>4, FS_Union
<1>6. IsFiniteSet((O \cup M) \cup R)
  BY <1>4, <1>5, FS_Union
<1> QED
  BY <1>6 DEF Categories, O, M, R

\* The code and the lines of the tokens at some positions of a text.
CodeAt(text, position) == [k \in DOMAIN position |-> text[position[k]]]

LinesAt(text, position) == [k \in DOMAIN position |-> LineOf(text, position[k])]

CategoriesAt(text, position, k) ==
    Categories(CodeAt(text, position), LinesAt(text, position), k)

Finding(text, position, c, k) ==
    [category |-> c, at |-> position[k], line |-> LinesAt(text, position)[k],
     details |-> CASE c = "ffi.custom_call" -> Command(text, position[k])
                   [] c = "open.local_parenthesized" -> <<BodyForm(CodeAt(text, position), k)>>
                   [] OTHER -> <<>>]

LEMMA FindingsAre ==
  ASSUME NEW dialect, NEW text
  PROVE  LET position == CodePositions(dialect, text) IN
         Findings(dialect, text) =
           UNION {{Finding(text, position, c, k) : c \in CategoriesAt(text, position, k)} :
                  k \in DOMAIN position}
BY DEF Findings, FindingsAt, Finding, CategoriesAt, CodeAt, LinesAt

\* The findings of a text are finitely many, each is at a place of the code, and its
\* line is the one of its place.
LEMMA FindingsFinite ==
  ASSUME NEW dialect, NEW text \in Texts
  PROVE  /\ IsFiniteSet(Findings(dialect, text))
         /\ \A x \in Findings(dialect, text) :
               /\ x.at \in LexedCode(dialect, text) /\ text[x.at] # "nl"
               /\ x.line = LineOf(text, x.at)
               /\ x = [category |-> x.category, at |-> x.at, line |-> x.line,
                       details |-> x.details]
<1> DEFINE position == CodePositions(dialect, text)
           D == DOMAIN position
           Of(k) == {Finding(text, position, c, k) : c \in CategoriesAt(text, position, k)}
           C == {i \in LexedCode(dialect, text) : text[i] # "nl"}
<1>1. Findings(dialect, text) = UNION {Of(k) : k \in D}
  BY FindingsAre
<1>2. Lists(position, C, Len(text))
  BY PatternsSeeCode
<1>3. IsFiniteSet(D) /\ \A k \in D : position[k] \in C
  <2> HIDE DEF position, C
  <2>1. Len(position) \in Nat /\ D = 1..Len(position)
    BY <1>2 DEF Lists
  <2>2. IsFiniteSet(D)
    BY <2>1, FS_Interval
  <2> QED BY <2>1, <2>2, <1>2 DEF Lists
<1>4. ASSUME NEW k \in D
      PROVE  IsFiniteSet(Of(k))
  <2> DEFINE S == CategoriesAt(text, position, k)
             f == [c \in S |-> Finding(text, position, c, k)]
  <2>1. IsFiniteSet(S)
    BY CategoriesFinite DEF CategoriesAt
  <2>2. Of(k) = {f[c] : c \in S}
    OBVIOUS
  <2> HIDE DEF f, S, Of
  <2> QED BY <2>1, <2>2, ImageOf
<1>5. IsFiniteSet(UNION {Of(k) : k \in D})
  <2> DEFINE f == [k \in D |-> Of(k)]
  <2>1. {Of(k) : k \in D} = {f[k] : k \in D}
    OBVIOUS
  <2> HIDE DEF f
  <2>2. IsFiniteSet({Of(k) : k \in D})
    BY <2>1, <1>3, ImageOf
  <2>3. \A T \in {Of(k) : k \in D} : IsFiniteSet(T)
    BY <1>4
  <2> HIDE DEF Of, D
  <2> QED BY <2>2, <2>3, FS_UNION
<1>6. ASSUME NEW x \in Findings(dialect, text)
      PROVE  /\ x.at \in C
             /\ x.line = LineOf(text, x.at)
             /\ x = [category |-> x.category, at |-> x.at, line |-> x.line, details |-> x.details]
  <2>1. PICK k \in D : \E c : x = Finding(text, position, c, k)
    BY <1>1
  <2>2. PICK c : x = Finding(text, position, c, k)
    BY <2>1
  <2>3. /\ x.at = position[k] /\ x.line = LinesAt(text, position)[k]
        /\ x = [category |-> x.category, at |-> x.at, line |-> x.line, details |-> x.details]
    BY <2>2, Zenon DEF Finding
  <2>4. LinesAt(text, position)[k] = LineOf(text, position[k])
    BY DEF LinesAt
  <2> QED BY <2>3, <2>4, <1>3
<1> QED
  BY <1>1, <1>5, <1>6

LEMMA FilesFinite ==
  ASSUME TextAssumption
  PROVE  IsFiniteSet(Files)
<1>1. Order \in Seq(Files)
  BY TextAssumption DEF TextAssumption
<1> DEFINE S == DOMAIN Order
<1>2. Len(Order) \in Nat /\ S = 1..Len(Order)
  BY <1>1
<1>3. IsFiniteSet(S)
  BY <1>2, FS_Interval
<1>4. Files = {Order[k] : k \in S}
  BY DEF Files, Range
<1> HIDE DEF S
<1> QED
  BY <1>3, <1>4, ImageOf

\* A line of a findings file and the finding it quotes.
Quote(F, f, y) ==
    [source |-> f, commit |-> F.commit, category |-> y.category, at |-> y.at,
     line |-> y.line, details |-> y.details]

LEMMA LinesAre ==
  ASSUME NEW F
  PROVE  Lines(F) = UNION {{Quote(F, f, y) : y \in ScanOf[f][F.of[f]]} : f \in DOMAIN F.of}
BY DEF Lines, Quote

LEMMA ScansAre ==
  ASSUME NEW f \in Files, NEW t \in Contents
  PROVE  ScanOf[f][t] = Findings(Dialect[f], Text[t])
BY DEF ScanOf

\* The lines of a findings file are finitely many, and each is that of a finding in
\* the source it names.
LEMMA LinesFinite ==
  ASSUME TextAssumption, NEW F, IsReading(F.of)
  PROVE  /\ IsFiniteSet(Lines(F))
         /\ \A x \in Lines(F) :
               /\ x.source \in DOMAIN F.of /\ x.commit = F.commit
               /\ x.at \in LexedCode(Dialect[x.source], Text[F.of[x.source]])
               /\ x.line = LineOf(Text[F.of[x.source]], x.at)
               /\ x = [source |-> x.source, commit |-> x.commit, category |-> x.category,
                       at |-> x.at, line |-> x.line, details |-> x.details]
<1> DEFINE D == DOMAIN F.of
           Of(f) == {Quote(F, f, y) : y \in ScanOf[f][F.of[f]]}
<1>1. Lines(F) = UNION {Of(f) : f \in D}
  BY LinesAre
<1>2. D \subseteq Files /\ \A f \in D : F.of[f] \in Contents
  BY DEF IsReading
<1>3. \A f \in D : Text[F.of[f]] \in Texts
  BY <1>2 DEF TextAssumption, Texts
<1>4. ASSUME NEW f \in D
      PROVE  /\ IsFiniteSet(ScanOf[f][F.of[f]])
             /\ ScanOf[f][F.of[f]] = Findings(Dialect[f], Text[F.of[f]])
  <2>1. ScanOf[f][F.of[f]] = Findings(Dialect[f], Text[F.of[f]])
    BY <1>2, ScansAre
  <2> QED BY <2>1, <1>3, FindingsFinite
<1>5. ASSUME NEW f \in D
      PROVE  IsFiniteSet(Of(f))
  <2> DEFINE S == ScanOf[f][F.of[f]]
             g == [y \in S |-> Quote(F, f, y)]
  <2>1. IsFiniteSet(S)
    BY <1>4
  <2>2. Of(f) = {g[y] : y \in S}
    OBVIOUS
  <2> HIDE DEF g, S, Of
  <2> QED BY <2>1, <2>2, ImageOf
<1>6. IsFiniteSet(UNION {Of(f) : f \in D})
  <2> DEFINE g == [f \in D |-> Of(f)]
  <2>1. {Of(f) : f \in D} = {g[f] : f \in D}
    OBVIOUS
  <2>2. IsFiniteSet(D)
    BY <1>2, FilesFinite, FS_Subset
  <2> HIDE DEF g
  <2>3. IsFiniteSet({Of(f) : f \in D})
    BY <2>1, <2>2, ImageOf
  <2>4. \A T \in {Of(f) : f \in D} : IsFiniteSet(T)
    BY <1>5
  <2> HIDE DEF Of, D
  <2> QED BY <2>3, <2>4, FS_UNION
<1>7. ASSUME NEW x \in Lines(F)
      PROVE  /\ x.source \in DOMAIN F.of /\ x.commit = F.commit
             /\ x.at \in LexedCode(Dialect[x.source], Text[F.of[x.source]])
             /\ x.line = LineOf(Text[F.of[x.source]], x.at)
             /\ x = [source |-> x.source, commit |-> x.commit, category |-> x.category,
                     at |-> x.at, line |-> x.line, details |-> x.details]
  <2>1. PICK f \in D : \E y \in ScanOf[f][F.of[f]] : x = Quote(F, f, y)
    BY <1>1
  <2>2. PICK y \in ScanOf[f][F.of[f]] : x = Quote(F, f, y)
    BY <2>1
  <2>3. /\ x.source = f /\ x.commit = F.commit /\ x.at = y.at /\ x.line = y.line
        /\ x = [source |-> x.source, commit |-> x.commit, category |-> x.category,
                at |-> x.at, line |-> x.line, details |-> x.details]
    BY <2>2, Zenon DEF Quote
  <2>4. y \in Findings(Dialect[f], Text[F.of[f]]) /\ Text[F.of[f]] \in Texts
    BY <1>3, <1>4
  <2>5. /\ y.at \in LexedCode(Dialect[f], Text[F.of[f]])
        /\ y.line = LineOf(Text[F.of[f]], y.at)
    BY <2>4, FindingsFinite
  <2> QED BY <2>3, <2>5
<1> QED
  BY <1>1, <1>6, <1>7

\* No two lines of a findings file agree in what the delta compares.
LEMMA KeysApart ==
  ASSUME TextAssumption, NEW F, IsReading(F.of)
  PROVE  /\ \A x, y \in Lines(F) : StableKey(x) = StableKey(y) => x = y
         /\ IsFiniteSet(Keys(F)) /\ Cardinality(Keys(F)) = Cardinality(Lines(F))
<1>1. ASSUME NEW x \in Lines(F), NEW y \in Lines(F), StableKey(x) = StableKey(y)
      PROVE  x = y
  <2>1. x.source = y.source /\ x.category = y.category /\ x.at = y.at /\ x.details = y.details
    BY <1>1 DEF StableKey
  <2>2. x.commit = y.commit /\ x.line = y.line
    BY <2>1, LinesFinite
  <2>3. /\ x = [source |-> x.source, commit |-> x.commit, category |-> x.category,
                at |-> x.at, line |-> x.line, details |-> x.details]
        /\ y = [source |-> y.source, commit |-> y.commit, category |-> y.category,
                at |-> y.at, line |-> y.line, details |-> y.details]
    BY LinesFinite
  <2> QED BY <2>1, <2>2, <2>3
<1> DEFINE S == Lines(F)
           f == [x \in S |-> StableKey(x)]
<1>2. IsFiniteSet(S)
  BY LinesFinite
<1>3. Keys(F) = {f[x] : x \in S}
  BY DEF Keys
<1>4. \A x, y \in S : f[x] = f[y] => x = y
  BY <1>1
<1> HIDE DEF S, f
<1>5. IsFiniteSet(Keys(F)) /\ Cardinality(Keys(F)) = Cardinality(S)
  <2>1. /\ IsFiniteSet({f[x] : x \in S})
        /\ Cardinality({f[x] : x \in S}) = Cardinality(S)
             <=> \A x, y \in S : f[x] = f[y] => x = y
    BY <1>2, ImageOf, Zenon
  <2> QED BY <2>1, <1>3, <1>4
<1> QED
  BY <1>1, <1>5 DEF S

-----------------------------------------------------------------------------
(* What the generator writes holds in the check.                            *)

LEMMA DeltaCounts ==
  ASSUME TextAssumption, ReviewAssumption, NEW F, IsReading(F.of)
  PROVE  LET matched == Cardinality(Keys(F) \cap Comparison.keys) IN
         /\ matched + Cardinality(Comparison.keys \ Keys(F)) = Cardinality(Comparison.keys)
         /\ matched + Cardinality(Keys(F) \ Comparison.keys) = Cardinality(Lines(F))
<1> DEFINE K == Keys(F)
           C == Comparison.keys
<1>1. IsFiniteSet(K) /\ Cardinality(K) = Cardinality(Lines(F))
  BY KeysApart
<1>2. IsFiniteSet(C)
  BY DEF ReviewAssumption
<1> HIDE DEF K, C
<1>3. Cardinality(K \ C) = Cardinality(K) - Cardinality(K \cap C)
  BY <1>1, FS_Difference
<1>4. Cardinality(C \ K) = Cardinality(C) - Cardinality(C \cap K)
  BY <1>2, FS_Difference
<1>5. C \cap K = K \cap C
  OBVIOUS
<1>6. IsFiniteSet(K \cap C)
  BY <1>1, FS_Subset
<1>7. /\ Cardinality(K) \in Nat /\ Cardinality(C) \in Nat /\ Cardinality(K \cap C) \in Nat
  BY <1>1, <1>2, <1>6, FS_CardinalityType
<1>8. Cardinality(C \ K) = Cardinality(C) - Cardinality(K \cap C)
  BY <1>4, <1>5
<1>9. Cardinality(K \cap C) + Cardinality(C \ K) = Cardinality(C)
  BY <1>7, <1>8
<1>10. Cardinality(K \cap C) + Cardinality(K \ C) = Cardinality(Lines(F))
  BY <1>1, <1>3, <1>7
<1> QED
  BY <1>9, <1>10 DEF K, C

\* The records of a document are those that a function gives the findings.
RecordsBy(document, S, g) ==
    document.records = {g[x] : x \in S} /\ \A x \in S : g[x].finding = x

LEMMA RecordsCover ==
  ASSUME NEW S, IsFiniteSet(S), NEW document, NEW g, RecordsBy(document, S, g)
  PROVE  Covers(document, S)
<1>0. document.records = {g[x] : x \in S} /\ \A x \in S : g[x].finding = x
  BY DEF RecordsBy
<1>1. \A x, y \in S : g[x] = g[y] => x = y
  BY <1>0
<1>2. /\ IsFiniteSet({g[x] : x \in S})
      /\ Cardinality({g[x] : x \in S}) = Cardinality(S)
           <=> \A x, y \in S : g[x] = g[y] => x = y
  BY ImageOf, Zenon
<1>3. Cardinality(document.records) = Cardinality(S)
  BY <1>0, <1>1, <1>2
<1>4. {r.finding : r \in document.records} = S
  BY <1>0
<1> QED
  BY <1>3, <1>4 DEF Covers

\* When one rule owns each pointer finding, each has one record.
LEMMA PointersCovered ==
  ASSUME TextAssumption, ReviewAssumption, NEW F, IsReading(F.of),
         NEW rules \in DOMAIN Rules, RulesFit(F, rules)
  PROVE  Covers(PointerTriage(F, rules), Pointers(F))
<1> DEFINE S == Pointers(F)
           Owner(x) == CHOOSE r : r \in Owners(x, rules)
           g == [x \in S |-> PointerRecord(x, Owner(x))]
           document == PointerTriage(F, rules)
<1>1. IsFiniteSet(S)
  BY LinesFinite, FS_Subset DEF Pointers
<1>2. ASSUME NEW x \in S
      PROVE  Owners(x, rules) = {Owner(x)}
  <2>1. Owners(x, rules) \in SUBSET Rules[rules]
    BY DEF Owners
  <2>2. IsFiniteSet(Rules[rules])
    BY DEF ReviewAssumption
  <2>3. IsFiniteSet(Owners(x, rules))
    BY <2>1, <2>2, FS_Subset
  <2>4. Cardinality(Owners(x, rules)) = 1
    BY DEF RulesFit
  <2>5. \E r : Owners(x, rules) = {r}
    BY <2>3, <2>4, FS_Singleton
  <2> QED BY <2>5
<1>3. document.records = UNION {{PointerRecord(x, r) : r \in Owners(x, rules)} : x \in S}
  BY DEF PointerTriage
<1>4. \A x \in S : {PointerRecord(x, r) : r \in Owners(x, rules)} = {PointerRecord(x, Owner(x))}
  BY <1>2
<1>5. document.records = {g[x] : x \in S}
  <2> DEFINE Of(x) == {PointerRecord(x, r) : r \in Owners(x, rules)}
  <2>1. document.records = UNION {Of(x) : x \in S}
    BY <1>3
  <2>2. \A x \in S : Of(x) = {g[x]}
    BY <1>4
  <2> HIDE DEF Of, S, g, document, Owner
  <2> QED BY <2>1, <2>2
<1>6. \A x \in S : g[x].finding = x
  BY DEF PointerRecord
<1> HIDE DEF S, g, document, Owner
<1>7. Covers(document, S)
  <2>1. RecordsBy(document, S, g)
    BY <1>5, <1>6 DEF RecordsBy
  <2> QED BY <2>1, <1>1, RecordsCover
<1> QED
  BY <1>7 DEF S, document

LEMMA CallsCovered ==
  ASSUME TextAssumption, NEW F, IsReading(F.of), NEW review
  PROVE  Covers(FfiTriage(F, review), CustomCalls(F))
<1> DEFINE S == CustomCalls(F)
           g == [x \in S |-> FfiRecord(x, review[x.details])]
           document == FfiTriage(F, review)
<1>1. IsFiniteSet(S)
  BY LinesFinite, FS_Subset DEF CustomCalls
<1>2. document.records = {g[x] : x \in S}
  BY DEF FfiTriage
<1>3. \A x \in S : g[x].finding = x
  BY DEF FfiRecord
<1> HIDE DEF S, g, document
<1>4. Covers(document, S)
  <2>1. RecordsBy(document, S, g)
    BY <1>2, <1>3 DEF RecordsBy
  <2> QED BY <2>1, <1>1, RecordsCover
<1> QED
  BY <1>4 DEF S, document

\* What the check would read if it read everything now.
Current ==
    [ledger |-> ledger, summary |-> art.summary, findings |-> art.findings, notes |-> art.notes,
     checkout |-> [head |-> repo.head, dirty |-> Dirty, listing |-> Listing(repo.work)],
     sources |-> repo.work, contract |-> inputs.contract,
     artifacts |-> [a \in Recorded |-> art[a]], delta |-> art.delta, inventory |-> art.findings,
     pointer |-> art.pointer, ffi |-> art.ffi,
     reviewed |-> [rules |-> inputs.rules, review |-> inputs.review],
     manifest |-> inputs.manifest, lines |-> art.findings, closure |-> art.closure]

LEMMA CurrentIsRead ==
  \A k \in 1..16 : Current[Reads[k]] = Read(Reads[k])
<1>1. /\ Read("ledger") = ledger /\ Read("summary") = art.summary
      /\ Read("findings") = art.findings /\ Read("notes") = art.notes
      /\ Read("checkout") = [head |-> repo.head, dirty |-> Dirty, listing |-> Listing(repo.work)]
      /\ Read("sources") = repo.work /\ Read("contract") = inputs.contract
      /\ Read("artifacts") = [a \in Recorded |-> art[a]] /\ Read("delta") = art.delta
      /\ Read("inventory") = art.findings /\ Read("pointer") = art.pointer
      /\ Read("ffi") = art.ffi
      /\ Read("reviewed") = [rules |-> inputs.rules, review |-> inputs.review]
      /\ Read("manifest") = inputs.manifest /\ Read("lines") = art.findings
      /\ Read("closure") = art.closure
  BY DEF Read
<1>2. /\ Current.ledger = Read("ledger") /\ Current.summary = Read("summary")
      /\ Current.findings = Read("findings") /\ Current.notes = Read("notes")
      /\ Current.checkout = Read("checkout") /\ Current.sources = Read("sources")
      /\ Current.contract = Read("contract") /\ Current.artifacts = Read("artifacts")
      /\ Current.delta = Read("delta") /\ Current.inventory = Read("inventory")
      /\ Current.pointer = Read("pointer") /\ Current.ffi = Read("ffi")
      /\ Current.reviewed = Read("reviewed") /\ Current.manifest = Read("manifest")
      /\ Current.lines = Read("lines") /\ Current.closure = Read("closure")
  BY <1>1 DEF Current
<1>3. \A k \in 1..16 : \/ k = 1 \/ k = 2 \/ k = 3 \/ k = 4 \/ k = 5 \/ k = 6 \/ k = 7 \/ k = 8
                       \/ k = 9 \/ k = 10 \/ k = 11 \/ k = 12 \/ k = 13 \/ k = 14
                       \/ k = 15 \/ k = 16
  OBVIOUS
<1> QED
  BY <1>2, <1>3, ReadsInOrder

\* When all is in step, each step of the check would find what it requires.
LEMMA InStepHolds ==
  ASSUME TextAssumption, ReviewAssumption, WorldTyped, InStep, NEW k \in 1..16
  PROVE  Holds(Reads[k], Current)
<1> DEFINE s == Current
           F == FindingsFile(repo.head, repo.work)
           pointer == PointerTriage(F, inputs.rules)
           ffi == FfiTriage(F, inputs.review)
           summary == Summary(repo.head, repo.work)
           delta == PinDelta(inputs.contract, summary, F, pointer, ffi)
<1>1. /\ art.findings = F /\ art.notes = NotesFile(repo.work) /\ art.summary = summary
      /\ art.pointer = pointer /\ art.ffi = ffi /\ art.delta = delta
      /\ art.closure = Closure(inputs.manifest, F)
  <2>1. art = Generated(repo.head, repo.work, inputs)
    BY DEF InStep
  <2> QED BY <2>1 DEF Generated
<1>2. /\ Dirty = FALSE
      /\ RulesFit(F, inputs.rules) /\ DeltaFits(inputs.contract, summary)
      /\ ClosureFits(inputs.manifest, F)
      /\ inputs.contract.comparison # inputs.contract.selected
      /\ LedgersDiffer(ffi)
      /\ \A e \in ledger.entries : EntryAccepted(e) /\ EntryCovered(e, F, pointer, ffi)
  BY <1>1 DEF InStep, Dirty
<1>3. /\ ledger.selected = inputs.contract.selected
      /\ ledger.development = inputs.contract.comparison
      /\ ledger.contract = inputs.contract
      /\ ledger.artifacts = [a \in Recorded |-> art[a]]
  <2>1. ledger = Provenance(inputs, art, ledger.entries)
    BY DEF InStep
  <2> QED BY <2>1 DEF Provenance
<1>4. /\ summary.commit = repo.head /\ summary.dirty = FALSE
      /\ summary.listing = Listing(repo.work) /\ summary.findings = F
      /\ summary.counts = Counts(F) /\ summary.notes = NoteCounts(NotesFile(repo.work))
      /\ summary # Torn
  <2>1. "commit" \in DOMAIN summary /\ "commit" \notin DOMAIN Torn
    BY DEF Summary, Torn
  <2> QED BY <2>1 DEF Summary
<1>5. IsReading(F.of) /\ F.commit = repo.head
  BY FindingsOfReading DEF WorldTyped
<1>6. /\ pointer.findings = F /\ pointer.rules = inputs.rules /\ pointer # Torn
      /\ ffi.findings = F /\ ffi.review = inputs.review /\ ffi # Torn
  <2>1. "findings" \in DOMAIN pointer /\ "findings" \in DOMAIN ffi /\ "findings" \notin DOMAIN Torn
    BY DEF PointerTriage, FfiTriage, Torn
  <2> QED BY <2>1 DEF PointerTriage, FfiTriage
<1>7. /\ Covers(pointer, Pointers(F)) /\ Covers(ffi, CustomCalls(F))
  BY <1>2, <1>5, PointersCovered, CallsCovered DEF WorldTyped
<1>8. NotesFile(repo.work) # Torn
  <2>1. "notes" \in DOMAIN NotesFile(repo.work) /\ "notes" \notin DOMAIN Torn
    BY DEF NotesFile, Torn
  <2> QED BY <2>1
<1>9. /\ delta # Torn /\ delta.contract = inputs.contract
      /\ delta.selected = inputs.contract.selected
      /\ delta.comparison = inputs.contract.comparison
      /\ delta.findings = F /\ delta.totals = Totals(summary)
      /\ Totals(summary).findings = Cardinality(Lines(F))
      /\ delta.matched = Cardinality(Keys(F) \cap Comparison.keys)
      /\ delta.comparisonOnly = Comparison.keys \ Keys(F)
      /\ delta.selectedOnly = Keys(F) \ Comparison.keys
  <2> HIDE DEF F, pointer, ffi, summary
  <2>1. "contract" \in DOMAIN delta /\ "contract" \notin DOMAIN Torn
    BY DEF PinDelta, Torn
  <2>2. Totals(summary).findings = Cardinality(Lines(F))
    BY <1>4 DEF Totals
  <2> QED BY <2>1, <2>2 DEF PinDelta, Keys
<1>10. /\ delta.matched + Cardinality(delta.comparisonOnly) = Cardinality(Comparison.keys)
       /\ delta.matched + Cardinality(delta.selectedOnly) = delta.totals.findings
  BY <1>5, <1>9, DeltaCounts
<1>11. \A f \in DOMAIN F.of : f \in DOMAIN repo.work /\ repo.work[f] = F.of[f]
  BY DEF FindingsFile
<1>12. /\ s.ledger = ledger /\ s.summary = art.summary /\ s.findings = art.findings
       /\ s.notes = art.notes /\ s.checkout.head = repo.head /\ s.checkout.dirty = Dirty
       /\ s.checkout.listing = Listing(repo.work) /\ s.sources = repo.work
       /\ s.contract = inputs.contract /\ s.artifacts = [a \in Recorded |-> art[a]]
       /\ s.delta = art.delta /\ s.inventory = art.findings /\ s.pointer = art.pointer
       /\ s.ffi = art.ffi /\ s.reviewed.rules = inputs.rules
       /\ s.reviewed.review = inputs.review /\ s.manifest = inputs.manifest
       /\ s.lines = art.findings /\ s.closure = art.closure
  BY DEF Current
<1> HIDE DEF s, F, pointer, ffi, summary, delta
<1>a. Holds("ledger", s)
  BY <1>2, <1>12, HoldsMeans
<1>b. Holds("summary", s) /\ Holds("findings", s) /\ Holds("notes", s)
  BY <1>1, <1>4, <1>8, <1>12, HoldsMeans
<1>c. Holds("checkout", s)
  <2>1. /\ s.checkout.head = s.summary.commit /\ s.checkout.dirty = s.summary.dirty
        /\ s.checkout.listing = s.summary.listing
    <3>1. s.summary = summary
      BY <1>1, <1>12
    <3>2. s.checkout.dirty = FALSE
      BY <1>2, <1>12, Zenon
    <3> QED BY <3>1, <3>2, <1>4, <1>12, Zenon
  <2> QED BY <2>1, HoldsMeans
<1>d. Holds("sources", s)
  BY <1>1, <1>11, <1>12, HoldsMeans DEF SourcesHold
<1>e. Holds("contract", s)
  <2>1. summary.commit = inputs.contract.selected
    BY <1>2 DEF DeltaFits
  <2>2. ContractHolds(s)
    BY <2>1, <1>1, <1>2, <1>3, <1>12 DEF ContractHolds
  <2> QED BY <2>2, HoldsMeans
<1>f. Holds("artifacts", s)
  BY <1>3, <1>12, HoldsMeans, ZenonT(60)
<1>g. Holds("delta", s)
  <2>1. DeltaHolds(s)
    BY <1>1, <1>3, <1>4, <1>9, <1>10, <1>12 DEF DeltaHolds
  <2> QED BY <2>1, HoldsMeans, ZenonT(60)
<1>h. Holds("inventory", s) /\ Holds("pointer", s) /\ Holds("ffi", s) /\ Holds("manifest", s)
      /\ Holds("lines", s)
  BY <1>1, <1>6, <1>12, HoldsMeans
<1>i. Holds("reviewed", s)
  <2>1. TriageHolds(s)
    BY <1>1, <1>2, <1>6, <1>7, <1>12 DEF TriageHolds
  <2> QED BY <2>1, HoldsMeans
<1>j. Holds("closure", s)
  <2>1. ClosureHolds(s)
    BY <1>1, <1>2, <1>12 DEF ClosureHolds
  <2> QED BY <2>1, HoldsMeans
<1>13. \/ k = 1 \/ k = 2 \/ k = 3 \/ k = 4 \/ k = 5 \/ k = 6 \/ k = 7 \/ k = 8 \/ k = 9
       \/ k = 10 \/ k = 11 \/ k = 12 \/ k = 13 \/ k = 14 \/ k = 15 \/ k = 16
  OBVIOUS
<1>14. Holds(Reads[k], s)
  BY <1>a, <1>b, <1>c, <1>d, <1>e, <1>f, <1>g, <1>h, <1>i, <1>j, <1>13, ReadsInOrder
<1> QED
  BY <1>14 DEF s

-----------------------------------------------------------------------------
(* The invariant is inductive.                                              *)

LEMMA WholeRead ==
  ASSUME OnDisk, NEW name
  PROVE  Whole(name, Read(name))
<1>1. /\ Read("summary") = art["summary"] /\ Read("pointer") = art["pointer"]
      /\ Read("ffi") = art["ffi"] /\ Read("delta") = art["delta"]
  BY DEF Read
<1>2. /\ Whole("summary", art["summary"]) /\ Whole("pointer", art["pointer"])
      /\ Whole("ffi", art["ffi"]) /\ Whole("delta", art["delta"])
  BY DEF OnDisk, Artifacts
<1>3. CASE name \in {"summary", "pointer", "ffi", "delta"}
  BY <1>1, <1>2, <1>3
<1>4. CASE name \notin {"summary", "pointer", "ffi", "delta"}
  BY <1>4 DEF Whole
<1> QED
  BY <1>3, <1>4

LEMMA ReadsUnchanged ==
  ASSUME UNCHANGED <<repo, inputs, art, ledger>>
  PROVE  /\ InStep' <=> InStep
         /\ \A name : Read(name)' = Read(name)
<1>1. Dirty' <=> Dirty
  BY DEF Dirty
<1>2. InStep' <=> InStep
  BY <1>1 DEF InStep
<1>3. \A name : Read(name)' = Read(name)
  BY DEF Read, Dirty
<1> QED
  BY <1>2, <1>3

LEMMA InStepIsBoolean == InStep \in BOOLEAN
BY DEF InStep

LEMMA InitTyped ==
  ASSUME WorldAssumption, Init
  PROVE  IInv
<1>1. PICK c \in Commits : /\ repo = [head |-> c, work |-> Tree(c)]
                           /\ inputs = InitialInputs(c)
                           /\ art = Generated(c, Tree(c), InitialInputs(c))
                           /\ ledger = Provenance(inputs, art, InitialEntries(c))
                           /\ gen = Idle /\ chk = NoCheck /\ budget = Budget(c)
  BY DEF Init
<1>2. /\ IsReading(Tree(c)) /\ Budget(c) \in Nat
      /\ DOMAIN InitialInputs(c) = {"scope", "contract", "rules", "review", "manifest"}
      /\ InitialInputs(c).rules \in DOMAIN Rules
  BY DEF WorldAssumption
<1>3. WorldTyped
  <2>1. repo.head = c /\ repo.work = Tree(c) /\ repo = [head |-> repo.head, work |-> repo.work]
    BY <1>1
  <2>2. DOMAIN ledger.artifacts = Recorded
    BY <1>1 DEF Provenance
  <2> QED BY <2>1, <2>2, <1>1, <1>2 DEF WorldTyped
<1>4. GenTyped
  <2>1. /\ gen = [pc |-> gen.pc, commit |-> gen.commit, listing |-> gen.listing,
                  read |-> gen.read, todo |-> gen.todo, then |-> gen.then]
        /\ gen.pc = "idle" /\ gen.read = <<>> /\ gen.todo = <<>> /\ gen.then = "idle"
    BY <1>1 DEF Idle
  <2> QED BY <2>1, NothingRead, TodoLists DEF GenTyped
<1>5. OnDisk
  BY <1>1, <1>2, GeneratedIsWhole DEF OnDisk
<1>6. /\ chk = [result |-> chk.result, seen |-> chk.seen, quiet |-> chk.quiet]
      /\ chk.result = "none" /\ chk.seen = <<>> /\ chk.quiet = FALSE
  BY <1>1 DEF NoCheck
<1>7. ChkTyped /\ Undisturbed
  BY <1>6 DEF ChkTyped, Undisturbed
<1>8. Vetted
  BY <1>6 DEF Vetted
<1> QED
  BY <1>3, <1>4, <1>5, <1>7, <1>8 DEF IInv

LEMMA StartCheckStep ==
  ASSUME IInv, StartCheck
  PROVE  ChkTyped' /\ Vetted' /\ Undisturbed'
<1>1. /\ chk' = [result |-> "running", seen |-> <<>>, quiet |-> InStep]
      /\ UNCHANGED <<repo, inputs, art, ledger>>
  BY DEF StartCheck
<1>2. /\ chk' = [result |-> chk'.result, seen |-> chk'.seen, quiet |-> chk'.quiet]
      /\ chk'.result = "running" /\ chk'.seen = <<>> /\ chk'.quiet = InStep
  BY <1>1
<1>3. DOMAIN <<>> = SeenUpTo(0) /\ DOMAIN <<>> = {}
  BY DEF SeenUpTo
<1>4. ChkTyped'
  <2>1. chk'.quiet \in BOOLEAN
    BY <1>2, InStepIsBoolean, Zenon
  <2>2. \E n \in 0..15 : DOMAIN chk'.seen = SeenUpTo(n)
    BY <1>2, <1>3
  <2> QED BY <1>2, <2>1, <2>2 DEF ChkTyped
<1>5. Vetted'
  BY <1>2, <1>3 DEF Vetted
<1>6. Undisturbed'
  <2>1. chk'.quiet => InStep'
    BY <1>1, <1>2, ReadsUnchanged, Zenon
  <2> QED BY <1>2, <1>3, <2>1 DEF Undisturbed
<1> QED
  BY <1>4, <1>5, <1>6

LEMMA CheckStepStep ==
  ASSUME TextAssumption, ReviewAssumption, IInv, CheckStep
  PROVE  ChkTyped' /\ Vetted' /\ Undisturbed'
<1>1. /\ chk = [result |-> chk.result, seen |-> chk.seen, quiet |-> chk.quiet]
      /\ chk.result = "running" /\ chk.quiet \in BOOLEAN
      /\ UNCHANGED <<repo, inputs, art, ledger>>
  BY DEF IInv, ChkTyped, CheckStep
<1>2. PICK n \in 0..15 : DOMAIN chk.seen = SeenUpTo(n)
  BY <1>1 DEF IInv, ChkTyped
<1>3. PICK m \in 1..16 : m = n + 1
  OBVIOUS
<1> DEFINE name == Reads[m]
           seen == AndRead(chk.seen, name, Read(name))
<1>4. Cardinality(DOMAIN chk.seen) + 1 = m
  BY <1>2, <1>3, SeenSize
<1>5. chk' = IF ~Holds(name, seen) THEN [NoCheck EXCEPT !.result = "refused", !.quiet = chk.quiet]
             ELSE [chk EXCEPT !.seen = seen,
                              !.result = IF name = "closure" THEN "accepted" ELSE "running"]
  BY <1>4 DEF CheckStep
<1>6. /\ name \notin DOMAIN chk.seen
      /\ SeenUpTo(m) = DOMAIN chk.seen \cup {name}
      /\ name = "closure" <=> m = 16
  <2>1. n \in 0..16 /\ n < 16 /\ m = n + 1
    BY <1>3
  <2>2. /\ Reads[n + 1] \notin SeenUpTo(n)
        /\ SeenUpTo(n + 1) = SeenUpTo(n) \cup {Reads[n + 1]}
        /\ Reads[n + 1] = "closure" <=> n = 15
    BY <2>1, SeenSize
  <2> QED BY <2>1, <2>2, <1>2
<1>7. /\ DOMAIN seen = SeenUpTo(m) /\ seen[name] = Read(name)
      /\ \A x \in DOMAIN chk.seen : seen[x] = chk.seen[x]
  BY <1>6 DEF AndRead
<1>8. \A j \in 1..m : j # m => Reads[j] \in DOMAIN chk.seen
  BY <1>2, <1>3 DEF SeenUpTo
<1>9. \A j \in 1..m : j \in 1..16
  OBVIOUS
<1> HIDE DEF name, seen
<1>10. CASE Holds(name, seen)
  <2>1. chk' = [result |-> IF name = "closure" THEN "accepted" ELSE "running", seen |-> seen,
                quiet |-> chk.quiet]
    BY <1>1, <1>5, <1>10
  <2>2. /\ chk' = [result |-> chk'.result, seen |-> chk'.seen, quiet |-> chk'.quiet]
        /\ chk'.result = (IF name = "closure" THEN "accepted" ELSE "running")
        /\ chk'.seen = seen /\ chk'.quiet = chk.quiet
    BY <2>1
  <2>3. ChkTyped'
    <3>1. CASE m = 16
      BY <2>2, <1>1, <1>6, <1>7, <3>1 DEF ChkTyped
    <3>2. CASE m # 16
      <4>1. m \in 0..15
        BY <3>2
      <4> QED BY <2>2, <1>1, <1>6, <1>7, <3>2, <4>1 DEF ChkTyped
    <3> QED BY <3>1, <3>2
  <2>4. ASSUME NEW x \in DOMAIN seen
        PROVE  Holds(x, seen) /\ Whole(x, seen[x])
    <3>1. CASE x = name
      BY <3>1, <1>7, <1>10, WholeRead DEF IInv
    <3>2. CASE x # name
      <4>1. x \in DOMAIN chk.seen
        BY <3>2, <1>6, <1>7
      <4>2. Holds(x, chk.seen) /\ Whole(x, chk.seen[x])
        BY <4>1 DEF IInv, Vetted
      <4>3. PICK k \in 1..n : x = Reads[k]
        BY <4>1, <1>2 DEF SeenUpTo
      <4>4. k \in 1..16 /\ \A j \in 1..k : j \in 1..m /\ j # m
        BY <1>3
      <4>5. \A j \in 1..k : chk.seen[Reads[j]] = seen[Reads[j]]
        BY <4>4, <1>7, <1>8
      <4>6. Holds(Reads[k], chk.seen) /\ k \in 1..16
        BY <4>2, <4>3, <4>4
      <4>7. Holds(Reads[k], seen)
        <5> DEFINE old == chk.seen
        <5>1. Holds(Reads[k], old) /\ \A j \in 1..k : old[Reads[j]] = seen[Reads[j]]
          BY <4>5, <4>6
        <5>2. k \in 1..16
          BY <4>6
        <5> HIDE DEF old
        <5> QED BY <5>1, <5>2, HoldsAgree
      <4> QED BY <4>1, <4>2, <4>3, <4>7, <1>7
    <3> QED BY <3>1, <3>2
  <2>5. ASSUME "reviewed" \in DOMAIN seen
        PROVE  seen["reviewed"].rules \in DOMAIN Rules
    <3>1. CASE name = "reviewed"
      <4>1. Read("reviewed").rules = inputs.rules
        BY DEF Read
      <4> QED BY <3>1, <4>1, <1>7 DEF IInv, WorldTyped
    <3>2. CASE name # "reviewed"
      BY <2>5, <3>2, <1>6, <1>7 DEF IInv, Vetted
    <3> QED BY <3>1, <3>2
  <2>6. Vetted'
    <3>1. chk.seen' = seen
      BY <2>2
    <3> QED BY <3>1, <2>4, <2>5 DEF Vetted
  <2>7. Undisturbed'
    <3> SUFFICES ASSUME chk'.quiet
                 PROVE  /\ InStep'
                        /\ \A x \in DOMAIN seen : seen[x] = Read(x)'
      BY <2>2 DEF Undisturbed
    <3>1. chk.quiet
      BY <2>2
    <3>2. InStep /\ \A x \in DOMAIN chk.seen : chk.seen[x] = Read(x)
      BY <3>1, <1>1 DEF IInv, Undisturbed
    <3>3. InStep' /\ \A x : Read(x)' = Read(x)
      BY <3>2, <1>1, ReadsUnchanged
    <3>4. \A x \in DOMAIN seen : seen[x] = Read(x)
      BY <3>2, <1>6, <1>7
    <3> QED BY <3>3, <3>4
  <2> QED BY <2>3, <2>6, <2>7
<1>11. CASE ~Holds(name, seen)
  <2>1. chk' = [result |-> "refused", seen |-> <<>>, quiet |-> chk.quiet]
    BY <1>5, <1>11 DEF NoCheck
  <2>2. /\ chk' = [result |-> chk'.result, seen |-> chk'.seen, quiet |-> chk'.quiet]
        /\ chk'.result = "refused" /\ chk'.seen = <<>> /\ chk'.quiet = chk.quiet
    BY <2>1
  <2>3. ChkTyped'
    BY <2>2, <1>1 DEF ChkTyped
  <2>4. Vetted'
    BY <2>2 DEF Vetted
  <2>5. ASSUME chk.quiet
        PROVE  FALSE
    <3>1. InStep /\ \A x \in DOMAIN chk.seen : chk.seen[x] = Read(x)
      BY <2>5, <1>1 DEF IInv, Undisturbed
    <3>2. \A j \in 1..m : Current[Reads[j]] = Read(Reads[j])
      BY <1>9, CurrentIsRead
    <3>3. \A j \in 1..m : seen[Reads[j]] = Read(Reads[j])
      BY <3>1, <1>7, <1>8 DEF name
    <3>4. \A j \in 1..m : Current[Reads[j]] = seen[Reads[j]]
      BY <3>2, <3>3
    <3>5. Holds(Reads[m], Current)
      BY <3>1, InStepHolds DEF IInv
    <3>6. Holds(Reads[m], seen)
      BY <3>4, <3>5, HoldsAgree
    <3> QED BY <3>6, <1>11 DEF name
  <2>6. Undisturbed'
    BY <2>2, <2>5 DEF Undisturbed
  <2> QED BY <2>3, <2>4, <2>6
<1> QED
  BY <1>10, <1>11

LEMMA CheckKept ==
  ASSUME ChkTyped, Vetted, UNCHANGED chk
  PROVE  ChkTyped' /\ Vetted'
<1>1. ChkTyped'
  BY DEF ChkTyped
<1>2. Vetted'
  BY DEF Vetted
<1> QED
  BY <1>1, <1>2

LEMMA NextTyped ==
  ASSUME TextAssumption, ReviewAssumption, WorldAssumption, IInv, [Next]_vars
  PROVE  IInv'
<1>a. WorldTyped /\ GenTyped /\ OnDisk /\ ChkTyped /\ Vetted /\ Undisturbed
  BY DEF IInv
<1>b. WorldTyped'
  BY <1>a, WorldStep
<1>c. ASSUME Disturb
      PROVE  ChkTyped' /\ Vetted' /\ Undisturbed'
  BY <1>a, <1>c, DisturbStep
<1>d. ASSUME UNCHANGED <<gen, art>>
      PROVE  GenTyped' /\ OnDisk'
  BY <1>a, <1>d DEF GenTyped, OnDisk
<1>1. CASE StartUpdate \/ CheckHead \/ CheckStatus \/ ReadSource \/ OpenArtifact
             \/ WriteArtifact \/ Triage \/ Compare \/ WriteClosure
  <2>1. Disturb
    BY <1>1 DEF StartUpdate, CheckHead, CheckStatus, ReadSource, OpenArtifact, WriteArtifact,
       Triage, Compare, WriteClosure, GenGoes
  <2>2. GenTyped' /\ OnDisk'
    BY <1>1, <1>a, GenStep
  <2> QED BY <2>1, <2>2, <1>b, <1>c DEF IInv
<1>2. CASE StartCheck
  <2>1. UNCHANGED <<gen, art>>
    BY <1>2 DEF StartCheck
  <2> QED BY <1>2, <2>1, <1>b, <1>d, StartCheckStep DEF IInv
<1>3. CASE CheckStep
  <2>1. UNCHANGED <<gen, art>>
    BY <1>3 DEF CheckStep
  <2> QED BY <1>3, <2>1, <1>b, <1>d, CheckStepStep DEF IInv
<1>4. ASSUME NEW edit \in Edits, Edit(edit[1], edit[2])
      PROVE  IInv'
  <2>1. Disturb /\ UNCHANGED <<gen, art>>
    BY <1>4 DEF Edit, World
  <2> QED BY <2>1, <1>b, <1>c, <1>d DEF IInv
<1>5. ASSUME NEW c \in Changes, CheckOut(c)
      PROVE  IInv'
  <2>1. Disturb /\ UNCHANGED <<gen, art>>
    BY <1>5 DEF CheckOut, World
  <2> QED BY <2>1, <1>b, <1>c, <1>d DEF IInv
<1>6. ASSUME NEW amendment \in Amendments, Amend(amendment[1], amendment[2])
      PROVE  IInv'
  <2>1. Disturb /\ UNCHANGED <<gen, art>>
    BY <1>6 DEF Amend, World
  <2> QED BY <2>1, <1>b, <1>c, <1>d DEF IInv
<1>7. CASE Record
  <2>1. UNCHANGED <<gen, art, chk>> /\ chk.result = "none"
    BY <1>7 DEF Record
  <2>2. Undisturbed'
    BY <2>1, <1>a DEF Undisturbed
  <2> QED BY <2>1, <2>2, <1>a, <1>b, <1>d, CheckKept DEF IInv
<1>8. CASE KillGenerator
  <2>1. Disturb /\ UNCHANGED art /\ gen' = Idle
    BY <1>8 DEF KillGenerator, World
  <2>2. GenTyped' /\ OnDisk'
    BY <2>1, <1>a, IdleIsTyped DEF OnDisk
  <2> QED BY <2>1, <2>2, <1>b, <1>c DEF IInv
<1>9. CASE UNCHANGED vars
  <2>1. UNCHANGED <<gen, art, chk>> /\ UNCHANGED <<repo, inputs, art, ledger>>
    BY <1>9 DEF vars
  <2>2. Undisturbed'
    <3>1. (InStep' <=> InStep) /\ \A name : Read(name)' = Read(name)
      BY <2>1, ReadsUnchanged
    <3> QED BY <2>1, <3>1, <1>a DEF Undisturbed
  <2> QED BY <2>1, <2>2, <1>a, <1>b, <1>d, CheckKept DEF IInv
<1> QED
  BY <1>1, <1>2, <1>3, <1>4, <1>5, <1>6, <1>7, <1>8, <1>9 DEF Next

LEMMA Invariant ==
  Spec => []IInv
<1>1. Init => IInv
  BY InitTyped, WorldAssumption
<1>2. IInv /\ [Next]_vars => IInv'
  BY NextTyped, TextAssumption, ReviewAssumption, WorldAssumption
<1> QED
  BY <1>1, <1>2, PTL DEF Spec

-----------------------------------------------------------------------------
(* What follows from it.                                                    *)

\* For every sources, texts, rules and ledgers, whatever is edited, killed, written or
\* recorded: the state is of its type, that is, the scripts are at positions that they
\* have, the generator has something to write exactly while it writes, and the check
\* has read nothing but what it reads.
THEOREM PipelineTypes ==
  Spec => []TypeOK
<1>1. IInv => TypeOK
  <2> SUFFICES ASSUME IInv PROVE TypeOK
    OBVIOUS
  <2>1. \A n \in 0..16 : SeenUpTo(n) \subseteq Range(Reads)
    <3>1. DOMAIN Reads = 1..16
      BY DEF Reads
    <3> QED BY <3>1 DEF SeenUpTo, Range
  <2>2. DOMAIN chk.seen \subseteq Range(Reads)
    <3>1. \/ chk.seen = <<>>
          \/ \E n \in 0..16 : DOMAIN chk.seen = SeenUpTo(n)
      BY DEF IInv, ChkTyped
    <3>2. DOMAIN <<>> = {}
      OBVIOUS
    <3> QED BY <2>1, <3>1, <3>2
  <2>3. \A f \in DOMAIN repo.work : repo.work[f] \in Contents
    BY DEF IInv, WorldTyped, IsReading
  <2> QED BY <2>2, <2>3 DEF IInv, WorldTyped, GenTyped, OnDisk, ChkTyped, TypeOK
<1> QED
  BY <1>1, Invariant, PTL

\* The check never refuses what the generator writes from inputs that fit together,
\* unless something happens meanwhile: validate_compatibility_ledger.py requires nothing
\* that update-compatibility-inventory.sh does not provide.
THEOREM WrittenIsAccepted ==
  Spec => []InStepIsAccepted
<1>1. IInv => InStepIsAccepted
  BY DEF IInv, Undisturbed, InStepIsAccepted
<1> QED
  BY <1>1, Invariant, PTL

\* What a check that has accepted knows of what it has read.
LEMMA AcceptedMeans ==
  ASSUME IInv, Accepted, NEW s, s = chk.seen
  PROVE  /\ s.findings = s.summary.findings /\ IsReading(s.findings.of)
         /\ s.findings.commit = s.checkout.head
         /\ SourcesHold(s) /\ DeltaHolds(s) /\ TriageHolds(s) /\ ClosureHolds(s)
         /\ s.pointer # Torn /\ s.pointer.records = PointerTriage(s.inventory, s.pointer.rules).records
         /\ s.ffi # Torn /\ s.ffi.records = FfiTriage(s.inventory, s.ffi.review).records
         /\ DeltaWhole(s.delta)
         /\ s.reviewed.rules \in DOMAIN Rules
<1>1. DOMAIN s = SeenUpTo(16)
  BY DEF IInv, ChkTyped, Accepted
<1>2. /\ "summary" \in DOMAIN s /\ "findings" \in DOMAIN s /\ "checkout" \in DOMAIN s
      /\ "sources" \in DOMAIN s /\ "delta" \in DOMAIN s /\ "pointer" \in DOMAIN s
      /\ "ffi" \in DOMAIN s /\ "reviewed" \in DOMAIN s /\ "closure" \in DOMAIN s
  BY <1>1, ReadsInOrder DEF SeenUpTo
<1>3. \A name \in DOMAIN s : Holds(name, s) /\ Whole(name, s[name])
  BY DEF IInv, Vetted
<1>4. s.reviewed.rules \in DOMAIN Rules
  BY <1>2 DEF IInv, Vetted
<1>5. /\ Holds("summary", s) /\ Holds("findings", s) /\ Holds("checkout", s)
      /\ Holds("sources", s) /\ Holds("delta", s) /\ Holds("pointer", s)
      /\ Holds("ffi", s) /\ Holds("reviewed", s) /\ Holds("closure", s)
  BY <1>2, <1>3
<1>6. /\ Whole("summary", s["summary"]) /\ Whole("delta", s["delta"])
      /\ Whole("pointer", s["pointer"]) /\ Whole("ffi", s["ffi"])
  BY <1>2, <1>3
<1>7. /\ s.summary # Torn /\ s.findings = s.summary.findings
      /\ s.checkout.head = s.summary.commit
      /\ SourcesHold(s) /\ DeltaHolds(s) /\ TriageHolds(s) /\ ClosureHolds(s)
      /\ s.pointer # Torn /\ s.pointer.findings = s.inventory
      /\ s.ffi # Torn /\ s.ffi.findings = s.inventory
  BY <1>5, HoldsMeans
<1>8. /\ SummaryWhole(s.summary) /\ DeltaWhole(s.delta) /\ PointerWhole(s.pointer)
      /\ FfiWhole(s.ffi)
  BY <1>6 DEF Whole
<1> QED
  BY <1>4, <1>7, <1>8 DEF SummaryWhole, PointerWhole, FfiWhole

\* A triage covers the findings to review of another findings file only when it has the
\* records that the file itself would have.
LEMMA SameRecords ==
  ASSUME NEW F, NEW P, NEW rules, NEW review, NEW pointer, NEW ffi,
         pointer.records = PointerTriage(P, rules).records, Covers(pointer, Pointers(F)),
         ffi.records = FfiTriage(P, review).records, Covers(ffi, CustomCalls(F))
  PROVE  /\ pointer.records = PointerTriage(F, rules).records
         /\ ffi.records = FfiTriage(F, review).records
<1>1. pointer.records = PointerTriage(F, rules).records
  <2> DEFINE Of(x) == {PointerRecord(x, r) : r \in Owners(x, rules)}
             A == Pointers(P)
             B == Pointers(F)
  <2>1. /\ pointer.records = UNION {Of(x) : x \in A}
        /\ PointerTriage(F, rules).records = UNION {Of(x) : x \in B}
    BY DEF PointerTriage
  <2>2. {r.finding : r \in pointer.records} = B
    BY DEF Covers
  <2>3. \A x : \A r \in Of(x) : r.finding = x
    BY DEF PointerRecord
  <2> HIDE DEF Of, A, B
  <2>4. \A r \in pointer.records : r \in UNION {Of(x) : x \in B}
    <3> SUFFICES ASSUME NEW r \in pointer.records
                 PROVE  \E x \in B : r \in Of(x)
      OBVIOUS
    <3>1. PICK x \in A : r \in Of(x)
      BY <2>1
    <3>2. r.finding = x /\ r.finding \in B
      BY <2>2, <2>3, <3>1
    <3> QED BY <3>1, <3>2
  <2>5. \A r \in UNION {Of(x) : x \in B} : r \in pointer.records
    <3> SUFFICES ASSUME NEW x \in B, NEW r \in Of(x)
                 PROVE  r \in pointer.records
      OBVIOUS
    <3>1. PICK q \in pointer.records : q.finding = x
      BY <2>2
    <3>2. PICK y \in A : q \in Of(y)
      BY <2>1
    <3>3. y = x
      BY <2>3, <3>1, <3>2
    <3> QED BY <2>1, <3>2, <3>3
  <2> QED BY <2>1, <2>4, <2>5
<1>2. ffi.records = FfiTriage(F, review).records
  <2> DEFINE R(x) == FfiRecord(x, review[x.details])
             A == CustomCalls(P)
             B == CustomCalls(F)
  <2>1. /\ ffi.records = {R(x) : x \in A}
        /\ FfiTriage(F, review).records = {R(x) : x \in B}
    BY DEF FfiTriage
  <2>2. {r.finding : r \in ffi.records} = B
    BY DEF Covers
  <2>3. \A x : R(x).finding = x
    BY DEF FfiRecord
  <2> HIDE DEF R, A, B
  <2>4. \A x \in A : x \in B
    <3> SUFFICES ASSUME NEW x \in A PROVE x \in B
      OBVIOUS
    <3>1. R(x) \in ffi.records /\ R(x).finding = x
      BY <2>1, <2>3
    <3> QED BY <2>2, <3>1
  <2>5. \A x \in B : x \in A
    <3> SUFFICES ASSUME NEW x \in B PROVE x \in A
      OBVIOUS
    <3>1. PICK r \in ffi.records : r.finding = x
      BY <2>2
    <3>2. PICK y \in A : r = R(y)
      BY <2>1
    <3>3. y = x
      BY <2>3, <3>1, <3>2
    <3> QED BY <3>3
  <2>6. A = B
    BY <2>4, <2>5
  <2> QED BY <2>1, <2>6
<1> QED
  BY <1>1, <1>2

\* For every inputs and every interleaving with the generator and its kill: what an
\* accepted check has read belongs together, the triage under the rules and the review
\* of today, the closure and the delta to the findings.
THEOREM AcceptedFitsTogether ==
  Spec => []OneGeneration
<1>1. IInv => OneGeneration
  <2> SUFFICES ASSUME IInv, Accepted
               PROVE  OneGeneration
    BY DEF OneGeneration
  <2> DEFINE s == chk.seen
             F == s.findings
  <2>0. s = chk.seen
    OBVIOUS
  <2> HIDE DEF s
  <2>1. /\ F = s.summary.findings
        /\ DeltaHolds(s) /\ TriageHolds(s) /\ ClosureHolds(s) /\ DeltaWhole(s.delta)
        /\ s.pointer.records = PointerTriage(s.inventory, s.pointer.rules).records
        /\ s.ffi.records = FfiTriage(s.inventory, s.ffi.review).records
    BY <2>0, AcceptedMeans
  <2>2. /\ s.pointer.rules = s.reviewed.rules /\ s.ffi.review = s.reviewed.review
        /\ Covers(s.pointer, Pointers(F)) /\ Covers(s.ffi, CustomCalls(F))
    BY <2>1 DEF TriageHolds
  <2>3. /\ s.pointer.records = PointerTriage(F, s.reviewed.rules).records
        /\ s.ffi.records = FfiTriage(F, s.reviewed.review).records
    BY <2>1, <2>2, SameRecords
  <2>4. s.lines = F => s.closure = Closure(s.manifest, F)
    BY <2>1 DEF ClosureHolds
  <2>5. s.delta # Torn /\ s.delta.findings = F
    BY <2>1 DEF DeltaHolds
  <2>6. /\ s.delta.selectedOnly = Keys(F) \ Comparison.keys
        /\ s.delta.comparisonOnly = Comparison.keys \ Keys(F)
    BY <2>1, <2>5 DEF DeltaWhole
  <2> QED BY <2>0, <2>3, <2>4, <2>6 DEF OneGeneration, Keys
<1> QED
  BY <1>1, Invariant, PTL

\* For every text in every dialect: each finding of an accepted check is at a place that
\* the documented lexer takes for code, in the source whose content the check has read.
THEOREM AcceptedFindingsAreCode ==
  Spec => []FindingsAreCode
<1>1. IInv => FindingsAreCode
  <2> SUFFICES ASSUME IInv, Accepted
               PROVE  FindingsAreCode
    BY DEF FindingsAreCode
  <2> DEFINE s == chk.seen
             F == s.findings
  <2>0. s = chk.seen
    OBVIOUS
  <2> HIDE DEF s
  <2>1. IsReading(F.of) /\ F.commit = s.checkout.head /\ SourcesHold(s)
    BY <2>0, AcceptedMeans
  <2>2. ASSUME NEW x \in Lines(F)
        PROVE  /\ x.at \in LexedCode(Dialect[x.source], Text[s.sources[x.source]])
               /\ x.commit = s.checkout.head
    <3>1. /\ x.source \in DOMAIN F.of /\ x.commit = F.commit
          /\ x.at \in LexedCode(Dialect[x.source], Text[F.of[x.source]])
      <4> HIDE DEF F
      <4> QED BY <2>1, TextAssumption, LinesFinite
    <3>2. s.sources[x.source] = F.of[x.source]
      BY <2>1, <3>1 DEF SourcesHold
    <3> QED BY <2>1, <3>1, <3>2
  <2> QED BY <2>0, <2>2 DEF FindingsAreCode
<1> QED
  BY <1>1, Invariant, PTL
-----------------------------------------------------------------------------
(* The words that need a review.                                            *)

Reviewed == PointerCategories \cup {"ffi.custom_call"}

LEMMA DeclarationIs ==
  ASSUME NEW rest
  PROVE  DeclarationCategory(rest) \in
           {"module.declaration_functor", "module.declaration_structure",
            "module.declaration_alias", "module.declaration_first_class_unpack",
            "module.declaration_other"}
BY DEF DeclarationCategory

\* The patterns give a category to review to the words ==, != and customFFI, one to
\* each, and to nothing else.
LEMMA ReviewedCategory ==
  ASSUME NEW code, NEW line, NEW k
  PROVE  /\ At(code, k) \in {"==", "!="} =>
               \A c : c \in Categories(code, line, k) \cap Reviewed
                         <=> c = PointerCategory(code, k)
         /\ At(code, k) = "customFFI" => \A c : c \in Categories(code, line, k) \cap Reviewed
                                                  <=> c = "ffi.custom_call"
         /\ PointerCategory(code, k) \in PointerCategories
<1>1. \A c \in OpenCategories(code, k) : c \notin Reviewed
  BY DEF OpenCategories, Reviewed, PointerCategories
<1>2. \A c \in ModuleCategories(code, line, k) : c \notin Reviewed
  <2> DEFINE a == DeclarationCategory(RestOfLine(code, line, NameOf(code, k)))
  <2>1. a \notin Reviewed
    <3>1. \A rest : DeclarationCategory(rest) \notin Reviewed
      BY DeclarationIs DEF Reviewed, PointerCategories
    <3> QED BY <3>1
  <2>2. ModuleCategories(code, line, k) \subseteq
          {a, "module.type_declaration", "module.first_class_pack",
           "module.first_class_unpack"}
    BY DEF ModuleCategories
  <2> HIDE DEF a
  <2> QED BY <2>1, <2>2 DEF Reviewed, PointerCategories
<1>3. PointerCategory(code, k) \in PointerCategories
  BY DEF PointerCategory, PointerCategories
<1>4. \A c : c \in ReviewCategories(code, k) \cap Reviewed
               <=> \/ At(code, k) \in {"==", "!="} /\ c = PointerCategory(code, k)
                   \/ At(code, k) = "customFFI" /\ c = "ffi.custom_call"
  <2>1. \A c : c \in ReviewCategories(code, k) <=>
               \/ At(code, k) \in {"==", "!="} /\ c = PointerCategory(code, k)
               \/ At(code, k) = "customFFI" /\ c = "ffi.custom_call"
               \/ /\ Seen(code, k, <<{"external"}, {"x"}, {":"}>>)
                  /\ c = "ffi.ocaml_external_declaration"
    BY DEF ReviewCategories
  <2>2. "ffi.ocaml_external_declaration" \notin Reviewed
    BY DEF Reviewed, PointerCategories
  <2>3. PointerCategory(code, k) \in Reviewed /\ "ffi.custom_call" \in Reviewed
    BY <1>3 DEF Reviewed
  <2> QED BY <2>1, <2>2, <2>3
<1>5. \A c : c \in Categories(code, line, k) \cap Reviewed
               <=> \/ At(code, k) \in {"==", "!="} /\ c = PointerCategory(code, k)
                   \/ At(code, k) = "customFFI" /\ c = "ffi.custom_call"
  BY <1>1, <1>2, <1>4 DEF Categories
<1> QED
  BY <1>3, <1>5

\* One finding to review at each word of the code that needs a review.
LEMMA OneFinding ==
  ASSUME NEW dialect, NEW text \in Texts, NEW i \in ReviewWords(dialect, text)
  PROVE  \E y \in Findings(dialect, text) :
            /\ y.at = i
            /\ y.category \in Reviewed
            /\ text[i] = "customFFI" <=> y.category = "ffi.custom_call"
            /\ \A z \in Findings(dialect, text) :
                  z.at = i /\ z.category \in Reviewed => z = y
<1> DEFINE position == CodePositions(dialect, text)
           C == {j \in LexedCode(dialect, text) : text[j] # "nl"}
           code == CodeAt(text, position)
<1>1. Lists(position, C, Len(text)) /\ C \subseteq 1..Len(text)
  BY PatternsSeeCode
<1>2. i \in C /\ text[i] \in {"==", "!=", "customFFI"}
  BY DEF ReviewWords
<1>3. /\ DOMAIN position = 1..Len(position)
      /\ \A k, l \in DOMAIN position : position[k] = position[l] => k = l
      /\ \E k \in DOMAIN position : position[k] = i
  <2> HIDE DEF position, C
  <2>1. DOMAIN position = 1..Len(position)
    BY <1>1 DEF Lists
  <2>2. i <= Len(text)
    BY <1>1, <1>2, TextType
  <2> QED BY <2>1, <2>2, <1>1, <1>2 DEF Lists
<1>4. PICK k \in DOMAIN position : position[k] = i
  BY <1>3
<1>5. At(code, k) = text[i]
  <2>1. DOMAIN code = DOMAIN position /\ code[k] = text[position[k]]
    BY DEF CodeAt
  <2> HIDE DEF code, position
  <2> QED BY <2>1, <1>4 DEF At
<1>6. PICK c : /\ \A d : d \in CategoriesAt(text, position, k) \cap Reviewed <=> d = c
               /\ text[i] = "customFFI" <=> c = "ffi.custom_call"
  <2> DEFINE line == LinesAt(text, position)
  <2>1. CategoriesAt(text, position, k) = Categories(code, line, k)
    BY DEF CategoriesAt
  <2>2. PointerCategory(code, k) # "ffi.custom_call"
    BY ReviewedCategory DEF PointerCategories
  <2> HIDE DEF code, line, position
  <2>3. CASE text[i] \in {"==", "!="}
    <3>1. \A d : d \in Categories(code, line, k) \cap Reviewed <=> d = PointerCategory(code, k)
      BY <1>5, <2>3, ReviewedCategory
    <3> QED BY <2>1, <2>2, <2>3, <3>1
  <2>4. CASE text[i] = "customFFI"
    <3>1. \A d : d \in Categories(code, line, k) \cap Reviewed <=> d = "ffi.custom_call"
      BY <1>5, <2>4, ReviewedCategory
    <3> QED BY <2>1, <2>4, <3>1
  <2> QED BY <2>3, <2>4, <1>2
<1> DEFINE y == Finding(text, position, c, k)
<1>7. Findings(dialect, text) =
        UNION {{Finding(text, position, d, l) : d \in CategoriesAt(text, position, l)} :
               l \in DOMAIN position}
  BY FindingsAre
<1>8. \A d, l : /\ Finding(text, position, d, l).at = position[l]
                /\ Finding(text, position, d, l).category = d
  BY DEF Finding
<1> HIDE DEF position, code, C
<1>9. c \in CategoriesAt(text, position, k) /\ c \in Reviewed
  BY <1>6
<1>10. y \in Findings(dialect, text) /\ y.at = i /\ y.category = c
  BY <1>4, <1>7, <1>8, <1>9
<1>11. ASSUME NEW z \in Findings(dialect, text), z.at = i, z.category \in Reviewed
       PROVE  z = y
  <2>1. PICK l \in DOMAIN position : \E d \in CategoriesAt(text, position, l) :
                                        z = Finding(text, position, d, l)
    BY <1>7
  <2>2. PICK d \in CategoriesAt(text, position, l) : z = Finding(text, position, d, l)
    BY <2>1
  <2>3. position[l] = i /\ d \in Reviewed
    BY <1>8, <1>11, <2>2
  <2>4. l = k
    BY <1>3, <1>4, <2>3
  <2>5. d = c
    BY <1>6, <2>2, <2>3, <2>4
  <2> QED BY <2>2, <2>4, <2>5
<1> HIDE DEF y
<1> QED
  BY <1>6, <1>9, <1>10, <1>11

\* One line of a findings file at each such word of a source that it lists.
LEMMA OneLine ==
  ASSUME TextAssumption, NEW F, IsReading(F.of), NEW f \in DOMAIN F.of,
         NEW i \in ReviewWords(Dialect[f], Text[F.of[f]])
  PROVE  \E x : /\ x.source = f /\ x.at = i
                /\ \/ x \in Pointers(F) /\ x \notin CustomCalls(F)
                   \/ x \in CustomCalls(F) /\ x \notin Pointers(F)
                /\ \A z \in Pointers(F) \cup CustomCalls(F) :
                      z.source = f /\ z.at = i => z = x
<1> DEFINE text == Text[F.of[f]]
<1>1. f \in Files /\ F.of[f] \in Contents
  BY DEF IsReading
<1>2. text \in Texts
  BY <1>1 DEF TextAssumption, Texts
<1>3. ScanOf[f][F.of[f]] = Findings(Dialect[f], text)
  BY <1>1, ScansAre
<1> HIDE DEF text
<1>4. PICK y \in Findings(Dialect[f], text) :
        /\ y.at = i /\ y.category \in Reviewed
        /\ \A z \in Findings(Dialect[f], text) : z.at = i /\ z.category \in Reviewed => z = y
  BY <1>2, OneFinding DEF text
<1> DEFINE x == Quote(F, f, y)
<1>5. Lines(F) = UNION {{Quote(F, g, z) : z \in ScanOf[g][F.of[g]]} : g \in DOMAIN F.of}
  BY LinesAre
<1>6. \A g, z : /\ Quote(F, g, z).source = g /\ Quote(F, g, z).at = z.at
                /\ Quote(F, g, z).category = z.category
  BY DEF Quote
<1>7. x \in Lines(F)
  <2>1. y \in ScanOf[f][F.of[f]]
    BY <1>3
  <2>2. x \in {Quote(F, f, z) : z \in ScanOf[f][F.of[f]]}
    BY <2>1
  <2> HIDE DEF x
  <2> QED BY <2>2, <1>5
<1>8. x.source = f /\ x.at = i /\ x.category \in Reviewed
  BY <1>4, <1>6
<1>9. ASSUME NEW z \in Lines(F), z.category \in Reviewed, z.source = f, z.at = i
      PROVE  z = x
  <2>1. PICK g \in DOMAIN F.of : \E w \in ScanOf[g][F.of[g]] : z = Quote(F, g, w)
    BY <1>5
  <2>2. PICK w \in ScanOf[g][F.of[g]] : z = Quote(F, g, w)
    BY <2>1
  <2>3. g = f /\ w.at = i /\ w.category \in Reviewed
    BY <1>6, <1>9, <2>2
  <2>4. w = y
    BY <1>3, <1>4, <2>2, <2>3
  <2> QED BY <2>2, <2>3, <2>4
<1> HIDE DEF x
<1>10. \A z : /\ z \in Pointers(F) <=> z \in Lines(F) /\ z.category \in PointerCategories
              /\ z \in CustomCalls(F) <=> z \in Lines(F) /\ z.category = "ffi.custom_call"
  BY DEF Pointers, CustomCalls
<1>11. "ffi.custom_call" \notin PointerCategories
  BY DEF PointerCategories
<1>12. \A c : c \in Reviewed <=> c \in PointerCategories \/ c = "ffi.custom_call"
  BY DEF Reviewed
<1>13. \/ x \in Pointers(F) /\ x \notin CustomCalls(F)
       \/ x \in CustomCalls(F) /\ x \notin Pointers(F)
  BY <1>7, <1>8, <1>10, <1>11, <1>12
<1>14. \A z \in Pointers(F) \cup CustomCalls(F) : z.source = f /\ z.at = i => z = x
  BY <1>9, <1>10, <1>12
<1> QED
  BY <1>8, <1>13, <1>14

IsImage(T, S, f) == T = {f[x] : x \in S}

LEMMA FiniteImage ==
  ASSUME NEW S, IsFiniteSet(S), NEW f, NEW T, IsImage(T, S, f)
  PROVE  IsFiniteSet(T)
<1>1. IsFiniteSet({f[x] : x \in S})
  BY ImageOf
<1> QED
  BY <1>1 DEF IsImage

\* The records of a triage are finitely many.
LEMMA RecordsFinite ==
  ASSUME TextAssumption, ReviewAssumption, NEW F, IsReading(F.of),
         NEW rules \in DOMAIN Rules, NEW review
  PROVE  /\ IsFiniteSet(PointerTriage(F, rules).records)
         /\ IsFiniteSet(FfiTriage(F, review).records)
<1>1. IsFiniteSet(Pointers(F)) /\ IsFiniteSet(CustomCalls(F))
  BY LinesFinite, FS_Subset DEF Pointers, CustomCalls
<1>2. IsFiniteSet(PointerTriage(F, rules).records)
  <2> DEFINE S == Pointers(F)
             Of(x) == {PointerRecord(x, r) : r \in Owners(x, rules)}
             g == [x \in S |-> Of(x)]
  <2>1. PointerTriage(F, rules).records = UNION {Of(x) : x \in S}
    BY DEF PointerTriage
  <2>2. ASSUME NEW x \in S
        PROVE  IsFiniteSet(Of(x))
    <3> DEFINE R == Owners(x, rules)
               h == [r \in R |-> PointerRecord(x, r)]
    <3>1. R \in SUBSET Rules[rules] /\ IsFiniteSet(Rules[rules])
      BY DEF Owners, ReviewAssumption
    <3>2. IsImage(Of(x), R, h)
      BY DEF IsImage
    <3> HIDE DEF R, h, Of
    <3>3. IsFiniteSet(R)
      BY <3>1, FS_Subset
    <3> QED BY <3>2, <3>3, FiniteImage
  <2>3. {Of(x) : x \in S} = {g[x] : x \in S}
    OBVIOUS
  <2> HIDE DEF g
  <2>4. IsFiniteSet({Of(x) : x \in S})
    BY <2>3, <1>1, ImageOf
  <2>5. \A T \in {Of(x) : x \in S} : IsFiniteSet(T)
    BY <2>2
  <2> HIDE DEF Of, S
  <2>6. IsFiniteSet(UNION {Of(x) : x \in S})
    BY <2>4, <2>5, FS_UNION
  <2> QED BY <2>1, <2>6
<1>3. IsFiniteSet(FfiTriage(F, review).records)
  <2> DEFINE S == CustomCalls(F)
             g == [x \in S |-> FfiRecord(x, review[x.details])]
  <2>1. IsImage(FfiTriage(F, review).records, S, g)
    BY DEF FfiTriage, IsImage
  <2>2. IsFiniteSet(S)
    BY <1>1
  <2> HIDE DEF S, g
  <2> QED BY <2>1, <2>2, FiniteImage
<1> QED
  BY <1>2, <1>3

\* When the records cover the findings, each finding has one record.
LEMMA OneRecord ==
  ASSUME NEW document, NEW S, Covers(document, S), IsFiniteSet(document.records)
  PROVE  \A x \in S : \E r \in document.records :
            r.finding = x /\ \A q \in document.records : q.finding = x => q = r
<1> DEFINE R == document.records
           f == [r \in R |-> r.finding]
<1>1. {f[r] : r \in R} = S /\ Cardinality(R) = Cardinality(S)
  BY DEF Covers
<1>2. \A r \in R : f[r] = r.finding
  OBVIOUS
<1> HIDE DEF f
<1>3. /\ IsFiniteSet({f[r] : r \in R})
      /\ Cardinality({f[r] : r \in R}) = Cardinality(R)
           <=> \A x, y \in R : f[x] = f[y] => x = y
  BY ImageOf, Zenon
<1>4. \A x, y \in R : f[x] = f[y] => x = y
  BY <1>1, <1>3
<1> QED
  BY <1>1, <1>2, <1>4

\* For every text in every dialect and every rules and reviews: an accepted check leaves no
\* == and no customFFI of the code of a source with findings without a review, and none
\* with two.
THEOREM AcceptedIsReviewedOnce ==
  Spec => []ReviewedOnce
<1>1. IInv => ReviewedOnce
  <2> SUFFICES ASSUME IInv, Accepted
               PROVE  ReviewedOnce
    BY DEF ReviewedOnce
  <2> DEFINE s == chk.seen
             F == s.findings
             P == s.pointer.records
             Q == s.ffi.records
  <2>0. s = chk.seen
    OBVIOUS
  <2> HIDE DEF s
  <2>1. /\ IsReading(F.of) /\ SourcesHold(s) /\ TriageHolds(s)
        /\ s.pointer.records = PointerTriage(s.inventory, s.pointer.rules).records
        /\ s.ffi.records = FfiTriage(s.inventory, s.ffi.review).records
        /\ s.reviewed.rules \in DOMAIN Rules
    BY <2>0, AcceptedMeans
  <2>2. /\ s.pointer.rules = s.reviewed.rules
        /\ Covers(s.pointer, Pointers(F)) /\ Covers(s.ffi, CustomCalls(F))
    BY <2>1 DEF TriageHolds
  <2>3. /\ P = PointerTriage(F, s.reviewed.rules).records
        /\ Q = FfiTriage(F, s.ffi.review).records
    BY <2>1, <2>2, SameRecords
  <2>4. IsFiniteSet(P) /\ IsFiniteSet(Q)
    <3> HIDE DEF F, P, Q
    <3> QED BY <2>1, <2>3, RecordsFinite, TextAssumption, ReviewAssumption
  <2>5. /\ \A x \in Pointers(F) : \E r \in P :
              r.finding = x /\ \A q \in P : q.finding = x => q = r
        /\ \A x \in CustomCalls(F) : \E r \in Q :
              r.finding = x /\ \A q \in Q : q.finding = x => q = r
    BY <2>2, <2>4, OneRecord
  <2>6. /\ \A r \in P : r.finding \in Pointers(F)
        /\ \A r \in Q : r.finding \in CustomCalls(F)
    BY <2>2 DEF Covers
  <2>7. \A f \in DOMAIN F.of : s.sources[f] = F.of[f]
    BY <2>1 DEF SourcesHold
  <2> HIDE DEF F, P, Q
  <2>8. ASSUME NEW f \in DOMAIN F.of, NEW i \in ReviewWords(Dialect[f], Text[s.sources[f]])
        PROVE  Cardinality({r \in P \cup Q : r.finding.source = f /\ r.finding.at = i}) = 1
    <3> DEFINE Here == {r \in P \cup Q : r.finding.source = f /\ r.finding.at = i}
    <3>1. i \in ReviewWords(Dialect[f], Text[F.of[f]])
      BY <2>7
    <3>2. PICK x : /\ x.source = f /\ x.at = i
                   /\ \/ x \in Pointers(F) /\ x \notin CustomCalls(F)
                      \/ x \in CustomCalls(F) /\ x \notin Pointers(F)
                   /\ \A z \in Pointers(F) \cup CustomCalls(F) :
                         z.source = f /\ z.at = i => z = x
      BY <2>1, <3>1, OneLine, TextAssumption
    <3>3. \A r \in P \cup Q : r \in Here <=> r.finding = x
      BY <2>6, <3>2
    <3>4. \E r \in P \cup Q : r.finding = x /\ \A q \in P \cup Q : q.finding = x => q = r
      <4>1. CASE x \in Pointers(F) /\ x \notin CustomCalls(F)
        <5>1. PICK r \in P : r.finding = x /\ \A q \in P : q.finding = x => q = r
          BY <2>5, <4>1
        <5>2. \A q \in Q : q.finding # x
          BY <2>6, <4>1
        <5> QED BY <5>1, <5>2
      <4>2. CASE x \in CustomCalls(F) /\ x \notin Pointers(F)
        <5>1. PICK r \in Q : r.finding = x /\ \A q \in Q : q.finding = x => q = r
          BY <2>5, <4>2
        <5>2. \A q \in P : q.finding # x
          BY <2>6, <4>2
        <5> QED BY <5>1, <5>2
      <4> QED BY <3>2, <4>1, <4>2
    <3>5. PICK r \in P \cup Q : r.finding = x /\ \A q \in P \cup Q : q.finding = x => q = r
      BY <3>4
    <3>6. Here \subseteq P \cup Q
      OBVIOUS
    <3> HIDE DEF Here
    <3>7. Here = {r}
      BY <3>3, <3>5, <3>6
    <3>8. Cardinality(Here) = 1
      BY <3>7, FS_Singleton
    <3> QED BY <3>8 DEF Here
  <2> QED BY <2>0, <2>8 DEF ReviewedOnce, F, P, Q
<1> QED
  BY <1>1, Invariant, PTL

=============================================================================

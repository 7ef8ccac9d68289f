----------------------------- MODULE MCInventory -----------------------------
(***************************************************************************)
(* InventoryPipeline with three sources, one of each dialect.  At "base"   *)
(* and "next" the world interferes; each other commit has one text in all  *)
(* three sources ("comment" in one, beside one without a finding), and is  *)
(* there for what the scanner makes of it.                                 *)
(***************************************************************************)
EXTENDS InventoryPipeline

MCOrder == <<"lib.ml", "pa_j/gen.ml", "spec.vhl">>

MCDialect ==
    "lib.ml" :> "ocaml" @@ "pa_j/gen.ml" :> "camlp_legacy_generated_ml"
        @@ "spec.vhl" :> "verification_source_vhl"

\* Contents of the working commits, those of a source of one size.  "lib+" has a
\* physical equality more than "lib", "lib~" other findings of which none needs a
\* review, and "spec-" has no finding.
Working ==
    [lib |-> <<"open", "M", "nl", "x", "==", "x", "nl", "customFFI", "quote", "x", "quote">>,
     gen |-> <<"external", "x", ":", "x">>,
     spec |-> <<"--", "==", "nl", "x", "==", "x">>]
    @@ "lib~" :> <<"include", "M", "nl", "x", "==", "x", "nl", "customFFI", "quote", "x", "quote">>
    @@ "lib+" :> <<"open", "M", "nl", "x", "==", "==", "nl", "customFFI", "quote", "x", "quote">>
    @@ "spec-" :> <<"--", "==", "nl", "x", "op", "x">>

\* Contents that are read differently when the scanner loses its place.
Lexing ==
    [nested |-> <<"(*", "(*", "x", "*)", "==", "*)", "x", "==", "x">>,
     escapes |-> <<"quote", "escape", "quote", "==", "quote", "x", "==", "x", "quote", "quote">>,
     backslash |-> <<"quote", "escape", "escape", "quote", "x", "==", "quote", "==", "quote">>,
     terms |-> <<"tick", "x", "==", "x", "tick", "x", "==", "quote", "tick", "quote">>,
     oneTick |-> <<"x", "==", "tick", "nl", "x", "==", "x">>,
     dashes |-> <<"x", "==", "--", "==", "quote", "nl", "x", "==", "x", "quote", "quote">>,
     camlp |-> <<"<:x<", "(*", "==", ">>", "x", "==", "x", ">>", "(*", "<:x<", "*)", "==">>,
     quoted |-> <<"qopen", "quote", "==", "qclose", "x", "==", "qopen", "(*", "qclose", "x">>,
     chars |-> <<"prime", "quote", "prime", "==", "prime", "escape", "prime", "prime", "==", "quote", "prime", "quote">>,
     primes |-> <<"(", "prime", "x", ",", "prime", "x", ")", "==", "quote", "==", "quote">>,
     open |-> <<"==", "quote", "escape", "quote", "nl", "==">>,
     comment |-> <<"customFFI", "(*", "quote", "*)", "quote", "x", "quote", "(*", "==">>,
     operators |-> <<"let", "(", "==", ")", "=", "M", ".", "(", "!=", ")", "nl", "(", "==", ")", "x", "!=", "x">>,
     opens |-> <<"let", "open", "M", "in", "open", "struct", "nl", "M", ".", "(", "x", ")", "include", "M">>,
     modules |-> <<"module", "M", "=", "struct", "nl", "let", "module", "M", "=", "M", ";;", "nl", "module", "M", "(", "x", "nl", "let", "nl", "module", "rec", "M", "=", "functor", "(", "x">>,
     packs |-> <<"module", "M", "=", "(", "val", "x", ":", "M", ")", "nl", "(", "module", "M", ")", "nl", "module", "type", "M">>,
     other |-> <<"x", "module", "M", "nl", "(*", "x", "*)", "module", "M", ":", "M", "nl", "open", "(*", "nl", "*)", "M">>]

MCText == Working @@ Lexing

MCCommits == {"base", "next"} \cup DOMAIN Lexing

MCTree(c) ==
    CASE c = "base" -> "lib.ml" :> "lib" @@ "pa_j/gen.ml" :> "gen" @@ "spec.vhl" :> "spec"
      [] c = "next" -> "lib.ml" :> "lib+" @@ "pa_j/gen.ml" :> "gen"
      [] c = "comment" -> "lib.ml" :> "comment" @@ "spec.vhl" :> "spec-"
      [] OTHER -> [f \in {MCOrder[k] : k \in DOMAIN MCOrder} |-> c]

MCComparison ==
    [commit |-> "development",
     keys |-> {[source |-> "lib.ml", category |-> "open.declaration", at |-> 1, details |-> <<>>],
               [source |-> "lib.ml", category |-> "module.include", at |-> 9, details |-> <<>>]}]

Lane(c) == [selected |-> c, comparison |-> "development"]

Everything == [sources |-> Files, categories |-> PointerCategories, lines |-> 1..9]

Rule(id, selector, disposition) ==
    [id |-> id, selector |-> selector, disposition |-> disposition]

OfLib(disposition) ==
    Rule("LIB", [Everything EXCEPT !.sources = {"lib.ml"}], disposition)

OfSpec(disposition) ==
    Rule("SPEC", [Everything EXCEPT !.sources = {"spec.vhl"}, !.lines = {2}], disposition)

\* For "base": the reviewed rules, another opinion, and rules that overlap.
MCRules ==
    [reviewed |-> {OfLib("identity"), OfSpec("excluded")},
     opinion |-> {OfLib("identity"), OfSpec("identity")},
     overlap |-> {OfLib("identity"), OfSpec("excluded"), Rule("ALL", Everything, "identity")},
     lib |-> {OfLib("identity")},
     all |-> {Rule("ALL", Everything, "excluded")},
     none |-> {}]

\* What reviewers wrote for the scan of a commit.
ReviewedInputs(c) ==
    LET F == FindingsFile(c, MCTree(c))
    IN  [scope |-> c, contract |-> Lane(c),
         rules |-> IF Pointers(F) = {} THEN "none" ELSE "all",
         review |-> [command \in {x.details : x \in CustomCalls(F)} |->
                        LET x == CHOOSE y \in CustomCalls(F) : y.details = command
                        IN  [source |-> x.source, line |-> x.line, ledger |-> "FFI"]],
         manifest |-> MCTree(c)]

MCInputs(c) ==
    CASE c = "base" -> [ReviewedInputs(c) EXCEPT
                           !.rules = "reviewed", !.manifest = "lib.ml" :> "lib"]
      [] c = "next" -> [ReviewedInputs(c) EXCEPT !.rules = "lib"]
      [] OTHER -> ReviewedInputs(c)

Entry(selector, state, enumerated, files, resolved) ==
    [selector |-> selector, state |-> state, enumerated |-> enumerated, files |-> files,
     resolved |-> resolved, observed |-> resolved, remedied |-> resolved]

MCEntries(c) ==
    IF c = "base"
    THEN {Entry([by |-> "categories", values |-> {"open.declaration"}],
                "review_candidate", FALSE, {}, FALSE),
          Entry([by |-> "triage_dispositions", values |-> {"identity"}],
                "equivalent_behavior", TRUE, {"lib.ml"}, TRUE),
          Entry([by |-> "ffi_ledger_ids", values |-> {"FFI"}],
                "review_candidate", TRUE, {"lib.ml"}, FALSE),
          Entry([by |-> "source_contract", values |-> {"README"}],
                "review_candidate", TRUE, {"README"}, FALSE)}
    ELSE {}

MCEdits ==
    {<<"lib.ml", "lib">>, <<"lib.ml", "lib~">>, <<"lib.ml", "lib+">>, <<"spec.vhl", "spec">>, <<"spec.vhl", "spec-">>}

MCAmendments ==
    {<<"contract", Lane("next")>>, <<"rules", "opinion">>, <<"rules", "overlap">>,
     <<"manifest", "lib.ml" :> "lib+">>}

MCBudget(c) == IF c = "base" THEN 2 ELSE 0
=============================================================================

------------------------- MODULE InventoryPipeline -------------------------
(***************************************************************************)
(* The compatibility inventory as its users run it: the update script      *)
(* scans a pinned checkout and writes the findings, the triage of the      *)
(* findings and the delta to an earlier inventory, the closure is written  *)
(* by a command of its own, the digests are recorded in the ledger by      *)
(* hand, and the check script reads all of it again, file by file, without *)
(* a lock.  The checkout and the reviewed inputs may change at any time,   *)
(* the update may be killed, and every file it writes is truncated first.  *)
(*                                                                         *)
(* A digest is the content it is the digest of.  A findings file is given  *)
(* by the sources whose findings it lists, which the lines quote.          *)
(***************************************************************************)
EXTENDS InventoryScan

CONSTANTS
    Order,           \* the sources, in the order in which they are scanned
    Dialect,         \* the dialect of each
    Text,            \* the tokens of each content
    Commits, Tree(_),  \* Tree(c): the content of the sources tracked at commit c
    Comparison,      \* the earlier inventory: its commit and its stable findings
    Rules,           \* the rules for pointer equalities, by the digest of their file
    InitialInputs(_),  \* InitialInputs(c): the reviewed inputs for commit c
    InitialEntries(_), \* the entries of the ledger for it
    Edits,           \* bound: the edits of sources, <<source, content>>
    Changes,         \* bound: the commits that are checked out
    Amendments,      \* bound: the changes of the inputs, <<field, value>>
    Budget(_),       \* bound: outside events in a behaviour that starts at c
    Absent           \* no commit

Files == Range(Order)

Contents == DOMAIN Text

\* What a checkout may have of the sources, or a run may have read of them.
IsReading(read) == DOMAIN read \subseteq Files /\ read \in [DOMAIN read -> Contents]

ASSUME TextAssumption ==
    /\ Order \in Seq(Files)
    /\ \A f \in Files : Dialect[f] \in Dialects
    /\ Text \in [Contents -> Seq(STRING)]

ASSUME ReviewAssumption ==
    /\ IsFiniteSet(Comparison.keys)
    /\ \A r \in DOMAIN Rules : IsFiniteSet(Rules[r])

ASSUME WorldAssumption ==
    /\ \A c \in Commits : Budget(c) \in Nat /\ IsReading(Tree(c))
    /\ \A c \in Commits :
           /\ DOMAIN InitialInputs(c) = {"scope", "contract", "rules", "review", "manifest"}
           /\ InitialInputs(c).rules \in DOMAIN Rules
    /\ \A a \in Amendments : a[1] = "rules" => a[2] \in DOMAIN Rules
    /\ Changes \subseteq Commits
    /\ \A edit \in Edits : edit[2] \in Contents

VARIABLES
    repo,    \* HEAD of the scanned checkout and its working files
    inputs,  \* scope, pin contract, rules, FFI review and manifest
    art,     \* the generated artifacts
    ledger,  \* the provenance and the entries of the ledger
    gen,     \* the update script or the closure command
    chk,     \* the check script
    budget   \* outside events left

vars == <<repo, inputs, art, ledger, gen, chk, budget>>

\* What has been read and one more.
AndRead(read, name, content) ==
    [n \in DOMAIN read \cup {name} |-> IF n = name THEN content ELSE read[n]]

ScanOf == [f \in Files |-> [t \in Contents |-> Findings(Dialect[f], Text[t])]]

NotesOf == [f \in Files |-> [t \in Contents |-> Notes(Dialect[f], Text[t])]]

-----------------------------------------------------------------------------
(* The generated documents. *)

FindingsFile(c, read) ==
    [commit |-> c,
     of |-> [f \in {g \in DOMAIN read : ScanOf[g][read[g]] # {}} |-> read[f]]]

Lines(F) ==
    UNION {{[source |-> f, commit |-> F.commit, category |-> x.category, at |-> x.at,
             line |-> x.line, details |-> x.details] : x \in ScanOf[f][F.of[f]]} :
           f \in DOMAIN F.of}

\* A file that does not parse.
Torn == [torn |-> TRUE]

NotesFile(read) ==
    [notes |-> UNION {{<<f, n.at, n.kind>> : n \in NotesOf[f][read[f]]} : f \in DOMAIN read}]

NoteCounts(file) ==
    [kind \in {n[3] : n \in file.notes} |-> Cardinality({n \in file.notes : n[3] = kind})]

Counts(F) ==
    [c \in {x.category : x \in Lines(F)} |->
        [f \in Files |-> Cardinality({x \in Lines(F) : x.category = c /\ x.source = f})]]

Bytes(files) == MapThenSumSet(LAMBDA f : Len(Text[files[f]]), DOMAIN files)

Listing(files) == [files |-> Cardinality(DOMAIN files), bytes |-> Bytes(files)]

\* A bug: sources without a finding are not counted as scanned.
FindingSourcesOnly(c, read) ==
    [commit |-> c, dirty |-> FALSE, listing |-> Listing(FindingsFile(c, read).of),
     findings |-> FindingsFile(c, read), counts |-> Counts(FindingsFile(c, read)),
     notes |-> NoteCounts(NotesFile(read))]

Summary(c, read) ==
    [commit |-> c, dirty |-> FALSE, listing |-> Listing(read),
     findings |-> FindingsFile(c, read), counts |-> Counts(FindingsFile(c, read)),
     notes |-> NoteCounts(NotesFile(read))]

\* How many files, bytes, findings and notes.
Totals(summary) ==
    [listing |-> summary.listing, findings |-> Cardinality(Lines(summary.findings)),
     notes |-> MapThenSumSet(LAMBDA kind : summary.notes[kind], DOMAIN summary.notes)]

Matches(x, selector) ==
    /\ x.source \in selector.sources
    /\ x.category \in selector.categories
    /\ x.line \in selector.lines

Pointers(F) == {x \in Lines(F) : x.category \in PointerCategories}

CustomCalls(F) == {x \in Lines(F) : x.category = "ffi.custom_call"}

Owners(x, rules) == {r \in Rules[rules] : Matches(x, r.selector)}

RulesFit(F, rules) ==
    /\ \A x \in Pointers(F) : Cardinality(Owners(x, rules)) = 1
    /\ \A r \in Rules[rules] : \E x \in Pointers(F) : r \in Owners(x, rules)

PointerRecord(x, rule) ==
    [finding |-> x, rule |-> rule.id, disposition |-> rule.disposition]

PointerTriage(F, rules) ==
    [findings |-> F, rules |-> rules,
     records |-> UNION {{PointerRecord(x, r) : r \in Owners(x, rules)} : x \in Pointers(F)}]

\* A review is a function of the command (by_command).
Reviews(x, call) == call.source = x.source /\ call.line = x.line

ReviewFits(F, review) ==
    /\ \A x \in CustomCalls(F) :
           x.details \in DOMAIN review /\ Reviews(x, review[x.details])
    /\ DOMAIN review = {x.details : x \in CustomCalls(F)}

FfiRecord(x, call) == [finding |-> x, ledger |-> call.ledger]

FfiTriage(F, review) ==
    [findings |-> F, review |-> review,
     records |-> {FfiRecord(x, review[x.details]) : x \in CustomCalls(F)}]

\* What stays of a finding when the commit moves.  No two findings of a commit
\* agree in it, so that the multisets of the code are sets.
StableKey(x) ==
    [source |-> x.source, category |-> x.category, at |-> x.at, details |-> x.details]

PinDelta(contract, summary, F, pointer, ffi) ==
    LET selected == {StableKey(x) : x \in Lines(F)}
    IN  [contract |-> contract, selected |-> contract.selected,
         comparison |-> contract.comparison, findings |-> F, totals |-> Totals(summary),
         matched |-> Cardinality(selected \cap Comparison.keys),
         comparisonOnly |-> Comparison.keys \ selected,
         selectedOnly |-> selected \ Comparison.keys,
         triage |-> <<pointer, ffi>>]

DeltaFits(contract, summary) ==
    /\ Comparison.commit = contract.comparison
    /\ summary.commit = contract.selected

ClosureFits(manifest, F) ==
    \A f \in DOMAIN F.of \cap DOMAIN manifest : F.of[f] = manifest[f]

Closure(manifest, F) ==
    [manifest |-> manifest, findings |-> F,
     selected |-> {x \in Lines(F) : x.source \in DOMAIN manifest}]

-----------------------------------------------------------------------------
(* What stands on disk. *)

Artifacts == {"findings", "notes", "summary", "pointer", "ffi", "delta", "closure"}

\* The artifacts whose digests the ledger records.
Recorded == {"findings", "pointer", "ffi", "closure", "delta"}

Generated(c, read, in) ==
    LET F == FindingsFile(c, read)
        pointer == PointerTriage(F, in.rules)
        ffi == FfiTriage(F, in.review)
    IN  [findings |-> F, notes |-> NotesFile(read), summary |-> Summary(c, read),
         pointer |-> pointer, ffi |-> ffi,
         delta |-> PinDelta(in.contract, Summary(c, read), F, pointer, ffi),
         closure |-> Closure(in.manifest, F)]

Provenance(in, files, entries) ==
    [selected |-> in.contract.selected, development |-> in.contract.comparison,
     contract |-> in.contract, artifacts |-> [a \in Recorded |-> files[a]],
     entries |-> entries]

Idle == [pc |-> "idle", commit |-> Absent, listing |-> <<>>, read |-> <<>>,
         todo |-> <<>>, then |-> "idle"]

NoCheck == [result |-> "none", seen |-> <<>>, quiet |-> FALSE]

Init ==
    \E c \in Commits :
        /\ repo = [head |-> c, work |-> Tree(c)]
        /\ inputs = InitialInputs(c)
        /\ art = Generated(c, Tree(c), InitialInputs(c))
        /\ ledger = Provenance(inputs, art, InitialEntries(c))
        /\ gen = Idle
        /\ chk = NoCheck
        /\ budget = Budget(c)

Dirty == repo.work # Tree(repo.head)

\* Everything that is not the check script disturbs a check that runs.  The
\* check only reads, so that one for each behaviour will do: bound, nothing is
\* looked at after it has ended.
Disturb ==
    /\ chk.result \in {"none", "running"}
    /\ chk' = [chk EXCEPT !.quiet = FALSE]

-----------------------------------------------------------------------------
(* The update script and the closure command. *)

GenGoes == Disturb /\ UNCHANGED <<repo, inputs, ledger, budget>>

Fail == gen' = Idle /\ UNCHANGED art

StartUpdate ==
    /\ gen.pc = "idle"
    /\ gen' = [gen EXCEPT !.pc = "head"]
    /\ UNCHANGED art /\ GenGoes

CheckHead ==
    /\ gen.pc = "head"
    /\ IF repo.head = inputs.scope
       THEN gen' = [gen EXCEPT !.pc = "status", !.commit = repo.head] /\ UNCHANGED art
       ELSE Fail
    /\ GenGoes

Tracked == SelectSeq(Order, LAMBDA f : f \in DOMAIN Tree(repo.head))

CheckStatus ==
    /\ gen.pc = "status"
    /\ IF Dirty
       THEN Fail
       ELSE /\ gen' = [gen EXCEPT !.pc = "read",
                        !.listing = Tracked]
            /\ UNCHANGED art
    /\ GenGoes

\* The files are read one after the other, long after the status was clean.
ReadSource ==
    /\ gen.pc = "read"
    /\ LET f == Head(gen.listing)
           read == AndRead(gen.read, f, repo.work[f])
       IN  IF f \notin DOMAIN repo.work THEN Fail
           ELSE /\ UNCHANGED art
                /\ gen' = IF Len(gen.listing) > 1
                          THEN [gen EXCEPT !.listing = Tail(gen.listing), !.read = read]
                          ELSE [Idle EXCEPT
                                !.pc = "open", !.commit = gen.commit, !.then = "triage",
                                !.todo = <<<<"findings", FindingsFile(gen.commit, read)>>,
                                           <<"notes", NotesFile(read)>>,
                                           <<"summary", Summary(gen.commit, read)>>>>]
    /\ GenGoes

\* The findings are lines, and a torn file of them may be read up to any source.
TornFindings(F) ==
    {[commit |-> F.commit,
      of |-> [f \in {Order[m] : m \in 1..n} \cap DOMAIN F.of |-> F.of[f]]] :
        n \in 0..(Len(Order) - 1)} \ {F}

OpenArtifact ==
    /\ gen.pc = "open"
    /\ LET a == gen.todo[1][1]
       IN  \E t \in IF a = "findings" THEN TornFindings(gen.todo[1][2]) ELSE {Torn} :
               art' = [art EXCEPT ![a] = t]
    /\ gen' = [gen EXCEPT !.pc = "write"]
    /\ GenGoes

\* A bug: the last artifact of a command is still to be written when it goes on.
KeepLast(todo) == IF Len(todo) > 1 THEN Tail(todo) ELSE todo

Written(todo) == Tail(todo)

WriteArtifact ==
    /\ gen.pc = "write"
    /\ art' = [art EXCEPT ![gen.todo[1][1]] = gen.todo[1][2]]
    /\ gen' = IF Len(gen.todo) > 1
              THEN [gen EXCEPT !.pc = "open", !.todo = Written(gen.todo)]
              ELSE [Idle EXCEPT !.pc = gen.then, !.todo = Written(gen.todo)]
    /\ GenGoes

Triage ==
    /\ gen.pc = "triage"
    /\ IF RulesFit(art.findings, inputs.rules) /\ ReviewFits(art.findings, inputs.review)
       THEN /\ UNCHANGED art
            /\ gen' = [Idle EXCEPT
                       !.pc = "open", !.then = "compare",
                       !.todo = <<<<"pointer", PointerTriage(art.findings, inputs.rules)>>,
                                  <<"ffi", FfiTriage(art.findings, inputs.review)>>>>]
       ELSE Fail
    /\ GenGoes

Compare ==
    /\ gen.pc = "compare"
    /\ IF DeltaFits(inputs.contract, art.summary)
       THEN /\ UNCHANGED art
            /\ gen' = [Idle EXCEPT
                       !.pc = "open",
                       !.todo = <<<<"delta", PinDelta(inputs.contract, art.summary,
                                                      art.findings, art.pointer, art.ffi)>>>>]
       ELSE Fail
    /\ GenGoes

WriteClosure ==
    /\ gen.pc = "idle"
    /\ ClosureFits(inputs.manifest, art.findings)
    /\ gen' = [Idle EXCEPT
               !.pc = "open",
               !.todo = <<<<"closure", Closure(inputs.manifest, art.findings)>>>>]
    /\ UNCHANGED art /\ GenGoes

-----------------------------------------------------------------------------
(* The check script: what it reads, in its order, and what it requires of   *)
(* all that it has read so far.                                             *)

Reads ==
    <<"ledger", "summary", "findings", "notes", "checkout", "sources", "contract",
      "artifacts", "delta", "inventory", "pointer", "ffi", "reviewed", "manifest",
      "lines", "closure">>

Read(name) ==
    CASE name = "ledger" -> ledger
      [] name \in {"summary", "findings", "notes", "delta", "pointer", "ffi", "closure"} ->
             art[name]
      [] name \in {"inventory", "lines"} -> art.findings
      [] name = "checkout" -> [head |-> repo.head, dirty |-> Dirty,
                               listing |-> Listing(repo.work)]
      [] name = "sources" -> repo.work
      [] name = "artifacts" -> [a \in Recorded |-> art[a]]
      [] name \in {"contract", "manifest"} -> inputs[name]
      [] name = "reviewed" -> [rules |-> inputs.rules, review |-> inputs.review]

\* What validate_local_entry requires before any artifact is read.
EntryAccepted(e) ==
    /\ e.state = "confirmed_divergence" => e.observed /\ e.enumerated /\ e.files # {}
    /\ e.resolved => /\ e.state \in {"confirmed_divergence", "equivalent_behavior"}
                     /\ e.observed /\ e.remedied

\* The sources of the findings that an entry of the ledger selects.
Selected(e, F, pointer, ffi) ==
    IF e.selector.by = "categories"
    THEN {x.source : x \in {y \in Lines(F) : y.category \in e.selector.values}}
    ELSE IF e.selector.by = "triage_dispositions"
    THEN {r.finding.source : r \in {q \in pointer.records : q.disposition \in e.selector.values}}
    ELSE {r.finding.source : r \in {q \in ffi.records : q.ledger \in e.selector.values}}

EntryCovered(e, F, pointer, ffi) ==
    IF e.selector.by = "source_contract"
    THEN e.enumerated /\ e.files = e.selector.values
    ELSE /\ Selected(e, F, pointer, ffi) # {}
         /\ e.enumerated => e.files = Selected(e, F, pointer, ffi)

SourcesHold(s) ==
    \A f \in DOMAIN s.findings.of :
        f \in DOMAIN s.sources /\ s.sources[f] = s.findings.of[f]

ContractHolds(s) ==
    /\ s.ledger.selected = s.summary.commit
    /\ s.ledger.development # s.ledger.selected
    /\ s.ledger.contract = s.contract
    /\ s.contract.selected = s.ledger.selected
    /\ s.contract.comparison = s.ledger.development

DeltaHolds(s) ==
    /\ s.delta # Torn
    /\ s.delta.contract = s.ledger.contract
    /\ s.delta.selected = s.ledger.selected
    /\ s.delta.comparison = s.ledger.development
    /\ s.delta.findings = s.summary.findings
    /\ s.delta.totals = Totals(s.summary)
    /\ s.delta.matched + Cardinality(s.delta.comparisonOnly) = Cardinality(Comparison.keys)
    /\ s.delta.matched + Cardinality(s.delta.selectedOnly) = s.delta.totals.findings

\* Each record is about a finding of its kind, by its ID, place and category or
\* command, and each finding has one record.
Covers(document, findings) ==
    /\ {r.finding : r \in document.records} = findings
    /\ Cardinality(document.records) = Cardinality(findings)

\* Each ledger ID is used once; the generator does not look at that.
LedgersDiffer(ffi) ==
    Cardinality({r.ledger : r \in ffi.records}) = Cardinality(ffi.records)

\* A bug: the triage is not compared with the rules and the review of today.
RulesForgotten(s) ==
    /\ Covers(s.pointer, Pointers(s.findings))
    /\ Covers(s.ffi, CustomCalls(s.findings))
    /\ LedgersDiffer(s.ffi)
    /\ \A e \in s.ledger.entries : EntryCovered(e, s.findings, s.pointer, s.ffi)

TriageHolds(s) ==
    /\ s.pointer.rules = s.reviewed.rules
    /\ s.ffi.review = s.reviewed.review
    /\ Covers(s.pointer, Pointers(s.findings))
    /\ Covers(s.ffi, CustomCalls(s.findings))
    /\ LedgersDiffer(s.ffi)
    /\ \A e \in s.ledger.entries : EntryCovered(e, s.findings, s.pointer, s.ffi)

ClosureHolds(s) ==
    /\ ClosureFits(s.manifest, s.lines)
    /\ s.closure = Closure(s.manifest, s.lines)

Holds(name, s) ==
    CASE name = "ledger" -> \A e \in s.ledger.entries : EntryAccepted(e)
      [] name = "summary" -> s.summary # Torn
      [] name = "findings" ->
             /\ s.findings = s.summary.findings
             /\ Counts(s.findings) = s.summary.counts
      [] name = "notes" -> s.notes # Torn /\ NoteCounts(s.notes) = s.summary.notes
      [] name = "checkout" -> /\ s.checkout.head = s.summary.commit
                              /\ s.checkout.dirty = s.summary.dirty
                              /\ s.checkout.listing = s.summary.listing
      [] name = "sources" -> SourcesHold(s)
      [] name = "contract" -> ContractHolds(s)
      [] name = "artifacts" -> s.ledger.artifacts = s.artifacts
      [] name = "delta" -> DeltaHolds(s)
      [] name \in {"pointer", "ffi"} -> s[name] # Torn /\ s[name].findings = s.inventory
      [] name = "reviewed" -> TriageHolds(s)
      [] name = "closure" -> ClosureHolds(s)
      [] OTHER -> TRUE

-----------------------------------------------------------------------------
(* Properties about a finished check speak of what it has read.            *)

Accepted == chk.result = "accepted"

\* What the generator would write now is what is on disk and in the ledger.
InStep ==
    /\ ~Dirty /\ repo.head = inputs.scope
    /\ art = Generated(repo.head, repo.work, inputs)
    /\ ledger = Provenance(inputs, art, ledger.entries)
    /\ RulesFit(art.findings, inputs.rules) /\ ReviewFits(art.findings, inputs.review)
    /\ DeltaFits(inputs.contract, art.summary) /\ ClosureFits(inputs.manifest, art.findings)
    /\ inputs.contract.comparison # inputs.contract.selected
    /\ LedgersDiffer(art.ffi)
    /\ \A e \in ledger.entries :
           EntryAccepted(e) /\ EntryCovered(e, art.findings, art.pointer, art.ffi)

StartCheck ==
    /\ chk.result = "none"
    /\ chk' = [result |-> "running", seen |-> <<>>, quiet |-> InStep]
    /\ UNCHANGED <<repo, inputs, art, ledger, gen, budget>>

CheckStep ==
    /\ chk.result = "running"
    /\ LET name == Reads[Cardinality(DOMAIN chk.seen) + 1]
           seen == AndRead(chk.seen, name, Read(name))
       IN  chk' = IF ~Holds(name, seen) THEN [NoCheck EXCEPT !.result = "refused",
                                                            !.quiet = chk.quiet]
                  ELSE [chk EXCEPT !.seen = seen,
                                   !.result = IF name = "closure" THEN "accepted"
                                                                  ELSE "running"]
    /\ UNCHANGED <<repo, inputs, art, ledger, gen, budget>>

-----------------------------------------------------------------------------
(* What happens around the scripts. *)

World == budget > 0 /\ budget' = budget - 1 /\ Disturb /\ UNCHANGED art

Edit(f, t) ==
    /\ World
    /\ f \in DOMAIN repo.work
    /\ repo' = [repo EXCEPT !.work[f] = t]
    /\ UNCHANGED <<inputs, ledger, gen>>

CheckOut(c) ==
    /\ World
    /\ repo' = [head |-> c, work |-> Tree(c)]
    /\ UNCHANGED <<inputs, ledger, gen>>

Amend(field, value) ==
    /\ World
    /\ inputs' = [inputs EXCEPT ![field] = value]
    /\ UNCHANGED <<repo, ledger, gen>>

\* Recorded with no script at work.
Record ==
    /\ gen.pc = "idle" /\ chk.result = "none"
    /\ ledger' = Provenance(inputs, art, ledger.entries)
    /\ UNCHANGED <<repo, inputs, art, gen, chk, budget>>

KillGenerator ==
    /\ World
    /\ gen.pc # "idle"
    /\ gen' = Idle
    /\ UNCHANGED <<repo, inputs, ledger>>

Next ==
    \/ StartUpdate \/ CheckHead \/ CheckStatus \/ ReadSource
    \/ OpenArtifact \/ WriteArtifact \/ Triage \/ Compare
    \/ WriteClosure
    \/ StartCheck \/ CheckStep
    \/ \E edit \in Edits : Edit(edit[1], edit[2])
    \/ \E c \in Changes : CheckOut(c)
    \/ \E amendment \in Amendments : Amend(amendment[1], amendment[2])
    \/ Record \/ KillGenerator

Spec == Init /\ [][Next]_vars

-----------------------------------------------------------------------------

\* The type of the state: the scripts are at positions that they have, and the
\* generator has something to write while it writes, and only then.
TypeOK ==
    /\ repo.head \in Commits
    /\ \A f \in DOMAIN repo.work : repo.work[f] \in Contents
    /\ DOMAIN inputs = {"scope", "contract", "rules", "review", "manifest"}
    /\ DOMAIN art = Artifacts
    /\ DOMAIN ledger.artifacts = Recorded
    /\ gen.pc \in {"idle", "head", "status", "read", "open", "write", "triage", "compare"}
    /\ gen.pc \in {"open", "write"} <=> gen.todo # <<>>
    /\ chk.result \in {"none", "running", "refused", "accepted"}
    /\ DOMAIN chk.seen \subseteq Range(Reads)
    /\ chk.quiet \in BOOLEAN
    /\ budget \in Nat

\* What an accepted check has read fits together: the reviews are those of the
\* findings under the rules and the review of today, the delta is that of the
\* findings, and the closure that of the findings and the manifest unless the
\* findings changed after they were validated; whatever was killed, edited,
\* regenerated or recorded between any two of the steps.  The triage may be that
\* of a later findings file with the same findings to review: the file is read
\* a second time before the triage (load_and_validate_triage, 415).
OneGeneration ==
    Accepted =>
        LET s == chk.seen
        IN  /\ s.pointer.records = PointerTriage(s.findings, s.reviewed.rules).records
            /\ s.ffi.records = FfiTriage(s.findings, s.reviewed.review).records
            /\ s.lines = s.findings => s.closure = Closure(s.manifest, s.findings)
            /\ s.delta.selectedOnly = {StableKey(x) : x \in Lines(s.findings)} \ Comparison.keys
            /\ s.delta.comparisonOnly = Comparison.keys \ {StableKey(x) : x \in Lines(s.findings)}

\* Each finding of an accepted check is at a place that is code, and not text
\* of a comment, a literal or a quotation, in the source that was hashed.
FindingsAreCode ==
    Accepted =>
        LET s == chk.seen
        IN  \A x \in Lines(s.findings) :
               /\ x.at \in LexedCode(Dialect[x.source], Text[s.sources[x.source]])
               /\ x.commit = s.checkout.head

\* In a source that has a finding, an accepted check leaves no physical
\* equality and no custom call of the code unreviewed, and none twice.
ReviewedOnce ==
    Accepted =>
        LET s == chk.seen
        IN  \A f \in DOMAIN s.findings.of :
               \A i \in ReviewWords(Dialect[f], Text[s.sources[f]]) :
                   Cardinality({r \in s.pointer.records \cup s.ffi.records :
                                   r.finding.source = f /\ r.finding.at = i}) = 1

\* The check never refuses what the generator writes, unless two custom calls
\* share a ledger ID: when all is in step at its start and nothing happens
\* meanwhile, it accepts.
InStepIsAccepted == chk.result = "refused" => ~chk.quiet
=============================================================================

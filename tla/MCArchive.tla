------------------------------ MODULE MCArchive ------------------------------
(***************************************************************************)
(* ArchivePublication with the contents spelled out: two targets that      *)
(* share one of three files, three theorem requests, and one version of    *)
(* the evidence for each way in which it may be wrong.  Version v differs  *)
(* from "good" in the one thing it is named for, and everything that       *)
(* states the digest of a changed file states the digest of the change.    *)
(***************************************************************************)
EXTENDS ArchivePublication

Genuine == {"good", "otherCommit", "otherRun"}

MCVersions ==
    Genuine \cup
    {"targetTwice", "hashDiffers", "openTheorem", "fourAxioms", "requestOrder",
     "rowFails", "rowsSwapped", "exitCode", "processTwice", "processShared",
     "suiteTwice", "runLate", "runEarly", "phaseSum", "peakDiffers", "preDiffers",
     "rowIdentity", "dirtyRun", "noWall", "notClosed", "totalDiffers", "copiedRun",
     "wireBeforeLink", "wireAfterEnd", "twoSuites", "foreignWire", "noWitness",
     "witnessLate", "twoStarts", "wireDiffers", "stateTwice", "markersDiffer",
     "candidateApproval", "nonceTwice", "planHead", "planSources", "planCollector",
     "requestDiffers", "replayDiffers", "identityDiffers", "pathTwice",
     "deltaMissing", "oldInventory", "oneReference",
     "linkedHead", "outputDiffers", "patchDiffers", "executableDiffers",
     "receiptReports", "receiptNonces", "receiptClosure", "receiptTools"}

MCChanges == {"good", "otherCommit"}

MCBudget(v) == IF v = "good" THEN 3 ELSE 1

When(condition, x, y) == IF condition THEN x ELSE y

MCCommit(r, v) ==
    IF v = "otherCommit" THEN "commit2" ELSE "commit1"

Tools(v) ==
    [finalizer |-> When(v = "otherCommit", "finalizer2", "finalizer1"),
     python |-> "python", git |-> "git"]

Text(v, f) == IF v = "otherCommit" /\ f = "lib" THEN "lib2" ELSE f

Files == <<<<"lib", "a">>, <<"lib", "b">>>>

Requests == <<<<"t1", "t2">>, <<"t3">>>>

TargetNames(v) == <<"A", When(v = "targetTwice", "A", "B")>>

Theorem(v, n) ==
    [name |-> n, statement |-> When(v = "otherCommit", "new", "old"),
     hypotheses |-> When(v = "openTheorem", 1, 0),
     axioms |-> "eta", axiomCount |-> When(v = "fourAxioms", 4, 3)]

KernelState(v) ==
    [state |-> When(v = "otherCommit", "k2", "k1"), axioms |-> "eta",
     axiomCount |-> When(v = "fourAxioms", 4, 3)]

Serializer == "fingerprint"

Identity(v, i) ==
    [serializer |-> Serializer,
     theorems |->
        LET names == IF v = "requestOrder" THEN Reverse(Requests[i]) ELSE Requests[i] IN
        [k \in DOMAIN names |-> Theorem(v, names[k])],
     state |-> KernelState(v)]

Hash(v, i) ==
    [f \in ToSet(Files[i]) |->
        IF v = "hashDiffers" /\ i = 2 /\ f = "lib" THEN "lib2" ELSE Text(v, f)]

Inventory(v) ==
    [i \in 1..2 |->
        [name |-> TargetNames(v)[i], files |-> Files[i], hash |-> Hash(v, i),
         mapping |-> "audited", requests |-> Requests[i]]]

Validator(v) == When(v = "planCollector", "validator2", "validator1")

Policy(v) ==
    [head |-> "reference", deltas |-> When(v = "deltaMissing", <<"d1">>, <<"d1", "d2">>)]

ReferenceNonce(v, i, r) == <<"reference", i, When(v = "nonceTwice", 1, r)>>

Candidate(v, i, r) ==
    [status |-> "observed_uncompared", nonce |-> ReferenceNonce(v, i, r),
     theorems |->
        IF v = "identityDiffers" /\ r = 2
        THEN [k \in DOMAIN Requests[i] |-> [Theorem(v, Requests[i][k]) EXCEPT !.statement = "odd"]]
        ELSE Identity(v, i).theorems,
     state |-> KernelState(v)]

Request(v, i, r) ==
    IF v = "requestDiffers" /\ i = 1 /\ r = 1
    THEN <<TargetNames(v)[i], Files[i], <<"t3">>, Serializer, ReferenceNonce(v, i, r)>>
    ELSE RequestSource(Inventory(v)[i], Serializer, ReferenceNonce(v, i, r))

Plan(v, i, r) ==
    [nonce |-> ReferenceNonce(v, i, r),
     head |-> When(v = "planHead" /\ r = 2, "elsewhere", "reference"),
     clean |-> TRUE, fresh |-> TRUE, target |-> TargetNames(v)[i],
     requests |-> Requests[i], collector |-> "validator1", serializer |-> Serializer,
     sources |->
        [k \in DOMAIN Files[i] |->
            <<Files[i][k],
              IF v = "planSources" /\ r = 2 THEN "older" ELSE Hash(v, i)[Files[i][k]]>>],
     policy |-> Policy(v), request |-> Request(v, i, r)]

Transcript(v, i, r) ==
    [nonce |-> ReferenceNonce(v, i, r),
     theorems |->
        LET replayed(theorems) ==
                IF v = "replayDiffers" /\ i = 1 /\ r = 2
                THEN [theorems EXCEPT ![1].statement = "odd"] ELSE theorems IN
        replayed(Candidate(v, i, r).theorems),
     state |-> KernelState(v)]

Artifact(v, i, r, kind) ==
    CASE kind = "candidate" -> Candidate(v, i, r)
      [] kind = "plan" -> Plan(v, i, r)
      [] kind = "request" -> Request(v, i, r)
      [] kind = "transcript" -> Transcript(v, i, r)
      [] kind = "contract" -> Policy(v)

ArtifactPath(v, i, r, kind) ==
    IF kind = "contract" THEN <<"contract">>
    ELSE <<kind, i, When(v = "pathTwice" /\ kind = "transcript", 1, r)>>

References(v) ==
    [p \in {ArtifactPath(v, i, r, k) : i \in 1..2, r \in Runs, k \in AllKinds} |->
        LET x == CHOOSE x \in (1..2) \X Runs \X AllKinds :
                    ArtifactPath(v, x[1], x[2], x[3]) = p IN
        Artifact(v, x[1], x[2], x[3])]

Approval(v) ==
    [status |-> When(v = "candidateApproval", "candidate", "approved"),
     promotion |-> TRUE, reviewed |-> TRUE,
     inventory |-> Inventory(When(v = "oldInventory", "otherCommit", v)),
     serializer |-> Serializer, policy |-> Policy(v),
     targets |-> [i \in 1..2 |->
        [name |-> TargetNames(v)[i], identity |-> Identity(v, i),
         runs |-> [r \in 1..When(v = "oneReference", 1, 2) |->
            [nonce |-> ReferenceNonce(v, i, r), head |-> "reference",
             identity |-> Identity(v, i),
             artifacts |-> [k \in AllKinds |->
                [path |-> ArtifactPath(v, i, r, k),
                 text |-> References(v)[ArtifactPath(v, i, r, k)]]]]]]]]

Contract(v, approval) ==
    [manifest |-> [i \in 1..2 |->
        [name |-> TargetNames(v)[i], files |-> Files[i], hash |-> Hash(v, i),
         skip |-> FALSE, mapping |-> "audited", requests |-> Requests[i],
         declared |-> Files[i][2], identity |-> Identity(v, i),
         approval |-> approval]],
     serializer |-> Serializer, regression |-> "regression",
     provenance |-> "provenance", launcher |-> "launcher"]

SourceTexts(v) == [f \in {"lib", "a", "b"} |-> Text(v, f)]

Outputs(v) ==
    [cake |-> When(v = "otherCommit", "cake2", "cake1"),
     support |-> When(v = "outputDiffers", "support2", "support1"),
     bootstrap |-> "bootstrap", direct |-> "direct",
     patch |-> When(v = "patchDiffers", "patch2", "patch1")]

Linked(v) ==
    [head |-> When(v = "linkedHead", "commit9", MCCommit("candle", v)),
     outputs |-> [k \in LinkedOutputs |-> IF k = "support" THEN "support1" ELSE Outputs(v)[k]],
     manifest |-> "direct", patch |-> "patch1", bootstrap |-> "bootstrap"]

\* What both runs start from, each part made once.
Inputs(v) ==
    LET withContract(approval, contract) ==
            [approval |-> approval, contract |-> contract, linked |-> Linked(v),
             closure |-> Closure([contract |-> contract, sources |-> SourceTexts(v)])]
        withApproval(approval) == withContract(approval, Contract(v, approval)) IN
    withApproval(Approval(v))

----------------------------------------------------------------------------
(* The two runs                                                            *)

\* A copied run has everything of the first one.
Run(v, r) == IF v = "copiedRun" THEN 1 ELSE IF v = "otherRun" /\ r = 2 THEN 3 ELSE r

SuiteNonce(v, r) == <<"suite", IF v = "suiteTwice" THEN 1 ELSE Run(v, r)>>

ProcessNonce(v, r, i) ==
    IF v = "processTwice" /\ r = 1 THEN <<"process", 1, 1>>
    ELSE IF v = "processShared" /\ i = 1 THEN <<"process", 1, 1>>
    ELSE <<"process", Run(v, r), i>>

First1(r, i) == r = 1 /\ i = 1

Odd(identity) == [identity EXCEPT !.theorems[1].statement = "odd"]

RowIdentity(v, r, i) ==
    LET reported(identity) == When(v = "rowIdentity" /\ First1(r, i), Odd(identity), identity) IN
    reported(Identity(v, i))

Line(space, text) == [space |-> space, text |-> text]

Wires(v, r, i) ==
    LET printed(identity) ==
            When(v = "wireDiffers" /\ First1(r, i), Odd(identity), identity).theorems
        lines(theorems) == [k \in DOMAIN theorems |-> Line("wire", theorems[k])] IN
    lines(printed(RowIdentity(v, r, i)))

\* The transcript that shows the wires.
LogWith(v, r, i, wires) ==
    LET odd(name) == v = name /\ First1(r, i)
        mark(step) == Line("process", <<SuiteNonce(v, r), ProcessNonce(v, r, i), step>>)
        witness == Line("witness", "PASS")
        link == Line("linked", Linked(v))
        early == When(odd("wireBeforeLink"), 1, 0)
        late == When(odd("wireAfterEnd"), 1, 0)
        state == Line("state", KernelState(v)) IN
    <<Line("output", "boot"), Line("suite", SuiteNonce(v, r)), mark("START")>>
    \o SubSeq(wires, 1, early)
    \o When(odd("noWitness"), <<>>, When(odd("witnessLate"), <<link>>, <<witness>>))
    \o When(odd("witnessLate"), <<witness>>, <<link>>)
    \o SubSeq(wires, 1 + early, Len(wires) - late)
    \o [k \in 1..When(odd("stateTwice"), 2, 1) |-> state]
    \o <<mark("COMPLETE")>> \o SubSeq(wires, Len(wires) - late + 1, Len(wires))
    \o When(odd("twoSuites"), <<Line("suite", <<"suite", 9>>)>>, <<>>)
    \o When(odd("twoStarts"),
            <<Line("process", <<SuiteNonce(v, r), <<"process", 9, 9>>, "START">>)>>, <<>>)
    \o When(odd("foreignWire"), <<Line("foreign", "V1")>>, <<>>)

Log(v, r, i) == LogWith(v, r, i, Wires(v, r, i))

LogsOf(v, r) ==
    LET logs(run) == [i \in 1..2 |-> Log(v, run, i)]
        ordered(all) == When(v = "rowsSwapped" /\ r = 1, Reverse(all), all) IN
    ordered(logs(Run(v, r)))

Executable(v) == IF v = "executableDiffers" THEN "cake9" ELSE Outputs(v).cake

StateOf(v, inputs) ==
    [head |-> MCCommit("candle", v), clean |-> TRUE, linked |-> inputs.linked,
     exe |-> Outputs(v).cake, contract |-> inputs.contract, closure |-> inputs.closure]

Row(v, r, i, inputs, log) ==
    LET odd(name) == v = name /\ First1(r, i) IN
    [name |-> TargetNames(v)[i], files |-> Files[i],
     status |-> When(odd("rowFails"), "FAIL", "PASS"),
     boot |-> 1, hol |-> 2, test |-> 3, fingerprint |-> 1,
     total |-> When(odd("phaseSum"), 6, 7), rss |-> 4,
     treeRss |-> 5,
     sampling |-> [samples |-> 2, completed |-> TRUE, rss |-> 4,
                   treeRss |-> When(odd("peakDiffers"), 4, 5)],
     matched |-> TRUE, identity |-> RowIdentity(v, r, i), approval |-> inputs.approval,
     suite |-> SuiteNonce(v, r), process |-> ProcessNonce(v, r, i),
     exit |-> When(odd("exitCode"), 1, 0),
     started |-> When(odd("runEarly"), 1, 10 * r + i),
     completed |-> When(odd("runLate"), 90, 10 * r + i + 4),
     linked |-> inputs.linked,
     pre |-> [StateOf(v, inputs) EXCEPT !.exe = When(odd("preDiffers"), "cake9", @)],
     post |-> StateOf(v, inputs),
     markers |->
        IF odd("markersDiffer") THEN [suite |-> 1, start |-> 2, linked |-> 3, complete |-> 4]
        ELSE MarkerLines(log),
     transcript |-> log]

ReportWith(v, r, inputs, rows) ==
    LET odd(name) == v = name /\ r = 1 IN
    [head |-> MCCommit("candle", v), started |-> 10 * r, generated |-> 10 * r + 8,
     jobs |-> 2,
     policy |-> [inactivity |-> 5, wall |-> When(odd("noWall"), 0, 50),
                 progressExtends |-> FALSE],
     clean |-> ~odd("dirtyRun"), closed |-> ~odd("notClosed"),
     contract |-> inputs.contract, closure |-> inputs.closure, approval |-> inputs.approval,
     evidence |-> [nonce |-> SuiteNonce(v, r), linked |-> inputs.linked,
                   closure |-> inputs.closure, approval |-> inputs.approval],
     linked |-> inputs.linked, exe |-> Executable(v),
     results |-> When(v = "rowsSwapped" /\ r = 1, Reverse(rows), rows),
     sum |-> When(odd("totalDiffers"), 15, rows[1].total + rows[2].total)]

ReportOf(v, run, inputs) ==
    LET report(r) ==
            ReportWith(v, r, inputs, [i \in 1..2 |-> Row(v, r, i, inputs, Log(v, r, i))]) IN
    report(Run(v, run))

----------------------------------------------------------------------------
(* The receipt, and the content of every source at every version           *)

\* The receipt for the inputs and the reports of all versions.
Receipt(v, inputs, reports) ==
    [reports |-> <<reports[v][1],
                   reports[When(v = "receiptReports", "otherRun", v)][2]>>,
     nonces |-> <<SuiteNonce(v, 1),
                  SuiteNonce(When(v = "receiptNonces", "otherRun", v), Run(v, 2))>>,
     linked |-> Linked(v),
     closure |-> inputs[When(v = "receiptClosure", "otherCommit", v)].closure,
     semantics |-> ManifestSemantics(inputs[v].contract.manifest),
     approval |-> inputs[v].approval,
     project |-> [head |-> MCCommit("project", v), finalizer |-> Tools(v).finalizer],
     tools |-> [python |-> When(v = "receiptTools", "python9", "python"), git |-> "git"]]

ContentOf(v, inputs, reports) ==
    [tools |-> Tools(v), receipt |-> Receipt(v, inputs, reports),
     report1 |-> reports[v][1], report2 |-> reports[v][2],
     contract |-> inputs[v].contract, validator |-> Validator(v),
     sources |-> SourceTexts(v), approval |-> inputs[v].approval,
     references |-> References(v),
     logs1 |-> LogsOf(v, 1), logs2 |-> LogsOf(v, 2),
     linked |-> inputs[v].linked, outputs |-> Outputs(v)]

Contents ==
    LET withReports(inputs, reports) ==
            [v \in MCVersions |-> ContentOf(v, inputs, reports)]
        withInputs(inputs) ==
            withReports(inputs,
                [v \in MCVersions |-> [r \in Runs |-> ReportOf(v, r, inputs[v])]]) IN
    withInputs([v \in MCVersions |-> Inputs(v)])

MCContent(s, v) == Contents[v][s]

\* The genuine versions are what their receipts fix.
ASSUME GenuineAssumption == \A v \in Genuine : OwnEvidence(v)

Symmetry == Permutations(Finalizers)

MCDeltaPaths == {"d1", "d2"}

=============================================================================

---------------------------- MODULE GreatEvidence ----------------------------
(***************************************************************************)
(* What the report finalizer requires of the evidence it archives: two     *)
(* schema-4 reports of complete Great100 runs, their transcripts, the      *)
(* committed execution contract and source closure, the independently      *)
(* reviewed approval with its reference runs, the linked build, and the    *)
(* external receipt that authorizes all of it.                             *)
(*                                                                         *)
(* The evidence is a bundle b, a record with one field per source of the   *)
(* finalizer.  SHA-256 is taken to be injective: where a file states the   *)
(* digest of another file, the model states the content itself.  Shapes of *)
(* JSON objects, formats of dates and digests and wording are left out.    *)
(* The counts 65, 66 and 97 of the code are constants.                     *)
(***************************************************************************)
EXTENDS Integers, Sequences, FiniteSets, SequencesExt

CONSTANTS
    TargetCount,   \* targets of the manifest (65)
    SourceCount,   \* distinct files of the source closure (66)
    RequestCount,  \* theorem requests of the manifest (97)
    DeltaPaths     \* the compatibility deltas the policy must list (three)

ASSUME EvidenceAssumption ==
    /\ TargetCount \in Nat \ {0}
    /\ SourceCount \in Nat
    /\ RequestCount \in Nat

Runs == {1, 2}

Report(b, r) == IF r = 1 THEN b.report1 ELSE b.report2

Logs(b, r) == IF r = 1 THEN b.logs1 ELSE b.logs2

Manifest(b) == b.contract.manifest

----------------------------------------------------------------------------
(* Theorem and state records                                               *)

\* validate_theorem_record, and the closedness of a wire record.
ClosedTheorem(t) == t.hypotheses = 0 /\ t.axiomCount = 3

\* validate_post_state.
ThreeAxiomState(p) == p.axiomCount = 3

AxiomSets(identity) ==
    {<<t.axioms, t.axiomCount>> : t \in ToSet(identity.theorems)}
        \cup {<<identity.state.axioms, identity.state.axiomCount>>}

ClosedIdentity(identity) ==
    /\ \A t \in ToSet(identity.theorems) : ClosedTheorem(t)
    /\ ThreeAxiomState(identity.state)

TheoremNames(identity) ==
    [i \in DOMAIN identity.theorems |-> identity.theorems[i].name]

----------------------------------------------------------------------------
(* Manifest and source closure                                             *)

\* manifest_semantics of every target.
ManifestSemantics(m) ==
    [i \in DOMAIN m |-> [name |-> m[i].name, identity |-> m[i].identity]]

LoadFiles(m) == FlattenSeq([i \in DOMAIN m |-> m[i].files])

\* approval_inventory_contract: the manifest without its identities.
ApprovalInventory(m) ==
    [i \in DOMAIN m |->
        [name |-> m[i].name, files |-> m[i].files, hash |-> m[i].hash,
         mapping |-> m[i].mapping, requests |-> m[i].requests]]

\* ordered_files: every file once, where it is first loaded.
FirstLoaded(m) ==
    FoldLeft(LAMBDA seen, f : IF Contains(seen, f) THEN seen ELSE Append(seen, f),
             <<>>, LoadFiles(m))

TargetAccepted(t) ==
    /\ t.files # <<>>
    /\ ~t.skip
    /\ DOMAIN t.hash = ToSet(t.files)
    /\ t.mapping = "audited"
    /\ t.requests # <<>>
    /\ t.declared \in ToSet(t.files)
    /\ TheoremNames(t.identity) = t.requests
    /\ ClosedIdentity(t.identity)

\* The checks of validate_manifest_and_capture_closure before its captures.
ManifestAccepted(b) ==
    LET m == Manifest(b) IN
    /\ Len(m) = TargetCount
    /\ \A i \in DOMAIN m : TargetAccepted(m[i])
    /\ \A i, j \in DOMAIN m :
        \A f \in ToSet(m[i].files) \cap ToSet(m[j].files) :
            m[i].hash[f] = m[j].hash[f]
    /\ Cardinality({m[i].name : i \in DOMAIN m}) = TargetCount
    /\ Cardinality(ToSet(LoadFiles(m))) = SourceCount
    /\ Len(FlattenSeq([i \in DOMAIN m |-> m[i].requests])) = RequestCount
    /\ {m[i].identity.serializer : i \in DOMAIN m} = {b.contract.serializer}
    /\ Cardinality({m[i].approval : i \in DOMAIN m}) = 1
    /\ Cardinality(UNION {AxiomSets(m[i].identity) : i \in DOMAIN m}) = 1

\* The captured files are the ones the targets load, as they were audited.
SourcesMatch(b) ==
    /\ DOMAIN b.sources = UNION {ToSet(Manifest(b)[i].files) : i \in DOMAIN Manifest(b)}
    /\ \A i \in DOMAIN Manifest(b) :
        \A f \in ToSet(Manifest(b)[i].files) : b.sources[f] = Manifest(b)[i].hash[f]

\* The projection whose digest names the closure.
Closure(b) ==
    LET m == Manifest(b) IN
    [targets |-> [i \in DOMAIN m |->
        [name |-> m[i].name, files |-> m[i].files, requests |-> m[i].requests]],
     files |-> [k \in DOMAIN FirstLoaded(m) |->
        <<FirstLoaded(m)[k], b.sources[FirstLoaded(m)[k]]>>]]

----------------------------------------------------------------------------
(* Transcripts: sequences of lines [space, text]; the protocol spaces are  *)
(* the line prefixes the finalizer reserves, "foreign" is a fingerprint    *)
(* record of another version, "output" is everything else.                 *)

At(log, space) == {i \in DOMAIN log : log[i].space = space}

\* The lines of a protocol space, in order.
Lines(log, space) ==
    [k \in 1..Cardinality(At(log, space)) |->
        log[CHOOSE i \in At(log, space) :
                Cardinality({j \in At(log, space) : j <= i}) = k].text]

First(S) == CHOOSE i \in S : \A j \in S : i <= j

Final(S) == CHOOSE i \in S : \A j \in S : j <= i

\* Where the four markers stand in the transcript.
MarkerLines(log) ==
    [suite |-> First(At(log, "suite")), start |-> First(At(log, "process")),
     linked |-> First(At(log, "linked")), complete |-> Final(At(log, "process"))]

\* A bug: the fingerprints need only follow the start of the process.
PrintedAfterStart(log, markers) ==
    \A i \in At(log, "wire") \cup At(log, "state") :
        markers.start < i /\ i < markers.complete

\* Every fingerprint follows the linked marker and precedes the end.
PrintedAfterLink(log, markers) ==
    \A i \in At(log, "wire") \cup At(log, "state") :
        markers.linked < i /\ i < markers.complete

\* validate_transcript for the process p of suite n under linked record l.
TranscriptAccepted(log, n, p, l, identity, markers) ==
    /\ Lines(log, "suite") = <<n>>
    /\ Lines(log, "process") = <<<<n, p, "START">>, <<n, p, "COMPLETE">>>>
    /\ Lines(log, "linked") = <<l>>
    /\ Lines(log, "witness") = <<"PASS">>
    /\ MarkerLines(log) = markers
    /\ markers.suite < markers.start
    /\ markers.start < First(At(log, "witness"))
    /\ First(At(log, "witness")) < markers.linked
    /\ PrintedAfterLink(log, markers)
    /\ \A i \in At(log, "wire") : ClosedTheorem(log[i].text)
    /\ \A i \in At(log, "state") : ThreeAxiomState(log[i].text)
    /\ Lines(log, "wire") = identity.theorems
    /\ Lines(log, "state") = <<identity.state>>
    /\ At(log, "foreign") = {}

----------------------------------------------------------------------------
(* Reports                                                                 *)

\* validate_timeout_policy: a total wall is mandatory, and progress never
\* extends it.
PolicyAccepted(p) == p.inactivity > 0 /\ p.wall > 0 /\ ~p.progressExtends

\* The part of validate_report_and_capture_logs before the result table; exe is
\* the executable as it lies in the build directory now.
HeaderAccepted(b, rep, exe) ==
    /\ rep.started < rep.generated
    /\ rep.jobs > 0
    /\ PolicyAccepted(rep.policy)
    /\ rep.clean
    /\ rep.closed
    /\ rep.contract = b.contract
    /\ rep.closure = Closure(b)
    /\ rep.approval = b.approval
    /\ rep.evidence =
        [nonce |-> rep.evidence.nonce, linked |-> rep.linked,
         closure |-> Closure(b), approval |-> b.approval]
    /\ rep.exe = exe

\* validate_runtime_state, for the states before and after the process.
RuntimeState(b, rep) ==
    [head |-> rep.head, clean |-> TRUE, linked |-> rep.linked, exe |-> rep.exe,
     contract |-> b.contract, closure |-> Closure(b)]

ResourcesAccepted(row) ==
    /\ row.rss > 0
    /\ row.treeRss >= row.rss
    /\ row.sampling.samples > 0
    /\ row.sampling.completed
    /\ row.sampling.rss = row.rss
    /\ row.sampling.treeRss = row.treeRss

\* The identities a passing row reports are the audited ones.
FingerprintsAccepted(b, row, t) ==
    /\ row.matched
    /\ row.identity = t.identity
    /\ row.approval = t.approval
    /\ t.approval = b.approval
    /\ ClosedIdentity(row.identity)

ProcessAccepted(b, rep, row) ==
    /\ row.suite = rep.evidence.nonce
    /\ row.exit = 0
    /\ rep.started <= row.started
    /\ row.started < row.completed
    /\ row.completed <= rep.generated
    /\ row.linked = rep.linked
    /\ row.pre = RuntimeState(b, rep)
    /\ row.post = RuntimeState(b, rep)

RowAccepted(b, rep, row, t, log) ==
    /\ row.name = t.name
    /\ row.status = "PASS"
    /\ row.files = t.files
    /\ row.total > 0
    /\ row.total = row.boot + row.hol + row.test + row.fingerprint
    /\ ResourcesAccepted(row)
    /\ FingerprintsAccepted(b, row, t)
    /\ ProcessAccepted(b, rep, row)
    /\ row.transcript = log
    /\ TranscriptAccepted(log, row.suite, row.process, row.linked, row.identity,
                          row.markers)

\* validate_report_and_capture_logs of run r.
RunAccepted(b, r, exe) ==
    LET rep == Report(b, r)
        rows == rep.results IN
    /\ HeaderAccepted(b, rep, exe)
    /\ Len(rows) = TargetCount
    /\ DOMAIN Logs(b, r) = 1..TargetCount
    /\ \A i \in 1..TargetCount :
        RowAccepted(b, rep, rows[i], Manifest(b)[i], Logs(b, r)[i])
    /\ Cardinality({rows[i].process : i \in 1..TargetCount}) = TargetCount
    /\ rep.sum = FoldLeft(LAMBDA acc, row : acc + row.total, 0, rows)

\* The comparisons of the two validated runs.
RunsAgree(b) ==
    /\ b.report1.evidence.nonce # b.report2.evidence.nonce
    /\ Cardinality({Report(b, r).results[i].process :
            r \in Runs, i \in 1..TargetCount}) = 2 * TargetCount
    /\ b.report1.generated # b.report2.generated
    /\ b.report1.exe = b.report2.exe
    /\ b.report1.jobs = b.report2.jobs
    /\ b.report1.policy = b.report2.policy
    /\ \A r \in Runs :
        [i \in 1..TargetCount |->
            [name |-> Report(b, r).results[i].name,
             identity |-> Report(b, r).results[i].identity]]
        = ManifestSemantics(Manifest(b))

----------------------------------------------------------------------------
(* The independent approval and its reference runs                         *)

ArtifactKinds == {"candidate", "plan", "request", "transcript"}

AllKinds == ArtifactKinds \cup {"contract"}

ArtifactPaths(a) ==
    {a.targets[i].runs[r].artifacts[k].path : i \in 1..TargetCount, r \in Runs, k \in AllKinds}

\* External: the request the captured validator generates for a target.
RequestSource(t, serializer, nonce) ==
    <<t.name, t.files, t.requests, serializer, nonce>>

\* External: what the captured validator reads out of a reference transcript.
ReplaysTo(transcript, candidate) ==
    /\ transcript.nonce = candidate.nonce
    /\ transcript.theorems = candidate.theorems
    /\ transcript.state = candidate.state

\* A bug: the selected sources are compared by path only.
SourcesNamed(plan, t) ==
    [k \in DOMAIN plan.sources |-> plan.sources[k][1]] = t.files

\* The selected sources of a plan are the audited ones of its target.
SourcesSelected(plan, t) ==
    plan.sources = [k \in DOMAIN t.files |-> <<t.files[k], t.hash[t.files[k]]>>]

\* validate_reference_plan_bindings.
PlanBinds(b, plan, candidate, run, t) ==
    /\ plan.nonce = run.nonce
    /\ candidate.nonce = run.nonce
    /\ plan.head = run.head
    /\ run.head = b.approval.policy.head
    /\ plan.clean
    /\ plan.fresh
    /\ plan.target = t.name
    /\ plan.requests = t.requests
    /\ plan.collector = b.validator
    /\ plan.serializer = b.contract.serializer
    /\ SourcesSelected(plan, t)
    /\ plan.policy = b.approval.policy

\* A bug: the identity of a candidate is not compared with the approved one.
CandidateNames(b, candidate, t, identity) ==
    /\ candidate.status = "observed_uncompared"
    /\ [k \in DOMAIN candidate.theorems |-> candidate.theorems[k].name] = t.requests
    /\ ClosedIdentity(identity)

\* validate_candidate_identity_projection.
CandidateProjects(b, candidate, t, identity) ==
    /\ candidate.status = "observed_uncompared"
    /\ [k \in DOMAIN candidate.theorems |-> candidate.theorems[k].name] = t.requests
    /\ identity = [serializer |-> b.contract.serializer,
                   theorems |-> candidate.theorems, state |-> candidate.state]
    /\ ClosedIdentity(identity)

\* One reference run of one target; stored are its captured artifacts.
ReferenceAccepted(b, run, t, identity) ==
    LET stored == [k \in ArtifactKinds |-> b.references[run.artifacts[k].path]]
        contract == b.references[run.artifacts["contract"].path] IN
    /\ run.identity = identity
    /\ \A k \in ArtifactKinds : stored[k] = run.artifacts[k].text
    /\ contract = run.artifacts["contract"].text
    /\ contract = b.approval.policy
    /\ PlanBinds(b, stored["plan"], stored["candidate"], run, t)
    /\ stored["plan"].request = stored["request"]
    /\ CandidateProjects(b, stored["candidate"], t, identity)
    /\ stored["request"] = RequestSource(t, b.contract.serializer, run.nonce)
    /\ ReplaysTo(stored["transcript"], stored["candidate"])

\* artifact_cache: a path serves one artifact, a source contract any number.
PathsServeOnce(a) ==
    \A i, j \in DOMAIN a.targets : \A r, q \in Runs : \A k, l \in AllKinds :
        LET one == a.targets[i].runs[r].artifacts[k]
            other == a.targets[j].runs[q].artifacts[l] IN
        /\ one.path = other.path
        /\ <<i, r, k>> # <<j, q, l>>
        => k = "contract" /\ l = "contract" /\ one.text = other.text

\* A bug: the reference runs are counted only.
TwoListed(t) == Len(t.runs) = 2

TwoRuns(t) == Len(t.runs) = 2 /\ t.runs[1].nonce # t.runs[2].nonce

\* validate_approval_and_capture and run_captured_reference_replay.
ApprovalAccepted(b) ==
    LET a == b.approval
        m == Manifest(b) IN
    /\ a.status = "approved"
    /\ a.promotion
    /\ a.reviewed
    /\ a.inventory = ApprovalInventory(m)
    /\ a.serializer = b.contract.serializer
    /\ Len(a.policy.deltas) = Cardinality(DeltaPaths)
    /\ ToSet(a.policy.deltas) = DeltaPaths
    /\ Len(a.targets) = TargetCount
    /\ \A i \in 1..TargetCount :
        LET t == a.targets[i] IN
        /\ [name |-> t.name, identity |-> t.identity] = ManifestSemantics(m)[i]
        /\ TwoRuns(t)
        /\ \A r \in Runs : ReferenceAccepted(b, t.runs[r], m[i], t.identity)
    /\ PathsServeOnce(a)
    /\ DOMAIN b.references = ArtifactPaths(a)

----------------------------------------------------------------------------
(* The linked build and the authorization                                  *)

\* What validate_linked_and_capture requires of the record itself.
LinkedAccepted(b) ==
    /\ b.linked = b.report1.linked
    /\ b.linked.head = b.report1.head

LinkedOutputs == {"cake", "bootstrap", "support"}

\* What it requires of the files the record lists.
OutputsAccepted(b) ==
    LET out == b.outputs
        record == b.linked IN
    /\ DOMAIN record.outputs = LinkedOutputs
    /\ [k \in LinkedOutputs |-> out[k]] = record.outputs
    /\ out["cake"] = b.report1.exe
    /\ out["direct"] = record.manifest
    /\ out["patch"] = record.patch
    /\ out["bootstrap"] = record.bootstrap

\* A bug: the receipt's project and tools are not compared.
AuthorizedEvidence(b, head) ==
    /\ b.receipt.reports = <<b.report1, b.report2>>
    /\ b.receipt.linked = b.linked
    /\ b.receipt.closure = Closure(b)
    /\ b.receipt.approval = b.approval

\* validate_authorization; head is the finalizer's project commit.
Authorized(b, head) ==
    b.receipt =
        [reports |-> <<b.report1, b.report2>>,
         nonces |-> <<b.report1.evidence.nonce, b.report2.evidence.nonce>>,
         linked |-> b.linked,
         closure |-> Closure(b),
         semantics |-> ManifestSemantics(Manifest(b)),
         approval |-> b.approval,
         project |-> [head |-> head, finalizer |-> b.tools.finalizer],
         tools |-> [python |-> b.tools.python, git |-> b.tools.git]]

\* The checks the finalizer makes once source s is staged, of the sources staged
\* so far.
Requires(s, b, head, exe) ==
    /\ s = "report2" => b.report1.head = b.report2.head
    /\ s = "validator" => ManifestAccepted(b)
    /\ s = "sources" => SourcesMatch(b)
    /\ s = "approval" =>
        /\ b.report1.approval = b.report2.approval
        /\ b.approval = b.report1.approval
        /\ \A i \in DOMAIN Manifest(b) : Manifest(b)[i].approval = b.approval
    /\ s = "references" =>
        ApprovalAccepted(b) /\ b.report1.linked = b.report2.linked
    /\ s = "logs1" => RunAccepted(b, 1, exe)
    /\ s = "logs2" => RunAccepted(b, 2, exe) /\ RunsAgree(b)
    /\ s = "linked" => LinkedAccepted(b)
    /\ s = "outputs" => OutputsAccepted(b) /\ Authorized(b, head)

----------------------------------------------------------------------------
(* What an accepted bundle establishes, stated without the checks above    *)

Results == Runs \X (1..TargetCount)

ReferenceText(b, i, r, kind) ==
    b.references[b.approval.targets[i].runs[r].artifacts[kind].path]

\* No transcript stands for two results, and the two reference runs of a target
\* are two runs.
DistinctEvidence(b) ==
    /\ \A x, y \in Results : x # y => Logs(b, x[1])[x[2]] # Logs(b, y[1])[y[2]]
    /\ \A i \in 1..TargetCount :
        ReferenceText(b, i, 1, "transcript") # ReferenceText(b, i, 2, "transcript")

\* What both Candle processes of a target printed is what the transcripts of
\* both of its reference runs show.
WitnessedIdentity(b) ==
    \A i \in 1..TargetCount : \A r, q \in Runs :
        LET reference == ReferenceText(b, i, q, "transcript") IN
        /\ Lines(Logs(b, r)[i], "wire") = reference.theorems
        /\ Lines(Logs(b, r)[i], "state") = <<reference.state>>

\* The life of one linked Candle process, as an automaton over its lines.
ProtocolMoves ==
    {<<"boot", "suite", "suite">>, <<"suite", "process", "started">>,
     <<"started", "witness", "verified">>, <<"verified", "linked", "linked">>,
     <<"linked", "wire", "linked">>, <<"linked", "state", "captured">>,
     <<"captured", "wire", "captured">>, <<"captured", "process", "ended">>}

ReservedSpaces ==
    {"suite", "process", "witness", "linked", "wire", "state", "foreign"}

\* The state after a line; a reserved line that has no move there is refused.
ProtocolMove(at, space) ==
    LET moves == {m \in ProtocolMoves : m[1] = at /\ m[2] = space} IN
    IF space \notin ReservedSpaces THEN at
    ELSE IF moves = {} THEN "refused" ELSE (CHOOSE m \in moves : TRUE)[3]

ProtocolState(log) ==
    LET after[n \in 0..Len(log)] ==
            IF n = 0 THEN "boot" ELSE ProtocolMove(after[n - 1], log[n].space)
    IN  after[Len(log)]

\* Every transcript is the output of exactly one complete linked process.
OneProcessEach(b) ==
    \A x \in Results : ProtocolState(Logs(b, x[1])[x[2]]) = "ended"

\* Every Candle process ran the archived executable on the archived sources, and
\* every reference run read the same sources with the archived validator.
SameInputs(b) ==
    \A i \in 1..TargetCount : \A r \in Runs :
        LET row == Report(b, r).results[i]
            plan == ReferenceText(b, i, r, "plan") IN
        /\ row.pre.exe = b.outputs["cake"]
        /\ row.post.exe = b.outputs["cake"]
        /\ plan.collector = b.validator
        /\ plan.sources = [k \in DOMAIN row.files |-> <<row.files[k], b.sources[row.files[k]]>>]

=============================================================================

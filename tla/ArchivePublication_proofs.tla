---------------------- MODULE ArchivePublication_proofs ----------------------
(***************************************************************************)
(* For any number of finalizers, whatever the sources contain and however  *)
(* often they are changed: type correctness of ArchivePublication, what is *)
(* at the destination and in the stage directories, that every check of    *)
(* archive() holds of the bytes that were published, what follows from the *)
(* checks about the archived runs, and that the authorized receipt fixes   *)
(* every byte.  The first part is about GreatEvidence alone: what the      *)
(* validators amount to for any numbers of targets, files and lines.       *)
(***************************************************************************)
EXTENDS ArchivePublication, FiniteSetTheorems, TLAPS

Row(b, r, i) == Report(b, r).results[i]

\* An accepted result ran the executable of its report on the files of its target,
\* and its transcript is stamped with its process and shows the audited identity.
LEMMA AcceptedResult ==
  ASSUME NEW b, NEW r \in Runs, NEW exe, RunAccepted(b, r, exe),
         NEW i \in 1..TargetCount
  PROVE  LET row == Row(b, r, i)
             t == Manifest(b)[i]
             log == Logs(b, r)[i] IN
         /\ Report(b, r).contract = b.contract
         /\ row.transcript = log
         /\ row.files = t.files
         /\ row.pre.exe = Report(b, r).exe /\ row.post.exe = Report(b, r).exe
         /\ Lines(log, "wire") = t.identity.theorems
         /\ Lines(log, "state") = <<t.identity.state>>
         /\ Lines(log, "process") =
                <<<<Report(b, r).evidence.nonce, row.process, "START">>,
                  <<Report(b, r).evidence.nonce, row.process, "COMPLETE">>>>
         /\ DOMAIN Logs(b, r) = 1..TargetCount
         /\ TranscriptAccepted(log, row.suite, row.process, row.linked, row.identity,
                               row.markers)
<1> DEFINE rep == Report(b, r)
           row == Row(b, r, i)
           t == Manifest(b)[i]
           log == Logs(b, r)[i]
<1>1. /\ RowAccepted(b, rep, row, t, log) /\ rep.contract = b.contract
      /\ DOMAIN Logs(b, r) = 1..TargetCount
  BY DEF RunAccepted, HeaderAccepted, Row
<1> HIDE DEF rep, row, t, log
<1>2. /\ row.files = t.files /\ row.transcript = log
      /\ FingerprintsAccepted(b, row, t)
      /\ ProcessAccepted(b, rep, row)
      /\ TranscriptAccepted(log, row.suite, row.process, row.linked, row.identity, row.markers)
  BY <1>1 DEF RowAccepted
<1>3. row.identity = t.identity
  BY <1>2 DEF FingerprintsAccepted
<1>4. /\ row.suite = rep.evidence.nonce
      /\ row.pre = RuntimeState(b, rep) /\ row.post = RuntimeState(b, rep)
  BY <1>2 DEF ProcessAccepted
<1>5. RuntimeState(b, rep).exe = rep.exe
  BY DEF RuntimeState
<1>6. /\ Lines(log, "process") = <<<<row.suite, row.process, "START">>,
                                   <<row.suite, row.process, "COMPLETE">>>>
      /\ Lines(log, "wire") = row.identity.theorems
      /\ Lines(log, "state") = <<row.identity.state>>
  BY <1>2 DEF TranscriptAccepted
<1> QED
  BY <1>1, <1>2, <1>3, <1>4, <1>5, <1>6 DEF rep, row, t, log

\* The results of a run are of as many processes as there are targets, so no two
\* of them are of one.
LEMMA OneProcessPerTarget ==
  ASSUME NEW b, NEW r \in Runs, NEW exe, RunAccepted(b, r, exe),
         NEW i \in 1..TargetCount, NEW j \in 1..TargetCount, i # j
  PROVE  Row(b, r, i).process # Row(b, r, j).process
<1> DEFINE T == 1..TargetCount
           P == {Row(b, r, k).process : k \in T}
           process == [k \in T |-> Row(b, r, k).process]
<1>1. IsFiniteSet(T) /\ Cardinality(T) = TargetCount
  BY EvidenceAssumption, FS_Interval
<1>2. Cardinality(P) = TargetCount
  BY DEF RunAccepted, Row
<1>3. process \in Surjection(T, P)
  BY DEF Surjection
<1> HIDE DEF T, P, process
<1>4. process \in Injection(T, P)
  BY <1>1, <1>2, <1>3, FS_SurjSameCardinalityImpliesInj
<1>5. i \in T /\ j \in T
  BY DEF T
<1>6. process[i] # process[j]
  BY <1>4, <1>5 DEF Injection, IsInjective
<1> QED
  BY <1>5, <1>6 DEF process

\* The two runs ran one executable, under two suites, on all targets.
LEMMA AgreeingRuns ==
  ASSUME NEW b, RunsAgree(b)
  PROVE  /\ Report(b, 1).evidence.nonce # Report(b, 2).evidence.nonce
         /\ Report(b, 1).exe = Report(b, 2).exe
         /\ DOMAIN Manifest(b) = 1..TargetCount
  BY DEF RunsAgree, Report, Runs, ManifestSemantics

\* Both reference runs of a target read its audited files with the captured
\* validator, under two nonces, and show its audited identity.
LEMMA AcceptedReference ==
  ASSUME NEW b, ApprovalAccepted(b), DOMAIN Manifest(b) = 1..TargetCount,
         NEW i \in 1..TargetCount, NEW r \in Runs
  PROVE  LET t == Manifest(b)[i]
             plan == ReferenceText(b, i, r, "plan")
             transcript == ReferenceText(b, i, r, "transcript") IN
         /\ plan.collector = b.validator
         /\ SourcesSelected(plan, t)
         /\ transcript.nonce = b.approval.targets[i].runs[r].nonce
         /\ transcript.theorems = t.identity.theorems
         /\ transcript.state = t.identity.state
         /\ TwoRuns(b.approval.targets[i])
         /\ \A k \in AllKinds :
                ReferenceText(b, i, r, k) = b.approval.targets[i].runs[r].artifacts[k].text
         /\ DOMAIN b.references = ArtifactPaths(b.approval)
<1> DEFINE t == Manifest(b)[i]
           audited == b.approval.targets[i]
           run == audited.runs[r]
           stored == [k \in ArtifactKinds |-> b.references[run.artifacts[k].path]]
           plan == stored["plan"]
           candidate == stored["candidate"]
           transcript == stored["transcript"]
<1>1. /\ [name |-> audited.name, identity |-> audited.identity]
            = ManifestSemantics(Manifest(b))[i]
      /\ TwoRuns(audited)
      /\ ReferenceAccepted(b, run, t, audited.identity)
  BY DEF ApprovalAccepted
<1>2. audited.identity = t.identity
  BY <1>1 DEF ManifestSemantics
<1>3. /\ PlanBinds(b, plan, candidate, run, t)
      /\ CandidateProjects(b, candidate, t, audited.identity)
      /\ ReplaysTo(transcript, candidate)
  BY <1>1 DEF ReferenceAccepted
<1>4. /\ plan = ReferenceText(b, i, r, "plan")
      /\ transcript = ReferenceText(b, i, r, "transcript")
  BY DEF ReferenceText, ArtifactKinds
<1>4a. /\ \A k \in AllKinds : ReferenceText(b, i, r, k) = run.artifacts[k].text
       /\ DOMAIN b.references = ArtifactPaths(b.approval)
  BY <1>1 DEF ReferenceAccepted, ReferenceText, AllKinds, ApprovalAccepted
<1> HIDE DEF plan, candidate, transcript, t, audited
<1>5. /\ candidate.nonce = run.nonce
      /\ plan.collector = b.validator
      /\ SourcesSelected(plan, t)
  BY <1>3 DEF PlanBinds
<1>6. /\ audited.identity.theorems = candidate.theorems
      /\ audited.identity.state = candidate.state
  BY <1>3 DEF CandidateProjects
<1>7. /\ transcript.nonce = candidate.nonce
      /\ transcript.theorems = candidate.theorems
      /\ transcript.state = candidate.state
  BY <1>3 DEF ReplaysTo
<1> QED
  BY <1>1, <1>2, <1>4, <1>5, <1>6, <1>7, <1>4a DEF t, audited

----------------------------------------------------------------------------
(* A transcript is the output of one process                               *)

\* Every set of naturals that is not empty has a least member.
LEMMA LeastElement ==
  ASSUME NEW T \in SUBSET Nat, T # {}
  PROVE  \E x \in T : \A y \in T : x <= y
<1> DEFINE Below == {1..n : n \in T}
<1>1. Below \subseteq FiniteSubsetsOf(Nat) /\ Below # {}
  <2>1. \A n \in Nat : IsFiniteSet(1..n) /\ 1..n \subseteq Nat
    BY FS_Interval
  <2> QED BY <2>1 DEF FiniteSubsetsOf
<1>2. IsWellFoundedOn(StrictSubsetOrdering(Nat), FiniteSubsetsOf(Nat))
  BY FS_StrictSubsetOrderingWellFounded
<1> HIDE DEF Below
<1>3. PICK b \in Below : \A c \in Below : ~(<<c, b>> \in StrictSubsetOrdering(Nat))
  BY <1>1, <1>2, WFMin
<1>4. PICK x \in T : b = 1..x
  BY DEF Below
<1>5. ASSUME NEW y \in T, y < x
      PROVE  FALSE
  <2>1. 1..y \in Below
    BY DEF Below
  <2>2. x \in 1..x /\ x \notin 1..y
    BY <1>5
  <2>3. 1..y \subseteq 1..x /\ 1..y # 1..x
    BY <2>2, <1>5
  <2>4. <<1..y, 1..x>> \in StrictSubsetOrdering(Nat)
    BY <2>3 DEF StrictSubsetOrdering
  <2> QED
    BY <2>1, <2>4, <1>3, <1>4
<1> QED
  BY <1>5

\* What holds of 0, and of each number after one of which it holds, holds up to n.
LEMMA IntervalInduction ==
  ASSUME NEW S, NEW n \in Nat, 0 \in S,
         \A k \in 1..n : k - 1 \in S => k \in S
  PROVE  0..n \subseteq S
<1> SUFFICES ASSUME (0..n) \ S # {}
             PROVE  FALSE
  OBVIOUS
<1>1. PICK x \in (0..n) \ S : \A y \in (0..n) \ S : x <= y
  <2>1. (0..n) \ S \in SUBSET Nat
    OBVIOUS
  <2> QED BY <2>1, LeastElement
<1>2. x \in 1..n /\ x - 1 \in 0..n /\ x - 1 < x
  BY <1>1
<1>3. x - 1 \in S
  BY <1>1, <1>2
<1> QED
  BY <1>1, <1>2, <1>3

IsTranscript(log) == Len(log) \in Nat /\ DOMAIN log = 1..Len(log)

\* The lines of a space are finitely many.
LEMMA SpaceOfLines ==
  ASSUME NEW log, IsTranscript(log), NEW space
  PROVE  /\ At(log, space) \subseteq 1..Len(log)
         /\ IsFiniteSet(At(log, space))
         /\ Cardinality(At(log, space)) \in Nat
         /\ DOMAIN Lines(log, space) = 1..Cardinality(At(log, space))
<1>1. At(log, space) \subseteq 1..Len(log)
  BY DEF At, IsTranscript
<1>2. IsFiniteSet(1..Len(log))
  BY FS_Interval DEF IsTranscript
<1>3. IsFiniteSet(At(log, space))
  BY <1>1, <1>2, FS_Subset
<1>4. Cardinality(At(log, space)) \in Nat
  BY <1>3, FS_CardinalityType
<1>5. DOMAIN Lines(log, space) = 1..Cardinality(At(log, space))
  BY DEF Lines
<1> QED
  BY <1>1, <1>3, <1>4, <1>5

\* A space with one line.
LEMMA OneLine ==
  ASSUME NEW log, IsTranscript(log), NEW space, NEW text, Lines(log, space) = <<text>>
  PROVE  /\ At(log, space) = {First(At(log, space))}
         /\ First(At(log, space)) \in 1..Len(log)
<1> DEFINE S == At(log, space)
<1>1. DOMAIN Lines(log, space) = 1..1
  OBVIOUS
<1>2. /\ S \subseteq 1..Len(log) /\ IsFiniteSet(S) /\ Cardinality(S) \in Nat
      /\ 1..Cardinality(S) = 1..1
  BY <1>1, SpaceOfLines
<1> HIDE DEF S
<1>3. Cardinality(S) = 1
  <2>1. Cardinality(S) \in Nat /\ \A k \in Nat : k \in 1..Cardinality(S) <=> k \in 1..1
    BY <1>2
  <2> QED BY <2>1
<1>4. PICK x : S = {x}
  BY <1>2, <1>3, FS_Singleton
<1>5. x \in 1..Len(log) /\ Len(log) \in Nat
  BY <1>2, <1>4 DEF IsTranscript
<1>6. First(S) = x
  BY <1>4, <1>5 DEF First
<1> QED
  BY <1>4, <1>5, <1>6 DEF S

\* A space with two lines.
LEMMA TwoLines ==
  ASSUME NEW log, IsTranscript(log), NEW space, NEW text, NEW other,
         Lines(log, space) = <<text, other>>
  PROVE  /\ At(log, space) = {First(At(log, space)), Final(At(log, space))}
         /\ First(At(log, space)) \in 1..Len(log)
         /\ Final(At(log, space)) \in 1..Len(log)
         /\ First(At(log, space)) < Final(At(log, space))
<1> DEFINE S == At(log, space)
<1>1. DOMAIN Lines(log, space) = 1..2
  OBVIOUS
<1>2. /\ S \subseteq 1..Len(log) /\ IsFiniteSet(S) /\ Cardinality(S) \in Nat
      /\ 1..Cardinality(S) = 1..2
  BY <1>1, SpaceOfLines
<1> HIDE DEF S
<1>3. Cardinality(S) = 2
  <2>1. Cardinality(S) \in Nat /\ \A k \in Nat : k \in 1..Cardinality(S) <=> k \in 1..2
    BY <1>2
  <2> QED BY <2>1
<1>4. S # {}
  BY <1>3, FS_EmptySet
<1>5. PICK x \in S : TRUE
  BY <1>4
<1>6. IsFiniteSet(S \ {x}) /\ Cardinality(S \ {x}) = 1
  <2>1. /\ IsFiniteSet(S \ {x})
        /\ Cardinality(S \ {x}) = IF x \in S THEN Cardinality(S) - 1 ELSE Cardinality(S)
    BY <1>2, FS_RemoveElement
  <2> QED BY <2>1, <1>3, <1>5
<1>7. PICK y : S \ {x} = {y}
  BY <1>6, FS_Singleton
<1>8. S = {x, y} /\ x # y
  BY <1>5, <1>7
<1>9. Len(log) \in Nat /\ x \in 1..Len(log) /\ y \in 1..Len(log)
  BY <1>2, <1>8 DEF IsTranscript
<1>10. CASE x < y
  <2>1. First(S) = x
    BY <1>8, <1>9, <1>10 DEF First
  <2>2. Final(S) = y
    BY <1>8, <1>9, <1>10 DEF Final
  <2> QED BY <1>8, <1>9, <1>10, <2>1, <2>2 DEF S
<1>11. CASE y < x
  <2>1. First(S) = y
    BY <1>8, <1>9, <1>11 DEF First
  <2>2. Final(S) = x
    BY <1>8, <1>9, <1>11 DEF Final
  <2> QED BY <1>8, <1>9, <1>11, <2>1, <2>2 DEF S
<1> QED
  BY <1>8, <1>9, <1>10, <1>11

\* The moves of the protocol automaton.
LEMMA Moves ==
  /\ ProtocolMove("boot", "suite") = "suite"
  /\ ProtocolMove("suite", "process") = "started"
  /\ ProtocolMove("started", "witness") = "verified"
  /\ ProtocolMove("verified", "linked") = "linked"
  /\ ProtocolMove("linked", "wire") = "linked"
  /\ ProtocolMove("linked", "state") = "captured"
  /\ ProtocolMove("captured", "wire") = "captured"
  /\ ProtocolMove("captured", "process") = "ended"
  /\ \A at, space : space \notin ReservedSpaces => ProtocolMove(at, space) = at
<1>1. ASSUME NEW m \in ProtocolMoves, m[2] \in ReservedSpaces,
             \A o \in ProtocolMoves : o[1] = m[1] /\ o[2] = m[2] => o = m
      PROVE  ProtocolMove(m[1], m[2]) = m[3]
  <2>1. {o \in ProtocolMoves : o[1] = m[1] /\ o[2] = m[2]} = {m}
    BY <1>1
  <2> QED BY <1>1, <2>1 DEF ProtocolMove
<1>2. \A m, o \in ProtocolMoves : o[1] = m[1] /\ o[2] = m[2] => o = m
  BY DEF ProtocolMoves
<1>3. \A m \in ProtocolMoves : m[2] \in ReservedSpaces
  BY DEF ProtocolMoves, ReservedSpaces
<1>4. \A m \in ProtocolMoves : ProtocolMove(m[1], m[2]) = m[3]
  BY <1>1, <1>2, <1>3
<1>5. \A at, space : space \notin ReservedSpaces => ProtocolMove(at, space) = at
  BY DEF ProtocolMove
<1>6. \A x, y, z : <<x, y, z>> \in ProtocolMoves => ProtocolMove(x, y) = z
  BY <1>4
<1> HIDE DEF ProtocolMove
<1> QED
  BY <1>5, <1>6 DEF ProtocolMoves

\* A function that starts where the automaton does and follows its moves line by
\* line is where the automaton is at the end.
LEMMA FollowsMoves ==
  ASSUME NEW log, IsTranscript(log), NEW Stage, NEW life \in [0..Len(log) -> Stage],
         life[0] = "boot",
         \A n \in 1..Len(log) : life[n] = ProtocolMove(life[n - 1], log[n].space)
  PROVE  ProtocolState(log) = life[Len(log)]
<1> DEFINE StageAt(g, n) == IF n = 0 THEN "boot" ELSE ProtocolMove(g[n - 1], log[n].space)
           after == CHOOSE g : g = [n \in 0..Len(log) |-> StageAt(g, n)]
<1>1. Len(log) \in Nat
  BY DEF IsTranscript
<1>2. ProtocolState(log) = after[Len(log)]
  BY DEF ProtocolState
<1>3. \A n \in 0..Len(log) : life[n] = StageAt(life, n)
  <2>1. \A n \in 0..Len(log) : n = 0 \/ n \in 1..Len(log)
    BY <1>1
  <2> QED BY <2>1
<1>4. life = [n \in 0..Len(log) |-> life[n]]
  OBVIOUS
<1>5. life = [n \in 0..Len(log) |-> StageAt(life, n)]
  BY <1>3, <1>4
<1>6. after = [n \in 0..Len(log) |-> StageAt(after, n)]
  <2> HIDE DEF StageAt
  <2> QED BY <1>5
<1>7. \A n \in 0..Len(log) : after[n] = StageAt(after, n)
  <2> HIDE DEF after, StageAt
  <2> QED BY <1>6
<1> HIDE DEF after
<1> DEFINE S == {n \in 0..Len(log) : after[n] = life[n]}
<1>8. 0 \in S
  BY <1>1, <1>7
<1>9. ASSUME NEW k \in 1..Len(log), k - 1 \in S
      PROVE  k \in S
  <2>1. k \in 0..Len(log) /\ k # 0 /\ after[k - 1] = life[k - 1]
    BY <1>1, <1>9
  <2>2. after[k] = ProtocolMove(after[k - 1], log[k].space)
    BY <2>1, <1>7
  <2> QED BY <2>1, <2>2
<1> HIDE DEF S
<1>10. 0..Len(log) \subseteq S
  BY <1>1, <1>8, <1>9, IntervalInduction
<1>11. Len(log) \in S
  BY <1>1, <1>10
<1> QED
  BY <1>2, <1>11 DEF S

\* An accepted transcript takes the automaton from start to end.
LEMMA AcceptedTranscriptIsWhole ==
  ASSUME NEW log, IsTranscript(log), NEW n, NEW p, NEW l, NEW identity, NEW markers,
         TranscriptAccepted(log, n, p, l, identity, markers)
  PROVE  ProtocolState(log) = "ended"
<1> DEFINE suite == First(At(log, "suite"))
           start == First(At(log, "process"))
           witness == First(At(log, "witness"))
           linked == First(At(log, "linked"))
           state == First(At(log, "state"))
           end == Final(At(log, "process"))
           size == Len(log)
           space(k) == log[k].space
<1>1. /\ Lines(log, "suite") = <<n>>
      /\ Lines(log, "process") = <<<<n, p, "START">>, <<n, p, "COMPLETE">>>>
      /\ Lines(log, "linked") = <<l>>
      /\ Lines(log, "witness") = <<"PASS">>
      /\ Lines(log, "state") = <<identity.state>>
      /\ At(log, "foreign") = {}
  BY DEF TranscriptAccepted
<1>2. /\ At(log, "suite") = {suite} /\ suite \in 1..size
      /\ At(log, "linked") = {linked} /\ linked \in 1..size
      /\ At(log, "witness") = {witness} /\ witness \in 1..size
      /\ At(log, "state") = {state} /\ state \in 1..size
  BY <1>1, OneLine
<1>3. At(log, "process") = {start, end} /\ start \in 1..size /\ end \in 1..size /\ start < end
  BY <1>1, TwoLines
<1>4. /\ suite < start /\ start < witness /\ witness < linked
      /\ \A k \in At(log, "wire") \cup At(log, "state") : linked < k /\ k < end
  BY DEF TranscriptAccepted, MarkerLines, PrintedAfterLink
<1>5. linked < state /\ state < end
  BY <1>2, <1>4
<1>6. size \in Nat /\ DOMAIN log = 1..size
  BY DEF IsTranscript
<1>7. ASSUME NEW k \in 1..size
      PROVE  /\ space(k) = "suite" <=> k = suite
             /\ space(k) = "process" <=> k = start \/ k = end
             /\ space(k) = "linked" <=> k = linked
             /\ space(k) = "witness" <=> k = witness
             /\ space(k) = "state" <=> k = state
             /\ space(k) # "foreign"
             /\ space(k) = "wire" => linked < k /\ k < end
  <2>1. \A name : k \in At(log, name) <=> space(k) = name
    BY <1>6 DEF At
  <2> HIDE DEF space
  <2> QED BY <2>1, <1>1, <1>2, <1>3, <1>4
<1> HIDE DEF suite, start, witness, linked, state, end, size, space
<1> DEFINE Stage(k) == IF k < suite THEN "boot" ELSE IF k < start THEN "suite"
                       ELSE IF k < witness THEN "started" ELSE IF k < linked THEN "verified"
                       ELSE IF k < state THEN "linked" ELSE IF k < end THEN "captured"
                       ELSE "ended"
           life == [k \in 0..size |-> Stage(k)]
<1>8. ASSUME NEW k \in 1..size
      PROVE  Stage(k) = ProtocolMove(Stage(k - 1), space(k))
  <2> USE <1>2, <1>3, <1>4, <1>5, <1>6
  <2>1. CASE k = suite
    <3>1. space(k) = "suite" /\ Stage(k - 1) = "boot" /\ Stage(k) = "suite"
      BY <2>1, <1>7
    <3> QED BY <3>1, Moves
  <2>2. CASE k = start
    <3>1. space(k) = "process" /\ Stage(k - 1) = "suite" /\ Stage(k) = "started"
      BY <2>2, <1>7
    <3> QED BY <3>1, Moves
  <2>3. CASE k = witness
    <3>1. space(k) = "witness" /\ Stage(k - 1) = "started" /\ Stage(k) = "verified"
      BY <2>3, <1>7
    <3> QED BY <3>1, Moves
  <2>4. CASE k = linked
    <3>1. space(k) = "linked" /\ Stage(k - 1) = "verified" /\ Stage(k) = "linked"
      BY <2>4, <1>7
    <3> QED BY <3>1, Moves
  <2>5. CASE k = state
    <3>1. space(k) = "state" /\ Stage(k - 1) = "linked" /\ Stage(k) = "captured"
      BY <2>5, <1>7
    <3> QED BY <3>1, Moves
  <2>6. CASE k = end
    <3>1. space(k) = "process" /\ Stage(k - 1) = "captured" /\ Stage(k) = "ended"
      BY <2>6, <1>7
    <3> QED BY <3>1, Moves
  <2>7. CASE k \notin {suite, start, witness, linked, state, end}
    <3>1. Stage(k) = Stage(k - 1)
      BY <2>7
    <3>2. CASE space(k) = "wire"
      <4>1. linked < k /\ k < end
        BY <3>2, <1>7
      <4>2. Stage(k - 1) \in {"linked", "captured"}
        BY <4>1
      <4> HIDE DEF Stage
      <4> QED BY <3>1, <3>2, <4>2, Moves
    <3>3. CASE space(k) # "wire"
      <4>1. space(k) \notin ReservedSpaces
        BY <2>7, <3>3, <1>7 DEF ReservedSpaces
      <4> HIDE DEF Stage
      <4> QED BY <3>1, <4>1, Moves
    <3> QED BY <3>2, <3>3
  <2> QED BY <2>1, <2>2, <2>3, <2>4, <2>5, <2>6, <2>7
<1>9. Stage(0) = "boot" /\ Stage(size) = "ended"
  BY <1>2, <1>3, <1>4, <1>5, <1>6
<1> HIDE DEF Stage
<1>10. /\ life \in [0..size -> {Stage(k) : k \in 0..size}]
       /\ life[0] = "boot" /\ life[size] = "ended"
       /\ \A k \in 1..size : life[k] = ProtocolMove(life[k - 1], space(k))
  <2>1. 0 \in 0..size /\ size \in 0..size
    BY <1>6
  <2>2. \A k \in 1..size : k \in 0..size /\ k - 1 \in 0..size
    BY <1>6
  <2> QED BY <2>1, <2>2, <1>8, <1>9
<1> HIDE DEF life
<1> QED
  BY <1>10, FollowsMoves DEF size, space

----------------------------------------------------------------------------
(* The order of the captures                                               *)

Steps == 1..13

\* There are thirteen captures (archive, 1919-2036).
LEMMA Captures ==
  /\ Len(CaptureOrder) = 13
  /\ DOMAIN CaptureOrder = Steps
  BY DEF CaptureOrder, Steps

\* No source is captured twice.
LEMMA CapturesDiffer ==
  ASSUME NEW j \in Steps, NEW k \in Steps, CaptureOrder[j] = CaptureOrder[k]
  PROVE  j = k
  BY DEF CaptureOrder, Steps

\* The sources are what is captured.
LEMMA SourcesListed ==
  /\ \A k \in Steps : CaptureOrder[k] \in Sources
  /\ \A s \in Sources : \E k \in Steps : s = CaptureOrder[k]
  BY Captures DEF Sources

\* A capture is not the absence of one.
LEMMA CapturedPair == ASSUME NEW c \in Versions \X Versions PROVE c # <<>>
  OBVIOUS

----------------------------------------------------------------------------
(* The invariant                                                           *)

\* What had been captured when capture k was checked.
Upto(c, k) ==
    [s \in Sources |-> IF \E j \in 1..k : s = CaptureOrder[j] THEN c[s] ELSE <<>>]

\* The check after capture k accepted c, when the project was at commit h.
Vetted(c, k, h) ==
    LET b == Bundle(Upto(c, k)) IN
    /\ CaptureOrder[k] = "receipt" => b.receipt = Content("receipt", authorized)
    /\ \E v \in Versions :
        Requires(CaptureOrder[k], b, h, Content("outputs", v)["cake"])

Begun == {"idle", "preflight", "mkdtemp"}

\* Where a finalizer has gone through every capture.
Complete == {"write", "project", "absent", "rename", "sync", "done"}

\* How far a finalizer is, by its position, and what its stage holds.
ControlInv ==
    \A f \in Finalizers :
        /\ pc[f] \in Begun => turn[f] = 1 /\ stage[f] = "none"
        /\ pc[f] \in {"open", "read", "check"} => turn[f] \in Steps
        /\ pc[f] \in Complete => turn[f] = 14
        /\ \/ pc[f] \in {"project", "absent", "rename"}
           \/ pc[f] \in {"head", "status"} /\ turn[f] = 14
           => stage[f] = "whole"
        /\ pc[f] \in {"sync", "done"} => stage[f] = "none"
        /\ pc[f] = "failed" => stage[f] \in {"none", "leftover"}

\* The captures that finalizer f has made.
Made(f) == IF pc[f] = "check" THEN 1..turn[f] ELSE 1..(turn[f] - 1)

\* A finalizer that goes on has captured in order, and every check so far passed.
CaptureInv ==
    \A f \in Finalizers :
        pc[f] \in Begun \cup Trying \cup {"done"} =>
            /\ \A k \in Steps : staged[f][CaptureOrder[k]] # <<>> <=> k \in Made(f)
            /\ \A k \in Steps : k < turn[f] => Vetted(staged[f], k, seen[f][1])

\* What a published archive is.
DestinationInv ==
    /\ \A f \in Finalizers : pc[f] \in {"sync", "done"} => Archived /\ dest.by = f
    /\ Archived =>
        /\ dest.whole = TRUE
        /\ dest.bytes \in [Sources -> Versions \X Versions]
        /\ \E h : \A k \in Steps : Vetted(dest.bytes, k, h)

IInv == TypeOK /\ ControlInv /\ CaptureInv /\ DestinationInv

----------------------------------------------------------------------------
(* Initial states and events outside                                       *)

\* The invariant holds before any finalizer runs.
LEMMA InitIInv == Init => IInv
<1> SUFFICES ASSUME Init PROVE IInv
  OBVIOUS
<1>1. TypeOK
  BY ArchiveAssumption, Captures
     DEF Init, TypeOK, CapturePairs, Absent, Trying, Ended
<1>2. ControlInv
  BY DEF Init, ControlInv, Begun, Complete
<1>3. CaptureInv
  BY SourcesListed DEF Init, CaptureInv, Made, Steps
<1>4. DestinationInv
  BY DEF Init, DestinationInv, Archived, Absent
<1> QED
  BY <1>1, <1>2, <1>3, <1>4 DEF IInv

\* A check that passed has passed for good.
LEMMA VettedKept ==
  ASSUME UNCHANGED authorized, NEW c, NEW k, NEW h
  PROVE  Vetted(c, k, h)' <=> Vetted(c, k, h)
  BY DEF Vetted

\* An event that changes neither the captures nor the destination preserves
\* what the invariant says of them.
LEMMA CapturesKept ==
  ASSUME IInv, UNCHANGED <<authorized, dest, pc, turn, staged, seen, stage>>
  PROVE  ControlInv' /\ CaptureInv' /\ DestinationInv'
<1>1. ControlInv'
  BY DEF IInv, ControlInv
<1>2. CaptureInv'
  BY VettedKept DEF IInv, CaptureInv, Made
<1>3. DestinationInv'
  BY VettedKept DEF IInv, DestinationInv, Archived
<1> QED
  BY <1>1, <1>2, <1>3

\* A finalizer moves on without capturing or checking anything, or ends.
LEMMA CaptureKept ==
  ASSUME IInv, NEW f \in Finalizers, NEW step,
         UNCHANGED <<authorized, turn, staged, seen>>,
         pc' = [pc EXCEPT ![f] = step],
         \/ step \notin Begun \cup Trying \cup {"done"}
         \/ pc[f] \in Begun \cup Trying /\ pc[f] # "check" /\ step # "check"
  PROVE  CaptureInv'
<1> SUFFICES ASSUME NEW g \in Finalizers, pc'[g] \in Begun \cup Trying \cup {"done"}
             PROVE  /\ \A k \in Steps : staged[g][CaptureOrder[k]] # <<>> <=> k \in Made(g)'
                    /\ \A k \in Steps : k < turn[g] => Vetted(staged[g], k, seen[g][1])
  BY VettedKept DEF CaptureInv
<1>1. pc \in [Finalizers -> Trying \cup Ended \cup {"idle", "preflight", "mkdtemp", "abort"}]
  BY DEF IInv, TypeOK
<1>2. pc[g] \in Begun \cup Trying \cup {"done"} /\ Made(g)' = Made(g)
  BY <1>1 DEF Made
<1> QED
  BY <1>2 DEF IInv, CaptureInv

\* A finalizer moves on, short of the rename, and leaves the destination alone.
LEMMA DestinationKept ==
  ASSUME IInv, NEW f \in Finalizers, NEW step,
         UNCHANGED <<authorized, dest>>,
         pc' = [pc EXCEPT ![f] = step],
         step \in {"sync", "done"} => pc[f] \in {"sync", "done"}
  PROVE  DestinationInv'
<1>1. pc \in [Finalizers -> Trying \cup Ended \cup {"idle", "preflight", "mkdtemp", "abort"}]
  BY DEF IInv, TypeOK
<1>2. \A g \in Finalizers : pc'[g] \in {"sync", "done"} => pc[g] \in {"sync", "done"}
  BY <1>1
<1> QED
  BY <1>2, VettedKept DEF IInv, DestinationInv, Archived

\* Edits, checkouts, launches, kills and a directory at the destination.
LEMMA WorldPreserves == IInv /\ World => IInv'
<1> SUFFICES ASSUME IInv, World PROVE IInv'
  OBVIOUS
<1> USE ArchiveAssumption
<1>1. ASSUME NEW f \in Finalizers, Launch(f) PROVE IInv'
  <2>1. TypeOK'
    BY <1>1 DEF Launch, Spend, Goto, Private, IInv, TypeOK, Trying, Ended
  <2>2. ControlInv'
    BY <1>1 DEF Launch, Goto, Private, IInv, TypeOK, ControlInv, Begun, Complete
  <2>3. CaptureInv'
    BY <1>1, CaptureKept DEF Launch, Goto, Private, Begun
  <2>4. DestinationInv'
    BY <1>1, DestinationKept DEF Launch, Goto, Private
  <2> QED
    BY <2>1, <2>2, <2>3, <2>4 DEF IInv
<1>2. ASSUME NEW f \in Finalizers, Kill(f) PROVE IInv'
  <2>1. TypeOK'
    BY <1>2 DEF Kill, Spend, Goto, IInv, TypeOK, Trying, Ended
  <2>2. ControlInv'
    BY <1>2 DEF Kill, Goto, IInv, TypeOK, ControlInv, Begun, Complete
  <2>3. CaptureInv'
    BY <1>2, CaptureKept DEF Kill, Goto, Begun, Trying
  <2>4. DestinationInv'
    BY <1>2, DestinationKept DEF Kill, Goto
  <2> QED
    BY <2>1, <2>2, <2>3, <2>4 DEF IInv
<1>3. ASSUME NEW s \in Sources, NEW v \in Changes, Edit(s, v) PROVE IInv'
  <2>1. TypeOK'
    BY <1>3 DEF Edit, Replace, Spend, IInv, TypeOK
  <2> QED
    BY <1>3, <2>1, CapturesKept DEF Edit, IInv
<1>4. ASSUME NEW r \in Repositories, NEW v \in Changes, CheckOut(r, v) PROVE IInv'
  <2>1. TypeOK'
    BY <1>4 DEF CheckOut, Replace, Spend, IInv, TypeOK
  <2> QED
    BY <1>4, <2>1, CapturesKept DEF CheckOut, IInv
<1>5. CASE MakeDirectory
  <2>1. dest.kind = "absent" /\ dest'.kind = "empty"
    BY <1>5 DEF MakeDirectory, Absent, EmptyDirectory
  <2>2. TypeOK'
    BY <1>5, <2>1 DEF MakeDirectory, Spend, Private, IInv, TypeOK
  <2>3. ControlInv'
    BY <1>5 DEF MakeDirectory, Private, IInv, ControlInv
  <2>4. CaptureInv'
    BY <1>5, VettedKept DEF MakeDirectory, Private, IInv, CaptureInv, Made
  <2>5. DestinationInv'
    BY <1>5, <2>1 DEF MakeDirectory, Private, IInv, DestinationInv, Archived
  <2> QED
    BY <2>2, <2>3, <2>4, <2>5 DEF IInv
<1> QED
  BY <1>1, <1>2, <1>3, <1>4, <1>5 DEF World

----------------------------------------------------------------------------
(* The steps of a finalizer                                                *)

\* A step that neither captures, checks nor renames.
LEMMA QuietStep ==
  ASSUME IInv, NEW f \in Finalizers, NEW step,
         UNCHANGED <<Outside, dest, turn, staged, seen>>,
         pc[f] \in Begun \cup Trying \cup {"abort"}, pc[f] = "check" => step = "abort",
         step \in Begun \cup Trying \cup Ended \cup {"abort"}, step # "check",
         pc[f] = "abort" => step = "failed",
         pc' = [pc EXCEPT ![f] = step],
         step \in {"sync", "done"} => pc[f] = "sync",
         reading' \in [Finalizers -> SUBSET Versions],
         stage' \in [Finalizers -> {"none", "filling", "whole", "leftover"}],
         ControlInv'
  PROVE  IInv'
<1>1. TypeOK'
  BY DEF IInv, TypeOK, Outside, Begun, Trying, Ended
<1>2. CaptureInv'
  BY CaptureKept DEF Outside, Begun, Trying, Ended
<1>3. DestinationInv'
  BY DestinationKept DEF Outside
<1> QED
  BY <1>1, <1>2, <1>3 DEF IInv

\* The steps that neither capture, check nor publish.
LEMMA QuietSteps ==
  ASSUME IInv, NEW f \in Finalizers,
         \/ MakeStage(f) \/ Open(f) \/ ChangedWhileCaptured(f) \/ GitHead(f) \/ GitStatus(f)
         \/ WriteGenerated(f) \/ Postflight(f) \/ ConfirmAbsent(f) \/ SyncParent(f) \/ Raise(f) \/ CleanUp(f)
  PROVE  IInv'
<1> USE DEF Outside, Private, Goto, Continue, Begun, Trying, Ended, Complete
<1>0. TypeOK /\ ControlInv
  BY DEF IInv
<1>1. CASE MakeStage(f)
  <2>1. ControlInv'
    BY <1>0, <1>1, Captures DEF TypeOK, ControlInv, MakeStage, Steps
  <2>2. PICK made \in BOOLEAN :
            /\ stage' = [stage EXCEPT ![f] = IF made THEN "filling" ELSE "none"]
            /\ pc' = [pc EXCEPT ![f] = IF made THEN "open" ELSE "failed"]
    BY <1>1 DEF MakeStage
  <2> QED
    BY <1>0, <1>1, <2>1, <2>2, QuietStep DEF TypeOK, MakeStage
<1>2. CASE Open(f)
  <2>1. ControlInv'
    BY <1>0, <1>2, Captures DEF TypeOK, ControlInv, Open, Steps
  <2>2. disk[Current(f)] \in Versions
    BY <1>0, <1>2, SourcesListed DEF TypeOK, ControlInv, Open, Current
  <2> QED
    BY <1>0, <1>2, <2>1, <2>2, QuietStep DEF TypeOK, Open
<1>3. CASE ChangedWhileCaptured(f)
  <2>1. ControlInv'
    BY <1>0, <1>3, Captures DEF TypeOK, ControlInv, ChangedWhileCaptured, Steps
  <2> QED
    BY <1>0, <1>3, <2>1, QuietStep DEF TypeOK, ChangedWhileCaptured
<1>4. CASE GitHead(f)
  <2>1. ControlInv'
    BY <1>0, <1>4, Captures DEF TypeOK, ControlInv, GitHead, Steps
  <2> QED
    BY <1>0, <1>4, <2>1, QuietStep DEF TypeOK, GitHead
<1>5. CASE GitStatus(f)
  <2>1. ControlInv'
    BY <1>0, <1>5, Captures DEF TypeOK, ControlInv, GitStatus, Steps
  <2> QED
    BY <1>0, <1>5, <2>1, QuietStep DEF TypeOK, GitStatus
<1>6. CASE WriteGenerated(f)
  <2>1. ControlInv'
    BY <1>0, <1>6, Captures DEF TypeOK, ControlInv, WriteGenerated, Steps
  <2> QED
    BY <1>0, <1>6, <2>1, QuietStep DEF TypeOK, WriteGenerated
<1>7. CASE Postflight(f)
  <2>1. ControlInv'
    BY <1>0, <1>7, Captures DEF TypeOK, ControlInv, Postflight, Steps
  <2> QED
    BY <1>0, <1>7, <2>1, QuietStep DEF TypeOK, Postflight
<1>8. CASE ConfirmAbsent(f)
  <2>1. ControlInv'
    BY <1>0, <1>8, Captures DEF TypeOK, ControlInv, ConfirmAbsent, Steps
  <2> QED
    BY <1>0, <1>8, <2>1, QuietStep DEF TypeOK, ConfirmAbsent
<1>9. CASE SyncParent(f)
  <2>1. ControlInv'
    BY <1>0, <1>9, Captures DEF TypeOK, ControlInv, SyncParent, Steps
  <2> QED
    BY <1>0, <1>9, <2>1, QuietStep DEF TypeOK, SyncParent
<1>10. CASE Raise(f)
  <2>1. ControlInv'
    BY <1>0, <1>10, Captures DEF TypeOK, ControlInv, Raise, Steps
  <2> QED
    BY <1>0, <1>10, <2>1, QuietStep DEF TypeOK, Raise
<1>11. CASE CleanUp(f)
  <2>1. ControlInv'
    BY <1>0, <1>11, Captures DEF TypeOK, ControlInv, CleanUp, Steps
  <2>2. PICK left \in {"none", "leftover"} :
            stage' = [stage EXCEPT ![f] = IF stage[f] = "none" THEN "none" ELSE left]
    BY <1>11 DEF CleanUp
  <2>3. stage' \in [Finalizers -> {"none", "filling", "whole", "leftover"}]
    BY <1>0, <2>2 DEF TypeOK
  <2> QED
    BY <1>0, <1>11, <2>1, <2>3, QuietStep DEF TypeOK, CleanUp
<1> QED
  BY <1>1, <1>2, <1>3, <1>4, <1>5, <1>6, <1>7, <1>8, <1>9, <1>10, <1>11

\* The preflight remembers the commit before anything has been captured.
LEMMA PreflightPreserves ==
  ASSUME IInv, NEW f \in Finalizers, Preflight(f)
  PROVE  IInv'
<1> DEFINE step == IF dest.kind = "absent" /\ ProjectClean THEN "mkdtemp" ELSE "failed"
<1>0. TypeOK /\ ControlInv /\ CaptureInv /\ pc' = [pc EXCEPT ![f] = step]
  BY DEF IInv, Preflight, Goto
<1>1. step \in {"mkdtemp", "failed"}
  OBVIOUS
<1> HIDE DEF step
<1>2. TypeOK'
  BY <1>0, <1>1 DEF TypeOK, Preflight, Outside, Ended
<1>3. ControlInv'
  BY <1>0, <1>1 DEF TypeOK, ControlInv, Preflight, Outside, Begun, Complete
<1>4. CaptureInv'
  <2> SUFFICES ASSUME NEW g \in Finalizers, pc'[g] \in Begun \cup Trying \cup {"done"}
               PROVE  /\ \A k \in Steps : staged[g][CaptureOrder[k]] # <<>> <=> k \in Made(g)'
                      /\ \A k \in Steps : k < turn[g] => Vetted(staged[g], k, seen'[g][1])
    BY VettedKept DEF CaptureInv, Preflight, Outside
  <2>1. pc[g] \in Begun \cup Trying \cup {"done"} /\ Made(g)' = Made(g)
    BY <1>0, <1>1 DEF TypeOK, Made, Preflight, Begun
  <2>2. CASE g = f
    BY <1>0, <2>1, <2>2 DEF CaptureInv, ControlInv, Preflight, Begun, Steps
  <2>3. CASE g # f
    <3>1. seen'[g] = seen[g]
      BY <2>3 DEF Preflight
    <3> QED
      BY <1>0, <2>1, <3>1 DEF CaptureInv
  <2> QED
    BY <2>2, <2>3
<1>5. DestinationInv'
  BY <1>0, <1>1, DestinationKept DEF Preflight, Outside
<1> QED
  BY <1>2, <1>3, <1>4, <1>5 DEF IInv

\* A capture is added behind the ones whose checks have passed.
LEMMA ClosePreserves ==
  ASSUME IInv, NEW f \in Finalizers, Close(f)
  PROVE  IInv'
<1>0. TypeOK /\ ControlInv /\ CaptureInv /\ pc' = [pc EXCEPT ![f] = "check"]
  BY DEF IInv, Close, Goto
<1>1. PICK c \in reading[f] \X reading[f] : staged' = [staged EXCEPT ![f][Current(f)] = c]
  BY DEF Close
<1>2. /\ turn[f] \in Steps /\ Current(f) \in Sources
      /\ c \in Versions \X Versions
      /\ pc[f] = "read"
  BY <1>0, <1>1, SourcesListed DEF TypeOK, ControlInv, Current, Close
<1>2a. c # <<>>
  BY <1>2, CapturedPair
<1>3. staged' \in [Finalizers -> [Sources -> CapturePairs]]
  BY <1>0, <1>1, <1>2 DEF TypeOK, CapturePairs
<1>4. TypeOK'
  BY <1>0, <1>3 DEF TypeOK, Close, Outside, Trying
<1>5. ControlInv'
  BY <1>0, <1>2 DEF TypeOK, ControlInv, Close, Outside, Begun, Complete
<1>6. CaptureInv'
  <2> SUFFICES ASSUME NEW g \in Finalizers, pc'[g] \in Begun \cup Trying \cup {"done"}
               PROVE  /\ \A k \in Steps : staged'[g][CaptureOrder[k]] # <<>> <=> k \in Made(g)'
                      /\ \A k \in Steps : k < turn[g] => Vetted(staged'[g], k, seen[g][1])
    BY VettedKept DEF CaptureInv, Close, Outside
  <2>1. CASE g # f
    <3>1. staged'[g] = staged[g] /\ pc'[g] = pc[g] /\ Made(g)' = Made(g)
      BY <1>0, <1>1, <2>1 DEF TypeOK, Made, Close
    <3> QED
      BY <1>0, <3>1 DEF CaptureInv
  <2>2. CASE g = f
    <3>1. /\ \A k \in Steps : staged[f][CaptureOrder[k]] # <<>> <=> k \in 1..(turn[f] - 1)
          /\ \A k \in Steps : k < turn[f] => Vetted(staged[f], k, seen[f][1])
      BY <1>0, <1>2 DEF CaptureInv, Made, Trying
    <3>2. Made(f)' = 1..turn[f]
      BY <1>0, <1>2 DEF TypeOK, Made, Close
    <3>3. staged'[f] = [staged[f] EXCEPT ![Current(f)] = c]
      BY <1>0, <1>1 DEF TypeOK
    <3>4. ASSUME NEW k \in Steps, k # turn[f]
          PROVE  staged'[f][CaptureOrder[k]] = staged[f][CaptureOrder[k]]
      BY <1>0, <1>2, <3>3, <3>4, CapturesDiffer, SourcesListed DEF TypeOK, Current
    <3>5. staged'[f][CaptureOrder[turn[f]]] # <<>>
      BY <1>0, <1>2, <1>2a, <3>3 DEF TypeOK, Current
    <3>6. ASSUME NEW k \in Steps
          PROVE  staged'[f][CaptureOrder[k]] # <<>> <=> k \in Made(f)'
      <4>1. CASE k = turn[f]
        BY <1>2, <3>2, <3>5, <4>1 DEF Steps
      <4>2. CASE k # turn[f]
        <5>1. k \in 1..turn[f] <=> k \in 1..(turn[f] - 1)
          BY <1>2, <4>2 DEF Steps
        <5> QED
          BY <3>1, <3>2, <3>4, <4>2, <5>1
      <4> QED
        BY <4>1, <4>2
    <3>7. ASSUME NEW k \in Steps, k < turn[f]
          PROVE  Upto(staged'[f], k) = Upto(staged[f], k)
      <4>1. ASSUME NEW j \in 1..k
            PROVE  staged'[f][CaptureOrder[j]] = staged[f][CaptureOrder[j]]
        BY <1>2, <3>4, <3>7 DEF Steps
      <4>2. ASSUME NEW s \in Sources
            PROVE  (IF \E j \in 1..k : s = CaptureOrder[j] THEN staged'[f][s] ELSE <<>>)
                 = (IF \E j \in 1..k : s = CaptureOrder[j] THEN staged[f][s] ELSE <<>>)
        BY <4>1
      <4> QED
        BY <4>2 DEF Upto
    <3>8. ASSUME NEW k \in Steps, k < turn[f]
          PROVE  Vetted(staged'[f], k, seen[f][1])
      BY <3>1, <3>7, <3>8 DEF Vetted
    <3> QED
      BY <2>2, <3>6, <3>8
  <2> QED
    BY <2>1, <2>2
<1>7. DestinationInv'
  BY <1>0, DestinationKept DEF Close, Outside
<1> QED
  BY <1>4, <1>5, <1>6, <1>7 DEF IInv

\* A check that passes has seen everything captured so far.
LEMMA CheckVets ==
  ASSUME IInv, NEW f \in Finalizers, pc[f] = "check", Acceptable(f)
  PROVE  Vetted(staged[f], turn[f], seen[f][1])
<1>0. TypeOK /\ turn[f] \in Steps
  BY DEF IInv, ControlInv
<1>1. \A k \in Steps : staged[f][CaptureOrder[k]] # <<>> <=> k \in 1..turn[f]
  BY DEF IInv, CaptureInv, Made, Trying
<1>2. ASSUME NEW s \in Sources
      PROVE  staged[f][s] = IF \E j \in 1..turn[f] : s = CaptureOrder[j]
                            THEN staged[f][s] ELSE <<>>
  BY <1>1, SourcesListed
<1>3. Upto(staged[f], turn[f]) = staged[f]
  <2>1. staged[f] = [s \in Sources |-> staged[f][s]]
    BY <1>0 DEF TypeOK
  <2> QED
    BY <1>2, <2>1 DEF Upto
<1>4. disk["outputs"] \in Versions
  <2>1. CaptureOrder[13] = "outputs"
    BY DEF CaptureOrder
  <2> QED
    BY <1>0, <2>1, SourcesListed DEF TypeOK, Steps
<1> QED
  BY <1>3, <1>4 DEF Acceptable, Vetted, Current

\* A check that accepts vets what was captured up to it; one that refuses aborts.
LEMMA CheckPreserves ==
  ASSUME IInv, NEW f \in Finalizers, Check(f)
  PROVE  IInv'
<1> DEFINE step == IF Acceptable(f) THEN AfterCheck(f) ELSE "abort"
<1>0. TypeOK /\ ControlInv /\ CaptureInv /\ pc' = [pc EXCEPT ![f] = step]
  BY DEF IInv, Check, Continue, Goto
<1>1. /\ turn[f] \in Steps /\ turn' = [turn EXCEPT ![f] = turn[f] + 1]
      /\ pc[f] = "check"
  BY <1>0 DEF ControlInv, Check
<1>2. AfterCheck(f) = "write" <=> turn[f] = 13
  BY Captures DEF AfterCheck, Current, CaptureOrder
<1>3. step \in {"head", "write", "open", "abort"} /\ (step = "head" => turn[f] # 13)
  BY Captures DEF AfterCheck, Current, CaptureOrder
<1>4. step = "write" => turn[f] = 13
  BY <1>2
<1>5. step = "open" => turn[f] # 13
  BY <1>2 DEF AfterCheck
<1>6. TypeOK'
  BY <1>0, <1>1, <1>3, Captures DEF TypeOK, Check, Outside, Trying, Steps
<1>7. ControlInv'
  <2> HIDE DEF step
  <2> QED
    BY <1>0, <1>1, <1>3, <1>4, <1>5
       DEF TypeOK, ControlInv, Check, Outside, Begun, Complete, Steps
<1>8. CaptureInv'
  <2> SUFFICES ASSUME NEW g \in Finalizers, pc'[g] \in Begun \cup Trying \cup {"done"}
               PROVE  /\ \A k \in Steps : staged[g][CaptureOrder[k]] # <<>> <=> k \in Made(g)'
                      /\ \A k \in Steps : k < turn'[g] => Vetted(staged[g], k, seen[g][1])
    BY VettedKept DEF CaptureInv, Check, Outside
  <2>1. CASE g # f
    <3>1. pc'[g] = pc[g] /\ turn'[g] = turn[g] /\ Made(g)' = Made(g)
      BY <1>0, <1>1, <2>1 DEF TypeOK, Made
    <3> QED
      BY <1>0, <3>1 DEF CaptureInv
  <2>2. CASE g = f
    <3>1. Acceptable(f)
      BY <1>0, <2>2 DEF TypeOK, Begun, Trying
    <3>2. /\ \A k \in Steps : staged[f][CaptureOrder[k]] # <<>> <=> k \in 1..turn[f]
          /\ \A k \in Steps : k < turn[f] => Vetted(staged[f], k, seen[f][1])
      BY <1>0, <1>1 DEF CaptureInv, Made, Trying
    <3>3. turn'[f] = turn[f] + 1 /\ Made(f)' = 1..turn[f]
      <4>1. pc'[f] # "check" /\ turn'[f] = turn[f] + 1
        BY <1>0, <1>1, <1>3 DEF TypeOK
      <4> QED
        BY <1>1, <4>1 DEF Made, Steps
    <3>4. Vetted(staged[f], turn[f], seen[f][1])
      BY <1>1, <3>1, CheckVets
    <3>5. \A k \in Steps : k < turn[f] + 1 => k < turn[f] \/ k = turn[f]
      BY <1>1 DEF Steps
    <3> QED
      BY <2>2, <3>2, <3>3, <3>4, <3>5
  <2> QED
    BY <2>1, <2>2
<1>9. DestinationInv'
  BY <1>0, <1>3, DestinationKept DEF Check, Outside
<1> QED
  BY <1>6, <1>7, <1>8, <1>9 DEF IInv

\* What a finalizer renames has been captured and checked completely.
LEMMA RenamedIsVetted ==
  ASSUME IInv, NEW f \in Finalizers, pc[f] = "rename"
  PROVE  /\ staged[f] \in [Sources -> Versions \X Versions]
         /\ \A k \in Steps : Vetted(staged[f], k, seen[f][1])
         /\ stage[f] = "whole"
<1>0. TypeOK /\ turn[f] = 14 /\ stage[f] = "whole"
  BY DEF IInv, ControlInv, Complete
<1>1. /\ \A k \in Steps : staged[f][CaptureOrder[k]] # <<>> <=> k \in 1..13
      /\ \A k \in Steps : k < 14 => Vetted(staged[f], k, seen[f][1])
  BY <1>0 DEF IInv, CaptureInv, Made, Trying
<1>2. \A k \in Steps : k < 14 /\ k \in 1..13
  BY DEF Steps
<1>3. staged[f] \in [Sources -> CapturePairs]
  BY <1>0 DEF TypeOK
<1>4. \A s \in Sources : staged[f][s] # <<>>
  BY <1>1, <1>2, SourcesListed
<1> QED
  BY <1>0, <1>1, <1>2, <1>3, <1>4 DEF CapturePairs

\* Nothing but an empty directory is replaced, so no archive is.
LEMMA RenamePreserves ==
  ASSUME IInv, NEW f \in Finalizers, Rename(f)
  PROVE  IInv'
<1>0. TypeOK /\ ControlInv /\ DestinationInv /\ pc[f] = "rename"
  BY DEF IInv, Rename
<1>1. CASE ~Replaceable
  <2>1. /\ pc' = [pc EXCEPT ![f] = "abort"]
        /\ UNCHANGED <<Outside, dest, turn, staged, seen, reading>>
        /\ stage' = stage
    BY <1>0, <1>1 DEF Rename, Continue, Goto, TypeOK
  <2>2. ControlInv'
    BY <1>0, <2>1 DEF TypeOK, ControlInv, Begun, Complete
  <2> QED
    BY <1>0, <2>1, <2>2, QuietStep DEF TypeOK, Trying, Ended
<1>2. CASE Replaceable
  <2>1. /\ pc' = [pc EXCEPT ![f] = "sync"]
        /\ dest' = ArchiveOf(f)
        /\ stage' = [stage EXCEPT ![f] = "none"]
        /\ UNCHANGED <<Outside, turn, staged, seen, reading>>
    BY <1>2 DEF Rename, Continue, Goto
  <2>2. dest'.kind = "archive" /\ dest'.by = f /\ dest'.bytes = staged[f] /\ dest'.whole = TRUE
    BY <1>0, <2>1, RenamedIsVetted DEF ArchiveOf
  <2>3. TypeOK'
    BY <1>0, <2>1, <2>2 DEF TypeOK, Outside, Trying
  <2>4. ControlInv'
    BY <1>0, <2>1 DEF TypeOK, ControlInv, Begun, Complete
  <2>5. CaptureInv'
    BY <1>0, <2>1, CaptureKept DEF Outside, Trying
  <2>6. ASSUME NEW g \in Finalizers, g # f PROVE pc'[g] \notin {"sync", "done"}
    <3>1. ~Archived
      BY <1>2 DEF Replaceable, Archived
    <3> QED
      BY <1>0, <2>1, <2>6, <3>1 DEF TypeOK, DestinationInv
  <2>7. \A k \in Steps : Vetted(dest.bytes, k, seen[f][1])'
    <3>1. \A k \in Steps : Vetted(staged[f], k, seen[f][1])
      BY <1>0, RenamedIsVetted
    <3>2. authorized' = authorized /\ seen' = seen /\ dest'.bytes = staged[f]
      BY <2>1, <2>2 DEF Outside
    <3> QED
      BY <3>1, <3>2 DEF Vetted
  <2>8. DestinationInv'
    BY <1>0, <2>2, <2>6, <2>7, RenamedIsVetted DEF DestinationInv, Archived
  <2> QED
    BY <2>3, <2>4, <2>5, <2>8 DEF IInv
<1> QED
  BY <1>1, <1>2

----------------------------------------------------------------------------
(* What holds in every state                                               *)

\* The inductive invariant of every behaviour of the finalizers.
THEOREM Invariance == Spec => []IInv
<1>1. IInv /\ UNCHANGED vars => IInv'
  BY CapturesKept DEF vars, IInv, TypeOK
<1>2. ASSUME IInv, NEW f \in Finalizers, Step(f) PROVE IInv'
  BY <1>2, QuietSteps, PreflightPreserves, ClosePreserves, CheckPreserves,
     RenamePreserves DEF Step
<1>3. IInv /\ [Next]_vars => IInv'
  BY <1>1, <1>2, WorldPreserves DEF Next
<1> QED
  BY InitIInv, <1>3, PTL DEF Spec

\* The type of the state (archive, 1847-2175).
THEOREM Typing == Spec => []TypeOK
<1>1. IInv => TypeOK
  BY DEF IInv
<1> QED
  BY Invariance, <1>1, PTL

\* However many finalizers run for one destination, what is there is whole, and
\* a finalizer that reports success finds its own archive (archive, 2138-2171).
THEOREM SuccessLasts == Spec => []SuccessIsArchived
<1>1. IInv => SuccessIsArchived
  BY DEF IInv, DestinationInv, SuccessIsArchived
<1> QED
  BY Invariance, <1>1, PTL

\* A finalizer that ended by itself has no stage directory left, unless rmtree
\* failed (archive, 2172-2175).
THEOREM StagesRemoved == Spec => []NoStageLeft
<1>1. IInv => NoStageLeft
  BY DEF IInv, ControlInv, NoStageLeft
<1> QED
  BY Invariance, <1>1, PTL

\* The destination goes from nothing to one whole archive, once, for any number
\* of finalizers and any contents (archive, 2164-2171).
THEOREM PublishesOnce == Spec => StoreSpec
<1> DEFINE shown == IF Archived THEN <<dest.by, dest.bytes>> ELSE <<>>
<1>1. Init => Store!Init
  BY DEF Init, Archived, Absent, Store!Init
<1>2. ASSUME IInv, [Next]_vars PROVE [Store!Next]_shown
  <2>1. CASE UNCHANGED dest
    BY <2>1 DEF Archived
  <2>2. CASE MakeDirectory
    BY <2>2 DEF MakeDirectory, Archived, Absent, EmptyDirectory
  <2>3. ASSUME NEW f \in Finalizers, Rename(f), dest' # dest PROVE Store!Next
    <3>1. Replaceable /\ dest' = ArchiveOf(f) /\ pc[f] = "rename"
      BY <2>3 DEF Rename
    <3>2. ~Archived /\ Archived' /\ dest'.by = f /\ dest'.bytes = staged[f]
      BY <3>1 DEF Replaceable, Archived, ArchiveOf
    <3>3. <<f, staged[f]>> \in Finalizers \X [Sources -> Versions \X Versions]
      BY <1>2, <3>1, RenamedIsVetted
    <3> QED
      BY <3>2, <3>3 DEF Store!Next, Store!Publish
  <2>4. ASSUME NEW f \in Finalizers, Step(f), ~Rename(f) PROVE UNCHANGED dest
    BY <2>4 DEF Step, Preflight, MakeStage, Open, Close, ChangedWhileCaptured, Check,
                GitHead, GitStatus, WriteGenerated, Postflight, ConfirmAbsent,
                SyncParent, Raise, CleanUp
  <2>5. ASSUME World, ~MakeDirectory PROVE UNCHANGED dest
    BY <2>5 DEF World, Launch, Kill, Edit, CheckOut
  <2> QED
    BY <1>2, <2>1, <2>2, <2>3, <2>4, <2>5 DEF Next, vars
<1> QED
  BY Invariance, <1>1, <1>2, PTL DEF Spec, StoreSpec, Store!Spec

----------------------------------------------------------------------------
(* What the checks say of a published archive                              *)

\* A check sees the bytes that are published in the end.
LEMMA EarlierFieldsStay ==
  ASSUME NEW c \in [Sources -> Versions \X Versions], NEW k \in Steps, NEW j \in Steps,
         j <= k
  PROVE  Bundle(Upto(c, k))[CaptureOrder[j]] = Bundle(c)[CaptureOrder[j]]
<1> DEFINE s == CaptureOrder[j]
<1>1. s \in Sources
  BY SourcesListed
<1>2. j \in 1..k
  BY DEF Steps
<1>3. Upto(c, k)[s] = c[s]
  BY <1>1, <1>2 DEF Upto
<1>4. c[s] # <<>>
  BY <1>1, CapturedPair
<1> HIDE DEF s
<1>5. Bundle(c)[s] = Captured(s, c[s])
  BY <1>1, <1>4 DEF Bundle
<1>6. Bundle(Upto(c, k))[s] = Captured(s, Upto(c, k)[s])
  BY <1>1, <1>3, <1>4 DEF Bundle
<1> QED
  BY <1>3, <1>5, <1>6 DEF s

\* What the check of capture k read of earlier captures is what the archive has.
LEMMA FieldsStay ==
  ASSUME NEW c \in [Sources -> Versions \X Versions], NEW k \in Steps
  PROVE  LET b == Bundle(c)
             x == Bundle(Upto(c, k)) IN
         /\ x.tools = b.tools
         /\ k >= 2 => x.receipt = b.receipt
         /\ k >= 3 => x.report1 = b.report1
         /\ k >= 4 => x.report2 = b.report2
         /\ k >= 5 => x.contract = b.contract
         /\ k >= 6 => x.validator = b.validator
         /\ k >= 7 => x.sources = b.sources
         /\ k >= 8 => x.approval = b.approval
         /\ k >= 9 => x.references = b.references
         /\ k >= 10 => x.logs1 = b.logs1
         /\ k >= 11 => x.logs2 = b.logs2
         /\ k >= 12 => x.linked = b.linked
         /\ k >= 13 => x.outputs = b.outputs
<1>1. \A j \in Steps : j <= k =>
        Bundle(Upto(c, k))[CaptureOrder[j]] = Bundle(c)[CaptureOrder[j]]
  BY EarlierFieldsStay
<1>2. k \in Int /\ 1 <= k /\ \A j \in 1..13 : j \in Steps
  BY DEF Steps
<1> QED
  BY <1>1, <1>2 DEF CaptureOrder

\* The check after the k-th capture of a published archive.
LEMMA ArchivePassed ==
  ASSUME IInv, Archived, NEW k \in Steps
  PROVE  /\ dest.bytes \in [Sources -> Versions \X Versions]
         /\ CaptureOrder[k] = "receipt" =>
                Bundle(Upto(dest.bytes, k)).receipt = Content("receipt", authorized)
         /\ \E h, exe : Requires(CaptureOrder[k], Bundle(Upto(dest.bytes, k)), h, exe)
  BY DEF IInv, DestinationInv, Vetted

\* The check after the k-th capture, for the captures that matter below.
LEMMA ArchiveChecks ==
  ASSUME IInv, Archived
  PROVE  LET x(k) == Bundle(Upto(dest.bytes, k)) IN
         /\ x(2).receipt = Content("receipt", authorized)
         /\ SourcesMatch(x(7))
         /\ ApprovalAccepted(x(9))
         /\ \E exe : RunAccepted(x(10), 1, exe)
         /\ \E exe : RunAccepted(x(11), 2, exe)
         /\ RunsAgree(x(11))
         /\ OutputsAccepted(x(13))
         /\ \E h : Authorized(x(13), h)
<1>1. /\ CaptureOrder[2] = "receipt" /\ CaptureOrder[7] = "sources"
      /\ CaptureOrder[9] = "references" /\ CaptureOrder[10] = "logs1"
      /\ CaptureOrder[11] = "logs2" /\ CaptureOrder[13] = "outputs"
  BY DEF CaptureOrder
<1>2. 2 \in Steps /\ 7 \in Steps /\ 9 \in Steps /\ 10 \in Steps /\ 11 \in Steps
      /\ 13 \in Steps
  BY DEF Steps
<1> QED
  BY <1>1, <1>2, ArchivePassed DEF Requires

\* The same, for the fields of a published archive.
LEMMA ArchiveFields ==
  ASSUME IInv, Archived, NEW k \in Steps
  PROVE  LET b == ArchiveBundle
             x == Bundle(Upto(dest.bytes, k)) IN
         /\ x.tools = b.tools
         /\ k >= 2 => x.receipt = b.receipt
         /\ k >= 7 => Manifest(x) = Manifest(b) /\ x.validator = b.validator
                      /\ x.sources = b.sources /\ x.contract = b.contract
         /\ k >= 9 => x.approval = b.approval /\ x.references = b.references
         /\ k >= 10 => Report(x, 1) = Report(b, 1) /\ Report(x, 2) = Report(b, 2)
                       /\ Logs(x, 1) = Logs(b, 1)
         /\ k >= 11 => Logs(x, 2) = Logs(b, 2)
         /\ k >= 13 => x.linked = b.linked /\ x.outputs = b.outputs
<1>1. dest.bytes \in [Sources -> Versions \X Versions] /\ k \in Int
  BY ArchivePassed DEF Steps
<1> QED
  BY <1>1, FieldsStay DEF ArchiveBundle, Manifest, Report, Logs

\* A result of a published archive, by AcceptedResult.
LEMMA ArchivedResult ==
  ASSUME IInv, Archived, NEW r \in Runs, NEW i \in 1..TargetCount
  PROVE  LET b == ArchiveBundle
             row == Row(b, r, i)
             t == Manifest(b)[i]
             log == Logs(b, r)[i] IN
         /\ Report(b, r).contract = b.contract
         /\ row.transcript = log
         /\ row.files = t.files
         /\ row.pre.exe = Report(b, r).exe /\ row.post.exe = Report(b, r).exe
         /\ Lines(log, "wire") = t.identity.theorems
         /\ Lines(log, "state") = <<t.identity.state>>
         /\ Lines(log, "process") =
                <<<<Report(b, r).evidence.nonce, row.process, "START">>,
                  <<Report(b, r).evidence.nonce, row.process, "COMPLETE">>>>
         /\ DOMAIN Logs(b, r) = 1..TargetCount
         /\ TranscriptAccepted(log, row.suite, row.process, row.linked, row.identity,
                               row.markers)
         /\ \A j \in 1..TargetCount : i # j => row.process # Row(b, r, j).process
<1> DEFINE k == IF r = 1 THEN 10 ELSE 11
           x == Bundle(Upto(dest.bytes, k))
<1>1. PICK exe : RunAccepted(x, r, exe)
  BY ArchiveChecks DEF Runs
<1>2. k \in Steps /\ k >= 10 /\ (r = 2 => k >= 11) /\ r \in {1, 2}
  BY DEF Steps, Runs
<1> HIDE DEF k
<1>3. /\ Manifest(x) = Manifest(ArchiveBundle) /\ x.contract = ArchiveBundle.contract
      /\ Report(x, r) = Report(ArchiveBundle, r)
      /\ Logs(x, r) = Logs(ArchiveBundle, r)
  BY <1>2, ArchiveFields DEF Steps
<1>4. \A j \in 1..TargetCount : Row(x, r, j) = Row(ArchiveBundle, r, j)
  BY <1>3 DEF Row
<1> HIDE DEF x
<1> QED
  BY <1>1, <1>3, <1>4, AcceptedResult, OneProcessPerTarget

\* The two runs of a published archive, by AgreeingRuns.
LEMMA ArchivedRuns ==
  ASSUME IInv, Archived
  PROVE  LET b == ArchiveBundle IN
         /\ Report(b, 1).evidence.nonce # Report(b, 2).evidence.nonce
         /\ Report(b, 1).exe = Report(b, 2).exe
         /\ DOMAIN Manifest(b) = 1..TargetCount
<1> DEFINE x == Bundle(Upto(dest.bytes, 11))
<1>1. RunsAgree(x)
  BY ArchiveChecks
<1>2. 11 \in Steps
  BY DEF Steps
<1>3. /\ Manifest(x) = Manifest(ArchiveBundle)
      /\ Report(x, 1) = Report(ArchiveBundle, 1)
      /\ Report(x, 2) = Report(ArchiveBundle, 2)
  BY <1>2, ArchiveFields
<1> HIDE DEF x
<1> QED
  BY <1>1, <1>3, AgreeingRuns

\* A reference run of a published archive, by AcceptedReference.
LEMMA ArchivedReference ==
  ASSUME IInv, Archived, NEW i \in 1..TargetCount, NEW r \in Runs
  PROVE  LET b == ArchiveBundle
             t == Manifest(b)[i]
             plan == ReferenceText(b, i, r, "plan")
             transcript == ReferenceText(b, i, r, "transcript") IN
         /\ plan.collector = b.validator
         /\ SourcesSelected(plan, t)
         /\ transcript.nonce = b.approval.targets[i].runs[r].nonce
         /\ transcript.theorems = t.identity.theorems
         /\ transcript.state = t.identity.state
         /\ TwoRuns(b.approval.targets[i])
         /\ \A k \in AllKinds :
                ReferenceText(b, i, r, k) = b.approval.targets[i].runs[r].artifacts[k].text
         /\ DOMAIN b.references = ArtifactPaths(b.approval)
<1> DEFINE x == Bundle(Upto(dest.bytes, 9))
<1>1. ApprovalAccepted(x)
  BY ArchiveChecks
<1>2. 9 \in Steps
  BY DEF Steps
<1>3. /\ Manifest(x) = Manifest(ArchiveBundle)
      /\ x.validator = ArchiveBundle.validator
      /\ x.approval = ArchiveBundle.approval /\ x.references = ArchiveBundle.references
  BY <1>2, ArchiveFields
<1>4. DOMAIN Manifest(x) = 1..TargetCount
  BY <1>3, ArchivedRuns
<1>5. \A k : ReferenceText(x, i, r, k) = ReferenceText(ArchiveBundle, i, r, k)
  BY <1>3 DEF ReferenceText
<1>6. /\ \A k \in AllKinds :
            ReferenceText(x, i, r, k) = x.approval.targets[i].runs[r].artifacts[k].text
      /\ DOMAIN x.references = ArtifactPaths(x.approval)
  BY <1>1, <1>4, AcceptedReference
<1>7. LET t == Manifest(x)[i]
          plan == ReferenceText(x, i, r, "plan")
          transcript == ReferenceText(x, i, r, "transcript") IN
      /\ plan.collector = x.validator
      /\ SourcesSelected(plan, t)
      /\ transcript.nonce = x.approval.targets[i].runs[r].nonce
      /\ transcript.theorems = t.identity.theorems
      /\ transcript.state = t.identity.state
      /\ TwoRuns(x.approval.targets[i])
  BY <1>1, <1>4, AcceptedReference
<1> HIDE DEF x
<1> QED
  BY <1>3, <1>5, <1>6, <1>7

\* The last checks: the outputs of the build, and the receipt.
LEMMA ArchivedBuild ==
  ASSUME IInv, Archived
  PROVE  LET b == ArchiveBundle IN
         /\ b.outputs["cake"] = Report(b, 1).exe
         /\ \A k \in LinkedOutputs : b.outputs[k] = b.linked.outputs[k]
         /\ b.receipt = Content("receipt", authorized)
         /\ b.receipt.reports = <<Report(b, 1), Report(b, 2)>>
         /\ b.receipt.linked = b.linked
         /\ b.receipt.approval = b.approval
<1> DEFINE x == Bundle(Upto(dest.bytes, 13))
           y == Bundle(Upto(dest.bytes, 2))
<1>1. OutputsAccepted(x) /\ (\E h : Authorized(x, h)) /\ y.receipt = Content("receipt", authorized)
  BY ArchiveChecks
<1>2. 13 \in Steps /\ 2 \in Steps
  BY DEF Steps
<1>3. /\ Report(x, 1) = Report(ArchiveBundle, 1) /\ Report(x, 2) = Report(ArchiveBundle, 2)
      /\ x.linked = ArchiveBundle.linked /\ x.outputs = ArchiveBundle.outputs
      /\ x.receipt = ArchiveBundle.receipt /\ y.receipt = ArchiveBundle.receipt
      /\ x.approval = ArchiveBundle.approval
  BY <1>2, ArchiveFields
<1> HIDE DEF x, y
<1>4. /\ x.outputs["cake"] = Report(x, 1).exe
      /\ \A k \in LinkedOutputs : x.outputs[k] = x.linked.outputs[k]
  <2>1. [k \in LinkedOutputs |-> x.outputs[k]] = x.linked.outputs
    BY <1>1 DEF OutputsAccepted
  <2>2. \A k \in LinkedOutputs : [l \in LinkedOutputs |-> x.outputs[l]][k] = x.outputs[k]
    OBVIOUS
  <2>3. x.outputs["cake"] = x.report1.exe
    BY <1>1 DEF OutputsAccepted
  <2> QED
    BY <2>1, <2>2, <2>3 DEF Report
<1>5. /\ x.receipt.reports = <<Report(x, 1), Report(x, 2)>>
      /\ x.receipt.linked = x.linked
      /\ x.receipt.approval = x.approval
  BY <1>1 DEF Authorized, Report
<1> QED
  BY <1>1, <1>3, <1>4, <1>5

\* The archived sources of a target are the ones it was audited with.
LEMMA ArchivedSources ==
  ASSUME IInv, Archived, NEW i \in 1..TargetCount
  PROVE  /\ \A f \in ToSet(Manifest(ArchiveBundle)[i].files) :
                ArchiveBundle.sources[f] = Manifest(ArchiveBundle)[i].hash[f]
         /\ DOMAIN ArchiveBundle.sources =
                UNION {ToSet(Manifest(ArchiveBundle)[j].files) : j \in 1..TargetCount}
<1> DEFINE x == Bundle(Upto(dest.bytes, 7))
<1>1. SourcesMatch(x)
  BY ArchiveChecks
<1>2. 7 \in Steps
  BY DEF Steps
<1>3. Manifest(x) = Manifest(ArchiveBundle) /\ x.sources = ArchiveBundle.sources
  BY <1>2, ArchiveFields
<1>4. DOMAIN Manifest(ArchiveBundle) = 1..TargetCount
  BY ArchivedRuns
<1> HIDE DEF x
<1> QED
  BY <1>1, <1>3, <1>4 DEF SourcesMatch

----------------------------------------------------------------------------
(* The properties of a published archive                                   *)

\* All runs of a published archive, the two of Candle and the two of the
\* reference, used the executable, the sources and the validator that are archived
\* with them, for any numbers of targets and files (validate_report_and_capture_logs,
\* validate_reference_plan_bindings, validate_linked_and_capture).
THEOREM InputsAreUsed == Spec => []ArchivedInputsAreUsed
<1>1. ASSUME IInv, Archived, NEW i \in 1..TargetCount, NEW r \in Runs
      PROVE  LET b == ArchiveBundle
                 row == Row(b, r, i)
                 plan == ReferenceText(b, i, r, "plan") IN
             /\ row.pre.exe = b.outputs["cake"]
             /\ row.post.exe = b.outputs["cake"]
             /\ plan.collector = b.validator
             /\ plan.sources = [k \in DOMAIN row.files |->
                                    <<row.files[k], b.sources[row.files[k]]>>]
  <2> DEFINE b == ArchiveBundle
             row == Row(b, r, i)
             t == Manifest(b)[i]
             plan == ReferenceText(b, i, r, "plan")
  <2>1. row.files = t.files /\ row.pre.exe = b.outputs["cake"] /\ row.post.exe = b.outputs["cake"]
    BY <1>1, ArchivedResult, ArchivedRuns, ArchivedBuild DEF Runs
  <2>2. plan.collector = b.validator /\ SourcesSelected(plan, t)
    BY <1>1, ArchivedReference
  <2>3. \A f \in ToSet(t.files) : b.sources[f] = t.hash[f]
    BY <1>1, ArchivedSources
  <2> HIDE DEF b, row, t, plan
  <2>4. \A k \in DOMAIN t.files : b.sources[t.files[k]] = t.hash[t.files[k]]
    BY <2>3 DEF ToSet
  <2>5. plan.sources = [k \in DOMAIN row.files |-> <<row.files[k], b.sources[row.files[k]]>>]
    BY <2>1, <2>2, <2>4 DEF SourcesSelected
  <2> QED
    BY <2>1, <2>2, <2>5 DEF b, row, t, plan
<1>2. IInv => ArchivedInputsAreUsed
  BY <1>1 DEF ArchivedInputsAreUsed, SameInputs, Row
<1> QED
  BY Invariance, <1>2, PTL

\* In a published archive the transcripts of both Candle runs and of both
\* reference runs of each target show the same theorems and the same kernel state
\* (validate_transcript, validate_candidate_identity_projection).
THEOREM IdentityIsWitnessed == Spec => []ArchivedIdentityIsWitnessed
<1>1. ASSUME IInv, Archived, NEW i \in 1..TargetCount, NEW r \in Runs, NEW q \in Runs
      PROVE  LET b == ArchiveBundle
                 reference == ReferenceText(b, i, q, "transcript") IN
             /\ Lines(Logs(b, r)[i], "wire") = reference.theorems
             /\ Lines(Logs(b, r)[i], "state") = <<reference.state>>
  BY <1>1, ArchivedResult, ArchivedReference
<1>2. IInv => ArchivedIdentityIsWitnessed
  BY <1>1 DEF ArchivedIdentityIsWitnessed, WitnessedIdentity
<1> QED
  BY Invariance, <1>2, PTL

\* No transcript of a published archive stands for two results, and the reference
\* runs of a target are two (validate_report_and_capture_logs,
\* validate_approval_and_capture).
THEOREM RunsAreDistinct == Spec => []ArchivedRunsAreDistinct
<1>1. ASSUME IInv, Archived, NEW x \in Results, NEW y \in Results, x # y
      PROVE  Logs(ArchiveBundle, x[1])[x[2]] # Logs(ArchiveBundle, y[1])[y[2]]
  <2> DEFINE nonce(z) == Report(ArchiveBundle, z[1]).evidence.nonce
             process(z) == Row(ArchiveBundle, z[1], z[2]).process
             log(z) == Logs(ArchiveBundle, z[1])[z[2]]
  <2>1. \A z \in Results : Lines(log(z), "process") =
            <<<<nonce(z), process(z), "START">>, <<nonce(z), process(z), "COMPLETE">>>>
    BY <1>1, ArchivedResult DEF Results
  <2>2. nonce(x) # nonce(y) \/ process(x) # process(y)
    <3>1. CASE x[1] = y[1]
      <4>1. x[2] # y[2] /\ x[1] \in Runs /\ x[2] \in 1..TargetCount /\ y[2] \in 1..TargetCount
        BY <1>1, <3>1 DEF Results
      <4> QED
        BY <1>1, <3>1, <4>1, ArchivedResult
    <3>2. CASE x[1] # y[1]
      <4>1. {x[1], y[1]} = {1, 2}
        BY <1>1, <3>2 DEF Results, Runs
      <4> QED
        BY <1>1, <4>1, ArchivedRuns
    <3> QED
      BY <3>1, <3>2
  <2> HIDE DEF nonce, process, log
  <2>3. Lines(log(x), "process") # Lines(log(y), "process")
    BY <1>1, <2>1, <2>2
  <2> QED
    BY <2>3 DEF log
<1>2. ASSUME IInv, Archived, NEW i \in 1..TargetCount
      PROVE  ReferenceText(ArchiveBundle, i, 1, "transcript")
                # ReferenceText(ArchiveBundle, i, 2, "transcript")
  BY <1>2, ArchivedReference DEF Runs, TwoRuns
<1>3. IInv => ArchivedRunsAreDistinct
  BY <1>1, <1>2 DEF ArchivedRunsAreDistinct, DistinctEvidence
<1> QED
  BY Invariance, <1>3, PTL

\* A captured family is a function, and each of its files is one that the family
\* has at some version.
LEMMA CapturedFamily ==
  ASSUME NEW s \in Families, NEW c \in Versions \X Versions
  PROVE  LET x == Captured(s, c) IN
         /\ x = [k \in DOMAIN x |-> x[k]]
         /\ \E v \in Versions : DOMAIN x = DOMAIN Content(s, v)
         /\ \A k \in DOMAIN x : \E v \in Versions :
                k \in DOMAIN Content(s, v) /\ x[k] = Content(s, v)[k]
<1>1. c[1] \in Versions /\ c[2] \in Versions
  OBVIOUS
<1> DEFINE x == Content(s, c[1])
           y == Content(s, c[2])
<1>2. x = [k \in DOMAIN x |-> x[k]]
  BY <1>1, ContentAssumption
<1>3. CASE c[1] = c[2]
  <2>1. Captured(s, c) = x
    BY <1>3 DEF Captured
  <2> HIDE DEF x
  <2>2. /\ \E v \in Versions : DOMAIN x = DOMAIN Content(s, v)
        /\ \A k \in DOMAIN x : \E v \in Versions :
                k \in DOMAIN Content(s, v) /\ x[k] = Content(s, v)[k]
    BY <1>1 DEF x
  <2> QED BY <1>2, <2>1, <2>2
<1>4. CASE c[1] # c[2]
  <2>1. Captured(s, c) = Blend(x, y)
    BY <1>4 DEF Captured
  <2> DEFINE one == CHOOSE k \in DOMAIN x : TRUE
             z == [k \in DOMAIN x |-> IF k = one \/ k \notin DOMAIN y THEN x[k] ELSE y[k]]
  <2>2. Blend(x, y) = z
    BY DEF Blend
  <2> HIDE DEF one
  <2>3. z = [k \in DOMAIN z |-> z[k]] /\ DOMAIN z = DOMAIN x
    OBVIOUS
  <2>4. \A k \in DOMAIN z : \/ k \in DOMAIN x /\ z[k] = x[k]
                            \/ k \in DOMAIN y /\ z[k] = y[k]
    OBVIOUS
  <2> HIDE DEF z, x, y
  <2>5. \A k \in DOMAIN z : \E v \in Versions :
            k \in DOMAIN Content(s, v) /\ z[k] = Content(s, v)[k]
    BY <1>1, <2>4 DEF x, y
  <2>6. \E v \in Versions : DOMAIN z = DOMAIN Content(s, v)
    BY <1>1, <2>3 DEF x
  <2> QED BY <2>1, <2>2, <2>3, <2>5, <2>6
<1> QED
  BY <1>3, <1>4

\* What a published archive has of a source.
LEMMA ArchivedSource ==
  ASSUME IInv, Archived, NEW s \in Sources
  PROVE  /\ dest.bytes[s] # <<>> /\ dest.bytes[s] \in Versions \X Versions
         /\ ArchiveBundle[s] = Captured(s, dest.bytes[s])
<1>1. dest.bytes[s] \in Versions \X Versions
  BY DEF IInv, DestinationInv
<1>2. dest.bytes[s] # <<>>
  BY <1>1, CapturedPair
<1> QED
  BY <1>1, <1>2 DEF ArchiveBundle, Bundle

\* The names of the sources.
LEMMA SourceNames ==
  /\ Sources = {"tools", "receipt", "report1", "report2", "contract", "validator",
                "sources", "approval", "references", "logs1", "logs2", "linked", "outputs"}
  /\ Families \subseteq Sources
<1>1. /\ \A k \in Steps : CaptureOrder[k] \in
            {"tools", "receipt", "report1", "report2", "contract", "validator", "sources",
             "approval", "references", "logs1", "logs2", "linked", "outputs"}
      /\ CaptureOrder[1] = "tools" /\ CaptureOrder[2] = "receipt"
      /\ CaptureOrder[3] = "report1" /\ CaptureOrder[4] = "report2"
      /\ CaptureOrder[5] = "contract" /\ CaptureOrder[6] = "validator"
      /\ CaptureOrder[7] = "sources" /\ CaptureOrder[8] = "approval"
      /\ CaptureOrder[9] = "references" /\ CaptureOrder[10] = "logs1"
      /\ CaptureOrder[11] = "logs2" /\ CaptureOrder[12] = "linked"
      /\ CaptureOrder[13] = "outputs"
  BY DEF CaptureOrder, Steps
<1>2. \A k \in 1..13 : k \in Steps
  BY DEF Steps
<1>3. Sources = {CaptureOrder[k] : k \in Steps}
  BY Captures DEF Sources
<1>4. Sources = {"tools", "receipt", "report1", "report2", "contract", "validator",
                "sources", "approval", "references", "logs1", "logs2", "linked", "outputs"}
  <2>1. \A k \in 1..13 : CaptureOrder[k] \in Sources
    BY <1>2, <1>3
  <2>2. \A s \in {"tools", "receipt", "report1", "report2", "contract", "validator",
                "sources", "approval", "references", "logs1", "logs2", "linked", "outputs"} :
            s \in Sources
    BY <1>1, <2>1
  <2> QED BY <1>1, <1>3, <2>2
<1> QED
  BY <1>4 DEF Families

\* Each transcript of a published archive is the output of one complete Candle
\* process, which verified its link before it printed a fingerprint and printed no
\* more after its end, for transcripts of any length (validate_transcript).
THEOREM ProcessesAreWhole == Spec => []ArchivedProcessesAreWhole
<1>1. ASSUME IInv, Archived, NEW r \in Runs, NEW i \in 1..TargetCount
      PROVE  ProtocolState(Logs(ArchiveBundle, r)[i]) = "ended"
  <2> DEFINE s == IF r = 1 THEN "logs1" ELSE "logs2"
             logs == Logs(ArchiveBundle, r)
             row == Row(ArchiveBundle, r, i)
  <2>1. /\ DOMAIN logs = 1..TargetCount
        /\ TranscriptAccepted(logs[i], row.suite, row.process, row.linked, row.identity,
                              row.markers)
    BY <1>1, ArchivedResult
  <2>2. s \in Families /\ s \in Sources /\ s \in {"logs1", "logs2"}
    BY SourceNames DEF Families
  <2>3. logs = ArchiveBundle[s]
    BY DEF Logs
  <2>4. dest.bytes[s] \in Versions \X Versions /\ ArchiveBundle[s] = Captured(s, dest.bytes[s])
    BY <1>1, <2>2, ArchivedSource
  <2> HIDE DEF s, logs, row
  <2>5. PICK v \in Versions : i \in DOMAIN Content(s, v) /\ logs[i] = Content(s, v)[i]
    <3>1. \A k \in DOMAIN Captured(s, dest.bytes[s]) : \E v \in Versions :
            k \in DOMAIN Content(s, v) /\ Captured(s, dest.bytes[s])[k] = Content(s, v)[k]
      BY <2>2, <2>4, CapturedFamily
    <3> QED BY <2>1, <2>3, <2>4, <3>1
  <2>6. IsTranscript(logs[i])
    BY <2>2, <2>5, ContentAssumption DEF IsTranscript
  <2>7. ProtocolState(logs[i]) = "ended"
    BY <2>1, <2>6, AcceptedTranscriptIsWhole
  <2> QED BY <2>7 DEF logs
<1>2. IInv => ArchivedProcessesAreWhole
  BY <1>1 DEF ArchivedProcessesAreWhole, OneProcessEach, Results
<1> QED
  BY Invariance, <1>2, PTL

\* The last checks of a published archive: the whole receipt and the whole build.
LEMMA ArchivedAuthorization ==
  ASSUME IInv, Archived
  PROVE  LET b == ArchiveBundle
             receipt == Content("receipt", authorized) IN
         /\ b.receipt = receipt
         /\ b.tools.finalizer = receipt.project.finalizer
         /\ b.tools.python = receipt.tools.python
         /\ b.tools.git = receipt.tools.git
         /\ b.outputs["direct"] = b.linked.manifest
         /\ b.outputs["patch"] = b.linked.patch
<1> DEFINE x == Bundle(Upto(dest.bytes, 13))
<1>1. OutputsAccepted(x) /\ (\E h : Authorized(x, h))
  BY ArchiveChecks
<1>2. 13 \in Steps
  BY DEF Steps
<1>3. /\ x.linked = ArchiveBundle.linked /\ x.outputs = ArchiveBundle.outputs
      /\ x.receipt = ArchiveBundle.receipt /\ x.tools = ArchiveBundle.tools
  BY <1>2, ArchiveFields
<1>4. ArchiveBundle.receipt = Content("receipt", authorized)
  BY ArchivedBuild
<1> HIDE DEF x
<1>5. /\ x.receipt.project.finalizer = x.tools.finalizer
      /\ x.receipt.tools.python = x.tools.python
      /\ x.receipt.tools.git = x.tools.git
  BY <1>1 DEF Authorized
<1>6. x.outputs["direct"] = x.linked.manifest /\ x.outputs["patch"] = x.linked.patch
  BY <1>1 DEF OutputsAccepted
<1> QED
  BY <1>3, <1>4, <1>5, <1>6

\* The receipt whose digest is on the command line determines every file of a
\* published archive, whatever the sources held while it was made: both reports,
\* their transcripts, the contract, the validator, the sources, the approval, its
\* reference runs, the linked build and the tools (validate_authorization and the
\* digests that the validators compare).
THEOREM ReceiptFixesArchive ==
  Spec => [](Archived => FixedBy(Content("receipt", authorized), ArchiveBundle))
<1> DEFINE b == ArchiveBundle
           receipt == Content("receipt", authorized)
           report == receipt.reports[1]
           audited == report.contract.manifest
           artifacts(i, r) == receipt.approval.targets[i].runs[r].artifacts
<1>1. ASSUME IInv, Archived PROVE FixedBy(receipt, b)
  <2>1. 1 \in Runs /\ 1 \in 1..TargetCount
    BY EvidenceAssumption DEF Runs
  <2>2. /\ b.receipt = receipt /\ receipt.reports = <<Report(b, 1), Report(b, 2)>>
        /\ b.linked = receipt.linked /\ b.approval = receipt.approval
        /\ \A k \in LinkedOutputs : b.outputs[k] = receipt.linked.outputs[k]
    BY <1>1, ArchivedBuild
  <2>3. /\ b.tools.finalizer = receipt.project.finalizer
        /\ b.tools.python = receipt.tools.python
        /\ b.tools.git = receipt.tools.git
        /\ b.outputs["direct"] = receipt.linked.manifest
        /\ b.outputs["patch"] = receipt.linked.patch
    BY <1>1, <2>2, ArchivedAuthorization
  <2>4. \A r \in Runs : receipt.reports[r] = Report(b, r)
    BY <2>2 DEF Runs
  <2>5. Report(b, 1).contract = b.contract
    BY <1>1, <2>1, ArchivedResult
  <2>6. ASSUME NEW i \in 1..TargetCount, NEW r \in Runs
        PROVE  /\ DOMAIN Logs(b, r) = 1..TargetCount
               /\ Row(b, r, i).transcript = Logs(b, r)[i]
               /\ b.validator = ReferenceText(b, i, r, "plan").collector
               /\ \A k \in AllKinds :
                    ReferenceText(b, i, r, k) = b.approval.targets[i].runs[r].artifacts[k].text
               /\ DOMAIN b.references = ArtifactPaths(b.approval)
    BY <1>1, ArchivedResult, ArchivedReference
  <2>7. \A i \in 1..TargetCount :
            /\ \A f \in ToSet(Manifest(b)[i].files) : b.sources[f] = Manifest(b)[i].hash[f]
            /\ DOMAIN b.sources = UNION {ToSet(Manifest(b)[j].files) : j \in 1..TargetCount}
    BY <1>1, ArchivedSources
  <2>8. "plan" \in AllKinds
    BY DEF ArtifactKinds, AllKinds
  <2> HIDE DEF b, receipt
  <2>9. report.contract = b.contract /\ audited = Manifest(b)
    BY <2>1, <2>4, <2>5 DEF Manifest
  <2>10. ASSUME NEW i \in 1..TargetCount, NEW r \in Runs
         PROVE  /\ Report(b, r) = receipt.reports[r]
                /\ DOMAIN Logs(b, r) = 1..TargetCount
                /\ Logs(b, r)[i] = receipt.reports[r].results[i].transcript
                /\ b.validator = artifacts(i, r)["plan"].text.collector
                /\ \A k \in AllKinds : b.references[artifacts(i, r)[k].path]
                                            = artifacts(i, r)[k].text
    <3>1. receipt.reports[r] = Report(b, r)
      BY <2>4
    <3>2. Row(b, r, i) = receipt.reports[r].results[i]
      BY <3>1 DEF Row
    <3>3. artifacts(i, r) = b.approval.targets[i].runs[r].artifacts
      BY <2>2
    <3>4. \A k : ReferenceText(b, i, r, k) = b.references[artifacts(i, r)[k].path]
      BY <3>3 DEF ReferenceText
    <3>5. \A k \in AllKinds : ReferenceText(b, i, r, k) = artifacts(i, r)[k].text
      BY <2>6, <3>3
    <3> HIDE DEF artifacts
    <3>6. b.validator = artifacts(i, r)["plan"].text.collector
      BY <2>6, <2>8, <3>5
    <3> QED
      BY <2>6, <3>1, <3>2, <3>4, <3>5, <3>6
  <2>11. /\ DOMAIN b.sources = UNION {ToSet(audited[i].files) : i \in 1..TargetCount}
         /\ \A i \in 1..TargetCount : \A f \in ToSet(audited[i].files) :
                b.sources[f] = audited[i].hash[f]
    <3> HIDE DEF audited
    <3> QED BY <2>1, <2>7, <2>9
  <2>12. DOMAIN b.references = ArtifactPaths(receipt.approval)
    BY <2>1, <2>2, <2>6
  <2>13. ASSUME NEW r \in Runs
         PROVE  /\ Report(b, r) = receipt.reports[r]
                /\ DOMAIN Logs(b, r) = 1..TargetCount
    BY <2>1, <2>10
  <2> QED
    BY <2>2, <2>3, <2>9, <2>10, <2>11, <2>12, <2>13 DEF FixedBy
<1>2. IInv => (Archived => FixedBy(receipt, b))
  BY <1>1
<1> QED
  BY Invariance, <1>2, PTL

\* Two functions are one when they have one domain and agree on it.
LEMMA SameFunction ==
  ASSUME NEW x, NEW y, x = [k \in DOMAIN x |-> x[k]], y = [k \in DOMAIN y |-> y[k]],
         DOMAIN x = DOMAIN y, \A k \in DOMAIN x : x[k] = y[k]
  PROVE  x = y
<1>1. [k \in DOMAIN x |-> x[k]] = [k \in DOMAIN y |-> y[k]]
  OBVIOUS
<1> QED
  BY <1>1

IsFunction(x) == x = [k \in DOMAIN x |-> x[k]]

\* A bundle whose families are functions, named as the finalizer names them.
Formed(b) ==
    /\ IsFunction(b.sources) /\ IsFunction(b.references)
    /\ IsFunction(b.logs1) /\ IsFunction(b.logs2)
    /\ IsFunction(b.outputs) /\ DOMAIN b.outputs = LinkedOutputs \cup {"direct", "patch"}
    /\ IsFunction(b.tools) /\ DOMAIN b.tools = {"finalizer", "python", "git"}

NamedArtifact(receipt, i, r, k) == receipt.approval.targets[i].runs[r].artifacts[k]

\* What FixedBy says of each file but the ones of the sources, outputs and tools.
Fields(receipt, b) ==
    /\ b.receipt = receipt /\ b.linked = receipt.linked
    /\ b.approval = receipt.approval /\ b.contract = receipt.reports[1].contract
    /\ b.report1 = receipt.reports[1] /\ b.report2 = receipt.reports[2]
    /\ b.validator = receipt.approval.targets[1].runs[1].artifacts["plan"].text.collector
    /\ DOMAIN b.logs1 = 1..TargetCount /\ DOMAIN b.logs2 = 1..TargetCount
    /\ \A i \in 1..TargetCount :
           /\ b.logs1[i] = receipt.reports[1].results[i].transcript
           /\ b.logs2[i] = receipt.reports[2].results[i].transcript
    /\ DOMAIN b.references = ArtifactPaths(receipt.approval)
    /\ \A i \in 1..TargetCount, r \in Runs, k \in AllKinds :
           b.references[NamedArtifact(receipt, i, r, k).path]
                = NamedArtifact(receipt, i, r, k).text

\* FixedBy, file by file.
LEMMA FixedFields ==
  ASSUME NEW receipt, NEW b, FixedBy(receipt, b)
  PROVE  Fields(receipt, b)
<1> DEFINE artifacts(i, r) == receipt.approval.targets[i].runs[r].artifacts
           Of(r) == /\ Report(b, r) = receipt.reports[r]
                    /\ DOMAIN Logs(b, r) = 1..TargetCount
           AtResult(i, r) ==
             /\ Logs(b, r)[i] = receipt.reports[r].results[i].transcript
             /\ b.validator = artifacts(i, r)["plan"].text.collector
             /\ \A k \in AllKinds : b.references[artifacts(i, r)[k].path]
                                        = artifacts(i, r)[k].text
<1>1. /\ b.receipt = receipt /\ b.linked = receipt.linked
      /\ b.approval = receipt.approval /\ b.contract = receipt.reports[1].contract
      /\ DOMAIN b.references = ArtifactPaths(receipt.approval)
  BY DEF FixedBy
<1>2. \A r \in Runs : Of(r)
  BY DEF FixedBy
<1>3. \A r \in Runs : \A i \in 1..TargetCount : AtResult(i, r)
  BY DEF FixedBy
<1>4. 1 \in Runs /\ 2 \in Runs /\ 1 \in 1..TargetCount
  BY EvidenceAssumption DEF Runs
<1>5. /\ Report(b, 1) = b.report1 /\ Report(b, 2) = b.report2
      /\ Logs(b, 1) = b.logs1 /\ Logs(b, 2) = b.logs2
  BY DEF Report, Logs
<1>6. Of(1) /\ Of(2) /\ AtResult(1, 1) /\ \A i \in 1..TargetCount : AtResult(i, 1) /\ AtResult(i, 2)
  <2> HIDE DEF Of, AtResult
  <2> QED BY <1>2, <1>3, <1>4
<1>7. \A i \in 1..TargetCount, r \in Runs, k \in AllKinds :
          b.references[NamedArtifact(receipt, i, r, k).path]
            = NamedArtifact(receipt, i, r, k).text
  <2>1. \A i, r, k : artifacts(i, r)[k] = NamedArtifact(receipt, i, r, k)
    BY DEF NamedArtifact
  <2> HIDE DEF artifacts
  <2> QED BY <1>3, <2>1
<1>8. /\ b.report1 = receipt.reports[1] /\ b.report2 = receipt.reports[2]
      /\ DOMAIN b.logs1 = 1..TargetCount /\ DOMAIN b.logs2 = 1..TargetCount
      /\ \A i \in 1..TargetCount :
            /\ b.logs1[i] = receipt.reports[1].results[i].transcript
            /\ b.logs2[i] = receipt.reports[2].results[i].transcript
      /\ b.validator = artifacts(1, 1)["plan"].text.collector
  <2> HIDE DEF artifacts
  <2> QED BY <1>5, <1>6
<1> QED
  BY <1>1, <1>7, <1>8 DEF Fields

\* One receipt fixes one bundle.
LEMMA FixedOnce ==
  ASSUME NEW receipt, NEW b, NEW c, FixedBy(receipt, b), FixedBy(receipt, c),
         Formed(b), Formed(c), NEW s \in Sources
  PROVE  b[s] = c[s]
<1> DEFINE report == receipt.reports[1]
           audited == report.contract.manifest
           T == 1..TargetCount
<1>0. Fields(receipt, b) /\ Fields(receipt, c)
  BY FixedFields
<1>1. /\ b.receipt = c.receipt /\ b.linked = c.linked /\ b.approval = c.approval
      /\ b.contract = c.contract /\ b.validator = c.validator
      /\ b.report1 = c.report1 /\ b.report2 = c.report2
  BY <1>0 DEF Fields
<1>2. /\ DOMAIN b.logs1 = DOMAIN c.logs1 /\ DOMAIN b.logs2 = DOMAIN c.logs2
      /\ \A i \in DOMAIN b.logs1 : b.logs1[i] = c.logs1[i]
      /\ \A i \in DOMAIN b.logs2 : b.logs2[i] = c.logs2[i]
  BY <1>0 DEF Fields
<1>3. b.logs1 = c.logs1
  BY <1>2, SameFunction DEF Formed, IsFunction
<1>4. b.logs2 = c.logs2
  BY <1>2, SameFunction DEF Formed, IsFunction
<1>5. b.sources = c.sources
  <2>1. /\ DOMAIN b.sources = UNION {ToSet(audited[i].files) : i \in T}
        /\ DOMAIN c.sources = UNION {ToSet(audited[i].files) : i \in T}
        /\ \A i \in T : \A f \in ToSet(audited[i].files) :
            b.sources[f] = audited[i].hash[f] /\ c.sources[f] = audited[i].hash[f]
    BY DEF FixedBy
  <2> HIDE DEF T, audited
  <2>2. \A f \in DOMAIN b.sources : b.sources[f] = c.sources[f]
    BY <2>1
  <2> QED BY <2>1, <2>2, SameFunction DEF Formed, IsFunction
<1>6. b.references = c.references
  <2>0. /\ DOMAIN b.references = ArtifactPaths(receipt.approval)
        /\ DOMAIN c.references = ArtifactPaths(receipt.approval)
    BY <1>0 DEF Fields
  <2>1. ASSUME NEW i \in T, NEW r \in Runs, NEW k \in AllKinds
        PROVE  LET a == NamedArtifact(receipt, i, r, k) IN
               b.references[a.path] = c.references[a.path]
    <3> DEFINE a == NamedArtifact(receipt, i, r, k)
    <3>1. b.references[a.path] = a.text
      BY <1>0 DEF Fields
    <3>2. c.references[a.path] = a.text
      BY <1>0 DEF Fields
    <3> QED BY <3>1, <3>2
  <2>2. \A p \in ArtifactPaths(receipt.approval) :
            \E i \in T, r \in Runs, k \in AllKinds : p = NamedArtifact(receipt, i, r, k).path
    BY DEF ArtifactPaths, NamedArtifact
  <2> HIDE DEF T
  <2>3. \A p \in DOMAIN b.references : b.references[p] = c.references[p]
    BY <2>0, <2>1, <2>2
  <2> QED BY <2>0, <2>3, SameFunction DEF Formed, IsFunction
<1>7. b.outputs = c.outputs
  <2>1. /\ \A k \in LinkedOutputs : b.outputs[k] = c.outputs[k]
        /\ b.outputs["direct"] = c.outputs["direct"]
        /\ b.outputs["patch"] = c.outputs["patch"]
    BY DEF FixedBy
  <2>2. DOMAIN b.outputs = DOMAIN c.outputs
        /\ \A k \in DOMAIN b.outputs : b.outputs[k] = c.outputs[k]
    BY <2>1 DEF Formed
  <2> QED BY <2>2, SameFunction DEF Formed, IsFunction
<1>8. b.tools = c.tools
  <2>1. /\ b.tools.finalizer = c.tools.finalizer /\ b.tools.python = c.tools.python
        /\ b.tools.git = c.tools.git
    BY DEF FixedBy
  <2>2. DOMAIN b.tools = DOMAIN c.tools
        /\ \A k \in DOMAIN b.tools : b.tools[k] = c.tools[k]
    BY <2>1 DEF Formed
  <2> QED BY <2>2, SameFunction DEF Formed, IsFunction
<1> QED
  BY <1>1, <1>3, <1>4, <1>5, <1>6, <1>7, <1>8, SourceNames

\* Whatever is edited, checked out or overtaken meanwhile, and however often, a
\* published archive has every source exactly as it was when the receipt on the
\* command line was made for it: no mixture of versions, none from another commit
\* (archive, Stager.capture and the digest bindings of the validators).
THEOREM OnlyAuthorizedIsArchived ==
  Spec => [](OwnEvidence(authorized) => ArchiveIsAuthorized)
<1> DEFINE own == [s \in Sources |-> Content(s, authorized)]
           receipt == Content("receipt", authorized)
<1>1. ASSUME IInv, Archived, FixedBy(receipt, ArchiveBundle), OwnEvidence(authorized),
             NEW s \in Sources
      PROVE  dest.bytes[s] # <<>> /\ Captured(s, dest.bytes[s]) = Content(s, authorized)
  <2>1. FixedBy(receipt, own)
    BY <1>1 DEF OwnEvidence
  <2>2. authorized \in Versions
    BY <1>1 DEF IInv, TypeOK
  <2>3. /\ "tools" \in Families /\ "sources" \in Families /\ "references" \in Families
        /\ "logs1" \in Families /\ "logs2" \in Families /\ "outputs" \in Families
    BY DEF Families
  <2>4. \A q \in Sources : /\ dest.bytes[q] # <<>> /\ dest.bytes[q] \in Versions \X Versions
                           /\ ArchiveBundle[q] = Captured(q, dest.bytes[q])
    BY <1>1, ArchivedSource
  <2>5. \A q \in Families :
            IsFunction(ArchiveBundle[q])
            /\ \E v \in Versions : DOMAIN ArchiveBundle[q] = DOMAIN Content(q, v)
    <3>1. ASSUME NEW q \in Families
          PROVE  IsFunction(ArchiveBundle[q])
                 /\ \E v \in Versions : DOMAIN ArchiveBundle[q] = DOMAIN Content(q, v)
      <4>1. /\ dest.bytes[q] \in Versions \X Versions
            /\ ArchiveBundle[q] = Captured(q, dest.bytes[q])
        BY <2>4, SourceNames
      <4> QED BY <4>1, CapturedFamily DEF IsFunction
    <3> QED BY <3>1
  <2>6. \A q \in Families : own[q] = Content(q, authorized) /\ IsFunction(own[q])
    BY <2>2, SourceNames, ContentAssumption DEF IsFunction
  <2>7. \A v \in Versions :
            /\ DOMAIN Content("tools", v) = {"finalizer", "python", "git"}
            /\ DOMAIN Content("outputs", v) = LinkedOutputs \cup {"direct", "patch"}
    BY ContentAssumption
  <2> HIDE DEF own
  <2>8. Formed(ArchiveBundle)
    BY <2>3, <2>5, <2>7 DEF Formed
  <2>9. Formed(own)
    BY <2>2, <2>3, <2>6, <2>7 DEF Formed
  <2>10. ArchiveBundle[s] = own[s]
    BY <1>1, <2>1, <2>8, <2>9, FixedOnce
  <2>11. own[s] = Content(s, authorized)
    BY DEF own
  <2> QED BY <2>4, <2>10, <2>11
<1>2. IInv /\ (Archived => FixedBy(receipt, ArchiveBundle))
        => (OwnEvidence(authorized) => ArchiveIsAuthorized)
  BY <1>1 DEF ArchiveIsAuthorized
<1> QED
  BY Invariance, ReceiptFixesArchive, <1>2, PTL

=============================================================================

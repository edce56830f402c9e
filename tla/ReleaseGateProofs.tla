-------------------------- MODULE ReleaseGateProofs --------------------------
(***************************************************************************)
(* What the release gate lets pass, for any number of commits, check runs  *)
(* and changes of settings.                                                *)
(***************************************************************************)
EXTENDS ReleaseGate, FiniteSetTheorems, TLAPS

-----------------------------------------------------------------------------
(* The steps of the gate *)

LEMMA PlanIs ==
  /\ Len(Plan) = 10 /\ DOMAIN Plan = 1 .. 10
  /\ \A n \in 1 .. 10 :
       /\ Plan[n] = <<"head", "downstream">> <=> n = 6
       /\ Plan[n] = <<"head", "upstream">> <=> n = 7
       /\ Plan[n] = <<"status", "downstream">> <=> n = 8
       /\ Plan[n] = <<"status", "upstream">> <=> n = 9
<1>1. Len(Plan) = 10 /\ DOMAIN Plan = 1 .. 10
  BY DEF Plan
<1>2. /\ Plan[1] = <<"owners", "downstream">> /\ Plan[2] = <<"owners", "upstream">>
      /\ Plan[3] = <<"protection", "downstream">> /\ Plan[4] = <<"protection", "upstream">>
      /\ Plan[5] = <<"environment", "downstream">>
      /\ Plan[6] = <<"head", "downstream">> /\ Plan[7] = <<"head", "upstream">>
      /\ Plan[8] = <<"status", "downstream">> /\ Plan[9] = <<"status", "upstream">>
      /\ Plan[10] = <<"sync", "downstream">>
  BY DEF Plan
<1>3. \A n \in 1 .. 10 : n = 1 \/ n = 2 \/ n = 3 \/ n = 4 \/ n = 5 \/ n = 6 \/ n = 7
                           \/ n = 8 \/ n = 9 \/ n = 10
  OBVIOUS
<1> QED
  BY <1>1, <1>2, <1>3

Answers == [Repositories -> Apps \cup {NoApp}]

\* The gate goes on to the next question, or passes after the last.
Advanced(apps) ==
  gate' = [gate EXCEPT !.phase = IF gate.next < 10 THEN "reading" ELSE "passed",
                       !.next = gate.next + 1, !.apps = apps]

\* The required checks were green on the page.
AllGreen(r) ==
  \E page \in Pages(r) : \A name \in CheckNames[r] : LatestIsGreen(r, name, page)

\* What the answer must have been for the gate to go on.
AnswerWas ==
  /\ gate.next = 6 => HeadIsCommit("downstream")
  /\ gate.next = 7 => HeadIsCommit("upstream")
  /\ gate.next = 8 => AllGreen("downstream")
  /\ gate.next = 9 => AllGreen("upstream")

LEMMA Proceeds ==
  ASSUME gate.phase = "reading", NEW ok, NEW apps \in Answers, Proceed(ok, apps), ok => AnswerWas
  PROVE  Fail \/ (\E a \in Answers : Advanced(a) /\ AnswerWas)
<1>1. CASE ~ok
  BY <1>1 DEF Proceed
<1>2. CASE ok
  BY <1>2, PlanIs DEF Proceed, Advanced
<1> QED
  BY <1>1, <1>2

\* Each step of the gate in the form in which the proofs use it.
LEMMA GateSteps ==
  ASSUME TypeOK, GateStep
  PROVE  /\ OnlyGate
         /\ \/ Dispatch \/ CheckoutUpstream \/ CheckSources
            \/ Running /\ Fail
            \/ gate.phase = "reading" /\ \E a \in Answers : Advanced(a) /\ AnswerWas
<1>1. CASE Dispatch
  BY <1>1 DEF Dispatch
<1>2. CASE CheckoutUpstream
  BY <1>2 DEF CheckoutUpstream
<1>3. CASE CheckSources
  BY <1>3 DEF CheckSources
<1>4. CASE StepFails
  BY <1>4 DEF StepFails
<1> USE DEF Answers
<1>5. gate.apps \in Answers /\ bound \in Answers
  BY DEF TypeOK
<1>6. gate.phase = "reading" => gate.next \in 1 .. 10
  BY PlanIs DEF TypeOK
<1>7. ASSUME NEW r \in Repositories, NEW kind \in {"owners", "environment"}, CheckSetting(kind, r)
      PROVE  OnlyGate /\ gate.phase = "reading" /\ (Fail \/ \E a \in Answers : Advanced(a) /\ AnswerWas)
  <2>1. Plan[gate.next] = <<kind, r>> /\ gate.phase = "reading"
    BY <1>7 DEF CheckSetting, At
  <2>2. gate.next \notin 6 .. 9
    BY <2>1, <1>6, PlanIs
  <2>3. AnswerWas
    BY <2>2 DEF AnswerWas
  <2> QED
    BY <2>1, <2>3, <1>5, <1>7, Proceeds DEF CheckSetting
<1>8. ASSUME NEW r \in Repositories, CheckBranchProtection(r)
      PROVE  OnlyGate /\ gate.phase = "reading" /\ (Fail \/ \E a \in Answers : Advanced(a) /\ AnswerWas)
  <2>1. Plan[gate.next] = <<"protection", r>> /\ gate.phase = "reading"
    BY <1>8 DEF CheckBranchProtection, At
  <2>2. gate.next \notin 6 .. 9
    BY <2>1, <1>6, PlanIs
  <2>3. AnswerWas
    BY <2>2 DEF AnswerWas
  <2>4. [gate.apps EXCEPT ![r] = bound[r]] \in Answers
    BY <1>5
  <2> QED
    BY <2>1, <2>3, <2>4, <1>8, Proceeds DEF CheckBranchProtection
<1>9. ASSUME NEW r \in Repositories, CheckMainHead(r)
      PROVE  OnlyGate /\ gate.phase = "reading" /\ (Fail \/ \E a \in Answers : Advanced(a) /\ AnswerWas)
  <2>1. Plan[gate.next] = <<"head", r>> /\ gate.phase = "reading"
    BY <1>9 DEF CheckMainHead, At
  <2>2. /\ gate.next \notin {8, 9} /\ (gate.next = 6 => r = "downstream")
        /\ (gate.next = 7 => r = "upstream")
    BY <2>1, <1>6, PlanIs
  <2>3. HeadIsCommit(r) => AnswerWas
    BY <2>2 DEF AnswerWas
  <2> QED
    BY <2>1, <2>3, <1>5, <1>9, Proceeds DEF CheckMainHead
<1>10. ASSUME NEW r \in Repositories, CheckCommitStatus(r)
       PROVE  OnlyGate /\ gate.phase = "reading" /\ (Fail \/ \E a \in Answers : Advanced(a) /\ AnswerWas)
  <2>1. Plan[gate.next] = <<"status", r>> /\ gate.phase = "reading"
    BY <1>10 DEF CheckCommitStatus, At
  <2>2. /\ gate.next \notin {6, 7} /\ (gate.next = 8 => r = "downstream")
        /\ (gate.next = 9 => r = "upstream")
    BY <2>1, <1>6, PlanIs
  <2>3. PICK page \in Pages(r) :
          Proceed(\A name \in CheckNames[r] : LatestIsGreen(r, name, page), gate.apps)
    BY <1>10 DEF CheckCommitStatus
  <2>4. (\A name \in CheckNames[r] : LatestIsGreen(r, name, page)) => AnswerWas
    BY <2>2 DEF AnswerWas, AllGreen
  <2> QED
    BY <2>1, <2>3, <2>4, <1>5, <1>10, Proceeds DEF CheckCommitStatus
<1>11. CASE CheckNoPendingSync
  <2>1. Plan[gate.next] = <<"sync", "downstream">> /\ gate.phase = "reading"
    BY <1>11 DEF CheckNoPendingSync, At
  <2>2. gate.next \notin 6 .. 9
    BY <2>1, <1>6, PlanIs
  <2>3. AnswerWas
    BY <2>2 DEF AnswerWas
  <2> QED
    BY <2>1, <2>3, <1>5, <1>11, Proceeds DEF CheckNoPendingSync, Running
<1> QED
  BY <1>1, <1>2, <1>3, <1>4, <1>7, <1>8, <1>9, <1>10, <1>11 DEF GateStep, Running

-----------------------------------------------------------------------------
(* Types *)

LEMMA PlanLength == Len(Plan) + 1 = 11
BY PlanIs

LEMMA ExportType ==
  ASSUME NEW c \in UpstreamCommit
  PROVE  ExportOf(c) \in Export
BY DEF ExportOf, Export, UpstreamCommit, Manifest

LEMMA Singleton ==
  ASSUME NEW S, NEW e \in S
  PROVE  <<e>> \in Seq(S) /\ Len(<<e>>) = 1 /\ <<e>> # <<>> /\ <<e>>[1] = e
OBVIOUS

LEMMA Element ==
  ASSUME NEW S, NEW s \in Seq(S), s # <<>>
  PROVE  s[1] \in S
OBVIOUS

\* The type of the run of the gate, in parts.
Gates ==
  [phase : {"idle", "checkout", "sources", "reading", "passed", "failed"},
   next : 1 .. 11, down : Seq(DownstreamCommit), up : Seq(UpstreamCommit),
   apps : Answers, since : 0 .. MaxRuns]

AtMostOne == Len(gate.down) <= 1 /\ Len(gate.up) <= 1

CheckedOut ==
  /\ gate.phase \in {"checkout", "sources", "reading", "passed"} => gate.down # <<>>
  /\ gate.phase \in {"sources", "reading", "passed"} => gate.up # <<>>

Asking == gate.phase = "reading" => gate.next \in 1 .. 10

GateOK == gate \in Gates /\ AtMostOne /\ CheckedOut /\ Asking

\* What is not about the gate, in parts.
RepositoriesOK ==
  /\ commits \in Hashes
  /\ history \subseteq UpstreamCommit /\ upstream \in history
  /\ earlier \subseteq DownstreamCommit /\ downstream \in earlier
  /\ pending \in Seq(Export) /\ Len(pending) <= 1

SettingsOK ==
  good \subseteq Settings /\ bound \in Answers /\ changes \in 0 .. MaxChanges

RunsOK == runs \in Seq(Run) /\ Len(runs) <= MaxRuns

LEMMA TypeParts ==
  TypeOK <=> GateOK /\ RepositoriesOK /\ SettingsOK /\ RunsOK
             /\ together \in BOOLEAN /\ forced \in BOOLEAN
<1>1. gate \in Gates <=>
        gate \in [phase : {"idle", "checkout", "sources", "reading", "passed", "failed"},
                 next : 1 .. Len(Plan) + 1,
                 down : Seq(DownstreamCommit), up : Seq(UpstreamCommit),
                 apps : [Repositories -> Apps \cup {NoApp}], since : 0 .. MaxRuns]
  BY PlanLength DEF Gates, Answers
<1>2. Asking <=> (gate.phase = "reading" => gate.next \in DOMAIN Plan)
  BY PlanIs DEF Asking
<1>3. CheckedOut <=>
        /\ Running \/ Passed => gate.down # <<>>
        /\ gate.phase \in {"sources", "reading", "passed"} => gate.up # <<>>
  BY DEF CheckedOut, Running, Passed
<1> QED
  BY <1>1, <1>2, <1>3 DEF TypeOK, GateOK, AtMostOne, Answers, RepositoriesOK, SettingsOK, RunsOK

\* The same of the next state.
LEMMA TypePartsNext ==
  TypeOK' <=> GateOK' /\ RepositoriesOK' /\ SettingsOK' /\ RunsOK'
              /\ together' \in BOOLEAN /\ forced' \in BOOLEAN
<1>1. gate' \in Gates <=>
        gate' \in [phase : {"idle", "checkout", "sources", "reading", "passed", "failed"},
                 next : 1 .. Len(Plan) + 1,
                 down : Seq(DownstreamCommit), up : Seq(UpstreamCommit),
                 apps : [Repositories -> Apps \cup {NoApp}], since : 0 .. MaxRuns]
  BY PlanLength DEF Gates, Answers
<1>2. Asking' <=> (gate'.phase = "reading" => gate'.next \in DOMAIN Plan)
  BY PlanIs DEF Asking
<1>3. CheckedOut' <=>
        /\ Running' \/ Passed' => gate'.down # <<>>
        /\ gate'.phase \in {"sources", "reading", "passed"} => gate'.up # <<>>
  BY DEF CheckedOut, Running, Passed
<1> QED
  BY <1>1, <1>2, <1>3 DEF TypeOK, GateOK, AtMostOne, Answers, RepositoriesOK, SettingsOK, RunsOK

LEMMA InitType == ASSUME Init PROVE TypeOK
<1>1. /\ Actions \in Apps /\ 2 \in Hashes /\ 1 \in Hashes
      /\ MaxRuns \in Nat /\ MaxChanges \in Nat
  BY GateAssumption DEF Hashes
<1>2. upstream \in UpstreamCommit
  BY <1>1 DEF Init, UpstreamCommit
<1>3. downstream \in DownstreamCommit
  BY <1>1, <1>2, ExportType DEF Init, DownstreamCommit
<1>4. commits \in Hashes /\ history = {upstream} /\ earlier = {downstream}
      /\ pending = <<>> /\ runs = <<>> /\ good = Settings /\ changes = 0
      /\ bound \in Answers /\ together = FALSE /\ forced = FALSE
  BY <1>1 DEF Init, Answers
<1>5. gate \in Gates
  BY <1>1 DEF Init, Idle, Answers, Gates
<1>6. AtMostOne /\ CheckedOut /\ Asking
  BY DEF Init, Idle, AtMostOne, CheckedOut, Asking
<1>7. GateOK
  BY <1>5, <1>6 DEF GateOK
<1>8. pending \in Seq(Export) /\ Len(pending) <= 1 /\ runs \in Seq(Run) /\ Len(runs) <= MaxRuns
  BY <1>1, <1>4
<1>9. /\ history \subseteq UpstreamCommit /\ upstream \in history
      /\ earlier \subseteq DownstreamCommit /\ downstream \in earlier
      /\ good \subseteq Settings
  BY <1>2, <1>3, <1>4
<1>10. changes \in 0 .. MaxChanges
  BY <1>1, <1>4
<1>11. together \in BOOLEAN /\ forced \in BOOLEAN
  BY <1>4
<1>12. RepositoriesOK /\ SettingsOK /\ RunsOK
  BY <1>4, <1>8, <1>9, <1>10 DEF RepositoriesOK, SettingsOK, RunsOK
<1> QED
  BY <1>7, <1>11, <1>12, TypeParts

\* What an answer changes in the run of the gate.
LEMMA GateWith ==
  ASSUME NEW g \in Gates, NEW n \in 1 .. 11, NEW a \in Answers,
         NEW p \in {"reading", "passed", "failed"}
  PROVE  [g EXCEPT !.phase = p, !.next = n, !.apps = a] \in Gates
BY DEF Gates

\* A failed run has nothing left to be about.
LEMMA Failed ==
  ASSUME Fail
  PROVE  /\ gate' \in Gates
         /\ gate'.phase = "failed" /\ gate'.down = <<>> /\ gate'.up = <<>> /\ gate'.since = 0
<1>1. gate' = [phase |-> "failed", next |-> 1, down |-> <<>>, up |-> <<>>,
               apps |-> [r \in Repositories |-> NoApp], since |-> 0]
  BY DEF Fail, Idle
<1>2. /\ [r \in Repositories |-> NoApp] \in Answers /\ 0 \in 0 .. MaxRuns
      /\ <<>> \in Seq(DownstreamCommit) /\ <<>> \in Seq(UpstreamCommit)
  BY GateAssumption DEF Answers
<1> QED
  BY <1>1, <1>2 DEF Gates

LEMMA GateType ==
  ASSUME TypeOK, GateStep, Observe
  PROVE  TypeOK'
<1>1. together' \in BOOLEAN /\ forced' \in BOOLEAN
  BY DEF Observe
<1>2. UNCHANGED <<commits, history, upstream, downstream, earlier, pending, good, bound,
                  changes, runs>>
  BY GateSteps DEF OnlyGate, repositories, settings
<1>3. GateOK
  BY TypeParts
<1>4. GateOK'
  <2>1. CASE Dispatch
    <3>1. downstream \in DownstreamCommit /\ Len(runs) \in 0 .. MaxRuns
      BY GateAssumption DEF TypeOK
    <3>2. <<downstream>> \in Seq(DownstreamCommit) /\ Len(<<downstream>>) = 1
      BY <3>1, Singleton
    <3>3. Idle \in Gates
      BY GateAssumption DEF Gates, Idle, Answers
    <3>4. gate' \in Gates
      BY <2>1, <3>1, <3>2, <3>3 DEF Dispatch, Gates
    <3>5. /\ gate'.phase = "checkout" /\ gate'.down = <<downstream>> /\ gate'.up = <<>>
      BY <2>1 DEF Dispatch, Idle
    <3>6. AtMostOne' /\ CheckedOut' /\ Asking'
      BY <3>2, <3>5, Singleton DEF AtMostOne, CheckedOut, Asking
    <3> QED
      BY <3>4, <3>6 DEF GateOK
  <2>2. CASE CheckoutUpstream
    <3>1. upstream \in UpstreamCommit
      BY DEF TypeOK
    <3>2. <<upstream>> \in Seq(UpstreamCommit) /\ Len(<<upstream>>) = 1
      BY <3>1, Singleton
    <3>3. gate' \in Gates
      BY <1>3, <2>2, <3>2 DEF CheckoutUpstream, GateOK, Gates
    <3>4. /\ gate.phase = "checkout" /\ gate'.phase = "sources"
          /\ gate'.down = gate.down /\ gate'.up = <<upstream>>
      BY <1>3, <2>2 DEF CheckoutUpstream, GateOK, Gates
    <3>5. AtMostOne' /\ CheckedOut' /\ Asking'
      BY <1>3, <3>2, <3>4, Singleton DEF GateOK, AtMostOne, CheckedOut, Asking
    <3> QED
      BY <3>3, <3>5 DEF GateOK
  <2>3. CASE CheckSources
    <3>1. \/ Fail
          \/ gate' = [gate EXCEPT !.phase = "reading", !.next = 1, !.apps = gate.apps]
      BY <2>3 DEF CheckSources, Proceed
    <3>2. gate.phase = "sources"
      BY <2>3 DEF CheckSources
    <3>3. gate' \in Gates
      <4>1. gate \in Gates /\ gate.apps \in Answers
        BY <1>3 DEF GateOK, Gates
      <4>2. CASE Fail
        BY <4>2, Failed
      <4>3. 1 \in 1 .. 11 /\ "reading" \in {"reading", "passed", "failed"}
        OBVIOUS
      <4>4. [gate EXCEPT !.phase = "reading", !.next = 1, !.apps = gate.apps] \in Gates
        BY <4>1, <4>3, GateWith
      <4> QED
        BY <3>1, <4>2, <4>4
    <3>4. \/ gate'.phase = "failed" /\ gate'.down = <<>> /\ gate'.up = <<>>
          \/ /\ gate'.phase = "reading" /\ gate'.next = 1
             /\ gate'.down = gate.down /\ gate'.up = gate.up
      BY <1>3, <3>1, Failed DEF GateOK, Gates
    <3>5. AtMostOne' /\ CheckedOut' /\ Asking'
      BY <1>3, <3>2, <3>4 DEF GateOK, AtMostOne, CheckedOut, Asking
    <3> QED
      BY <3>3, <3>5 DEF GateOK
  <2>4. CASE Running /\ Fail
    BY <2>4, Failed DEF GateOK, AtMostOne, CheckedOut, Asking
  <2>5. CASE gate.phase = "reading" /\ \E a \in Answers : Advanced(a) /\ AnswerWas
    <3>1. PICK a \in Answers : Advanced(a)
      BY <2>5
    <3>2. gate.next \in 1 .. 10
      BY <1>3, <2>5 DEF GateOK, Asking
    <3>3. gate' \in Gates
      <4>1. gate \in Gates /\ gate.next + 1 \in 1 .. 11
        BY <1>3, <3>2 DEF GateOK
      <4>2. (IF gate.next < 10 THEN "reading" ELSE "passed") \in {"reading", "passed", "failed"}
        OBVIOUS
      <4> QED
        BY <3>1, <4>1, <4>2, GateWith DEF Advanced
    <3>4. /\ gate'.phase \in {"reading", "passed"} /\ gate'.down = gate.down
          /\ gate'.up = gate.up /\ (gate'.phase = "reading" => gate'.next \in 1 .. 10)
      BY <1>3, <3>1, <3>2 DEF GateOK, Gates, Advanced
    <3>5. AtMostOne' /\ CheckedOut' /\ Asking'
      BY <1>3, <2>5, <3>4 DEF GateOK, AtMostOne, CheckedOut, Asking
    <3> QED
      BY <3>3, <3>5 DEF GateOK
  <2> QED
    BY <2>1, <2>2, <2>3, <2>4, <2>5, GateSteps
<1>5. RepositoriesOK' /\ SettingsOK' /\ RunsOK'
  BY <1>2, TypeParts DEF RepositoriesOK, SettingsOK, RunsOK
<1> QED
  BY <1>1, <1>4, <1>5, TypePartsNext

LEMMA PushUpstreamType ==
  ASSUME RepositoriesOK, NEW payload \in Payloads, PushUpstream(payload)
  PROVE  RepositoriesOK'
<1>1. commits + 1 \in Hashes
  BY GateAssumption DEF RepositoriesOK, PushUpstream, Hashes
<1>2. upstream \in UpstreamCommit
  BY DEF RepositoriesOK
<1>3. upstream' \in UpstreamCommit
  BY <1>1, <1>2 DEF PushUpstream, UpstreamCommit
<1> QED
  BY <1>1, <1>3 DEF RepositoriesOK, PushUpstream

LEMMA PushDownstreamType ==
  ASSUME RepositoriesOK, NEW tree \in Export, CommitDownstream(tree),
         pending' \in Seq(Export), Len(pending') <= 1, UNCHANGED <<history, upstream>>
  PROVE  RepositoriesOK'
<1>1. commits + 1 \in Hashes
  BY GateAssumption DEF RepositoriesOK, CommitDownstream, Hashes
<1>2. downstream' \in DownstreamCommit
  BY <1>1 DEF CommitDownstream, DownstreamCommit
<1> QED
  BY <1>1, <1>2 DEF RepositoriesOK, CommitDownstream

LEMMA RepositoriesType ==
  ASSUME RepositoriesOK, EnvironmentStep
  PROVE  RepositoriesOK'
<1>1. ASSUME NEW payload \in Payloads, PushUpstream(payload) PROVE RepositoriesOK'
  BY <1>1, PushUpstreamType
<1>2. ASSUME NEW c \in history, ForcePushUpstream(c) PROVE RepositoriesOK'
  BY <1>2 DEF ForcePushUpstream, RepositoriesOK
<1>3. ASSUME NEW c \in earlier, ForcePushDownstream(c) PROVE RepositoriesOK'
  BY <1>3 DEF ForcePushDownstream, RepositoriesOK
<1>4. CASE OpenSync
  <2>1. ExportOf(upstream) \in Export
    BY ExportType DEF RepositoriesOK
  <2>2. pending' \in Seq(Export) /\ Len(pending') <= 1
    BY <1>4, <2>1, Singleton DEF OpenSync
  <2> QED
    BY <1>4, <2>2 DEF OpenSync, RepositoriesOK
<1>5. CASE MergeSync
  <2>1. pending[1] \in Export /\ CommitDownstream(pending[1])
    BY <1>5, Element DEF MergeSync, RepositoriesOK
  <2>2. pending' \in Seq(Export) /\ Len(pending') <= 1
    BY <1>5 DEF MergeSync
  <2> QED
    BY <1>5, <2>1, <2>2, PushDownstreamType DEF MergeSync
<1>6. ASSUME NEW tree \in Export, PushDownstream(tree) PROVE RepositoriesOK'
  BY <1>6, PushDownstreamType DEF PushDownstream, RepositoriesOK
<1>7. ASSUME UNCHANGED repositories PROVE RepositoriesOK'
  BY <1>7 DEF repositories, RepositoriesOK
<1> QED
  BY <1>1, <1>2, <1>3, <1>4, <1>5, <1>6, <1>7
  DEF EnvironmentStep, ChangeSettings, StartRun, FinishRun

LEMMA SettingsType ==
  ASSUME SettingsOK, EnvironmentStep
  PROVE  SettingsOK'
<1>1. CASE ChangeSettings
  <2>1. changes' \in 0 .. MaxChanges
    BY <1>1, GateAssumption DEF ChangeSettings, SettingsOK
  <2>2. good' \subseteq Settings
    BY <1>1 DEF ChangeSettings, SettingsOK
  <2>3. bound' \in Answers
    BY <1>1 DEF ChangeSettings, SettingsOK, Answers, Bindings
  <2> QED
    BY <2>1, <2>2, <2>3 DEF SettingsOK
<1>2. CASE UNCHANGED settings
  BY <1>2 DEF settings, SettingsOK
<1> QED
  BY <1>1, <1>2
  DEF EnvironmentStep, PushUpstream, ForcePushUpstream, ForcePushDownstream, OpenSync,
      MergeSync, PushDownstream, StartRun, FinishRun

LEMMA RunsType ==
  ASSUME RunsOK, RepositoriesOK, EnvironmentStep
  PROVE  RunsOK'
<1>1. ASSUME NEW r \in Repositories, NEW app \in Apps,
             NEW result \in {"none", "success", "failure"},
             NEW name \in CheckNames[r], StartRun(r, name, app, result)
      PROVE  RunsOK'
  <2>1. HeadOf(r) \in Hashes
    BY DEF HeadOf, RepositoriesOK, UpstreamCommit, DownstreamCommit
  <2>2. [commit |-> HeadOf(r), name |-> name, app |-> app, result |-> result] \in Run
    BY <2>1 DEF Run
  <2> QED
    BY <1>1, <2>2, GateAssumption DEF StartRun, RunsOK
<1>2. ASSUME NEW n \in DOMAIN runs, NEW result \in {"success", "failure"},
             FinishRun(n, result)
      PROVE  RunsOK'
  <2>1. runs[n] \in Run
    BY DEF RunsOK
  <2>2. [runs[n] EXCEPT !.result = result] \in Run
    BY <2>1 DEF Run
  <2>3. runs' = [runs EXCEPT ![n] = [runs[n] EXCEPT !.result = result]]
    BY <1>2 DEF FinishRun
  <2> QED
    BY <2>2, <2>3 DEF RunsOK
<1>3. CASE UNCHANGED runs
  BY <1>3 DEF RunsOK
<1> QED
  BY <1>1, <1>2, <1>3
  DEF EnvironmentStep, PushUpstream, ForcePushUpstream, ForcePushDownstream, OpenSync,
      MergeSync, PushDownstream, ChangeSettings

LEMMA Outside == ASSUME EnvironmentStep PROVE UNCHANGED gate
BY DEF EnvironmentStep, PushUpstream, ForcePushUpstream, ForcePushDownstream, OpenSync,
       MergeSync, PushDownstream, ChangeSettings, StartRun, FinishRun, OutsideGate

LEMMA NextType ==
  ASSUME TypeOK, [Next]_vars
  PROVE  TypeOK'
<1>1. CASE GateStep /\ Observe
  BY <1>1, GateType
<1>2. CASE EnvironmentStep /\ Observe
  <2>1. RepositoriesOK' /\ SettingsOK' /\ RunsOK'
    BY <1>2, TypeParts, RepositoriesType, SettingsType, RunsType
  <2>2. GateOK'
    BY <1>2, TypeParts, Outside DEF GateOK, AtMostOne, CheckedOut, Asking
  <2>3. together' \in BOOLEAN /\ forced' \in BOOLEAN
    BY <1>2 DEF Observe
  <2> QED
    BY <2>1, <2>2, <2>3, TypePartsNext
<1>3. CASE UNCHANGED vars
  BY <1>3 DEF vars, repositories, settings, TypeOK, Running, Passed
<1> QED
  BY <1>1, <1>2, <1>3 DEF Next

\* The gate and all that it looks at stay within their types.
THEOREM TypeCorrect == Spec => []TypeOK
<1>1. Init => TypeOK
  BY InitType
<1>2. TypeOK /\ [Next]_vars => TypeOK'
  BY NextType
<1> QED
  BY <1>1, <1>2, PTL DEF Spec

-----------------------------------------------------------------------------
(* Provenance *)

\* The gate is past its first n questions.
Beyond(n) == Passed \/ (gate.phase = "reading" /\ gate.next > n)

\* The sources have agreed since they were checked.
Exported ==
  Beyond(0) =>
    \E c \in history :
      /\ c.id = Released.tree.manifest.commit /\ c.id \in Source.past
      /\ Released.tree = ExportOf(c)
      /\ Released.tree.files = Source.payload

LEMMA InitIdle ==
  ASSUME Init
  PROVE  /\ gate.phase = "idle" /\ gate.up = <<>> /\ gate.since = 0
         /\ \A n : ~Beyond(n)
<1>1. gate.phase = "idle" /\ gate.up = <<>> /\ gate.since = 0
  BY DEF Init, Idle
<1> QED
  BY <1>1 DEF Beyond, Passed

LEMMA HistoryGrows ==
  ASSUME TypeOK, [Next]_vars
  PROVE  history \subseteq history'
<1>1. CASE GateStep
  BY <1>1, GateSteps DEF OnlyGate, repositories
<1>2. CASE EnvironmentStep
  BY <1>2
  DEF EnvironmentStep, PushUpstream, ForcePushUpstream, ForcePushDownstream, OpenSync,
      MergeSync, PushDownstream, ChangeSettings, StartRun, FinishRun, repositories
<1> QED
  BY <1>1, <1>2 DEF Next, vars, repositories

LEMMA AdvancedKeeps ==
  ASSUME TypeOK, NEW a, Advanced(a)
  PROVE  gate'.down = gate.down /\ gate'.up = gate.up
<1>1. gate \in Gates
  BY TypeParts DEF GateOK
<1> QED
  BY <1>1 DEF Advanced, Gates

LEMMA ExportedSteps ==
  ASSUME TypeOK, Exported, [Next]_vars
  PROVE  Exported'
<1>1. history \subseteq history'
  BY HistoryGrows
<1>2. CASE CheckSources
  <2>1. gate.phase = "sources" /\ gate.down # <<>> /\ gate.up # <<>>
    BY <1>2 DEF CheckSources, TypeOK, Running
  <2>2. Released \in DownstreamCommit
    BY <2>1, Element DEF TypeOK, Released
  <2>3. SUFFICES ASSUME Beyond(0)' PROVE Exported'
    BY DEF Exported
  <2>4. ~Fail
    BY <2>3, Failed DEF Beyond, Passed
  <2>5. PICK c \in history : /\ c.id = Released.tree.manifest.commit
                             /\ SourcesAgree(Released.tree, c, Source)
    BY <1>2, <2>4 DEF CheckSources, Proceed
  <2>6. Released.tree = ExportOf(c) /\ Released.tree.files = Source.payload
    BY <2>2, <2>5
    DEF SourcesAgree, VerifyRepository, ExportOf, DownstreamCommit, Export, Manifest
  <2>7. c.id \in Source.past
    BY <2>5 DEF SourcesAgree
  <2>8. gate'.down = gate.down /\ gate'.up = gate.up
    BY <1>2, <2>4 DEF CheckSources, Proceed, TypeOK
  <2> QED
    BY <1>1, <2>5, <2>6, <2>7, <2>8 DEF Exported, Released, Source
<1>3. CASE Dispatch \/ CheckoutUpstream \/ (Running /\ Fail)
  <2>1. gate'.phase \in {"checkout", "sources", "failed"}
    BY <1>3, Failed DEF Dispatch, CheckoutUpstream, Idle, TypeOK
  <2> QED
    BY <2>1 DEF Exported, Beyond, Passed
<1>4. CASE gate.phase = "reading" /\ \E a \in Answers : Advanced(a)
  <2>1. gate'.down = gate.down /\ gate'.up = gate.up
    BY <1>4, AdvancedKeeps
  <2>2. Beyond(0)
    BY <1>4, TypeParts DEF Beyond, GateOK, Asking
  <2> QED
    BY <1>1, <2>1, <2>2 DEF Exported, Released, Source
<1>5. CASE UNCHANGED gate
  BY <1>1, <1>5 DEF Exported, Beyond, Passed, Released, Source
<1> QED
  BY <1>2, <1>3, <1>4, <1>5, GateSteps, Outside DEF Next, vars

\* Whatever is committed, with whatever SOURCE.json, a release is an export of
\* the source that it names and of the upstream main that was checked out.
THEOREM ReleasesAreExports == Spec => []PassedIsExport
<1>1. Init => TypeOK /\ Exported
  BY InitType, InitIdle DEF Exported
<1>2. TypeOK /\ Exported /\ [Next]_vars => (TypeOK /\ Exported)'
  BY NextType, ExportedSteps
<1>3. Exported => PassedIsExport
  BY DEF Exported, PassedIsExport, Beyond
<1> QED
  BY <1>1, <1>2, <1>3, PTL DEF Spec

-----------------------------------------------------------------------------
(* The two heads *)

\* Commits have themselves in their past, and nothing younger.
Ages ==
  \A c \in history : c.id <= commits /\ c.id \in c.past /\ \A p \in c.past : p <= c.id

\* Unless it is forced, upstream main only gets younger.
Lineage ==
  /\ gate.up # <<>> /\ ~forced => Source.id <= upstream.id
  /\ gate.phase = "checkout" => gate.up = <<>>

\* History records when both heads are what the gate is about.
Observed ==
  gate.up # <<>> /\ downstream.id = Released.id /\ upstream.id = Source.id => together

\* If the heads were not together when that of downstream main was read, that
\* of upstream main has moved.
Apart ==
  gate.phase = "reading" /\ gate.next = 7 => together \/ forced \/ upstream.id # Source.id

Met == Beyond(7) => together \/ forced

HeadsInv == Ages /\ Lineage /\ Observed /\ Apart /\ Met

LEMMA AgesSteps ==
  ASSUME TypeOK, Ages, [Next]_vars
  PROVE  Ages'
<1>1. commits \in Nat /\ \A c \in history : c.id \in Nat /\ \A p \in c.past : p \in Nat
  BY GateAssumption DEF TypeOK, UpstreamCommit, Hashes
<1>2. CASE UNCHANGED history /\ commits' \in {commits, commits + 1}
  BY <1>1, <1>2 DEF Ages
<1>3. ASSUME NEW payload \in Payloads, PushUpstream(payload) PROVE Ages'
  <2>1. upstream \in history
    BY DEF TypeOK
  <2>2. \A p \in upstream'.past : p <= commits + 1
    BY <1>1, <1>3, <2>1 DEF Ages, PushUpstream
  <2>3. upstream'.id = commits + 1 /\ commits' = commits + 1
    BY <1>3 DEF PushUpstream
  <2> QED
    BY <1>1, <1>3, <2>2, <2>3 DEF Ages, PushUpstream
<1> QED
  BY <1>2, <1>3, GateSteps
  DEF Next, vars, OnlyGate, repositories, EnvironmentStep, ForcePushUpstream,
      ForcePushDownstream, OpenSync, MergeSync, PushDownstream, CommitDownstream,
      ChangeSettings, StartRun, FinishRun

\* Every step of the gate but a checkout or a failure keeps what it is about.
LEMMA SameCommits ==
  ASSUME TypeOK, GateStep, ~Dispatch, ~CheckoutUpstream, ~Fail
  PROVE  /\ gate'.down = gate.down /\ gate'.up = gate.up
         /\ gate'.phase \in {"reading", "passed"}
         /\ UNCHANGED repositories
<1>1. UNCHANGED repositories
  BY GateSteps DEF OnlyGate
<1>2. CASE CheckSources
  BY <1>1, <1>2 DEF CheckSources, Proceed, TypeOK
<1>3. ASSUME NEW a \in Answers, Advanced(a)
      PROVE  /\ gate'.down = gate.down /\ gate'.up = gate.up
             /\ gate'.phase \in {"reading", "passed"}
  BY <1>3 DEF Advanced, TypeOK
<1> QED
  BY <1>1, <1>2, <1>3, GateSteps

LEMMA OtherGateSteps ==
  ASSUME TypeOK, HeadsInv, GateStep, Observe, ~Dispatch, ~CheckoutUpstream, ~Fail
  PROVE  Lineage' /\ Apart' /\ Met'
<1>1. /\ gate'.down = gate.down /\ gate'.up = gate.up
      /\ gate'.phase \in {"reading", "passed"}
      /\ UNCHANGED <<upstream, downstream>>
  BY SameCommits DEF repositories
<1>2. upstream.id \in upstream.past
  BY DEF HeadsInv, Ages, TypeOK
<1>3. (forced' <=> forced) /\ (together => together')
  BY <1>1, <1>2 DEF Observe
<1>4. Lineage'
  BY <1>1, <1>3 DEF HeadsInv, Lineage, Source
<1>5. CASE CheckSources
  <2>1. gate'.phase = "reading" /\ gate'.next = 1
    BY <1>5 DEF CheckSources, Proceed, TypeOK
  <2> QED
    BY <2>1, <1>4 DEF Apart, Met, Beyond, Passed
<1>6. CASE gate.phase = "reading" /\ \E a \in Answers : Advanced(a) /\ AnswerWas
  <2>1. gate.next \in 1 .. 10 /\ gate.up # <<>>
    BY <1>6, PlanIs DEF TypeOK
  <2>2. /\ gate'.next = gate.next + 1 /\ gate'.phase \in {"reading", "passed"}
        /\ (gate'.phase = "passed" => gate.next = 10)
    BY <1>6, <2>1 DEF Advanced, TypeOK
  <2>3. Apart'
    <3>1. SUFFICES ASSUME gate'.phase = "reading", gate'.next = 7
                   PROVE  together \/ forced \/ upstream.id # Source.id
      BY <1>1, <1>3 DEF Apart, Source
    <3>2. gate.next = 6
      BY <2>1, <2>2, <3>1
    <3>3. downstream.id = Released.id
      BY <1>6, <3>2 DEF AnswerWas, HeadIsCommit, HeadOf, Commit
    <3> QED
      BY <2>1, <3>3 DEF HeadsInv, Observed
  <2>4. Met'
    <3>1. SUFFICES ASSUME Beyond(7)' PROVE together \/ forced
      BY <1>3 DEF Met
    <3>2. gate.next >= 7
      BY <2>1, <2>2, <3>1 DEF Beyond, Passed
    <3>3. CASE gate.next = 7
      <4>1. upstream.id = Source.id
        BY <1>6, <3>3 DEF AnswerWas, HeadIsCommit, HeadOf, Commit
      <4> QED
        BY <1>6, <3>3, <4>1 DEF HeadsInv, Apart
    <3>4. CASE gate.next > 7
      BY <1>6, <3>4 DEF HeadsInv, Met, Beyond
    <3> QED
      BY <2>1, <3>2, <3>3, <3>4
  <2> QED
    BY <1>4, <2>3, <2>4
<1> QED
  BY <1>5, <1>6, GateSteps

LEMMA HeadsGateSteps ==
  ASSUME TypeOK, HeadsInv, GateStep, Observe
  PROVE  Lineage' /\ Apart' /\ Met'
<1>1. CASE Dispatch
  BY <1>1 DEF Dispatch, Idle, Lineage, Apart, Met, Beyond, Passed
<1>2. CASE CheckoutUpstream
  <2>1. gate'.phase = "sources" /\ Source' = upstream
    BY <1>2 DEF CheckoutUpstream, TypeOK, Source
  <2>2. upstream' = upstream
    BY <1>2 DEF CheckoutUpstream, OnlyGate, repositories
  <2>3. upstream.id \in Nat
    BY GateAssumption DEF TypeOK, UpstreamCommit, Hashes
  <2> QED
    BY <2>1, <2>2, <2>3 DEF Lineage, Apart, Met, Beyond, Passed
<1>3. CASE Fail
  BY <1>3, Failed DEF Lineage, Apart, Met, Beyond, Passed
<1> QED
  BY <1>1, <1>2, <1>3, OtherGateSteps

LEMMA HeadsOutside ==
  ASSUME TypeOK, TypeOK', HeadsInv, Ages', EnvironmentStep, Observe
  PROVE  Lineage' /\ Apart' /\ Met'
<1>1. UNCHANGED gate
  BY Outside
<1>2. together => together' \/ gate.phase = "checkout"
  BY <1>1 DEF Observe
<1>3. gate.phase # "checkout" /\ ~forced' => ~forced /\ upstream.id <= upstream'.id
  <2>1. upstream' \in history'
    BY DEF TypeOK
  <2>2. \A p \in upstream'.past : p <= upstream'.id
    BY <2>1 DEF Ages
  <2> QED
    BY <1>1, <2>2 DEF Observe
<1> Hashes \subseteq Nat
  BY GateAssumption DEF Hashes
<1>4. upstream.id \in Nat /\ upstream'.id \in Nat
  <2>1. upstream \in UpstreamCommit /\ upstream' \in UpstreamCommit
    BY DEF TypeOK
  <2> QED
    BY <2>1 DEF UpstreamCommit
<1>5. gate.up # <<>> => Source.id \in Nat
  <2>1. gate.up \in Seq(UpstreamCommit)
    BY DEF TypeOK
  <2>2. gate.up # <<>> => Source \in UpstreamCommit
    BY <2>1, Element DEF Source
  <2> QED
    BY <2>2 DEF UpstreamCommit
<1>6. Lineage'
  BY <1>1, <1>3, <1>4, <1>5 DEF HeadsInv, Lineage, Source
<1>7. Apart'
  <2>1. SUFFICES ASSUME gate.phase = "reading", gate.next = 7, ~together', ~forced'
                 PROVE  upstream'.id # Source.id
    BY <1>1 DEF Apart, Source
  <2>2. ~together /\ ~forced /\ upstream.id <= upstream'.id
    BY <1>2, <1>3, <2>1
  <2>3. gate.up # <<>>
    BY <2>1 DEF TypeOK
  <2>4. Source.id <= upstream.id /\ upstream.id # Source.id
    BY <2>1, <2>2, <2>3 DEF HeadsInv, Lineage, Apart
  <2> QED
    BY <1>4, <1>5, <2>2, <2>3, <2>4
<1>8. Met'
  <2>1. SUFFICES ASSUME Beyond(7), ~together', ~forced' PROVE FALSE
    BY <1>1 DEF Met, Beyond, Passed
  <2>2. gate.phase # "checkout"
    BY <2>1 DEF Beyond, Passed
  <2> QED
    BY <1>2, <1>3, <2>1, <2>2 DEF HeadsInv, Met
<1> QED
  BY <1>6, <1>7, <1>8

LEMMA HeadsSteps ==
  ASSUME TypeOK, HeadsInv, [Next]_vars
  PROVE  HeadsInv'
<1>1. TypeOK' /\ Ages'
  BY NextType, AgesSteps DEF HeadsInv
<1>2. CASE Next
  <2>1. Observed'
    BY <1>2 DEF Next, Observe, Observed, Released, Source
  <2> QED
    BY <1>1, <1>2, <2>1, HeadsGateSteps, HeadsOutside DEF Next, HeadsInv
<1>3. CASE UNCHANGED vars
  BY <1>3 DEF vars, repositories, HeadsInv, Ages, Lineage, Observed, Apart, Met, Beyond,
              Passed, Source, Released
<1> QED
  BY <1>2, <1>3

\* The two heads were at one moment what is released, unless upstream main was
\* forced while the gate ran.
THEOREM HeadsMet == Spec => []HeadsWereTogether
<1>1. Init => TypeOK /\ HeadsInv
  <2> SUFFICES ASSUME Init PROVE TypeOK /\ HeadsInv
    OBVIOUS
  <2>1. Ages
    BY DEF Init, Ages
  <2>2. Lineage /\ Observed /\ Apart /\ Met
    BY InitIdle DEF Lineage, Observed, Apart, Met
  <2> QED
    BY <2>1, <2>2, InitType DEF HeadsInv
<1>2. TypeOK /\ HeadsInv /\ [Next]_vars => (TypeOK /\ HeadsInv)'
  BY NextType, HeadsSteps
<1>3. HeadsInv => HeadsWereTogether
  BY DEF HeadsInv, Met, HeadsWereTogether, Beyond
<1> QED
  BY <1>1, <1>2, <1>3, PTL DEF Spec

-----------------------------------------------------------------------------
(* Checks *)

\* Run n is a report of GitHub Actions about the required check.
Report(n, r, name) ==
  /\ n \in DOMAIN runs
  /\ runs[n].commit = Commit(r) /\ runs[n].name = name /\ runs[n].app = Actions

WasGreen(r) ==
  \A name \in CheckNames[r] :
    \E n \in DOMAIN runs :
      /\ Report(n, r, name) /\ runs[n].result = "success"
      /\ OnOnePage(r) =>
           \A m \in DOMAIN runs :
             Report(m, r, name) /\ m > n /\ runs[m].result # "success" => m > gate.since

\* Once the runs of a commit have been read, its checks were green.
GreenInv ==
  /\ gate.since <= Len(runs)
  /\ Beyond(8) => WasGreen("downstream")
  /\ Beyond(9) => WasGreen("upstream")

LEMMA GreenWhenRead ==
  ASSUME TypeOK, NEW r \in Repositories, AllGreen(r)
  PROVE  WasGreen(r)
<1>1. SUFFICES ASSUME NEW name \in CheckNames[r]
               PROVE  \E n \in DOMAIN runs :
                        /\ Report(n, r, name) /\ runs[n].result = "success"
                        /\ OnOnePage(r) =>
                             \A m \in DOMAIN runs : Report(m, r, name) => ~(m > n)
  BY DEF WasGreen
<1>2. PICK page \in Pages(r) : LatestIsGreen(r, name, page)
  BY DEF AllGreen
<1>3. page \subseteq RunsOf(r) /\ (OnOnePage(r) => page = RunsOf(r))
  BY DEF Pages
<1>4. PICK n \in page :
        /\ IsRequired(n, r, name) /\ runs[n].result = "success"
        /\ \A m \in page : IsRequired(m, r, name) => m <= n
  BY <1>2 DEF LatestIsGreen
<1>5. Report(n, r, name) /\ n \in DOMAIN runs
  BY <1>4, <1>3 DEF IsRequired, Report, RunsOf
<1>6. gate.apps[r] = Actions
  BY <1>4 DEF IsRequired
<1>7. ASSUME OnOnePage(r), NEW m \in DOMAIN runs, Report(m, r, name) PROVE m <= n
  BY <1>4, <1>6, <1>7, <1>3 DEF IsRequired, Report, RunsOf
<1>8. DOMAIN runs \subseteq Nat
  BY DEF TypeOK
<1> QED
  BY <1>4, <1>5, <1>7, <1>8

\* A commit whose runs fit on a page had no more of them before.
LEMMA PageStays ==
  ASSUME NEW r, TypeOK, RunsOf(r) \subseteq RunsOf(r)', IsFiniteSet(RunsOf(r)'), OnOnePage(r)'
  PROVE  OnOnePage(r)
<1>1. /\ IsFiniteSet(RunsOf(r)) /\ Cardinality(RunsOf(r)) <= Cardinality(RunsOf(r)')
  BY FS_Subset
<1>2. Cardinality(RunsOf(r)) \in Nat /\ Cardinality(RunsOf(r)') \in Nat
  BY <1>1, FS_CardinalityType
<1>3. PageSize \in Nat
  BY GateAssumption
<1> QED
  BY <1>1, <1>2, <1>3 DEF OnOnePage

\* What was green stays so when nothing that it depends on changes.
LEMMA GreenKept ==
  ASSUME NEW r, UNCHANGED runs, gate'.since = gate.since, Commit(r)' = Commit(r), WasGreen(r)
  PROVE  WasGreen(r)'
<1>1. RunsOf(r)' = RunsOf(r)
  BY DEF RunsOf
<1>2. OnOnePage(r)' = OnOnePage(r)
  BY <1>1 DEF OnOnePage
<1>3. \A n, name : Report(n, r, name)' <=> Report(n, r, name)
  BY DEF Report
<1> QED
  BY <1>2, <1>3 DEF WasGreen

LEMMA RunsChange ==
  ASSUME EnvironmentStep
  PROVE  \/ UNCHANGED runs
         \/ \E e : runs' = Append(runs, e)
         \/ \E k \in DOMAIN runs, result \in {"success", "failure"} : FinishRun(k, result)
BY DEF EnvironmentStep, PushUpstream, ForcePushUpstream, ForcePushDownstream, OpenSync,
       MergeSync, PushDownstream, ChangeSettings, StartRun

\* A new run is later than the start of the gate, and a finished run stays.
LEMMA GreenStays ==
  ASSUME TypeOK, EnvironmentStep, gate.since <= Len(runs), NEW r \in Repositories, WasGreen(r)
  PROVE  WasGreen(r)'
<1>1. UNCHANGED gate /\ gate.since \in Nat
  BY Outside, GateAssumption DEF TypeOK
<1>2. Commit(r)' = Commit(r)
  BY <1>1 DEF Commit, Released, Source
<1>3. CASE UNCHANGED runs
  BY <1>1, <1>2, <1>3, GreenKept
<1>4. ASSUME NEW e, runs' = Append(runs, e) PROVE WasGreen(r)'
  <2>1. /\ DOMAIN runs' = DOMAIN runs \cup {Len(runs) + 1}
        /\ \A n \in DOMAIN runs : runs'[n] = runs[n]
        /\ Len(runs) \in Nat
    BY <1>4 DEF TypeOK
  <2>2. SUFFICES ASSUME NEW name \in CheckNames[r] PROVE
          \E n \in DOMAIN runs' :
            /\ Report(n, r, name)' /\ runs'[n].result = "success"
            /\ OnOnePage(r)' =>
                 \A m \in DOMAIN runs' :
                   Report(m, r, name)' /\ m > n /\ runs'[m].result # "success" => m > gate.since
    BY <1>1 DEF WasGreen
  <2>3. PICK n \in DOMAIN runs :
          /\ Report(n, r, name) /\ runs[n].result = "success"
          /\ OnOnePage(r) =>
               \A m \in DOMAIN runs :
                 Report(m, r, name) /\ m > n /\ runs[m].result # "success" => m > gate.since
    BY DEF WasGreen
  <2>4. \A m \in DOMAIN runs : Report(m, r, name)' <=> Report(m, r, name)
    BY <1>2, <2>1 DEF Report
  <2>5. OnOnePage(r)' => OnOnePage(r)
    <3>1. RunsOf(r) \subseteq RunsOf(r)'
      BY <1>2, <2>1 DEF RunsOf
    <3>2. IsFiniteSet(DOMAIN runs')
      <4>1. DOMAIN runs' = 1 .. Len(runs) + 1
        BY <2>1 DEF TypeOK
      <4> QED
        BY <2>1, <4>1, FS_Interval
    <3>3. IsFiniteSet(RunsOf(r)')
      BY <3>2, FS_Subset DEF RunsOf
    <3> QED
      BY <3>1, <3>3, PageStays
  <2> QED
    BY <1>1, <2>1, <2>3, <2>4, <2>5
<1>5. ASSUME NEW k \in DOMAIN runs, NEW result \in {"success", "failure"}, FinishRun(k, result)
      PROVE  WasGreen(r)'
  <2>1. runs[k] \in Run /\ runs[k].result = "none"
    BY <1>5 DEF FinishRun, TypeOK
  <2>2. DOMAIN runs' = DOMAIN runs
    BY <1>5 DEF FinishRun, TypeOK
  <2>3. \A n \in DOMAIN runs : runs'[n] = IF n = k THEN [runs[k] EXCEPT !.result = result] ELSE runs[n]
    BY <1>5 DEF FinishRun, TypeOK
  <2>4. \A n \in DOMAIN runs :
          /\ runs'[n].commit = runs[n].commit /\ runs'[n].name = runs[n].name
          /\ runs'[n].app = runs[n].app
          /\ (n # k => runs'[n].result = runs[n].result)
    BY <2>1, <2>3 DEF Run
  <2>5. \A name : \A n \in DOMAIN runs : Report(n, r, name)' <=> Report(n, r, name)
    BY <1>2, <2>2, <2>4 DEF Report
  <2>6. OnOnePage(r)' <=> OnOnePage(r)
    BY <1>2, <2>2, <2>4 DEF OnOnePage, RunsOf
  <2> QED
    BY <1>1, <2>1, <2>2, <2>4, <2>5, <2>6 DEF WasGreen
<1> QED
  BY <1>3, <1>4, <1>5, RunsChange

LEMMA GreenSteps ==
  ASSUME TypeOK, GreenInv, [Next]_vars
  PROVE  GreenInv'
<1>1. CASE EnvironmentStep
  <2>1. UNCHANGED gate /\ Len(runs') >= Len(runs) /\ Len(runs) \in Nat /\ Len(runs') \in Nat
    <3>1. UNCHANGED gate /\ Len(runs) \in Nat
      BY <1>1, Outside DEF TypeOK
    <3>2. CASE UNCHANGED runs
      BY <3>1, <3>2
    <3>3. ASSUME NEW e, runs' = Append(runs, e) PROVE Len(runs') = Len(runs) + 1
      BY <3>3 DEF TypeOK
    <3>4. ASSUME NEW k \in DOMAIN runs, NEW result, FinishRun(k, result)
          PROVE  Len(runs') = Len(runs)
      BY <3>4 DEF FinishRun, TypeOK
    <3>5. Len(runs') \in {Len(runs), Len(runs) + 1}
      BY <1>1, <3>2, <3>3, <3>4, RunsChange
    <3> QED
      BY <3>1, <3>5
  <2>2. gate.since \in Nat
    BY GateAssumption DEF TypeOK
  <2>3. "upstream" \in Repositories /\ "downstream" \in Repositories
    BY DEF Repositories
  <2> QED
    BY <1>1, <2>1, <2>2, <2>3, GreenStays DEF GreenInv, Beyond, Passed
<1>2. CASE GateStep
  <2>1. UNCHANGED runs /\ Len(runs) \in Nat
    BY <1>2, GateSteps DEF OnlyGate, TypeOK
  <2>2. CASE Dispatch
    BY <2>1, <2>2 DEF Dispatch, Idle, GreenInv, Beyond, Passed
  <2>3. CASE CheckoutUpstream
    BY <2>1, <2>3 DEF CheckoutUpstream, TypeOK, GreenInv, Beyond, Passed
  <2>4. CASE CheckSources \/ Fail
    <3>1. gate'.phase = "failed" \/ (gate'.phase = "reading" /\ gate'.next = 1)
      BY <2>4, Failed DEF CheckSources, Proceed, TypeOK
    <3>2. gate'.since \in {0, gate.since}
      BY <2>4, Failed DEF CheckSources, Proceed, TypeOK
    <3> QED
      BY <2>1, <3>1, <3>2 DEF GreenInv, Beyond, Passed
  <2>5. CASE gate.phase = "reading" /\ \E a \in Answers : Advanced(a) /\ AnswerWas
    <3>1. gate.next \in 1 .. 10
      BY <2>5, PlanIs DEF TypeOK
    <3>2. /\ gate'.next = gate.next + 1 /\ gate'.phase \in {"reading", "passed"}
          /\ (gate'.phase = "passed" => gate.next = 10)
          /\ gate'.since = gate.since /\ gate'.down = gate.down /\ gate'.up = gate.up
      BY <2>5, <3>1 DEF Advanced, TypeOK
    <3>3. "upstream" \in Repositories /\ "downstream" \in Repositories
      BY DEF Repositories
    <3>4. \A r \in Repositories : WasGreen(r) => WasGreen(r)'
      BY <2>1, <3>2, GreenKept DEF Commit, Released, Source
    <3>5. Beyond(8)' => Beyond(8) \/ gate.next = 8
      BY <2>5, <3>1, <3>2 DEF Beyond, Passed
    <3>6. Beyond(9)' => Beyond(9) \/ gate.next = 9
      BY <2>5, <3>1, <3>2 DEF Beyond, Passed
    <3>7. gate.next = 8 => WasGreen("downstream")
      BY <2>5, <3>3, GreenWhenRead DEF AnswerWas
    <3>8. gate.next = 9 => WasGreen("upstream")
      BY <2>5, <3>3, GreenWhenRead DEF AnswerWas
    <3> QED
      BY <2>1, <3>2, <3>3, <3>4, <3>5, <3>6, <3>7, <3>8 DEF GreenInv
  <2> QED
    BY <1>2, <2>2, <2>3, <2>4, <2>5, GateSteps
<1>3. CASE UNCHANGED vars
  <2>1. UNCHANGED <<runs, gate>>
    BY <1>3 DEF vars
  <2>2. \A r : WasGreen(r) => WasGreen(r)'
    BY <2>1, GreenKept DEF Commit, Released, Source
  <2> QED
    BY <2>1, <2>2 DEF GreenInv, Beyond, Passed
<1> QED
  BY <1>1, <1>2, <1>3 DEF Next

\* Every required check of both commits was green when the gate read it,
\* whoever else reports checks and however often they run again.
THEOREM ReleasesWereGreen == Spec => []PassedWereGreen
<1>1. Init => TypeOK /\ GreenInv
  <2> SUFFICES ASSUME Init PROVE GreenInv
    BY InitType
  <2>1. Len(runs) = 0
    BY DEF Init
  <2> QED
    BY <2>1, InitIdle DEF GreenInv
<1>2. TypeOK /\ GreenInv /\ [Next]_vars => (TypeOK /\ GreenInv)'
  BY NextType, GreenSteps
<1>3. TypeOK /\ GreenInv => PassedWereGreen
  <2> SUFFICES ASSUME TypeOK, GreenInv, Passed, NEW r \in Repositories,
                      NEW name \in CheckNames[r]
               PROVE  LET reports == {n \in DOMAIN runs : /\ runs[n].commit = Commit(r)
                                                          /\ runs[n].name = name
                                                          /\ runs[n].app = Actions}
                      IN \E n \in reports :
                           /\ runs[n].result = "success"
                           /\ OnOnePage(r) =>
                                \A m \in reports :
                                  m > n /\ runs[m].result # "success" => m > gate.since
    BY DEF PassedWereGreen
  <2>1. WasGreen(r)
    BY DEF GreenInv, Beyond, Repositories
  <2> QED
    BY <2>1 DEF WasGreen, Report
<1> QED
  BY <1>1, <1>2, <1>3, PTL DEF Spec
=============================================================================

----------------------------- MODULE ReleaseGate -----------------------------
(***************************************************************************)
(* scripts/check-release-gate.py, run by .github/workflows/release.yml:    *)
(* may the checked-out commit of this repository be released?              *)
(*                                                                         *)
(* The gate reads two repositories, their settings and their CI one answer *)
(* after the other, while pull requests are merged, settings are changed   *)
(* and checks run again.  Any answer but the right one ends it in failure. *)
(*                                                                         *)
(* Left out: versions and CODEOWNERS, parts of a payload; the values        *)
(* that the workflow passes on from its own configuration; the manifest    *)
(* fields that the commit determines (exporter, subtree).                  *)
(***************************************************************************)
EXTENDS Integers, FiniteSets, Sequences

CONSTANTS
  Payloads,    \* contents of an export, SOURCE.json apart
  CheckNames,  \* the required checks of each repository
  Apps,        \* GitHub Apps that report checks
  Actions,     \* the app with the slug github-actions
  NoApp,       \* a required check that is not bound to an app
  PageSize,    \* how many check runs GitHub answers with: per_page
  Changeable,  \* bound on the settings that an administrator changes
  MaxCommits,  \* bound on the commits of both repositories
  MaxRuns,     \* bound on the check runs
  MaxChanges   \* bound on the changes of settings

Repositories == {"upstream", "downstream"}

VARIABLES
  commits,     \* how many commits there are: hashes are their numbers
  history,     \* all commits of longshot
  upstream,    \* the commit at the head of main of longshot
  downstream,  \* the commit at the head of main of longshot-protocol
  earlier,     \* all commits that were at the head of main of longshot-protocol
  pending,     \* the open pull request of the sync bot, if any
  good,        \* the settings that are as the gate requires them
  bound,       \* the app to which the checks of each repository are bound
  changes,     \* how often a setting was changed
  runs,        \* check runs: their ids are their positions
  gate,        \* the run of the gate
  together,    \* history: both heads were at once what the gate looks at
  forced       \* history: upstream main was forced since the gate checked it out

repositories == <<commits, history, upstream, downstream, earlier, pending>>
settings == <<good, bound, changes>>
vars == <<repositories, settings, runs, gate, together, forced>>

Hashes == 1 .. MaxCommits

\* An upstream commit knows its ancestors, itself among them.
UpstreamCommit == [id : Hashes, past : SUBSET Hashes, payload : Payloads]

Manifest == [commit : Hashes, payload : Payloads]
Export == [files : Payloads, manifest : Manifest]
DownstreamCommit == [id : Hashes, tree : Export]

Settings ==
  ({"owners", "protection"} \X Repositories) \cup {<<"environment", "downstream">>}

Bindings == {"apps"} \X Repositories

ASSUME GateAssumption ==
  /\ Actions \in Apps /\ NoApp \notin Apps
  /\ DOMAIN CheckNames = Repositories
  /\ PageSize \in Nat
  /\ Changeable \subseteq Settings \cup Bindings
  /\ MaxCommits \in Nat \ {0, 1} /\ MaxRuns \in Nat /\ MaxChanges \in Nat

Run == [commit : Hashes, name : UNION {CheckNames[r] : r \in Repositories},
        app : Apps, result : {"none", "success", "failure"}]

-----------------------------------------------------------------------------
(* Provenance *)

\* The deterministic exporter of longshot.
ExportOf(c) ==
  [files |-> c.payload, manifest |-> [commit |-> c.id, payload |-> c.payload]]

\* verify_repository: the files are those in the inventory of the manifest.
VerifyRepository(t) == t.files = t.manifest.payload

\* Mutant: no replay of the recorded source.
SourcesWithoutReplay(t, recorded, latest) ==
  /\ VerifyRepository(t) /\ VerifyRepository(ExportOf(latest))
  /\ recorded.id \in latest.past
  /\ t.manifest.payload = ExportOf(latest).manifest.payload

\* The checkout is what its recorded source exports, and has the payload
\* that the latest source exports.
SourcesAgree(t, recorded, latest) ==
  /\ VerifyRepository(t)
  /\ VerifyRepository(ExportOf(recorded)) /\ VerifyRepository(ExportOf(latest))
  /\ t.manifest = ExportOf(recorded).manifest
  /\ recorded.id \in latest.past
  /\ t.manifest.payload = ExportOf(latest).manifest.payload

-----------------------------------------------------------------------------
(* The gate *)

\* What check_release asks GitHub, in order.
Plan ==
  <<<<"owners", "downstream">>, <<"owners", "upstream">>,
    <<"protection", "downstream">>, <<"protection", "upstream">>,
    <<"environment", "downstream">>,
    <<"head", "downstream">>, <<"head", "upstream">>,
    <<"status", "downstream">>, <<"status", "upstream">>,
    <<"sync", "downstream">>>>

Idle ==
  [phase |-> "idle", next |-> 1, down |-> <<>>, up |-> <<>>,
   apps |-> [r \in Repositories |-> NoApp], since |-> 0]

Running == gate.phase \in {"checkout", "sources", "reading"}
Passed == gate.phase = "passed"

\* The commits that the gate is about.
Released == gate.down[1]
Source == gate.up[1]
Commit(r) == IF r = "downstream" THEN Released.id ELSE Source.id
HeadOf(r) == IF r = "downstream" THEN downstream.id ELSE upstream.id

\* A failure ends the run, whatever it has learned.
Fail == gate' = [Idle EXCEPT !.phase = "failed"]

\* The next question, or the end, if the answer is as it must be.
Proceed(ok, apps) ==
  IF ~ok THEN Fail
  ELSE gate' = [gate EXCEPT !.phase = IF @ = "sources" \/ gate.next < Len(Plan)
                                      THEN "reading" ELSE "passed",
                            !.next = IF gate.phase = "sources" THEN 1 ELSE @ + 1,
                            !.apps = apps]

OnlyGate == UNCHANGED <<repositories, settings, runs>>

At(kind, r) == gate.phase = "reading" /\ Plan[gate.next] = <<kind, r>>

\* A run of the workflow, one at a time, checks out the commit of the event.
Dispatch ==
  /\ ~Running
  /\ gate' = [Idle EXCEPT !.phase = "checkout", !.down = <<downstream>>,
                          !.since = Len(runs)]
  /\ OnlyGate

CheckoutUpstream ==
  /\ gate.phase = "checkout"
  /\ gate' = [gate EXCEPT !.phase = "sources", !.up = <<upstream>>]
  /\ OnlyGate

CheckSources ==
  /\ gate.phase = "sources"
  /\ Proceed(\E c \in history : /\ c.id = Released.tree.manifest.commit
                               /\ SourcesAgree(Released.tree, c, Source),
             gate.apps)
  /\ OnlyGate

\* CODEOWNERS errors, and the release environment.
CheckSetting(kind, r) ==
  /\ At(kind, r) /\ kind \in {"owners", "environment"}
  /\ Proceed(<<kind, r>> \in good, gate.apps)
  /\ OnlyGate

CheckBranchProtection(r) ==
  /\ At("protection", r)
  /\ Proceed(<<"protection", r>> \in good /\ bound[r] # NoApp,
             [gate.apps EXCEPT ![r] = bound[r]])
  /\ OnlyGate

\* Mutant: the head of upstream main is not read.
HeadIsDownstream(r) == r = "upstream" \/ HeadOf(r) = Commit(r)

HeadIsCommit(r) == HeadOf(r) = Commit(r)

CheckMainHead(r) ==
  /\ At("head", r)
  /\ Proceed(HeadIsCommit(r), gate.apps)
  /\ OnlyGate

\* Run n reports the required check, by the app to which it is bound.
IsRequired(n, r, name) ==
  /\ runs[n].commit = Commit(r) /\ runs[n].name = name
  /\ runs[n].app = Actions /\ runs[n].app = gate.apps[r]

RunsOf(r) == {n \in DOMAIN runs : runs[n].commit = Commit(r)}
OnOnePage(r) == Cardinality(RunsOf(r)) <= PageSize

\* The one page of check runs that the gate asks for: all of them, or which
\* ones GitHub chooses.
Pages(r) ==
  {page \in SUBSET RunsOf(r) :
     IF OnOnePage(r) THEN page = RunsOf(r) ELSE Cardinality(page) = PageSize}

\* Mutant: one run that succeeded will do.
OnceGreen(r, name, page) ==
  \E n \in page : IsRequired(n, r, name) /\ runs[n].result = "success"

\* The latest run of the check on the page has completed with success.
LatestIsGreen(r, name, page) ==
  \E n \in page :
    /\ IsRequired(n, r, name) /\ runs[n].result = "success"
    /\ \A m \in page : IsRequired(m, r, name) => m <= n

CheckCommitStatus(r) ==
  /\ At("status", r)
  /\ \E page \in Pages(r) :
       Proceed(\A name \in CheckNames[r] : LatestIsGreen(r, name, page), gate.apps)
  /\ OnlyGate

CheckNoPendingSync ==
  /\ At("sync", "downstream")
  /\ Proceed(pending = <<>>, gate.apps)
  /\ OnlyGate

\* A git command or a request to GitHub fails or takes too long.
StepFails == Running /\ Fail /\ OnlyGate

GateStep ==
  \/ Dispatch \/ CheckoutUpstream \/ CheckSources
  \/ \E r \in Repositories :
       \/ \E kind \in {"owners", "environment"} : CheckSetting(kind, r)
       \/ CheckBranchProtection(r) \/ CheckMainHead(r) \/ CheckCommitStatus(r)
  \/ CheckNoPendingSync
  \/ StepFails

-----------------------------------------------------------------------------
(* The repositories, their settings and their CI *)

OutsideGate == UNCHANGED gate

\* A pull request is merged into longshot.
PushUpstream(payload) ==
  /\ commits < MaxCommits
  /\ commits' = commits + 1
  /\ upstream' = [id |-> commits + 1, past |-> upstream.past \cup {commits + 1},
                  payload |-> payload]
  /\ history' = history \cup {upstream'}
  /\ UNCHANGED <<downstream, earlier, pending, settings, runs>> /\ OutsideGate

\* Only branch protection keeps main from being forced.
ForcePushUpstream(c) ==
  /\ <<"protection", "upstream">> \notin good
  /\ upstream' = c
  /\ UNCHANGED <<commits, history, downstream, earlier, pending, settings, runs>>
  /\ OutsideGate

ForcePushDownstream(c) ==
  /\ <<"protection", "downstream">> \notin good
  /\ downstream' = c
  /\ UNCHANGED <<commits, history, upstream, earlier, pending, settings, runs>>
  /\ OutsideGate

\* The sync bot opens or updates its pull request.
OpenSync ==
  /\ pending' = <<ExportOf(upstream)>>
  /\ UNCHANGED <<commits, history, upstream, downstream, earlier, settings, runs>>
  /\ OutsideGate

CommitDownstream(tree) ==
  /\ commits < MaxCommits
  /\ commits' = commits + 1
  /\ downstream' = [id |-> commits + 1, tree |-> tree]
  /\ earlier' = earlier \cup {downstream'}

MergeSync ==
  /\ pending # <<>>
  /\ CommitDownstream(pending[1])
  /\ pending' = <<>>
  /\ UNCHANGED <<history, upstream, settings, runs>> /\ OutsideGate

\* Anything else that gets into main of longshot-protocol.
PushDownstream(tree) ==
  /\ CommitDownstream(tree)
  /\ UNCHANGED <<history, upstream, pending, settings, runs>> /\ OutsideGate

ChangeSettings ==
  /\ changes < MaxChanges
  /\ changes' = changes + 1
  /\ \/ \E s \in Changeable \cap Settings :
          good' = (IF s \in good THEN good \ {s} ELSE good \cup {s}) /\ UNCHANGED bound
     \/ \E s \in Changeable \cap Bindings, app \in Apps \cup {NoApp} :
          bound' = [bound EXCEPT ![s[2]] = app] /\ UNCHANGED good
  /\ UNCHANGED <<repositories, runs>> /\ OutsideGate

\* A check of a commit is started, or is first seen with its result.
StartRun(r, name, app, result) ==
  /\ Len(runs) < MaxRuns
  /\ runs' = Append(runs, [commit |-> HeadOf(r), name |-> name, app |-> app,
                           result |-> result])
  /\ UNCHANGED <<repositories, settings>> /\ OutsideGate

FinishRun(n, result) ==
  /\ runs[n].result = "none"
  /\ runs' = [runs EXCEPT ![n].result = result]
  /\ UNCHANGED <<repositories, settings>> /\ OutsideGate

EnvironmentStep ==
  \/ \E payload \in Payloads : PushUpstream(payload)
  \/ \E c \in history : ForcePushUpstream(c)
  \/ \E c \in earlier : ForcePushDownstream(c)
  \/ OpenSync \/ MergeSync
  \/ \E tree \in Export : PushDownstream(tree)
  \/ ChangeSettings
  \/ \E r \in Repositories, app \in Apps, result \in {"none", "success", "failure"} :
       \E name \in CheckNames[r] : StartRun(r, name, app, result)
  \/ \E n \in DOMAIN runs, result \in {"success", "failure"} : FinishRun(n, result)

-----------------------------------------------------------------------------
(* The specification *)

Init ==
  /\ \E payload \in Payloads :
       upstream = [id |-> 1, past |-> {1}, payload |-> payload]
  /\ commits = 2 /\ history = {upstream}
  /\ downstream = [id |-> 2, tree |-> ExportOf(upstream)] /\ earlier = {downstream}
  /\ pending = <<>>
  /\ good = Settings /\ bound = [r \in Repositories |-> Actions] /\ changes = 0
  /\ runs = <<>>
  /\ gate = Idle
  /\ together = FALSE /\ forced = FALSE

\* The gate looks at what is at the head of both main branches.
Observe ==
  /\ together' = (\/ together /\ gate'.phase # "checkout"
                  \/ /\ gate'.up # <<>>
                     /\ downstream'.id = gate'.down[1].id
                     /\ upstream'.id = gate'.up[1].id)
  /\ forced' = (gate'.phase # "checkout" /\ (forced \/ upstream.id \notin upstream'.past))

Next == (GateStep \/ EnvironmentStep) /\ Observe

Spec == Init /\ [][Next]_vars

-----------------------------------------------------------------------------
(* Properties *)

TypeOK ==
  /\ commits \in Hashes
  /\ history \subseteq UpstreamCommit /\ upstream \in history
  /\ earlier \subseteq DownstreamCommit /\ downstream \in earlier
  /\ pending \in Seq(Export) /\ Len(pending) <= 1
  /\ good \subseteq Settings /\ bound \in [Repositories -> Apps \cup {NoApp}]
  /\ changes \in 0 .. MaxChanges
  /\ runs \in Seq(Run) /\ Len(runs) <= MaxRuns
  /\ gate \in [phase : {"idle", "checkout", "sources", "reading", "passed", "failed"},
                next : 1 .. Len(Plan) + 1,
                down : Seq(DownstreamCommit), up : Seq(UpstreamCommit),
                apps : [Repositories -> Apps \cup {NoApp}], since : 0 .. MaxRuns]
  /\ Len(gate.down) <= 1 /\ Len(gate.up) <= 1
  /\ Running \/ Passed => gate.down # <<>>
  /\ gate.phase \in {"sources", "reading", "passed"} => gate.up # <<>>
  /\ gate.phase = "reading" => gate.next \in DOMAIN Plan
  /\ together \in BOOLEAN /\ forced \in BOOLEAN

\* A release is exactly what the source that it names exports, that source is
\* in the history of the upstream main that was checked out, and that main
\* exports the same files, whatever was committed by hand in between.
PassedIsExport ==
  Passed =>
    \E c \in history :
      /\ c.id = Released.tree.manifest.commit /\ c.id \in Source.past
      /\ Released.tree = ExportOf(c)
      /\ Released.tree.files = Source.payload

\* Although the gate reads the two heads one after the other, and long after
\* it checked them out, there was a moment during its run at which both were
\* what it releases, unless someone could force upstream main and did.
HeadsWereTogether == Passed => together \/ forced

\* Every required check of both commits was green: GitHub Actions reported a
\* success for it, and, as long as the runs of the commit fit on the page that
\* the gate reads, every later report of GitHub Actions that is not one came
\* while the gate was running.
PassedWereGreen ==
  Passed =>
    \A r \in Repositories : \A name \in CheckNames[r] :
      LET reports == {n \in DOMAIN runs : /\ runs[n].commit = Commit(r)
                                          /\ runs[n].name = name
                                          /\ runs[n].app = Actions}
      IN \E n \in reports :
           /\ runs[n].result = "success"
           /\ OnOnePage(r) =>
                \A m \in reports :
                  m > n /\ runs[m].result # "success" => m > gate.since
=============================================================================

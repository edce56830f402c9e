------------------------------- MODULE Publish -------------------------------
(***************************************************************************)
(* The publishing helpers, scripts/publish-*.sh, and the audit of package  *)
(* archives that two of them share, scripts/check-package-archives.sh.     *)
(*                                                                         *)
(* Several helpers may run in one working tree, which is edited while they *)
(* run; any command of theirs can fail.  Everything that a helper makes is *)
(* in a directory of its own, except typescript/dist.                      *)
(*                                                                         *)
(* The files of a package are abstracted to what the checks look for in    *)
(* them.  Left out: versions (there is one), lock files, manifests, the    *)
(* custom client guide, smoke tests, tools that are not installed.         *)
(***************************************************************************)
EXTENDS Integers, Sequences

CONSTANTS
  Helpers,   \* runs of a helper, which may overlap; each is started once
  Marks,     \* what the files of a package may have
  None,      \* no run, or nothing
  MaxEdits   \* bound on the edits of the working tree

\* What a file may be: a credential; a contract of the server; a file beyond those of the package;
\* a file with a path that is not for publication.
ASSUME PublishAssumption ==
  /\ Marks \subseteq {"secret", "private", "extra", "unsafe"}
  /\ MaxEdits \in Nat

Packages == {"rust", "python", "typescript"}
Files == SUBSET Marks

VARIABLES
  tree,      \* the working tree
  edits,     \* how often it was edited
  dist,      \* typescript/dist, which npm run build removes and makes again
  begun,     \* the runs that have been started
  job,       \* the runs of helpers
  registry,  \* what has been published
  audited    \* history: the archives that have passed the audit

vars == <<tree, edits, dist, begun, job, registry, audited>>

\* Two archives with the same files are not the same bytes (they hold times, and
\* what the tools wrote): an archive is known by the run that packed it for the
\* audit, or by None if it was packed in any other way.
Archive == [kind : {"crate", "tgz", "wheel", "sdist"}, by : Helpers \cup {None},
            files : Files, whole : BOOLEAN]

\* The copies from which a run packs.
Job == [helper : Packages, by : Helpers, at : Nat \ {0},
        python : Files, typescript : Files, whole : BOOLEAN,
        rust : Files]

-----------------------------------------------------------------------------
(* The steps of a helper *)

RustPlan == <<"surface", "export", "package", "secrets", "crate">>

\* Mutant: twine is given the sdist first.
PythonPlanSdistFirst ==
  <<"python", "clean", "compile", "typescript", "surface", "export", "package", "secrets",
    "inventory", "contents", "paths", "bytes", "scan", "packed", "emit",
    "sdist", "wheel">>

\* The audit, which packs the crate too, and the uploads.
PythonPlan ==
  <<"python", "clean", "compile", "typescript", "surface", "export", "package", "secrets",
    "inventory", "contents", "paths", "bytes", "scan", "packed", "emit",
    "wheel", "sdist">>
TypescriptPlan ==
  <<"python", "clean", "compile", "typescript", "surface", "export", "package", "secrets",
    "inventory", "contents", "paths", "bytes", "scan", "packed", "emit",
    "tgz">>

Plan(helper) ==
  CASE helper = "rust" -> RustPlan
    [] helper = "python" -> PythonPlan
    [] helper = "typescript" -> TypescriptPlan

Step(h) == Plan(job[h].helper)[job[h].at]

At(h, step) == job[h] # None /\ Step(h) = step

\* A run that has done its step, having made changes to its own files.
Advanced(j) == IF j.at = Len(Plan(j.helper)) THEN None ELSE [j EXCEPT !.at = @ + 1]

Advance(h, j) == job' = [job EXCEPT ![h] = Advanced(j)]

\* set -e, and the trap that removes the directory.
Abort(h) == job' = [job EXCEPT ![h] = None]

\* A command that only checks.
Check(h, passes) ==
  /\ IF passes THEN Advance(h, job[h]) ELSE Abort(h)
  /\ UNCHANGED <<tree, edits, begun, dist, registry, audited>>

Crate(j) == [kind |-> "crate", by |-> j.by, files |-> j.rust, whole |-> TRUE]
Tgz(j) == [kind |-> "tgz", by |-> j.by, files |-> j.typescript, whole |-> j.whole]
Wheel(j) == [kind |-> "wheel", by |-> j.by, files |-> j.python, whole |-> TRUE]
Sdist(j) == [kind |-> "sdist", by |-> j.by, files |-> j.python, whole |-> TRUE]

Archives(j) == {Crate(j), Tgz(j), Wheel(j), Sdist(j)}

Start(h) ==
  /\ h \notin begun
  /\ begun' = begun \cup {h}
  /\ \E helper \in Packages :
       job' = [job EXCEPT ![h] =
                 [helper |-> helper, by |-> h, at |-> 1, python |-> {},
                  typescript |-> {}, whole |-> FALSE, rust |-> {}]]
  /\ UNCHANGED <<tree, edits, dist, registry, audited>>

\* Any command can fail; with --check a run ends before it publishes.
Fail(h) ==
  /\ job[h] # None
  /\ Abort(h)
  /\ UNCHANGED <<tree, edits, begun, dist, registry, audited>>

CopyPython(h) ==
  /\ At(h, "python")
  /\ Advance(h, [job[h] EXCEPT !.python = tree["python"]])
  /\ UNCHANGED <<tree, edits, begun, dist, registry, audited>>

Clean(h) ==
  /\ At(h, "clean")
  /\ dist' = None
  /\ Advance(h, job[h])
  /\ UNCHANGED <<tree, edits, begun, registry, audited>>

Compile(h) ==
  /\ At(h, "compile")
  /\ dist' = tree["typescript"]
  /\ Advance(h, job[h])
  /\ UNCHANGED <<tree, edits, begun, registry, audited>>

\* A copy of what another run has removed is incomplete, or fails.
CopyTypescript(h) ==
  /\ At(h, "typescript")
  /\ IF dist # None
     THEN Advance(h, [job[h] EXCEPT !.typescript = dist, !.whole = TRUE])
     ELSE \/ Advance(h, [job[h] EXCEPT !.typescript = {}, !.whole = FALSE])
          \/ Abort(h)
  /\ UNCHANGED <<tree, edits, begun, dist, registry, audited>>

-----------------------------------------------------------------------------
(* publish-rust.sh *)

\* The sources of all languages are searched in the working tree.
CheckSurface(h) ==
  /\ At(h, "surface")
  /\ Check(h, \A p \in Packages : "private" \notin tree[p])

CopyRust(h) ==
  /\ At(h, "export")
  /\ Advance(h, [job[h] EXCEPT !.rust = tree["rust"]])
  /\ UNCHANGED <<tree, edits, begun, dist, registry, audited>>

\* cargo package verifies the exported directory, and may fail.
Package(h) ==
  /\ At(h, "package")
  /\ Advance(h, job[h])
  /\ UNCHANGED <<tree, edits, begun, dist, registry, audited>>

CheckSecrets(h) ==
  /\ At(h, "secrets")
  /\ Check(h, "secret" \notin Crate(job[h]).files)

-----------------------------------------------------------------------------
(* check-package-archives.sh, after the crate has been packed *)

Paths(files) == files \cap {"extra", "unsafe"}

\* Mutant: only files that should not be there are reported.
CheckExtraFiles(h) ==
  /\ At(h, "inventory")
  /\ Check(h, Paths(job[h].typescript) = {})

\* What is expected of the crate is read from the working tree; the modules of
\* the npm package are listed in the script.
CheckInventory(h) ==
  /\ At(h, "inventory")
  /\ Check(h, /\ Paths(job[h].rust) = Paths(tree["rust"])
              /\ Paths(job[h].typescript) = {} /\ job[h].whole)

\* Then what is expected of wheel and sdist.
CheckContents(h) ==
  /\ At(h, "contents")
  /\ Check(h, Paths(job[h].python) = Paths(tree["python"]))

CheckPaths(h) ==
  /\ At(h, "paths")
  /\ Check(h, \A a \in Archives(job[h]) : "unsafe" \notin a.files)

\* Every file of the working tree is looked up in wheel and sdist.  A file that
\* only these have is not missed here.
CompareBytes(h) ==
  /\ At(h, "bytes")
  /\ Check(h, tree["python"] \subseteq job[h].python)

ScanArchives(h) ==
  /\ At(h, "scan")
  /\ Check(h, \A a \in Archives(job[h]) : "secret" \notin a.files)

\* Mutant: the working tree is searched again, and not the archives.
CheckUnpacked(h) ==
  /\ At(h, "packed")
  /\ Check(h, \A p \in Packages : "private" \notin tree[p])

CheckPacked(h) ==
  /\ At(h, "packed")
  /\ Check(h, \A a \in Archives(job[h]) : "private" \notin a.files)

\* The audited archives are copied to the directory of the helper.
Emit(h) ==
  /\ At(h, "emit")
  /\ audited' = audited \cup Archives(job[h])
  /\ Advance(h, job[h])
  /\ UNCHANGED <<tree, edits, begun, dist, registry>>

-----------------------------------------------------------------------------
(* Publication *)

\* Mutant: files that are already there are skipped.
AcceptAny(a) == TRUE

\* A registry accepts one file of each kind for a version.
Accepts(a) == \A b \in registry : b.kind # a.kind

\* The answer of the registry can be lost.
Upload(h, a) ==
  /\ IF Accepts(a)
     THEN /\ registry' = registry \cup {a}
          /\ Advance(h, job[h]) \/ Abort(h)
     ELSE Abort(h) /\ UNCHANGED registry
  /\ UNCHANGED <<tree, edits, begun, dist, audited>>

\* Mutant: cargo publish packs the working tree.
PublishTree(h) ==
  /\ At(h, "crate")
  /\ Upload(h, [Crate(job[h]) EXCEPT !.files = tree["rust"], !.by = None])

\* cargo publish packs the exported directory once more.
PublishCrate(h) ==
  At(h, "crate") /\ Upload(h, [Crate(job[h]) EXCEPT !.by = None])

\* Mutant: npm packs its directory in the working tree.
PublishDist(h) ==
  /\ At(h, "tgz")
  /\ dist # None
  /\ Upload(h, [Tgz(job[h]) EXCEPT !.files = dist, !.by = None])

PublishTgz(h) == At(h, "tgz") /\ Upload(h, Tgz(job[h]))

\* twine uploads the wheel, then the sdist.
PublishWheel(h) == At(h, "wheel") /\ Upload(h, Wheel(job[h]))
PublishSdist(h) == At(h, "sdist") /\ Upload(h, Sdist(job[h]))

-----------------------------------------------------------------------------
(* Around the helpers *)

Edit(p, files) ==
  /\ edits < MaxEdits
  /\ tree' = [tree EXCEPT ![p] = files]
  /\ edits' = edits + 1
  /\ UNCHANGED <<dist, begun, job, registry, audited>>

Init ==
  /\ tree \in [Packages -> Files] /\ edits = 0
  /\ dist \in Files \cup {None}
  /\ begun = {} /\ job = [h \in Helpers |-> None]
  /\ registry = {} /\ audited = {}

HelperStep(h) ==
  \/ Start(h) \/ Fail(h)
  \/ CopyPython(h) \/ Clean(h) \/ Compile(h) \/ CopyTypescript(h)
  \/ CheckSurface(h) \/ CopyRust(h) \/ Package(h) \/ CheckSecrets(h)
  \/ CheckInventory(h) \/ CheckContents(h) \/ CheckPaths(h) \/ CompareBytes(h) \/ ScanArchives(h)
  \/ CheckPacked(h) \/ Emit(h)
  \/ PublishCrate(h) \/ PublishTgz(h) \/ PublishWheel(h) \/ PublishSdist(h)

Next ==
  \/ \E h \in Helpers : HelperStep(h)
  \/ \E p \in Packages, files \in Files : Edit(p, files)

Spec == Init /\ [][Next]_vars

-----------------------------------------------------------------------------
(* Properties *)

TypeOK ==
  /\ tree \in [Packages -> Files] /\ edits \in 0 .. MaxEdits
  /\ dist \in Files \cup {None} /\ begun \subseteq Helpers
  /\ job \in [Helpers -> Job \cup {None}]
  /\ \A h \in Helpers : job[h] # None => job[h].at <= Len(Plan(job[h].helper))
  /\ registry \subseteq Archive /\ audited \subseteq Archive

\* No credential is published in any package, whatever is edited, and whenever.
SecretsStayHome == \A a \in registry : "secret" \notin a.files

\* Nothing of the server is published on npm and PyPI, although the working
\* tree was read at several moments.
NothingPrivateIsPublished ==
  \A a \in registry : a.kind # "crate" => a.files \cap {"private", "unsafe"} = {}

\* The npm package has all its modules and no other file, although helpers
\* remove and make again the one typescript/dist that they copy.
NpmPackageIsComplete ==
  \A a \in registry : a.kind = "tgz" => a.whole /\ "extra" \notin a.files

\* What npm and PyPI have is the very archive that an audit has passed, and not one
\* that was packed again, or from other files, after the checks.
PublishedWereAudited == \A a \in registry : a.kind # "crate" => a \in audited

\* Wheel and sdist of a version are of one build, also after the upload of the
\* second has failed and another run has tried.
WheelAndSdistAgree ==
  \A a, b \in registry :
    a.kind = "wheel" /\ b.kind = "sdist" => a.by = b.by /\ a.files = b.files

\* Whatever overlaps, fails, is edited or is run again, helpers only do to the
\* registries what PackageRegistry says: audited archives of one build are added,
\* wheel before sdist, and nothing is replaced.
Registry == INSTANCE PackageRegistry WITH published <- registry, audited <- audited
KeepsTheRegistry == Registry!RegistrySpec

\* PROTOCOL_SYNC_SETUP.md: the Rust, Python and TypeScript helpers can "publish
\* the exact archives produced by the shared package audit".
ExactArchivesArePublished == registry \subseteq audited
=============================================================================

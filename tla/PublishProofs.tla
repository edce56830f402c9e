---------------------------- MODULE PublishProofs ----------------------------
(***************************************************************************)
(* What the publishing helpers publish, for any number of helpers and of   *)
(* edits of the working tree.                                              *)
(***************************************************************************)
EXTENDS Publish, TLAPS

-----------------------------------------------------------------------------
(* The steps of a helper *)

LEMMA RustPlanIs ==
  /\ Plan("rust") = RustPlan /\ Len(RustPlan) = 5
  /\ RustPlan[1] = "surface" /\ RustPlan[2] = "export" /\ RustPlan[3] = "package"
  /\ RustPlan[4] = "secrets" /\ RustPlan[5] = "crate"
BY DEF Plan, RustPlan

LEMMA PythonPlanIs ==
  /\ Plan("python") = PythonPlan /\ Len(PythonPlan) = 17
  /\ PythonPlan[1] = "python" /\ PythonPlan[2] = "clean" /\ PythonPlan[3] = "compile"
  /\ PythonPlan[4] = "typescript" /\ PythonPlan[5] = "surface" /\ PythonPlan[6] = "export"
  /\ PythonPlan[7] = "package" /\ PythonPlan[8] = "secrets" /\ PythonPlan[9] = "inventory"
  /\ PythonPlan[10] = "contents" /\ PythonPlan[11] = "paths"
  /\ PythonPlan[12] = "bytes" /\ PythonPlan[13] = "scan" /\ PythonPlan[14] = "packed"
  /\ PythonPlan[15] = "emit" /\ PythonPlan[16] = "wheel" /\ PythonPlan[17] = "sdist"
BY DEF Plan, PythonPlan

LEMMA TypescriptPlanIs ==
  /\ Plan("typescript") = TypescriptPlan /\ Len(TypescriptPlan) = 16
  /\ TypescriptPlan[1] = "python" /\ TypescriptPlan[2] = "clean" /\ TypescriptPlan[3] = "compile"
  /\ TypescriptPlan[4] = "typescript" /\ TypescriptPlan[5] = "surface"
  /\ TypescriptPlan[6] = "export" /\ TypescriptPlan[7] = "package"
  /\ TypescriptPlan[8] = "secrets" /\ TypescriptPlan[9] = "inventory"
  /\ TypescriptPlan[10] = "contents" /\ TypescriptPlan[11] = "paths"
  /\ TypescriptPlan[12] = "bytes" /\ TypescriptPlan[13] = "scan"
  /\ TypescriptPlan[14] = "packed" /\ TypescriptPlan[15] = "emit" /\ TypescriptPlan[16] = "tgz"
BY DEF Plan, TypescriptPlan

\* At which position of which helper a step is: what the proofs need of Plan.
Located(j, step) ==
  /\ j.helper \in Packages /\ j.at \in 1 .. Len(Plan(j.helper))
  /\ step = "crate" => j.helper = "rust" /\ j.at = 5
  /\ step = "tgz" => j.helper = "typescript" /\ j.at = 16
  /\ step = "wheel" => j.helper = "python" /\ j.at = 16
  /\ step = "sdist" => j.helper = "python" /\ j.at = 17
  /\ step = "secrets" => (j.helper = "rust" /\ j.at = 4) \/ (j.helper # "rust" /\ j.at = 8)
  /\ step = "surface" => (j.helper = "rust" /\ j.at = 1) \/ (j.helper # "rust" /\ j.at = 5)
  /\ step = "export" => (j.helper = "rust" /\ j.at = 2) \/ (j.helper # "rust" /\ j.at = 6)
  /\ step = "package" => (j.helper = "rust" /\ j.at = 3) \/ (j.helper # "rust" /\ j.at = 7)
  /\ step = "python" => j.helper # "rust" /\ j.at = 1
  /\ step = "clean" => j.helper # "rust" /\ j.at = 2
  /\ step = "compile" => j.helper # "rust" /\ j.at = 3
  /\ step = "typescript" => j.helper # "rust" /\ j.at = 4
  /\ step = "inventory" => j.helper # "rust" /\ j.at = 9
  /\ step = "contents" => j.helper # "rust" /\ j.at = 10
  /\ step = "paths" => j.helper # "rust" /\ j.at = 11
  /\ step = "bytes" => j.helper # "rust" /\ j.at = 12
  /\ step = "scan" => j.helper # "rust" /\ j.at = 13
  /\ step = "packed" => j.helper # "rust" /\ j.at = 14
  /\ step = "emit" => j.helper # "rust" /\ j.at = 15

LEMMA PlanLength ==
  ASSUME NEW helper \in Packages
  PROVE  /\ helper = "rust" => Len(Plan(helper)) = 5
         /\ helper = "python" => Len(Plan(helper)) = 17
         /\ helper = "typescript" => Len(Plan(helper)) = 16
BY RustPlanIs, PythonPlanIs, TypescriptPlanIs DEF Packages

LEMMA Locate ==
  ASSUME NEW j \in Job, j.at <= Len(Plan(j.helper))
  PROVE  Located(j, Plan(j.helper)[j.at])
<1>1. j.at \in Nat \ {0} /\ j.helper \in Packages
  BY DEF Job
<1> DEFINE step == Plan(j.helper)[j.at]
<1> SUFFICES Located(j, step)
  OBVIOUS
<1>2. CASE j.helper = "rust"
  <2>1. Len(Plan(j.helper)) = 5
    BY <1>2, PlanLength DEF Packages
  <2>2. j.at \in 1 .. 5 /\ j.at \in 1 .. Len(Plan(j.helper))
    BY <1>1, <2>1
  <2>3. CASE j.at \in 1 .. 4
    <3>1. \/ j.at = 1 /\ step = "surface"
          \/ j.at = 2 /\ step = "export"
          \/ j.at = 3 /\ step = "package"
          \/ j.at = 4 /\ step = "secrets"
      BY <1>2, <2>3, RustPlanIs
    <3> HIDE DEF step
    <3> QED BY <1>1, <1>2, <2>2, <3>1 DEF Located
  <2>4. CASE j.at \in 5 .. 5
    <3>1. \/ j.at = 5 /\ step = "crate"
      BY <1>2, <2>4, RustPlanIs
    <3> HIDE DEF step
    <3> QED BY <1>1, <1>2, <2>2, <3>1 DEF Located
  <2> QED BY <2>2, <2>3, <2>4
<1>3. CASE j.helper = "python"
  <2>1. Len(Plan(j.helper)) = 17
    BY <1>3, PlanLength DEF Packages
  <2>2. j.at \in 1 .. 17 /\ j.at \in 1 .. Len(Plan(j.helper))
    BY <1>1, <2>1
  <2>3. CASE j.at \in 1 .. 4
    <3>1. \/ j.at = 1 /\ step = "python"
          \/ j.at = 2 /\ step = "clean"
          \/ j.at = 3 /\ step = "compile"
          \/ j.at = 4 /\ step = "typescript"
      BY <1>3, <2>3, PythonPlanIs
    <3> HIDE DEF step
    <3> QED BY <1>1, <1>3, <2>2, <3>1 DEF Located
  <2>4. CASE j.at \in 5 .. 8
    <3>1. \/ j.at = 5 /\ step = "surface"
          \/ j.at = 6 /\ step = "export"
          \/ j.at = 7 /\ step = "package"
          \/ j.at = 8 /\ step = "secrets"
      BY <1>3, <2>4, PythonPlanIs
    <3> HIDE DEF step
    <3> QED BY <1>1, <1>3, <2>2, <3>1 DEF Located
  <2>5. CASE j.at \in 9 .. 12
    <3>1. \/ j.at = 9 /\ step = "inventory"
          \/ j.at = 10 /\ step = "contents"
          \/ j.at = 11 /\ step = "paths"
          \/ j.at = 12 /\ step = "bytes"
      BY <1>3, <2>5, PythonPlanIs
    <3> HIDE DEF step
    <3> QED BY <1>1, <1>3, <2>2, <3>1 DEF Located
  <2>6. CASE j.at \in 13 .. 17
    <3>1. \/ j.at = 13 /\ step = "scan"
          \/ j.at = 14 /\ step = "packed"
          \/ j.at = 15 /\ step = "emit"
          \/ j.at = 16 /\ step = "wheel"
          \/ j.at = 17 /\ step = "sdist"
      BY <1>3, <2>6, PythonPlanIs
    <3> HIDE DEF step
    <3> QED BY <1>1, <1>3, <2>2, <3>1 DEF Located
  <2> QED BY <2>2, <2>3, <2>4, <2>5, <2>6
<1>4. CASE j.helper = "typescript"
  <2>1. Len(Plan(j.helper)) = 16
    BY <1>4, PlanLength DEF Packages
  <2>2. j.at \in 1 .. 16 /\ j.at \in 1 .. Len(Plan(j.helper))
    BY <1>1, <2>1
  <2>3. CASE j.at \in 1 .. 4
    <3>1. \/ j.at = 1 /\ step = "python"
          \/ j.at = 2 /\ step = "clean"
          \/ j.at = 3 /\ step = "compile"
          \/ j.at = 4 /\ step = "typescript"
      BY <1>4, <2>3, TypescriptPlanIs
    <3> HIDE DEF step
    <3> QED BY <1>1, <1>4, <2>2, <3>1 DEF Located
  <2>4. CASE j.at \in 5 .. 8
    <3>1. \/ j.at = 5 /\ step = "surface"
          \/ j.at = 6 /\ step = "export"
          \/ j.at = 7 /\ step = "package"
          \/ j.at = 8 /\ step = "secrets"
      BY <1>4, <2>4, TypescriptPlanIs
    <3> HIDE DEF step
    <3> QED BY <1>1, <1>4, <2>2, <3>1 DEF Located
  <2>5. CASE j.at \in 9 .. 12
    <3>1. \/ j.at = 9 /\ step = "inventory"
          \/ j.at = 10 /\ step = "contents"
          \/ j.at = 11 /\ step = "paths"
          \/ j.at = 12 /\ step = "bytes"
      BY <1>4, <2>5, TypescriptPlanIs
    <3> HIDE DEF step
    <3> QED BY <1>1, <1>4, <2>2, <3>1 DEF Located
  <2>6. CASE j.at \in 13 .. 16
    <3>1. \/ j.at = 13 /\ step = "scan"
          \/ j.at = 14 /\ step = "packed"
          \/ j.at = 15 /\ step = "emit"
          \/ j.at = 16 /\ step = "tgz"
      BY <1>4, <2>6, TypescriptPlanIs
    <3> HIDE DEF step
    <3> QED BY <1>1, <1>4, <2>2, <3>1 DEF Located
  <2> QED BY <2>2, <2>3, <2>4, <2>5, <2>6
<1> QED BY <1>1, <1>2, <1>3, <1>4 DEF Packages

\* Where the checks and the uploads are.
LEMMA LocatedChecks ==
  ASSUME NEW j, NEW step, Located(j, step),
         step \in {"surface", "secrets", "inventory", "contents",
                     "paths", "bytes", "scan", "packed"}
  PROVE  /\ j.helper = "rust" => j.at = 1 \/ (j.at = 4 /\ step = "secrets")
         /\ j.helper # "rust" =>
              \/ j.at \in {5, 8, 10, 12}
              \/ (j.at = 9 /\ step = "inventory") \/ (j.at = 11 /\ step = "paths")
              \/ (j.at = 13 /\ step = "scan") \/ (j.at = 14 /\ step = "packed")
<1>1. CASE step = "surface"
  BY <1>1 DEF Located
<1>2. CASE step = "secrets"
  BY <1>2 DEF Located
<1>3. CASE step = "inventory" \/ step = "paths"
  BY <1>3 DEF Located
<1>4. CASE step = "bytes" \/ step = "contents"
  BY <1>4 DEF Located
<1>5. CASE step = "scan" \/ step = "packed"
  BY <1>5 DEF Located
<1> QED BY <1>1, <1>2, <1>3, <1>4, <1>5

LEMMA LocatedUploads ==
  ASSUME NEW j \in Job, NEW step, Located(j, step),
         step \in {"crate", "tgz", "wheel", "sdist"}, j.at + 1 <= Len(Plan(j.helper))
  PROVE  j.helper = "python" /\ j.at = 16 /\ step = "wheel"
<1>1. /\ j.helper \in Packages
      /\ step = "crate" => j.helper = "rust" /\ j.at = 5
      /\ step = "tgz" => j.helper = "typescript" /\ j.at = 16
      /\ step = "wheel" => j.helper = "python" /\ j.at = 16
      /\ step = "sdist" => j.helper = "python" /\ j.at = 17
  BY DEF Located
<1>2. /\ j.helper = "rust" => Len(Plan(j.helper)) = 5
      /\ j.helper = "python" => Len(Plan(j.helper)) = 17
      /\ j.helper = "typescript" => Len(Plan(j.helper)) = 16
  BY <1>1, PlanLength
<1>3. step # "crate"
  <2> SUFFICES ASSUME step = "crate" PROVE FALSE
    OBVIOUS
  <2>1. j.at = 5 /\ Len(Plan(j.helper)) = 5
    BY <1>1, <1>2
  <2> QED BY <2>1
<1>4. step # "tgz"
  <2> SUFFICES ASSUME step = "tgz" PROVE FALSE
    OBVIOUS
  <2>1. j.at = 16 /\ Len(Plan(j.helper)) = 16
    BY <1>1, <1>2
  <2> QED BY <2>1
<1>5. step # "sdist"
  <2> SUFFICES ASSUME step = "sdist" PROVE FALSE
    OBVIOUS
  <2>1. j.at = 17 /\ Len(Plan(j.helper)) = 17
    BY <1>1, <1>2
  <2> QED BY <2>1
<1> QED BY <1>1, <1>3, <1>4, <1>5

-----------------------------------------------------------------------------
(* Types *)

\* A run goes on with its plan.
LEMMA AdvancedTypes ==
  ASSUME NEW j \in Job, j.at <= Len(Plan(j.helper))
  PROVE  /\ Advanced(j) \in Job \cup {None}
         /\ Advanced(j) # None =>
              /\ Advanced(j) = [j EXCEPT !.at = @ + 1]
              /\ Advanced(j).at <= Len(Plan(Advanced(j).helper))
<1>1. CASE j.at = Len(Plan(j.helper))
  BY <1>1 DEF Advanced
<1>2. CASE j.at # Len(Plan(j.helper))
  <2>1. j.at \in Nat \ {0} /\ j.helper \in Packages
    BY DEF Job
  <2>2. Len(Plan(j.helper)) \in Nat
    BY <2>1, PlanLength DEF Packages
  <2>3. j.at + 1 <= Len(Plan(j.helper)) /\ j.at + 1 \in Nat \ {0}
    BY <1>2, <2>1, <2>2
  <2>4. [j EXCEPT !.at = @ + 1] \in Job
    BY <2>3 DEF Job
  <2>5. [j EXCEPT !.at = @ + 1].at = j.at + 1 /\ [j EXCEPT !.at = @ + 1].helper = j.helper
    BY DEF Job
  <2> QED BY <1>2, <2>3, <2>4, <2>5 DEF Advanced
<1> QED BY <1>1, <1>2

\* How a step of a run may change the runs.
Moves(h, j) ==
  /\ job' = [job EXCEPT ![h] = j]
  /\ j \in Job \cup {None}
  /\ j # None => j.at <= Len(Plan(j.helper))

LEMMA AdvanceMoves ==
  ASSUME NEW h \in Helpers, NEW j \in Job, j.at <= Len(Plan(j.helper)), Advance(h, j)
  PROVE  Moves(h, Advanced(j))
BY AdvancedTypes DEF Advance, Moves

LEMMA AbortMoves ==
  ASSUME NEW h \in Helpers, Abort(h)
  PROVE  Moves(h, None)
BY DEF Abort, Moves

LEMMA MoveTypes ==
  ASSUME job \in [Helpers -> Job \cup {None}],
         \A h \in Helpers : job[h] # None => job[h].at <= Len(Plan(job[h].helper)),
         NEW h \in Helpers, NEW j, Moves(h, j)
  PROVE  /\ job' \in [Helpers -> Job \cup {None}]
         /\ \A g \in Helpers : job'[g] # None => job'[g].at <= Len(Plan(job'[g].helper))
BY DEF Moves

LEMMA ArchiveTypes ==
  ASSUME NEW j \in Job
  PROVE  Archives(j) \subseteq Archive
<1>1. /\ j.rust \in Files /\ j.python \in Files /\ j.typescript \in Files
      /\ j.whole \in BOOLEAN /\ j.by \in Helpers
  BY DEF Job
<1>2. Crate(j) \in Archive /\ Tgz(j) \in Archive /\ Wheel(j) \in Archive /\ Sdist(j) \in Archive
  BY <1>1 DEF Archive, Crate, Tgz, Wheel, Sdist
<1> QED BY <1>2 DEF Archives

\* The run of h at a step, with its own files changed, is still a run.
LEMMA CurrentJob ==
  ASSUME TypeOK, NEW h \in Helpers, job[h] # None
  PROVE  job[h] \in Job /\ job[h].at <= Len(Plan(job[h].helper)) /\ Located(job[h], Step(h))
<1>1. job[h] \in Job /\ job[h].at <= Len(Plan(job[h].helper))
  BY DEF TypeOK
<1> QED BY <1>1, Locate DEF Step

\* What the step of a run changes besides the runs.
Keeps(shared) ==
  UNCHANGED <<tree, edits>> /\ begun' \subseteq begun \cup Helpers /\ UNCHANGED shared

LEMMA CheckMoves ==
  ASSUME TypeOK, NEW h \in Helpers, job[h] # None, NEW passes, Check(h, passes)
  PROVE  /\ Keeps(<<dist, registry, audited>>)
         /\ Moves(h, None) \/ (passes /\ Moves(h, Advanced(job[h])))
BY CurrentJob, AdvanceMoves, AbortMoves DEF Check, Keeps

\* The checks, and where in a plan they are.
LEMMA ChecksMove ==
  ASSUME TypeOK, NEW h \in Helpers,
         \/ CheckSurface(h) \/ CheckSecrets(h) \/ CheckInventory(h)
         \/ CheckContents(h) \/ CheckPaths(h)
         \/ CompareBytes(h) \/ ScanArchives(h) \/ CheckPacked(h)
  PROVE  /\ job[h] # None /\ Keeps(<<dist, registry, audited>>)
         /\ Step(h) \in {"surface", "secrets", "inventory", "contents",
                     "paths", "bytes", "scan", "packed"}
         /\ \/ Moves(h, None)
            \/ /\ Moves(h, Advanced(job[h]))
               /\ Step(h) = "secrets" => "secret" \notin job[h].rust
               /\ Step(h) = "inventory" => job[h].whole /\ "extra" \notin job[h].typescript
               /\ Step(h) = "paths" => \A a \in Archives(job[h]) : "unsafe" \notin a.files
               /\ Step(h) = "scan" => \A a \in Archives(job[h]) : "secret" \notin a.files
               /\ Step(h) = "packed" => \A a \in Archives(job[h]) : "private" \notin a.files
<1>1. CASE CheckSurface(h)
  BY <1>1, CheckMoves DEF CheckSurface, At
<1>2. CASE CheckSecrets(h)
  BY <1>2, CheckMoves DEF CheckSecrets, At, Crate
<1>3. CASE CheckInventory(h)
  <2>1. At(h, "inventory")
    BY <1>3 DEF CheckInventory
  <2>2. \/ Moves(h, None)
        \/ /\ Moves(h, Advanced(job[h])) /\ job[h].whole
           /\ job[h].typescript \cap {"extra", "unsafe"} = {}
    BY <1>3, <2>1, CheckMoves DEF CheckInventory, At, Paths
  <2>3. Keeps(<<dist, registry, audited>>)
    BY <1>3, <2>1, CheckMoves DEF CheckInventory, At
  <2> QED BY <2>1, <2>2, <2>3 DEF At
<1>4. CASE CheckPaths(h)
  BY <1>4, CheckMoves DEF CheckPaths, At
<1>5. CASE CompareBytes(h)
  BY <1>5, CheckMoves DEF CompareBytes, At
<1>6. CASE ScanArchives(h)
  BY <1>6, CheckMoves DEF ScanArchives, At
<1>7. CASE CheckPacked(h)
  BY <1>7, CheckMoves DEF CheckPacked, At
<1>8. CASE CheckContents(h)
  BY <1>8, CheckMoves DEF CheckContents, At
<1> QED BY <1>1, <1>2, <1>3, <1>4, <1>5, <1>6, <1>7, <1>8

\* The steps that make the files of a run.
LEMMA CopiesMove ==
  ASSUME TypeOK, NEW h \in Helpers,
         \/ CopyPython(h) \/ Clean(h) \/ Compile(h) \/ CopyTypescript(h)
         \/ CopyRust(h) \/ Package(h)
  PROVE  /\ job[h] # None /\ Keeps(<<registry, audited>>) /\ dist' \in Files \cup {None}
         /\ Step(h) \in {"python", "clean", "compile", "typescript", "export", "package"}
         /\ \/ Moves(h, None)
            \/ \E j \in Job : /\ j.helper = job[h].helper /\ j.at = job[h].at
                             /\ Moves(h, Advanced(j))
<1>1. job[h] # None
  BY DEF CopyPython, Clean, Compile, CopyTypescript, CopyRust, Package, At
<1>2. job[h] \in Job /\ job[h].at <= Len(Plan(job[h].helper))
  BY <1>1, CurrentJob
<1>3. tree \in [Packages -> Files] /\ dist \in Files \cup {None}
  BY DEF TypeOK
<1>4. ASSUME NEW j \in Job, j.helper = job[h].helper, j.at = job[h].at, Advance(h, j)
      PROVE  Moves(h, Advanced(j))
  BY <1>2, <1>4, AdvanceMoves
<1>5. CASE CopyPython(h)
  <2> DEFINE j == [job[h] EXCEPT !.python = tree["python"]]
  <2>1. j \in Job /\ j.helper = job[h].helper /\ j.at = job[h].at
    BY <1>2, <1>3 DEF Job, Packages
  <2>2. Moves(h, Advanced(j))
    BY <1>4, <1>5, <2>1 DEF CopyPython
  <2> QED BY <1>1, <1>3, <1>5, <2>1, <2>2 DEF CopyPython, At, Keeps
<1>6. CASE Clean(h)
  BY <1>1, <1>2, <1>4, <1>6 DEF Clean, At, Keeps
<1>7. CASE Compile(h)
  BY <1>1, <1>2, <1>3, <1>4, <1>7 DEF Compile, At, Keeps, Packages
<1>8. CASE CopyTypescript(h)
  <2>1. CASE dist # None
    <3> DEFINE j == [job[h] EXCEPT !.typescript = dist, !.whole = TRUE]
    <3>1. j \in Job /\ j.helper = job[h].helper /\ j.at = job[h].at
      BY <1>2, <1>3, <2>1 DEF Job
    <3>2. Moves(h, Advanced(j))
      BY <1>4, <1>8, <2>1, <3>1 DEF CopyTypescript
    <3> QED BY <1>1, <1>3, <1>8, <3>1, <3>2 DEF CopyTypescript, At, Keeps
  <2>2. CASE dist = None
    <3> DEFINE j == [job[h] EXCEPT !.typescript = {}, !.whole = FALSE]
    <3>1. j \in Job /\ j.helper = job[h].helper /\ j.at = job[h].at
      BY <1>2 DEF Job, Files
    <3>2. Moves(h, Advanced(j)) \/ Moves(h, None)
      BY <1>4, <1>8, <2>2, <3>1, AbortMoves DEF CopyTypescript
    <3> QED BY <1>1, <1>3, <1>8, <3>1, <3>2 DEF CopyTypescript, At, Keeps
  <2> QED BY <2>1, <2>2
<1>9. CASE CopyRust(h)
  <2> DEFINE j == [job[h] EXCEPT !.rust = tree["rust"]]
  <2>1. j \in Job /\ j.helper = job[h].helper /\ j.at = job[h].at
    BY <1>2, <1>3 DEF Job, Packages
  <2>2. Moves(h, Advanced(j))
    BY <1>4, <1>9, <2>1 DEF CopyRust
  <2> QED BY <1>1, <1>3, <1>9, <2>1, <2>2 DEF CopyRust, At, Keeps
<1>10. CASE Package(h)
  <2>1. Moves(h, Advanced(job[h]))
    BY <1>2, <1>4, <1>10 DEF Package
  <2> QED BY <1>1, <1>2, <1>3, <1>10, <2>1 DEF Package, At, Keeps
<1> QED BY <1>5, <1>6, <1>7, <1>8, <1>9, <1>10

\* An upload adds one archive of a kind that was not there, or ends the run.
LEMMA UploadMoves ==
  ASSUME TypeOK, NEW h \in Helpers, job[h] # None, NEW a, Upload(h, a)
  PROVE  /\ Keeps(<<dist, audited>>)
         /\ \/ Moves(h, None) /\ UNCHANGED registry
            \/ /\ Accepts(a) /\ registry' = registry \cup {a}
               /\ Moves(h, None) \/ Moves(h, Advanced(job[h]))
BY CurrentJob, AdvanceMoves, AbortMoves DEF Upload, Keeps

\* The archive that a run uploads.
Uploaded(h) ==
  CASE Step(h) = "crate" -> [Crate(job[h]) EXCEPT !.by = None]
    [] Step(h) = "tgz" -> Tgz(job[h])
    [] Step(h) = "wheel" -> Wheel(job[h])
    [] Step(h) = "sdist" -> Sdist(job[h])

LEMMA UploadsMove ==
  ASSUME TypeOK, NEW h \in Helpers,
         PublishCrate(h) \/ PublishTgz(h) \/ PublishWheel(h) \/ PublishSdist(h)
  PROVE  /\ job[h] # None /\ Keeps(<<dist, audited>>)
         /\ Step(h) \in {"crate", "tgz", "wheel", "sdist"} /\ Uploaded(h) \in Archive
         /\ \/ Moves(h, None) /\ UNCHANGED registry
            \/ /\ Accepts(Uploaded(h)) /\ registry' = registry \cup {Uploaded(h)}
               /\ Moves(h, None) \/ Moves(h, Advanced(job[h]))
<1>1. job[h] # None /\ Step(h) \in {"crate", "tgz", "wheel", "sdist"}
  BY DEF PublishCrate, PublishTgz, PublishWheel, PublishSdist, At
<1>2. Upload(h, Uploaded(h))
  BY DEF PublishCrate, PublishTgz, PublishWheel, PublishSdist, At, Uploaded
<1>3. Uploaded(h) \in Archive
  <2>1. job[h] \in Job
    BY <1>1, CurrentJob
  <2>2. /\ Crate(job[h]) \in Archive /\ Tgz(job[h]) \in Archive
        /\ Wheel(job[h]) \in Archive /\ Sdist(job[h]) \in Archive
    BY <2>1, ArchiveTypes DEF Archives
  <2>3. [Crate(job[h]) EXCEPT !.by = None] \in Archive
    BY <2>2 DEF Archive
  <2> QED BY <1>1, <2>2, <2>3 DEF Uploaded
<1> QED BY <1>1, <1>2, <1>3, UploadMoves

LEMMA StartMoves ==
  ASSUME TypeOK, NEW h \in Helpers, Start(h)
  PROVE  Keeps(<<dist, registry, audited>>) /\ \E j \in Job : j.at = 1 /\ Moves(h, j)
<1>1. PICK helper \in Packages : job' = [job EXCEPT ![h] =
        [helper |-> helper, by |-> h, at |-> 1, python |-> {}, typescript |-> {},
         whole |-> FALSE, rust |-> {}]]
  BY DEF Start
<1> DEFINE j == [helper |-> helper, by |-> h, at |-> 1, python |-> {}, typescript |-> {},
                 whole |-> FALSE, rust |-> {}]
<1>2. j \in Job
  BY PublishAssumption DEF Job, Files
<1>3. 1 <= Len(Plan(helper))
  <2>1. Len(Plan(helper)) \in {5, 16, 17}
    BY PlanLength DEF Packages
  <2> QED BY <2>1
<1> QED BY <1>1, <1>2, <1>3 DEF Start, Keeps, Moves

LEMMA EmitMoves ==
  ASSUME TypeOK, NEW h \in Helpers, Emit(h)
  PROVE  /\ job[h] # None /\ Step(h) = "emit" /\ Keeps(<<dist, registry>>)
         /\ audited' = audited \cup Archives(job[h]) /\ Moves(h, Advanced(job[h]))
BY CurrentJob, AdvanceMoves DEF Emit, At, Keeps

LEMMA TypeInductive == TypeOK /\ [Next]_vars => TypeOK'
<1> SUFFICES ASSUME TypeOK, [Next]_vars PROVE TypeOK'
  OBVIOUS
<1>1. ASSUME NEW h \in Helpers, HelperStep(h) PROVE TypeOK'
  <2>1. SUFFICES /\ \E j : Moves(h, j)
                 /\ Keeps(<<>>) /\ dist' \in Files \cup {None}
                 /\ registry' \subseteq Archive /\ audited' \subseteq Archive
    BY MoveTypes DEF TypeOK, Keeps
  <2>2. CASE Start(h)
    BY <2>2, StartMoves DEF Keeps, TypeOK
  <2>3. CASE Fail(h)
    BY <2>3, AbortMoves DEF Fail, Keeps, TypeOK
  <2>4. CASE \/ CopyPython(h) \/ Clean(h) \/ Compile(h) \/ CopyTypescript(h)
             \/ CopyRust(h) \/ Package(h)
    BY <2>4, CopiesMove DEF Keeps, TypeOK
  <2>5. CASE \/ CheckSurface(h) \/ CheckSecrets(h) \/ CheckInventory(h)
             \/ CheckContents(h) \/ CheckPaths(h)
             \/ CompareBytes(h) \/ ScanArchives(h) \/ CheckPacked(h)
    BY <2>5, ChecksMove DEF Keeps, TypeOK
  <2>6. CASE Emit(h)
    <3>1. Archives(job[h]) \subseteq Archive
      BY <2>6, EmitMoves, CurrentJob, ArchiveTypes
    <3> QED BY <2>6, <3>1, EmitMoves DEF Keeps, TypeOK
  <2>7. CASE PublishCrate(h) \/ PublishTgz(h) \/ PublishWheel(h) \/ PublishSdist(h)
    BY <2>7, UploadsMove DEF Keeps, TypeOK
  <2> QED BY <1>1, <2>2, <2>3, <2>4, <2>5, <2>6, <2>7 DEF HelperStep
<1>2. ASSUME NEW p \in Packages, NEW files \in Files, Edit(p, files) PROVE TypeOK'
  BY <1>2, PublishAssumption DEF Edit, TypeOK
<1>3. CASE UNCHANGED vars
  BY <1>3 DEF TypeOK, vars
<1> QED BY <1>1, <1>2, <1>3 DEF Next

\* Whatever fails, is edited or runs at the same time, a run of a helper has
\* the files and the step of a run, and registries hold archives.
THEOREM TypeCorrect == Spec => []TypeOK
<1>1. Init => TypeOK
  BY PublishAssumption DEF Init, TypeOK
<1> QED BY <1>1, TypeInductive, PTL DEF Spec

-----------------------------------------------------------------------------
(* What is published: the inductive invariant *)

\* What a run has established by the time it is at a step.
Established(j, passed, there) ==
  /\ j.helper = "rust" /\ j.at > 4 => "secret" \notin j.rust
  /\ j.helper # "rust" =>
       /\ j.at > 9 => j.whole /\ "extra" \notin j.typescript
       /\ j.at > 11 => \A a \in Archives(j) : "unsafe" \notin a.files
       /\ j.at > 13 => \A a \in Archives(j) : "secret" \notin a.files
       /\ j.at > 14 => \A a \in Archives(j) : "private" \notin a.files
       /\ j.at > 15 => Archives(j) \subseteq passed
  /\ j.helper = "python" /\ j.at = 17 => Wheel(j) \in there

RunsEstablish ==
  \A h \in Helpers : job[h] # None => Established(job[h], audited, registry)

\* A registry has one file of each kind, and no sdist without its wheel.
OneOfEachKind == \A a, b \in registry : a.kind = b.kind => a = b
WheelsComeFirst ==
  \A b \in registry :
    b.kind = "sdist" =>
      \E a \in registry : a.kind = "wheel" /\ a.by = b.by /\ a.files = b.files

Published ==
  /\ SecretsStayHome /\ NothingPrivateIsPublished /\ NpmPackageIsComplete
  /\ PublishedWereAudited /\ OneOfEachKind /\ WheelsComeFirst

IInv == TypeOK /\ RunsEstablish /\ Published

\* Before the crate is audited there is nothing to establish.
LEMMA EarlyEstablished ==
  ASSUME NEW j \in Job, j.at <= 9, j.helper = "rust" => j.at <= 4
  PROVE  Established(j, audited, registry)
BY DEF Established, Job

LEMMA ArchivesOfAdvanced ==
  ASSUME NEW j \in Job, NEW k, k = [j EXCEPT !.at = @ + 1]
  PROVE  /\ k.helper = j.helper /\ k.at = j.at + 1 /\ k.rust = j.rust /\ k.whole = j.whole
         /\ k.typescript = j.typescript /\ k.python = j.python /\ k.by = j.by
         /\ Archives(k) = Archives(j) /\ Wheel(k) = Wheel(j)
BY DEF Job, Archives, Crate, Tgz, Wheel, Sdist

\* What runs have established they keep: registries and audits only grow.
LEMMA KeptEstablished ==
  ASSUME TypeOK, RunsEstablish, audited \subseteq audited', registry \subseteq registry',
         NEW h \in Helpers, NEW j, Moves(h, j), j # None => Established(j, audited', registry')
  PROVE  RunsEstablish'
<1>1. ASSUME NEW g \in Helpers, job'[g] # None PROVE Established(job'[g], audited', registry')
  <2>1. CASE g = h
    <3>1. job'[g] = j
      BY <2>1 DEF Moves, TypeOK
    <3> QED BY <1>1, <3>1 DEF Established
  <2>2. CASE g # h
    <3>1. job'[g] = job[g]
      BY <2>2 DEF Moves, TypeOK
    <3>2. Established(job[g], audited, registry)
      BY <1>1, <3>1 DEF RunsEstablish
    <3> QED BY <3>1, <3>2 DEF Established
  <2> QED BY <2>1, <2>2
<1> QED BY <1>1 DEF RunsEstablish

LEMMA CopiesEstablish ==
  ASSUME IInv, NEW h \in Helpers,
         \/ CopyPython(h) \/ Clean(h) \/ Compile(h) \/ CopyTypescript(h)
         \/ CopyRust(h) \/ Package(h)
  PROVE  RunsEstablish' /\ UNCHANGED <<registry, audited>>
<1>1. TypeOK /\ RunsEstablish
  BY DEF IInv
<1>2. UNCHANGED <<registry, audited>> /\ job[h] # None
  BY <1>1, CopiesMove DEF Keeps
<1>3. CASE Moves(h, None)
  BY <1>1, <1>2, <1>3, KeptEstablished
<1>4. CASE \E j \in Job : /\ j.helper = job[h].helper /\ j.at = job[h].at
                         /\ Moves(h, Advanced(j))
  <2>1. PICK j \in Job : /\ j.helper = job[h].helper /\ j.at = job[h].at
                        /\ Moves(h, Advanced(j))
    BY <1>4
  <2>2. Located(job[h], Step(h)) /\ job[h].at <= Len(Plan(job[h].helper))
    BY <1>1, <1>2, CurrentJob
  <2>3. /\ job[h].helper = "rust" => job[h].at = 2 \/ job[h].at = 3
        /\ job[h].helper # "rust" => job[h].at <= 7
    BY <1>1, <2>2, CopiesMove DEF Located
  <2>4. Advanced(j) # None => Established(Advanced(j), audited', registry')
    <3> SUFFICES ASSUME Advanced(j) # None PROVE Established(Advanced(j), audited', registry')
      OBVIOUS
    <3>1. Advanced(j) \in Job /\ Advanced(j) = [j EXCEPT !.at = @ + 1]
      BY <2>1, <2>2, AdvancedTypes
    <3>2. Advanced(j).at = j.at + 1 /\ Advanced(j).helper = j.helper /\ j.at \in Nat
      BY <3>1 DEF Job
    <3>3. /\ Advanced(j).at <= 9
          /\ Advanced(j).helper = "rust" => Advanced(j).at <= 4
      <4>1. CASE j.helper = "rust"
        BY <2>1, <2>3, <3>2, <4>1
      <4>2. CASE j.helper # "rust"
        BY <2>1, <2>3, <3>2, <4>2
      <4> QED BY <4>1, <4>2
    <3>4. Established(Advanced(j), audited, registry)
      BY <3>1, <3>3, EarlyEstablished
    <3> QED BY <1>2, <3>4 DEF Established
  <2> QED BY <1>1, <1>2, <2>1, <2>4, KeptEstablished
<1> QED BY <1>1, <1>3, <1>4, CopiesMove

LEMMA ChecksEstablish ==
  ASSUME IInv, NEW h \in Helpers,
         \/ CheckSurface(h) \/ CheckSecrets(h) \/ CheckInventory(h)
         \/ CheckContents(h) \/ CheckPaths(h)
         \/ CompareBytes(h) \/ ScanArchives(h) \/ CheckPacked(h)
  PROVE  RunsEstablish' /\ UNCHANGED <<registry, audited>>
<1>1. TypeOK /\ RunsEstablish
  BY DEF IInv
<1>2. UNCHANGED <<registry, audited>> /\ job[h] # None
  BY <1>1, ChecksMove DEF Keeps
<1>3. CASE Moves(h, None)
  BY <1>1, <1>2, <1>3, KeptEstablished
<1>4. CASE ~Moves(h, None)
  <2> DEFINE j == job[h]
             k == Advanced(job[h])
  <2>1. j \in Job /\ j.at <= Len(Plan(j.helper)) /\ Located(j, Step(h)) /\ Established(j, audited, registry)
    BY <1>1, <1>2, CurrentJob DEF RunsEstablish
  <2>2. k # None => Established(k, audited', registry')
    <3> SUFFICES ASSUME k # None PROVE Established(k, audited', registry')
      OBVIOUS
    <3>1. k = [j EXCEPT !.at = @ + 1] /\ j.at \in Nat \ {0}
      BY <2>1, AdvancedTypes DEF Job
    <3>2. /\ k.helper = j.helper /\ k.at = j.at + 1 /\ k.rust = j.rust /\ k.whole = j.whole
          /\ k.typescript = j.typescript
          /\ Archives(k) = Archives(j) /\ Wheel(k) = Wheel(j)
      BY <2>1, <3>1, ArchivesOfAdvanced
    <3>3. /\ Step(h) \in {"surface", "secrets", "inventory", "contents",
                     "paths", "bytes", "scan", "packed"}
          /\ Step(h) = "secrets" => "secret" \notin j.rust
          /\ Step(h) = "inventory" => j.whole /\ "extra" \notin j.typescript
          /\ Step(h) = "paths" => \A a \in Archives(j) : "unsafe" \notin a.files
          /\ Step(h) = "scan" => \A a \in Archives(j) : "secret" \notin a.files
          /\ Step(h) = "packed" => \A a \in Archives(j) : "private" \notin a.files
      BY <1>1, <1>4, ChecksMove
    <3> HIDE DEF j, k
    <3>4. j.helper = "rust" => j.at = 1 \/ (j.at = 4 /\ Step(h) = "secrets")
      BY <2>1, <3>3, LocatedChecks
    <3>5. j.helper # "rust" =>
            \/ j.at \in {5, 8, 10, 12}
            \/ (j.at = 9 /\ Step(h) = "inventory") \/ (j.at = 11 /\ Step(h) = "paths")
            \/ (j.at = 13 /\ Step(h) = "scan") \/ (j.at = 14 /\ Step(h) = "packed")
      BY <2>1, <3>3, LocatedChecks
    <3>6. Established(k, audited, registry)
      <4>1. CASE j.helper = "rust"
        BY <2>1, <3>1, <3>2, <3>3, <3>4, <4>1 DEF Established
      <4>2. CASE j.helper # "rust"
        <5>1. k.at > 9 => k.whole /\ "extra" \notin k.typescript
          BY <2>1, <3>1, <3>2, <3>3, <3>5, <4>2 DEF Established
        <5>2. k.at > 11 => \A a \in Archives(k) : "unsafe" \notin a.files
          BY <2>1, <3>1, <3>2, <3>3, <3>5, <4>2 DEF Established
        <5>3. k.at > 13 => \A a \in Archives(k) : "secret" \notin a.files
          BY <2>1, <3>1, <3>2, <3>3, <3>5, <4>2 DEF Established
        <5>4. k.at > 14 => \A a \in Archives(k) : "private" \notin a.files
          BY <2>1, <3>1, <3>2, <3>3, <3>5, <4>2 DEF Established
        <5>5. k.at <= 15 /\ k.at # 17
          BY <3>1, <3>2, <3>5, <4>2
        <5> QED BY <3>1, <3>2, <4>2, <5>1, <5>2, <5>3, <5>4, <5>5 DEF Established
      <4> QED BY <4>1, <4>2
    <3> QED BY <1>2, <3>6 DEF Established
  <2> QED BY <1>1, <1>2, <1>4, <2>2, ChecksMove, KeptEstablished
<1> QED BY <1>3, <1>4

LEMMA EmitEstablishes ==
  ASSUME IInv, NEW h \in Helpers, Emit(h)
  PROVE  RunsEstablish' /\ UNCHANGED registry /\ audited \subseteq audited'
<1>1. TypeOK /\ RunsEstablish
  BY DEF IInv
<1>2. /\ job[h] # None /\ Step(h) = "emit" /\ UNCHANGED registry
      /\ audited' = audited \cup Archives(job[h]) /\ Moves(h, Advanced(job[h]))
  BY <1>1, EmitMoves DEF Keeps
<1> DEFINE j == job[h]
           k == Advanced(job[h])
<1>3. j \in Job /\ j.at <= Len(Plan(j.helper)) /\ Located(j, Step(h)) /\ Established(j, audited, registry)
  BY <1>1, <1>2, CurrentJob DEF RunsEstablish
<1>4. k # None => Established(k, audited', registry')
  <2> SUFFICES ASSUME k # None PROVE Established(k, audited', registry')
    OBVIOUS
  <2>1. k = [j EXCEPT !.at = @ + 1] /\ j.at \in Nat \ {0}
    BY <1>3, AdvancedTypes DEF Job
  <2>2. /\ k.helper = j.helper /\ k.at = j.at + 1 /\ k.rust = j.rust /\ k.whole = j.whole
        /\ k.typescript = j.typescript
        /\ Archives(k) = Archives(j) /\ Wheel(k) = Wheel(j)
    BY <1>3, <2>1, ArchivesOfAdvanced
  <2>3. j.helper # "rust" /\ j.at = 15
    BY <1>2, <1>3 DEF Located
  <2>4. Archives(k) \subseteq audited'
    BY <1>2, <2>2
  <2> HIDE DEF j, k
  <2>5. /\ k.helper # "rust" /\ k.at = 16 /\ k.whole /\ "extra" \notin k.typescript
        /\ \A a \in Archives(k) : /\ "unsafe" \notin a.files /\ "secret" \notin a.files
                                 /\ "private" \notin a.files
    BY <1>3, <2>2, <2>3 DEF Established
  <2> QED BY <2>4, <2>5 DEF Established
<1> QED BY <1>1, <1>2, <1>4, KeptEstablished

\* What a run uploads, it has checked before and does not read again.
LEMMA UploadedIsChecked ==
  ASSUME TypeOK, RunsEstablish, NEW h \in Helpers, job[h] # None,
         Step(h) \in {"crate", "tgz", "wheel", "sdist"}
  PROVE  LET j == job[h]
             a == Uploaded(h)
         IN  /\ a.kind = Step(h)
             /\ "secret" \notin a.files
             /\ a.kind # "crate" => a \in audited /\ a.files \cap {"private", "unsafe"} = {}
             /\ a.kind = "tgz" => a.whole /\ "extra" \notin a.files
             /\ a.kind = "sdist" =>
               Wheel(j) \in registry /\ a.by = Wheel(j).by /\ a.files = Wheel(j).files
<1> DEFINE j == job[h]
           a == Uploaded(h)
<1>1. j \in Job /\ Located(j, Step(h)) /\ Established(j, audited, registry)
  BY CurrentJob DEF RunsEstablish
<1>2. CASE Step(h) = "crate"
  <2>1. j.helper = "rust" /\ j.at = 5
    BY <1>1, <1>2 DEF Located
  <2>2. a = [Crate(j) EXCEPT !.by = None]
    BY <1>2 DEF Uploaded
  <2>3. a.kind = "crate" /\ a.files = j.rust
    BY <2>2 DEF Crate
  <2> QED BY <1>1, <1>2, <2>1, <2>3 DEF Established
<1>3. CASE Step(h) \in {"tgz", "wheel", "sdist"}
  <2>1. /\ j.helper # "rust" /\ j.at > 15
        /\ Step(h) = "sdist" => j.helper = "python" /\ j.at = 17
    BY <1>1, <1>3 DEF Located
  <2>2. a = (CASE Step(h) = "tgz" -> Tgz(j) [] Step(h) = "wheel" -> Wheel(j)
               [] Step(h) = "sdist" -> Sdist(j))
    BY <1>3 DEF Uploaded
  <2>3. a \in Archives(j) /\ a.kind = Step(h)
    BY <1>3, <2>2 DEF Archives, Tgz, Wheel, Sdist
  <2>4. /\ j.at > 9 /\ j.at > 11 /\ j.at > 13 /\ j.at > 14
    BY <1>1, <2>1 DEF Job
  <2>5. /\ "secret" \notin a.files /\ "private" \notin a.files /\ "unsafe" \notin a.files
        /\ a \in audited /\ j.whole /\ "extra" \notin j.typescript
        /\ Step(h) = "sdist" => Wheel(j) \in registry
    BY <1>1, <2>1, <2>3, <2>4 DEF Established
  <2>6. a.kind = "tgz" => a.whole = j.whole /\ a.files = j.typescript
    BY <2>2, <2>3 DEF Tgz
  <2>7. a.kind = "sdist" => a.by = Wheel(j).by /\ a.files = Wheel(j).files
    BY <2>2, <2>3 DEF Sdist, Wheel
  <2> QED BY <1>3, <2>3, <2>5, <2>6, <2>7
<1> QED BY <1>2, <1>3

LEMMA UploadsEstablish ==
  ASSUME IInv, NEW h \in Helpers,
         PublishCrate(h) \/ PublishTgz(h) \/ PublishWheel(h) \/ PublishSdist(h)
  PROVE  RunsEstablish' /\ Published'
<1>1. TypeOK /\ RunsEstablish /\ Published
  BY DEF IInv
<1>2. /\ job[h] # None /\ UNCHANGED audited
      /\ Step(h) \in {"crate", "tgz", "wheel", "sdist"}
  BY <1>1, UploadsMove DEF Keeps
<1> DEFINE j == job[h]
           k == Advanced(job[h])
           a == Uploaded(h)
<1>3. j \in Job /\ j.at <= Len(Plan(j.helper)) /\ Located(j, Step(h)) /\ Established(j, audited, registry)
  BY <1>1, <1>2, CurrentJob DEF RunsEstablish
<1>4. CASE Moves(h, None) /\ UNCHANGED registry
  <2>1. RunsEstablish'
    BY <1>1, <1>2, <1>4, KeptEstablished
  <2>2. Published'
    BY <1>1, <1>2, <1>4 DEF Published, SecretsStayHome, NothingPrivateIsPublished,
       NpmPackageIsComplete, PublishedWereAudited, OneOfEachKind, WheelsComeFirst
  <2> QED BY <2>1, <2>2
<1>5. CASE /\ Accepts(a) /\ registry' = registry \cup {a}
           /\ Moves(h, None) \/ Moves(h, k)
  <2>1. k # None => Established(k, audited', registry')
    <3> SUFFICES ASSUME k # None PROVE Established(k, audited', registry')
      OBVIOUS
    <3>1. k = [j EXCEPT !.at = @ + 1] /\ j.at \in Nat \ {0} /\ k.at <= Len(Plan(k.helper))
      BY <1>3, AdvancedTypes DEF Job
    <3>2. /\ k.helper = j.helper /\ k.at = j.at + 1 /\ k.rust = j.rust /\ k.whole = j.whole
          /\ k.typescript = j.typescript
          /\ Archives(k) = Archives(j) /\ Wheel(k) = Wheel(j)
      BY <1>3, <3>1, ArchivesOfAdvanced
    <3>3. j.helper = "python" /\ j.at = 16 /\ Step(h) = "wheel"
      <4>1. j.at + 1 <= Len(Plan(j.helper))
        BY <3>1, <3>2
      <4> HIDE DEF j, k
      <4> QED BY <1>2, <1>3, <4>1, LocatedUploads
    <3>4. Wheel(k) \in registry'
      BY <1>5, <3>2, <3>3 DEF Uploaded
    <3> HIDE DEF j, k, a
    <3>5. /\ k.helper # "rust" /\ k.at = 17 /\ k.whole /\ "extra" \notin k.typescript
          /\ Archives(k) \subseteq audited
          /\ \A b \in Archives(k) : /\ "unsafe" \notin b.files /\ "secret" \notin b.files
                                   /\ "private" \notin b.files
      BY <1>3, <3>2, <3>3 DEF Established
    <3> QED BY <1>2, <3>4, <3>5 DEF Established
  <2>2. RunsEstablish'
    BY <1>1, <1>2, <1>5, <2>1, KeptEstablished
  <2>3. Published'
    <3>1. /\ a.kind = Step(h)
          /\ "secret" \notin a.files
          /\ a.kind # "crate" => a \in audited /\ a.files \cap {"private", "unsafe"} = {}
          /\ a.kind = "tgz" => a.whole /\ "extra" \notin a.files
          /\ a.kind = "sdist" =>
               Wheel(j) \in registry /\ a.by = Wheel(j).by /\ a.files = Wheel(j).files
      BY <1>1, <1>2, UploadedIsChecked
    <3>2. Wheel(j).kind = "wheel"
      BY DEF Wheel
    <3> HIDE DEF j, k, a
    <3>3. SecretsStayHome' /\ NothingPrivateIsPublished' /\ NpmPackageIsComplete'
      BY <1>1, <1>5, <3>1 DEF Published, SecretsStayHome, NothingPrivateIsPublished,
         NpmPackageIsComplete
    <3>4. PublishedWereAudited'
      BY <1>1, <1>2, <1>5, <3>1 DEF Published, PublishedWereAudited
    <3>5. OneOfEachKind'
      BY <1>1, <1>5 DEF Published, OneOfEachKind, Accepts
    <3>6. WheelsComeFirst'
      BY <1>1, <1>5, <3>1, <3>2 DEF Published, WheelsComeFirst
    <3> QED BY <3>3, <3>4, <3>5, <3>6 DEF Published
  <2> QED BY <2>2, <2>3
<1> QED BY <1>1, <1>4, <1>5, UploadsMove

LEMMA PublishedKept ==
  ASSUME Published, UNCHANGED registry, audited \subseteq audited'
  PROVE  Published'
BY DEF Published, SecretsStayHome, NothingPrivateIsPublished, NpmPackageIsComplete,
   PublishedWereAudited, OneOfEachKind, WheelsComeFirst

LEMMA Inductive == IInv /\ [Next]_vars => IInv'
<1> SUFFICES ASSUME IInv, [Next]_vars PROVE RunsEstablish' /\ Published'
  BY TypeInductive DEF IInv
<1>1. TypeOK /\ RunsEstablish /\ Published
  BY DEF IInv
<1>2. ASSUME NEW h \in Helpers, HelperStep(h) PROVE RunsEstablish' /\ Published'
  <2>1. CASE Start(h)
    <3>1. PICK j \in Job : j.at = 1 /\ Moves(h, j)
      BY <1>1, <2>1, StartMoves
    <3>2. Established(j, audited, registry)
      BY <3>1, EarlyEstablished
    <3>3. UNCHANGED <<registry, audited>>
      BY <2>1 DEF Start
    <3>4. Established(j, audited', registry')
      BY <3>2, <3>3 DEF Established
    <3> QED BY <1>1, <3>1, <3>3, <3>4, KeptEstablished, PublishedKept
  <2>2. CASE Fail(h)
    <3>1. Moves(h, None) /\ UNCHANGED <<registry, audited>>
      BY <2>2, AbortMoves DEF Fail
    <3> QED BY <1>1, <3>1, KeptEstablished, PublishedKept
  <2>3. CASE \/ CopyPython(h) \/ Clean(h) \/ Compile(h) \/ CopyTypescript(h)
             \/ CopyRust(h) \/ Package(h)
    BY <1>1, <2>3, CopiesEstablish, PublishedKept
  <2>4. CASE \/ CheckSurface(h) \/ CheckSecrets(h) \/ CheckInventory(h)
             \/ CheckContents(h) \/ CheckPaths(h)
             \/ CompareBytes(h) \/ ScanArchives(h) \/ CheckPacked(h)
    BY <1>1, <2>4, ChecksEstablish, PublishedKept
  <2>5. CASE Emit(h)
    BY <1>1, <2>5, EmitEstablishes, PublishedKept
  <2>6. CASE PublishCrate(h) \/ PublishTgz(h) \/ PublishWheel(h) \/ PublishSdist(h)
    BY <2>6, UploadsEstablish
  <2> QED BY <1>2, <2>1, <2>2, <2>3, <2>4, <2>5, <2>6 DEF HelperStep
<1>3. ASSUME UNCHANGED <<job, registry, audited>> PROVE RunsEstablish' /\ Published'
  <2>1. RunsEstablish'
    BY <1>1, <1>3 DEF RunsEstablish
  <2> QED BY <1>1, <1>3, <2>1, PublishedKept
<1>4. ASSUME NEW p \in Packages, NEW files \in Files, Edit(p, files)
      PROVE  UNCHANGED <<job, registry, audited>>
  BY <1>4 DEF Edit
<1>5. UNCHANGED vars => UNCHANGED <<job, registry, audited>>
  BY DEF vars
<1> QED BY <1>2, <1>3, <1>4, <1>5 DEF Next

LEMMA Invariant == Spec => []IInv
<1>1. Init => IInv
  <2> SUFFICES ASSUME Init PROVE RunsEstablish /\ Published
    BY PublishAssumption DEF Init, IInv, TypeOK
  <2> QED BY DEF Init, RunsEstablish, Published, SecretsStayHome, NothingPrivateIsPublished,
             NpmPackageIsComplete, PublishedWereAudited, OneOfEachKind, WheelsComeFirst
<1> QED BY <1>1, Inductive, PTL DEF Spec

-----------------------------------------------------------------------------
(* What the helpers promise *)

\* No package holds a credential, the crate that cargo packs twice included.
THEOREM NoSecrets == Spec => []SecretsStayHome
<1>1. IInv => SecretsStayHome
  BY DEF IInv, Published
<1> QED BY <1>1, Invariant, PTL

\* Nothing of the server is in a package of npm or PyPI, and none of its files
\* has a path that is not for publication.
THEOREM NothingPrivate == Spec => []NothingPrivateIsPublished
<1>1. IInv => NothingPrivateIsPublished
  BY DEF IInv, Published
<1> QED BY <1>1, Invariant, PTL

\* The npm package has exactly the listed modules.
THEOREM NpmComplete == Spec => []NpmPackageIsComplete
<1>1. IInv => NpmPackageIsComplete
  BY DEF IInv, Published
<1> QED BY <1>1, Invariant, PTL

\* What npm and PyPI have is the archive that passed an audit: the run that packed it
\* uploads it, and neither packs nor copies again.
THEOREM Audited == Spec => []PublishedWereAudited
<1>1. IInv => PublishedWereAudited
  BY DEF IInv, Published
<1> QED BY <1>1, Invariant, PTL

\* Wheel and sdist of a version are of one build, across failures and retries.
THEOREM SameSource == Spec => []WheelAndSdistAgree
<1>1. IInv => WheelAndSdistAgree
  BY DEF IInv, Published, OneOfEachKind, WheelsComeFirst, WheelAndSdistAgree
<1> QED BY <1>1, Invariant, PTL

-----------------------------------------------------------------------------
(* The abstract registry *)

\* What passes the audit is one build: each archive was checked on its own, and
\* wheel and sdist are of the same copy.
LEMMA EmittingIsAuditing ==
  ASSUME TypeOK, RunsEstablish, NEW h \in Helpers, Emit(h)
  PROVE  Registry!Audit
<1> DEFINE j == job[h]
<1>1. /\ job[h] # None /\ Step(h) = "emit" /\ UNCHANGED registry
      /\ audited' = audited \cup Archives(j)
  BY EmitMoves DEF Keeps
<1>2. j \in Job /\ Located(j, Step(h)) /\ Established(j, audited, registry)
  BY <1>1, CurrentJob DEF RunsEstablish
<1>3. j.helper # "rust" /\ j.at = 15
  BY <1>1, <1>2 DEF Located
<1> HIDE DEF j
<1>4. /\ j.whole /\ "extra" \notin j.typescript
      /\ \A a \in Archives(j) : a.files \cap {"secret", "private", "unsafe"} = {}
  BY <1>2, <1>3 DEF Established
<1>5. /\ Crate(j).kind = "crate" /\ Tgz(j).kind = "tgz"
      /\ Wheel(j).kind = "wheel" /\ Sdist(j).kind = "sdist"
      /\ Tgz(j).whole = j.whole /\ Tgz(j).files = j.typescript
      /\ Sdist(j).files = Wheel(j).files
      /\ Crate(j).by = j.by /\ Tgz(j).by = j.by /\ Wheel(j).by = j.by /\ Sdist(j).by = j.by
  BY DEF Crate, Tgz, Wheel, Sdist
<1>6. audited' = audited \cup {Crate(j), Tgz(j), Wheel(j), Sdist(j)}
  BY <1>1 DEF Archives
<1>7. \A a \in {Crate(j), Tgz(j), Wheel(j), Sdist(j)} : a \in audited' /\ Registry!Clean(a)
  BY <1>4, <1>6 DEF Archives, Registry!Clean
<1> QED BY <1>1, <1>4, <1>5, <1>6, <1>7 DEF Registry!Audit

LEMMA UploadingIsReleasing ==
  ASSUME TypeOK, RunsEstablish, NEW h \in Helpers,
         PublishCrate(h) \/ PublishTgz(h) \/ PublishWheel(h) \/ PublishSdist(h)
  PROVE  Registry!Release \/ UNCHANGED Registry!registryVars
<1> DEFINE a == Uploaded(h)
           j == job[h]
<1>1. /\ job[h] # None /\ Step(h) \in {"crate", "tgz", "wheel", "sdist"}
      /\ UNCHANGED audited
      /\ \/ UNCHANGED registry
         \/ Accepts(a) /\ registry' = registry \cup {a}
  BY UploadsMove DEF Keeps
<1>2. /\ "secret" \notin a.files
      /\ a.kind # "crate" => a \in audited
      /\ a.kind = "sdist" =>
               Wheel(j) \in registry /\ a.by = Wheel(j).by /\ a.files = Wheel(j).files
  BY <1>1, UploadedIsChecked
<1>3. Wheel(j).kind = "wheel"
  BY DEF Wheel
<1> HIDE DEF a, j
<1> QED BY <1>1, <1>2, <1>3
        DEF Registry!Release, Registry!OfOneBuild, Registry!registryVars, Accepts

\* Every step of a helper (publish-*.sh, check-package-archives.sh) and every edit
\* is, for the registries, a step of PackageRegistry or none.
THEOREM HelpersKeepTheRegistry == Spec => KeepsTheRegistry
<1>1. Init => Registry!RegistryInit
  BY DEF Init, Registry!RegistryInit
<1>2. ASSUME IInv, [Next]_vars
      PROVE  [Registry!RegistryNext]_(Registry!registryVars)
  <2>1. TypeOK /\ RunsEstablish
    BY <1>2 DEF IInv
  <2>2. ASSUME UNCHANGED <<registry, audited>>
        PROVE  [Registry!RegistryNext]_(Registry!registryVars)
    BY <2>2 DEF Registry!registryVars
  <2>3. ASSUME NEW h \in Helpers, HelperStep(h)
        PROVE  [Registry!RegistryNext]_(Registry!registryVars)
    <3>1. CASE Emit(h)
      BY <2>1, <3>1, EmittingIsAuditing DEF Registry!RegistryNext
    <3>2. CASE PublishCrate(h) \/ PublishTgz(h) \/ PublishWheel(h) \/ PublishSdist(h)
      BY <2>1, <3>2, UploadingIsReleasing DEF Registry!RegistryNext
    <3>3. CASE Start(h) \/ Fail(h)
      BY <2>2, <3>3 DEF Start, Fail
    <3>4. CASE \/ CopyPython(h) \/ Clean(h) \/ Compile(h) \/ CopyTypescript(h)
               \/ CopyRust(h) \/ Package(h)
      BY <2>1, <2>2, <3>4, CopiesMove DEF Keeps
    <3>5. CASE \/ CheckSurface(h) \/ CheckSecrets(h) \/ CheckInventory(h)
               \/ CheckContents(h) \/ CheckPaths(h)
               \/ CompareBytes(h) \/ ScanArchives(h) \/ CheckPacked(h)
      BY <2>1, <2>2, <3>5, ChecksMove DEF Keeps
    <3> QED BY <2>3, <3>1, <3>2, <3>3, <3>4, <3>5 DEF HelperStep
  <2> QED BY <1>2, <2>2, <2>3 DEF Next, Edit, vars
<1> QED
  BY <1>1, <1>2, Invariant, PTL DEF Spec, KeepsTheRegistry, Registry!RegistrySpec

\* What the registry is worth: a version has one archive of each kind, all of them
\* clean, complete and of one source.  Only the steps of PackageRegistry are used,
\* here and below.
THEOREM VersionsAreSound == Spec => []Registry!VersionIsSound
<1> DEFINE Passed == \A a \in audited :
                       /\ Registry!Clean(a)
                       /\ a.kind = "tgz" => a.whole /\ "extra" \notin a.files
<1>1. Registry!RegistryInit => Registry!VersionIsSound /\ Passed
  BY DEF Registry!RegistryInit, Registry!VersionIsSound
<1>2. /\ Registry!VersionIsSound /\ Passed
      /\ [Registry!RegistryNext]_(Registry!registryVars)
      => (Registry!VersionIsSound /\ Passed)'
  <2> SUFFICES ASSUME Registry!VersionIsSound, Passed,
                      [Registry!RegistryNext]_(Registry!registryVars)
               PROVE  Registry!VersionIsSound' /\ Passed'
    OBVIOUS
  <2>1. CASE Registry!Audit
    <3>1. Passed'
      BY <2>1 DEF Registry!Audit
    <3>2. Registry!VersionIsSound'
      BY <2>1 DEF Registry!Audit, Registry!VersionIsSound
    <3> QED BY <3>1, <3>2
  <2>2. CASE Registry!Release
    BY <2>2 DEF Registry!Release, Registry!VersionIsSound, Registry!Clean
  <2>3. CASE UNCHANGED Registry!registryVars
    BY <2>3 DEF Registry!registryVars, Registry!VersionIsSound
  <2> QED BY <2>1, <2>2, <2>3 DEF Registry!RegistryNext
<1> QED
  BY <1>1, <1>2, HelpersKeepTheRegistry, PTL DEF KeepsTheRegistry, Registry!RegistrySpec

\* No step replaces or takes away what is published, whatever fails or is run again.
THEOREM PublishedStays == Spec => Registry!VersionsOnlyGrow
<1>1. [Registry!RegistryNext]_(Registry!registryVars)
        => [registry \subseteq registry']_(Registry!registryVars)
  BY DEF Registry!RegistryNext, Registry!Audit, Registry!Release
<1> QED
  BY <1>1, HelpersKeepTheRegistry, PTL
     DEF KeepsTheRegistry, Registry!RegistrySpec, Registry!VersionsOnlyGrow

=============================================================================

---------------------------- MODULE PackageRegistry ----------------------------
(***************************************************************************)
(* What those who install packages are promised, without working trees,    *)
(* directories, steps of helpers, failures or retries: npm and PyPI have   *)
(* what an audit of one build has passed, crates.io has no credential, one *)
(* file of each kind makes a version, and nothing that is published        *)
(* changes.                                                                *)
(***************************************************************************)
VARIABLES
  published,   \* archives that can be installed
  audited      \* archives that have passed an audit

registryVars == <<published, audited>>

RegistryInit == published = {} /\ audited = {}

Clean(archive) == archive.files \cap {"secret", "private", "unsafe"} = {}

\* The four archives of a build, which is the work of one run, pass together.
Audit ==
  /\ UNCHANGED published
  /\ LET Passed(kind) == {archive \in audited' : archive.kind = kind}
     IN \E crate \in Passed("crate"), tgz \in Passed("tgz"),
           wheel \in Passed("wheel"), sdist \in Passed("sdist") :
          /\ crate.by = tgz.by /\ tgz.by = wheel.by /\ wheel.by = sdist.by
          /\ audited' = audited \cup {crate, tgz, wheel, sdist}
          /\ Clean(crate) /\ Clean(tgz) /\ Clean(wheel) /\ Clean(sdist)
          /\ tgz.whole /\ "extra" \notin tgz.files
          /\ sdist.files = wheel.files

OfOneBuild(a, b) == a.by = b.by /\ a.files = b.files

\* The sdist comes after the wheel of its build.
Release ==
  /\ UNCHANGED audited
  /\ \E archive \in published' :
       /\ published' = published \cup {archive}
       /\ \A other \in published : other.kind # archive.kind
       /\ IF archive.kind = "crate" THEN "secret" \notin archive.files
          ELSE archive \in audited
       /\ archive.kind = "sdist" =>
            \E wheel \in published : wheel.kind = "wheel" /\ OfOneBuild(wheel, archive)

RegistryNext == Audit \/ Release

RegistrySpec == RegistryInit /\ [][RegistryNext]_registryVars

\* What they rely on: one archive of each kind, clean and complete, and none that
\* is replaced or taken away.
VersionIsSound ==
  /\ \A archive, other \in published : archive.kind = other.kind => archive = other
  /\ \A archive \in published :
       /\ "secret" \notin archive.files
       /\ archive.kind # "crate" => Clean(archive)
       /\ archive.kind = "tgz" => archive.whole /\ "extra" \notin archive.files
       /\ archive.kind = "sdist" =>
            \E wheel \in published : wheel.kind = "wheel" /\ OfOneBuild(wheel, archive)
VersionsOnlyGrow == [][published \subseteq published']_registryVars
=============================================================================

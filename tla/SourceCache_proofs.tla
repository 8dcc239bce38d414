------------------------- MODULE SourceCache_proofs -------------------------
(***************************************************************************)
(* Theorems about the source builder's cache (SourceCache), for any set of *)
(* processes and operations and any number of mishaps.                     *)
(*                                                                         *)
(* A library that is there is complete, or it is being packaged by the     *)
(* operation that holds the lock, or it is on the list of those whose      *)
(* packaging was broken off.  One that is older than the wrappers, in a    *)
(* directory that looks newer, is known for it likewise.                   *)
(*                                                                         *)
(* The view is compared with tables of what a build of each platform may   *)
(* find and leaves at each place: the operations of the plans are checked  *)
(* against the tables one by one, an operation that the tables allow keeps *)
(* a view within them, and at the end of a plan they leave one view.  An   *)
(* operation then fails without a command that fails only for what the     *)
(* stages before it cannot have set right.                                 *)
(***************************************************************************)
EXTENDS SourceCache, WellFoundedInduction, TLAPS

RunType == [kind : {"run"}, by : Builders, job : Jobs, at : Stages, op : Nat, reapply : BOOLEAN,
            edited : BOOLEAN]

RunTyped == run = None \/ run \in RunType
OutTyped == out \in [Platforms -> OutputType]
BlameType == [packaging : SUBSET (Platforms \X Linkages), mixed : SUBSET (Platforms \X Linkages),
              view : BOOLEAN, reapply : BOOLEAN]
BlameTyped == blame \in BlameType

BuildStages == {"require", "view", "links", "gn", "ninja"} \cup Packaging
SyncStages == {"check", "init", "manifest", "fetch", "reapply", "depot", "gclient", "deps", "lastchange"}

\* Which operations come to which stages.
KindInv ==
  run # None =>
    /\ run.at \in BuildStages => Builds(job)
    /\ run.at \in SyncStages => job.kind # "build"
    /\ run.at \in {"depot", "gclient", "deps", "lastchange"} => job.kind # "api"
    /\ run.at \in {"vendor", "copy", "rename"} => job.kind = "vendor"

\* The operation that holds the lock: the last one's report is gone, and what it has
\* built itself is there.
StageInv ==
  run # None =>
    /\ last = None
    /\ run.at = "post" /\ job.linkage = "dynamic" => Mine.dynamic # "none"
    /\ run.at \in {"bundle", "objcopy", "link manifest"} =>
         job.linkage = "static" /\ (job.platform = "android" => Mine.dex)
    /\ run.at \in {"objcopy", "link manifest"} => Mine.static # "none"
    /\ run.at = "link manifest" => Mine.isolated

Packing(p, l) ==
  run # None /\ run.at \in Packaging /\ run.job.platform = p /\ run.job.linkage = l

\* Every library of the cache is complete, being packaged, or blamed.
LibraryInv ==
  \A p \in Platforms, l \in Linkages :
    out[p][l] # "none" => Complete(p, l) \/ <<p, l>> \in blame.packaging \/ Packing(p, l)

Excused(p, l) == <<p, l>> \in blame.packaging \/ <<p, l>> \in blame.mixed

\* The operation has put its library in its place.
Placed == IF job.linkage = "dynamic" THEN run.at \in Packaging ELSE run.at \in {"objcopy", "link manifest"}

\* A library older than the wrappers in a directory that looks newer is being packaged,
\* blamed, or known to be among newer ones.
AgeInv ==
  /\ \A p \in Platforms, l \in Linkages :
       out[p][l] = "old" /\ out[p].newest = "new" => Excused(p, l) \/ Packing(p, l)
  /\ run # None /\ run.at \in Packaging =>
       /\ \A l \in Linkages : l # job.linkage /\ Mine[l] = "old" => Excused(job.platform, l)
       /\ run.edited \/ (Placed /\ Mine[job.linkage] = "old") => <<job.platform, job.linkage>> \in blame.mixed

Inv ==
  /\ RunTyped /\ OutTyped /\ BlameTyped /\ KindInv
  /\ StageInv /\ LibraryInv /\ AgeInv /\ InstalledIsComplete

-----------------------------------------------------------------------------
(* Operations and stages.                                                  *)

\* Inv is about these variables only.
LEMMA Untouched ==
  ASSUME Inv, UNCHANGED <<run, out, last, blame>>
  PROVE  Inv'
<1>1. RunTyped' /\ OutTyped' /\ BlameTyped'
  BY DEF Inv, RunTyped, OutTyped, BlameTyped
<1>2. KindInv'
  BY DEF Inv, KindInv, job
<1>3. StageInv'
  BY DEF Inv, StageInv, Mine, job
<1>4. LibraryInv'
  BY DEF Inv, LibraryInv, Complete, Packing
<1>5. AgeInv'
  BY DEF Inv, AgeInv, Excused, Packing, Placed, Mine, job
<1>6. InstalledIsComplete'
  BY DEF Inv, InstalledIsComplete, Complete
<1> QED  BY <1>1, <1>2, <1>3, <1>4, <1>5, <1>6 DEF Inv

LEMMA JobFacts ==
  ASSUME NEW j \in Jobs
  PROVE  /\ j.platform \in Platforms
         /\ j.kind \in {"ensure", "build", "sync", "api", "vendor"}
         /\ Builds(j) => j.linkage \in Linkages
BY SourceCacheAssumption DEF SourceCacheAssumption, JobType, Builds

LEMMA RunFacts ==
  ASSUME NEW r \in RunType
  PROVE  /\ r # None /\ r.job \in Jobs /\ r.at \in Stages /\ r.op \in Nat
         /\ r.edited \in BOOLEAN /\ r.reapply \in BOOLEAN
BY DEF RunType, None

\* The stage changes and the operation stays.
LEMMA Advance ==
  ASSUME NEW r \in RunType, NEW stage \in Stages
  PROVE  LET new == [r EXCEPT !.at = stage]
         IN new \in RunType /\ new.at = stage /\ new.job = r.job /\ new.edited = r.edited
BY DEF RunType

LEMMA Running ==
  ASSUME RunTyped, run # None
  PROVE  /\ run \in RunType /\ run.at \in Stages /\ run.edited \in BOOLEAN
         /\ job \in Jobs /\ job.platform \in Platforms
         /\ job.kind \in {"ensure", "build", "sync", "api", "vendor"}
         /\ Builds(job) => job.linkage \in Linkages
BY RunFacts, JobFacts DEF RunTyped, job

\* An operation that runs keeps its purpose; it advances, or the lock is released.
Continues ==
  /\ run # None
  /\ run' # None => run' \in RunType /\ run'.job = run.job

LEMMA Continuing ==
  ASSUME RunTyped, KindInv,
         \/ Check \/ InitRepository \/ WriteManifest \/ Fetch \/ Reapply
         \/ DepotTools \/ WriteGclient \/ SyncDependencies \/ Lastchange
         \/ Require \/ OpenView \/ Link \/ GnGen \/ Ninja \/ PostBuild
         \/ Bundle \/ IsolateSymbols \/ WriteLinkManifest
         \/ BeginVendoring \/ CopyTree \/ Rename
         \/ Fail \/ Kill
  PROVE  Continues /\ KindInv'
<1>1. run # None
  BY DEF Check, InitRepository, WriteManifest, Fetch, Reapply, DepotTools, WriteGclient,
         SyncDependencies, Lastchange, Require, OpenView, Link, GnGen, Ninja, PostBuild, Bundle,
         IsolateSymbols, WriteLinkManifest, BeginVendoring, CopyTree, Rename, Fail, Kill, At
<1>2. /\ run \in RunType /\ run.at \in Stages
      /\ job.kind \in {"ensure", "build", "sync", "api", "vendor"}
  BY <1>1, Running
<1>3. CASE run' = None
  BY <1>1, <1>3 DEF Continues, KindInv
<1>4. ASSUME NEW stage \in Stages, Go(stage),
             stage \in BuildStages => Builds(job),
             stage \in SyncStages => job.kind # "build",
             stage \in {"depot", "gclient", "deps", "lastchange"} => job.kind # "api",
             stage \in {"vendor", "copy", "rename"} => job.kind = "vendor"
      PROVE  Continues /\ KindInv'
  BY <1>1, <1>2, <1>4, Advance DEF Go, Continues, KindInv, job, Builds
<1> USE DEF Stages, BuildStages, SyncStages, Packaging, Builds, At
<1>5. CASE Check
  <2>1. \/ Go("require") /\ job.kind = "ensure"
        \/ Go("init") /\ job.kind # "build"
        \/ Go("vendor") /\ job.kind = "vendor"
        \/ run' = None
    <3>1. CASE job.kind = "ensure" /\ run' # None
      BY <1>5, <3>1 DEF Check, Succeed, Return
    <3>2. CASE job.kind = "vendor"
      BY <1>5, <3>2 DEF Check
    <3> QED  BY <1>5, <3>1, <3>2 DEF Check
  <2> QED  BY <1>3, <1>4, <2>1
<1>6. CASE InitRepository \/ WriteGclient \/ SyncDependencies
  <2>1. \/ Go("manifest") /\ job.kind # "build"
        \/ (Go("deps") \/ Go("lastchange")) /\ job.kind \notin {"build", "api"}
    BY <1>1, <1>6 DEF InitRepository, WriteGclient, SyncDependencies, KindInv
  <2> QED  BY <1>4, <2>1
<1>7. CASE WriteManifest
  <2>1. run' = [run EXCEPT !.at = "fetch", !.reapply = (disk.manifest # Wanted)]
        /\ job.kind # "build"
    BY <1>1, <1>7 DEF WriteManifest, KindInv
  <2>2. run' \in RunType /\ run'.job = run.job /\ run'.at = "fetch"
    BY <1>2, <2>1 DEF RunType
  <2> QED  BY <1>1, <2>1, <2>2 DEF Continues, KindInv, job
<1>8. CASE Fetch
  <2>1. job.kind # "build"
    BY <1>1, <1>8 DEF Fetch, KindInv
  <2>2. CASE Go("reapply") \/ run' = None
    BY <1>3, <1>4, <2>1, <2>2
  <2>3. CASE run' = [run EXCEPT !.at = "reapply", !.reapply = TRUE]
    <3>1. run' \in RunType /\ run'.job = run.job /\ run'.at = "reapply"
      BY <1>2, <2>3 DEF RunType
    <3> QED  BY <1>1, <2>1, <3>1 DEF Continues, KindInv, job
  <2> QED  BY <1>8, <2>2, <2>3 DEF Fetch, Refuse, Return
<1>9. CASE Reapply \/ DepotTools
  <2>1. \/ (Go("depot") \/ Go("gclient")) /\ job.kind \notin {"build", "api"}
        \/ run' = None
    BY <1>1, <1>9 DEF Reapply, DepotTools, KindInv, Succeed, Refuse, Return
  <2> QED  BY <1>3, <1>4, <2>1
<1>10. CASE Lastchange
  <2>1. job.kind \in {"sync", "ensure", "vendor"}
    BY <1>1, <1>2, <1>10 DEF Lastchange, KindInv
  <2>2. \/ Go("require") /\ job.kind = "ensure"
        \/ Go("vendor") /\ job.kind = "vendor"
        \/ run' = None
    BY <1>10, <2>1 DEF Lastchange, Succeed, Refuse, Return
  <2> QED  BY <1>3, <1>4, <2>2
<1>11. CASE Require \/ Bundle \/ IsolateSymbols
  <2>1. \/ (Go("view") \/ Go("objcopy") \/ Go("link manifest")) /\ Builds(job)
        \/ run' = None
    BY <1>1, <1>11 DEF Require, Bundle, IsolateSymbols, KindInv, Refuse, Return
  <2> QED  BY <1>3, <1>4, <2>1
<1>12. CASE OpenView
  <2>1. run' = [run EXCEPT !.at = "links", !.op = 1] /\ Builds(job)
    BY <1>1, <1>12 DEF OpenView, KindInv
  <2>2. run' \in RunType /\ run'.job = run.job /\ run'.at = "links"
    BY <1>2, <2>1 DEF RunType
  <2> QED  BY <1>1, <2>1, <2>2 DEF Continues, KindInv, job
<1>13. CASE Link
  <2>1. Builds(job) /\ run.at = "links"
    BY <1>1, <1>13 DEF Link, KindInv
  <2>2. CASE Go("gn") \/ run' = None
    BY <1>3, <1>4, <2>1, <2>2
  <2>3. CASE run' = [run EXCEPT !.op = @ + 1]
    <3>1. run.op \in Nat
      BY <1>2, RunFacts
    <3>2. run' = [run EXCEPT !.op = run.op + 1] /\ run.op + 1 \in Nat
      BY <2>3, <3>1
    <3>3. run' \in RunType /\ run'.job = run.job /\ run'.at = "links"
      BY <1>2, <2>1, <3>2 DEF RunType
    <3> QED  BY <1>1, <2>1, <3>3 DEF Continues, KindInv, job
  <2> QED  BY <1>13, <2>2, <2>3 DEF Link, Refuse, Return
<1>14. CASE Ninja
  <2>1. PICK late \in {FALSE, run.edited} : run' = [run EXCEPT !.at = "post", !.edited = late]
    BY <1>14 DEF Ninja
  <2>2. Builds(job) /\ late \in BOOLEAN
    BY <1>1, <1>2, <1>14, RunFacts DEF Ninja, KindInv
  <2>3. run' \in RunType /\ run'.job = run.job /\ run'.at = "post"
    BY <1>2, <2>1, <2>2 DEF RunType
  <2> QED  BY <1>1, <2>2, <2>3 DEF Continues, KindInv, job
<1>15. CASE PostBuild \/ WriteLinkManifest
  <2>1. \/ Go("bundle") /\ Builds(job)
        \/ run' = None
    BY <1>1, <1>15 DEF PostBuild, WriteLinkManifest, KindInv, Succeed, Return
  <2> QED  BY <1>3, <1>4, <2>1
<1>16. CASE BeginVendoring \/ CopyTree \/ Rename
  <2>1. \/ (Go("copy") \/ Go("rename")) /\ job.kind = "vendor"
        \/ run' = None
    BY <1>1, <1>16 DEF BeginVendoring, CopyTree, Rename, KindInv, Succeed, Refuse, Return
  <2> QED  BY <1>3, <1>4, <2>1
<1>17. CASE Fail \/ Kill
  BY <1>3, <1>17 DEF Fail, Kill, Return
<1>18. CASE GnGen
  <2>1. Builds(job)
    BY <1>1, <1>18 DEF GnGen, KindInv
  <2>2. CASE run' = [run EXCEPT !.at = "ninja", !.edited = FALSE]
    <3>1. run' \in RunType /\ run'.job = run.job /\ run'.at = "ninja"
      BY <1>2, <2>2 DEF RunType
    <3> QED  BY <1>1, <2>1, <3>1 DEF Continues, KindInv, job
  <2> QED  BY <1>3, <1>18, <2>2 DEF GnGen, Refuse, Return
<1> QED  BY <1>5, <1>6, <1>7, <1>8, <1>9, <1>10, <1>11, <1>12, <1>13, <1>14, <1>15, <1>16, <1>17, <1>18

-----------------------------------------------------------------------------
(* Steps that build nothing.                                               *)

Quietly ==
  /\ UNCHANGED out /\ blame'.packaging = blame.packaging /\ blame'.mixed = blame.mixed
  /\ run # None /\ run.at \notin Packaging
  /\ run' = None \/ (run'.at \notin Packaging /\ UNCHANGED last)

QuietStep ==
  \/ Check \/ InitRepository \/ WriteManifest \/ Fetch \/ Reapply
  \/ DepotTools \/ WriteGclient \/ SyncDependencies \/ Lastchange
  \/ Require \/ OpenView \/ Link \/ GnGen
  \/ BeginVendoring \/ CopyTree \/ Rename

LEMMA QuietSteps ==
  ASSUME RunTyped, BlameTyped, KindInv, QuietStep
  PROVE  Quietly
<1>1. run # None
  BY DEF QuietStep, Check, InitRepository, WriteManifest, Fetch, Reapply, DepotTools, WriteGclient,
         SyncDependencies, Lastchange, Require, OpenView, Link, GnGen, BeginVendoring, CopyTree,
         Rename, At
<1>2. run \in RunType
  BY <1>1, Running
<1> USE DEF Quietly, Packaging, At, Only, Go, Return, Succeed, Refuse, ends
<1>3. CASE Check \/ Require \/ GnGen
  BY <1>1, <1>2, <1>3 DEF Check, Require, GnGen, RunType
<1>4. CASE InitRepository \/ WriteManifest \/ Fetch \/ Reapply
  BY <1>1, <1>2, <1>4 DEF InitRepository, WriteManifest, Fetch, Reapply, Disk, RunType
<1>5. CASE DepotTools \/ WriteGclient \/ SyncDependencies
  BY <1>1, <1>2, <1>5 DEF DepotTools, WriteGclient, SyncDependencies, Disk, RunType
<1>6. CASE Lastchange
  <2>1. job.kind \in {"sync", "ensure", "vendor"}
    BY <1>1, <1>6, Running DEF Lastchange, KindInv, SyncStages
  <2> QED  BY <1>1, <1>2, <1>6, <2>1 DEF Lastchange, Disk, RunType
<1>7. CASE OpenView
  BY <1>1, <1>2, <1>7 DEF OpenView, View, RunType, BlameTyped, BlameType
<1>8. CASE Link
  BY <1>1, <1>2, <1>8 DEF Link, View, RunType
<1>9. CASE BeginVendoring \/ CopyTree \/ Rename
  BY <1>1, <1>2, <1>9 DEF BeginVendoring, CopyTree, Rename, Vendor, RunType
<1> QED  BY <1>3, <1>4, <1>5, <1>6, <1>7, <1>8, <1>9 DEF QuietStep

-----------------------------------------------------------------------------
(* Steps that build.                                                       *)

\* An operation writes the output of its own platform.
LEMMA OutputFacts ==
  ASSUME RunTyped, OutTyped, run # None, NEW new \in OutputType, Output(new)
  PROVE  /\ OutTyped' /\ out'[job.platform] = new
         /\ \A p \in Platforms : p # job.platform => out'[p] = out[p]
BY Running DEF Output, OutTyped

\* A library that the operation does not build stays as complete as it was.
LEMMA OthersKept ==
  ASSUME RunTyped, OutTyped, run # None, NEW new \in OutputType, Output(new),
         \A l \in Linkages : l # job.linkage => new[l] = Mine[l],
         Mine.dex => new.dex,
         job.linkage = "dynamic" => new.isolated = Mine.isolated /\ new.manifest = Mine.manifest,
         job.linkage \in Linkages,
         NEW p \in Platforms, NEW l \in Linkages, <<p, l>> # <<job.platform, job.linkage>>,
         Complete(p, l)
  PROVE  Complete(p, l)'
<1>1. job.platform \in Platforms /\ Mine \in OutputType
  BY Running DEF OutTyped, Mine
<1>2. CASE p # job.platform
  BY <1>2, OutputFacts DEF Complete
<1>3. CASE p = job.platform
  <2>1. l # job.linkage /\ out'[p] = new /\ out[p] = Mine
    BY <1>3, OutputFacts DEF Mine
  <2>2. l = "static" => job.linkage = "dynamic"
    BY <2>1 DEF Linkages
  <2> QED  BY <1>1, <1>3, <2>1, <2>2 DEF Complete
<1> QED  BY <1>2, <1>3

-----------------------------------------------------------------------------
(* Every step keeps the invariant.                                         *)

\* Only the report of a build that succeeded promises anything.
LEMMA NoPromise ==
  ASSUME last' = None \/ ~last'.ok \/ ~Builds(last'.job)
  PROVE  InstalledIsComplete'
BY DEF InstalledIsComplete, Builds

LEMMA QuietKeeps ==
  ASSUME Inv, QuietStep
  PROVE  OutTyped' /\ BlameTyped' /\ StageInv' /\ LibraryInv' /\ AgeInv'
<1> USE DEF Inv
<1>1. Quietly
  BY QuietSteps
<1>2. OutTyped'
  BY <1>1 DEF Quietly, OutTyped
<1>3. BlameTyped'
  <2>1. CASE OpenView
    BY <2>1 DEF OpenView, BlameTyped, BlameType
  <2>2. CASE ~OpenView
    <3>1. UNCHANGED blame
      BY <2>2 DEF QuietStep, Check, InitRepository, WriteManifest, Fetch, Reapply, DepotTools,
             WriteGclient, SyncDependencies, Lastchange, Require, Link, GnGen, BeginVendoring,
             CopyTree, Rename, Disk, Only, Vendor
    <3> QED  BY <3>1 DEF BlameTyped
  <2> QED  BY <2>1, <2>2
<1>4. StageInv'
  <2> SUFFICES ASSUME run' # None
               PROVE  StageInv'
    BY DEF StageInv
  <2>1. run'.at \notin Packaging /\ last' = None
    BY <1>1 DEF Quietly, StageInv
  <2> QED  BY <2>1 DEF StageInv, Packaging
<1>5. LibraryInv'
  BY <1>1 DEF Quietly, LibraryInv, Packing, Complete
<1>6. AgeInv'
  BY <1>1 DEF Quietly, AgeInv, Excused, Packing
<1> QED  BY <1>2, <1>3, <1>4, <1>5, <1>6

\* Without a build a success is promised only where the library was found.
LEMMA QuietReports ==
  ASSUME Inv, QuietStep
  PROVE  InstalledIsComplete'
<1> USE DEF Inv
<1>1. run # None /\ last = None /\ Quietly
  BY QuietSteps DEF Quietly, StageInv
<1>2. /\ run \in RunType /\ job \in Jobs /\ job.platform \in Platforms
      /\ Builds(job) => job.linkage \in Linkages
  BY <1>1, Running
<1>3. CASE UNCHANGED last \/ Refuse
  BY <1>1, <1>3, NoPromise DEF Refuse, Return
<1>4. CASE Succeed /\ ~Builds(job)
  BY <1>4, NoPromise DEF Succeed, Return
<1> USE DEF At, Builds
<1>5. CASE Check
  <2>1. CASE UNCHANGED last
    BY <1>3, <2>1
  <2>2. CASE ~UNCHANGED last
    <3>1. /\ job.kind = "ensure" /\ Succeed
          /\ NativeLibraryExists(job.platform, job.linkage) /\ ~RequiresRebuild(job.platform)
      BY <1>5, <2>2 DEF Check, Go
    <3>2. last' = [kind |-> "ended", job |-> job, ok |-> TRUE, clean |-> TRUE]
      BY <3>1 DEF Succeed, Return
    <3>3. /\ out[job.platform][job.linkage] # "none" /\ out[job.platform].newest = "new"
      BY <3>1 DEF NativeLibraryExists, RequiresRebuild
    <3>4. ~Packing(job.platform, job.linkage)
      BY <1>1 DEF Quietly, Packing
    <3>5. \/ Complete(job.platform, job.linkage)
          \/ <<job.platform, job.linkage>> \in blame.packaging
      BY <1>2, <3>1, <3>3, <3>4 DEF LibraryInv
    <3>6. out[job.platform][job.linkage] = "old" => Excused(job.platform, job.linkage)
      BY <1>2, <3>1, <3>3, <3>4 DEF AgeInv
    <3>7. /\ last'.job = job /\ UNCHANGED out
          /\ blame'.packaging = blame.packaging /\ blame'.mixed = blame.mixed
      BY <1>1, <3>2 DEF Quietly
    <3> QED  BY <3>5, <3>6, <3>7 DEF InstalledIsComplete, Complete, Excused
  <2> QED  BY <2>1, <2>2
<1>6. CASE Reapply
  <2>1. (Succeed /\ job.kind = "api") \/ UNCHANGED last \/ Refuse
    BY <1>6 DEF Reapply, Go
  <2> QED  BY <1>3, <1>4, <2>1
<1>7. CASE Lastchange
  <2>1. job.kind \in {"sync", "ensure", "vendor"}
    BY <1>1, <1>2, <1>7, Running DEF Lastchange, KindInv, SyncStages
  <2>2. (Succeed /\ job.kind = "sync") \/ UNCHANGED last \/ Refuse
    BY <1>7, <2>1 DEF Lastchange, Go
  <2> QED  BY <1>3, <1>4, <2>2
<1>8. CASE Rename
  <2>1. Succeed /\ job.kind = "vendor"
    BY <1>1, <1>8 DEF Rename, KindInv
  <2> QED  BY <1>4, <2>1
<1>9. CASE InitRepository \/ WriteManifest \/ Fetch \/ DepotTools \/ WriteGclient
            \/ SyncDependencies
  BY <1>3, <1>9 DEF InitRepository, WriteManifest, Fetch, DepotTools, WriteGclient,
         SyncDependencies, Go
<1>10. CASE Require \/ OpenView \/ Link \/ GnGen \/ BeginVendoring \/ CopyTree
  BY <1>3, <1>10 DEF Require, OpenView, Link, GnGen, BeginVendoring, CopyTree, Go
<1> QED  BY <1>5, <1>6, <1>7, <1>8, <1>9, <1>10 DEF QuietStep

LEMMA Building ==
  ASSUME Inv, run # None, run.at \in BuildStages
  PROVE  /\ run \in RunType /\ run.edited \in BOOLEAN /\ last = None
         /\ Builds(job) /\ job.platform \in Platforms /\ job.linkage \in Linkages
         /\ Mine \in OutputType
BY Running DEF Inv, KindInv, StageInv, OutTyped, Mine

\* A step that goes on packaging: its own library may be incomplete.
LEMMA BuildGoesOn ==
  ASSUME Inv, run # None, run.at \in BuildStages, NEW new \in OutputType, Output(new),
         \A l \in Linkages : l # job.linkage => new[l] = Mine[l],
         Mine.dex => new.dex,
         job.linkage = "dynamic" => new.isolated = Mine.isolated /\ new.manifest = Mine.manifest,
         run' # None, run'.job = job, run'.at \in Packaging,
         UNCHANGED last, blame'.packaging = blame.packaging
  PROVE  OutTyped' /\ LibraryInv' /\ InstalledIsComplete'
<1>1. /\ last = None /\ job.platform \in Platforms /\ job.linkage \in Linkages
      /\ Mine \in OutputType
  BY Building
<1>2. /\ OutTyped' /\ out'[job.platform] = new
      /\ \A p \in Platforms : p # job.platform => out'[p] = out[p]
  BY OutputFacts DEF Inv
<1>4. InstalledIsComplete'
  BY <1>1, NoPromise
<1>5. ASSUME NEW p \in Platforms, NEW l \in Linkages, out'[p][l] # "none"
      PROVE  Complete(p, l)' \/ <<p, l>> \in blame'.packaging \/ Packing(p, l)'
  <2>1. CASE <<p, l>> = <<job.platform, job.linkage>>
    BY <2>1 DEF Packing
  <2>2. CASE <<p, l>> # <<job.platform, job.linkage>>
    <3>1. out[p][l] # "none"
      BY <1>2, <1>5, <2>2 DEF Mine
    <3>2. ~Packing(p, l)
      BY <2>2 DEF Packing, job
    <3>3. Complete(p, l) \/ <<p, l>> \in blame.packaging
      BY <3>1, <3>2 DEF Inv, LibraryInv
    <3>4. Complete(p, l) => Complete(p, l)'
      BY <1>1, <2>2, OthersKept DEF Inv
    <3> QED  BY <3>3, <3>4
  <2> QED  BY <2>1, <2>2
<1>6. LibraryInv'
  BY <1>5 DEF LibraryInv
<1> QED  BY <1>2, <1>4, <1>6

\* The last step of a build: its library is complete and no longer to blame.
LEMMA BuildEnds ==
  ASSUME Inv, run # None, run.at \in BuildStages, NEW new \in OutputType, Output(new),
         \A l \in Linkages : l # job.linkage => new[l] = Mine[l],
         Mine.dex => new.dex,
         job.linkage = "dynamic" => new.isolated = Mine.isolated /\ new.manifest = Mine.manifest,
         new[job.linkage] # "none",
         new[job.linkage] = "old" => <<job.platform, job.linkage>> \in blame.mixed,
         job.linkage = "static" => new.isolated /\ new.manifest,
         job.platform = "android" => new.dex,
         Succeed, Packaged
  PROVE  OutTyped' /\ BlameTyped' /\ LibraryInv' /\ InstalledIsComplete'
<1>1. /\ last = None /\ job.platform \in Platforms /\ job.linkage \in Linkages
      /\ Mine \in OutputType
  BY Building
<1>2. /\ OutTyped' /\ out'[job.platform] = new
      /\ \A p \in Platforms : p # job.platform => out'[p] = out[p]
  BY OutputFacts DEF Inv
<1>3. /\ BlameTyped'
      /\ blame'.packaging = blame.packaging \ {<<job.platform, job.linkage>>} /\ blame'.mixed = blame.mixed
  BY DEF Inv, BlameTyped, BlameType, Packaged
<1>4. ASSUME NEW p \in Platforms, NEW l \in Linkages, p = job.platform, l = job.linkage
      PROVE  Complete(p, l)'
  BY <1>2, <1>4 DEF Complete
<1>5. InstalledIsComplete'
  <2>1. last' = [kind |-> "ended", job |-> job, ok |-> TRUE, clean |-> TRUE]
    BY DEF Succeed, Return
  <2>2. last'.job = job
    BY <2>1
  <2> QED  BY <1>1, <1>2, <1>3, <1>4, <2>2 DEF InstalledIsComplete
<1>6. ASSUME NEW p \in Platforms, NEW l \in Linkages, out'[p][l] # "none"
      PROVE  Complete(p, l)' \/ <<p, l>> \in blame'.packaging
  <2>1. CASE <<p, l>> = <<job.platform, job.linkage>>
    BY <1>4, <2>1
  <2>2. CASE <<p, l>> # <<job.platform, job.linkage>>
    <3>1. out[p][l] # "none"
      BY <1>2, <1>6, <2>2 DEF Mine
    <3>2. ~Packing(p, l)
      BY <2>2 DEF Packing, job
    <3>3. Complete(p, l) \/ <<p, l>> \in blame.packaging
      BY <3>1, <3>2 DEF Inv, LibraryInv
    <3>4. Complete(p, l) => Complete(p, l)'
      BY <1>1, <2>2, OthersKept DEF Inv
    <3> QED  BY <1>3, <2>2, <3>3, <3>4
  <2> QED  BY <2>1, <2>2
<1>7. LibraryInv'
  BY <1>6 DEF LibraryInv
<1> QED  BY <1>2, <1>3, <1>5, <1>7

\* The ages of the libraries where packaging goes on.
LEMMA AgesGoOn ==
  ASSUME Inv, run # None, run.at \in BuildStages, NEW new \in OutputType, Output(new),
         run' # None, run'.job = job, run'.at \in Packaging,
         \A p \in Platforms, l \in Linkages : p # job.platform /\ Excused(p, l) => Excused(p, l)',
         \A l \in Linkages : l # job.linkage /\ new[l] = "old" => Excused(job.platform, l)',
         run'.edited \/ (Placed' /\ new[job.linkage] = "old") => <<job.platform, job.linkage>> \in blame'.mixed
  PROVE  AgeInv'
<1>1. job.platform \in Platforms /\ job.linkage \in Linkages /\ job' = job
  BY Building DEF job
<1>2. /\ out'[job.platform] = new
      /\ \A p \in Platforms : p # job.platform => out'[p] = out[p]
  BY OutputFacts DEF Inv
<1>3. ASSUME NEW p \in Platforms, NEW l \in Linkages, out'[p][l] = "old", out'[p].newest = "new"
      PROVE  Excused(p, l)' \/ Packing(p, l)'
  <2>1. CASE p # job.platform
    <3>1. ~Packing(p, l)
      BY <2>1 DEF Packing, job
    <3> QED  BY <1>2, <1>3, <2>1, <3>1 DEF Inv, AgeInv
  <2>2. CASE p = job.platform /\ l # job.linkage
    BY <1>1, <1>2, <1>3, <2>2
  <2>3. CASE p = job.platform /\ l = job.linkage
    BY <2>3 DEF Packing
  <2> QED  BY <2>1, <2>2, <2>3
<1>4. Mine' = new
  BY <1>1, <1>2 DEF Mine
<1> QED  BY <1>1, <1>3, <1>4 DEF AgeInv

\* And where it ends.
LEMMA AgesEnd ==
  ASSUME Inv, run # None, run.at \in Packaging, NEW new \in OutputType, Output(new),
         \A l \in Linkages : l # job.linkage => new[l] = Mine[l],
         new[job.linkage] = "old" => <<job.platform, job.linkage>> \in blame.mixed,
         Succeed, Packaged
  PROVE  AgeInv'
<1>1. job.platform \in Platforms /\ job.linkage \in Linkages
  BY Building DEF BuildStages
<1>2. /\ out'[job.platform] = new
      /\ \A p \in Platforms : p # job.platform => out'[p] = out[p]
  BY OutputFacts DEF Inv
<1>3. blame'.packaging = blame.packaging \ {<<job.platform, job.linkage>>} /\ blame'.mixed = blame.mixed
  BY DEF Inv, BlameTyped, BlameType, Packaged
<1>4. ASSUME NEW p \in Platforms, NEW l \in Linkages, out'[p][l] = "old", out'[p].newest = "new"
      PROVE  Excused(p, l)'
  <2>1. CASE p # job.platform
    <3>1. ~Packing(p, l)
      BY <2>1 DEF Packing, job
    <3>2. Excused(p, l)
      BY <1>2, <1>4, <2>1, <3>1 DEF Inv, AgeInv
    <3> QED  BY <1>3, <2>1, <3>2 DEF Excused
  <2>2. CASE p = job.platform /\ l # job.linkage
    <3>1. Excused(p, l)
      BY <1>2, <1>4, <2>2 DEF Inv, AgeInv
    <3> QED  BY <1>3, <2>2, <3>1 DEF Excused
  <2>3. CASE p = job.platform /\ l = job.linkage
    BY <1>2, <1>3, <1>4, <2>3 DEF Excused
  <2> QED  BY <2>1, <2>2, <2>3
<1>5. run' = None
  BY DEF Succeed, Return
<1> QED  BY <1>4, <1>5 DEF AgeInv

\* What the steps of a build have in common: they run, and write their own output.
BuildStep == Ninja \/ PostBuild \/ Bundle \/ IsolateSymbols \/ WriteLinkManifest

LEMMA NinjaKeeps ==
  ASSUME Inv, Ninja
  PROVE  OutTyped' /\ BlameTyped' /\ StageInv' /\ LibraryInv' /\ AgeInv' /\ InstalledIsComplete'
<1>1. run # None /\ run.at \in BuildStages
  BY DEF Ninja, At, BuildStages
<1>2. /\ run \in RunType /\ run.edited \in BOOLEAN /\ last = None
      /\ job.platform \in Platforms /\ job.linkage \in Linkages /\ Mine \in OutputType
      /\ blame \in BlameType
  BY <1>1, Building DEF Inv, BlameTyped
<1> DEFINE New(late) ==
             [Mine EXCEPT !.dynamic = IF job.linkage = "dynamic" THEN (IF late THEN "old" ELSE "new")
                                      ELSE Mine.dynamic,
                          !.newest = "new"]
           Behind(late) == {l \in Linkages : IF l = job.linkage THEN late ELSE Mine[l] = "old"}
           Among(late) == (blame.mixed \ {<<job.platform, job.linkage>>})
                            \cup {<<job.platform, l>> : l \in Behind(late)}
<1>3. PICK late \in {FALSE, run.edited} :
        /\ Output(New(late))
        /\ run' = [run EXCEPT !.at = "post", !.edited = late]
        /\ blame' = [blame EXCEPT !.mixed = Among(late)]
  BY DEF Ninja
<1>4. late \in BOOLEAN /\ UNCHANGED last
  BY <1>2 DEF Ninja
<1> DEFINE new == New(late)
           mixed == Among(late)
<1>5. /\ new \in OutputType
      /\ job.linkage = "dynamic" => new.dynamic = IF late THEN "old" ELSE "new"
      /\ \A l \in Linkages : l # job.linkage => new[l] = Mine[l]
      /\ new.dex = Mine.dex /\ new.isolated = Mine.isolated /\ new.manifest = Mine.manifest
  BY <1>2, <1>4 DEF OutputType, Ages, Linkages
<1>6. mixed \in SUBSET (Platforms \X Linkages)
  BY <1>2 DEF BlameType
<1>7. \A p \in Platforms, l \in Linkages :
        <<p, l>> \in mixed <=> IF p = job.platform
                                 THEN IF l = job.linkage THEN late ELSE <<p, l>> \in blame.mixed \/ Mine[l] = "old"
                                 ELSE <<p, l>> \in blame.mixed
  BY <1>2, <1>4
<1> HIDE DEF New, Among, new, mixed
<1>8. Output(new) /\ blame' = [blame EXCEPT !.mixed = mixed]
  BY <1>3 DEF new, mixed
<1>9. blame' \in BlameType /\ blame'.packaging = blame.packaging /\ blame'.mixed = mixed
  BY <1>2, <1>6, <1>8 DEF BlameType
<1>10. run' # None /\ run'.at = "post" /\ run'.job = job /\ run'.edited = late
  BY <1>2, <1>3, <1>4 DEF RunType, None, job
<1>11. OutTyped' /\ LibraryInv' /\ InstalledIsComplete'
  BY <1>1, <1>4, <1>5, <1>8, <1>9, <1>10, BuildGoesOn DEF Packaging
<1>12. out'[job.platform] = new
  BY <1>1, <1>5, <1>8, OutputFacts DEF Inv
<1>13. StageInv'
  BY <1>2, <1>4, <1>5, <1>10, <1>12 DEF StageInv, Mine, job
<1>14. AgeInv'
  <2>1. ASSUME NEW p \in Platforms, NEW l \in Linkages, p # job.platform, Excused(p, l)
        PROVE  Excused(p, l)'
    BY <1>7, <1>9, <2>1 DEF Excused
  <2>2. ASSUME NEW l \in Linkages, l # job.linkage, new[l] = "old"
        PROVE  Excused(job.platform, l)'
    <3>1. job' = job
      BY <1>10 DEF job
    <3>2. <<job.platform, l>> \in mixed
      BY <1>2, <1>5, <1>7, <2>2
    <3> QED  BY <1>9, <3>1, <3>2 DEF Excused
  <2>3. ASSUME run'.edited \/ (Placed' /\ new[job.linkage] = "old")
        PROVE  <<job.platform, job.linkage>> \in blame'.mixed
    <3>1. CASE run'.edited
      BY <1>2, <1>7, <1>9, <1>10, <3>1
    <3>2. CASE Placed' /\ new[job.linkage] = "old"
      <4>1. job.linkage = "dynamic"
        BY <1>10, <3>2 DEF Placed, job
      <4> QED  BY <1>2, <1>4, <1>5, <1>7, <1>9, <3>2, <4>1
    <3> QED  BY <2>3, <3>1, <3>2
  <2> QED  BY <1>1, <1>5, <1>8, <1>10, <2>1, <2>2, <2>3, AgesGoOn DEF Packaging
<1> QED  BY <1>9, <1>11, <1>13, <1>14 DEF BlameTyped

LEMMA BuildKeeps ==
  ASSUME Inv, BuildStep
  PROVE  OutTyped' /\ BlameTyped' /\ StageInv' /\ LibraryInv' /\ AgeInv' /\ InstalledIsComplete'
<1> SUFFICES ASSUME ~Ninja
             PROVE  OutTyped' /\ BlameTyped' /\ StageInv' /\ LibraryInv' /\ AgeInv' /\ InstalledIsComplete'
  BY NinjaKeeps
<1>1. run # None /\ run.at \in BuildStages /\ run.at \in Packaging
  BY DEF BuildStep, PostBuild, Bundle, IsolateSymbols, WriteLinkManifest, At, BuildStages, Packaging
<1>2. /\ run \in RunType /\ run.edited \in BOOLEAN /\ last = None
      /\ job.platform \in Platforms /\ job.linkage \in Linkages /\ Mine \in OutputType
  BY <1>1, Building
<1>3. ASSUME NEW new \in OutputType, Output(new)
      PROVE  OutTyped' /\ out'[job.platform] = new
  BY <1>1, <1>3, OutputFacts DEF Inv
<1>4. ASSUME NEW stage \in Stages, Go(stage)
      PROVE  /\ run' # None /\ run'.at = stage /\ run'.job = job /\ run'.edited = run.edited
             /\ UNCHANGED last
  BY <1>2, <1>4, Advance, RunFacts DEF Go, job
<1>5. ASSUME UNCHANGED blame
      PROVE  /\ BlameTyped' /\ blame'.packaging = blame.packaging
             /\ \A p \in Platforms, l \in Linkages : Excused(p, l) => Excused(p, l)'
  BY <1>5 DEF Inv, BlameTyped, Excused
<1>11. /\ \A l \in Linkages : l # job.linkage /\ Mine[l] = "old" => Excused(job.platform, l)
       /\ run.edited => <<job.platform, job.linkage>> \in blame.mixed
       /\ Placed /\ Mine[job.linkage] = "old" => <<job.platform, job.linkage>> \in blame.mixed
  BY <1>1 DEF Inv, AgeInv
<1>12. ASSUME NEW new \in OutputType, Output(new), NEW stage \in Packaging, Go(stage), UNCHANGED blame,
             \A l \in Linkages : l # job.linkage => new[l] = Mine[l],
             Placed' /\ new[job.linkage] = "old" => <<job.platform, job.linkage>> \in blame.mixed
      PROVE  AgeInv'
  <2>1. run' # None /\ run'.at = stage /\ run'.job = job /\ run'.edited = run.edited
    BY <1>4, <1>12 DEF Packaging, Stages
  <2>2. \A l \in Linkages : l # job.linkage /\ new[l] = "old" => Excused(job.platform, l)'
    <3>1. job' = job
      BY <2>1 DEF job
    <3> QED  BY <1>2, <1>5, <1>11, <1>12, <3>1
  <2>3. run'.edited \/ (Placed' /\ new[job.linkage] = "old") => <<job.platform, job.linkage>> \in blame'.mixed
    BY <1>12, <1>11, <2>1
  <2> QED  BY <1>1, <1>5, <1>12, <2>1, <2>2, <2>3, AgesGoOn
<1>6. CASE PostBuild
  <2> DEFINE dex == job.platform = "android" /\ ~Mine.dex
             new == IF dex THEN [Mine EXCEPT !.dex = TRUE, !.newest = "new"] ELSE Mine
  <2>1. /\ new \in OutputType
        /\ new.dynamic = Mine.dynamic /\ new.static = Mine.static
        /\ new.isolated = Mine.isolated /\ new.manifest = Mine.manifest
        /\ Mine.dex => new.dex
        /\ job.platform = "android" => new.dex
    BY <1>2 DEF OutputType, Ages
  <2>2. Output(new) /\ run.at = "post"
    BY <1>6 DEF PostBuild, At
  <2>3. \A l \in Linkages : new[l] = Mine[l]
    BY <2>1 DEF Linkages
  <2> HIDE DEF new
  <2>4. out'[job.platform] = new
    BY <1>3, <2>1, <2>2
  <2>5. CASE job.linkage = "static"
    <3>1. Go("bundle") /\ UNCHANGED blame
      BY <1>6, <2>5 DEF PostBuild
    <3>2. run' # None /\ run'.at = "bundle" /\ run'.job = job /\ UNCHANGED last
      BY <1>4, <3>1 DEF Stages
    <3>3. OutTyped' /\ BlameTyped' /\ LibraryInv' /\ InstalledIsComplete'
      BY <1>1, <1>5, <2>1, <2>2, <2>3, <2>5, <3>1, <3>2, BuildGoesOn DEF Packaging
    <3>4. StageInv'
      BY <1>2, <2>1, <2>4, <2>5, <3>2 DEF StageInv, Mine, job
    <3>5. ~Placed'
      BY <2>5, <3>2 DEF Placed, job
    <3>6. AgeInv'
      BY <1>12, <2>1, <2>2, <2>3, <3>1, <3>5 DEF Packaging
    <3> QED  BY <3>3, <3>4, <3>6
  <2>6. CASE job.linkage = "dynamic"
    <3>1. Succeed /\ Packaged
      BY <1>6, <2>6 DEF PostBuild
    <3>2. Mine.dynamic # "none" /\ Placed
      BY <1>1, <2>2, <2>6 DEF Inv, StageInv, Placed
    <3>3. /\ new[job.linkage] # "none"
          /\ new[job.linkage] = "old" => <<job.platform, job.linkage>> \in blame.mixed
      BY <1>11, <2>1, <2>6, <3>2
    <3>4. OutTyped' /\ BlameTyped' /\ LibraryInv' /\ InstalledIsComplete'
      BY <1>1, <2>1, <2>2, <2>3, <2>6, <3>1, <3>3, BuildEnds
    <3>5. AgeInv'
      BY <1>1, <2>1, <2>2, <2>3, <3>1, <3>3, AgesEnd
    <3> QED  BY <3>1, <3>4, <3>5 DEF Succeed, Return, StageInv
  <2> QED  BY <1>2, <2>5, <2>6 DEF Linkages
<1>7. CASE Bundle
  <2> DEFINE new == [Mine EXCEPT !.static = IF run.edited THEN "old" ELSE "new",
                                 !.isolated = FALSE, !.newest = "new"]
  <2>1. run.at = "bundle" /\ job.linkage = "static" /\ (job.platform = "android" => Mine.dex)
    BY <1>1, <1>7 DEF Bundle, At, Inv, StageInv
  <2>2. (IF run.edited THEN "old" ELSE "new") \in Ages
    BY <1>2 DEF Ages
  <2>3. /\ new \in OutputType
        /\ new.static = IF run.edited THEN "old" ELSE "new"
        /\ new.dynamic = Mine.dynamic /\ new.dex = Mine.dex
    BY <1>2, <2>2 DEF OutputType, Ages
  <2>4. Output(new) /\ Go("objcopy") /\ UNCHANGED blame
    BY <1>7 DEF Bundle
  <2> HIDE DEF new
  <2>5. run' # None /\ run'.at = "objcopy" /\ run'.job = job /\ UNCHANGED last
    BY <1>4, <2>4 DEF Stages
  <2>6. \A l \in Linkages : l # job.linkage => new[l] = Mine[l]
    BY <2>1, <2>3 DEF Linkages
  <2>7. OutTyped' /\ BlameTyped' /\ LibraryInv' /\ InstalledIsComplete'
    BY <1>1, <1>5, <2>1, <2>3, <2>4, <2>5, <2>6, BuildGoesOn DEF Packaging
  <2>8. out'[job.platform] = new
    BY <1>3, <2>3, <2>4
  <2>9. new.static # "none" /\ (new.static = "old" => run.edited)
    BY <1>2, <2>3
  <2>10. StageInv'
    BY <1>2, <2>1, <2>3, <2>5, <2>8, <2>9 DEF StageInv, Mine, job
  <2>11. AgeInv'
    BY <1>12, <1>11, <2>1, <2>3, <2>4, <2>6, <2>9 DEF Packaging
  <2> QED  BY <2>7, <2>10, <2>11
<1>8. CASE IsolateSymbols
  <2> DEFINE new == [Mine EXCEPT !.isolated = TRUE, !.newest = "new"]
  <2>1. /\ run.at = "objcopy" /\ job.linkage = "static" /\ Mine.static # "none" /\ Placed
        /\ job.platform = "android" => Mine.dex
    BY <1>1, <1>8 DEF IsolateSymbols, At, Inv, StageInv, Placed
  <2>2. /\ new \in OutputType /\ new.isolated = TRUE
        /\ new.static = Mine.static /\ new.dynamic = Mine.dynamic /\ new.dex = Mine.dex
    BY <1>2 DEF OutputType, Ages
  <2>3. Output(new) /\ Go("link manifest") /\ UNCHANGED blame
    BY <1>8 DEF IsolateSymbols
  <2> HIDE DEF new
  <2>4. run' # None /\ run'.at = "link manifest" /\ run'.job = job /\ UNCHANGED last
    BY <1>4, <2>3 DEF Stages
  <2>5. \A l \in Linkages : l # job.linkage => new[l] = Mine[l]
    BY <2>1, <2>2 DEF Linkages
  <2>6. OutTyped' /\ BlameTyped' /\ LibraryInv' /\ InstalledIsComplete'
    BY <1>1, <1>5, <2>1, <2>2, <2>3, <2>4, <2>5, BuildGoesOn DEF Packaging
  <2>7. out'[job.platform] = new
    BY <1>3, <2>2, <2>3
  <2>8. StageInv'
    BY <1>2, <2>1, <2>2, <2>4, <2>7 DEF StageInv, Mine, job
  <2>9. AgeInv'
    BY <1>12, <1>11, <2>1, <2>2, <2>3, <2>5 DEF Packaging
  <2> QED  BY <2>6, <2>8, <2>9
<1>9. CASE WriteLinkManifest
  <2> DEFINE new == [Mine EXCEPT !.manifest = TRUE, !.newest = IF Mine.manifest THEN @ ELSE "new"]
  <2>1. /\ run.at = "link manifest" /\ job.linkage = "static" /\ Mine.isolated
        /\ job.platform = "android" => Mine.dex
        /\ Mine.static # "none" /\ Placed
    BY <1>1, <1>9 DEF WriteLinkManifest, At, Inv, StageInv, Placed
  <2>2. (IF Mine.manifest THEN Mine.newest ELSE "new") \in Ages
    BY <1>2 DEF OutputType, Ages
  <2>3. /\ new \in OutputType /\ new.manifest = TRUE /\ new.isolated = Mine.isolated
        /\ new.static = Mine.static /\ new.dynamic = Mine.dynamic /\ new.dex = Mine.dex
    BY <1>2, <2>2 DEF OutputType
  <2>4. Output(new) /\ Succeed /\ Packaged
    BY <1>9 DEF WriteLinkManifest
  <2> HIDE DEF new
  <2>5. \A l \in Linkages : l # job.linkage => new[l] = Mine[l]
    BY <2>1, <2>3 DEF Linkages
  <2>6. new[job.linkage] = "old" => <<job.platform, job.linkage>> \in blame.mixed
    BY <1>11, <2>1, <2>3
  <2>7. OutTyped' /\ BlameTyped' /\ LibraryInv' /\ InstalledIsComplete'
    BY <1>1, <2>1, <2>3, <2>4, <2>5, <2>6, BuildEnds
  <2>8. AgeInv'
    BY <1>1, <2>3, <2>4, <2>5, <2>6, AgesEnd
  <2> QED  BY <2>4, <2>7, <2>8 DEF Succeed, Return, StageInv
<1> QED  BY <1>6, <1>7, <1>8, <1>9 DEF BuildStep

\* A step that fails or is killed: a library that is being packaged is blamed.
LEMMA MishapKeeps ==
  ASSUME Inv, Fail \/ Kill
  PROVE  OutTyped' /\ BlameTyped' /\ StageInv' /\ LibraryInv' /\ AgeInv' /\ InstalledIsComplete'
<1>1. run # None /\ run' = None /\ (last' = None \/ ~last'.ok)
  BY DEF Fail, Kill, Return
<1>2. /\ run \in RunType /\ job \in Jobs /\ job.platform \in Platforms
      /\ Builds(job) => job.linkage \in Linkages
  BY <1>1, Running DEF Inv
<1>3. StageInv' /\ InstalledIsComplete'
  BY <1>1, NoPromise DEF StageInv
<1>4. run.at \in Packaging => Builds(job)
  BY <1>1 DEF Inv, KindInv, BuildStages
<1>5. /\ BlameTyped'
      /\ blame.packaging \subseteq blame'.packaging /\ blame'.mixed = blame.mixed
      /\ run.at \in Packaging => <<job.platform, job.linkage>> \in blame'.packaging
  <2>1. /\ blame \in BlameType
        /\ run.reapply \in BOOLEAN
    BY <1>2, RunFacts DEF Inv, BlameTyped
  <2> USE DEF BlameType
  <2> DEFINE packaging == IF run.at \in Packaging
                            THEN blame.packaging \cup {<<job.platform, job.linkage>>}
                            ELSE blame.packaging
             reapply == blame.reapply \/ (run.at \in {"fetch", "reapply"} /\ run.reapply /\ disk.pinned)
  <2>2. /\ packaging \subseteq Platforms \X Linkages
        /\ blame.packaging \subseteq packaging
        /\ run.at \in Packaging => <<job.platform, job.linkage>> \in packaging
    BY <1>2, <1>4, <2>1
  <2>3. reapply \in BOOLEAN
    OBVIOUS
  <2>4. Blamed = [blame EXCEPT !.packaging = packaging, !.reapply = reapply]
    BY <2>1 DEF Blamed
  <2> HIDE DEF packaging, reapply
  <2>5. /\ Blamed \in BlameType
        /\ Blamed.packaging = packaging /\ Blamed.mixed = blame.mixed
    BY <2>1, <2>2, <2>3, <2>4
  <2>6. CASE Fail
    BY <2>2, <2>5, <2>6 DEF Fail, BlameTyped
  <2>7. CASE Kill
    <3> DEFINE torn == Blamed.view \/ Torn(view')
    <3>1. blame' = [Blamed EXCEPT !.view = torn]
      BY <2>5, <2>7 DEF Kill
    <3>2. torn \in BOOLEAN
      OBVIOUS
    <3> HIDE DEF torn
    <3> QED  BY <2>2, <2>5, <3>1, <3>2 DEF BlameTyped
  <2> QED  BY <2>6, <2>7
<1>6. /\ OutTyped'
      /\ \A p \in Platforms, l \in Linkages : out'[p][l] # "none" =>
           out[p][l] = out'[p][l] /\ (Complete(p, l) => Complete(p, l)')
      /\ \A p \in Platforms : out'[p].newest = out[p].newest
  <2>1. CASE Fail
    BY <2>1 DEF Fail, Inv, OutTyped, Complete
  <2>2. CASE Kill
    <3>1. PICK o \in HalfBundled(Mine) : out' = [out EXCEPT ![job.platform] = o]
      BY <2>2 DEF Kill, Mine
    <3>2. Mine \in OutputType
      BY <1>2 DEF Inv, OutTyped, Mine
    <3>3. CASE o = Mine
      <4>1. out' = out
        BY <1>2, <3>1, <3>3 DEF Mine, Inv, OutTyped
      <4> QED  BY <4>1 DEF Inv, OutTyped, Complete
    <3>4. CASE o = [Mine EXCEPT !.static = "none", !.isolated = FALSE]
      <4>1. /\ o \in OutputType /\ o.static = "none" /\ o.newest = Mine.newest
            /\ o.dynamic = Mine.dynamic /\ o.dex = Mine.dex
        BY <3>2, <3>4 DEF OutputType, Ages
      <4>2. /\ OutTyped' /\ out'[job.platform] = o
            /\ \A p \in Platforms : p # job.platform => out'[p] = out[p]
        BY <1>2, <3>1, <4>1 DEF Inv, OutTyped
      <4>3. ASSUME NEW p \in Platforms, NEW l \in Linkages, out'[p][l] # "none"
            PROVE  out[p][l] = out'[p][l] /\ (Complete(p, l) => Complete(p, l)')
        <5>1. CASE p = job.platform
          <6>1. l = "dynamic"
            BY <4>1, <4>2, <4>3, <5>1 DEF Linkages
          <6> QED  BY <4>1, <4>2, <4>3, <5>1, <6>1 DEF Complete, Mine
        <5>2. CASE p # job.platform
          BY <4>2, <4>3, <5>2 DEF Complete
        <5> QED  BY <5>1, <5>2
      <4>4. \A p \in Platforms : out'[p].newest = out[p].newest
        BY <4>1, <4>2 DEF Mine
      <4> QED  BY <4>2, <4>3, <4>4
    <3> QED  BY <3>1, <3>3, <3>4 DEF HalfBundled
  <2> QED  BY <2>1, <2>2
<1>7. LibraryInv'
  <2> SUFFICES ASSUME NEW p \in Platforms, NEW l \in Linkages, out'[p][l] # "none"
               PROVE  Complete(p, l)' \/ <<p, l>> \in blame'.packaging
    BY DEF LibraryInv
  <2>1. Complete(p, l) \/ <<p, l>> \in blame.packaging \/ Packing(p, l)
    BY <1>6 DEF Inv, LibraryInv
  <2>2. Packing(p, l) => <<p, l>> \in blame'.packaging
    BY <1>5 DEF Packing, job
  <2> QED  BY <1>5, <1>6, <2>1, <2>2
<1>8. AgeInv'
  <2>1. ASSUME NEW p \in Platforms, NEW l \in Linkages, out'[p][l] = "old", out'[p].newest = "new"
        PROVE  Excused(p, l)'
    <3>1. Excused(p, l) \/ Packing(p, l)
      BY <1>6, <2>1 DEF Inv, AgeInv
    <3>2. Packing(p, l) => <<p, l>> \in blame'.packaging
      BY <1>5 DEF Packing, job
    <3> QED  BY <1>5, <3>1, <3>2 DEF Excused
  <2> QED  BY <1>1, <2>1 DEF AgeInv
<1> QED  BY <1>3, <1>5, <1>6, <1>7, <1>8

\* A library grows old and is none the less complete; one that is being packaged is
\* known to be old among newer files.
LEMMA EditKeeps ==
  ASSUME Inv, EditWrapper
  PROVE  RunTyped' /\ KindInv' /\ OutTyped' /\ BlameTyped' /\ StageInv' /\ LibraryInv'
           /\ AgeInv' /\ InstalledIsComplete'
<1> DEFINE Age(a) == IF a = "new" THEN "old" ELSE a
           Aged(o) == [o EXCEPT !.dynamic = Age(@), !.static = Age(@), !.newest = Age(@)]
           late == IF run # None /\ run.at \in Packaging THEN {job.platform} \X Linkages ELSE {}
           mixed == blame.mixed \cup late
<1>1. /\ out' = [p \in Platforms |-> Aged(out[p])]
      /\ last' = None /\ blame' = [blame EXCEPT !.mixed = mixed]
      /\ run' = IF run = None THEN run ELSE [run EXCEPT !.edited = TRUE]
  BY DEF EditWrapper
<1>2. ASSUME NEW o \in OutputType
      PROVE  /\ Aged(o) \in OutputType
             /\ \A l \in Linkages : Aged(o)[l] = Age(o[l])
             /\ Aged(o).isolated = o.isolated /\ Aged(o).manifest = o.manifest
             /\ Aged(o).dex = o.dex /\ Aged(o).newest # "new"
  BY DEF OutputType, Ages, Linkages
<1> HIDE DEF Age, Aged
<1>3. /\ OutTyped'
      /\ \A p \in Platforms :
           /\ \A l \in Linkages : out'[p][l] = Age(out[p][l])
           /\ out'[p].isolated = out[p].isolated /\ out'[p].manifest = out[p].manifest
           /\ out'[p].dex = out[p].dex /\ out'[p].newest # "new"
  <2>1. \A p \in Platforms : out[p] \in OutputType /\ out'[p] = Aged(out[p])
    BY <1>1 DEF Inv, OutTyped
  <2>2. \A p \in Platforms : Aged(out[p]) \in OutputType
    BY <2>1, <1>2
  <2>3. OutTyped'
    BY <1>1, <2>2 DEF OutTyped
  <2>4. ASSUME NEW p \in Platforms
        PROVE  /\ \A l \in Linkages : out'[p][l] = Age(out[p][l])
               /\ out'[p].isolated = out[p].isolated /\ out'[p].manifest = out[p].manifest
               /\ out'[p].dex = out[p].dex /\ out'[p].newest # "new"
    BY <2>1, <1>2
  <2> QED  BY <2>3, <2>4
<1> USE DEF Age
<1>4. /\ run' # None => run # None
      /\ run # None => /\ run' \in RunType /\ run'.job = run.job /\ run'.at = run.at
                       /\ run'.edited = TRUE
  <2>1. CASE run = None
    BY <1>1, <2>1
  <2>2. CASE run # None
    <3>1. run \in RunType /\ run' = [run EXCEPT !.edited = TRUE]
      BY <1>1, <2>2, Running DEF Inv
    <3> QED  BY <2>2, <3>1 DEF RunType
  <2> QED  BY <2>1, <2>2
<1>5. RunTyped' /\ KindInv'
  BY <1>1, <1>4 DEF Inv, RunTyped, KindInv, job, Builds
<1>6. /\ BlameTyped' /\ InstalledIsComplete'
      /\ blame'.packaging = blame.packaging /\ blame.mixed \subseteq blame'.mixed
      /\ run # None /\ run.at \in Packaging =>
           \A l \in Linkages : <<job.platform, l>> \in blame'.mixed
  <2>1. run # None => job.platform \in Platforms
    BY Running DEF Inv
  <2>2. blame \in BlameType /\ mixed \in SUBSET (Platforms \X Linkages)
    BY <2>1 DEF Inv, BlameTyped, BlameType
  <2>3. run # None /\ run.at \in Packaging => \A l \in Linkages : <<job.platform, l>> \in mixed
    OBVIOUS
  <2>4. blame.mixed \subseteq mixed
    OBVIOUS
  <2> HIDE DEF mixed
  <2>5. blame' \in BlameType /\ blame'.mixed = mixed /\ blame'.packaging = blame.packaging
    BY <1>1, <2>2 DEF BlameType
  <2> QED  BY <1>1, <2>3, <2>4, <2>5, NoPromise DEF BlameTyped
<1> HIDE DEF mixed, late
<1>7. ASSUME NEW p \in Platforms, NEW l \in Linkages
      PROVE  /\ out'[p][l] # "none" => out[p][l] # "none"
             /\ Complete(p, l) => Complete(p, l)'
             /\ Packing(p, l) => Packing(p, l)'
  BY <1>3, <1>4, RunFacts DEF Complete, Packing
<1>8. LibraryInv'
  BY <1>6, <1>7 DEF Inv, LibraryInv
<1>10. AgeInv'
  <2>1. \A p \in Platforms : out'[p].newest # "new"
    BY <1>3
  <2>2. ASSUME run' # None, run'.at \in Packaging
        PROVE  \A l \in Linkages : <<job'.platform, l>> \in blame'.mixed
    BY <1>4, <1>6, <2>2 DEF job
  <2>3. run' # None /\ run'.at \in Packaging => job'.linkage \in Linkages
    <3>1. run # None => RunTyped /\ (Builds(job) => job.linkage \in Linkages)
      BY Running DEF Inv
    <3>2. run # None /\ run.at \in Packaging => Builds(job)
      BY DEF Inv, KindInv, BuildStages
    <3> QED  BY <1>4, <3>1, <3>2 DEF job
  <2> QED  BY <2>1, <2>2, <2>3 DEF AgeInv, Excused
<1>9. StageInv'
  <2> SUFFICES ASSUME run' # None
               PROVE  StageInv'
    BY DEF StageInv
  <2>1. run # None /\ job' = job /\ job.platform \in Platforms
    BY <1>4, Running DEF Inv, job
  <2>2. /\ \A l \in Linkages : Mine'[l] = Age(Mine[l])
        /\ Mine'.isolated = Mine.isolated /\ Mine'.dex = Mine.dex
    BY <1>3, <2>1 DEF Mine
  <2>3. "dynamic" \in Linkages /\ "static" \in Linkages
    BY DEF Linkages
  <2> QED  BY <1>1, <1>4, <2>1, <2>2, <2>3 DEF Inv, StageInv
<1> QED  BY <1>3, <1>5, <1>6, <1>8, <1>9, <1>10

\* A process asks for the lock, or gets it.
LEMMA LockKeeps ==
  ASSUME Inv, NEW b \in Builders, Ask(b) \/ \E j \in Jobs : Acquire(b, j)
  PROVE  Inv'
<1>1. CASE Ask(b)
  BY <1>1, Untouched DEF Ask, ends
<1>2. ASSUME NEW j \in Jobs, Acquire(b, j)
      PROVE  Inv'
  <2>1. /\ run = None /\ last' = None /\ UNCHANGED <<out, blame>>
        /\ run' = [kind |-> "run", by |-> b, job |-> j, at |-> FirstStage(j), op |-> 1,
                   reapply |-> FALSE, edited |-> FALSE]
    BY <1>2 DEF Acquire, ends
  <2>2. /\ FirstStage(j) \in {"check", "init", "require"}
        /\ FirstStage(j) = "require" => j.kind = "build"
        /\ FirstStage(j) # "require" => j.kind # "build"
        /\ FirstStage(j) = "check" => j.kind \in {"ensure", "vendor"}
    BY JobFacts DEF FirstStage
  <2>3. run' \in RunType /\ run'.job = j /\ run'.at = FirstStage(j)
    BY <2>1, <2>2 DEF RunType, Stages
  <2>4. RunTyped' /\ OutTyped' /\ BlameTyped' /\ InstalledIsComplete'
    BY <2>1, <2>3, NoPromise DEF Inv, RunTyped, OutTyped, BlameTyped
  <2>5. KindInv'
    BY <2>2, <2>3 DEF KindInv, BuildStages, SyncStages, Packaging, Builds, job
  <2>6. StageInv'
    BY <2>1, <2>2, <2>3 DEF StageInv
  <2>7. LibraryInv'
    BY <2>1 DEF Inv, LibraryInv, Complete, Packing
  <2>8. run'.at \notin Packaging
    BY <2>2, <2>3 DEF Packaging
  <2>9. AgeInv'
    BY <2>1, <2>8 DEF Inv, AgeInv, Excused, Packing
  <2> QED  BY <2>4, <2>5, <2>6, <2>7, <2>9 DEF Inv
<1> QED  BY <1>1, <1>2

LEMMA Begins == Init => Inv
<1> SUFFICES ASSUME Init
             PROVE  Inv
  OBVIOUS
<1>1. RunTyped /\ KindInv /\ StageInv /\ InstalledIsComplete
  BY DEF Init, RunTyped, KindInv, StageInv, InstalledIsComplete
<1>2. NoOutput \in OutputType /\ \A l \in Linkages : NoOutput[l] = "none"
  BY DEF NoOutput, OutputType, Ages, Linkages
<1>3. OutTyped /\ LibraryInv /\ AgeInv
  BY <1>2 DEF Init, OutTyped, LibraryInv, AgeInv
<1>4. BlameTyped
  BY DEF Init, BlameTyped, BlameType
<1> QED  BY <1>1, <1>3, <1>4 DEF Inv

LEMMA Invariance == Spec => []Inv
<1>1. Inv /\ [Next]_vars => Inv'
  <2> SUFFICES ASSUME Inv, [Next]_vars
               PROVE  Inv'
    OBVIOUS
  <2>1. CASE QuietStep
    <3>1. KindInv' /\ RunTyped'
      BY <2>1, Continuing DEF QuietStep, Continues, Inv, RunTyped
    <3> QED  BY <2>1, <3>1, QuietKeeps, QuietReports DEF Inv
  <2>2. CASE BuildStep
    <3>1. KindInv' /\ RunTyped'
      BY <2>2, Continuing DEF BuildStep, Continues, Inv, RunTyped
    <3> QED  BY <2>2, <3>1, BuildKeeps DEF Inv
  <2>3. CASE Fail \/ Kill
    <3>1. KindInv' /\ RunTyped'
      BY <2>3, Continuing DEF Continues, Inv, RunTyped
    <3> QED  BY <2>3, <3>1, MishapKeeps DEF Inv
  <2>4. CASE EditWrapper
    BY <2>4, EditKeeps DEF Inv
  <2>5. CASE \E b \in Builders : Ask(b) \/ \E j \in Jobs : Acquire(b, j)
    BY <2>5, LockKeeps
  <2>6. CASE UNCHANGED vars
    BY <2>6, Untouched DEF vars
  <2> QED  BY <2>1, <2>2, <2>3, <2>4, <2>5, <2>6 DEF Next, QuietStep, BuildStep
<1> QED  BY <1>1, Begins, PTL DEF Spec

-----------------------------------------------------------------------------
(* Tables of the view: what a build of each platform may find and leave at *)
(* a place.  The plans themselves are those of SourceOverlay; the tables   *)
(* are checked against them, operation by operation.                       *)

Fixed == {"base", "pa", "cronet_rs"}
Linked == {"config", "compiler"}

\* What may be at a place of any view, a torn one as well.
Tolerated ==
  [p \in Places |-> IF p \in Fixed THEN {"absent", "dir"}
                    ELSE IF p \in Linked THEN {"absent", "source", "dir"}
                    ELSE IF p = "base_gn" THEN {"absent", "filtered"}
                    ELSE IF p = "pa_gn" THEN {"absent", "filtered", "ohos"}
                    ELSE Nodes \ {"dir"}]

\* The operation of its plan from which on a directory is one, whatever was there.
Opens ==
  [host    |-> [base |-> 2, pa |-> 4, cronet_rs |-> 7, config |-> 99, compiler |-> 99],
   android |-> [base |-> 2, pa |-> 4, cronet_rs |-> 7, config |-> 15, compiler |-> 21],
   ohos    |-> [base |-> 2, pa |-> 4, cronet_rs |-> 7, config |-> 15, compiler |-> 18]]

\* What a build leaves at each place.
Final ==
  [host    |-> [root |-> "common", base |-> "dir", config |-> "source", cronet_rs |-> "dir",
                base_gn |-> "filtered", scoped |-> "source", scoped_upstream |-> "absent", pa |-> "dir",
                pa_gn |-> "filtered", args |-> "absent", buildconfig |-> "absent", compiler |-> "absent",
                compiler_gn |-> "absent", native_gn |-> "native"],
   android |-> [root |-> "android", base |-> "dir", config |-> "dir", cronet_rs |-> "dir",
                base_gn |-> "filtered", scoped |-> "source", scoped_upstream |-> "absent", pa |-> "dir",
                pa_gn |-> "filtered", args |-> "android", buildconfig |-> "android", compiler |-> "dir",
                compiler_gn |-> "android", native_gn |-> "native"],
   ohos    |-> [root |-> "common", base |-> "dir", config |-> "dir", cronet_rs |-> "dir",
                base_gn |-> "filtered", scoped |-> "ohos", scoped_upstream |-> "wrapped", pa |-> "dir",
                pa_gn |-> "ohos", args |-> "source", buildconfig |-> "ohos", compiler |-> "dir",
                compiler_gn |-> "ohos", native_gn |-> "native"]]

\* The operation that leaves it there, 0 if none does.
Settles ==
  [host    |-> [root |-> 11, base |-> 2, config |-> 1, cronet_rs |-> 7, base_gn |-> 6, scoped |-> 3,
                scoped_upstream |-> 0, pa |-> 4, pa_gn |-> 5, args |-> 0, buildconfig |-> 0, compiler |-> 0,
                compiler_gn |-> 0, native_gn |-> 8],
   android |-> [root |-> 14, base |-> 2, config |-> 15, cronet_rs |-> 7, base_gn |-> 6, scoped |-> 3,
                scoped_upstream |-> 0, pa |-> 4, pa_gn |-> 5, args |-> 17, buildconfig |-> 20,
                compiler |-> 21, compiler_gn |-> 23, native_gn |-> 8],
   ohos    |-> [root |-> 11, base |-> 2, config |-> 15, cronet_rs |-> 7, base_gn |-> 6, scoped |-> 23,
                scoped_upstream |-> 26, pa |-> 4, pa_gn |-> 14, args |-> 15, buildconfig |-> 17,
                compiler |-> 18, compiler_gn |-> 20, native_gn |-> 8]]

\* What else may be at a place of a view that is made for a platform.
Before ==
  [host    |-> [root |-> {"common"}, base |-> {}, config |-> {"source"}, cronet_rs |-> {}, base_gn |-> {},
                scoped |-> {"source"}, scoped_upstream |-> {}, pa |-> {}, pa_gn |-> {"filtered"},
                args |-> {}, buildconfig |-> {}, compiler |-> {}, compiler_gn |-> {}, native_gn |-> {}],
   android |-> [root |-> {"common"}, base |-> {}, config |-> {"source"}, cronet_rs |-> {}, base_gn |-> {},
                scoped |-> {"source"}, scoped_upstream |-> {}, pa |-> {}, pa_gn |-> {"filtered"},
                args |-> {"source"}, buildconfig |-> {"source"}, compiler |-> {"source"},
                compiler_gn |-> {}, native_gn |-> {}],
   ohos    |-> [root |-> {"common"}, base |-> {}, config |-> {"source"}, cronet_rs |-> {}, base_gn |-> {},
                scoped |-> {"source"}, scoped_upstream |-> {}, pa |-> {}, pa_gn |-> {"filtered"},
                args |-> {"source"}, buildconfig |-> {"source"}, compiler |-> {"source"},
                compiler_gn |-> {}, native_gn |-> {}]]

Allowed(m, p) == {"absent", Final[m][p]} \cup Before[m][p]

\* The nodes of a view before operation k of a build of m.
Sound(nodes) == nodes \in [Places -> Nodes] /\ \A p \in Places : nodes[p] \in Tolerated[p]
Opened(m, k, nodes) == \A d \in Directories : k > Opens[m][d] => nodes[d] = "dir"
Shaped(m, nodes) ==
  /\ \A p \in Places : nodes[p] \in Allowed(m, p)
  /\ m = "ohos" /\ nodes["config"] = "dir" => nodes["args"] = "source"
Settled(m, k, nodes) == \A p \in Places : k > Settles[m][p] => Final[m][p] = nodes[p]

\* The operation that puts one node, and what it puts, given what is there.
Result(op, node) ==
  CASE op.do = "link"      -> IF node = "dir" THEN node ELSE op.to
    [] op.do = "directory" -> "dir"
    [] op.do = "clear"     -> "absent"
    [] op.do = "write"     -> IF node \in Links THEN node ELSE "filtered"

PutFits(m, k, op) ==
  /\ op.do \in {"link", "directory", "clear", "write"} /\ op.at \in Places
  /\ op.do = "link" => op.to \in Links
  /\ op.do = "write" => \A node \in Tolerated[op.at] \cap Links : node = "ohos" /\ op.at = "pa_gn"
  /\ \A a \in Above[op.at] : a \in Fixed \/ k > Opens[m][a]
  /\ \A d \in Directories : Opens[m][d] = k => d = op.at /\ op.do = "directory"
  /\ op.at \in Directories => k =< Opens[m][op.at]
  /\ \A node \in Tolerated[op.at] : Result(op, node) \in Tolerated[op.at]
  /\ \A p \in Places : Settles[m][p] = k => p = op.at
  /\ k =< Settles[m][op.at]
  /\ \A node \in Allowed(m, op.at) :
       /\ Result(op, node) \in Allowed(m, op.at)
       /\ Settles[m][op.at] = k => Result(op, node) = Final[m][op.at]
  /\ op.at = "args" => m # "ohos"
  /\ op.at = "config" => op.do = "link" /\ op.to # "dir"

MaterializeFits(m, k, op) ==
  /\ op.do = "materialize" /\ op.at \in Places
  /\ \/ /\ Up[op.at] = "/" \/ k > Opens[m][Up[op.at]]
        /\ \A d \in Directories : Opens[m][d] # k
        /\ \A p \in Places : Settles[m][p] # k
     \/ /\ Up[op.at] = "config" /\ m # "host"
        /\ op.at # "args" \/ m # "ohos"
        /\ k = 15
     \/ /\ Up[op.at] = "compiler" /\ m # "host"
        /\ k = Opens[m]["compiler"]

OpType == [do : {"link", "directory", "clear", "write", "materialize"}, at : Places, to : Nodes]

\* s is n operations that may stand in the plan of m from operation k on.
Piece(m, k, s, n) ==
  /\ s \in Seq(OpType) /\ Len(s) = n
  /\ \A i \in 1..n : PutFits(m, k + (i - 1), s[i]) \/ MaterializeFits(m, k + (i - 1), s[i])

-----------------------------------------------------------------------------
(* The plans, checked against the tables.                                   *)

LEMMA Concatenated ==
  ASSUME NEW s \in Seq(OpType), NEW t \in Seq(OpType), NEW i \in Nat
  PROVE  /\ s \o t \in Seq(OpType) /\ Len(s \o t) = Len(s) + Len(t)
         /\ i \in 1..Len(s) => (s \o t)[i] = s[i]
         /\ i > Len(s) /\ i =< Len(s) + Len(t) => (s \o t)[i] = t[i - Len(s)]
<1>1. s \o t \in Seq(OpType)
  OBVIOUS
<1>2. Len(s \o t) = Len(s) + Len(t)
  OBVIOUS
<1>3. i \in 1..Len(s) => (s \o t)[i] = s[i]
  OBVIOUS
<1>4. i > Len(s) /\ i =< Len(s) + Len(t) => (s \o t)[i] = t[i - Len(s)]
  OBVIOUS
<1> QED  BY <1>1, <1>2, <1>3, <1>4

LEMMA PieceConcat ==
  ASSUME NEW m, NEW k \in Nat, NEW s, NEW a \in Nat, NEW t, NEW b \in Nat, NEW l, l = k + a,
         NEW n, n = a + b, Piece(m, k, s, a), Piece(m, l, t, b)
  PROVE  Piece(m, k, s \o t, n)
<1> DEFINE Fits(i, op) == PutFits(m, i, op) \/ MaterializeFits(m, i, op)
<1>1. s \in Seq(OpType) /\ Len(s) = a /\ t \in Seq(OpType) /\ Len(t) = b
  BY DEF Piece
<1>2. /\ \A i \in 1..a : Fits(k + (i - 1), s[i])
      /\ \A i \in 1..b : Fits(l + (i - 1), t[i])
  BY DEF Piece
<1> HIDE DEF Fits
<1>3. s \o t \in Seq(OpType) /\ Len(s \o t) = n
  <2>1. s \o t \in Seq(OpType) /\ Len(s \o t) = Len(s) + Len(t)
    BY <1>1, Concatenated
  <2> QED  BY <1>1, <2>1
<1>4. ASSUME NEW i \in 1..n PROVE Fits(k + (i - 1), (s \o t)[i])
  <2>1. i \in Nat /\ (i \in 1..a \/ (i > a /\ i =< a + b))
    OBVIOUS
  <2>2. CASE i \in 1..a
    <3>1. (s \o t)[i] = s[i]
      BY <1>1, <2>1, <2>2, Concatenated
    <3> QED  BY <1>2, <2>2, <3>1
  <2>3. CASE i > a /\ i =< a + b
    <3>1. (s \o t)[i] = t[i - a]
      BY <1>1, <2>1, <2>3, Concatenated
    <3>2. i - a \in 1..b /\ l + ((i - a) - 1) = k + (i - 1)
      BY <2>3
    <3>3. Fits(l + ((i - a) - 1), t[i - a])
      BY <1>2, <3>2
    <3> QED  BY <3>1, <3>2, <3>3
  <2> QED  BY <2>1, <2>2, <2>3
<1> QED  BY <1>3, <1>4 DEF Piece, Fits

LEMMA PieceOne ==
  ASSUME NEW m, NEW k \in Nat, NEW op \in OpType, PutFits(m, k, op)
  PROVE  Piece(m, k, <<op>>, 1)
<1>1. <<op>> \in Seq(OpType) /\ Len(<<op>>) = 1 /\ <<op>>[1] = op
  OBVIOUS
<1>2. \A i \in 1..1 : i = 1 /\ k + (i - 1) = k
  OBVIOUS
<1> HIDE DEF PutFits
<1> QED  BY <1>1, <1>2 DEF Piece

\* The three operations that install a committed file.
InstallFits(m, k, list, p) ==
  /\ MaterializeFits(m, k, [do |-> "materialize", at |-> p, to |-> "dir"])
  /\ PutFits(m, k + 1, [do |-> "clear", at |-> p, to |-> "absent"])
  /\ PutFits(m, k + 2, [do |-> "link", at |-> p, to |-> list])

LEMMA PieceInstall ==
  ASSUME NEW m, NEW k \in Nat, NEW list \in Links, NEW p \in Places, InstallFits(m, k, list, p),
         NEW n, n = 3
  PROVE  Piece(m, k, InstallOne(list, p), n)
<1> DEFINE o1 == [do |-> "materialize", at |-> p, to |-> "dir"]
           o2 == [do |-> "clear", at |-> p, to |-> "absent"]
           o3 == [do |-> "link", at |-> p, to |-> list]
<1>1. o1 \in OpType /\ o2 \in OpType /\ o3 \in OpType
  BY DEF OpType, Nodes
<1>2. MaterializeFits(m, k, o1) /\ PutFits(m, k + 1, o2) /\ PutFits(m, k + 2, o3)
  BY DEF InstallFits
<1>3. InstallOne(list, p) = <<o1, o2>> \o <<o3>>
  BY DEF InstallOne, LinkTo
<1> HIDE DEF o1, o2, o3
<1>4. <<o1, o2>> \in Seq(OpType) /\ Len(<<o1, o2>>) = 2 /\ <<o1, o2>>[1] = o1 /\ <<o1, o2>>[2] = o2
  BY <1>1
<1>5. \A i \in 1..2 : (i = 1 /\ k + (i - 1) = k) \/ (i = 2 /\ k + (i - 1) = k + 1)
  OBVIOUS
<1>6. Piece(m, k, <<o1, o2>>, 2)
  BY <1>2, <1>4, <1>5 DEF Piece
<1>7. Piece(m, k + 2, <<o3>>, 1)
  <2>1. k + 2 \in Nat
    OBVIOUS
  <2> QED  BY <1>1, <1>2, <2>1, PieceOne
<1>8. 2 \in Nat /\ 1 \in Nat /\ n = 2 + 1
  OBVIOUS
<1> QED  BY <1>3, <1>6, <1>7, <1>8, PieceConcat

\* The operations of a build are those the tables allow, in the order of the tables.
LEMMA PieceCommon ==
  ASSUME NEW m \in Platforms
  PROVE  Piece(m, 1, BuildOverlay \o FilteredDirectory \o NativeExtensions \o CommonFiles, 11)
<1> DEFINE Fits(k, op) == op \in OpType /\ PutFits(m, k, op)
           link == [do |-> "link", at |-> "config", to |-> "source"]
           base == [do |-> "directory", at |-> "base", to |-> "dir"]
           scoped == [do |-> "link", at |-> "scoped", to |-> "source"]
           pa == [do |-> "directory", at |-> "pa", to |-> "dir"]
           pagn == [do |-> "write", at |-> "pa_gn", to |-> "filtered"]
           basegn == [do |-> "write", at |-> "base_gn", to |-> "filtered"]
           rs == [do |-> "directory", at |-> "cronet_rs", to |-> "dir"]
           native == [do |-> "link", at |-> "native_gn", to |-> "native"]
<1>1. /\ link \in OpType /\ base \in OpType /\ scoped \in OpType /\ pa \in OpType /\ pagn \in OpType
      /\ basegn \in OpType /\ rs \in OpType /\ native \in OpType
  <2>1. \A d \in {"link", "directory", "clear", "write"}, p \in Places, t \in Nodes :
          [do |-> d, at |-> p, to |-> t] \in OpType
    BY DEF OpType
  <2>2. /\ "config" \in Places /\ "base" \in Places /\ "scoped" \in Places /\ "pa" \in Places
        /\ "pa_gn" \in Places /\ "base_gn" \in Places /\ "cronet_rs" \in Places /\ "native_gn" \in Places
    BY DEF Places, Up
  <2>3. "source" \in Nodes /\ "dir" \in Nodes /\ "filtered" \in Nodes /\ "native" \in Nodes
    BY DEF Nodes, Links
  <2>4. link \in OpType
    BY <2>1, <2>2, <2>3
  <2>5. base \in OpType
    BY <2>1, <2>2, <2>3
  <2>6. scoped \in OpType
    BY <2>1, <2>2, <2>3
  <2>7. pa \in OpType
    BY <2>1, <2>2, <2>3
  <2>8. pagn \in OpType
    BY <2>1, <2>2, <2>3
  <2>9. basegn \in OpType
    BY <2>1, <2>2, <2>3
  <2>10. rs \in OpType
    BY <2>1, <2>2, <2>3
  <2>11. native \in OpType
    <3>1. "native_gn" \in Places /\ "native" \in Nodes
      BY <2>2, <2>3, Zenon
    <3> QED  BY <2>1, <3>1
  <2> QED  BY <2>4, <2>5, <2>6, <2>7, <2>8, <2>9, <2>10, <2>11
<1>2. /\ PutFits(m, 1, link) /\ PutFits(m, 2, base) /\ PutFits(m, 3, scoped) /\ PutFits(m, 4, pa)
      /\ PutFits(m, 5, pagn) /\ PutFits(m, 6, basegn) /\ PutFits(m, 7, rs) /\ PutFits(m, 8, native)
      /\ InstallFits(m, 9, "common", "root")
  <2> USE DEF PutFits, MaterializeFits, InstallFits, Up, Places, Above, Opens, Settles, Final, Before,
              Allowed, Tolerated, Fixed, Linked, Nodes, Links, Result, Directories
  <2>1. m = "host" \/ m = "android" \/ m = "ohos"
    BY DEF Platforms
  <2>2. PutFits(m, 1, link)
    BY <2>1
  <2>3. PutFits(m, 2, base)
    BY <2>1
  <2>4. PutFits(m, 3, scoped)
    BY <2>1
  <2>5. PutFits(m, 4, pa)
    BY <2>1
  <2>6. PutFits(m, 5, pagn)
    BY <2>1
  <2>7. PutFits(m, 6, basegn)
    BY <2>1
  <2>8. PutFits(m, 7, rs)
    BY <2>1
  <2>9. PutFits(m, 8, native)
    BY <2>1
  <2>10. InstallFits(m, 9, "common", "root")
    BY <2>1
  <2> HIDE DEF PutFits, MaterializeFits, InstallFits
  <2> QED  BY <2>2, <2>3, <2>4, <2>5, <2>6, <2>7, <2>8, <2>9, <2>10
<1>3. /\ BuildOverlay = <<link>>
      /\ FilteredDirectory = <<base>> \o <<scoped>> \o <<pa>> \o <<pagn>> \o <<basegn>>
      /\ NativeExtensions = <<rs>> \o <<native>>
  BY DEF BuildOverlay, FilteredDirectory, NativeExtensions, LinkTo, DirectoryAt, Filter
<1> HIDE DEF link, base, scoped, pa, pagn, basegn, rs, native
<1>4. /\ Piece(m, 1, <<link>>, 1) /\ Piece(m, 2, <<base>>, 1) /\ Piece(m, 3, <<scoped>>, 1)
      /\ Piece(m, 4, <<pa>>, 1) /\ Piece(m, 5, <<pagn>>, 1) /\ Piece(m, 6, <<basegn>>, 1)
      /\ Piece(m, 7, <<rs>>, 1) /\ Piece(m, 8, <<native>>, 1)
  BY <1>1, <1>2, PieceOne
<1> HIDE DEF PutFits
<1>5. Piece(m, 2, <<base>> \o <<scoped>>, 2)
  BY <1>4, PieceConcat
<1>6. Piece(m, 2, <<base>> \o <<scoped>> \o <<pa>>, 3)
  BY <1>4, <1>5, PieceConcat
<1>7. Piece(m, 2, <<base>> \o <<scoped>> \o <<pa>> \o <<pagn>>, 4)
  BY <1>4, <1>6, PieceConcat
<1>8. Piece(m, 2, FilteredDirectory, 5)
  <2>1. Piece(m, 2, <<base>> \o <<scoped>> \o <<pa>> \o <<pagn>> \o <<basegn>>, 5)
    BY <1>4, <1>7, PieceConcat
  <2> QED  BY <1>3, <2>1
<1>9. Piece(m, 7, NativeExtensions, 2)
  <2>1. Piece(m, 7, <<rs>> \o <<native>>, 2)
    BY <1>4, PieceConcat
  <2> QED  BY <1>3, <2>1
<1>10. Piece(m, 9, CommonFiles, 3)
  <2>1. "common" \in Links /\ "root" \in Places /\ 9 \in Nat /\ 3 = 3
    BY DEF Links, Places, Up
  <2> QED  BY <1>2, <2>1, PieceInstall DEF CommonFiles
<1>11. Piece(m, 1, BuildOverlay \o FilteredDirectory, 6)
  <2>1. Piece(m, 1, BuildOverlay, 1)
    BY <1>3, <1>4
  <2> QED  BY <1>8, <2>1, PieceConcat
<1>12. Piece(m, 1, BuildOverlay \o FilteredDirectory \o NativeExtensions, 8)
  BY <1>9, <1>11, PieceConcat
<1> QED  BY <1>10, <1>12, PieceConcat

InstallsFit(m, k, list, p, n) == InstallFits(m, k, list, p) /\ list \in Links /\ p \in Places /\ n = 3

LEMMA PieceAndroid ==
  Piece("android", 1, Plans["android"], 23)
<1> DEFINE m == "android"
           s0 == BuildOverlay \o FilteredDirectory \o NativeExtensions \o CommonFiles
           i1 == InstallOne("android", "root")
           i2 == InstallOne("android", "args")
           i3 == InstallOne("android", "buildconfig")
           i4 == InstallOne("android", "compiler_gn")
<1>1. /\ InstallFits(m, 12, "android", "root") /\ InstallFits(m, 15, "android", "args")
      /\ InstallFits(m, 18, "android", "buildconfig") /\ InstallFits(m, 21, "android", "compiler_gn")
  BY DEF PutFits, MaterializeFits, InstallFits, Up, Places, Above, Opens, Settles, Final, Before,
              Allowed, Tolerated, Fixed, Linked, Nodes, Links, Result, Directories, Platforms
<1>2. /\ "android" \in Links /\ m \in Platforms
      /\ "root" \in Places /\ "args" \in Places /\ "buildconfig" \in Places /\ "compiler_gn" \in Places
  BY DEF Links, Places, Up, Platforms
<1>3. Plans[m] = s0 \o (i1 \o i2 \o i3 \o i4)
  BY DEF Plans, PrepareOverlay, AndroidFiles, Platforms
<1>4. Piece(m, 1, s0, 11)
  BY <1>2, PieceCommon
<1>5. Piece(m, 12, i1, 3) /\ Piece(m, 15, i2, 3) /\ Piece(m, 18, i3, 3) /\ Piece(m, 21, i4, 3)
  BY <1>1, <1>2, PieceInstall
<1> HIDE DEF m, s0, i1, i2, i3, i4
<1>6. Piece(m, 12, i1 \o i2, 6)
  BY <1>5, PieceConcat
<1>7. Piece(m, 12, i1 \o i2 \o i3, 9)
  BY <1>5, <1>6, PieceConcat
<1>8. Piece(m, 12, i1 \o i2 \o i3 \o i4, 12)
  BY <1>5, <1>7, PieceConcat
<1>9. Piece(m, 1, s0 \o (i1 \o i2 \o i3 \o i4), 23)
  BY <1>4, <1>8, PieceConcat
<1> QED  BY <1>3, <1>9 DEF m

LEMMA PieceOhos ==
  Piece("ohos", 1, Plans["ohos"], 26)
<1> DEFINE m == "ohos"
           s0 == BuildOverlay \o FilteredDirectory \o NativeExtensions \o CommonFiles
           i1 == InstallOne("ohos", "pa_gn")
           i2 == InstallOne("ohos", "buildconfig")
           i3 == InstallOne("ohos", "compiler_gn")
           i4 == InstallOne("ohos", "scoped")
           i5 == InstallOne("wrapped", "scoped_upstream")
<1>1. /\ InstallFits(m, 12, "ohos", "pa_gn") /\ InstallFits(m, 15, "ohos", "buildconfig")
      /\ InstallFits(m, 18, "ohos", "compiler_gn") /\ InstallFits(m, 21, "ohos", "scoped")
      /\ InstallFits(m, 24, "wrapped", "scoped_upstream")
  BY DEF PutFits, MaterializeFits, InstallFits, Up, Places, Above, Opens, Settles, Final, Before,
              Allowed, Tolerated, Fixed, Linked, Nodes, Links, Result, Directories, Platforms
<1>2. /\ "ohos" \in Links /\ "wrapped" \in Links /\ m \in Platforms
      /\ "pa_gn" \in Places /\ "buildconfig" \in Places /\ "compiler_gn" \in Places /\ "scoped" \in Places
      /\ "scoped_upstream" \in Places
  BY DEF Links, Places, Up, Platforms
<1>3. Piece(m, 1, s0, 11)
  BY <1>2, PieceCommon
<1>4. /\ Piece(m, 12, i1, 3) /\ Piece(m, 15, i2, 3) /\ Piece(m, 18, i3, 3) /\ Piece(m, 21, i4, 3)
      /\ Piece(m, 24, i5, 3)
  BY <1>1, <1>2, PieceInstall
<1>5. Plans[m] = s0 \o ((i1 \o i2 \o i3) \o (i4 \o i5))
  BY DEF Plans, PrepareOverlay, OhosFiles, InstallSourceWrapper, Platforms
<1> HIDE DEF m, s0, i1, i2, i3, i4, i5
<1>6. Piece(m, 12, i1 \o i2, 6)
  BY <1>4, PieceConcat
<1>7. Piece(m, 12, i1 \o i2 \o i3, 9)
  BY <1>4, <1>6, PieceConcat
<1>8. Piece(m, 21, i4 \o i5, 6)
  BY <1>4, PieceConcat
<1>9. Piece(m, 12, (i1 \o i2 \o i3) \o (i4 \o i5), 15)
  BY <1>7, <1>8, PieceConcat
<1>10. Piece(m, 1, s0 \o ((i1 \o i2 \o i3) \o (i4 \o i5)), 26)
  BY <1>3, <1>9, PieceConcat
<1> QED  BY <1>5, <1>10 DEF m

LEMMA PieceHost ==
  Piece("host", 1, Plans["host"], 11)
<1> DEFINE m == "host"
           s0 == BuildOverlay \o FilteredDirectory \o NativeExtensions \o CommonFiles
<1>1. m \in Platforms /\ Plans[m] = s0 \o <<>>
  BY DEF Plans, PrepareOverlay, Platforms
<1>2. Piece(m, 1, s0, 11)
  BY <1>1, PieceCommon
<1>3. Piece(m, 12, <<>>, 0)
  BY DEF Piece
<1> HIDE DEF m, s0
<1>4. Piece(m, 1, s0 \o <<>>, 11)
  BY <1>2, <1>3, PieceConcat
<1> QED  BY <1>1, <1>4 DEF m

Total == [host |-> 11, android |-> 23, ohos |-> 26]

LEMMA PlansFit ==
  ASSUME NEW m \in Platforms
  PROVE  Piece(m, 1, Plans[m], Total[m]) /\ Total[m] \in Nat
<1>1. CASE m = "host"
  BY <1>1, PieceHost DEF Total
<1>2. CASE m = "android"
  BY <1>2, PieceAndroid DEF Total
<1>3. CASE m = "ohos"
  BY <1>3, PieceOhos DEF Total
<1> QED  BY <1>1, <1>2, <1>3 DEF Platforms

-----------------------------------------------------------------------------
(* One operation of a plan.                                                 *)

Unspoiled(v) == v.spoiled \subseteq {<<"ohos", "pa_gn">>}
Steady(m, k, v) == v \in Views /\ Sound(v.nodes) /\ Opened(m, k, v.nodes) /\ Unspoiled(v)
Exact(m, k, v) == Shaped(m, v.nodes) /\ Settled(m, k, v.nodes)

\* What the tables say of each place.
LEMMA Tables ==
  ASSUME NEW p \in Places
  PROVE  /\ Above[p] \subseteq Directories /\ Directories \subseteq Places
         /\ "dir" \notin Links /\ "absent" \notin Links /\ "filtered" \notin Links
         /\ "absent" \in Tolerated[p] /\ Tolerated[p] \subseteq Nodes
         /\ p \in Fixed => Tolerated[p] = {"absent", "dir"}
         /\ p \notin Directories => "dir" \notin Tolerated[p]
  BY DEF Above, Directories, Places, Up, Links, Tolerated, Nodes, Fixed, Linked

LEMMA PlaceFree ==
  ASSUME NEW m \in Platforms, NEW k \in Nat, NEW p \in Places, NEW nodes, Sound(nodes), Opened(m, k, nodes),
         \A a \in Above[p] : a \in Fixed \/ k > Opens[m][a]
  PROVE  ~InCheckout(nodes, p)
<1>1. ASSUME NEW a \in Above[p] PROVE nodes[a] \notin Links
  <2>1. a \in Directories /\ a \in Places
    BY Tables
  <2>2. CASE a \in Fixed
    <3>1. nodes[a] \in {"absent", "dir"}
      BY <2>1, <2>2, Tables DEF Sound
    <3> QED  BY <3>1, Tables
  <2>3. CASE a \notin Fixed
    <3>1. nodes[a] = "dir"
      BY <2>1, <2>3 DEF Opened
    <3> QED  BY <3>1, Tables
  <2> QED  BY <2>2, <2>3
<1> QED  BY <1>1 DEF InCheckout

\* An operation that puts one node.
PutEffect(v, op, w) ==
  /\ w \in Views /\ w.marker = v.marker /\ Unspoiled(w)
  /\ w.nodes = [v.nodes EXCEPT ![op.at] = Result(op, v.nodes[op.at])]

LEMMA PutIs ==
  ASSUME NEW v \in Views, NEW p \in Places, NEW node \in Nodes, ~InCheckout(v.nodes, p), Unspoiled(v)
  PROVE  /\ Seen(v.nodes, p) = v.nodes[p]
         /\ Put(v, p, node) \in Views /\ Put(v, p, node).marker = v.marker /\ Unspoiled(Put(v, p, node))
         /\ Put(v, p, node).nodes = [v.nodes EXCEPT ![p] = node]
<1>1. Seen(v.nodes, p) = v.nodes[p]
  BY DEF Seen
<1>2. Put(v, p, node) = [v EXCEPT !.nodes[p] = node]
  BY DEF Put
<1>3. v \in [marker : Platforms \cup {"none"}, nodes : [Places -> Nodes], spoiled : SUBSET (Links \X Places)]
  BY DEF Views
<1> DEFINE w == [v EXCEPT !.nodes[p] = node]
<1>4. w \in Views /\ w.marker = v.marker /\ w.spoiled = v.spoiled
      /\ w.nodes = [v.nodes EXCEPT ![p] = node]
  BY <1>3 DEF Views
<1> QED  BY <1>1, <1>2, <1>4 DEF Unspoiled

LEMMA PutOp ==
  ASSUME NEW m \in Platforms, NEW k \in Nat, NEW op \in OpType, PutFits(m, k, op),
         NEW v, Steady(m, k, v)
  PROVE  PutEffect(v, op, Do(v, op)) /\ ~InCheckout(v.nodes, op.at)
<1> DEFINE p == op.at
           node == v.nodes[p]
           same == [v.nodes EXCEPT ![p] = node]
<1>1. v \in Views /\ Sound(v.nodes) /\ Unspoiled(v) /\ p \in Places /\ node \in Nodes
  BY DEF Steady, PutFits, Sound
<1>2. ~InCheckout(v.nodes, p)
  BY <1>1, PlaceFree DEF PutFits, Steady
<1>3. Seen(v.nodes, p) = node
  BY <1>1, <1>2, PutIs
<1>4. same = v.nodes
  BY <1>1 DEF Sound
<1>5. CASE op.do = "link"
  <2>1. op.to \in Links /\ op.to \in Nodes
    BY <1>5 DEF PutFits, OpType
  <2>2. Do(v, op) = IF node \in {op.to, "dir"} THEN v ELSE Put(v, p, op.to)
    BY <1>3, <1>5 DEF Do, EnsureSymlink
  <2>3. Result(op, node) = IF node = "dir" THEN node ELSE op.to
    BY <1>5 DEF Result
  <2>4. CASE node \in {op.to, "dir"}
    <3>1. Do(v, op) = v /\ Result(op, node) = node
      BY <2>2, <2>3, <2>4
    <3> QED  BY <1>1, <1>2, <1>4, <3>1 DEF PutEffect
  <2>5. CASE node \notin {op.to, "dir"}
    <3>1. Do(v, op) = Put(v, p, op.to) /\ Result(op, node) = op.to
      BY <2>2, <2>3, <2>5
    <3> QED  BY <1>1, <1>2, <2>1, <3>1, PutIs DEF PutEffect
  <2> QED  BY <2>4, <2>5
<1>6. CASE op.do = "directory"
  <2>1. Do(v, op) = IF node = "dir" THEN v ELSE Put(v, p, "dir")
    BY <1>3, <1>6 DEF Do, DirectoryInPlaceOfLink
  <2>2. Result(op, node) = "dir" /\ "dir" \in Nodes
    BY <1>6 DEF Result, Nodes
  <2>3. CASE node = "dir"
    BY <1>1, <1>2, <1>4, <2>1, <2>2, <2>3 DEF PutEffect
  <2>4. CASE node # "dir"
    BY <1>1, <1>2, <2>1, <2>2, <2>4, PutIs DEF PutEffect
  <2> QED  BY <2>3, <2>4
<1>7. CASE op.do = "clear"
  <2>1. Do(v, op) = IF node = "absent" THEN v ELSE Put(v, p, "absent")
    BY <1>3, <1>7 DEF Do, NothingInPlaceOfLink
  <2>2. Result(op, node) = "absent" /\ "absent" \in Nodes
    BY <1>7 DEF Result, Nodes
  <2>3. CASE node = "absent"
    BY <1>1, <1>2, <1>4, <2>1, <2>2, <2>3 DEF PutEffect
  <2>4. CASE node # "absent"
    BY <1>1, <1>2, <2>1, <2>2, <2>4, PutIs DEF PutEffect
  <2> QED  BY <2>3, <2>4
<1>8. CASE op.do = "write"
  <2>1. Do(v, op) = IF node \in Links THEN [v EXCEPT !.spoiled = @ \cup {<<node, p>>}] ELSE Put(v, p, "filtered")
    BY <1>3, <1>8 DEF Do, Write
  <2>2. Result(op, node) = (IF node \in Links THEN node ELSE "filtered") /\ "filtered" \in Nodes
    BY <1>8 DEF Result, Nodes
  <2>3. CASE node \in Links
    <3>1. node = "ohos" /\ p = "pa_gn"
      BY <1>1, <1>8, <2>3 DEF PutFits, Sound
    <3> DEFINE w == [v EXCEPT !.spoiled = @ \cup {<<node, p>>}]
    <3>2. v \in [marker : Platforms \cup {"none"}, nodes : [Places -> Nodes], spoiled : SUBSET (Links \X Places)]
      BY <1>1 DEF Views
    <3>3. w \in Views /\ w.marker = v.marker /\ w.nodes = v.nodes /\ w.spoiled = v.spoiled \cup {<<node, p>>}
      BY <1>1, <2>3, <3>2 DEF Views
    <3>4. Unspoiled(w)
      BY <1>1, <3>1, <3>3 DEF Unspoiled
    <3>5. Do(v, op) = w /\ Result(op, node) = node
      BY <2>1, <2>2, <2>3
    <3> HIDE DEF w
    <3> QED  BY <1>2, <1>4, <3>3, <3>4, <3>5 DEF PutEffect
  <2>4. CASE node \notin Links
    BY <1>1, <1>2, <2>1, <2>2, <2>4, PutIs DEF PutEffect
  <2> QED  BY <2>3, <2>4
<1> QED  BY <1>5, <1>6, <1>7, <1>8 DEF PutFits

LEMMA PutSteady ==
  ASSUME NEW m \in Platforms, NEW k \in Nat, NEW op \in OpType, PutFits(m, k, op),
         NEW v, Steady(m, k, v)
  PROVE  Steady(m, k + 1, Do(v, op)) /\ Do(v, op).marker = v.marker
<1> DEFINE w == Do(v, op)
           node == v.nodes[op.at]
<1>1. PutEffect(v, op, w)
  BY PutOp
<1>2. v \in Views /\ Sound(v.nodes) /\ Opened(m, k, v.nodes) /\ op.at \in Places
  BY DEF Steady, PutFits
<1>3. w.nodes = [v.nodes EXCEPT ![op.at] = Result(op, node)] /\ w \in Views /\ Unspoiled(w) /\ w.marker = v.marker
  BY <1>1 DEF PutEffect
<1> HIDE DEF w
<1>4. Result(op, node) \in Tolerated[op.at]
  BY <1>2 DEF PutFits, Sound
<1>5. Sound(w.nodes)
  BY <1>2, <1>3, <1>4, Tables DEF Sound
<1>6. Opened(m, k + 1, w.nodes)
  <2> SUFFICES ASSUME NEW d \in Directories, k + 1 > Opens[m][d] PROVE w.nodes[d] = "dir"
    BY DEF Opened
  <2>1. d \in Places /\ Opens[m][d] \in Nat
    BY DEF Directories, Places, Up, Opens, Platforms
  <2>2. CASE Opens[m][d] = k
    <3>1. d = op.at /\ op.do = "directory"
      BY <2>2 DEF PutFits
    <3>2. Result(op, node) = "dir"
      BY <3>1 DEF Result
    <3> QED  BY <1>2, <1>3, <3>1, <3>2 DEF Sound
  <2>3. CASE Opens[m][d] # k
    <3>1. k > Opens[m][d]
      BY <2>1, <2>3
    <3>2. d # op.at
      <4>1. op.at \in Directories => k =< Opens[m][op.at]
        BY DEF PutFits
      <4> QED  BY <2>1, <3>1, <4>1
    <3>3. v.nodes[d] = "dir"
      BY <1>2, <3>1 DEF Opened
    <3> QED  BY <1>2, <1>3, <2>1, <3>2, <3>3 DEF Sound
  <2> QED  BY <2>2, <2>3
<1> QED  BY <1>3, <1>5, <1>6 DEF Steady, w

LEMMA PutExact ==
  ASSUME NEW m \in Platforms, NEW k \in Nat, NEW op \in OpType, PutFits(m, k, op),
         NEW v, Steady(m, k, v), Exact(m, k, v)
  PROVE  Exact(m, k + 1, Do(v, op))
<1> DEFINE w == Do(v, op)
           node == v.nodes[op.at]
<1>1. PutEffect(v, op, w)
  BY PutOp
<1>2. v \in Views /\ Sound(v.nodes) /\ Shaped(m, v.nodes) /\ Settled(m, k, v.nodes) /\ op.at \in Places
  BY DEF Steady, Exact, PutFits
<1>3. w.nodes = [v.nodes EXCEPT ![op.at] = Result(op, node)]
  BY <1>1 DEF PutEffect
<1> HIDE DEF w
<1>4. Result(op, node) \in Allowed(m, op.at)
  BY <1>2 DEF PutFits, Shaped
<1>5. Shaped(m, w.nodes)
  <2>1. \A p \in Places : w.nodes[p] \in Allowed(m, p)
    BY <1>2, <1>3, <1>4 DEF Shaped, Sound
  <2>2. ASSUME m = "ohos", w.nodes["config"] = "dir" PROVE w.nodes["args"] = "source"
    <3>1. "config" \in Places /\ "args" \in Places /\ op.at # "args"
      BY <2>2 DEF Places, Up, PutFits
    <3>2. v.nodes["config"] = "dir"
      <4>1. CASE op.at = "config"
        <5>1. op.do = "link" /\ op.to # "dir"
          BY <4>1 DEF PutFits
        <5>2. Result(op, node) = "dir"
          BY <1>2, <1>3, <2>2, <3>1, <4>1 DEF Sound
        <5>3. node = "dir"
          BY <5>1, <5>2 DEF Result
        <5> QED  BY <4>1, <5>3
      <4>2. CASE op.at # "config"
        BY <1>2, <1>3, <2>2, <3>1, <4>2 DEF Sound
      <4> QED  BY <4>1, <4>2
    <3>3. v.nodes["args"] = "source"
      BY <1>2, <2>2, <3>2 DEF Shaped
    <3> QED  BY <1>2, <1>3, <3>1, <3>3 DEF Sound
  <2> QED  BY <2>1, <2>2 DEF Shaped
<1>6. Settled(m, k + 1, w.nodes)
  <2> SUFFICES ASSUME NEW p \in Places, k + 1 > Settles[m][p] PROVE Final[m][p] = w.nodes[p]
    BY DEF Settled
  <2>1. Settles[m][p] \in Nat
    BY DEF Places, Up, Settles, Platforms
  <2>2. CASE Settles[m][p] = k
    <3>1. p = op.at /\ Result(op, node) = Final[m][p]
      BY <1>2, <2>2 DEF PutFits, Shaped
    <3> QED  BY <1>2, <1>3, <3>1 DEF Sound
  <2>3. CASE Settles[m][p] # k
    <3>1. k > Settles[m][p]
      BY <2>1, <2>3
    <3>2. p # op.at
      <4>1. k =< Settles[m][op.at]
        BY DEF PutFits
      <4> QED  BY <2>1, <3>1, <4>1
    <3>3. v.nodes[p] = Final[m][p]
      BY <1>2, <3>1 DEF Settled
    <3> QED  BY <1>2, <1>3, <3>2, <3>3 DEF Sound
  <2> QED  BY <2>2, <2>3
<1> QED  BY <1>5, <1>6 DEF Exact, w

\* An operation that opens a directory, with links to all else that upstream has in it.
MadeNodes(nodes, p) ==
  [q \in Places |-> IF q = Up[p] THEN "dir"
                    ELSE IF q \in Beside(p) /\ nodes[q] # "dir" THEN "source" ELSE nodes[q]]
OpenedUp(v, p, w) ==
  /\ w \in Views /\ w.marker = v.marker /\ w.spoiled = v.spoiled
  /\ w.nodes = MadeNodes(v.nodes, p)

\* A place whose directory may still be a link to the checkout.
Opening(m, k, p) ==
  /\ m \in {"android", "ohos"} /\ p \in Places
  /\ \/ Up[p] = "config" /\ k = 15 /\ (p # "args" \/ m # "ohos")
     \/ Up[p] = "compiler" /\ k = Opens[m]["compiler"]

LEMMA MaterializeOp ==
  ASSUME NEW m \in Platforms, NEW k \in Nat, NEW op \in OpType, MaterializeFits(m, k, op),
         NEW v, Steady(m, k, v)
  PROVE  \/ /\ Do(v, op) = v
            /\ \/ Opening(m, k, op.at) /\ v.nodes[Up[op.at]] = "dir"
               \/ /\ \A d \in Directories : Opens[m][d] # k
                  /\ \A p \in Places : Settles[m][p] # k
         \/ OpenedUp(v, op.at, Do(v, op)) /\ Opening(m, k, op.at)
<1> DEFINE p == op.at
           d == Up[p]
<1>1. v \in Views /\ Sound(v.nodes) /\ Opened(m, k, v.nodes) /\ Unspoiled(v) /\ p \in Places
  BY DEF Steady, MaterializeFits
<1>2. Do(v, op) = MaterializeParent(v, p)
  BY DEF Do, MaterializeFits
<1>3. d = "/" \/ d \in Directories
  BY <1>1 DEF Up, Places, Directories
<1>4. d # "/" => d \in Places /\ \A a \in Above[d] : a \in Directories
  BY <1>3 DEF Directories, Places, Up, Above
<1>5. CASE /\ d = "/" \/ k > Opens[m][d]
           /\ \A e \in Directories : Opens[m][e] # k
           /\ \A q \in Places : Settles[m][q] # k
  <2>1. d # "/" => v.nodes[d] = "dir"
    BY <1>1, <1>3, <1>5 DEF Opened
  <2>2. \A a \in Above[d] : d # "/" => a \in Fixed \/ k > Opens[m][a]
    BY <1>1, <1>3, <1>5 DEF Above, Up, Places, Directories, Fixed, Opens, Platforms
  <2>3. d # "/" => ~InCheckout(v.nodes, d)
    BY <1>1, <1>4, <2>2, PlaceFree
  <2>4. d # "/" => Seen(v.nodes, d) = "dir"
    BY <2>1, <2>3 DEF Seen
  <2>5. Do(v, op) = v
    BY <1>2, <2>4 DEF MaterializeParent
  <2> QED  BY <1>5, <2>5
<1>6. CASE Opening(m, k, p)
  <2>1. d \in Directories /\ d # "/" /\ d \notin Fixed /\ (\A a \in Above[d] : k > Opens[m][a])
    BY <1>6 DEF Opening, Above, Up, Places, Directories, Fixed, Opens
  <2>2. ~InCheckout(v.nodes, d)
    BY <1>1, <1>4, <2>1, PlaceFree
  <2>3. Seen(v.nodes, d) = v.nodes[d]
    BY <2>2 DEF Seen
  <2>4. CASE v.nodes[d] = "dir"
    <3>1. Do(v, op) = v
      BY <1>2, <2>3, <2>4 DEF MaterializeParent
    <3> QED  BY <1>6, <2>4, <3>1
  <2>5. CASE v.nodes[d] # "dir"
    <3> DEFINE made == Put(v, d, "dir")
               w == [made EXCEPT !.nodes =
                       [q \in Places |-> IF q \in Beside(p) /\ @[q] # "dir" THEN "source" ELSE @[q]]]
    <3>1. Do(v, op) = w
      BY <1>2, <2>1, <2>3, <2>5 DEF MaterializeParent, DirectoryInPlaceOfLink
    <3>2. made = [v EXCEPT !.nodes[d] = "dir"]
      BY <2>2 DEF Put
    <3>3. v \in [marker : Platforms \cup {"none"}, nodes : [Places -> Nodes], spoiled : SUBSET (Links \X Places)]
      BY <1>1 DEF Views
    <3>4. d \notin Beside(p)
      BY <1>6 DEF Opening, Beside, Up, Places, Upstream
    <3>5. /\ made.marker = v.marker /\ made.spoiled = v.spoiled
          /\ made.nodes = [v.nodes EXCEPT ![d] = "dir"]
          /\ DOMAIN made = {"marker", "nodes", "spoiled"}
      BY <3>2, <3>3
    <3>6. w = [marker |-> v.marker, nodes |-> MadeNodes(v.nodes, p), spoiled |-> v.spoiled]
      <4>1. ASSUME NEW q \in Places
            PROVE  (IF q \in Beside(p) /\ made.nodes[q] # "dir" THEN "source" ELSE made.nodes[q])
                     = (IF q = d THEN "dir" ELSE IF q \in Beside(p) /\ v.nodes[q] # "dir" THEN "source" ELSE v.nodes[q])
        BY <1>1, <3>4, <3>5 DEF Sound
      <4>2. [q \in Places |-> IF q \in Beside(p) /\ made.nodes[q] # "dir" THEN "source" ELSE made.nodes[q]]
              = MadeNodes(v.nodes, p)
        BY <4>1 DEF MadeNodes
      <4>3. w = [marker |-> made.marker, spoiled |-> made.spoiled,
                 nodes |-> [q \in Places |->
                              IF q \in Beside(p) /\ made.nodes[q] # "dir" THEN "source" ELSE made.nodes[q]]]
        BY <3>2, <3>3
      <4> HIDE DEF w, made
      <4> QED  BY <3>5, <4>2, <4>3
    <3>7. MadeNodes(v.nodes, p) \in [Places -> Nodes]
      BY <1>1 DEF Sound, MadeNodes, Nodes, Links
    <3>8. OpenedUp(v, p, w)
      BY <3>3, <3>6, <3>7 DEF OpenedUp, Views
    <3> HIDE DEF w
    <3> QED  BY <1>6, <3>1, <3>8
  <2> QED  BY <2>4, <2>5
<1>7. \/ /\ d = "/" \/ k > Opens[m][d]
         /\ \A e \in Directories : Opens[m][e] # k
         /\ \A q \in Places : Settles[m][q] # k
      \/ Opening(m, k, p)
  BY DEF MaterializeFits, Opening, Platforms
<1> QED  BY <1>5, <1>6, <1>7

\* What the tables say of a directory that is opened.
LEMMA OpeningTables ==
  ASSUME NEW m \in Platforms, NEW k \in Nat, NEW p, Opening(m, k, p)
  PROVE  /\ p \in Places /\ Up[p] \in Directories /\ Up[p] \in Places /\ "dir" \in Tolerated[Up[p]]
         /\ \A q \in Beside(p) : q \in Places /\ "source" \in Tolerated[q] /\ "source" \in Allowed(m, q)
         /\ \A q \in Beside(p) : Settles[m][q] >= k
         /\ \A q \in Beside(p) : Settles[m][q] = k => q = "args" /\ m = "ohos" /\ Up[p] = "config"
         /\ m = "ohos" => Final[m]["args"] = "source"
         /\ \A q \in Places : Settles[m][q] = k => q = Up[p] \/ q \in Beside(p)
         /\ \A d \in Directories : Opens[m][d] = k => d = Up[p]
         /\ Final[m][Up[p]] = "dir" /\ Settles[m][Up[p]] = k /\ Opens[m][Up[p]] = k
         /\ m = "ohos" => p # "args" /\ (Up[p] = "config" <=> "args" \in Beside(p))
         /\ "args" # Up[p]
<1> USE DEF Opening, Beside, Up, Places, Directories, Upstream, Platforms, Opens, Settles, Final, Before,
            Allowed, Tolerated, Fixed, Linked, Nodes, Links
<1>1. CASE Up[p] = "config"
  <2>1. k = 15 /\ p \in {"args", "buildconfig", "compiler"} /\ Beside(p) = {"args", "buildconfig", "compiler"} \ {p}
    BY <1>1
  <2>2. CASE m = "android"
    BY <1>1, <2>1, <2>2
  <2>3. CASE m = "ohos"
    BY <1>1, <2>1, <2>3
  <2> QED  BY <2>2, <2>3
<1>2. CASE Up[p] = "compiler"
  <2>1. k = Opens[m]["compiler"] /\ p = "compiler_gn" /\ Beside(p) = {}
    BY <1>2
  <2>2. CASE m = "android"
    BY <1>2, <2>1, <2>2
  <2>3. CASE m = "ohos"
    BY <1>2, <2>1, <2>3
  <2> QED  BY <2>2, <2>3
<1> QED  BY <1>1, <1>2

LEMMA Ranges ==
  ASSUME NEW m \in Platforms, NEW p \in Places
  PROVE  /\ Settles[m][p] \in Nat
         /\ p \in Directories => Opens[m][p] \in Nat
  BY DEF Settles, Opens, Places, Up, Platforms, Directories

LEMMA MaterializeSteady ==
  ASSUME NEW m \in Platforms, NEW k \in Nat, NEW op \in OpType, MaterializeFits(m, k, op),
         NEW v, Steady(m, k, v)
  PROVE  Steady(m, k + 1, Do(v, op)) /\ Do(v, op).marker = v.marker
<1> DEFINE w == Do(v, op)
           p == op.at
<1>1. v \in Views /\ Sound(v.nodes) /\ Opened(m, k, v.nodes) /\ Unspoiled(v) /\ p \in Places
  BY DEF Steady, MaterializeFits
<1>2. ASSUME NEW d \in Directories PROVE d \in Places /\ Opens[m][d] \in Nat
  BY Tables, Ranges, <1>1
<1>3. CASE w = v /\ \A d \in Directories : Opens[m][d] = k => v.nodes[d] = "dir"
  <2>1. Opened(m, k + 1, v.nodes)
    <3> SUFFICES ASSUME NEW d \in Directories, k + 1 > Opens[m][d] PROVE v.nodes[d] = "dir"
      BY DEF Opened
    <3>1. k > Opens[m][d] \/ Opens[m][d] = k
      BY <1>2
    <3> QED  BY <1>1, <1>3, <3>1 DEF Opened
  <2> QED  BY <1>1, <1>3, <2>1 DEF Steady
<1>4. CASE OpenedUp(v, p, w) /\ Opening(m, k, p)
  <2>1. w \in Views /\ w.marker = v.marker /\ w.spoiled = v.spoiled /\ w.nodes = MadeNodes(v.nodes, p)
    BY <1>4 DEF OpenedUp
  <2>2. ASSUME NEW q \in Places PROVE w.nodes[q] = IF q = Up[p] THEN "dir"
                    ELSE IF q \in Beside(p) /\ v.nodes[q] # "dir" THEN "source" ELSE v.nodes[q]
    BY <2>1 DEF MadeNodes
  <2>3. Sound(w.nodes)
    <3>1. ASSUME NEW q \in Places PROVE w.nodes[q] \in Tolerated[q]
      BY <1>1, <1>4, <2>2, OpeningTables DEF Sound
    <3>2. w.nodes \in [Places -> Nodes]
      BY <2>1 DEF Views
    <3> QED  BY <3>1, <3>2 DEF Sound
  <2>4. Opened(m, k + 1, w.nodes)
    <3> SUFFICES ASSUME NEW d \in Directories, k + 1 > Opens[m][d] PROVE w.nodes[d] = "dir"
      BY DEF Opened
    <3>1. k > Opens[m][d] \/ Opens[m][d] = k
      BY <1>2
    <3>2. CASE Opens[m][d] = k
      <4>1. \A e \in Directories : Opens[m][e] = k => e = Up[p]
        BY <1>4, OpeningTables
      <4>2. d = Up[p]
        BY <3>2, <4>1
      <4> QED  BY <1>2, <2>2, <4>2
    <3>3. CASE k > Opens[m][d]
      <4>1. v.nodes[d] = "dir"
        BY <1>1, <3>3 DEF Opened
      <4> QED  BY <1>2, <2>2, <4>1
    <3> QED  BY <3>1, <3>2, <3>3
  <2>5. Unspoiled(w)
    BY <1>1, <2>1 DEF Unspoiled
  <2> HIDE DEF w
  <2> QED  BY <2>1, <2>3, <2>4, <2>5 DEF Steady, w
<1>5. (w = v /\ \A d \in Directories : Opens[m][d] = k => v.nodes[d] = "dir")
        \/ (OpenedUp(v, p, w) /\ Opening(m, k, p))
  <2>1. Opening(m, k, p) /\ v.nodes[Up[p]] = "dir" => \A d \in Directories : Opens[m][d] = k => v.nodes[d] = "dir"
    BY OpeningTables
  <2> QED  BY <2>1, MaterializeOp
<1> QED  BY <1>3, <1>4, <1>5

LEMMA MaterializeExact ==
  ASSUME NEW m \in Platforms, NEW k \in Nat, NEW op \in OpType, MaterializeFits(m, k, op),
         NEW v, Steady(m, k, v), Exact(m, k, v)
  PROVE  Exact(m, k + 1, Do(v, op))
<1> DEFINE w == Do(v, op)
           p == op.at
<1>1. v \in Views /\ Sound(v.nodes) /\ Shaped(m, v.nodes) /\ Settled(m, k, v.nodes) /\ p \in Places
  BY DEF Steady, Exact, MaterializeFits
<1>2. CASE w = v /\ \A q \in Places : Settles[m][q] = k => v.nodes[q] = Final[m][q]
  <2>1. Settled(m, k + 1, v.nodes)
    <3> SUFFICES ASSUME NEW q \in Places, k + 1 > Settles[m][q] PROVE Final[m][q] = v.nodes[q]
      BY DEF Settled
    <3>1. k > Settles[m][q] \/ Settles[m][q] = k
      BY Ranges
    <3> QED  BY <1>1, <1>2, <3>1 DEF Settled
  <2> QED  BY <1>1, <1>2, <2>1 DEF Exact
<1>3. CASE OpenedUp(v, p, w) /\ Opening(m, k, p)
  <2>1. w.nodes = MadeNodes(v.nodes, p)
    BY <1>3 DEF OpenedUp
  <2>2. ASSUME NEW q \in Places PROVE w.nodes[q] = IF q = Up[p] THEN "dir"
                    ELSE IF q \in Beside(p) /\ v.nodes[q] # "dir" THEN "source" ELSE v.nodes[q]
    BY <2>1 DEF MadeNodes
  <2>3. Shaped(m, w.nodes)
    <3>1. ASSUME NEW q \in Places PROVE w.nodes[q] \in Allowed(m, q)
      <4>1. Final[m][Up[p]] = "dir"
        BY <1>3, OpeningTables
      <4>2. q = Up[p] => "dir" \in Allowed(m, q)
        BY <4>1 DEF Allowed
      <4>3. q \in Beside(p) => "source" \in Allowed(m, q)
        BY <1>3, OpeningTables
      <4> QED  BY <1>1, <2>2, <4>2, <4>3 DEF Shaped
    <3>2. ASSUME m = "ohos", w.nodes["config"] = "dir" PROVE w.nodes["args"] = "source"
      <4>1. "args" \in Places /\ "config" \in Places
        BY DEF Places, Up
      <4>2. v.nodes["args"] # "dir"
        BY <1>1, <4>1, Tables DEF Sound, Directories
      <4>3. CASE Up[p] = "config"
        BY <1>3, <2>2, <3>2, <4>1, <4>2, <4>3, OpeningTables
      <4>4. CASE Up[p] # "config"
        <5>1. v.nodes["config"] = "dir"
          BY <2>2, <3>2, <4>1, <4>4
        <5>2. v.nodes["args"] = "source"
          BY <1>1, <3>2, <5>1 DEF Shaped
        <5> QED  BY <1>3, <2>2, <3>2, <4>1, <4>4, <5>2, OpeningTables
      <4> QED  BY <4>3, <4>4
    <3> QED  BY <3>1, <3>2 DEF Shaped
  <2>4. Settled(m, k + 1, w.nodes)
    <3> SUFFICES ASSUME NEW q \in Places, k + 1 > Settles[m][q] PROVE Final[m][q] = w.nodes[q]
      BY DEF Settled
    <3>1. k > Settles[m][q] \/ Settles[m][q] = k
      BY Ranges
    <3>2. CASE k > Settles[m][q]
      <4>1. q # Up[p] /\ q \notin Beside(p)
        <5>1. Settles[m][Up[p]] = k /\ (q \in Beside(p) => Settles[m][q] >= k)
          BY <1>3, OpeningTables
        <5> QED  BY <3>2, <5>1, Ranges
      <4>2. Final[m][q] = v.nodes[q]
        BY <1>1, <3>2 DEF Settled
      <4> QED  BY <2>2, <4>1, <4>2
    <3>3. CASE Settles[m][q] = k
      <4>1. CASE q = Up[p]
        BY <1>3, <2>2, <4>1, OpeningTables
      <4>2. CASE q # Up[p]
        <5>1. q \in Beside(p)
          BY <1>3, <3>3, <4>2, OpeningTables
        <5>2. q = "args" /\ Final[m][q] = "source"
          BY <1>3, <3>3, <5>1, OpeningTables
        <5>3. v.nodes[q] # "dir"
          BY <1>1, <5>2, Tables DEF Sound, Directories
        <5> QED  BY <2>2, <4>2, <5>1, <5>2, <5>3
      <4> QED  BY <4>1, <4>2
    <3> QED  BY <3>1, <3>2, <3>3
  <2> HIDE DEF w
  <2> QED  BY <2>3, <2>4 DEF Exact, w
<1>4. ASSUME Opening(m, k, p), v.nodes[Up[p]] = "dir", NEW q \in Places, Settles[m][q] = k
      PROVE  v.nodes[q] = Final[m][q]
  <2>1. CASE q = Up[p]
    BY <1>4, <2>1, OpeningTables
  <2>2. CASE q # Up[p]
    <3>1. q \in Beside(p)
      BY <1>4, <2>2, OpeningTables
    <3>2. q = "args" /\ m = "ohos" /\ Up[p] = "config"
      BY <1>4, <3>1, OpeningTables
    <3>3. Final[m][q] = "source"
      BY <1>4, <3>2, OpeningTables
    <3> QED  BY <1>1, <1>4, <3>2, <3>3 DEF Shaped
  <2> QED  BY <2>1, <2>2
<1>5. (w = v /\ \A q \in Places : Settles[m][q] = k => v.nodes[q] = Final[m][q])
        \/ (OpenedUp(v, p, w) /\ Opening(m, k, p))
  BY <1>4, MaterializeOp
<1> QED  BY <1>2, <1>3, <1>5

\* An operation of a plan is one that its tables allow.
Fits(m, k, op) == PutFits(m, k, op) \/ MaterializeFits(m, k, op)

LEMMA PlanOp ==
  ASSUME NEW m \in Platforms, NEW k \in 1..Total[m]
  PROVE  Plans[m][k] \in OpType /\ Fits(m, k, Plans[m][k]) /\ k \in Nat
<1>1. /\ Plans[m] \in Seq(OpType) /\ Len(Plans[m]) = Total[m] /\ Total[m] \in Nat
      /\ \A i \in 1..Total[m] : Fits(m, 1 + (i - 1), Plans[m][i])
  BY PlansFit DEF Piece, Fits
<1>2. 1 + (k - 1) = k /\ k \in Nat
  BY <1>1
<1>3. Plans[m][k] \in OpType
  BY <1>1
<1> QED  BY <1>1, <1>2, <1>3

LEMMA DoSteady ==
  ASSUME NEW m \in Platforms, NEW k \in 1..Total[m], NEW v, Steady(m, k, v)
  PROVE  /\ Steady(m, k + 1, Do(v, Plans[m][k])) /\ Do(v, Plans[m][k]).marker = v.marker
         /\ Exact(m, k, v) => Exact(m, k + 1, Do(v, Plans[m][k]))
<1>1. Plans[m][k] \in OpType /\ Fits(m, k, Plans[m][k]) /\ k \in Nat
  BY PlanOp
<1>2. CASE PutFits(m, k, Plans[m][k])
  BY <1>1, <1>2, PutSteady, PutExact
<1>3. CASE MaterializeFits(m, k, Plans[m][k])
  BY <1>1, <1>3, MaterializeSteady, MaterializeExact
<1> QED  BY <1>1, <1>2, <1>3 DEF Fits

\* What is left of an operation that was broken off.
LEMMA BrokenSteady ==
  ASSUME NEW m \in Platforms, NEW k \in 1..Total[m], NEW v, Steady(m, k, v),
         NEW w \in BrokenOff(v, Plans[m][k])
  PROVE  /\ w \in Views /\ Sound(w.nodes) /\ Unspoiled(w) /\ w.marker = v.marker
         /\ Shaped(m, v.nodes) /\ (Plans[m][k].do = "materialize" => w = v) => Shaped(m, w.nodes)
<1> DEFINE op == Plans[m][k]
<1>1. op \in OpType /\ (PutFits(m, k, op) \/ MaterializeFits(m, k, op)) /\ k \in Nat
  BY PlanOp DEF Fits
<1>2. CASE w = v
  BY <1>2 DEF Steady
<1>3. CASE op.do = "link" /\ Do(v, op) # v /\ w = NothingInPlaceOfLink(v, op.at)
  <2>1. PutFits(m, k, op) /\ op.at \in Places /\ v \in Views /\ Sound(v.nodes) /\ Unspoiled(v)
    BY <1>1, <1>3 DEF MaterializeFits, Steady, PutFits
  <2>2. ~InCheckout(v.nodes, op.at)
    BY <1>1, <2>1, PutOp
  <2>3. Seen(v.nodes, op.at) = v.nodes[op.at]
    BY <2>2 DEF Seen
  <2>4. w = v \/ w = Put(v, op.at, "absent")
    BY <1>3 DEF NothingInPlaceOfLink
  <2>5. CASE w = Put(v, op.at, "absent")
    <3>1. /\ w \in Views /\ Unspoiled(w) /\ w.marker = v.marker
          /\ w.nodes = [v.nodes EXCEPT ![op.at] = "absent"]
      <4>1. "absent" \in Nodes
        BY DEF Nodes
      <4> QED  BY <2>1, <2>2, <2>5, <4>1, PutIs
    <3>2. Sound(w.nodes)
      BY <2>1, <3>1, Tables DEF Sound, Nodes
    <3>3. ASSUME Shaped(m, v.nodes) PROVE Shaped(m, w.nodes)
      <4>1. \A p \in Places : w.nodes[p] \in Allowed(m, p)
        BY <2>1, <3>1, <3>3 DEF Shaped, Allowed, Sound
      <4>2. ASSUME m = "ohos", w.nodes["config"] = "dir" PROVE w.nodes["args"] = "source"
        <5>1. "args" \in Places /\ "config" \in Places /\ op.at # "args"
          BY <2>1, <4>2 DEF Places, Up, PutFits
        <5> QED  BY <2>1, <3>1, <3>3, <4>2, <5>1 DEF Shaped, Sound
      <4> QED  BY <4>1, <4>2 DEF Shaped
    <3> QED  BY <3>1, <3>2, <3>3
  <2> QED  BY <1>2, <2>4, <2>5
<1>4. CASE op.do = "materialize" /\ w = HalfMaterialized(v, op.at) /\ w # v
  <2>1. MaterializeFits(m, k, op)
    BY <1>1, <1>4 DEF PutFits
  <2>2. Do(v, op) = MaterializeParent(v, op.at)
    BY <1>4 DEF Do
  <2>3. MaterializeParent(v, op.at) # v /\ w = DirectoryInPlaceOfLink(v, Up[op.at])
    BY <1>4 DEF HalfMaterialized
  <2>4. Opening(m, k, op.at)
    BY <1>1, <2>1, <2>2, <2>3, MaterializeOp
  <2> DEFINE d == Up[op.at]
  <2>5. /\ d \in Places /\ "dir" \in Tolerated[d]
        /\ \A a \in Above[d] : k > Opens[m][a]
    <3>1. d \in Places /\ "dir" \in Tolerated[d]
      BY <1>1, <2>4, OpeningTables
    <3>2. Above["config"] = {} /\ Above["compiler"] = {"config"}
      BY DEF Above, Up, Places
    <3>3. m \in {"android", "ohos"} /\ (d = "config" \/ (d = "compiler" /\ k = Opens[m]["compiler"]))
      BY <2>4 DEF Opening
    <3>4. m \in {"android", "ohos"} => Opens[m]["compiler"] > Opens[m]["config"]
      BY DEF Opens
    <3> HIDE DEF d
    <3>5. CASE d = "config"
      BY <3>1, <3>2, <3>5
    <3>6. CASE d = "compiler" /\ k = Opens[m]["compiler"]
      BY <3>1, <3>2, <3>3, <3>4, <3>6
    <3> QED  BY <3>3, <3>5, <3>6
  <2>6. v \in Views /\ Sound(v.nodes) /\ Opened(m, k, v.nodes) /\ Unspoiled(v) /\ "dir" \in Nodes
    BY DEF Steady, Nodes
  <2>7. ~InCheckout(v.nodes, d)
    BY <1>1, <2>5, <2>6, PlaceFree
  <2>8. w = Put(v, d, "dir")
    BY <1>4, <2>3 DEF DirectoryInPlaceOfLink
  <2>9. /\ w \in Views /\ Unspoiled(w) /\ w.marker = v.marker
        /\ w.nodes = [v.nodes EXCEPT ![d] = "dir"]
    BY <2>5, <2>6, <2>7, <2>8, PutIs
  <2>10. Sound(w.nodes)
    BY <2>5, <2>6, <2>9 DEF Sound
  <2> QED  BY <1>4, <2>9, <2>10
<1>5. w = v \/ (op.do = "link" /\ Do(v, op) # v /\ w = NothingInPlaceOfLink(v, op.at))
        \/ (op.do = "materialize" /\ w = HalfMaterialized(v, op.at))
  BY DEF BrokenOff
<1> QED  BY <1>2, <1>3, <1>4, <1>5

-----------------------------------------------------------------------------
(* A whole build.                                                           *)

LEMMA FinalTables ==
  ASSUME NEW m \in Platforms
  PROVE  /\ Final[m] \in [Places -> Nodes]
         /\ \A p \in Places : Settles[m][p] =< Total[m] /\ Settles[m][p] \in Nat
         /\ \A p \in Places : Settles[m][p] = 0 => Final[m][p] = "absent" /\ Before[m][p] = {}
         /\ \A d \in Directories : Opens[m][d] \in Nat /\ Opens[m][d] > 1
         /\ "config" \in Places /\ "args" \in Places /\ Empty["config"] = "absent"
<1> USE DEF Final, Settles, Before, Opens, Total, Places, Up, Nodes, Links, Directories, Empty
<1>1. CASE m = "host"
  BY <1>1
<1>2. CASE m = "android"
  BY <1>2
<1>3. CASE m = "ohos"
  BY <1>3
<1> QED  BY <1>1, <1>2, <1>3 DEF Platforms

\* Before its first operation, and after its last.
LEMMA PlanBegins ==
  ASSUME NEW m \in Platforms, NEW v \in Views, Sound(v.nodes), Unspoiled(v)
  PROVE  Steady(m, 1, v) /\ (Shaped(m, v.nodes) => Exact(m, 1, v))
<1>1. Opened(m, 1, v.nodes)
  BY FinalTables DEF Opened
<1>2. Shaped(m, v.nodes) => Settled(m, 1, v.nodes)
  <2> SUFFICES ASSUME Shaped(m, v.nodes), NEW p \in Places, 1 > Settles[m][p] PROVE Final[m][p] = v.nodes[p]
    BY DEF Settled
  <2>1. Settles[m][p] = 0
    BY FinalTables
  <2>2. v.nodes[p] \in Allowed(m, p) /\ Final[m][p] = "absent" /\ Before[m][p] = {}
    BY <2>1, FinalTables DEF Shaped
  <2> QED  BY <2>2 DEF Allowed
<1> QED  BY <1>1, <1>2 DEF Steady, Exact

LEMMA EmptyView ==
  /\ NoView \in Views /\ Sound(Empty) /\ Unspoiled(NoView) /\ NoView.nodes = Empty
  /\ \A m \in Platforms : Shaped(m, Empty)
<1>1. \A p \in Places : Empty[p] = "absent" /\ "absent" \in Nodes /\ "absent" \in Tolerated[p]
  BY Tables DEF Empty, Nodes
<1>2. Empty \in [Places -> Nodes]
  BY <1>1 DEF Empty
<1>3. NoView \in Views /\ Unspoiled(NoView) /\ NoView.nodes = Empty
  BY <1>2 DEF NoView, Views, Unspoiled
<1>4. \A m \in Platforms : Shaped(m, Empty)
  BY <1>1, FinalTables DEF Shaped, Allowed
<1> QED  BY <1>1, <1>2, <1>3, <1>4 DEF Sound

LEMMA PlanEnds ==
  ASSUME NEW m \in Platforms, NEW nodes, Sound(nodes), Settled(m, Total[m] + 1, nodes)
  PROVE  nodes = Final[m]
<1>1. ASSUME NEW p \in Places PROVE nodes[p] = Final[m][p]
  <2>1. Total[m] + 1 > Settles[m][p]
    BY FinalTables, PlansFit
  <2> QED  BY <2>1 DEF Settled
<1>2. nodes \in [Places -> Nodes] /\ Final[m] \in [Places -> Nodes]
  BY FinalTables DEF Sound
<1> QED  BY <1>1, <1>2

-----------------------------------------------------------------------------
(* The view a build makes where there was none: a recursion over its       *)
(* operations.  < is well-founded, hence induction over sets of numbers,   *)
(* hence a function that the recursion describes.                          *)

Less == {pair \in Nat \X Nat : pair[1] < pair[2]}

LEMMA LessWellFounded == IsWellFoundedOn(Less, Nat)
<1>1. IsWellFoundedOn(OpToRel(<, Nat), Nat)
  BY NatLessThanWellFounded
<1>2. OpToRel(<, Nat) = Less
  BY DEF OpToRel, Less
<1> QED  BY <1>1, <1>2

LEMMA Induction ==
  ASSUME NEW T \in SUBSET Nat, 0 \in T, \A n \in T : n + 1 \in T
  PROVE  T = Nat
<1> SUFFICES ASSUME Nat \ T # {} PROVE FALSE
  OBVIOUS
<1>1. PICK x \in Nat \ T : \A y \in Nat \ T : ~(y < x)
  <2>1. \E x \in Nat \ T : \A y \in Nat \ T : ~(<<y, x>> \in Less)
    BY LessWellFounded, WFMin
  <2> QED  BY <2>1 DEF Less
<1>2. x # 0
  BY <1>1
<1>3. x - 1 \in T /\ x - 1 \in Nat
  BY <1>1, <1>2
<1> QED  BY <1>1, <1>3

\* g is what the recursion of Built says, as far as n.
Follows(g, n, m) ==
  /\ g = [i \in Nat |-> g[i]] /\ g[0] = NoView
  /\ \A i \in Nat : i < n => g[i + 1] = Do(g[i], Plans[m][i + 1])

LEMMA FollowsExists ==
  ASSUME NEW m
  PROVE  \A n \in Nat : \E g : Follows(g, n, m)
<1> DEFINE T == {n \in Nat : \E g : Follows(g, n, m)}
<1>1. 0 \in T
  <2>1. Follows([n \in Nat |-> NoView], 0, m)
    BY DEF Follows
  <2> QED  BY <2>1
<1>2. ASSUME NEW n \in T PROVE n + 1 \in T
  <2>1. PICK g : Follows(g, n, m)
    OBVIOUS
  <2> DEFINE h == [g EXCEPT ![n + 1] = Do(g[n], Plans[m][n + 1])]
  <2>2. n \in Nat /\ g = [i \in Nat |-> g[i]] /\ g[0] = NoView
    BY <2>1 DEF Follows
  <2>3. h = [i \in Nat |-> h[i]] /\ h[n + 1] = Do(g[n], Plans[m][n + 1])
        /\ \A i \in Nat : i # n + 1 => h[i] = g[i]
    BY <2>2
  <2> HIDE DEF h
  <2>4. h[0] = NoView
    BY <2>2, <2>3
  <2>5. ASSUME NEW i \in Nat, i < n + 1 PROVE h[i + 1] = Do(h[i], Plans[m][i + 1])
    <3>1. CASE i = n
      BY <2>2, <2>3, <3>1
    <3>2. CASE i < n
      <4>1. g[i + 1] = Do(g[i], Plans[m][i + 1])
        BY <2>1, <3>2 DEF Follows
      <4>2. h[i + 1] = g[i + 1] /\ h[i] = g[i]
        BY <2>2, <2>3, <3>2
      <4> QED  BY <4>1, <4>2
    <3> QED  BY <2>2, <2>5, <3>1, <3>2
  <2>6. Follows(h, n + 1, m)
    BY <2>3, <2>4, <2>5 DEF Follows
  <2> QED  BY <2>2, <2>6
<1> HIDE DEF T
<1>3. T \in SUBSET Nat
  BY DEF T
<1>4. T = Nat
  BY <1>1, <1>2, <1>3, Induction
<1> QED  BY <1>4 DEF T

LEMMA FollowsUnique ==
  ASSUME NEW m, NEW g, NEW h, NEW n \in Nat, NEW l \in Nat, Follows(g, n, m), Follows(h, l, m)
  PROVE  \A i \in Nat : i =< n /\ i =< l => g[i] = h[i]
<1> DEFINE T == {i \in Nat : i =< n /\ i =< l => g[i] = h[i]}
<1>1. 0 \in T
  BY DEF Follows
<1>2. ASSUME NEW i \in T PROVE i + 1 \in T
  <2> SUFFICES ASSUME i + 1 =< n, i + 1 =< l PROVE g[i + 1] = h[i + 1]
    OBVIOUS
  <2>1. g[i] = h[i] /\ i \in Nat /\ i < n /\ i < l
    OBVIOUS
  <2>2. g[i + 1] = Do(g[i], Plans[m][i + 1]) /\ h[i + 1] = Do(h[i], Plans[m][i + 1])
    BY <2>1 DEF Follows
  <2> QED  BY <2>1, <2>2
<1> HIDE DEF T
<1>3. T \in SUBSET Nat
  BY DEF T
<1>4. T = Nat
  BY <1>1, <1>2, <1>3, Induction
<1> QED  BY <1>4 DEF T

LEMMA BuiltUnfold ==
  ASSUME NEW m
  PROVE  Built(m)[0] = NoView /\ \A n \in Nat : Built(m)[n + 1] = Do(Built(m)[n], Plans[m][n + 1])
<1> DEFINE F(n) == CHOOSE g : Follows(g, n, m)
           f == [n \in Nat |-> F(n)[n]]
           Def(g) == [n \in Nat |-> IF n = 0 THEN NoView ELSE Do(g[n - 1], Plans[m][n])]
<1>1. ASSUME NEW n \in Nat PROVE Follows(F(n), n, m)
  BY FollowsExists
<1> HIDE DEF F
<1>2. ASSUME NEW n \in Nat PROVE f[n + 1] = Do(f[n], Plans[m][n + 1])
  <2>1. F(n + 1)[n + 1] = Do(F(n + 1)[n], Plans[m][n + 1])
    BY <1>1 DEF Follows
  <2>2. F(n + 1)[n] = F(n)[n]
    BY <1>1, FollowsUnique
  <2> QED  BY <2>1, <2>2
<1>3. f[0] = NoView
  BY <1>1 DEF Follows
<1>4. f = Def(f)
  <2>1. ASSUME NEW n \in Nat PROVE f[n] = Def(f)[n]
    <3>1. CASE n = 0
      BY <1>3, <3>1
    <3>2. CASE n # 0
      <4>1. n - 1 \in Nat /\ n = (n - 1) + 1
        BY <3>2
      <4>2. f[(n - 1) + 1] = Do(f[n - 1], Plans[m][(n - 1) + 1])
        BY <1>2, <4>1
      <4> HIDE DEF f
      <4> QED  BY <3>2, <4>1, <4>2
    <3> QED  BY <3>1, <3>2
  <2> QED  BY <2>1
<1>5. Built(m) = CHOOSE g : g = Def(g)
  BY DEF Built
<1>6. Built(m) = Def(Built(m))
  <2> HIDE DEF Def
  <2> QED  BY <1>4, <1>5
<1> QED  BY <1>6

LEMMA Fresh ==
  ASSUME NEW m \in Platforms
  PROVE  FreshViews[m] = Final[m]
<1> DEFINE T == {n \in Nat : n =< Total[m] => Steady(m, n + 1, Built(m)[n]) /\ Exact(m, n + 1, Built(m)[n])}
<1>1. 0 \in T
  <2>1. Steady(m, 1, NoView) /\ Exact(m, 1, NoView)
    BY EmptyView, PlanBegins
  <2> QED  BY <2>1, BuiltUnfold
<1>2. ASSUME NEW n \in T PROVE n + 1 \in T
  <2> DEFINE v == Built(m)[n]
  <2> SUFFICES ASSUME n + 1 =< Total[m]
               PROVE  Steady(m, (n + 1) + 1, Built(m)[n + 1]) /\ Exact(m, (n + 1) + 1, Built(m)[n + 1])
    OBVIOUS
  <2>1. n \in Nat /\ n + 1 \in 1..Total[m] /\ n =< Total[m]
    BY PlansFit
  <2>2. Steady(m, n + 1, v) /\ Exact(m, n + 1, v)
    BY <2>1
  <2>3. Built(m)[n + 1] = Do(v, Plans[m][n + 1])
    BY <2>1, BuiltUnfold
  <2> HIDE DEF v
  <2> QED  BY <2>1, <2>2, <2>3, DoSteady
<1> HIDE DEF T
<1>3. T \in SUBSET Nat
  BY DEF T
<1>4. T = Nat
  BY <1>1, <1>2, <1>3, Induction
<1>5. Steady(m, Total[m] + 1, Built(m)[Total[m]]) /\ Exact(m, Total[m] + 1, Built(m)[Total[m]])
  BY <1>4, PlansFit DEF T
<1>6. Built(m)[Total[m]].nodes = Final[m]
  BY <1>5, PlanEnds DEF Steady, Exact
<1>7. Len(Plans[m]) = Total[m]
  BY PlansFit DEF Piece
<1> QED  BY <1>6, <1>7 DEF FreshViews

-----------------------------------------------------------------------------
(* What an operation finds at the stage it has come to.                     *)

\* The variables that Inv leaves alone.
RestTyped ==
  /\ waiting \subseteq Builders
  /\ disk \in DiskType
  /\ vendor \in [temporary : Trees, output : Trees \ {"partial"}]
  /\ last = None \/ last \in [kind : {"ended"}, job : Jobs, ok : BOOLEAN, clean : BOOLEAN]

\* A checkout that differs from its manifest is being applied, or is blamed, or is one
\* that cannot be sparse.
CheckoutInv ==
  disk.pinned /\ disk.tree # disk.manifest =>
    \/ disk.git = "remote" \/ blame.reapply
    \/ run # None /\ run.at \in {"fetch", "reapply"} /\ run.reapply

\* What the stages before have left.
DiskInv ==
  run # None =>
    /\ run.at \in {"manifest", "fetch"} => disk.git # "none"
    /\ run.at \in {"fetch", "reapply", "depot", "gclient", "deps", "lastchange"} => disk.manifest = Wanted
    /\ run.at \in {"reapply", "depot", "gclient", "deps", "lastchange"} => disk.pinned
    /\ run.at = "deps" => disk.gclient # "none"
    /\ run.at = "lastchange" => disk.deps # {}
    /\ run.at = "require" /\ job.kind = "ensure" => SourceTreeBuildable
    /\ run.at \in {"view", "links"} =>
         HasHeaders /\ disk.deps # {} /\ (job.kind = "ensure" => SourceTreeBuildable)
    /\ run.at = "rename" => vendor.temporary # "partial"

\* No place of the view is torn, and the next operation of the plan finds open what
\* it expects to be; unless it is blamed, the view is one that builds of its platform
\* make, as far as this one has come.
Position == IF run.at = "links" THEN run.op ELSE Total[job.platform] + 1

ViewInv ==
  /\ view \in Views /\ Sound(view.nodes) /\ Unspoiled(view)
  /\ run # None /\ run.at \in {"links", "gn", "ninja"} =>
       /\ view.marker = job.platform
       /\ run.at = "links" => run.op \in 1..Total[job.platform]
       /\ Steady(job.platform, Position, view)
       /\ ~blame.view => Settled(job.platform, Position, view.nodes)
  /\ ~blame.view => IF view.marker = "none" THEN view.nodes = Empty ELSE Shaped(view.marker, view.nodes)

CacheInv == RestTyped /\ CheckoutInv /\ DiskInv /\ ViewInv

-----------------------------------------------------------------------------
(* Steps that synchronize the checkout.                                     *)

DiskFields ==
  /\ disk.git \in {"none", "bare", "remote", "configured"} /\ disk.manifest \in Patterns /\ disk.pinned \in BOOLEAN
  /\ disk.tree \in Patterns /\ disk.depot \in {"none", "partial", "ready"}
  /\ disk.gclient \in Systems \cup {"none"} /\ disk.deps \in SUBSET Systems /\ disk.lastchange \in BOOLEAN

LEMMA DiskFacts ==
  ASSUME disk \in DiskType
  PROVE  DiskFields
BY DEF DiskType, DiskFields

\* The stage an operation goes on to.
Moved(stage) ==
  /\ run' # None /\ run'.at = stage /\ run'.job = run.job /\ run'.op = run.op
  /\ run'.reapply = run.reapply

LEMMA Moving ==
  ASSUME RunTyped, run # None, NEW stage \in Stages, Go(stage)
  PROVE  Moved(stage)
<1>1. run \in RunType
  BY DEF RunTyped
<1> QED  BY <1>1, RunFacts DEF RunType, Go, Moved, None

\* A step that leaves the checkout.
LEMMA CheckoutKept ==
  ASSUME CacheInv, UNCHANGED disk, blame.reapply => blame'.reapply,
         \/ run' # None /\ run'.at \in {"fetch", "reapply"} /\ run'.reapply
         \/ run = None \/ run.at \notin {"fetch", "reapply"} \/ ~run.reapply
  PROVE  CheckoutInv'
BY DEF CacheInv, CheckoutInv

SyncStep ==
  \/ Check \/ InitRepository \/ WriteManifest \/ Fetch \/ Reapply
  \/ DepotTools \/ WriteGclient \/ SyncDependencies \/ Lastchange

LEMMA SyncKeeps ==
  ASSUME Inv, CacheInv, SyncStep
  PROVE  disk' \in DiskType /\ CheckoutInv' /\ DiskInv'
<1> USE DEF SyncStep
<1>1. run # None
  BY DEF Check, InitRepository, WriteManifest, Fetch, Reapply, DepotTools, WriteGclient, SyncDependencies,
         Lastchange, At
<1>2. run \in RunType /\ RunTyped /\ KindInv /\ disk \in DiskType /\ DiskFields /\ CheckoutInv /\ DiskInv
      /\ job.kind \in {"ensure", "build", "sync", "api", "vendor"}
  BY <1>1, Running, DiskFacts DEF Inv, CacheInv, RestTyped
<1> DEFINE Same == disk' = disk
<1>3. CASE Check
  <2>1. UNCHANGED disk /\ UNCHANGED blame /\ run.at = "check" /\ job.kind # "build"
    BY <1>1, <1>2, <1>3 DEF Check, Only, ends, At, KindInv, SyncStages
  <2>2. CheckoutInv'
    BY <2>1, CheckoutKept
  <2>3. \/ run' = None
        \/ Moved("require") /\ SourceTreeBuildable
        \/ Moved("init") \/ Moved("vendor")
    BY <1>1, <1>2, <1>3, Moving DEF Check, Succeed, Return, Stages
  <2>4. DiskInv'
    BY <2>1, <2>3 DEF DiskInv, Moved, SourceTreeBuildable, HasHeaders
  <2> QED  BY <1>2, <2>1, <2>2, <2>4
<1>4. CASE InitRepository
  <2>1. disk' = [disk EXCEPT !.git = IF disk.git = "none" THEN "configured" ELSE disk.git]
    BY <1>2, <1>4 DEF InitRepository, Disk, DiskType
  <2>2. disk' \in DiskType /\ disk'.git # "none" /\ disk'.pinned = disk.pinned /\ disk'.tree = disk.tree
        /\ disk'.manifest = disk.manifest /\ (disk.git = "remote" => disk'.git = "remote")
    BY <1>2, <2>1 DEF DiskType
  <2>3. Moved("manifest") /\ UNCHANGED blame /\ run.at = "init"
    BY <1>1, <1>2, <1>4, Moving DEF InitRepository, Disk, Only, At, Stages
  <2> QED  BY <1>2, <2>2, <2>3 DEF CheckoutInv, DiskInv, Moved
<1>5. CASE WriteManifest
  <2>1. disk' = [disk EXCEPT !.manifest = Wanted] /\ Wanted \in Patterns /\ UNCHANGED blame /\ run.at = "manifest"
    BY <1>2, <1>5 DEF WriteManifest, Disk, Only, At, Wanted, Patterns
  <2>2. disk' \in DiskType /\ disk'.git = disk.git /\ disk'.pinned = disk.pinned /\ disk'.tree = disk.tree
        /\ disk'.manifest = Wanted
    BY <1>2, <2>1 DEF DiskType
  <2>3. run' # None /\ run'.at = "fetch" /\ run'.job = run.job /\ run'.reapply = (disk.manifest # Wanted)
    BY <1>2, <1>5, RunFacts DEF WriteManifest, RunType, None
  <2>4. CheckoutInv'
    BY <1>1, <1>2, <2>1, <2>2, <2>3 DEF CheckoutInv
  <2>5. DiskInv'
    BY <1>1, <1>2, <2>1, <2>2, <2>3 DEF DiskInv, Wanted, job
  <2> QED  BY <2>2, <2>4, <2>5
<1>6. CASE Fetch
  <2>1. run.at = "fetch" /\ UNCHANGED blame /\ disk.manifest = Wanted /\ disk.git # "none"
    BY <1>1, <1>2, <1>6 DEF Fetch, Disk, Only, At, DiskInv
  <2>2. CASE disk.pinned /\ disk' = disk /\ Go("reapply")
    <3>1. Moved("reapply")
      BY <1>1, <1>2, <2>2, Moving DEF Stages
    <3>2. CheckoutInv'
      BY <1>1, <1>2, <2>1, <2>2, <3>1 DEF CheckoutInv, Moved
    <3>3. DiskInv'
      BY <2>1, <2>2, <3>1 DEF DiskInv, Moved, Wanted, job
    <3> QED  BY <1>2, <2>2, <3>2, <3>3
  <2>3. CASE /\ disk' = [disk EXCEPT !.pinned = TRUE,
                                      !.tree = IF disk.git = "remote" THEN "build" ELSE disk.manifest]
             /\ run' = [run EXCEPT !.at = "reapply", !.reapply = TRUE]
    <3>1. disk' \in DiskType /\ disk'.pinned /\ disk'.manifest = disk.manifest /\ disk'.git = disk.git
          /\ (disk'.tree = disk.manifest \/ disk.git = "remote")
      BY <1>2, <2>3 DEF DiskType, DiskFields, Patterns
    <3>2. run' # None /\ run'.at = "reapply" /\ run'.job = run.job
      BY <1>2, <2>3, RunFacts DEF RunType, None
    <3> QED  BY <2>1, <3>1, <3>2 DEF CheckoutInv, DiskInv, Wanted, job
  <2>4. CASE ~disk.pinned /\ disk' = disk /\ run' = None
    BY <1>2, <2>4 DEF CheckoutInv, DiskInv
  <2> QED  BY <1>6, <2>2, <2>3, <2>4 DEF Fetch, Disk, Refuse, Return
<1>7. CASE Reapply
  <2>0. CASE disk' = disk /\ disk.git = "remote" /\ run' = None
    BY <1>2, <2>0 DEF CheckoutInv, DiskInv
  <2> SUFFICES ASSUME disk' = [disk EXCEPT !.tree = Reapplied], run' = None \/ Go("depot")
               PROVE  disk' \in DiskType /\ CheckoutInv' /\ DiskInv'
    BY <1>7, <2>0 DEF Reapply, Disk, Refuse, Succeed, Return
  <2>1. Reapplied \in Patterns /\ UNCHANGED blame /\ run.at = "reapply"
    BY <1>2, <1>7 DEF Reapply, Disk, Only, At, Reapplied, DiskFields
  <2>2. disk' \in DiskType /\ disk'.tree = Reapplied /\ disk'.pinned = disk.pinned /\ disk'.manifest = disk.manifest
        /\ disk'.git = disk.git
    BY <1>2, <2>1 DEF DiskType
  <2>3. run' = None \/ Moved("depot")
    BY <1>1, <1>2, Moving DEF Stages
  <2>4. disk.pinned /\ disk.manifest = Wanted
    BY <1>1, <1>2, <2>1 DEF DiskInv
  <2>5. CheckoutInv'
    BY <1>1, <1>2, <2>1, <2>2 DEF CheckoutInv, Reapplied
  <2>6. DiskInv'
    BY <2>2, <2>3, <2>4 DEF DiskInv, Moved, Wanted, job
  <2> QED  BY <2>2, <2>5, <2>6
<1>8. CASE DepotTools \/ WriteGclient \/ SyncDependencies
  <2>1. run.at \in {"depot", "gclient", "deps"} /\ UNCHANGED blame
    BY <1>8 DEF DepotTools, WriteGclient, SyncDependencies, Disk, Only, At
  <2>2. disk.pinned /\ disk.manifest = Wanted /\ (run.at = "deps" => disk.gclient # "none")
    BY <1>1, <1>2, <2>1 DEF DiskInv
  <2>3. /\ disk' \in DiskType /\ disk'.pinned = disk.pinned /\ disk'.tree = disk.tree /\ disk'.manifest = disk.manifest
        /\ disk'.git = disk.git
        /\ \/ run' = None
           \/ Moved("gclient")
           \/ Moved("deps") /\ disk'.gclient # "none"
           \/ Moved("lastchange") /\ disk'.deps # {}
    <3>1. CASE DepotTools
      <4>1. disk' = [disk EXCEPT !.depot = IF disk.depot = "none" THEN "ready" ELSE disk.depot]
        BY <1>2, <3>1 DEF DepotTools, Disk, DiskType
      <4>2. run' = None \/ Moved("gclient")
        BY <1>1, <1>2, <3>1, Moving DEF DepotTools, Refuse, Return, Stages
      <4>3. disk' \in DiskType /\ disk'.pinned = disk.pinned /\ disk'.tree = disk.tree
            /\ disk'.manifest = disk.manifest /\ disk'.git = disk.git
        BY <1>2, <4>1 DEF DiskType
      <4> QED  BY <4>2, <4>3
    <3>2. CASE WriteGclient
      <4>1. disk' = [disk EXCEPT !.gclient = SystemOf(job.platform)] /\ SystemOf(job.platform) \in Systems
            /\ "none" \notin Systems
        BY <1>2, <3>2 DEF WriteGclient, Disk, SystemOf, Systems
      <4>2. Moved("deps")
        BY <1>1, <1>2, <3>2, Moving DEF WriteGclient, Stages
      <4>3. /\ disk' \in DiskType /\ disk'.pinned = disk.pinned /\ disk'.tree = disk.tree
            /\ disk'.manifest = disk.manifest /\ disk'.gclient = SystemOf(job.platform) /\ disk'.git = disk.git
        BY <1>2, <4>1 DEF DiskType
      <4> QED  BY <4>1, <4>2, <4>3
    <3>3. CASE SyncDependencies
      <4>1. disk' = [disk EXCEPT !.deps = disk.deps \cup {disk.gclient}] /\ disk.gclient \in Systems
        BY <1>2, <2>2, <3>3 DEF SyncDependencies, Disk, DiskType, At
      <4>2. Moved("lastchange")
        BY <1>1, <1>2, <3>3, Moving DEF SyncDependencies, Stages
      <4>3. disk.deps \cup {disk.gclient} \in SUBSET Systems /\ disk.deps \cup {disk.gclient} # {}
        BY <1>2, <4>1 DEF DiskFields
      <4>4. /\ disk' \in DiskType /\ disk'.pinned = disk.pinned /\ disk'.tree = disk.tree
            /\ disk'.manifest = disk.manifest /\ disk'.deps = disk.deps \cup {disk.gclient} /\ disk'.git = disk.git
        BY <1>2, <4>1, <4>3 DEF DiskType
      <4> QED  BY <4>2, <4>3, <4>4
    <3> QED  BY <1>8, <3>1, <3>2, <3>3
  <2>4. CheckoutInv'
    BY <1>2, <2>1, <2>3 DEF CheckoutInv
  <2>5. DiskInv'
    BY <2>2, <2>3 DEF DiskInv, Moved, Wanted, job
  <2> QED  BY <2>3, <2>4, <2>5
<1>9. CASE Lastchange
  <2>1. run.at = "lastchange" /\ UNCHANGED blame /\ disk.deps # {} /\ disk.pinned
        /\ job.kind \in {"sync", "ensure", "vendor"}
    BY <1>1, <1>2, <1>9 DEF Lastchange, Disk, Only, At, DiskInv, KindInv, SyncStages
  <2>2. CASE disk.tree # "build"
    BY <1>2, <1>9, <2>1, <2>2 DEF Lastchange, Disk, Refuse, Return, CheckoutInv, DiskInv
  <2>3. CASE disk.tree = "build"
    <3>1. disk' = [disk EXCEPT !.lastchange = TRUE]
      BY <1>9, <2>3 DEF Lastchange, Disk
    <3>2. /\ disk' \in DiskType /\ disk'.lastchange /\ disk'.deps = disk.deps /\ disk'.pinned = disk.pinned
          /\ disk'.tree = disk.tree /\ disk'.manifest = disk.manifest /\ disk'.git = disk.git
      BY <1>2, <3>1 DEF DiskType
    <3>3. run' = None \/ Moved("require") \/ Moved("vendor")
      BY <1>1, <1>2, <1>9, <2>1, <2>3, Moving DEF Lastchange, Succeed, Return, Stages
    <3>4. CheckoutInv'
      BY <1>2, <2>1, <3>2 DEF CheckoutInv
    <3>5. DiskInv'
      BY <2>1, <2>3, <3>2, <3>3 DEF DiskInv, Moved, SourceTreeBuildable, HasHeaders
    <3> QED  BY <3>2, <3>4, <3>5
  <2> QED  BY <2>2, <2>3
<1> QED  BY <1>3, <1>4, <1>5, <1>6, <1>7, <1>8, <1>9

-----------------------------------------------------------------------------
(* Steps that leave the checkout.                                           *)

OtherStep ==
  \/ Require \/ OpenView \/ Link \/ GnGen \/ Ninja \/ PostBuild
  \/ Bundle \/ IsolateSymbols \/ WriteLinkManifest
  \/ BeginVendoring \/ CopyTree \/ Rename

\* Ninja writes its output and its own entry of the history.
LEMMA NinjaBlames ==
  ASSUME BlameTyped, Ninja
  PROVE  /\ UNCHANGED <<disk, view>> /\ blame'.reapply = blame.reapply /\ blame'.view = blame.view
         /\ \E late : run' = [run EXCEPT !.at = "post", !.edited = late]
<1>1. \E mixed : blame' = [blame EXCEPT !.mixed = mixed]
  BY DEF Ninja
<1>2. blame'.reapply = blame.reapply /\ blame'.view = blame.view
  BY <1>1 DEF BlameTyped, BlameType
<1>3. UNCHANGED <<disk, view>> /\ \E late : run' = [run EXCEPT !.at = "post", !.edited = late]
  BY DEF Ninja, Output, Only
<1> QED  BY <1>2, <1>3

LEMMA OtherKeeps ==
  ASSUME Inv, CacheInv, OtherStep
  PROVE  UNCHANGED disk /\ CheckoutInv' /\ DiskInv'
<1> USE DEF OtherStep
<1>1. run # None
  BY DEF Require, OpenView, Link, GnGen, Ninja, PostBuild, Bundle, IsolateSymbols, WriteLinkManifest,
         BeginVendoring, CopyTree, Rename, At
<1>2. run \in RunType /\ RunTyped /\ KindInv /\ DiskInv /\ DiskFields
      /\ job.kind \in {"ensure", "build", "sync", "api", "vendor"}
  BY <1>1, Running, DiskFacts DEF Inv, CacheInv, RestTyped
<1>3. UNCHANGED disk /\ blame'.reapply = blame.reapply
  <2>1. CASE OpenView
    BY <2>1 DEF OpenView, View, Only, Inv, BlameTyped, BlameType
  <2>2. CASE Require \/ GnGen \/ Link
    BY <2>2 DEF Require, GnGen, Link, View, Only, ends
  <2>3. CASE PostBuild \/ Bundle \/ IsolateSymbols \/ WriteLinkManifest
    BY <2>3 DEF PostBuild, Bundle, IsolateSymbols, WriteLinkManifest, Output, Packaged, Only, Inv, BlameTyped,
                BlameType
  <2>5. CASE Ninja
    BY <2>5, NinjaBlames DEF Inv
  <2>4. CASE BeginVendoring \/ CopyTree \/ Rename
    BY <2>4 DEF BeginVendoring, CopyTree, Rename, Vendor, Only
  <2> QED  BY <2>1, <2>2, <2>3, <2>4, <2>5
<1>4. run.at \notin {"fetch", "reapply"}
  BY DEF Require, OpenView, Link, GnGen, Ninja, PostBuild, Bundle, IsolateSymbols, WriteLinkManifest,
         BeginVendoring, CopyTree, Rename, At
<1>5. CheckoutInv'
  BY <1>3, <1>4, CheckoutKept
<1>6. \/ run' = None
      \/ Moved("view") /\ run.at = "require" /\ HasHeaders /\ disk.deps # {}
      \/ run'.at = "links" /\ run'.job = run.job /\ run.at \in {"view", "links"}
      \/ Moved("gn") \/ Moved("bundle") \/ Moved("objcopy") \/ Moved("link manifest")
      \/ Moved("copy")
      \/ run'.at \in {"ninja", "post"}
      \/ Moved("rename") /\ vendor'.temporary # "partial"
  <2>1. CASE Require
    BY <1>1, <1>2, <2>1, Moving DEF Require, Refuse, Return, Stages, At
  <2>8. CASE GnGen
    BY <1>2, <2>8 DEF GnGen, Refuse, Return, RunType
  <2>2. CASE OpenView
    BY <1>2, <2>2 DEF OpenView, RunType, At
  <2>3. CASE Link
    <3>1. run.at = "links"
      BY <2>3 DEF Link, At
    <3>2. run' = [run EXCEPT !.op = @ + 1] => run'.at = "links" /\ run'.job = run.job
      BY <1>2, <3>1 DEF RunType
    <3> QED  BY <1>1, <1>2, <2>3, <3>1, <3>2, Moving DEF Link, Refuse, Return, Stages
  <2>4. CASE Ninja
    BY <1>2, <2>4, NinjaBlames DEF Inv, RunType
  <2>5. CASE PostBuild \/ Bundle \/ IsolateSymbols \/ WriteLinkManifest
    BY <1>1, <1>2, <2>5, Moving DEF PostBuild, Bundle, IsolateSymbols, WriteLinkManifest, Succeed, Return, Stages
  <2>6. CASE BeginVendoring \/ Rename
    BY <1>1, <1>2, <2>6, Moving DEF BeginVendoring, Rename, Succeed, Refuse, Return, Stages
  <2>7. CASE CopyTree
    <3>1. vendor' = [vendor EXCEPT !.temporary = disk.tree] /\ disk.tree # "partial"
      BY <1>2, <2>7 DEF CopyTree, Vendor, DiskFields, Patterns
    <3>2. vendor'.temporary # "partial"
      BY <3>1 DEF CacheInv, RestTyped
    <3> QED  BY <1>1, <1>2, <2>7, <3>2, Moving DEF CopyTree, Stages
  <2> QED  BY <2>1, <2>2, <2>3, <2>4, <2>5, <2>6, <2>7, <2>8
<1>7. DiskInv'
  BY <1>1, <1>2, <1>3, <1>6 DEF DiskInv, Moved, SourceTreeBuildable, HasHeaders, job
<1> QED  BY <1>3, <1>5, <1>7

LEMMA VendorKeeps ==
  ASSUME Inv, CacheInv, BeginVendoring \/ CopyTree \/ Rename \/ Fail \/ UNCHANGED vendor
  PROVE  vendor' \in [temporary : Trees, output : Trees \ {"partial"}]
<1>1. vendor \in [temporary : Trees, output : Trees \ {"partial"}] /\ DiskFields /\ DiskInv
  BY DiskFacts DEF CacheInv, RestTyped
<1>2. CASE BeginVendoring
  BY <1>1, <1>2 DEF BeginVendoring, Vendor, Trees
<1>3. CASE CopyTree
  BY <1>1, <1>3 DEF CopyTree, Vendor, Trees, DiskFields, Patterns
<1>4. CASE Rename
  <2>1. vendor.temporary # "partial"
    BY <1>1, <1>4 DEF Rename, At, DiskInv
  <2> QED  BY <1>1, <1>4, <2>1 DEF Rename, Vendor, Trees
<1>5. CASE Fail
  BY <1>1, <1>5 DEF Fail, Trees
<1> QED  BY <1>1, <1>2, <1>3, <1>4, <1>5

-----------------------------------------------------------------------------
(* Failures, edits and the lock.                                            *)

LEMMA MishapDisk ==
  ASSUME Inv, CacheInv, Fail \/ Kill
  PROVE  disk' \in DiskType /\ CheckoutInv' /\ DiskInv' /\ run' = None
<1>1. run # None /\ run' = None /\ disk \in DiskType /\ CheckoutInv /\ DiskFields
      /\ run \in RunType /\ blame.reapply \in BOOLEAN
  BY Running, DiskFacts DEF Fail, Kill, Return, CacheInv, RestTyped, Inv, BlameTyped, BlameType
<1>2. blame'.reapply = (blame.reapply \/ (run.at \in {"fetch", "reapply"} /\ run.reapply /\ disk.pinned))
  BY DEF Fail, Kill, Blamed, Inv, BlameTyped, BlameType
<1>3. \/ disk' = disk
      \/ disk.git = "none" /\ \E git \in {"bare", "remote"} : disk' = [disk EXCEPT !.git = git]
      \/ disk' = [disk EXCEPT !.depot = "partial"]
  BY DEF Fail, Kill, HalfDone, HalfInitialized
<1>4. disk' \in DiskType /\ disk'.pinned = disk.pinned /\ disk'.tree = disk.tree /\ disk'.manifest = disk.manifest
      /\ (disk.git = "remote" => disk'.git = "remote")
  BY <1>1, <1>3 DEF DiskType
<1>5. CheckoutInv'
  BY <1>1, <1>2, <1>4 DEF CheckoutInv
<1> QED  BY <1>1, <1>4, <1>5 DEF DiskInv

LEMMA LockDisk ==
  ASSUME Inv, CacheInv, EditWrapper \/ (\E b \in Builders : Ask(b) \/ \E j \in Jobs : Acquire(b, j))
  PROVE  /\ UNCHANGED <<disk, view, vendor>> /\ blame'.reapply = blame.reapply /\ blame'.view = blame.view
         /\ CheckoutInv' /\ DiskInv'
<1>1. UNCHANGED <<disk, view, vendor>> /\ blame'.reapply = blame.reapply /\ blame'.view = blame.view
  <2>1. \/ UNCHANGED <<disk, view, vendor, blame>>
        \/ UNCHANGED <<disk, view, vendor>> /\ \E mixed : blame' = [blame EXCEPT !.mixed = mixed]
    BY DEF EditWrapper, Ask, Acquire, ends
  <2> QED  BY <2>1 DEF Inv, BlameTyped, BlameType
<1>2. CASE run' = None /\ run = None
  BY <1>1, <1>2 DEF CacheInv, CheckoutInv, DiskInv
<1>3. CASE run # None /\ run' # None /\ run'.at = run.at /\ run'.job = run.job /\ run'.reapply = run.reapply
  <2>1. CheckoutInv'
    BY <1>1, <1>3 DEF CacheInv, CheckoutInv
  <2>2. DiskInv'
    BY <1>1, <1>3 DEF CacheInv, DiskInv, SourceTreeBuildable, HasHeaders, Wanted, job
  <2> QED  BY <1>1, <2>1, <2>2
<1>4. CASE run = None /\ run'.at \in {"check", "init", "require"} /\ (run'.at = "require" => run'.job.kind = "build")
  <2>1. CheckoutInv'
    BY <1>1, <1>4, CheckoutKept
  <2>2. DiskInv'
    BY <1>4 DEF DiskInv, job
  <2> QED  BY <1>1, <2>1, <2>2
<1>5. CASE EditWrapper
  <2>1. run # None => run \in RunType
    BY DEF Inv, RunTyped
  <2>2. run # None => run' = [run EXCEPT !.edited = TRUE]
    BY <1>5 DEF EditWrapper
  <2>3. run # None => run' # None /\ run'.at = run.at /\ run'.job = run.job /\ run'.reapply = run.reapply
    BY <2>1, <2>2, RunFacts DEF RunType, None
  <2>4. run = None => run' = None
    BY <1>5 DEF EditWrapper
  <2> QED  BY <1>2, <1>3, <2>3, <2>4
<1>6. CASE \E b \in Builders : Ask(b)
  <2>1. run' = run
    BY <1>6 DEF Ask
  <2> QED  BY <1>2, <1>3, <2>1
<1>7. CASE \E b \in Builders, j \in Jobs : Acquire(b, j)
  <2>1. PICK b \in Builders, j \in Jobs : Acquire(b, j)
    BY <1>7
  <2>2. j.kind \in {"ensure", "build", "sync", "api", "vendor"}
    BY JobFacts
  <2>3. run = None /\ run'.at = FirstStage(j) /\ run'.job = j
    BY <2>1 DEF Acquire
  <2> QED  BY <1>4, <2>2, <2>3 DEF FirstStage
<1> QED  BY <1>5, <1>6, <1>7

-----------------------------------------------------------------------------
(* Steps that write the view.                                               *)

\* The view part of the invariant, where the operation is at operation k of its plan.
Viewed(m, k, v, blamed) ==
  /\ v.marker = m /\ Steady(m, k, v)
  /\ ~blamed => Exact(m, k, v)

\* A step that leaves the view.
LEMMA ViewKept ==
  ASSUME Inv, CacheInv, UNCHANGED view, blame'.view = blame.view,
         run' # None /\ run'.at \in {"links", "gn", "ninja"} =>
           run # None /\ run'.at = run.at /\ run'.op = run.op /\ run'.job = run.job
  PROVE  ViewInv'
BY DEF CacheInv, ViewInv, Position, job

LEMMA ViewStep ==
  ASSUME Inv, CacheInv, OpenView \/ Link \/ GnGen
  PROVE  ViewInv'
<1>1. run # None /\ run \in RunType /\ run.op \in Nat /\ job.platform \in Platforms /\ ViewInv
      /\ blame \in BlameType
      /\ RunTyped
  BY Running, RunFacts DEF OpenView, Link, GnGen, At, Inv, CacheInv, BlameTyped, BlameType
<1> DEFINE m == job.platform
<1>2. Total[m] \in Nat /\ Total[m] > 0
  BY <1>1 DEF Total, Platforms
<1>3. CASE OpenView
  <2>1. view' = [view EXCEPT !.nodes = KeptView, !.marker = m]
        /\ blame' = [blame EXCEPT !.view = blame.view /\ KeptView # Empty]
        /\ run' = [run EXCEPT !.at = "links", !.op = 1]
    BY <1>1, <1>3 DEF OpenView, View
  <2>2. run' # None /\ run'.at = "links" /\ run'.op = 1 /\ run'.job = run.job
    BY <1>1, <2>1, RunFacts DEF RunType, None
  <2>3. blame'.view = (blame.view /\ KeptView # Empty)
    BY <1>1, <2>1
  <2>4. Sound(KeptView) /\ KeptView \in [Places -> Nodes]
    BY <1>1, EmptyView DEF KeptView, ViewInv, Sound
  <2>5. view' \in Views /\ view'.nodes = KeptView /\ view'.marker = m /\ view'.spoiled = view.spoiled
    BY <1>1, <2>1, <2>4 DEF ViewInv, Views
  <2>6. Unspoiled(view')
    BY <1>1, <2>5 DEF ViewInv, Unspoiled
  <2>7. ~blame'.view => Shaped(m, KeptView)
    <3>1. CASE KeptView = Empty
      BY <1>1, <3>1, EmptyView
    <3>2. CASE KeptView # Empty
      <4>1. view.marker \in {"none", m} /\ KeptView = view.nodes
        BY <3>2 DEF KeptView
      <4>2. "none" # m
        BY <1>1 DEF Platforms
      <4> QED  BY <1>1, <2>3, <3>2, <4>1, <4>2 DEF ViewInv
    <3> QED  BY <3>1, <3>2
  <2>8. Steady(m, 1, view') /\ (~blame'.view => Exact(m, 1, view'))
    BY <1>1, <2>4, <2>5, <2>6, <2>7, PlanBegins
  <2>9. 1 \in 1..Total[m] /\ m # "none"
    BY <1>1, <1>2 DEF Platforms
  <2> QED  BY <2>2, <2>4, <2>5, <2>6, <2>8, <2>9 DEF ViewInv, Position, job, Exact
<1>4. CASE Link
  <2>1. run.at = "links" /\ UNCHANGED blame
    BY <1>4 DEF Link, At
  <2>2. CASE run' = None /\ view' = view
    BY <2>1, <2>2, ViewKept
  <2>3. CASE /\ view' = Do(view, Plans[m][run.op])
             /\ IF run.op = Len(Plans[m]) THEN Go("gn") ELSE run' = [run EXCEPT !.op = @ + 1]
    <3>1. /\ view.marker = m /\ run.op \in 1..Total[m] /\ Steady(m, run.op, view)
          /\ ~blame.view => Settled(m, run.op, view.nodes)
      BY <1>1, <2>1 DEF ViewInv, Position
    <3>2. ~blame.view => Exact(m, run.op, view)
      BY <1>1, <3>1 DEF ViewInv, Exact, Platforms
    <3>3. Steady(m, run.op + 1, view') /\ view'.marker = m /\ (~blame.view => Exact(m, run.op + 1, view'))
      BY <1>1, <2>3, <3>1, <3>2, DoSteady
    <3>4. Len(Plans[m]) = Total[m]
      BY <1>1, PlansFit DEF Piece
    <3>5. CASE run.op = Total[m]
      <4>1. Moved("gn")
        BY <1>1, <2>3, <3>4, <3>5, Moving DEF Stages
      <4>2. m # "none"
        BY <1>1 DEF Platforms
      <4> QED  BY <2>1, <3>3, <3>5, <4>1, <4>2 DEF ViewInv, Position, job, Exact, Steady, Moved
    <3>6. CASE run.op # Total[m]
      <4>1. run' = [run EXCEPT !.op = run.op + 1] /\ run.op + 1 \in 1..Total[m]
        BY <1>1, <1>2, <2>3, <3>1, <3>4, <3>6
      <4>2. run'.at = "links" /\ run'.op = run.op + 1 /\ run'.job = run.job
        BY <1>1, <2>1, <4>1 DEF RunType
      <4>3. m # "none"
        BY <1>1 DEF Platforms
      <4> QED  BY <2>1, <3>3, <4>1, <4>2, <4>3 DEF ViewInv, Position, job, Exact, Steady
    <3> QED  BY <3>5, <3>6
  <2> QED  BY <1>4, <2>2, <2>3 DEF Link, View, Refuse, Return
<1>5. CASE GnGen
  <2>1. run.at = "gn" /\ UNCHANGED blame /\ UNCHANGED view
    BY <1>5 DEF GnGen, At, Only, ends
  <2>2. run' = None \/ (run'.at = "ninja" /\ run'.job = run.job)
    BY <1>1, <1>5 DEF GnGen, Refuse, Return, RunType
  <2> QED  BY <1>1, <2>1, <2>2 DEF ViewInv, Position, job
<1> QED  BY <1>3, <1>4, <1>5

LEMMA KillView ==
  ASSUME Inv, CacheInv, Kill
  PROVE  ViewInv'
<1>1. run # None /\ run' = None /\ run \in RunType /\ RunTyped /\ job.platform \in Platforms /\ ViewInv
      /\ blame \in BlameType
      /\ view' \in HalfWritten(view)
  BY Running DEF Kill, Inv, CacheInv, BlameTyped, BlameType
<1>2. blame'.view = (blame.view \/ Torn(view'))
  BY <1>1 DEF Kill, Blamed, BlameType
<1> DEFINE m == job.platform
<1>3. ASSUME view' \in Views, Sound(view'.nodes), Unspoiled(view'),
             ~blame.view /\ ~Torn(view') =>
               IF view'.marker = "none" THEN view'.nodes = Empty ELSE Shaped(view'.marker, view'.nodes)
      PROVE  ViewInv'
  BY <1>1, <1>2, <1>3, Zenon DEF ViewInv
<1>4. CASE view' = view
  BY <1>1, <1>3, <1>4 DEF ViewInv
<1>5. CASE run.at = "view" /\ view' # view
  <2>1. PICK kept \in Remainders, mark \in {view.marker, "none"} :
          view' = [view EXCEPT !.nodes = [p \in Places |-> IF p \in kept THEN view.nodes[p] ELSE "absent"],
                               !.marker = mark]
    <3> DEFINE Half(kept, mark) ==
                 [view EXCEPT !.nodes = [p \in Places |-> IF p \in kept THEN view.nodes[p] ELSE "absent"],
                              !.marker = mark]
               Halves == {Half(kept, mark) : kept \in Remainders, mark \in {view.marker, "none"}}
    <3>1. HalfWritten(view) = HalfRemoved(view)
      <4>1. At("view") /\ ~At("links")
        BY <1>1, <1>5 DEF At
      <4> QED  BY <4>1 DEF HalfWritten
    <3>2. HalfRemoved(view) = IF view.marker \in {"none", m} THEN {view} ELSE Halves
      BY DEF HalfRemoved
    <3> HIDE DEF Half
    <3>3. view' \in Halves
      BY <1>1, <1>5, <3>1, <3>2
    <3>4. \E kept \in Remainders, mark \in {view.marker, "none"} : view' = Half(kept, mark)
      BY <3>3
    <3> QED  BY <3>4, Zenon DEF Half
  <2> DEFINE nodes == [p \in Places |-> IF p \in kept THEN view.nodes[p] ELSE "absent"]
  <2>2. nodes \in [Places -> Nodes] /\ \A p \in Places : nodes[p] \in {view.nodes[p], "absent"}
    BY <1>1 DEF ViewInv, Sound, Nodes
  <2>3. "config" \in Places /\ "args" \in Places /\ Up["args"] = "config"
    BY DEF Places, Up
  <2>4. view' \in Views /\ view'.nodes = nodes /\ view'.marker = mark /\ view'.spoiled = view.spoiled
    BY <1>1, <2>1, <2>2 DEF ViewInv, Views
  <2> HIDE DEF nodes
  <2>5. Sound(nodes) /\ Unspoiled(view')
    BY <1>1, <2>2, <2>4, Tables DEF ViewInv, Sound, Unspoiled
  <2>6. ASSUME ~blame.view, ~Torn(view'), mark # "none" PROVE Shaped(mark, nodes)
    <3>1. Shaped(mark, view.nodes)
      BY <1>1, <2>6 DEF ViewInv
    <3>2. \A p \in Places : nodes[p] \in Allowed(mark, p)
      BY <2>2, <3>1 DEF Shaped, Allowed
    <3>3. ASSUME nodes["config"] = "dir" PROVE view.nodes["config"] = "dir" /\ nodes["args"] = view.nodes["args"]
      <4>1. view.nodes["config"] = "dir"
        BY <2>2, <2>3, <3>3
      <4>2. nodes["args"] = view.nodes["args"]
        BY <1>1, <1>5, <2>3, <2>4, <2>6, <3>3 DEF Torn, At
      <4> QED  BY <4>1, <4>2
    <3> QED  BY <3>1, <3>2, <3>3 DEF Shaped
  <2>7. mark = "none" /\ ~Torn(view') => nodes = Empty
    BY <1>5, <2>4, <1>1 DEF Torn, At
  <2> QED  BY <1>3, <2>4, <2>5, <2>6, <2>7
<1>6. CASE run.at = "links"
  <2>1. /\ view.marker = m /\ run.op \in 1..Total[m] /\ Steady(m, run.op, view)
    BY <1>1, <1>6 DEF ViewInv, Position
  <2>2. view' \in BrokenOff(view, Plans[m][run.op])
    BY <1>1, <1>6 DEF HalfWritten, At
  <2>3. /\ view' \in Views /\ Sound(view'.nodes) /\ Unspoiled(view') /\ view'.marker = m
        /\ Shaped(m, view.nodes) /\ (Plans[m][run.op].do = "materialize" => view' = view) => Shaped(m, view'.nodes)
    BY <1>1, <2>1, <2>2, BrokenSteady
  <2>4. m # "none"
    BY <1>1 DEF Platforms
  <2>5. ~Torn(view') => (Plans[m][run.op].do = "materialize" => view' = view)
    BY <1>1, <1>6 DEF Torn, At
  <2>6. ~blame.view => Shaped(m, view.nodes)
    BY <1>1, <2>1, <2>4 DEF ViewInv
  <2> QED  BY <1>3, <2>3, <2>4, <2>5, <2>6
<1>7. view' = view \/ run.at = "view" \/ run.at = "links"
  BY <1>1 DEF HalfWritten, At
<1> QED  BY <1>4, <1>5, <1>6, <1>7

-----------------------------------------------------------------------------
(* Reports.                                                                 *)

\* The step that refuses names its obstacle.
LEMMA Refused ==
  ASSUME Inv, CacheInv, UNCHANGED <<disk, view, vendor, blame>>, run # None,
         last' = [kind |-> "ended", job |-> job, ok |-> FALSE, clean |-> TRUE],
         KnownObstacle(job)
  PROVE  CleanRunSucceeds'
BY DEF CleanRunSucceeds, KnownObstacle, SourceTreeBuildable, HasHeaders, job

LEMMA NothingRefused ==
  ASSUME last' = None \/ last'.ok \/ ~last'.clean
  PROVE  CleanRunSucceeds'
BY DEF CleanRunSucceeds

LEMMA SyncReports ==
  ASSUME Inv, CacheInv, SyncStep
  PROVE  CleanRunSucceeds'
<1> USE DEF SyncStep
<1>1. run # None /\ last = None
  BY DEF Check, InitRepository, WriteManifest, Fetch, Reapply, DepotTools, WriteGclient, SyncDependencies,
         Lastchange, At, Inv, StageInv
<1>2. /\ DiskInv /\ CheckoutInv /\ DiskFields /\ KindInv
      /\ job.kind \in {"ensure", "build", "sync", "api", "vendor"}
  BY <1>1, Running, DiskFacts DEF Inv, CacheInv, RestTyped
<1>3. CASE last' = None \/ Succeed
  BY <1>3, NothingRefused DEF Succeed, Return
<1>4. ASSUME Refuse, UNCHANGED <<disk, view, vendor, blame>>, KnownObstacle(job) PROVE CleanRunSucceeds'
  BY <1>1, <1>4, Refused DEF Refuse, Return
<1>5. CASE Check \/ InitRepository \/ WriteManifest \/ WriteGclient \/ SyncDependencies
  BY <1>1, <1>3, <1>5 DEF Check, InitRepository, WriteManifest, WriteGclient, SyncDependencies, Go
<1>9. CASE Reapply
  <2>1. \/ last' = None \/ Succeed
        \/ Refuse /\ UNCHANGED <<disk, view, vendor, blame>> /\ disk.git = "remote"
    BY <1>1, <1>9 DEF Reapply, Disk, Only, Go
  <2>2. disk.git = "remote" => KnownObstacle(job)
    BY DEF KnownObstacle
  <2> QED  BY <1>3, <1>4, <2>1, <2>2
<1>6. CASE Fetch
  <2>1. last' = None \/ (Refuse /\ UNCHANGED <<disk, view, vendor, blame>> /\ disk.git = "bare")
    BY <1>1, <1>6 DEF Fetch, Disk, Only, Go
  <2>3. disk.git = "bare" => KnownObstacle(job)
    BY DEF KnownObstacle
  <2> QED  BY <1>3, <1>4, <2>1, <2>3
<1>7. CASE DepotTools
  <2>1. last' = None \/ (Refuse /\ disk.depot = "partial")
    BY <1>1, <1>7 DEF DepotTools, Go
  <2>2. disk.depot = "partial" => UNCHANGED <<disk, view, vendor, blame>>
    BY <1>7 DEF DepotTools, Disk, Only, CacheInv, RestTyped, DiskType
  <2>3. disk.depot = "partial" => KnownObstacle(job)
    BY DEF KnownObstacle
  <2> QED  BY <1>3, <1>4, <2>1, <2>2, <2>3
<1>8. CASE Lastchange
  <2>1. run.at = "lastchange" /\ job.kind \in {"sync", "ensure", "vendor"}
    BY <1>1, <1>2, <1>8 DEF Lastchange, At, KindInv, SyncStages
  <2>2. CASE disk.tree = "build"
    BY <1>1, <1>3, <1>8, <2>1, <2>2 DEF Lastchange, Go
  <2>3. CASE disk.tree # "build"
    <3>1. disk.pinned /\ disk.manifest = "build"
      BY <1>1, <1>2, <2>1 DEF DiskInv, Wanted
    <3>2. disk.git = "remote" \/ (blame.reapply /\ disk.tree # disk.manifest)
      BY <1>2, <2>1, <2>3, <3>1 DEF CheckoutInv
    <3>3. Refuse /\ UNCHANGED <<disk, view, vendor, blame>>
      BY <1>8, <2>3 DEF Lastchange, Disk, Only
    <3>4. KnownObstacle(job)
      BY <3>2 DEF KnownObstacle
    <3> QED  BY <1>4, <3>3, <3>4
  <2> QED  BY <2>2, <2>3
<1> QED  BY <1>5, <1>6, <1>7, <1>8, <1>9

\* At GN's turn nothing is missing from a view that is not blamed.
LEMMA NothingMissing ==
  ASSUME Inv, CacheInv, run # None, run.at \in {"gn", "ninja"}, ~blame.view
  PROVE  view.nodes = FreshViews[job.platform]
<1>1. job.platform \in Platforms /\ ViewInv
  BY Running DEF Inv, CacheInv
<1>2. Sound(view.nodes) /\ Settled(job.platform, Total[job.platform] + 1, view.nodes)
  BY <1>1 DEF ViewInv, Position
<1> QED  BY <1>1, <1>2, PlanEnds, Fresh

LEMMA OtherReports ==
  ASSUME Inv, CacheInv, OtherStep
  PROVE  CleanRunSucceeds'
<1> USE DEF OtherStep
<1>1. run # None /\ last = None
  BY DEF Require, OpenView, Link, GnGen, Ninja, PostBuild, Bundle, IsolateSymbols, WriteLinkManifest,
         BeginVendoring, CopyTree, Rename, At, Inv, StageInv
<1>2. /\ DiskInv /\ CheckoutInv /\ DiskFields /\ KindInv
      /\ job.kind \in {"ensure", "build", "sync", "api", "vendor"}
  BY <1>1, Running, DiskFacts DEF Inv, CacheInv, RestTyped
<1>3. CASE last' = None \/ Succeed
  BY <1>3, NothingRefused DEF Succeed, Return
<1>4. ASSUME Refuse, UNCHANGED <<disk, view, vendor, blame>>, KnownObstacle(job) PROVE CleanRunSucceeds'
  BY <1>1, <1>4, Refused DEF Refuse, Return
<1>5. CASE Require
  <2>1. run.at = "require" /\ UNCHANGED <<disk, view, vendor, blame>>
        /\ (last' = None \/ (Refuse /\ ~(HasHeaders /\ disk.deps # {})))
    BY <1>1, <1>5 DEF Require, At, Only, ends, Go
  <2>2. CASE Refuse /\ ~(HasHeaders /\ disk.deps # {})
    <3>1. ~SourceTreeBuildable
      BY <2>2 DEF SourceTreeBuildable
    <3>2. job.kind = "build"
      BY <1>1, <1>2, <2>1, <3>1 DEF KindInv, BuildStages, Builds, DiskInv
    <3>3. KnownObstacle(job)
      BY <3>1, <3>2 DEF KnownObstacle
    <3> QED  BY <1>4, <2>1, <2>2, <3>3
  <2> QED  BY <1>3, <2>1, <2>2
<1>6. CASE OpenView \/ Ninja \/ Bundle \/ IsolateSymbols \/ CopyTree
  BY <1>1, <1>3, <1>6 DEF OpenView, Ninja, Bundle, IsolateSymbols, CopyTree, Go
<1>7. CASE Link
  <2>1. run.at = "links" /\ UNCHANGED blame
        /\ (last' = None \/ (Refuse /\ UNCHANGED <<disk, view, vendor>> /\ disk.tree # "build"))
    BY <1>1, <1>7 DEF Link, At, View, Only, Go
  <2>2. ASSUME disk.tree # "build" PROVE KnownObstacle(job)
    <3>1. HasHeaders /\ disk.deps # {} /\ (job.kind = "ensure" => SourceTreeBuildable)
      BY <1>1, <1>2, <2>1 DEF DiskInv
    <3>2. disk.tree = "api"
      BY <1>2, <2>2, <3>1 DEF HasHeaders, DiskFields, Patterns
    <3>3. job.kind \in {"ensure", "build"}
      BY <1>1, <1>2, <2>1 DEF KindInv, BuildStages, Builds
    <3> QED  BY <3>1, <3>2, <3>3 DEF KnownObstacle
  <2> QED  BY <1>3, <1>4, <2>1, <2>2
<1>8. CASE GnGen
  <2>1. run.at = "gn" /\ UNCHANGED <<disk, view, vendor, blame>>
        /\ (last' = None \/ (Refuse /\ ~(SystemOf(job.platform) \in disk.deps /\ Missing = {})))
    BY <1>1, <1>8 DEF GnGen, At, Only, ends, Go
  <2>2. Builds(job)
    BY <1>1, <1>2, <2>1 DEF KindInv, BuildStages
  <2>3. SystemOf(job.platform) \notin disk.deps => KnownObstacle(job)
    BY <2>2 DEF KnownObstacle
  <2>4. ASSUME Missing # {} PROVE KnownObstacle(job)
    <3>1. blame.view
      BY <1>1, <2>1, <2>4, NothingMissing DEF Missing
    <3>2. \E p \in Places : view.nodes[p] = "absent" /\ FreshViews[job.platform][p] # "absent"
      BY <2>4 DEF Missing
    <3> QED  BY <2>2, <3>1, <3>2 DEF KnownObstacle
  <2> QED  BY <1>3, <1>4, <2>1, <2>3, <2>4
<1>9. CASE PostBuild \/ WriteLinkManifest \/ Rename
  BY <1>1, <1>3, <1>9 DEF PostBuild, WriteLinkManifest, Rename, Go
<1>10. CASE BeginVendoring
  <2>1. last' = None \/ (Refuse /\ UNCHANGED <<disk, view, vendor, blame>> /\ vendor.output # "none")
    BY <1>1, <1>10 DEF BeginVendoring, Vendor, Only, Go
  <2>2. job.kind = "vendor"
    BY <1>1, <1>2, <1>10 DEF BeginVendoring, At, KindInv
  <2>3. vendor.output # "none" => KnownObstacle(job)
    BY <2>2 DEF KnownObstacle
  <2> QED  BY <1>3, <1>4, <2>1, <2>3
<1> QED  BY <1>5, <1>6, <1>7, <1>8, <1>9, <1>10

LEMMA LockReports ==
  ASSUME Inv, CacheInv, CleanRunSucceeds,
         Fail \/ Kill \/ EditWrapper \/ (\E b \in Builders : Ask(b) \/ \E j \in Jobs : Acquire(b, j))
  PROVE  CleanRunSucceeds'
<1>1. CASE Fail
  BY <1>1, NothingRefused DEF Fail, Return
<1>2. CASE Kill \/ EditWrapper
  BY <1>2, NothingRefused DEF Kill, EditWrapper
<1>3. CASE \E b \in Builders : Ask(b)
  <2>1. UNCHANGED <<disk, view, vendor, blame, last>>
    BY <1>3 DEF Ask, ends
  <2> QED  BY <2>1 DEF CleanRunSucceeds, KnownObstacle, SourceTreeBuildable, HasHeaders
<1>4. CASE \E b \in Builders, j \in Jobs : Acquire(b, j)
  BY <1>4, NothingRefused DEF Acquire
<1> QED  BY <1>1, <1>2, <1>3, <1>4

-----------------------------------------------------------------------------
(* The invariant.                                                           *)

LEMMA OtherViews ==
  ASSUME Inv, CacheInv,
         \/ SyncStep
         \/ Require \/ Ninja \/ PostBuild \/ Bundle \/ IsolateSymbols \/ WriteLinkManifest
         \/ BeginVendoring \/ CopyTree \/ Rename
         \/ Fail
         \/ EditWrapper \/ (\E b \in Builders : Ask(b) \/ \E j \in Jobs : Acquire(b, j))
  PROVE  ViewInv'
<1> DEFINE Away == run' = None \/ run'.at \notin {"links", "gn", "ninja"}
           Quiet == UNCHANGED view /\ blame'.view = blame.view
<1>1. ASSUME NEW stage \in Stages, run # None, Go(stage), stage \notin {"links", "gn", "ninja"} PROVE Away
  BY <1>1, Moving DEF Inv, Moved
<1>2. CASE Quiet /\ Away
  BY <1>2, ViewKept
<1> HIDE DEF Away
<1> USE DEF Stages
<1>3. CASE SyncStep
  <2>1. run # None /\ run \in RunType /\ (run.at = "lastchange" => job.kind \in {"sync", "ensure", "vendor"})
        /\ Quiet
    <3>1. run # None /\ UNCHANGED view /\ UNCHANGED blame
      BY <1>3 DEF SyncStep, Check, InitRepository, WriteManifest, Fetch, Reapply, DepotTools, WriteGclient,
                  SyncDependencies, Lastchange, At, Disk, Only, ends
    <3> QED  BY <3>1, Running DEF Inv, KindInv, SyncStages
  <2>2. run' = None => Away
    BY DEF Away
  <2>3. CASE Check
    BY <1>1, <1>2, <2>1, <2>2, <2>3 DEF Check, Succeed, Return
  <2>4. CASE InitRepository \/ Reapply \/ DepotTools \/ WriteGclient \/ SyncDependencies
    BY <1>1, <1>2, <2>1, <2>2, <2>4 DEF InitRepository, Reapply, DepotTools, WriteGclient, SyncDependencies, Succeed,
                                  Refuse, Return
  <2>5. CASE WriteManifest
    BY <1>2, <2>1, <2>5 DEF WriteManifest, RunType, Away
  <2>6. CASE Fetch
    <3>1. run' = [run EXCEPT !.at = "reapply", !.reapply = TRUE] => Away
      BY <2>1 DEF RunType, Away
    <3> QED  BY <1>1, <1>2, <2>1, <2>2, <2>6, <3>1 DEF Fetch, Refuse, Return
  <2>7. CASE Lastchange
    BY <1>1, <1>2, <2>1, <2>2, <2>7 DEF Lastchange, At, Succeed, Refuse, Return
  <2> QED  BY <1>2, <1>3, <2>1, <2>3, <2>4, <2>5, <2>6, <2>7 DEF SyncStep
<1>4. CASE Require \/ Ninja \/ PostBuild \/ Bundle \/ IsolateSymbols \/ WriteLinkManifest
           \/ BeginVendoring \/ CopyTree \/ Rename
  <2>1. run # None /\ run \in RunType
    BY <1>4, Running DEF Require, Ninja, PostBuild, Bundle, IsolateSymbols, WriteLinkManifest, BeginVendoring,
                         CopyTree, Rename, At, Inv
  <2>2. Quiet
    <3>1. CASE Require \/ BeginVendoring \/ CopyTree \/ Rename
      BY <3>1 DEF Require, BeginVendoring, CopyTree, Rename, Vendor, Only, ends
    <3>2. CASE PostBuild \/ Bundle \/ IsolateSymbols \/ WriteLinkManifest
      BY <3>2 DEF PostBuild, Bundle, IsolateSymbols, WriteLinkManifest, Output, Only, Packaged, Inv, BlameTyped,
                  BlameType
    <3>3. CASE Ninja
      BY <3>3, NinjaBlames DEF Inv
    <3> QED  BY <1>4, <3>1, <3>2, <3>3
  <2>3. run' = None => Away
    BY DEF Away
  <2>4. CASE Ninja
    <3>1. \E late : run' = [run EXCEPT !.at = "post", !.edited = late]
      BY <2>4, NinjaBlames DEF Inv
    <3> QED  BY <1>2, <2>1, <2>2, <3>1 DEF RunType, Away
  <2>5. CASE Require \/ PostBuild \/ Bundle \/ IsolateSymbols \/ WriteLinkManifest
    BY <1>1, <1>2, <2>1, <2>2, <2>3, <2>5 DEF Require, PostBuild, Bundle, IsolateSymbols,
       WriteLinkManifest, Succeed, Refuse, Return
  <2>6. CASE BeginVendoring \/ CopyTree \/ Rename
    BY <1>1, <1>2, <2>1, <2>2, <2>3, <2>6 DEF BeginVendoring, CopyTree, Rename, Succeed, Refuse, Return
  <2> QED  BY <1>2, <1>4, <2>2, <2>4, <2>5, <2>6
<1>5. CASE Fail
  BY <1>2, <1>5 DEF Fail, Return, Blamed, Away, Inv, BlameTyped, BlameType
<1>6. CASE EditWrapper
  <2>1. Quiet
    BY <1>6, LockDisk
  <2>2. CASE run = None
    BY <1>2, <1>6, <2>1, <2>2 DEF EditWrapper, Away
  <2>3. CASE run # None
    <3>1. run' = [run EXCEPT !.edited = TRUE] /\ run \in RunType
      BY <1>6, <2>3, Running DEF EditWrapper, Inv
    <3>2. run'.at = run.at /\ run'.op = run.op /\ run'.job = run.job
      BY <3>1 DEF RunType
    <3> QED  BY <2>1, <2>3, <3>2, ViewKept
  <2> QED  BY <2>2, <2>3
<1>7. CASE \E b \in Builders : Ask(b)
  <2>1. Quiet /\ run' = run
    BY <1>7 DEF Ask, ends
  <2>2. run' = None => Away
    BY DEF Away
  <2> QED  BY <1>2, <2>1, <2>2, ViewKept
<1>8. CASE \E b \in Builders, j \in Jobs : Acquire(b, j)
  <2>1. PICK b \in Builders, j \in Jobs : Acquire(b, j)
    BY <1>8
  <2>2. j.kind \in {"ensure", "build", "sync", "api", "vendor"}
    BY JobFacts
  <2>3. Quiet /\ run'.at = FirstStage(j)
    BY <2>1 DEF Acquire, ends
  <2>4. Away
    BY <2>2, <2>3 DEF FirstStage, Away
  <2> QED  BY <1>2, <2>3, <2>4
<1> QED  BY <1>3, <1>4, <1>5, <1>6, <1>7, <1>8

\* The processes that wait, and the report.
LEMMA ReportTyped ==
  ASSUME Inv, CacheInv, Next
  PROVE  /\ waiting' \subseteq Builders
         /\ last' = None \/ last' \in [kind : {"ended"}, job : Jobs, ok : BOOLEAN, clean : BOOLEAN]
<1> DEFINE Reports == [kind : {"ended"}, job : Jobs, ok : BOOLEAN, clean : BOOLEAN]
<1>1. waiting \subseteq Builders /\ (last = None \/ last \in Reports)
  BY DEF CacheInv, RestTyped
<1>2. ASSUME run # None, NEW ok \in BOOLEAN, NEW clean \in BOOLEAN, Return(ok, clean) PROVE last' \in Reports
  <2>1. job \in Jobs
    BY <1>2, Running DEF Inv
  <2> QED  BY <1>2, <2>1 DEF Return
<1>3. ASSUME run # None, Succeed \/ Refuse \/ Return(FALSE, FALSE) PROVE last' \in Reports
  BY <1>2, <1>3 DEF Succeed, Refuse
<1> SUFFICES waiting' \subseteq Builders /\ (last' = None \/ last' \in Reports)
  OBVIOUS
<1> HIDE DEF Reports
<1>4. CASE SyncStep
  <2>1. run # None /\ UNCHANGED waiting /\ (run.at = "lastchange" => job.kind \in {"sync", "ensure", "vendor"})
    <3>1. run # None /\ UNCHANGED waiting
      BY <1>4 DEF SyncStep, Check, InitRepository, WriteManifest, Fetch, Reapply, DepotTools, WriteGclient,
                  SyncDependencies, Lastchange, At, Disk, Only
    <3> QED  BY <3>1, Running DEF Inv, KindInv, SyncStages
  <2>2. last' = last \/ Succeed \/ Refuse
    BY <1>4, <2>1 DEF SyncStep, Check, InitRepository, WriteManifest, Fetch, Reapply, DepotTools, WriteGclient,
                      SyncDependencies, Lastchange, Go, At
  <2> QED  BY <1>1, <1>3, <2>1, <2>2
<1>5. CASE OtherStep
  <2>1. run # None
    BY <1>5 DEF OtherStep, Require, OpenView, Link, GnGen, Ninja, PostBuild, Bundle, IsolateSymbols,
                WriteLinkManifest, BeginVendoring, CopyTree, Rename, At
  <2>2. UNCHANGED waiting /\ (last' = last \/ Succeed \/ Refuse)
    BY <1>5 DEF OtherStep, Require, OpenView, Link, GnGen, Ninja, PostBuild, Bundle, IsolateSymbols,
                WriteLinkManifest, BeginVendoring, CopyTree, Rename, Go, View, Output, Vendor, Only
  <2> QED  BY <1>1, <1>3, <2>1, <2>2
<1>6. CASE Fail \/ Kill \/ EditWrapper
  BY <1>1, <1>3, <1>6 DEF Fail, Kill, EditWrapper
<1>7. CASE \E b \in Builders : Ask(b) \/ \E j \in Jobs : Acquire(b, j)
  BY <1>1, <1>7 DEF Ask, Acquire
<1> QED  BY <1>1, <1>4, <1>5, <1>6, <1>7 DEF Next, SyncStep, OtherStep

LEMMA CacheStep ==
  ASSUME Inv, CacheInv, CleanRunSucceeds, Next
  PROVE  CacheInv' /\ CleanRunSucceeds'
<1>1. \/ SyncStep \/ OtherStep
      \/ Fail \/ Kill
      \/ EditWrapper \/ (\E b \in Builders : Ask(b) \/ \E j \in Jobs : Acquire(b, j))
  BY DEF Next, SyncStep, OtherStep
<1>2. ViewInv'
  BY <1>1, OtherViews, ViewStep, KillView DEF OtherStep
<1>3. disk' \in DiskType /\ CheckoutInv' /\ DiskInv'
  BY <1>1, SyncKeeps, OtherKeeps, MishapDisk, LockDisk DEF CacheInv, RestTyped
<1>4. vendor' \in [temporary : Trees, output : Trees \ {"partial"}]
  <2>1. BeginVendoring \/ CopyTree \/ Rename \/ Fail \/ UNCHANGED vendor
    <3>1. SyncStep => UNCHANGED vendor
      BY DEF SyncStep, Check, InitRepository, WriteManifest, Fetch, Reapply, DepotTools, WriteGclient,
             SyncDependencies, Lastchange, Disk, Only, ends
    <3>2. OtherStep => BeginVendoring \/ CopyTree \/ Rename \/ UNCHANGED vendor
      BY DEF OtherStep, Require, OpenView, Link, GnGen, Ninja, PostBuild, Bundle, IsolateSymbols,
             WriteLinkManifest, View, Output, Only, ends
    <3>3. Kill \/ EditWrapper \/ (\E b \in Builders : Ask(b) \/ \E j \in Jobs : Acquire(b, j)) => UNCHANGED vendor
      BY DEF Kill, EditWrapper, Ask, Acquire, ends
    <3> QED  BY <1>1, <3>1, <3>2, <3>3
  <2> QED  BY <2>1, VendorKeeps
<1>5. RestTyped'
  BY <1>3, <1>4, ReportTyped DEF RestTyped
<1>6. CleanRunSucceeds'
  BY <1>1, SyncReports, OtherReports, LockReports
<1> QED  BY <1>2, <1>3, <1>5, <1>6 DEF CacheInv

LEMMA CacheBegins ==
  ASSUME Init
  PROVE  CacheInv /\ CleanRunSucceeds
<1>1. RestTyped
  BY DEF Init, RestTyped, NoDisk, DiskType, Patterns, Systems, Trees
<1>2. CheckoutInv /\ DiskInv /\ CleanRunSucceeds
  BY DEF Init, NoDisk, CheckoutInv, DiskInv, CleanRunSucceeds
<1>3. ViewInv
  BY EmptyView DEF Init, ViewInv, NoView
<1> QED  BY <1>1, <1>2, <1>3 DEF CacheInv

LEMMA CacheInvariance == Spec => [](Inv /\ CacheInv /\ CleanRunSucceeds)
<1> DEFINE All == CacheInv /\ CleanRunSucceeds
<1>1. Init => All
  BY CacheBegins
<1>2. Inv /\ All /\ [Next]_vars => All'
  <2>1. Inv /\ All /\ Next => All'
    BY CacheStep
  <2>2. Inv /\ All /\ UNCHANGED vars => All'
    <3> SUFFICES ASSUME Inv, All, UNCHANGED vars PROVE All'
      OBVIOUS
    <3>1. RestTyped' /\ CheckoutInv'
      BY DEF vars, CacheInv, RestTyped, CheckoutInv
    <3>2. DiskInv'
      BY DEF vars, CacheInv, DiskInv, SourceTreeBuildable, HasHeaders, Wanted, job
    <3>3. ViewInv'
      BY DEF vars, CacheInv, ViewInv, Position, job
    <3>4. CleanRunSucceeds'
      BY DEF vars, CleanRunSucceeds, KnownObstacle, SourceTreeBuildable, HasHeaders
    <3> QED  BY <3>1, <3>2, <3>3, <3>4 DEF CacheInv
  <2> QED  BY <2>1, <2>2
<1> HIDE DEF All
<1>3. Spec => []Inv
  BY Invariance
<1>4. Spec => []All
  BY <1>1, <1>2, <1>3, PTL DEF Spec
<1> QED  BY <1>3, <1>4, PTL DEF All

-----------------------------------------------------------------------------
(* The theorems.                                                            *)

\* Where ensure_native_from_source or cargo xtask build reports success, the library
\* is there with all that belongs to it and no older than the wrappers, whatever
\* earlier operations of any processes have left; but for a library whose packaging
\* was broken off after Ninja, and one that was old where newer files came beside it.
THEOREM InstallationsComplete == Spec => []InstalledIsComplete
<1>1. Inv => InstalledIsComplete
  BY DEF Inv
<1> QED  BY <1>1, Invariance, PTL

\* Every variable keeps its range (main.rs); among them that vendor_source's copy
\* reaches its place whole.
THEOREM TypeCorrect == Spec => []TypeOK
<1>1. Inv /\ CacheInv => TypeOK
  BY DEF Inv, CacheInv, RestTyped, ViewInv, RunTyped, RunType, OutTyped, TypeOK
<1> QED  BY <1>1, CacheInvariance, PTL

\* A build compiles the view that it would make where there was none and finds the
\* files behind its links as they were (write_cronet_overlay), whatever earlier builds
\* and failures have left; but for a view that a kill has torn, and for the one
\* committed file of an OHOS build that fs::write reaches through its link.
THEOREM BuildsOwnView == Spec => []BuildsSeeTheirOwnView
<1>1. ASSUME Inv, CacheInv PROVE BuildsSeeTheirOwnView
  <2>1. view.spoiled \subseteq {<<"ohos", "pa_gn">>}
    BY <1>1 DEF CacheInv, ViewInv, Unspoiled
  <2>2. ASSUME At("ninja"), ~blame.view, NEW p \in Places
        PROVE  /\ view.nodes[p] = FreshViews[job.platform][p]
               /\ Contents(view, p) = FreshViews[job.platform][p] \/ (job.platform = "ohos" /\ p = "pa_gn")
    <3>1. view.nodes = FreshViews[job.platform]
      BY <1>1, <2>2, NothingMissing DEF At
    <3>2. job.platform \in Platforms
      BY <1>1, <2>2, Running DEF At, Inv
    <3>3. CASE <<view.nodes[p], p>> \notin view.spoiled
      BY <3>1, <3>3 DEF Contents
    <3>4. CASE <<view.nodes[p], p>> \in view.spoiled
      <4>1. p = "pa_gn" /\ Final[job.platform][p] = "ohos"
        BY <2>1, <3>1, <3>2, <3>4, Fresh
      <4>2. job.platform = "ohos"
        BY <3>2, <4>1 DEF Final, Platforms
      <4> QED  BY <3>1, <4>1, <4>2
    <3> QED  BY <3>3, <3>4
  <2> QED  BY <2>1, <2>2 DEF BuildsSeeTheirOwnView
<1> QED  BY <1>1, CacheInvariance, PTL

\* An operation in which no command fails succeeds, or meets one of the obstacles of
\* KnownObstacle (sync_source, build_native_unlocked, vendor_source).
THEOREM CleanRuns == Spec => []CleanRunSucceeds
BY CacheInvariance, PTL
=============================================================================

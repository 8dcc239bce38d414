---------------------------- MODULE SourceCache ----------------------------
(***************************************************************************)
(* The source builder (xtask/src/main.rs): Cargo build scripts and         *)
(* cargo xtask commands that share one cache, a directory with a sparse    *)
(* Chromium checkout, its build tools, a generated GN view, the build      *)
(* output of each target, and perhaps a vendored copy of the checkout.     *)
(* Each operation takes the lock of the cache, looks at what the directory *)
(* has, and does what it finds missing; the directory is all that is left  *)
(* of an operation that failed or was killed, and the next one starts from *)
(* it.                                                                     *)
(*                                                                         *)
(* git, gclient, GN, Ninja and the LLVM tools are external: a command      *)
(* does what the builder runs it for or fails, and ends when the operation *)
(* that runs it is killed.                                                 *)
(***************************************************************************)
EXTENDS SourceOverlay

CONSTANTS
  Builders,  \* processes
  Jobs,      \* the operations they may ask for
  MaxMishaps \* bound: operations that fail or are killed, and edits of the wrappers

Linkages == {"dynamic", "static"}

\* ensure_native_from_source, cargo xtask build, sync, sync --api-only and vendor
JobType == [kind : {"ensure", "build"}, platform : Platforms, linkage : Linkages]
             \cup [kind : {"sync", "api", "vendor"}, platform : Platforms]

ASSUME SourceCacheAssumption ==
  /\ Jobs \subseteq JobType
  /\ MaxMishaps \in Nat

VARIABLES
  waiting, \* the processes that want the lock
  run,     \* the operation that holds the lock, or None
  disk,    \* the checkout and its tools
  view,    \* the GN view
  out,     \* the build output of each platform
  vendor,  \* the vendored copy and the temporary directory it is made in
  last,    \* the operation that ended last, or None
  blame,   \* history: what failed or killed operations have left undone, and the libraries
           \* that are older than the wrappers beside others that are not
  mishaps

vars == <<waiting, run, disk, view, out, vendor, last, blame, mishaps>>
ends == <<disk, view, out, vendor>>

None == [kind |-> "none"]

Patterns == {"none", "api", "build"}
Systems == {"host", "android"}
Ages == {"none", "old", "new"} \* than the committed wrappers

DiskType == [git : {"none", "bare", "remote", "configured"}, manifest : Patterns, pinned : BOOLEAN, tree : Patterns,
             depot : {"none", "partial", "ready"}, gclient : Systems \cup {"none"}, deps : SUBSET Systems,
             lastchange : BOOLEAN]
OutputType == [dynamic : Ages, static : Ages, isolated : BOOLEAN, manifest : BOOLEAN, dex : BOOLEAN, newest : Ages]
Trees == {"none", "partial", "api", "build"}
Stages == {"check", "init", "manifest", "fetch", "reapply", "depot", "gclient", "deps", "lastchange", "require",
           "view", "links", "gn", "ninja", "post", "bundle", "objcopy", "link manifest", "vendor", "copy", "rename"}

NoDisk == [git |-> "none", manifest |-> "none", pinned |-> FALSE, tree |-> "none", depot |-> "none",
           gclient |-> "none", deps |-> {}, lastchange |-> FALSE]
NoOutput == [dynamic |-> "none", static |-> "none", isolated |-> FALSE, manifest |-> FALSE, dex |-> FALSE,
             newest |-> "none"]

Init ==
  /\ waiting = {}
  /\ run = None
  /\ disk = NoDisk /\ view = NoView
  /\ out = [p \in Platforms |-> NoOutput]
  /\ vendor = [temporary |-> "none", output |-> "none"]
  /\ last = None
  /\ blame = [packaging |-> {}, mixed |-> {}, view |-> FALSE, reapply |-> FALSE]
  /\ mishaps = 0

-----------------------------------------------------------------------------
(* The lock: an advisory lock on a file of the cache, which the operating  *)
(* system releases when its holder ends, however it ends.                  *)

Ask(b) ==
  /\ run # None => run.by # b
  /\ waiting' = waiting \cup {b}
  /\ UNCHANGED <<run, ends, last, blame, mishaps>>

FirstStage(j) ==
  CASE j.kind \in {"ensure", "vendor"} -> "check"
    [] j.kind \in {"sync", "api"}      -> "init"
    [] j.kind = "build"                -> "require"

\* What it is for matters only now: nothing of the cache is read before.
Acquire(b, j) ==
  /\ run = None /\ b \in waiting
  /\ run' = [kind |-> "run", by |-> b, job |-> j, at |-> FirstStage(j), op |-> 1, reapply |-> FALSE, edited |-> FALSE]
  /\ waiting' = waiting \ {b}
  /\ last' = None
  /\ UNCHANGED <<ends, blame, mishaps>>

At(stage) == run # None /\ run.at = stage
job == run.job
Go(stage) == run' = [run EXCEPT !.at = stage] /\ UNCHANGED last

\* The operation returns, and with it the lock is dropped.
Return(ok, clean) ==
  /\ run' = None
  /\ last' = [kind |-> "ended", job |-> job, ok |-> ok, clean |-> clean]
Succeed == Return(TRUE, TRUE)
Refuse == Return(FALSE, TRUE)

Only(changed) == UNCHANGED <<waiting, mishaps>> /\ changed

-----------------------------------------------------------------------------
(* What an operation decides by.                                            *)

SystemOf(platform) == IF platform = "android" THEN "android" ELSE "host"

Builds(j) == j.kind \in {"ensure", "build"}
HasHeaders == disk.tree # "none"

\* source_tree_buildable: the files it looks for are at the root, below components,
\* generated, or brought by gclient, so the patterns of --api-only have them as well.
SourceTreeBuildable == HasHeaders /\ disk.deps # {} /\ disk.lastchange

\* Mutant: the output directory is all that is looked at.
NeverRequiresRebuild(p) == FALSE

\* native_extensions::requires_rebuild compares the wrappers with the newest file of
\* the output directory that has cronet in its name.
RequiresRebuild(p) == view.nodes["native_gn"] = "absent" \/ out[p].newest # "new"

NativeLibraryExists(p, l) == out[p][l] # "none"

Check ==
  /\ At("check")
  /\ \/ /\ job.kind = "ensure"
        /\ HasHeaders /\ NativeLibraryExists(job.platform, job.linkage) /\ ~RequiresRebuild(job.platform)
        /\ Succeed
     \/ /\ job.kind = "ensure"
        /\ ~(HasHeaders /\ NativeLibraryExists(job.platform, job.linkage) /\ ~RequiresRebuild(job.platform))
        /\ Go(IF SourceTreeBuildable THEN "require" ELSE "init")
     \/ /\ job.kind = "vendor"
        /\ Go(IF SourceTreeBuildable THEN "vendor" ELSE "init")
  /\ Only(UNCHANGED <<ends, blame>>)

-----------------------------------------------------------------------------
(* sync_source.                                                             *)

Wanted == IF job.kind = "api" THEN "api" ELSE "build"
Disk(new) == disk' = new /\ Only(UNCHANGED <<view, out, vendor, blame>>)

\* init_or_update_sparse_checkout, up to its manifest: git init, git remote add, and
\* the three commands that make the checkout partial and sparse, all of them skipped
\* once .git is there.
InitRepository ==
  /\ At("init")
  /\ Disk(IF disk.git = "none" THEN [disk EXCEPT !.git = "configured"] ELSE disk)
  /\ Go("manifest")

WriteManifest ==
  /\ At("manifest")
  /\ run' = [run EXCEPT !.at = "fetch", !.reapply = (disk.manifest # Wanted)]
  /\ Disk([disk EXCEPT !.manifest = Wanted]) /\ UNCHANGED last

\* git fetch and git checkout, which applies the manifest where the checkout is sparse,
\* and takes the whole tree where it is not.
Fetch ==
  /\ At("fetch")
  /\ \/ /\ disk.pinned
        /\ Disk(disk) /\ Go("reapply")
     \/ /\ ~disk.pinned /\ disk.git \in {"remote", "configured"}
        /\ Disk([disk EXCEPT !.pinned = TRUE, !.tree = IF disk.git = "remote" THEN "build" ELSE disk.manifest])
        /\ run' = [run EXCEPT !.at = "reapply", !.reapply = TRUE] /\ UNCHANGED last
     \/ /\ ~disk.pinned /\ disk.git = "bare"
        /\ Disk(disk) /\ Refuse

\* Mutant: the manifest is applied by a checkout only.
ReappliedByCheckout == disk.tree

Reapplied == IF run.reapply THEN disk.manifest ELSE disk.tree

\* git sparse-checkout reapply, which a checkout that is not sparse refuses.
Reapply ==
  /\ At("reapply")
  /\ \/ /\ run.reapply /\ disk.git = "remote"
        /\ Disk(disk) /\ Refuse
     \/ /\ ~(run.reapply /\ disk.git = "remote")
        /\ Disk([disk EXCEPT !.tree = Reapplied])
        /\ IF job.kind = "api" THEN Succeed ELSE Go("depot")

\* clone_or_update_depot_tools
DepotTools ==
  /\ At("depot")
  /\ Disk([disk EXCEPT !.depot = IF @ = "none" THEN "ready" ELSE @])
  /\ IF disk.depot = "partial" THEN Refuse ELSE Go("gclient")

\* write_gclient: the filtered dependency manifest and the target system.
WriteGclient ==
  /\ At("gclient")
  /\ Disk([disk EXCEPT !.gclient = SystemOf(job.platform)])
  /\ Go("deps")

\* gsutil.py version and gclient sync
SyncDependencies ==
  /\ At("deps")
  /\ Disk([disk EXCEPT !.deps = @ \cup {disk.gclient}])
  /\ Go("lastchange")

\* build/util/lastchange.py, which the patterns of --api-only leave out.
Lastchange ==
  /\ At("lastchange")
  /\ IF disk.tree # "build" THEN Disk(disk) /\ Refuse
     ELSE /\ Disk([disk EXCEPT !.lastchange = TRUE])
          /\ CASE job.kind = "sync"   -> Succeed
               [] job.kind = "ensure" -> Go("require")
               [] job.kind = "vendor" -> Go("vendor")

-----------------------------------------------------------------------------
(* build_native_unlocked.                                                   *)

Require ==
  /\ At("require")
  /\ IF HasHeaders /\ disk.deps # {} THEN Go("view") ELSE Refuse
  /\ Only(UNCHANGED <<ends, blame>>)

View(new) == view' = new /\ Only(UNCHANGED <<disk, out, vendor>>)

\* write_cronet_overlay: a view made for another target is removed first.
KeptView == IF view.marker \in {"none", job.platform} THEN view.nodes ELSE Empty

OpenView ==
  /\ At("view")
  /\ View([view EXCEPT !.nodes = KeptView, !.marker = job.platform])
  /\ blame' = [blame EXCEPT !.view = @ /\ KeptView # Empty]
  /\ run' = [run EXCEPT !.at = "links", !.op = 1] /\ UNCHANGED last

\* One operation of the plan; the first lists a directory that --api-only leaves out.
Link ==
  /\ At("links") /\ UNCHANGED blame
  /\ IF disk.tree # "build" THEN View(view) /\ Refuse
     ELSE /\ View(Do(view, Plans[job.platform][run.op]))
          /\ IF run.op = Len(Plans[job.platform]) THEN Go("gn")
             ELSE run' = [run EXCEPT !.op = @ + 1] /\ UNCHANGED last

\* GN reads the dependencies of the target and every file of the view.
Missing == {p \in Places : view.nodes[p] = "absent" /\ FreshViews[job.platform][p] # "absent"}

GnGen ==
  /\ At("gn")
  /\ IF SystemOf(job.platform) \in disk.deps /\ Missing = {}
       THEN run' = [run EXCEPT !.at = "ninja", !.edited = FALSE] /\ UNCHANGED last
       ELSE Refuse
  /\ Only(UNCHANGED <<ends, blame>>)

Output(new) == out' = [out EXCEPT ![job.platform] = new] /\ Only(UNCHANGED <<disk, view, vendor>>)
Packaged == blame' = [blame EXCEPT !.packaging = @ \ {<<job.platform, job.linkage>>}]
Mine == out[job.platform]

\* Ninja links the dynamic library in its place; the static one is only raw yet, under
\* a name of its own.  An edit while it runs may come too late for what it compiles.
Ninja ==
  /\ At("ninja")
  /\ \E late \in {FALSE, run.edited} :
       LET made == IF late THEN "old" ELSE "new"
           behind == {l \in Linkages : IF l = job.linkage THEN late ELSE Mine[l] = "old"}
       IN /\ Output([Mine EXCEPT !.dynamic = IF job.linkage = "dynamic" THEN made ELSE @, !.newest = "new"])
          /\ run' = [run EXCEPT !.at = "post", !.edited = late]
          /\ blame' = [blame EXCEPT !.mixed = (@ \ {<<job.platform, job.linkage>>})
                                                \cup {<<job.platform, l>> : l \in behind}]
  /\ UNCHANGED last

\* PlatformBuild::post_build, which installs Android's support dex.
PostBuild ==
  /\ At("post")
  /\ LET dex == job.platform = "android" /\ ~Mine.dex
     IN Output(IF dex THEN [Mine EXCEPT !.dex = TRUE, !.newest = "new"] ELSE Mine)
  /\ IF job.linkage = "static" THEN Go("bundle") /\ UNCHANGED blame ELSE Succeed /\ Packaged

\* bundle_static_archive: the archive under its final name, then its symbols.
Bundle ==
  /\ At("bundle")
  /\ Output([Mine EXCEPT !.static = IF run.edited THEN "old" ELSE "new", !.isolated = FALSE, !.newest = "new"])
  /\ Go("objcopy") /\ UNCHANGED blame

IsolateSymbols ==
  /\ At("objcopy")
  /\ Output([Mine EXCEPT !.isolated = TRUE, !.newest = "new"])
  /\ Go("link manifest") /\ UNCHANGED blame

\* write_static_link_manifest, if it is not there yet
WriteLinkManifest ==
  /\ At("link manifest")
  /\ Output([Mine EXCEPT !.manifest = TRUE, !.newest = IF Mine.manifest THEN @ ELSE "new"])
  /\ Succeed /\ Packaged

-----------------------------------------------------------------------------
(* vendor_source: a copy without .git and out, then a rename.               *)

Vendor(new) == vendor' = new /\ Only(UNCHANGED <<disk, view, out, blame>>)

\* Mutant: the copy is made where it is wanted.
VendorInPlace ==
  /\ At("vendor")
  /\ IF vendor.output # "none" THEN Vendor(vendor) /\ Refuse
     ELSE Vendor([vendor EXCEPT !.output = "partial"]) /\ Go("copy")

BeginVendoring ==
  /\ At("vendor")
  /\ IF vendor.output # "none" THEN Vendor(vendor) /\ Refuse
     ELSE Vendor([vendor EXCEPT !.temporary = "partial"]) /\ Go("copy")

CopyTree ==
  /\ At("copy")
  /\ Vendor([vendor EXCEPT !.temporary = disk.tree])
  /\ Go("rename")

Rename ==
  /\ At("rename")
  /\ Vendor([temporary |-> "none", output |-> vendor.temporary])
  /\ Succeed

-----------------------------------------------------------------------------
(* Failures.  A command that fails ends the operation; a process that is   *)
(* killed ends anywhere, and leaves what its step had done.  Ninja may     *)
(* fail with the raw archive already made: a failure at "post".            *)

Commands ==
  {"depot", "gclient", "deps", "lastchange", "gn", "ninja", "bundle", "objcopy", "link manifest", "copy"}
    \cup (IF disk.git = "none" THEN {"init"} ELSE {})
    \cup (IF ~disk.pinned THEN {"fetch"} ELSE {})
    \cup (IF run.reapply THEN {"reapply"} ELSE {})
    \cup (IF Builds(job) /\ (job.platform = "android" \/ job.linkage = "static") THEN {"post"} ELSE {})

Packaging == {"post", "bundle", "objcopy", "link manifest"}

\* The library may be there and what belongs to it not; the manifest is written and
\* not applied.
Blamed ==
  [blame EXCEPT !.packaging = IF run.at \in Packaging THEN @ \cup {<<job.platform, job.linkage>>} ELSE @,
                !.reapply = @ \/ (run.at \in {"fetch", "reapply"} /\ run.reapply /\ disk.pinned)]

HalfInitialized(d) ==
  IF At("init") /\ d.git = "none" THEN {[d EXCEPT !.git = git] : git \in {"bare", "remote"}} ELSE {}

Fail ==
  /\ run # None /\ run.at \in Commands /\ mishaps < MaxMishaps
  /\ mishaps' = mishaps + 1
  /\ disk' \in {disk} \cup HalfInitialized(disk)
  /\ vendor' = IF At("copy") THEN [vendor EXCEPT !.temporary = "none"] ELSE vendor
  /\ Return(FALSE, FALSE)
  /\ blame' = Blamed
  /\ UNCHANGED <<waiting, view, out>>

HalfDone(d) ==
  {d} \cup HalfInitialized(d)
      \cup (IF At("depot") /\ d.depot = "none" THEN {[d EXCEPT !.depot = "partial"]} ELSE {})

\* remove_dir_all takes the entries of a directory in any order, the marker among
\* them, each of them whole before the next; a directory goes after what it has.
Partial(kept) == {d \in Directories \cap kept : \E p \in Places \ kept : d \in Above[p]}
Remainders ==
  {kept \in SUBSET Places :
     /\ \A p \in kept : Above[p] \subseteq kept
     /\ \A d, e \in Partial(kept) : d = e \/ d \in Above[e] \/ e \in Above[d]}

HalfRemoved(v) ==
  IF v.marker \in {"none", job.platform} THEN {v}
  ELSE {[v EXCEPT !.nodes = [p \in Places |-> IF p \in kept THEN v.nodes[p] ELSE "absent"], !.marker = m] :
          kept \in Remainders, m \in {v.marker, "none"}}

HalfWritten(v) ==
  CASE At("view")  -> HalfRemoved(v)
    [] At("links") -> BrokenOff(v, Plans[job.platform][run.op])
    [] OTHER       -> {v}

\* What a torn view may still be: one whose marker is gone but not its files, or one
\* with a directory that lacks some of the links its making has or would have put there.
Torn(v) ==
  \/ At("view") /\ v.marker = "none" /\ v.nodes # Empty
  \/ At("view") /\ \E p \in Places : /\ Up[p] \in {"config", "compiler"} /\ v.nodes[Up[p]] = "dir"
                                     /\ v.nodes[p] # view.nodes[p]
  \/ At("links") /\ LET op == Plans[job.platform][run.op]
                    IN op.do = "materialize" /\ v # view

HalfBundled(o) ==
  {o} \cup (IF At("bundle") THEN {[o EXCEPT !.static = "none", !.isolated = FALSE]} ELSE {})

Kill ==
  /\ run # None /\ mishaps < MaxMishaps
  /\ mishaps' = mishaps + 1
  /\ disk' \in HalfDone(disk)
  /\ view' \in HalfWritten(view)
  /\ \E o \in HalfBundled(out[job.platform]) : out' = [out EXCEPT ![job.platform] = o]
  /\ blame' = [Blamed EXCEPT !.view = @ \/ Torn(view')]
  /\ run' = None /\ last' = None
  /\ UNCHANGED <<waiting, vendor>>

\* Someone edits a committed wrapper: it is newer than every library.
EditWrapper ==
  /\ mishaps < MaxMishaps /\ mishaps' = mishaps + 1
  /\ LET Age(a) == IF a = "new" THEN "old" ELSE a
     IN out' = [p \in Platforms |-> [out[p] EXCEPT !.dynamic = Age(@), !.static = Age(@), !.newest = Age(@)]]
  /\ run' = IF run = None THEN run ELSE [run EXCEPT !.edited = TRUE]
  /\ blame' = [blame EXCEPT !.mixed = @ \cup IF run # None /\ run.at \in Packaging
                                           THEN {job.platform} \X Linkages ELSE {}]
  /\ last' = None
  /\ UNCHANGED <<waiting, disk, view, vendor>>

Next ==
  \/ \E b \in Builders : Ask(b) \/ \E j \in Jobs : Acquire(b, j)
  \/ Check \/ InitRepository \/ WriteManifest \/ Fetch \/ Reapply
  \/ DepotTools \/ WriteGclient \/ SyncDependencies \/ Lastchange
  \/ Require \/ OpenView \/ Link \/ GnGen \/ Ninja \/ PostBuild
  \/ Bundle \/ IsolateSymbols \/ WriteLinkManifest
  \/ BeginVendoring \/ CopyTree \/ Rename
  \/ Fail \/ Kill \/ EditWrapper

Spec == Init /\ [][Next]_vars

-----------------------------------------------------------------------------
(* Properties.                                                             *)

\* Type invariant: the range of every variable; a copy reaches its place whole.
TypeOK ==
  /\ waiting \subseteq Builders
  /\ run = None \/ run \in [kind : {"run"}, by : Builders, job : Jobs, at : Stages, op : Nat, reapply : BOOLEAN,
                             edited : BOOLEAN]
  /\ disk \in DiskType /\ view \in Views /\ out \in [Platforms -> OutputType]
  /\ vendor \in [temporary : Trees, output : Trees \ {"partial"}]
  /\ last = None \/ last \in [kind : {"ended"}, job : Jobs, ok : BOOLEAN, clean : BOOLEAN]

Complete(p, l) ==
  /\ out[p][l] # "none"
  /\ l = "static" => out[p].isolated /\ out[p].manifest
  /\ p = "android" => out[p].dex

\* Where ensure_native_from_source or cargo xtask build reports success, the library
\* is there with all that belongs to it, and it is no older than the wrappers.  Not so
\* a library whose last build was broken off between what Ninja made and the end of
\* its packaging (a raw archive is a new library to requires_rebuild); and one that
\* was older than the wrappers while a build of the other linkage, or the packaging
\* that an edit came into, put newer files beside it, may be reported old.
InstalledIsComplete ==
  last # None /\ last.ok /\ Builds(last.job) =>
    LET p == last.job.platform
        l == last.job.linkage
    IN \/ <<p, l>> \in blame.packaging
       \/ Complete(p, l) /\ (out[p][l] = "old" => <<p, l>> \in blame.mixed)

\* What GN and Ninja read at a place: the file, or what was written over it.
Contents(v, p) == IF <<v.nodes[p], p>> \in v.spoiled THEN "filtered" ELSE v.nodes[p]

\* A build compiles exactly the view it would make where there was none, and through
\* its links the files as they were checked out or committed, whatever was built
\* before, for which target, and however that ended; unless a process was killed
\* while it removed the view or opened up a linked directory in it
\* (write_cronet_overlay, materialize_parent), and but for one file: an OHOS build
\* finds PartitionAlloc's committed BUILD.gn overwritten by another (main.rs:1948).
\* It is the only file outside the view that any build changes.
BuildsSeeTheirOwnView ==
  /\ At("ninja") /\ ~blame.view =>
       \A p \in Places :
         /\ view.nodes[p] = FreshViews[job.platform][p]
         /\ Contents(view, p) = FreshViews[job.platform][p] \/ (job.platform = "ohos" /\ p = "pa_gn")
  /\ view.spoiled \subseteq {<<"ohos", "pa_gn">>}

\* What makes an operation fail in which no command fails: an initialisation, a clone
\* or an applied manifest that was cut short and is taken for done; a checkout
\* narrowed by --api-only that still looks buildable; nothing synchronized, for
\* cargo xtask build; dependencies of another system; a torn view; an existing copy.
KnownObstacle(j) ==
  \/ disk.git \in {"bare", "remote"} \/ disk.depot = "partial"
  \/ blame.reapply /\ disk.tree # disk.manifest
  \/ disk.tree = "api" /\ SourceTreeBuildable
  \/ j.kind = "build" /\ ~SourceTreeBuildable
  \/ Builds(j) /\ SystemOf(j.platform) \notin disk.deps
  \/ Builds(j) /\ blame.view /\ \E p \in Places : view.nodes[p] = "absent" /\ FreshViews[j.platform][p] # "absent"
  \/ j.kind = "vendor" /\ vendor.output # "none"

\* From whatever earlier operations left, an operation in which nothing fails
\* succeeds, or meets one of these obstacles: what one failed or killed operation
\* leaves undone, the next one finishes.
CleanRunSucceeds == last # None /\ last.clean /\ ~last.ok => KnownObstacle(last.job)

\* "These committed files are symlinked into the ignored Cronet-only GN view. The
\* native build never generates compatibility source text."
\* (xtask/overlays/README.md:3): a build changes no file outside its view.
CommittedFilesUnchanged == view.spoiled = {}

=============================================================================

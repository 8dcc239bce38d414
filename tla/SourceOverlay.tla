--------------------------- MODULE SourceOverlay ---------------------------
(***************************************************************************)
(* The generated GN view of a Chromium checkout (xtask/src/main.rs,        *)
(* overlay_files.rs, native_extensions.rs, platform/): a directory of      *)
(* links into the checkout, of links to files committed in this            *)
(* repository, and of BUILD.gn files filtered from upstream's.  It is kept *)
(* between builds, and every build writes it again over what it finds.     *)
(*                                                                         *)
(* The view is modelled at places that stand for the ways a place is       *)
(* written: a directory linked whole until a platform replaces a file in   *)
(* it ("config"), directories always walked ("base", "base/pa"), BUILD.gn  *)
(* files that are filtered, replaced, or both, and a wrapped source.  What *)
(* the file system does with a path is modelled: an operation on a place   *)
(* below a link happens in the checkout, and a write to a link happens to  *)
(* the file it names.                                                      *)
(***************************************************************************)
EXTENDS Naturals, Sequences

Platforms == {"host", "android", "ohos"}

Up == [ root |-> "/", base |-> "/", config |-> "/", cronet_rs |-> "/",
        base_gn |-> "base", scoped |-> "base", scoped_upstream |-> "base",
        pa |-> "base", pa_gn |-> "pa",
        args |-> "config", buildconfig |-> "config", compiler |-> "config",
        compiler_gn |-> "compiler", native_gn |-> "cronet_rs" ]

Places == DOMAIN Up
Directories == {"base", "pa", "config", "compiler", "cronet_rs"}
Upstream == Places \ {"scoped_upstream", "cronet_rs", "native_gn"}

\* What a place of the view holds.  A link names the file it stands for: the
\* same place of the checkout ("source"), the wrapped source ("wrapped"), or a
\* file committed here, by the list it is installed from.
Links == {"source", "wrapped", "common", "android", "ohos", "native"}
Nodes == Links \cup {"absent", "dir", "filtered"}

Empty == [p \in Places |-> "absent"]

\* The directories a place is in: none of the places is deeper than two of them.
Above == [p \in Places |-> IF Up[p] = "/" THEN {} ELSE {Up[p], Up[Up[p]]} \ {"/"}]

\* A place reached through a linked directory is a place of the checkout.
InCheckout(nodes, p) == \E a \in Above[p] : nodes[a] \in Links

Seen(nodes, p) ==
  IF ~InCheckout(nodes, p) THEN nodes[p]
  ELSE IF p \notin Upstream THEN "absent"
  ELSE IF p \in Directories THEN "dir" ELSE "filtered"

\* A view: its marker file (the cache key of the platform it was made for), its
\* places, and the files outside it that were changed through it.
Views == [marker : Platforms \cup {"none"}, nodes : [Places -> Nodes],
          spoiled : SUBSET (Links \X Places)]

NoView == [marker |-> "none", nodes |-> Empty, spoiled |-> {}]

Put(v, p, node) ==
  IF InCheckout(v.nodes, p) THEN [v EXCEPT !.spoiled = @ \cup {<<"source", p>>}]
                            ELSE [v EXCEPT !.nodes[p] = node]

-----------------------------------------------------------------------------
(* The operations the builder writes a view with.                           *)

\* ensure_symlink: a link that is right and a directory where one is wanted stay.
EnsureSymlink(v, p, to) ==
  LET n == Seen(v.nodes, p) IN IF n \in {to, "dir"} THEN v ELSE Put(v, p, to)

\* replace_generated_link_with_directory
DirectoryInPlaceOfLink(v, p) == IF Seen(v.nodes, p) = "dir" THEN v ELSE Put(v, p, "dir")

\* replace_generated_link_with_file
NothingInPlaceOfLink(v, p) == IF Seen(v.nodes, p) = "absent" THEN v ELSE Put(v, p, "absent")

\* fs::write follows a link.
Write(v, p) ==
  LET n == Seen(v.nodes, p) IN
  IF n \in Links THEN [v EXCEPT !.spoiled = @ \cup {<<n, p>>}] ELSE Put(v, p, "filtered")

\* materialize_parent: the directory of a place that is about to differ from
\* upstream, with links to everything else upstream has in it.
Beside(p) == {q \in Upstream : Up[q] = Up[p]} \ {p}

MaterializeParent(v, p) ==
  LET d == Up[p]
      made == DirectoryInPlaceOfLink(v, d)
  IN IF d = "/" \/ Seen(v.nodes, d) = "dir" THEN v
     ELSE [made EXCEPT !.nodes = [q \in Places |-> IF q \in Beside(p) /\ @[q] # "dir" THEN "source" ELSE @[q]]]

\* The same, broken off when the directory is there and its links are not.
HalfMaterialized(v, p) == IF MaterializeParent(v, p) = v THEN v ELSE DirectoryInPlaceOfLink(v, Up[p])

Do(v, op) ==
  CASE op.do = "link"        -> EnsureSymlink(v, op.at, op.to)
    [] op.do = "directory"   -> DirectoryInPlaceOfLink(v, op.at)
    [] op.do = "clear"       -> NothingInPlaceOfLink(v, op.at)
    [] op.do = "write"       -> Write(v, op.at)
    [] op.do = "materialize" -> MaterializeParent(v, op.at)

\* What is left when the process ends during an operation: not begun, the old link
\* removed and the new one not yet made, or half of a directory.
BrokenOff(v, op) ==
  {v} \cup (IF op.do = "link" /\ Do(v, op) # v THEN {NothingInPlaceOfLink(v, op.at)} ELSE {})
      \cup (IF op.do = "materialize" THEN {HalfMaterialized(v, op.at)} ELSE {})

-----------------------------------------------------------------------------
(* The order in which a build writes them.                                  *)

LinkTo(p, to) == <<[do |-> "link", at |-> p, to |-> to]>>
DirectoryAt(p) == <<[do |-> "directory", at |-> p, to |-> "dir"]>>
Filter(p) == <<[do |-> "write", at |-> p, to |-> "filtered"]>>

\* overlay_files::install_one
InstallOne(list, p) ==
  <<[do |-> "materialize", at |-> p, to |-> "dir"], [do |-> "clear", at |-> p, to |-> "absent"]>>
    \o LinkTo(p, list)

\* overlay_files::install_source_wrappers: the wrapper, and the wrapped source under
\* another name.
InstallSourceWrapper(list, p, alias) == InstallOne(list, p) \o InstallOne("wrapped", alias)

\* write_build_overlay links build/config whole.
BuildOverlay == LinkTo("config", "source")

\* write_test_filtered_directory, for a directory and the one below it: links to the
\* files, then the filtered BUILD.gn.
FilteredDirectory ==
  DirectoryAt("base") \o LinkTo("scoped", "source")
    \o DirectoryAt("pa") \o Filter("pa_gn") \o Filter("base_gn")

\* native_extensions::apply
NativeExtensions == DirectoryAt("cronet_rs") \o LinkTo("native_gn", "native")

\* overlay_files::install, for the list of each platform
CommonFiles == InstallOne("common", "root")

AndroidFiles ==
  InstallOne("android", "root") \o InstallOne("android", "args")
    \o InstallOne("android", "buildconfig") \o InstallOne("android", "compiler_gn")

\* Mutant: the files of a directory before the file beside that directory.
OhosFilesDeepestFirst ==
  InstallOne("ohos", "pa_gn") \o InstallOne("ohos", "compiler_gn") \o InstallOne("ohos", "buildconfig")

OhosFiles ==
  InstallOne("ohos", "pa_gn") \o InstallOne("ohos", "buildconfig") \o InstallOne("ohos", "compiler_gn")

PrepareOverlay(platform) ==
  CASE platform = "host"    -> <<>>
    [] platform = "android" -> AndroidFiles
    [] platform = "ohos"    -> OhosFiles \o InstallSourceWrapper("ohos", "scoped", "scoped_upstream")

\* write_cronet_overlay
Plans == [platform \in Platforms |->
            BuildOverlay \o FilteredDirectory \o NativeExtensions \o CommonFiles \o PrepareOverlay(platform)]

\* The view after n operations of a build of a platform, where there was none, and the
\* view that the build makes there.
Built(platform) ==
  LET after[n \in Nat] == IF n = 0 THEN NoView ELSE Do(after[n - 1], Plans[platform][n])
  IN  after

FreshViews == [platform \in Platforms |-> Built(platform)[Len(Plans[platform])].nodes]
=============================================================================

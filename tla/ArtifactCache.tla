---------------------------- MODULE ArtifactCache ----------------------------
(***************************************************************************)
(* The files the measuring scripts keep between their runs: the cached     *)
(* root file systems of the workspace timings, of measure-vmm-startup and  *)
(* of the stargz guests, the data files of the disk benchmarks, the        *)
(* unpacked stargz tools, and the benchmark images in a local registry.    *)
(* A run either takes what an earlier run left or builds it in place, step *)
(* by step, and it may die between any two steps.                          *)
(*                                                                         *)
(* A file is abstracted to the configuration it is built for ("cfg": image *)
(* id, sizes, versions) and to how many of its parts are written.  For the *)
(* data files the configuration is the size itself.  An image is only told *)
(* from another build of the same tag, whose random data differ.           *)
(***************************************************************************)
EXTENDS Integers, ScriptRun

CONSTANTS Scripts,       \* the caches to explore
          Configs,       \* configurations runs may ask for
          Parts,         \* parts a root file system is written in
          MaxFailures    \* how many runs die (bound)

ASSUME ConfigsAssumption ==
  /\ Scripts \subseteq {"workspace", "startup", "stargz", "data", "tools", "iopsImages",
                         "coldImages"}
  /\ Configs \subseteq Nat \ {0} /\ Parts \in Nat \ {0} /\ MaxFailures \in Nat

VARIABLES
  want,       \* what this run asks for
  force,      \* FORCE_ROOTFS of this run
  file,       \* the cached file
  meta,       \* the configuration in the file's metadata
  tools,      \* the two binaries of the stargz tools
  archive,    \* the downloads, by name
  images,     \* the builds behind a tag and its optimized form
  used,       \* what the run hands to its measurement
  broken,     \* the last build that died after it began to write (history)
  cut,        \* an extraction of the tools died or met half an archive (history)
  failures    \* runs that died so far

cache == <<file, meta, tools, archive, images>>
vars == <<script, pc, want, force, cache, used, broken, cut, failures>>

Absent == [cfg |-> 0, parts |-> 0]

\* Parts of a complete file for configuration c.
Size(c) == IF script = "data" THEN c ELSE Parts

None == 0    \* no metadata, no binary
Half == -1   \* cut off while it was written

Unbroken == [over |-> None, forced |-> FALSE]

HasMeta == script \in {"workspace", "startup", "stargz"}

\* The tools' archive carries its version in its name, the tarball of the
\* guests' root file system the distribution's, which stays the same.
Alpine == 0
Names == Configs \cup {Alpine}

\* In docker, in the registry, its optimized form in the registry, and what the
\* optimizer pulled: three builds can be in use when a new one is made.
NoImages == [local |-> None, normal |-> None, lazy |-> None, pulled |-> None]
NewBuild == CHOOSE b \in 1..4 : b \notin {images.normal, images.lazy, images.pulled}

----------------------------------------------------------------------------
(* One run *)

Goto(l) == pc' = l /\ UNCHANGED <<script, want, force, cut, failures>>

Keep == UNCHANGED <<cache, used, broken>>

Ready == IF script = "workspace" THEN "init" ELSE "use"

Use == Goto(Ready) /\ used' = file /\ UNCHANGED <<cache, broken>>

\* A run asks for any configuration and begins at the label first.
Begin(s, forces, first) ==
  /\ script = s /\ pc = "idle" /\ pc' = first
  /\ want' \in Configs /\ force' \in forces
  /\ used' = Absent /\ UNCHANGED <<script, cache, broken, cut, failures>>

\* image_inspect of the workspace timings: the image's digest, pulled only
\* when it is not there.
ImageInspect == Begin("workspace", {FALSE}, "check")

\* image_inspect of measure-vmm-startup pulls first.
PullAndInspect == Begin("startup", BOOLEAN, "check")

\* The environment's versions and sizes.
StargzMain == Begin("stargz", BOOLEAN, "tools")
ToolsMain == Begin("tools", {FALSE}, "tools")
DataMain == Begin("data", {FALSE}, "check")

\* Both keep their registry; only the first knows FORCE_IMAGE.
IopsImagesMain == Begin("iopsImages", BOOLEAN, "registry")
ColdImagesMain == Begin("coldImages", {FALSE}, "registry")

\* (Mutant: one of the two binaries is enough.)
EnsureStargzToolsEither ==
  /\ pc = "tools" /\ Keep
  /\ Goto(IF tools.ctr # None \/ tools.grpc # None
          THEN (IF script = "tools" THEN "use" ELSE "check") ELSE "toolsArchive")

\* ensure_stargz_tools: both binaries exist, whole or not, of any version.
EnsureStargzTools ==
  /\ pc = "tools" /\ Keep
  /\ Goto(IF tools.ctr # None /\ tools.grpc # None
          THEN (IF script = "tools" THEN "use" ELSE "check") ELSE "toolsArchive")

\* curl writes the archive under its final name and a file that exists is not
\* looked at; a download that breaks off (Dies) leaves what it has.
Download(at, name, curl, then) ==
  /\ pc = at /\ UNCHANGED <<file, meta, tools, images, used, broken>>
  /\ \/ archive[name] # "none" /\ Goto(then) /\ UNCHANGED archive
     \/ archive[name] = "none" /\ Goto(curl)
        /\ archive' = [archive EXCEPT ![name] = "partial"]

Curl(at, name, then) ==
  /\ pc = at /\ Goto(then)
  /\ archive' = [archive EXCEPT ![name] = "whole"]
  /\ UNCHANGED <<file, meta, tools, images, used, broken>>

\* tar replaces the two binaries one after the other.
ExtractTools ==
  /\ UNCHANGED <<file, meta, archive, images, used, broken>>
  /\ \/ pc = "toolsTar" /\ Goto("toolsCtr") /\ tools' = [tools EXCEPT !.ctr = Half]
     \/ pc = "toolsCtr" /\ Goto("toolsGrpc") /\ tools' = [ctr |-> want, grpc |-> Half]
     \/ /\ pc = "toolsGrpc" /\ archive[want] = "whole"
        /\ Goto("tools") /\ tools' = [tools EXCEPT !.grpc = want]

\* ensure_local_rootfs: one path for every image; unreadable metadata counts
\* as none.
WorkspaceCheck ==
  /\ script = "workspace" /\ pc = "check"
  /\ IF meta # want \/ file = Absent THEN Goto("clear") /\ Keep ELSE Use

\* (Mutant: the run dies on unreadable metadata.)
StartupCheckRaises ==
  /\ script = "startup" /\ pc = "check"
  /\ IF ~force /\ file # Absent /\ meta = want THEN Use
     ELSE Goto(IF meta = Half THEN "idle" ELSE "export") /\ Keep

\* ensure_rootfs: FORCE_ROOTFS only skips the look at the metadata.
StartupCheck ==
  /\ script = "startup" /\ pc = "check"
  /\ IF ~force /\ file # Absent /\ meta = want THEN Use ELSE Goto("export") /\ Keep

\* It exports the image before it touches the cached file.
ExportImage == pc = "export" /\ Goto("clear") /\ Keep

\* (Mutant: a forced rebuild removes the file and keeps its metadata.)
StargzCheckKeepsMeta ==
  /\ script = "stargz" /\ pc = "check"
  /\ \/ force /\ Goto("alpine") /\ file' = Absent
        /\ UNCHANGED <<meta, tools, archive, images, used, broken>>
     \/ ~force /\ IF file # Absent /\ meta = want THEN Use ELSE Goto("alpine") /\ Keep

\* ensure_guest_rootfs: FORCE_ROOTFS removes file and metadata first.
StargzCheck ==
  /\ script = "stargz" /\ pc = "check"
  /\ \/ force /\ Goto("alpine") /\ file' = Absent /\ meta' = None
        /\ UNCHANGED <<tools, archive, images, used, broken>>
     \/ ~force /\ IF file # Absent /\ meta = want THEN Use ELSE Goto("alpine") /\ Keep

\* (Mutant: a data file that exists is taken.)
PrepareDataFileExists ==
  /\ script = "data" /\ pc = "check"
  /\ IF file # Absent THEN Use ELSE Goto("clear") /\ Keep

\* prepare_data_file: a file of the wanted size is taken.
PrepareDataFile ==
  /\ script = "data" /\ pc = "check"
  /\ IF file # Absent /\ file.parts = want THEN Use ELSE Goto("clear") /\ Keep

\* unlink, then truncate and mkfs, or dd's open.
Clear ==
  /\ UNCHANGED <<meta, tools, archive, images, used, broken>>
  /\ \/ pc = "clear" /\ Goto("make") /\ file' = Absent
     \/ pc = "make" /\ Goto("fill") /\ file' = [cfg |-> want, parts |-> 0]

\* tar, install or dd, one part at a time; the script ends when tar cannot
\* read its archive (TarFails).
Fill ==
  /\ pc = "fill" /\ (script = "stargz" => archive[Alpine] = "whole")
  /\ IF file.parts = Size(want)
     THEN Goto(IF HasMeta THEN "meta" ELSE "done") /\ UNCHANGED file
     ELSE Goto("fill") /\ file' = [file EXCEPT !.parts = @ + 1]
  /\ UNCHANGED <<meta, tools, archive, images, used, broken>>

\* write_text truncates the metadata and then writes it.
WriteMeta ==
  /\ UNCHANGED <<file, tools, archive, images, used, broken>>
  /\ \/ pc = "meta" /\ Goto("metaData") /\ meta' = Half
     \/ pc = "metaData" /\ Goto("done") /\ meta' = want

Built ==
  /\ pc = "done" /\ Goto(Ready) /\ used' = file /\ broken' = Unbroken /\ UNCHANGED cache

\* build_orca_init: "command -v go >/dev/null" prints nothing, found or not,
\* so the binary comes from a node's container, or from an earlier run.
BuildOrcaInit == pc = "init" /\ Goto("use") /\ Keep

\* The registry of an earlier run, or an empty one: RESET_REGISTRY, or the
\* container is gone.
EnsureRegistry ==
  /\ pc = "registry" /\ Goto("image") /\ UNCHANGED <<file, meta, tools, archive, used, broken>>
  /\ \/ UNCHANGED images
     \/ images' = [NoImages EXCEPT !.local = images.local]

Images(i) == images' = i /\ UNCHANGED <<file, meta, tools, archive, used>>

RegistryHasImage(name) == images[name] # None

\* build_benchmark_image: docker build moves the local tag, docker push the
\* registry's.
BuildBenchmarkImage ==
  /\ script = "iopsImages" /\ pc = "image" /\ UNCHANGED broken
  /\ IF ~force /\ RegistryHasImage("normal") THEN Goto("lazy") /\ Images(images)
     ELSE Goto("push") /\ Images([images EXCEPT !.local = NewBuild])

\* build_and_push_test_image, which keeps no local image.
BuildAndPushTestImage ==
  /\ script = "coldImages" /\ pc = "image" /\ UNCHANGED broken
  /\ IF RegistryHasImage("normal") THEN Goto("lazy") /\ Images([images EXCEPT !.local = None])
     ELSE Goto("push") /\ Images([images EXCEPT !.local = NewBuild])

\* docker push, and remove_local_images in the cold script.
PushImage ==
  /\ pc = "push" /\ Goto("lazy") /\ UNCHANGED broken
  /\ Images([images EXCEPT !.normal = images.local,
                           !.local = IF script = "coldImages" THEN None ELSE @])

\* optimize_and_push, optimize_lazy_image: what the registry has is taken for
\* the optimized form of the image it has.
OptimizeAndPush ==
  /\ pc = "lazy" /\ UNCHANGED broken
  /\ IF ~force /\ RegistryHasImage("lazy") THEN Goto("use") /\ Images(images)
     ELSE Goto("pushLazy") /\ Images([images EXCEPT !.pulled = images.normal])

\* What docker runs: the local image if there is one.
DockerImage == IF images.local # None THEN images.local ELSE images.normal

\* A new work directory, and with it a new optimizer, for every run.
PushLazy ==
  /\ pc = "pushLazy" /\ Goto("use")
  /\ Images([images EXCEPT !.lazy = images.pulled, !.pulled = None])
  /\ broken' = IF DockerImage = images.pulled THEN Unbroken ELSE broken

Finish == pc = "use" /\ Goto("idle") /\ used' = Absent /\ UNCHANGED <<cache, broken>>

\* The run ends early.  The finally blocks unmount and remove what is
\* temporary; the cached files stay as they are.
Abort ==
  /\ pc' = "idle" /\ used' = Absent
  /\ broken' = IF pc \in {"make", "fill", "meta", "metaData"}
               THEN [over |-> meta, forced |-> force]
               ELSE IF force /\ pc \in {"push", "lazy", "pushLazy"}
               THEN [over |-> None, forced |-> TRUE] ELSE broken
  /\ cut' = (cut \/ pc \in {"toolsCtr", "toolsGrpc"})
  /\ images' = [images EXCEPT !.pulled = None]
  /\ UNCHANGED <<script, want, force, file, meta, tools, archive>>

\* A command fails or the script is killed.
Dies ==
  /\ pc \notin {"idle", "use"} /\ failures < MaxFailures
  /\ failures' = failures + 1 /\ Abort

\* tar fails on half an archive, every time, wherever that ends.
TarFails ==
  /\ \/ pc \in {"toolsTar", "toolsCtr", "toolsGrpc"} /\ archive[want] = "partial"
     \/ pc = "fill" /\ script = "stargz" /\ archive[Alpine] = "partial"
  /\ Abort /\ UNCHANGED failures

----------------------------------------------------------------------------

Init ==
  /\ script \in Scripts
  /\ pc = "idle" /\ want = None /\ force = FALSE /\ file = Absent /\ meta = None
  /\ tools = [ctr |-> None, grpc |-> None] /\ archive = [n \in Names |-> "none"]
  /\ images = NoImages
  /\ used = Absent /\ broken = Unbroken /\ cut = FALSE /\ failures = 0

Run ==
  \/ EnsureStargzTools \/ ExtractTools
  \/ Download("toolsArchive", want, "toolsCurl", "toolsTar") \/ Curl("toolsCurl", want, "toolsTar")
  \/ Download("alpine", Alpine, "alpineCurl", "clear") \/ Curl("alpineCurl", Alpine, "clear")
  \/ WorkspaceCheck \/ StartupCheck \/ StargzCheck \/ PrepareDataFile
  \/ ExportImage \/ Clear \/ Fill \/ WriteMeta \/ Built
  \/ EnsureRegistry \/ BuildBenchmarkImage \/ BuildAndPushTestImage \/ PushImage
  \/ OptimizeAndPush \/ PushLazy
  \/ BuildOrcaInit \/ Finish \/ TarFails

Start ==
  \/ ImageInspect \/ PullAndInspect \/ StargzMain \/ ToolsMain \/ DataMain
  \/ IopsImagesMain \/ ColdImagesMain

Next == Start \/ Run \/ Dies

\* A run that is started goes on; somebody keeps starting runs.
Spec == Init /\ [][Next]_vars /\ WF_vars(Run) /\ WF_vars(Start)

----------------------------------------------------------------------------
(* Properties *)

\* A measurement gets a complete file built for what it asked for.  The one
\* way around it is a rebuild that died over metadata it had not removed: a
\* later run that asks for what that metadata names takes the remains of the
\* other build (ensure_local_rootfs, ensure_rootfs and an unforced
\* ensure_guest_rootfs unlink the file and leave the metadata).  A first build
\* that dies is never reused, and data files always have their size.
\* Likewise the image docker runs (Orca, in the cold script) and the optimized
\* one it is compared with are of one build, unless a run with FORCE_IMAGE died
\* between them: later runs take the mismatched pair from the registry.
UsedIsSound ==
  /\ (used # Absent /\ broken.over # want) =>
        /\ used.parts = Size(want)
        /\ HasMeta => used.cfg = want
  /\ (script = "iopsImages" /\ pc = "use" /\ ~broken.forced) => DockerImage = images.lazy
  /\ (script = "coldImages" /\ pc = "use") => images.normal = images.lazy

\* FORCE_ROOTFS of the stargz script takes the metadata away with the file, so
\* a forced rebuild that dies is never taken for a finished one; in
\* measure-vmm-startup it can be.
ForcedRebuildIsSafe ==
  (used # Absent /\ used.parts < Size(want) /\ broken.forced) => script = "startup"

\* ensure_stargz_tools looks only for the two names.  Still the pair a run
\* uses is never put together from two versions, and it is whole unless an
\* earlier extraction died in a binary or met half an archive.
ToolsAreOnePair ==
  (script \in {"tools", "stargz"} /\ pc \in {"check", "use"}) =>
     \/ tools.ctr \in Configs /\ tools.grpc = tools.ctr
     \/ cut /\ Half \in {tools.ctr, tools.grpc} /\ None \notin {tools.ctr, tools.grpc}

Poisoned == \E n \in Names : archive[n] = "partial" /\ pc \notin {"toolsCurl", "alpineCurl"}

\* Once runs stop dying, retrying succeeds again and again, whatever the dead
\* runs left in the caches.  The exception is a download that broke off: it is
\* kept under its final name and later runs take it for the archive.
RetriesSucceed == <>[](~Poisoned) => []<>(pc = "use")

=============================================================================

---------------------------- MODULE ScriptProofs ----------------------------
(***************************************************************************)
(* The safety properties of ArtifactCache and of VmWait.  The two have     *)
(* nothing in common but this module.                                      *)
(***************************************************************************)
EXTENDS ArtifactCache, VmWait, TLAPS

-----------------------------------------------------------------------------
(***************************************************************************)
(* ArtifactCache: what runs find in their caches, for any configurations,  *)
(* any number of parts and any number of runs that die.                    *)
(*                                                                         *)
(* The invariant says what the metadata may be trusted for.  A file beside *)
(* metadata is whole and of the configuration these name, but while a run  *)
(* rebuilds it and after one died doing so (Cached); a rebuild knows how   *)
(* far it is (Made), and a forced one of the stargz script has no metadata *)
(* to leave behind (Clean).  The tools are missing, a pair or cut, but     *)
(* while they are extracted (Paired).  The images of a registry are those  *)
(* of the last build, but while a forced run replaces them and after one   *)
(* died doing so (Pushed).                                                 *)
(***************************************************************************)

FileScripts == {"workspace", "startup", "stargz", "data"}
ToolScripts == {"tools", "stargz"}
ImageScripts == {"iopsImages", "coldImages"}

\* Where a run replaces the file, the tools, the images.
Building == {"make", "fill", "meta", "metaData"}
Extracting == {"toolsCtr", "toolsGrpc"}
Replacing == {"push", "lazy", "pushLazy"}

FileSteps == {"check", "export", "alpine", "alpineCurl", "clear", "done", "init"} \cup Building
ToolSteps == {"tools", "toolsArchive", "toolsCurl", "toolsTar"} \cup Extracting
ImageSteps == {"registry", "image"} \cup Replacing

Files == [cfg : Int, parts : Int]

Types ==
  /\ script \in Scripts
  /\ pc \in {"idle", "use"} \cup FileSteps \cup ToolSteps \cup ImageSteps
  /\ want \in Configs \cup {None} /\ (pc # "idle" => want \in Configs)
  /\ file \in Files
  /\ tools \in [ctr : Int, grpc : Int]
  /\ images \in [local : Int, normal : Int, lazy : Int, pulled : Int]

\* Which script is where, and which scripts may be forced.
Path ==
  /\ pc \in FileSteps => script \in FileScripts
  /\ pc \in {"meta", "metaData"} => HasMeta
  /\ pc \in {"export", "init"} => script # "stargz"
  /\ pc \in ToolSteps => script \in ToolScripts
  /\ pc \in ImageSteps => script \in ImageScripts
  /\ force \/ broken.forced => script \in {"startup", "stargz", "iopsImages"}

\* f is a complete file for configuration c.
Whole(f, c) == f.cfg = c /\ f.parts = Size(c)

\* How far a rebuild is.
Made ==
  /\ pc = "fill" => file.cfg = want
  /\ pc \in {"meta", "metaData", "done"} => Whole(file, want)
  /\ pc = "done" /\ HasMeta => meta = want

\* What the metadata say of the file.
Cached ==
  HasMeta /\ meta \in Configs /\ pc \notin Building /\ file # Absent /\ broken.over # meta
    => Whole(file, meta)

\* What a run takes is the file, and the metadata or the size fit.
Taken ==
  used # Absent =>
    /\ pc \in {"init", "use"} /\ script \in FileScripts /\ used = file
    /\ HasMeta => meta = want
    /\ script = "data" => file.parts = want

\* A forced run of the stargz script has removed the metadata.
Clean ==
  script = "stargz" =>
    /\ force /\ pc \in {"alpine", "alpineCurl", "clear", "make", "fill", "meta"} => meta = None
    /\ force /\ pc = "metaData" => meta = Half
    /\ broken.forced => broken.over \notin Configs

\* The tools, and that a run which goes on has both.
Paired ==
  script \in ToolScripts =>
    /\ pc = "toolsCtr" => tools.ctr = Half
    /\ pc = "toolsGrpc" => tools.ctr = want /\ tools.grpc = Half
    /\ pc \notin Extracting =>
         \/ tools.ctr = None /\ tools.grpc = None
         \/ tools.ctr \in Configs /\ tools.grpc = tools.ctr
         \/ cut /\ (tools.ctr = Half \/ tools.grpc = Half)
    /\ pc \notin {"idle"} \cup ToolSteps => tools.ctr # None /\ tools.grpc # None

\* What the steps before have put into docker and the registry, and that this is
\* of one build.
Pushed ==
  script \in ImageScripts =>
    /\ images.lazy # None => images.normal # None
    /\ script = "iopsImages" /\ images.normal # None => images.local # None
    /\ pc = "push" => images.local # None
    /\ pc = "push" /\ ~force => images.normal = None
    /\ pc \in {"lazy", "pushLazy"} => images.normal # None
    /\ pc = "pushLazy" => images.pulled = images.normal
    /\ pc = "use" => images.lazy # None
    /\ script = "coldImages" /\ images.lazy # None => images.lazy = images.normal
    /\ script = "iopsImages" /\ ~broken.forced =>
         /\ images.normal # None /\ ~(force /\ pc = "push") => images.normal = images.local
         /\ images.lazy # None /\ ~(force /\ pc \in Replacing) => images.lazy = images.local

Inv == Types /\ Path /\ Made /\ Cached /\ Taken /\ Clean /\ Paired /\ Pushed

-----------------------------------------------------------------------------
(* Values.                                                                 *)

LEMMA Values ==
    /\ None \notin Configs /\ Half \notin Configs /\ None # Half
    /\ None \in Int /\ Half \in Int /\ Configs \subseteq Int /\ Parts \in Int
    /\ Absent.cfg = None /\ Absent.parts = 0 /\ Absent \in Files
    /\ Unbroken.over = None /\ ~Unbroken.forced
BY ConfigsAssumption DEF None, Half, Absent, Files, Unbroken

\* Three builds may be in use, so one of four tags is free.
LEMMA NewBuildType ==
    ASSUME Types
    PROVE  NewBuild \in Int /\ NewBuild # None
<1>1. images.normal \in Int /\ images.lazy \in Int /\ images.pulled \in Int
  BY Zenon DEF Types
<1>2. \E b \in 1 .. 4 : b # images.normal /\ b # images.lazy /\ b # images.pulled
  BY <1>1
<1>3. \E b \in 1 .. 4 : b \notin {images.normal, images.lazy, images.pulled}
  BY <1>2, Zenon
<1>4. NewBuild \in 1 .. 4
  BY <1>3, Zenon DEF NewBuild
<1> QED BY <1>4 DEF None

\* A file that is whole for a configuration exists.
LEMMA WholeExists ==
    ASSUME NEW f, NEW c \in Configs, f.cfg = c
    PROVE  f # Absent
BY Values, Zenon

-----------------------------------------------------------------------------
(* What the steps of one kind of script leave alone.                       *)

LEMMA PairedKept ==
    ASSUME Inv, UNCHANGED <<script, want, tools, cut>>, pc \notin Extracting, pc' \notin Extracting,
           pc' \notin {"idle"} \cup ToolSteps => pc \notin {"idle"} \cup ToolSteps
    PROVE  Paired'
BY Zenon DEF Inv, Paired, Extracting

LEMMA CachedKept ==
    ASSUME Inv, UNCHANGED <<script, file, meta, broken>>, pc \notin Building
    PROVE  Cached'
<1>1. Cached
  BY Zenon DEF Inv
<1> QED BY <1>1, Zenon DEF Cached, HasMeta, Whole, Size

LEMMA FileStep ==
    ASSUME Inv, UNCHANGED <<script, want, force, tools, images, cut>>,
           pc \in FileSteps, pc' \in FileSteps \cup {"use"},
           Types', Path', Made', Cached', Taken', Clean'
    PROVE  Inv'
<1>1. script \in FileScripts
  BY Zenon DEF Inv, Path
<1>2. Pushed'
  BY <1>1, Zenon DEF Pushed, FileScripts, ImageScripts
<1>3. /\ pc \notin Extracting /\ pc' \notin Extracting
      /\ pc \notin {"idle"} \cup ToolSteps
  BY Zenon DEF FileSteps, Building, ToolSteps, Extracting
<1>4. Paired'
  BY <1>3, PairedKept, Zenon
<1> QED BY <1>2, <1>4, Zenon DEF Inv

LEMMA ToolStep ==
    ASSUME Inv, UNCHANGED <<script, want, force, file, meta, images, used, broken>>,
           pc \in ToolSteps, pc' \in ToolSteps \cup {"check", "use"}, Types', Path', Paired'
    PROVE  Inv'
<1>1. script \in ToolScripts /\ Taken
  BY Zenon DEF Inv, Path
<1>2. pc \notin Building /\ pc \notin {"init", "use"}
  BY Zenon DEF ToolSteps, Extracting, Building
<1>3. used' = Absent
  BY <1>1, <1>2, Zenon DEF Taken
<1>4. pc' \notin {"fill", "meta", "metaData", "done", "alpine", "alpineCurl", "clear", "make"}
  BY Zenon DEF ToolSteps, Extracting
<1>5. Made' /\ Taken'
  BY <1>3, <1>4, Zenon DEF Made, Taken, Absent
<1>6. Cached'
  BY <1>2, CachedKept, Zenon
<1>7. Clean'
  <2>1. Clean
    BY Zenon DEF Inv
  <2> QED BY <1>4, <2>1, Zenon DEF Clean
<1>8. Pushed'
  BY <1>1, Zenon DEF Pushed, ToolScripts, ImageScripts
<1> QED BY <1>5, <1>6, <1>7, <1>8, Zenon DEF Inv

LEMMA ImageStep ==
    ASSUME Inv, UNCHANGED <<script, want, force, file, meta, tools, used, cut>>,
           script \in ImageScripts, Types', Path', Pushed'
    PROVE  Inv'
<1>1. script \notin FileScripts /\ script \notin ToolScripts /\ ~HasMeta /\ script # "stargz"
  BY Zenon DEF ImageScripts, FileScripts, ToolScripts, HasMeta
<1>2. used' = Absent
  BY <1>1, Zenon DEF Inv, Taken
<1>3. pc' \notin {"fill", "meta", "metaData", "done"}
  BY <1>1, Zenon DEF Path, FileSteps, Building
<1>4. Made' /\ Taken' /\ Cached' /\ Clean' /\ Paired'
  BY <1>1, <1>2, <1>3, Zenon DEF Made, Taken, Cached, Clean, Paired, HasMeta, Absent
<1> QED BY <1>4, Zenon DEF Inv

-----------------------------------------------------------------------------
(* A run begins or ends.                                                   *)

LEMMA StartEffects ==
    ASSUME Start
    PROVE  /\ pc = "idle" /\ want' \in Configs /\ used' = Absent
           /\ UNCHANGED <<script, file, meta, tools, archive, images, broken, cut>>
           /\ pc' \in {"check", "tools", "registry"}
           /\ pc' = "check" => script \in {"workspace", "startup", "data"}
           /\ pc' = "tools" => script \in ToolScripts
           /\ pc' = "registry" => script \in ImageScripts
           /\ force' => script \in {"startup", "stargz", "iopsImages"}
BY Zenon DEF Start, ImageInspect, PullAndInspect, StargzMain, ToolsMain, DataMain,
   IopsImagesMain, ColdImagesMain, Begin, cache, ToolScripts, ImageScripts

LEMMA StartKeeps ==
    ASSUME Inv, Start
    PROVE  Inv'
<1>0. Types /\ Path /\ Clean /\ Paired /\ Pushed
  BY Zenon DEF Inv
<1>1. pc' \notin Building /\ pc' \notin Extracting /\ pc' \notin Replacing
  BY StartEffects, Zenon DEF Building, Extracting, Replacing
<1>2. Types'
  BY <1>0, StartEffects, Zenon DEF Types, FileSteps, ToolSteps, ImageSteps
<1>3. Path'
  BY <1>0, StartEffects, Zenon DEF Path, FileSteps, ToolSteps, ImageSteps, Building, Extracting,
     Replacing, FileScripts
<1>4. Made' /\ Taken'
  BY StartEffects, Zenon DEF Made, Taken, Absent
<1>5. Cached'
  <2>1. pc \notin Building
    BY StartEffects, Zenon DEF Building
  <2> QED BY <2>1, StartEffects, CachedKept, Zenon
<1>6. Clean'
  BY <1>0, StartEffects, Zenon DEF Clean
<1>7. Paired'
  <2>1. script \in ToolScripts => pc' \in {"idle"} \cup ToolSteps
    BY StartEffects, Zenon DEF ToolScripts, ImageScripts, ToolSteps
  <2>2. pc \notin Extracting
    BY StartEffects, Zenon DEF Extracting
  <2> QED BY <1>0, <1>1, <2>1, <2>2, StartEffects, Zenon DEF Paired, Extracting
<1>8. Pushed'
  <2>1. pc \notin Replacing /\ pc # "push" /\ pc' # "push" /\ pc' # "use"
        /\ pc' # "lazy" /\ pc' # "pushLazy"
    BY StartEffects, Zenon DEF Replacing
  <2> QED BY <1>0, <1>1, <2>1, StartEffects, Zenon DEF Pushed
<1> QED BY <1>2, <1>3, <1>4, <1>5, <1>6, <1>7, <1>8, Zenon DEF Inv

\* Whether it dies or tar fails, the next run finds what this one left.
LEMMA AbortKeeps ==
    ASSUME Inv, pc \notin {"idle", "use"}, Abort
    PROVE  Inv'
<1>0. Types /\ Path /\ Cached /\ Clean /\ Paired /\ Pushed
  BY Zenon DEF Inv
<1>1. /\ pc' = "idle" /\ used' = Absent /\ UNCHANGED <<script, want, force, file, meta, tools>>
      /\ broken' = IF pc \in Building THEN [over |-> meta, forced |-> force]
                   ELSE IF force /\ pc \in Replacing
                   THEN [over |-> None, forced |-> TRUE] ELSE broken
      /\ cut' = (cut \/ pc \in Extracting)
      /\ images' = [images EXCEPT !.pulled = None]
  BY Zenon DEF Abort, Building, Replacing, Extracting
<1>2. /\ images' \in [local : Int, normal : Int, lazy : Int, pulled : Int]
      /\ images'.local = images.local /\ images'.normal = images.normal
      /\ images'.lazy = images.lazy
  BY <1>0, <1>1, Values DEF Types
<1>3. /\ pc \in Building => broken'.over = meta /\ (broken'.forced => force)
      /\ pc \notin Building /\ force /\ pc \in Replacing => broken'.forced /\ broken'.over = None
      /\ pc \notin Building /\ ~(force /\ pc \in Replacing) => broken' = broken
  BY <1>1, Zenon
<1>4. Types'
  BY <1>0, <1>1, <1>2, Zenon DEF Types
<1>5. Path'
  <2>1. force' \/ broken'.forced => force \/ broken.forced
    BY <1>1, <1>3, Zenon
  <2> QED BY <1>0, <1>1, <2>1, Zenon DEF Path, FileSteps, ToolSteps, ImageSteps, Building,
          Extracting, Replacing
<1>6. Made' /\ Taken'
  BY <1>1, Zenon DEF Made, Taken, Absent
<1>7. Cached'
  <2>1. CASE pc \in Building
    BY <1>1, <1>3, <2>1, Zenon DEF Cached
  <2>2. CASE pc \notin Building /\ force /\ pc \in Replacing
    <3>1. script \in ImageScripts
      BY <1>0, <2>2, Zenon DEF Path, ImageSteps
    <3> QED BY <1>1, <3>1, Zenon DEF Cached, HasMeta, ImageScripts
  <2>3. CASE pc \notin Building /\ ~(force /\ pc \in Replacing)
    BY <1>1, <1>3, <2>3, CachedKept, Zenon
  <2> QED BY <2>1, <2>2, <2>3, Zenon
<1>8. Clean'
  <2> SUFFICES ASSUME script = "stargz", broken'.forced PROVE broken'.over \notin Configs
    BY <1>1, Zenon DEF Clean
  <2>1. CASE pc \in Building
    <3>1. meta = None \/ meta = Half
      BY <1>0, <1>3, <2>1, Zenon DEF Clean, Building
    <3> QED BY <1>3, <2>1, <3>1, Values, Zenon
  <2>2. CASE pc \notin Building /\ force /\ pc \in Replacing
    BY <1>3, <2>2, Values, Zenon
  <2>3. CASE pc \notin Building /\ ~(force /\ pc \in Replacing)
    BY <1>0, <1>3, <2>3, Zenon DEF Clean
  <2> QED BY <2>1, <2>2, <2>3, Zenon
<1>9. Paired'
  <2> SUFFICES ASSUME script \in ToolScripts
               PROVE  \/ tools.ctr = None /\ tools.grpc = None
                      \/ tools.ctr \in Configs /\ tools.grpc = tools.ctr
                      \/ cut' /\ (tools.ctr = Half \/ tools.grpc = Half)
    BY <1>1, Zenon DEF Paired
  <2>1. CASE pc \in Extracting
    BY <1>0, <1>1, <2>1, Zenon DEF Paired, Extracting
  <2>2. CASE pc \notin Extracting
    BY <1>0, <1>1, <2>2, Zenon DEF Paired
  <2> QED BY <2>1, <2>2, Zenon
<1>10. Pushed'
  <2> SUFFICES ASSUME script \in ImageScripts PROVE Pushed'
    BY <1>1, Zenon DEF Pushed
  <2>1. pc \notin Building
    BY <1>0, Zenon DEF Path, FileSteps, FileScripts, ImageScripts
  <2>2. ~broken'.forced => ~broken.forced /\ ~(force /\ pc \in Replacing) /\ ~(force /\ pc = "push")
    BY <1>3, <2>1, Zenon DEF Replacing
  <2> QED BY <1>0, <1>1, <1>2, <2>2, Zenon DEF Pushed
<1> QED BY <1>4, <1>5, <1>6, <1>7, <1>8, <1>9, <1>10, Zenon DEF Inv

LEMMA FinishKeeps ==
    ASSUME Inv, Finish
    PROVE  Inv'
<1>0. Types /\ Path /\ Clean /\ Pushed
  BY Zenon DEF Inv
<1>1. /\ pc = "use" /\ pc' = "idle" /\ used' = Absent
      /\ UNCHANGED <<script, want, force, file, meta, tools, images, broken, cut>>
  BY Zenon DEF Finish, Goto, cache
<1>2. Types'
  BY <1>0, <1>1, Zenon DEF Types
<1>3. Path'
  BY <1>0, <1>1, Zenon DEF Path, FileSteps, ToolSteps, ImageSteps, Building, Extracting, Replacing
<1>4. Made' /\ Taken'
  BY <1>1, Zenon DEF Made, Taken, Absent
<1>5. Cached'
  BY <1>1, CachedKept, Zenon DEF Building
<1>6. Clean'
  BY <1>0, <1>1, Zenon DEF Clean
<1>7. Paired'
  BY <1>1, PairedKept, Zenon DEF Extracting
<1>8. Pushed'
  BY <1>0, <1>1, Zenon DEF Pushed, Replacing
<1> QED BY <1>2, <1>3, <1>4, <1>5, <1>6, <1>7, <1>8, Zenon DEF Inv

-----------------------------------------------------------------------------
(* The file.                                                               *)

\* A run that has nothing in use yet, or leaves build_orca_init, goes on.
LEMMA MoveKeeps ==
    ASSUME Inv, UNCHANGED <<script, want, force, file, meta, tools, images, used, broken, cut>>,
           pc \in {"check", "export", "alpine", "alpineCurl", "init"},
           pc' \in {"export", "alpine", "alpineCurl", "clear", "use"},
           pc' = "use" <=> pc = "init",
           script = "stargz" => pc' # "export" /\ (force => pc # "check")
    PROVE  Inv'
<1>0. Types /\ Path /\ Taken /\ Clean
  BY Zenon DEF Inv
<1>1. script \in FileScripts /\ pc \in FileSteps /\ pc' \in FileSteps \cup {"use"}
  BY <1>0, Zenon DEF Path, FileSteps
<1>2. Types'
  BY <1>0, <1>1, Zenon DEF Types
<1>3. Path'
  <2>1. /\ pc' \notin {"meta", "metaData"} /\ pc' # "init"
        /\ pc' \notin ToolSteps /\ pc' \notin ImageSteps
    BY Zenon DEF ToolSteps, ImageSteps, Extracting, Replacing
  <2> QED BY <1>0, <1>1, <2>1, Zenon DEF Path
<1>4. Made'
  BY Zenon DEF Made
<1>5. Taken'
  BY <1>0, Zenon DEF Taken, HasMeta, Absent
<1>6. Cached'
  BY CachedKept, Zenon DEF Building
<1>7. Clean'
  <2>1. script = "stargz" /\ force => pc \in {"alpine", "alpineCurl"}
    BY <1>0, Zenon DEF Path
  <2> QED BY <1>0, <2>1, Zenon DEF Clean
<1> QED BY <1>1, <1>2, <1>3, <1>4, <1>5, <1>6, <1>7, FileStep, Zenon

\* A run takes the cached file, or the one it has just built.
LEMMA UseKeeps ==
    ASSUME Inv, pc \in {"check", "done"}, pc' = Ready, used' = file,
           UNCHANGED <<script, want, force, file, meta, tools, images, cut>>,
           broken' = broken \/ (pc = "done" /\ broken' = Unbroken),
           HasMeta => meta = want, script = "data" => file.parts = want
    PROVE  Inv'
<1>0. Types /\ Path /\ Made /\ Cached /\ Clean
  BY Zenon DEF Inv
<1>1. script \in FileScripts /\ pc \in FileSteps /\ pc' \in {"init", "use"}
  BY <1>0, Zenon DEF Path, FileSteps, Ready
<1>2. pc' \in FileSteps \cup {"use"} /\ (pc' = "init" => script # "stargz")
  BY <1>1, Zenon DEF FileSteps, Ready
<1>3. broken'.forced => broken.forced
  BY Values, Zenon
<1>4. Types'
  BY <1>0, <1>1, <1>2, Zenon DEF Types
<1>5. Path'
  <2>1. /\ pc' \notin {"meta", "metaData"} /\ pc' # "export"
        /\ pc' \notin ToolSteps /\ pc' \notin ImageSteps
    BY <1>1, Zenon DEF ToolSteps, ImageSteps, Extracting, Replacing
  <2> QED BY <1>0, <1>1, <1>2, <1>3, <2>1, Zenon DEF Path
<1>6. Made'
  BY <1>1, Zenon DEF Made
<1>7. Taken'
  BY <1>1, Zenon DEF Taken, HasMeta, Absent
<1>8. Cached'
  <2>1. CASE broken' = broken
    BY <2>1, CachedKept, Zenon DEF Building
  <2>2. CASE pc = "done"
    <3>1. Whole(file, want)
      BY <1>0, <2>2, Zenon DEF Made
    <3> QED BY <3>1, Zenon DEF Cached, HasMeta, Whole, Size
  <2> QED BY <2>1, <2>2, Zenon
<1>9. Clean'
  <2>1. broken' = Unbroken => ~broken'.forced
    BY Values, Zenon
  <2> QED BY <1>0, <1>1, <2>1, Zenon DEF Clean
<1> QED BY <1>1, <1>2, <1>4, <1>5, <1>6, <1>7, <1>8, <1>9, FileStep, Zenon

\* The checks: the file is taken, or the run goes on to build.
LEMMA CheckKeeps ==
    ASSUME Inv, WorkspaceCheck \/ StartupCheck \/ PrepareDataFile
    PROVE  Inv'
<1>1. /\ pc = "check" /\ script \in {"workspace", "startup", "data"}
      /\ UNCHANGED <<script, want, force, file, meta, tools, images, broken, cut>>
      /\ \/ pc' \in {"clear", "export"} /\ UNCHANGED used
         \/ pc' = Ready /\ used' = file /\ (HasMeta => meta = want)
            /\ (script = "data" => file.parts = want)
  BY Zenon DEF WorkspaceCheck, StartupCheck, PrepareDataFile, Use, Goto, Keep, cache, HasMeta
<1>2. CASE pc' \in {"clear", "export"} /\ UNCHANGED used
  BY <1>1, <1>2, MoveKeeps, Zenon
<1>3. CASE pc' = Ready /\ used' = file /\ (HasMeta => meta = want)
           /\ (script = "data" => file.parts = want)
  BY <1>1, <1>3, UseKeeps, Zenon
<1> QED BY <1>1, <1>2, <1>3, Zenon

\* A forced rebuild loses file and metadata at once.
LEMMA ForceKeeps ==
    ASSUME Inv, script = "stargz", pc = "check", force, pc' = "alpine", file' = Absent,
           meta' = None,
           UNCHANGED <<script, want, force, tools, images, used, broken, cut>>
    PROVE  Inv'
<1>0. Types /\ Path /\ Taken /\ Clean
  BY Zenon DEF Inv
<1>1. pc \in FileSteps /\ pc' \in FileSteps
  BY Zenon DEF FileSteps
<1>2. Types'
  BY <1>0, <1>1, Values, Zenon DEF Types
<1>3. Path'
  <2>1. pc' \notin ToolSteps /\ pc' \notin ImageSteps
    BY Zenon DEF ToolSteps, ImageSteps, Extracting, Replacing
  <2> QED BY <1>0, <2>1, Zenon DEF Path, FileScripts
<1>4. Made' /\ Taken' /\ Cached' /\ Clean'
  BY <1>0, Values, Zenon DEF Made, Taken, Cached, Clean, Absent
<1> QED BY <1>1, <1>2, <1>3, <1>4, FileStep, Zenon

LEMMA StargzCheckKeeps ==
    ASSUME Inv, StargzCheck
    PROVE  Inv'
<1>1. /\ pc = "check" /\ script = "stargz" /\ script # "data"
      /\ UNCHANGED <<script, want, force, tools, images, broken, cut>>
      /\ \/ force /\ pc' = "alpine" /\ file' = Absent /\ meta' = None /\ UNCHANGED used
         \/ ~force /\ pc' = "alpine" /\ UNCHANGED <<file, meta, used>>
         \/ pc' = Ready /\ used' = file /\ UNCHANGED <<file, meta>> /\ meta = want
  BY Zenon DEF StargzCheck, Use, Goto, Keep, cache
<1>2. CASE force /\ pc' = "alpine" /\ file' = Absent /\ meta' = None /\ UNCHANGED used
  BY <1>1, <1>2, ForceKeeps, Zenon
<1>3. CASE ~force /\ pc' = "alpine" /\ UNCHANGED <<file, meta, used>>
  BY <1>1, <1>3, MoveKeeps, Zenon
<1>4. CASE pc' = Ready /\ used' = file /\ UNCHANGED <<file, meta>> /\ meta = want
  BY <1>1, <1>4, UseKeeps, Zenon
<1> QED BY <1>1, <1>2, <1>3, <1>4, Zenon

LEMMA BuiltKeeps ==
    ASSUME Inv, Built
    PROVE  Inv'
<1>1. /\ pc = "done" /\ pc' = Ready /\ used' = file /\ broken' = Unbroken
      /\ UNCHANGED <<script, want, force, file, meta, tools, images, cut>>
  BY Zenon DEF Built, Goto, cache
<1>2. Whole(file, want) /\ (HasMeta => meta = want)
  BY <1>1, Zenon DEF Inv, Made
<1>3. script = "data" => file.parts = want
  BY <1>2, Zenon DEF Whole, Size
<1> QED BY <1>1, <1>2, <1>3, UseKeeps, Zenon

\* The old file goes, and the new one is begun.
LEMMA ClearKeeps ==
    ASSUME Inv, Clear
    PROVE  Inv'
<1>0. Types /\ Path /\ Taken /\ Clean
  BY Zenon DEF Inv
<1>1. /\ UNCHANGED <<script, want, force, meta, tools, images, used, broken, cut>>
      /\ \/ pc = "clear" /\ pc' = "make" /\ file' = Absent
         \/ pc = "make" /\ pc' = "fill" /\ file' = [cfg |-> want, parts |-> 0]
  BY Zenon DEF Clear, Goto
<1>2. pc \in FileSteps /\ pc' \in FileSteps /\ pc' \in Building /\ script \in FileScripts
  BY <1>0, <1>1, Zenon DEF Path, FileSteps, Building
<1>3. file' \in Files /\ (pc = "make" => file'.cfg = want)
  BY <1>0, <1>1, Values DEF Types, Files
<1>4. Types'
  BY <1>0, <1>1, <1>2, <1>3, Zenon DEF Types
<1>5. Path'
  <2>1. pc' \notin ToolSteps /\ pc' \notin ImageSteps
    BY <1>1, Zenon DEF ToolSteps, ImageSteps, Extracting, Replacing
  <2> QED BY <1>0, <1>1, <1>2, <2>1, Zenon DEF Path
<1>6. Made' /\ Cached'
  BY <1>1, <1>2, <1>3, Zenon DEF Made, Cached
<1>7. Taken' /\ Clean'
  <2>1. used' = Absent
    BY <1>0, <1>1, Zenon DEF Taken
  <2> QED BY <1>0, <1>1, <2>1, Zenon DEF Taken, Clean, Absent
<1> QED BY <1>1, <1>2, <1>4, <1>5, <1>6, <1>7, FileStep, Zenon

\* A part is written, or the file is whole.
LEMMA FillKeeps ==
    ASSUME Inv, Fill
    PROVE  Inv'
<1>0. Types /\ Path /\ Made /\ Taken /\ Clean
  BY Zenon DEF Inv
<1>1. /\ pc = "fill" /\ UNCHANGED <<script, want, force, meta, tools, images, used, broken, cut>>
      /\ \/ /\ file.parts = Size(want) /\ UNCHANGED file
            /\ (HasMeta /\ pc' = "meta") \/ (~HasMeta /\ pc' = "done")
         \/ pc' = "fill" /\ file' = [file EXCEPT !.parts = file.parts + 1]
  BY Zenon DEF Fill, Goto
<1>2. pc \in FileSteps /\ pc' \in FileSteps /\ script \in FileScripts
  BY <1>0, <1>1, Zenon DEF Path, FileSteps, Building
<1>3. file' \in Files /\ file'.cfg = file.cfg
  BY <1>0, <1>1 DEF Types, Files
<1>4. file'.cfg = want /\ (pc' # "fill" => file'.parts = Size(want))
  BY <1>0, <1>1, <1>3, Zenon DEF Made
<1>5. Types'
  BY <1>0, <1>1, <1>2, <1>3, Zenon DEF Types
<1>6. Path'
  <2>1. pc' \notin ToolSteps /\ pc' \notin ImageSteps
    BY <1>1, Zenon DEF ToolSteps, ImageSteps, Extracting, Replacing
  <2>2. pc' \in {"meta", "metaData"} => HasMeta
    BY <1>1, Zenon
  <2> QED BY <1>0, <1>1, <1>2, <2>1, <2>2, Zenon DEF Path, HasMeta
<1>7. Made'
  BY <1>1, <1>4, Zenon DEF Made, Whole, Size, HasMeta
<1>8. Cached'
  BY <1>1, Zenon DEF Cached, HasMeta, Building
<1>9. Taken' /\ Clean'
  <2>1. used' = Absent
    BY <1>0, <1>1, Zenon DEF Taken
  <2> QED BY <1>0, <1>1, <2>1, Zenon DEF Taken, Clean, Absent
<1> QED BY <1>1, <1>2, <1>5, <1>6, <1>7, <1>8, <1>9, FileStep, Zenon

\* The metadata are truncated, and then name the file that is whole.
LEMMA WriteMetaKeeps ==
    ASSUME Inv, WriteMeta
    PROVE  Inv'
<1>0. Types /\ Path /\ Made /\ Taken /\ Clean
  BY Zenon DEF Inv
<1>1. /\ UNCHANGED <<script, want, force, file, tools, images, used, broken, cut>>
      /\ \/ pc = "meta" /\ pc' = "metaData" /\ meta' = Half
         \/ pc = "metaData" /\ pc' = "done" /\ meta' = want
  BY Zenon DEF WriteMeta, Goto
<1>2. /\ pc \in FileSteps /\ pc' \in FileSteps /\ script \in FileScripts /\ HasMeta
      /\ Whole(file, want)
  BY <1>0, <1>1, Zenon DEF Path, Made, FileSteps, Building
<1>3. Whole(file, want)'
  BY <1>1, <1>2, Zenon DEF Whole, Size
<1>4. Types'
  BY <1>0, <1>1, <1>2, Zenon DEF Types
<1>5. Path'
  <2>1. pc' \notin ToolSteps /\ pc' \notin ImageSteps
    BY <1>1, Zenon DEF ToolSteps, ImageSteps, Extracting, Replacing
  <2> QED BY <1>0, <1>1, <1>2, <2>1, Zenon DEF Path, HasMeta
<1>6. Made'
  BY <1>1, <1>3, Zenon DEF Made
<1>7. Cached'
  BY <1>1, <1>3, Zenon DEF Cached, Building
<1>8. Taken' /\ Clean'
  <2>1. used' = Absent
    BY <1>0, <1>1, Zenon DEF Taken
  <2> QED BY <1>0, <1>1, <2>1, Zenon DEF Taken, Clean, Absent
<1> QED BY <1>1, <1>2, <1>4, <1>5, <1>6, <1>7, <1>8, FileStep, Zenon

-----------------------------------------------------------------------------
(* The tools and the downloads.                                            *)

\* Steps of ensure_stargz_tools that leave the binaries alone.
LEMMA ToolsMove ==
    ASSUME Inv, UNCHANGED <<script, want, force, file, meta, tools, images, used, broken, cut>>,
           pc \in ToolSteps \ Extracting, pc' \in (ToolSteps \ Extracting) \cup {"check", "use"},
           pc' = "check" => script # "tools",
           pc' \in {"check", "use"} => tools.ctr # None /\ tools.grpc # None
    PROVE  Inv'
<1>0. Types /\ Path /\ Paired
  BY Zenon DEF Inv
<1>1. script \in ToolScripts
  BY <1>0, Zenon DEF Path
<1>2. Types'
  <2>1. pc' \in {"idle", "use"} \cup FileSteps \cup ToolSteps \cup ImageSteps
    BY Zenon DEF FileSteps
  <2>2. pc # "idle"
    BY Zenon DEF ToolSteps, Extracting
  <2> QED BY <1>0, <2>1, <2>2, Zenon DEF Types
<1>3. Path'
  <2>1. pc' \notin ImageSteps /\ (pc' \in FileSteps => pc' = "check")
        /\ pc' \notin {"meta", "metaData", "export", "init"}
    BY Zenon DEF ToolSteps, ImageSteps, FileSteps, Building, Extracting, Replacing
  <2> QED BY <1>0, <1>1, <2>1, Zenon DEF Path, ToolScripts, FileScripts
<1>4. Paired'
  <2>1. pc' \notin Extracting
    BY Zenon DEF Extracting
  <2> QED BY <1>0, <2>1, Zenon DEF Paired, Extracting
<1> QED BY <1>2, <1>3, <1>4, ToolStep, Zenon

LEMMA EnsureStargzToolsKeeps ==
    ASSUME Inv, EnsureStargzTools
    PROVE  Inv'
<1>1. /\ pc = "tools"
      /\ UNCHANGED <<script, want, force, file, meta, tools, images, used, broken, cut>>
      /\ \/ pc' = "toolsArchive"
         \/ /\ tools.ctr # None /\ tools.grpc # None
            /\ (pc' = "use") \/ (pc' = "check" /\ script # "tools")
  BY Zenon DEF EnsureStargzTools, Goto, Keep, cache
<1>2. pc \in ToolSteps \ Extracting /\ pc' \in (ToolSteps \ Extracting) \cup {"check", "use"}
  BY <1>1, Zenon DEF ToolSteps, Extracting
<1> QED BY <1>1, <1>2, ToolsMove, Zenon

\* What has been downloaded is no part of the invariant: half an archive ends
\* the run that meets it.
LEMMA DownloadKeeps ==
    ASSUME Inv,
           \/ Download("toolsArchive", want, "toolsCurl", "toolsTar")
           \/ Curl("toolsCurl", want, "toolsTar")
           \/ Download("alpine", Alpine, "alpineCurl", "clear")
           \/ Curl("alpineCurl", Alpine, "clear")
    PROVE  Inv'
<1>1. /\ UNCHANGED <<script, want, force, file, meta, tools, images, used, broken, cut>>
      /\ \/ pc \in {"toolsArchive", "toolsCurl"} /\ pc' \in {"toolsCurl", "toolsTar"}
         \/ pc \in {"alpine", "alpineCurl"} /\ pc' \in {"alpineCurl", "clear"}
  BY Zenon DEF Download, Curl, Goto
<1>2. CASE pc \in {"toolsArchive", "toolsCurl"} /\ pc' \in {"toolsCurl", "toolsTar"}
  <2>1. pc \in ToolSteps \ Extracting /\ pc' \in ToolSteps \ Extracting
        /\ pc' \notin {"check", "use"}
    BY <1>2, Zenon DEF ToolSteps, Extracting
  <2> QED BY <1>1, <2>1, ToolsMove, Zenon
<1>3. CASE pc \in {"alpine", "alpineCurl"} /\ pc' \in {"alpineCurl", "clear"}
  BY <1>1, <1>3, MoveKeeps, Zenon
<1> QED BY <1>1, <1>2, <1>3, Zenon

LEMMA ExtractToolsKeeps ==
    ASSUME Inv, ExtractTools
    PROVE  Inv'
<1>0. Types /\ Path /\ Paired
  BY Zenon DEF Inv
<1>1. /\ UNCHANGED <<script, want, force, file, meta, images, used, broken, cut>>
      /\ \/ pc = "toolsTar" /\ pc' = "toolsCtr" /\ tools' = [tools EXCEPT !.ctr = Half]
         \/ pc = "toolsCtr" /\ pc' = "toolsGrpc" /\ tools' = [ctr |-> want, grpc |-> Half]
         \/ pc = "toolsGrpc" /\ pc' = "tools" /\ tools' = [tools EXCEPT !.grpc = want]
  BY Zenon DEF ExtractTools, Goto
<1>2. pc \in ToolSteps /\ pc' \in ToolSteps /\ script \in ToolScripts /\ want \in Configs
  BY <1>0, <1>1, Zenon DEF Path, Types, ToolSteps, Extracting
<1>3. /\ tools' \in [ctr : Int, grpc : Int]
      /\ pc = "toolsTar" => tools'.ctr = Half
      /\ pc = "toolsCtr" => tools'.ctr = want /\ tools'.grpc = Half
      /\ pc = "toolsGrpc" => tools'.ctr = tools.ctr /\ tools'.grpc = want
  <2>1. want \in Int /\ Half \in Int /\ tools \in [ctr : Int, grpc : Int]
    BY <1>0, <1>2, Values, Zenon DEF Types
  <2> QED BY <1>1, <2>1
<1>4. Types'
  BY <1>0, <1>1, <1>2, <1>3, Zenon DEF Types
<1>5. Path'
  <2>1. pc' \notin FileSteps /\ pc' \notin ImageSteps
        /\ pc' \notin {"meta", "metaData", "export", "init"}
    BY <1>1, Zenon DEF FileSteps, Building, ImageSteps, Replacing
  <2> QED BY <1>0, <1>1, <1>2, <2>1, Zenon DEF Path
<1>6. Paired'
  <2>1. CASE pc \in {"toolsTar", "toolsCtr"}
    BY <1>1, <1>2, <1>3, <2>1, Zenon DEF Paired, Extracting
  <2>2. CASE pc = "toolsGrpc"
    <3>1. tools'.ctr = want /\ tools'.grpc = want /\ pc' = "tools"
      BY <1>0, <1>1, <1>2, <1>3, <2>2, Zenon DEF Paired
    <3> QED BY <1>1, <1>2, <3>1, Zenon DEF Paired
  <2> QED BY <1>1, <2>1, <2>2, Zenon
<1> QED BY <1>1, <1>2, <1>4, <1>5, <1>6, ToolStep, Zenon

-----------------------------------------------------------------------------
(* The images.                                                             *)

\* A registry that was kept, or an empty one.
LEMMA EnsureRegistryKeeps ==
    ASSUME Inv, EnsureRegistry
    PROVE  Inv'
<1>0. Types /\ Path /\ Pushed
  BY Zenon DEF Inv
<1>1. /\ pc = "registry" /\ pc' = "image"
      /\ UNCHANGED <<script, want, force, file, meta, tools, used, broken, cut>>
      /\ images' = images \/ images' = [NoImages EXCEPT !.local = images.local]
  BY Zenon DEF EnsureRegistry, Goto
<1>2. pc' \in ImageSteps /\ script \in ImageScripts
  BY <1>0, <1>1, Zenon DEF Path, ImageSteps
<1>3. /\ images' \in [local : Int, normal : Int, lazy : Int, pulled : Int]
      /\ images'.local = images.local
      /\ images' # images => images'.normal = None /\ images'.lazy = None
  BY <1>0, <1>1, Values DEF Types, NoImages
<1>4. Types'
  BY <1>0, <1>1, <1>2, <1>3, Zenon DEF Types
<1>5. Path'
  <2>1. pc' \notin FileSteps /\ pc' \notin ToolSteps
    BY <1>1, Zenon DEF FileSteps, Building, ToolSteps, Extracting
  <2> QED BY <1>0, <1>1, <1>2, <2>1, Zenon DEF Path, FileSteps, Building
<1>6. Pushed'
  <2>1. ~(force /\ pc \in Replacing) /\ ~(force' /\ pc' \in Replacing) /\ pc # "push"
    BY <1>1, Zenon DEF Replacing
  <2> QED BY <1>0, <1>1, <1>3, <2>1, Zenon DEF Pushed
<1> QED BY <1>1, <1>2, <1>4, <1>5, <1>6, ImageStep, Zenon

\* A build is made when the registry has none, or by force.
LEMMA BuildKeeps ==
    ASSUME Inv, BuildBenchmarkImage \/ BuildAndPushTestImage
    PROVE  Inv'
<1>0. Types /\ Path /\ Pushed
  BY Zenon DEF Inv
<1>1. /\ pc = "image" /\ script \in ImageScripts
      /\ UNCHANGED <<script, want, force, file, meta, tools, used, broken, cut>>
      /\ \/ pc' = "lazy" /\ images.normal # None /\ (script = "iopsImages" => ~force)
            /\ images' = IF script = "iopsImages" THEN images ELSE [images EXCEPT !.local = None]
         \/ pc' = "push" /\ images' = [images EXCEPT !.local = NewBuild]
            /\ (images.normal = None \/ (script = "iopsImages" /\ force))
  BY Zenon DEF BuildBenchmarkImage, BuildAndPushTestImage, RegistryHasImage, Images, Goto,
     ImageScripts
<1>2. pc' \in ImageSteps
  BY <1>1, Zenon DEF ImageSteps, Replacing
<1>3. /\ images' \in [local : Int, normal : Int, lazy : Int, pulled : Int]
      /\ images'.normal = images.normal /\ images'.lazy = images.lazy
      /\ pc' = "lazy" /\ script = "iopsImages" => images'.local = images.local
      /\ pc' = "push" => images'.local # None
  BY <1>0, <1>1, NewBuildType, Values DEF Types
<1>4. Types'
  BY <1>0, <1>1, <1>2, <1>3, Zenon DEF Types
<1>5. Path'
  <2>1. pc' \notin FileSteps /\ pc' \notin ToolSteps
    BY <1>1, Zenon DEF FileSteps, Building, ToolSteps, Extracting
  <2> QED BY <1>0, <1>1, <1>2, <2>1, Zenon DEF Path, FileSteps, Building
<1>6. Pushed'
  <2>1. force => script = "iopsImages"
    BY <1>0, <1>1, Zenon DEF Path, ImageScripts
  <2>2. images.normal = None => images.lazy = None
    BY <1>0, <1>1, Zenon DEF Pushed
  <2>3. CASE pc' = "lazy"
    <3>1. ~(force /\ pc \in Replacing) /\ pc # "push"
      BY <1>1, Zenon DEF Replacing
    <3>2. images.normal # None /\ (script = "iopsImages" => images'.local = images.local)
      BY <1>1, <1>3, <2>3, Zenon
    <3> QED BY <1>0, <1>1, <1>3, <2>1, <2>3, <3>1, <3>2, Zenon DEF Pushed
  <2>4. CASE pc' = "push"
    <3>1. images'.local # None /\ (~force => images.normal = None /\ images.lazy = None)
      BY <1>1, <1>3, <2>2, <2>4, Zenon
    <3> QED BY <1>0, <1>1, <1>3, <2>4, <3>1, Zenon DEF Pushed, Replacing
  <2> QED BY <1>1, <2>3, <2>4, Zenon
<1> QED BY <1>1, <1>2, <1>4, <1>5, <1>6, ImageStep, Zenon

LEMMA PushImageKeeps ==
    ASSUME Inv, PushImage
    PROVE  Inv'
<1>0. Types /\ Path /\ Pushed
  BY Zenon DEF Inv
<1>1. /\ pc = "push" /\ pc' = "lazy"
      /\ UNCHANGED <<script, want, force, file, meta, tools, used, broken, cut>>
      /\ images' = [images EXCEPT !.normal = images.local,
                                  !.local = IF script = "coldImages" THEN None ELSE images.local]
  BY Zenon DEF PushImage, Images, Goto
<1>2. pc' \in ImageSteps /\ script \in ImageScripts
  BY <1>0, <1>1, Zenon DEF Path, ImageSteps, Replacing
<1>3. /\ images' \in [local : Int, normal : Int, lazy : Int, pulled : Int]
      /\ images'.normal = images.local /\ images'.lazy = images.lazy
      /\ script # "coldImages" => images'.local = images.local
  BY <1>0, <1>1, Values, Zenon DEF Types
<1>4. Types'
  BY <1>0, <1>1, <1>2, <1>3, Zenon DEF Types
<1>5. Path'
  <2>1. pc' \notin FileSteps /\ pc' \notin ToolSteps
    BY <1>1, Zenon DEF FileSteps, Building, ToolSteps, Extracting
  <2> QED BY <1>0, <1>1, <1>2, <2>1, Zenon DEF Path, FileSteps, Building
<1>6. Pushed'
  <2>1. force => script = "iopsImages"
    BY <1>0, <1>2, Zenon DEF Path, ImageScripts
  <2>2. images.local # None /\ (~force => images.lazy = None)
    BY <1>0, <1>1, <1>2, Zenon DEF Pushed
  <2>3. script = "iopsImages" => images'.local = images.local
    BY <1>3, Zenon
  <2> QED BY <1>1, <1>2, <1>3, <2>1, <2>2, <2>3, Zenon DEF Pushed, Replacing
<1> QED BY <1>1, <1>2, <1>4, <1>5, <1>6, ImageStep, Zenon

LEMMA OptimizeKeeps ==
    ASSUME Inv, OptimizeAndPush
    PROVE  Inv'
<1>0. Types /\ Path /\ Pushed
  BY Zenon DEF Inv
<1>1. /\ pc = "lazy" /\ UNCHANGED <<script, want, force, file, meta, tools, used, broken, cut>>
      /\ \/ pc' = "use" /\ ~force /\ images.lazy # None /\ images' = images
         \/ pc' = "pushLazy" /\ images' = [images EXCEPT !.pulled = images.normal]
  BY Zenon DEF OptimizeAndPush, RegistryHasImage, Images, Goto
<1>2. pc' \in ImageSteps \cup {"use"} /\ script \in ImageScripts
  BY <1>0, <1>1, Zenon DEF Path, ImageSteps, Replacing
<1>3. /\ images' \in [local : Int, normal : Int, lazy : Int, pulled : Int]
      /\ images'.local = images.local /\ images'.normal = images.normal
      /\ images'.lazy = images.lazy
      /\ pc' = "pushLazy" => images'.pulled = images.normal
  BY <1>0, <1>1 DEF Types
<1>4. Types'
  BY <1>0, <1>1, <1>2, <1>3, Zenon DEF Types
<1>5. Path'
  <2>1. pc' \notin FileSteps /\ pc' \notin ToolSteps
    BY <1>1, Zenon DEF FileSteps, Building, ToolSteps, Extracting
  <2> QED BY <1>0, <1>1, <1>2, <2>1, Zenon DEF Path, FileSteps, Building
<1>6. Pushed'
  <2>1. pc \in Replacing /\ (pc' \in Replacing \/ ~force) /\ pc # "push" /\ pc' # "push"
    BY <1>1, Zenon DEF Replacing
  <2> QED BY <1>0, <1>1, <1>2, <1>3, <2>1, Zenon DEF Pushed
<1> QED BY <1>1, <1>2, <1>4, <1>5, <1>6, ImageStep, Zenon

LEMMA PushLazyKeeps ==
    ASSUME Inv, PushLazy
    PROVE  Inv'
<1>0. Types /\ Path /\ Pushed
  BY Zenon DEF Inv
<1>1. /\ pc = "pushLazy" /\ pc' = "use"
      /\ UNCHANGED <<script, want, force, file, meta, tools, used, cut>>
      /\ images' = [images EXCEPT !.lazy = images.pulled, !.pulled = None]
      /\ \/ broken' = broken
         \/ DockerImage = images.pulled /\ broken' = Unbroken
  BY Zenon DEF PushLazy, Images, Goto
<1>2. script \in ImageScripts
  BY <1>0, <1>1, Zenon DEF Path, ImageSteps, Replacing
<1>3. /\ images' \in [local : Int, normal : Int, lazy : Int, pulled : Int]
      /\ images'.local = images.local /\ images'.normal = images.normal
      /\ images'.lazy = images.pulled
  BY <1>0, <1>1, Values, Zenon DEF Types
<1>4. Types'
  BY <1>0, <1>1, <1>3, Zenon DEF Types
<1>5. Path'
  <2>1. pc' \notin FileSteps /\ pc' \notin ToolSteps /\ pc' \notin ImageSteps
    BY <1>1, Zenon DEF FileSteps, Building, ToolSteps, Extracting, ImageSteps, Replacing
  <2>2. broken'.forced => broken.forced
    BY <1>1, Values, Zenon
  <2> QED BY <1>0, <1>1, <2>1, <2>2, Zenon DEF Path, FileSteps, Building
<1>6. images.pulled = images.normal /\ images.normal # None
  BY <1>0, <1>1, <1>2, Zenon DEF Pushed
<1>7. script = "iopsImages" /\ ~broken'.forced => images.normal = images.local
  <2>1. script = "iopsImages" => images.local # None
    BY <1>0, <1>2, <1>6, Zenon DEF Pushed
  <2>2. CASE broken' = broken
    BY <1>0, <1>1, <1>2, <1>6, <2>2, Zenon DEF Pushed
  <2>3. CASE DockerImage = images.pulled
    BY <1>6, <2>1, <2>3, Zenon DEF DockerImage
  <2> QED BY <1>1, <2>2, <2>3, Zenon
<1>8. Pushed'
  BY <1>0, <1>1, <1>2, <1>3, <1>6, <1>7, Zenon DEF Pushed
<1> QED BY <1>1, <1>2, <1>4, <1>5, <1>8, ImageStep, Zenon

-----------------------------------------------------------------------------
(* Theorems.                                                               *)

LEMMA InitInv == Init => Inv
<1> SUFFICES ASSUME Init PROVE Inv
  OBVIOUS
<1>1. /\ script \in Scripts /\ pc = "idle" /\ want = None /\ force = FALSE /\ file = Absent
      /\ meta = None /\ tools = [ctr |-> None, grpc |-> None] /\ images = NoImages
      /\ used = Absent /\ broken = Unbroken
  BY Zenon DEF Init
<1>2. /\ tools \in [ctr : Int, grpc : Int] /\ tools.ctr = None /\ tools.grpc = None
      /\ images \in [local : Int, normal : Int, lazy : Int, pulled : Int]
      /\ images.normal = None /\ images.lazy = None
  BY <1>1, Values DEF NoImages
<1>3. ~broken.forced
  BY <1>1, Values, Zenon
<1>4. Types
  BY <1>1, <1>2, Values, Zenon DEF Types
<1>5. Path
  BY <1>1, <1>3, Zenon DEF Path, FileSteps, ToolSteps, ImageSteps, Building, Extracting, Replacing
<1>6. Made /\ Cached /\ Taken /\ Clean
  BY <1>1, <1>3, Values, Zenon DEF Made, Cached, Taken, Clean, Absent
<1>7. Paired /\ Pushed
  BY <1>1, <1>2, Zenon DEF Paired, Pushed
<1> QED BY <1>4, <1>5, <1>6, <1>7, Zenon DEF Inv

LEMMA InvStep == Inv /\ [Next]_vars => Inv'
<1> SUFFICES ASSUME Inv, [Next]_vars PROVE Inv'
  OBVIOUS
<1>1. ASSUME ExportImage \/ BuildOrcaInit PROVE Inv'
  <2>1. /\ UNCHANGED <<script, want, force, file, meta, tools, images, used, broken, cut>>
        /\ (pc = "export" /\ pc' = "clear") \/ (pc = "init" /\ pc' = "use")
    BY <1>1, Zenon DEF ExportImage, BuildOrcaInit, Goto, Keep, cache
  <2> QED BY <2>1, MoveKeeps, Zenon
<1>2. ASSUME Dies \/ TarFails PROVE Inv'
  <2>1. Abort /\ pc \notin {"idle", "use"}
    BY <1>2, Zenon DEF Dies, TarFails
  <2> QED BY <2>1, AbortKeeps, Zenon
<1>3. CASE Run
  BY <1>1, <1>2, <1>3, EnsureStargzToolsKeeps, ExtractToolsKeeps, DownloadKeeps, CheckKeeps,
     StargzCheckKeeps, ClearKeeps, FillKeeps, WriteMetaKeeps, BuiltKeeps, EnsureRegistryKeeps,
     BuildKeeps, PushImageKeeps, OptimizeKeeps, PushLazyKeeps, FinishKeeps, Zenon DEF Run
<1>4. CASE UNCHANGED vars
  <2>1. UNCHANGED <<script, pc, want, force, file, meta, tools, images, used, broken, cut>>
    BY <1>4, Zenon DEF vars, cache
  <2>2. /\ Types' = Types /\ Path' = Path /\ Made' = Made /\ Cached' = Cached
        /\ Taken' = Taken /\ Clean' = Clean /\ Paired' = Paired /\ Pushed' = Pushed
    BY <2>1, Zenon DEF Types, Path, Made, Cached, Taken, Clean, Paired, Pushed, HasMeta, Whole, Size
  <2> QED BY <2>2, Zenon DEF Inv
<1> QED BY <1>2, <1>3, <1>4, StartKeeps, Zenon DEF Next

LEMMA InvAlways == Spec => []Inv
BY InitInv, InvStep, PTL DEF Spec

LEMMA UsedWhole ==
    ASSUME Inv, used # Absent, broken.over # want
    PROVE  used.parts = Size(want) /\ (HasMeta => used.cfg = want)
<1>0. Types /\ Cached /\ Taken
  BY Zenon DEF Inv
<1>1. /\ pc \notin Building /\ want \in Configs /\ used = file /\ script \in FileScripts
      /\ HasMeta => meta = want
      /\ script = "data" => file.parts = want
  BY <1>0, Zenon DEF Types, Taken, Building
<1>2. CASE HasMeta
  BY <1>0, <1>1, <1>2, Zenon DEF Cached, Whole
<1>3. CASE ~HasMeta
  <2>1. script = "data"
    BY <1>1, <1>3, Zenon DEF FileScripts, HasMeta
  <2> QED BY <1>1, <1>3, <2>1, Zenon DEF Size
<1> QED BY <1>2, <1>3, Zenon

\* What a measurement gets is whole and what was asked for, and the two images
\* of a comparison are of one build, but after the deaths UsedIsSound names:
\* ensure_local_rootfs, ensure_rootfs, ensure_guest_rootfs, prepare_data_file,
\* build_benchmark_image and optimize_and_push, for any number of runs.
THEOREM UsedIsSoundHolds == Spec => []UsedIsSound
<1>1. Inv => UsedIsSound
  <2> SUFFICES ASSUME Inv PROVE UsedIsSound
    OBVIOUS
  <2>1. Pushed
    BY Zenon DEF Inv
  <2>2. script = "iopsImages" /\ pc = "use" /\ ~broken.forced => DockerImage = images.lazy
    <3> SUFFICES ASSUME script = "iopsImages", pc = "use", ~broken.forced
                 PROVE  DockerImage = images.lazy
      BY Zenon
    <3>1. script \in ImageScripts /\ pc \notin Replacing
      BY Zenon DEF ImageScripts, Replacing
    <3>2. images.lazy # None /\ images.lazy = images.local
      BY <2>1, <3>1, Zenon DEF Pushed
    <3> QED BY <3>2, Zenon DEF DockerImage
  <2>3. script = "coldImages" /\ pc = "use" => images.normal = images.lazy
    BY <2>1, Zenon DEF Pushed, ImageScripts
  <2> QED BY <2>2, <2>3, UsedWhole, Zenon DEF UsedIsSound
<1> QED BY <1>1, InvAlways, PTL

\* A forced rebuild that died is taken for a finished one by measure-vmm-startup
\* only: ensure_guest_rootfs removes the metadata together with the file.
THEOREM ForcedRebuildIsSafeHolds == Spec => []ForcedRebuildIsSafe
<1>1. Inv => ForcedRebuildIsSafe
  <2> SUFFICES ASSUME Inv, used # Absent, used.parts < Size(want), broken.forced
               PROVE  script = "startup"
    BY Zenon DEF ForcedRebuildIsSafe
  <2>0. Types /\ Path /\ Taken /\ Clean
    BY Zenon DEF Inv
  <2>1. want \in Configs /\ script \in FileScripts
    BY <2>0, Zenon DEF Types, Taken
  <2>2. script = "stargz" => broken.over # want
    BY <2>0, <2>1, Zenon DEF Clean
  <2>3. Size(want) \in Int
    BY <2>1, Values, Zenon DEF Size
  <2>4. used.parts # Size(want)
    BY <2>3
  <2>5. script # "stargz"
    BY <2>2, <2>4, UsedWhole, Zenon
  <2> QED BY <2>0, <2>1, <2>5, Zenon DEF Path, FileScripts
<1> QED BY <1>1, InvAlways, PTL

\* ensure_stargz_tools looks only for the two names, and still no run uses
\* binaries of two versions, nor half a one but after an extraction was cut.
THEOREM ToolsAreOnePairHolds == Spec => []ToolsAreOnePair
<1>1. Inv => ToolsAreOnePair
  <2> SUFFICES ASSUME Inv, script \in {"tools", "stargz"}, pc \in {"check", "use"}
               PROVE  \/ tools.ctr \in Configs /\ tools.grpc = tools.ctr
                      \/ cut /\ Half \in {tools.ctr, tools.grpc} /\ None \notin {tools.ctr, tools.grpc}
    BY Zenon DEF ToolsAreOnePair
  <2>1. script \in ToolScripts /\ pc \notin Extracting /\ pc \notin {"idle"} \cup ToolSteps
    BY Zenon DEF ToolScripts, ToolSteps, Extracting
  <2> QED BY <2>1, Zenon DEF Inv, Paired
<1> QED BY <1>1, InvAlways, PTL

-----------------------------------------------------------------------------
(***************************************************************************)
(* VmWait, for any scripts and any plans: however many measurements a main *)
(* makes, of whatever kinds and in whatever order.                         *)
(*                                                                         *)
(* What a script concludes from the log and the process must still be true *)
(* when it acts on it.  The invariant ties an outcome to what was read     *)
(* (Decided), says what of machine, helper and TAP device can exist at     *)
(* each step (Existing), and that what is still there when main goes on    *)
(* has a cause (Explained).                                                *)
(***************************************************************************)
----------------------------------------------------------------------------
(* The inductive invariant *)

\* The functions with a TAP device.
Networked == {"local", "qemuLocal", "hotpool", "stargzFirst", "stargzBench"}

Looping == {"check", "read", "poll"}

\* Where the measurement has no outcome yet.
Undecided == {"start", "tap", "try", "socket", "after", "timeout", "container"} \cup Looping

\* Of the machine's console there is a prefix in the log.
Counted == log \in Nat /\ log <= Len(Markers)

\* An outcome stands on what the script has read or seen when it left the try.
Decided ==
  /\ pc \in Undecided => outcome = "none"
  /\ outcome = "row" => All(output)
  /\ (Kind \in Matrix \cup Startup /\ outcome = "exited")
        => vm = "exited" /\ ~Has(log, "result")

\* A guest under -hang-after-result that is gone has not printed its result;
\* the script's own kill comes after the loop.
Hanging == (Kind \in Matrix /\ vm = "exited" /\ pc \in Looping) => ~All(log)

\* What exists at each step, and for which measuring functions.
Existing ==
  /\ pc \in {"start", "tap", "try", "socket", "exit"} => vm = "none"
  /\ pc \in {"clean", "helperTerm", "helperKill", "operation"} => vm # "running"
  /\ helper # "none" => Kind = "diskVhost"
  /\ pc = "start" => helper = "none"
  /\ pc \in {"helperTerm", "helperKill"} => helper # "none"
  /\ tap => Kind \in Networked
  /\ pc \in {"start", "tap", "operation"} => ~tap
  /\ pc = "operation" => Kind \in Networked

\* Why x may stay behind.
Caused(x) ==
  \/ "kill" \in causes
  \/ x = "helper" /\ "socket" \in causes
  \/ x = "tap" /\ "tap" \in causes

\* Back in main, whatever is still there is there for a cause.
Explained == pc = "main" => \A x \in Remains : Caused(x)

WaitInv == /\ Counted /\ Decided /\ Hanging /\ Existing /\ Explained
           /\ LeakHasCause

----------------------------------------------------------------------------
(* What is printed *)

Stargz == {"stargzFirst", "stargzBench"}

\* The console of every measuring function, spelled out.
LEMMA Consoles ==
  ASSUME NEW k
  PROVE  \/ Printed(k) = <<>> /\ k = "none"
         \/ Printed(k) = <<"first", "result">> /\ k \notin Stargz
         \/ Printed(k) = <<"result">> /\ k \notin Stargz
         \/ Printed(k) = <<"ready", "result">> /\ k \notin Stargz
         \/ Printed(k) = <<"prefix", "result">> /\ k \notin Stargz
         \/ Printed(k) = <<"stargz", "containerd", "ready", "rpull", "step">> /\ k \in Stargz
         \/ Printed(k) = <<"stargz", "containerd", "ready", "rpull", "result", "step">> /\ k \in Stargz
  <1>1. GuestInitOutput("first") = <<"stargz", "containerd", "ready", "rpull", "step">>
    BY Zenon DEF GuestInitOutput
  <1>2. GuestInitOutput("bench")
           = <<"stargz", "containerd", "ready", "rpull", "result", "step">>
    BY Zenon DEF GuestInitOutput
  <1>3. CASE k \in {"none", "hotpool", "stargzFirst", "stargzBench"}
    BY <1>1, <1>2, <1>3, Zenon DEF Printed, Stargz, Startup
  <1>4. CASE k \in Startup
    BY <1>4, Zenon DEF Printed, Stargz, Startup
  <1>5. CASE k \in {"local", "qemuLocal", "stargzDockerFirst"}
    BY <1>5, Zenon DEF Printed, Stargz, Startup
  <1>6. CASE k \notin {"none", "hotpool", "stargzFirst", "stargzBench", "local", "qemuLocal",
                       "stargzDockerFirst"} \cup Startup
    BY <1>6, Zenon DEF Printed, Stargz, DiskBenchOutput
  <1>. QED  BY <1>3, <1>4, <1>5, <1>6, Zenon

LEMMA Lengths == ASSUME NEW k PROVE Len(Printed(k)) \in Nat
  BY Consoles

\* The last thing a guest prints is what the loops look for.
LEMMA LastIsAwaited ==
  ASSUME NEW k, NEW n \in Nat, n <= Len(Printed(k))
  PROVE  /\ (k \notin Stargz /\ \E i \in 1..n : Printed(k)[i] = "result")
               => n = Len(Printed(k))
         /\ (k \in Stargz /\ \E i \in 1..n : Printed(k)[i] = "step")
               => n = Len(Printed(k))
  <1>1. CASE Printed(k) = <<>> /\ k = "none"
    BY <1>1
  <1>2. CASE Printed(k) = <<"first", "result">> /\ k \notin Stargz
    BY <1>2
  <1>3. CASE Printed(k) = <<"result">> /\ k \notin Stargz
    BY <1>3
  <1>4. CASE Printed(k) = <<"ready", "result">> /\ k \notin Stargz
    BY <1>4
  <1>5. CASE Printed(k) = <<"prefix", "result">> /\ k \notin Stargz
    BY <1>5
  <1>6. CASE Printed(k) = <<"stargz", "containerd", "ready", "rpull", "step">> /\ k \in Stargz
    BY <1>6
  <1>7. CASE /\ Printed(k) = <<"stargz", "containerd", "ready", "rpull", "result", "step">>
             /\ k \in Stargz
    BY <1>7
  <1>. QED  BY <1>1, <1>2, <1>3, <1>4, <1>5, <1>6, <1>7, Consoles, Zenon

LEMMA ReadIsComplete ==
  ASSUME Counted
  PROVE  /\ (Kind \notin Stargz /\ Has(log, "result")) => All(log)
         /\ (Kind \in Stargz /\ Has(log, "step")) => All(log)
  BY LastIsAwaited, Zenon DEF Counted, Has, All, Markers

----------------------------------------------------------------------------
(* Frame lemmas *)

LEMMA SameKind ==
  ASSUME UNCHANGED <<script, results>>, pc # "exit", pc' # "exit"
  PROVE  Kind' = Kind
  BY Zenon DEF Kind

LEMMA SameConsole ==
  ASSUME Kind' = Kind
  PROVE  /\ Markers' = Markers
         /\ \A n : All(n)' <=> All(n)
         /\ \A n, m : Has(n, m)' <=> Has(n, m)
  BY Zenon DEF Markers, All, Has

\* A step of the script within a measurement touches neither the machine's
\* console nor what earlier measurements left.
LEMMA WithinConsole ==
  ASSUME WaitInv, UNCHANGED <<script, results, leaked, log>>, pc # "exit", pc' # "exit",
         \A c : c \in causes => c \in causes'
  PROVE  Kind' = Kind /\ Counted' /\ LeakHasCause'
  <1>0. Counted /\ LeakHasCause
    BY Zenon DEF WaitInv
  <1>1. Kind' = Kind
    BY SameKind, Zenon
  <1>2. Counted'
    BY <1>0, <1>1, SameConsole, Zenon DEF Counted
  <1>3. LeakHasCause'
    BY <1>0, Zenon DEF LeakHasCause
  <1>. QED  BY <1>1, <1>2, <1>3, Zenon

\* An outcome that claims neither a result nor the end of the process.
LEMMA NoClaim ==
  ASSUME outcome' \notin {"row", "exited"}, pc' \in Undecided => outcome' = "none"
  PROVE  Decided'
  BY Zenon DEF Decided

\* Once decided, an outcome stays true while nobody reads or writes.
LEMMA StaysDecided ==
  ASSUME WaitInv, Kind' = Kind, UNCHANGED <<log, output, outcome>>,
         vm = "exited" => vm' = "exited",
         pc' \in Undecided => pc \in Undecided
  PROVE  Decided'
  <1>0. Decided
    BY Zenon DEF WaitInv
  <1>1. /\ Markers' = Markers
        /\ \A n : All(n)' <=> All(n)
        /\ \A n, m : Has(n, m)' <=> Has(n, m)
    BY SameConsole, Zenon
  <1>2. outcome' = "row" => All(output)'
    BY <1>0, <1>1, Zenon DEF Decided, All
  <1>3. (Kind \in Matrix \cup Startup /\ outcome = "exited")'
           => (vm = "exited" /\ ~Has(log, "result"))'
    BY <1>0, <1>1, Zenon DEF Decided, Has
  <1>. QED  BY <1>0, <1>2, <1>3, Zenon DEF Decided

----------------------------------------------------------------------------
(* The waits *)

\* What every look at the deadline, the log or the process amounts to.
Looked ==
  /\ pc \in Looping \cup {"after"}
  /\ pc' \in Looping \cup {"after", "finally", "clientEnds"}
  /\ pc' \in Looping => pc \in Looping
  /\ UNCHANGED <<script, log, vm, helper, tap, results, leaked, causes>>
  /\ pc' \in Looping \cup {"after"} => outcome' = "none"
  /\ outcome' = "row" => output' = log /\ All(log)
  /\ (Kind \in Matrix \cup Startup /\ outcome' = "exited")
        => vm = "exited" /\ ~Has(log, "result")

LEMMA LookedStep ==
  ASSUME WaitInv, Looked
  PROVE  WaitInv'
  <1>0. Hanging /\ Existing
    BY Zenon DEF WaitInv
  <1>1. /\ pc \in {"check", "read", "poll", "after"}
        /\ pc' \in {"check", "read", "poll", "after", "finally", "clientEnds"}
        /\ UNCHANGED <<script, log, vm, helper, tap, results, leaked, causes>>
    BY Zenon DEF Looked, Looping
  <1>2. Kind' = Kind /\ Counted' /\ LeakHasCause'
    BY <1>1, WithinConsole, Zenon
  <1>3. /\ Markers' = Markers
        /\ \A n : All(n)' <=> All(n)
        /\ \A n, m : Has(n, m)' <=> Has(n, m)
    BY <1>2, SameConsole, Zenon
  <1>4. Decided'
    <2>1. (pc \in Undecided => outcome = "none")'
      BY <1>1, Zenon DEF Looked, Undecided, Looping
    <2>2. outcome' = "row" => All(output)'
      BY <1>3, Zenon DEF Looked, All
    <2>3. (Kind \in Matrix \cup Startup /\ outcome = "exited")'
             => (vm = "exited" /\ ~Has(log, "result"))'
      BY <1>1, <1>2, <1>3, Zenon DEF Looked, Has
    <2>. QED  BY <2>1, <2>2, <2>3, Zenon DEF Decided
  <1>5. Hanging'
    <2>1. pc' \in Looping /\ Kind \in Matrix /\ vm = "exited" => ~All(log)
      BY <1>0, Zenon DEF Hanging, Looked
    <2>. QED  BY <2>1, <1>1, <1>2, <1>3, Zenon DEF Hanging, All
  <1>6. Existing'
    BY <1>0, <1>1, <1>2, Zenon DEF Existing
  <1>7. Explained'
    BY <1>1, Zenon DEF Explained
  <1>. QED  BY <1>2, <1>4, <1>5, <1>6, <1>7, Zenon DEF WaitInv

LEMMA LoopsLook ==
  ASSUME WaitInv,
         \/ CheckDeadline \/ CpuLoop \/ DiskLoop \/ FileVsNbdLoop \/ WaitResultFromFile
         \/ WaitForMarker \/ LocalLoop \/ QemuLocalLoop \/ StargzLoop \/ HotpoolLoop
  PROVE  Looked
  <1>0. Counted /\ Decided /\ Hanging
    BY Zenon DEF WaitInv
  <1>1. /\ pc = "check" => outcome = "none"
        /\ pc = "read" => outcome = "none"
        /\ pc = "poll" => outcome = "none"
        /\ pc = "after" => outcome = "none"
    BY <1>0, Zenon DEF Decided, Undecided, Looping
  <1>2. /\ (Kind \notin Stargz /\ Has(log, "result")) => All(log)
        /\ (Kind \in Stargz /\ Has(log, "step")) => All(log)
    BY <1>0, ReadIsComplete, Zenon
  <1>. USE <1>1, <1>2 DEF Leave, Continue, Read, Poll, host, Looked, Looping, Stargz,
           Matrix, Startup
  <1>3. CASE CheckDeadline
    BY <1>3, Zenon DEF CheckDeadline
  <1>4. CASE CpuLoop
    BY <1>4, Zenon DEF CpuLoop
  <1>5. CASE DiskLoop
    BY <1>5, Zenon DEF DiskLoop
  <1>6. CASE FileVsNbdLoop
    BY <1>6, Zenon DEF FileVsNbdLoop
  <1>7. CASE WaitResultFromFile
    <2>1. pc = "poll" /\ vm = "exited" => ~Has(log, "result")
      BY <1>0, <1>7, Zenon DEF Hanging, WaitResultFromFile
    <2>. QED
      BY <1>7, <2>1, Zenon DEF WaitResultFromFile
  <1>8. CASE WaitForMarker
    BY <1>8, Zenon DEF WaitForMarker
  <1>9. CASE LocalLoop
    BY <1>9, Zenon DEF LocalLoop, LocalWait
  <1>10. CASE QemuLocalLoop
    BY <1>10, Zenon DEF QemuLocalLoop, LocalWait
  <1>11. CASE StargzLoop
    BY <1>11, Zenon DEF StargzLoop
  <1>12. CASE HotpoolLoop
    BY <1>12, Zenon DEF HotpoolLoop
  <1>. QED
    BY <1>3, <1>4, <1>5, <1>6, <1>7, <1>8, <1>9, <1>10, <1>11, <1>12, Zenon

LEMMA MeasureStep ==
  ASSUME WaitInv,
         \/ QemuDiskMeasure \/ CpuDocker \/ DiskDocker \/ MatrixDocker
         \/ DockerFirstOutput \/ DockerBench
  PROVE  WaitInv'
  <1>0. Counted /\ Existing
    BY Zenon DEF WaitInv
  <1>1. /\ pc \in {"timeout", "container"} /\ pc' = "main"
        /\ Kind \notin Networked \cup Stargz \cup Matrix \cup Startup \cup {"diskVhost"}
        /\ UNCHANGED <<script, log, helper, tap, results, leaked, causes>>
        /\ output' = log /\ vm' = "exited"
        /\ outcome' = "row" => Has(log, "result")
        /\ outcome' # "exited"
    <2>. USE DEF ContainerMeasure, Networked, Stargz, Matrix, Startup
    <2>1. CASE QemuDiskMeasure
      BY <2>1, Zenon DEF QemuDiskMeasure
    <2>2. CASE CpuDocker
      BY <2>2, Zenon DEF CpuDocker
    <2>3. CASE DiskDocker
      BY <2>3, Zenon DEF DiskDocker
    <2>4. CASE MatrixDocker
      BY <2>4, Zenon DEF MatrixDocker
    <2>5. CASE DockerFirstOutput
      BY <2>5, Zenon DEF DockerFirstOutput
    <2>6. CASE DockerBench
      BY <2>6, Zenon DEF DockerBench
    <2>. QED  BY <2>1, <2>2, <2>3, <2>4, <2>5, <2>6, Zenon
  <1>2. Kind' = Kind /\ Counted' /\ LeakHasCause'
    BY <1>1, WithinConsole, Zenon
  <1>3. Decided'
    <2>1. outcome' = "row" => All(output)'
      BY <1>0, <1>1, <1>2, ReadIsComplete, SameConsole, Zenon DEF All
    <2>. QED  BY <1>1, <2>1, Zenon DEF Decided, Undecided, Looping
  <1>4. Hanging'
    BY <1>1, Zenon DEF Hanging, Looping
  <1>5. helper = "none" /\ ~tap
    BY <1>0, <1>1, Zenon DEF Existing
  <1>6. Existing'
    BY <1>1, <1>5, Zenon DEF Existing
  <1>7. Explained'
    BY <1>1, <1>5, Zenon DEF Explained, Remains
  <1>. QED  BY <1>2, <1>3, <1>4, <1>6, <1>7, Zenon DEF WaitInv

----------------------------------------------------------------------------
(* The machines and the clock *)

LEMMA GuestWritesStep ==
  ASSUME WaitInv, GuestWrites
  PROVE  WaitInv'
  <1>0. /\ Counted /\ Decided /\ Hanging /\ Existing /\ Explained /\ LeakHasCause
    BY Zenon DEF WaitInv
  <1>1. /\ vm = "running" /\ ~All(log) /\ log' = log + 1
        /\ UNCHANGED <<script, pc, output, vm, helper, tap, outcome, results, leaked, causes>>
    BY Zenon DEF GuestWrites
  <1>2. Kind' = Kind
    BY <1>1, Zenon DEF Kind
  <1>3. /\ Markers' = Markers
        /\ \A n : All(n)' <=> All(n)
        /\ \A n, m : Has(n, m)' <=> Has(n, m)
    BY <1>2, SameConsole, Zenon
  <1>4. Counted'
    <2>1. Len(Markers) \in Nat
      BY Lengths, Zenon DEF Markers
    <2>. QED  BY <1>0, <1>1, <1>3, <2>1 DEF Counted, All
  <1>5. Decided'
    <2>1. outcome' = "row" => All(output)'
      BY <1>0, <1>1, <1>3, Zenon DEF Decided, All
    <2>2. ~(Kind' \in Matrix \cup Startup /\ outcome' = "exited")
      BY <1>0, <1>1, <1>2, Zenon DEF Decided
    <2>. QED  BY <1>0, <1>1, <2>1, <2>2, Zenon DEF Decided
  <1>6. Hanging'
    BY <1>1, Zenon DEF Hanging
  <1>7. Existing'
    BY <1>0, <1>1, <1>2, Zenon DEF Existing
  <1>8. Explained'
    BY <1>0, <1>1, Zenon DEF Explained, Remains, Caused
  <1>9. LeakHasCause'
    BY <1>0, <1>1, Zenon DEF LeakHasCause
  <1>. QED  BY <1>4, <1>5, <1>6, <1>7, <1>8, <1>9, Zenon DEF WaitInv

LEMMA GuestExitsStep ==
  ASSUME WaitInv, GuestExits
  PROVE  WaitInv'
  <1>0. Existing /\ Explained
    BY Zenon DEF WaitInv
  <1>1. /\ vm = "running" /\ vm' = "exited" /\ ~(Kind \in Matrix /\ All(log))
        /\ UNCHANGED <<script, pc, log, output, helper, tap, outcome, results, leaked, causes>>
    BY Zenon DEF GuestExits, Hangs
  <1>2. pc # "exit"
    BY <1>0, <1>1, Zenon DEF Existing
  <1>3. Kind' = Kind /\ Counted' /\ LeakHasCause'
    BY <1>1, <1>2, WithinConsole, Zenon
  <1>4. Decided'
    BY <1>1, <1>3, StaysDecided, Zenon
  <1>5. Hanging'
    BY <1>1, <1>3, SameConsole, Zenon DEF Hanging, All
  <1>6. Existing'
    BY <1>0, <1>1, <1>3, Zenon DEF Existing
  <1>7. Explained'
    BY <1>0, <1>1, Zenon DEF Explained, Remains, Caused
  <1>. QED  BY <1>3, <1>4, <1>5, <1>6, <1>7, Zenon DEF WaitInv

LEMMA HelperExitsStep ==
  ASSUME WaitInv, HelperExits
  PROVE  WaitInv'
  <1>0. Hanging /\ Existing /\ Explained
    BY Zenon DEF WaitInv
  <1>1. /\ helper = "running" /\ helper' = "exited"
        /\ UNCHANGED <<script, pc, log, output, vm, tap, outcome, results, leaked, causes>>
    BY Zenon DEF HelperExits
  <1>2. pc # "exit" /\ pc # "start"
    BY <1>0, <1>1, Zenon DEF Existing, Kind
  <1>3. Kind' = Kind /\ Counted' /\ LeakHasCause'
    BY <1>1, <1>2, WithinConsole, Zenon
  <1>4. Decided'
    BY <1>1, <1>3, StaysDecided, Zenon
  <1>5. Hanging'
    BY <1>0, <1>1, <1>3, SameConsole, Zenon DEF Hanging, All
  <1>6. Existing'
    BY <1>0, <1>1, <1>2, <1>3, Zenon DEF Existing
  <1>7. Explained'
    BY <1>0, <1>1, Zenon DEF Explained, Remains, Caused
  <1>. QED  BY <1>3, <1>4, <1>5, <1>6, <1>7, Zenon DEF WaitInv

\* A step that changes nothing the invariant speaks of.
LEMMA StutterStep ==
  ASSUME WaitInv,
         UNCHANGED <<script, pc, log, output, vm, helper, tap, outcome, results, leaked, causes>>
  PROVE  WaitInv'
  <1>0. /\ Counted /\ Decided /\ Hanging /\ Existing /\ Explained /\ LeakHasCause
    BY Zenon DEF WaitInv
  <1>1. Kind' = Kind
    BY Zenon DEF Kind
  <1>2. /\ Markers' = Markers
        /\ \A n : All(n)' <=> All(n)
        /\ \A n, m : Has(n, m)' <=> Has(n, m)
    BY <1>1, SameConsole, Zenon
  <1>3. Counted' /\ Decided'
    BY <1>0, <1>1, <1>2, StaysDecided, Zenon DEF Counted
  <1>4. Hanging' /\ Existing'
    BY <1>0, <1>1, <1>2, Zenon DEF Hanging, Existing, All
  <1>5. Explained' /\ LeakHasCause'
    BY <1>0, Zenon DEF Explained, Remains, Caused, LeakHasCause
  <1>. QED  BY <1>3, <1>4, <1>5, Zenon DEF WaitInv

----------------------------------------------------------------------------
(* The set-up *)

\* An exception before the try leaves a storage daemon or a TAP device, with
\* its cause.
LEMMA AbortStep ==
  ASSUME WaitInv, NEW o \in {"failed", "noAssets"}, GiveUp(o), pc \in {"start", "tap", "socket"},
         \A c : c \in causes => c \in causes',
         helper' = helper, helper = "running" => "socket" \in causes',
         tap' => Kind \in Networked /\ "tap" \in causes'
  PROVE  WaitInv'
  <1>0. Existing
    BY Zenon DEF WaitInv
  <1>1. /\ pc' = "main" /\ outcome' = o
        /\ UNCHANGED <<script, log, vm, results, leaked>>
    BY Zenon DEF GiveUp
  <1>2. Kind' = Kind /\ Counted' /\ LeakHasCause'
    BY <1>1, WithinConsole, Zenon
  <1>3. Decided'
    BY <1>1, NoClaim, Zenon DEF Undecided, Looping
  <1>4. Hanging'
    BY <1>1, Zenon DEF Hanging, Looping
  <1>5. Existing' /\ vm' = "none"
    BY <1>0, <1>1, <1>2, Zenon DEF Existing
  <1>6. Explained'
    BY <1>5, Zenon DEF Explained, Remains, Caused
  <1>. QED  BY <1>2, <1>3, <1>4, <1>5, <1>6, Zenon DEF WaitInv

LEMMA PopenStep ==
  ASSUME WaitInv, Popen, pc \in {"start", "try", "socket"}, UNCHANGED <<helper, tap>>
  PROVE  WaitInv'
  <1>0. Decided /\ Existing
    BY Zenon DEF WaitInv
  <1>1. /\ pc' \in {"timeout", "container", "check"} /\ vm' = "running"
        /\ UNCHANGED <<script, log, output, outcome, results, leaked, causes>>
    BY Zenon DEF Popen
  <1>2. Kind' = Kind /\ Counted' /\ LeakHasCause'
    BY <1>1, WithinConsole, Zenon
  <1>3. Decided'
    BY <1>0, <1>1, NoClaim, Zenon DEF Decided, Undecided
  <1>4. Hanging'
    BY <1>1, Zenon DEF Hanging
  <1>5. Existing'
    BY <1>0, <1>1, <1>2, Zenon DEF Existing
  <1>6. Explained'
    BY <1>1, Zenon DEF Explained
  <1>. QED  BY <1>2, <1>3, <1>4, <1>5, <1>6, Zenon DEF WaitInv

\* A step of the set-up that goes on, or leaves the try without a machine.
LEMMA SetupGoesOn ==
  ASSUME WaitInv, pc \in {"start", "tap", "try"}, pc' \in {"socket", "tap", "try", "finally"},
         UNCHANGED <<script, log, vm, results, leaked, causes>>,
         outcome' \in {outcome, "failed"}, pc' # "finally" => outcome' = outcome,
         helper' # "none" => (helper # "none" \/ Kind = "diskVhost"),
         tap' => (tap \/ (Kind \in Networked /\ pc' = "try")), pc' = "tap" => pc = "start"
  PROVE  WaitInv'
  <1>0. Decided /\ Existing
    BY Zenon DEF WaitInv
  <1>1. Kind' = Kind /\ Counted' /\ LeakHasCause'
    BY WithinConsole, Zenon
  <1>2. outcome = "none"
    BY <1>0, Zenon DEF Decided, Undecided
  <1>3. Decided'
    BY <1>2, NoClaim, Zenon DEF Undecided, Looping
  <1>4. Hanging'
    BY Zenon DEF Hanging, Looping
  <1>5. pc' = "tap" => ~tap'
    BY <1>0, Zenon DEF Existing
  <1>6. /\ vm' = "none" /\ (helper' # "none" => Kind' = "diskVhost")
        /\ (tap' => Kind' \in Networked)
    BY <1>0, <1>1, Zenon DEF Existing
  <1>7. Existing'
    BY <1>5, <1>6, Zenon DEF Existing
  <1>8. Explained'
    BY Zenon DEF Explained
  <1>. QED  BY <1>1, <1>3, <1>4, <1>7, <1>8, Zenon DEF WaitInv

LEMMA PlainSetupStep ==
  ASSUME WaitInv, PlainSetup
  PROVE  WaitInv'
  <1>1. /\ pc = "start" /\ UNCHANGED <<helper, tap>>
        /\ \/ GiveUp("failed") /\ UNCHANGED causes
           \/ Popen
    BY Zenon DEF PlainSetup
  <1>2. helper = "none" /\ ~tap
    BY <1>1, Zenon DEF WaitInv, Existing
  <1>3. CASE GiveUp("failed") /\ UNCHANGED causes
    BY <1>1, <1>2, <1>3, AbortStep, Zenon
  <1>4. CASE Popen
    BY <1>1, <1>4, PopenStep, Zenon
  <1>. QED  BY <1>1, <1>3, <1>4, Zenon

LEMMA DiskSetupStep ==
  ASSUME WaitInv, DiskSetup
  PROVE  WaitInv'
  <1>1. Kind \in {"disk", "diskVhost"} /\ UNCHANGED tap
    BY Zenon DEF DiskSetup
  <1>2. ~tap /\ (pc = "start" => helper = "none")
    BY <1>1, Zenon DEF WaitInv, Existing, Networked
  <1>3. CASE pc = "start" /\ UNCHANGED helper /\ GiveUp("failed") /\ UNCHANGED causes
    BY <1>1, <1>2, <1>3, AbortStep, Zenon
  <1>4. CASE pc \in {"start", "socket"} /\ UNCHANGED helper /\ Popen
    BY <1>1, <1>4, PopenStep, Zenon
  <1>5. CASE /\ pc = "start" /\ Kind = "diskVhost" /\ pc' = "socket"
             /\ UNCHANGED <<script, log, output, vm, sent, outcome, results, leaked, causes>>
    BY <1>1, <1>5, SetupGoesOn, Zenon
  <1>6. CASE /\ pc = "socket" /\ UNCHANGED helper
             /\ GiveUp("failed") /\ causes' = causes \cup {"socket"}
    BY <1>1, <1>2, <1>6, AbortStep, Zenon
  <1>. QED  BY <1>3, <1>4, <1>5, <1>6, Zenon DEF DiskSetup

LEMMA TapStepsStep ==
  ASSUME WaitInv, TapSteps, Kind \in Networked
  PROVE  WaitInv'
  <1>1. ~tap /\ pc = "tap" /\ UNCHANGED helper
    BY Zenon DEF TapSteps, WaitInv, Existing
  <1>2. helper # "running"
    BY Zenon DEF WaitInv, Existing, Networked
  <1>3. CASE GiveUp("failed") /\ UNCHANGED <<tap, causes>>
    BY <1>1, <1>2, <1>3, AbortStep, Zenon
  <1>4. CASE GiveUp("failed") /\ causes' = causes \cup {"tap"}
    BY <1>1, <1>2, <1>4, AbortStep, Zenon
  <1>5. CASE /\ pc' = "try"
             /\ UNCHANGED <<script, log, output, vm, expired, sent, outcome, results, leaked,
                            causes>>
    BY <1>1, <1>5, SetupGoesOn, Zenon
  <1>. QED  BY <1>3, <1>4, <1>5, Zenon DEF TapSteps

LEMMA NetSetupStep ==
  ASSUME WaitInv, NetSetup \/ MissingAssets, Kind \in Networked
  PROVE  WaitInv'
  <1>1. UNCHANGED <<helper, tap>>
    BY Zenon DEF NetSetup, MissingAssets
  <1>2. (pc = "start" => ~tap) /\ helper # "running"
    BY Zenon DEF WaitInv, Existing, Networked
  <1>3. ASSUME NEW o \in {"failed", "noAssets"}, pc = "start", GiveUp(o), UNCHANGED causes
        PROVE  WaitInv'
    BY <1>1, <1>2, <1>3, AbortStep, Zenon
  <1>4. CASE pc = "start" /\ Continue("tap") /\ UNCHANGED host
    <2>1. pc' = "tap" /\ UNCHANGED <<script, log, vm, outcome, results, leaked, causes>>
      BY <1>4, Zenon DEF Continue, host
    <2>. QED  BY <1>1, <1>4, <2>1, SetupGoesOn, Zenon
  <1>5. CASE pc = "try" /\ Leave("failed") /\ UNCHANGED <<output, host>>
    <2>1. /\ pc' = "finally" /\ outcome' = "failed"
          /\ UNCHANGED <<script, log, vm, results, leaked, causes>>
      BY <1>5, Zenon DEF Leave, host
    <2>. QED  BY <1>1, <1>5, <2>1, SetupGoesOn, Zenon
  <1>6. CASE pc = "try" /\ Popen
    BY <1>1, <1>6, PopenStep, Zenon
  <1>. QED  BY <1>3, <1>4, <1>5, <1>6, Zenon DEF NetSetup, MissingAssets

LEMMA SetupStep ==
  ASSUME WaitInv, Setup
  PROVE  WaitInv'
  <1>1. \/ PlainSetup \/ DiskSetup
        \/ Kind \in Networked /\ (NetSetup \/ MissingAssets \/ TapSteps)
    BY Zenon DEF Setup, CpuSetup, FileVsNbdSetup, MatrixSetup, MatrixQemuSetup,
       MatrixCloudSetup,
       StartupSetup, StartupDockerSetup, StartupQemuSetup, StartupCloudSetup,
       QemuDiskSetup,
       ContainerSetup, LocalSetup, QemuLocalSetup, StargzSetup, HotpoolSetup, SetupTap,
       StargzSetupTap, Networked
  <1>. QED
    BY <1>1, PlainSetupStep, DiskSetupStep, NetSetupStep, TapStepsStep, Zenon

----------------------------------------------------------------------------
(* The finally blocks *)

\* A step behind the wait that keeps the outcome or raises.
LEMMA Behind ==
  ASSUME WaitInv, pc \notin Undecided \cup {"exit"}, pc' \notin Undecided \cup {"exit"},
         UNCHANGED <<script, log, output, results, leaked>>,
         outcome' \in {outcome, "failed", "stuck"}, vm = "exited" => vm' = "exited",
         \A c : c \in causes => c \in causes',
         helper' # "none" => helper # "none",  tap' => tap
  PROVE  /\ Kind' = Kind /\ Counted' /\ LeakHasCause' /\ Decided' /\ Hanging'
         /\ helper' # "none" => Kind' = "diskVhost"
         /\ tap' => Kind' \in Networked
  <1>0. Existing
    BY Zenon DEF WaitInv
  <1>1. pc # "exit" /\ pc' # "exit" /\ pc' \notin Undecided
    BY Zenon
  <1>2. Kind' = Kind /\ Counted' /\ LeakHasCause'
    BY <1>1, WithinConsole, Zenon
  <1>3. Decided'
    <2>1. CASE outcome' = outcome
      BY <1>1, <1>2, <2>1, StaysDecided, Zenon
    <2>2. CASE outcome' \in {"failed", "stuck"}
      BY <1>1, <2>2, NoClaim, Zenon
    <2>. QED  BY <2>1, <2>2, Zenon
  <1>4. Hanging'
    BY <1>1, Zenon DEF Hanging, Undecided
  <1>5. (helper' # "none" => Kind' = "diskVhost") /\ (tap' => Kind' \in Networked)
    BY <1>0, <1>2, Zenon DEF Existing
  <1>. QED  BY <1>2, <1>3, <1>4, <1>5, Zenon

LEMMA StopVmStep ==
  ASSUME WaitInv, StopVm
  PROVE  WaitInv'
  <1>1. /\ pc \in {"finally", "term", "kill"} /\ pc' \in {"clean", "term", "kill", "main"}
        /\ UNCHANGED <<script, log, output, helper, tap, results, leaked>>
        /\ outcome' \in {outcome, "stuck"} /\ (vm = "exited" => vm' = "exited")
        /\ \A c : c \in causes => c \in causes'
        /\ pc' = "clean" => vm' # "running"
        /\ pc' = "main" => "kill" \in causes'
    BY Zenon DEF StopVm
  <1>2. /\ Kind' = Kind /\ Counted' /\ LeakHasCause' /\ Decided' /\ Hanging'
        /\ helper' # "none" => Kind' = "diskVhost"
        /\ tap' => Kind' \in Networked
    BY <1>1, Behind, Zenon DEF Undecided, Looping
  <1>3. Existing'
    BY <1>1, <1>2, Zenon DEF Existing
  <1>4. Explained'
    BY <1>1, Zenon DEF Explained, Caused
  <1>. QED  BY <1>2, <1>3, <1>4, Zenon DEF WaitInv

LEMMA DockerEndsStep ==
  ASSUME WaitInv, DockerEnds
  PROVE  WaitInv'
  <1>1. /\ pc = "clientEnds" /\ pc' = "finally"
        /\ UNCHANGED <<script, log, output, vm, helper, tap, results, leaked, causes>>
        /\ outcome' \in {outcome, "failed"}
    BY Zenon DEF DockerEnds
  <1>2. /\ Kind' = Kind /\ Counted' /\ LeakHasCause' /\ Decided' /\ Hanging'
        /\ helper' # "none" => Kind' = "diskVhost"
        /\ tap' => Kind' \in Networked
    BY <1>1, Behind, Zenon DEF Undecided, Looping
  <1>3. Existing'
    BY <1>1, <1>2, Zenon DEF Existing
  <1>4. Explained'
    BY <1>1, Zenon DEF Explained
  <1>. QED  BY <1>2, <1>3, <1>4, Zenon DEF WaitInv

LEMMA PlainFinallyStep ==
  ASSUME WaitInv, PlainFinally
  PROVE  WaitInv'
  <1>1. /\ pc = "clean" /\ pc' = "main"
        /\ Kind \notin Networked \cup {"diskVhost"}
        /\ UNCHANGED <<script, log, output, vm, helper, tap, outcome, results, leaked, causes>>
    BY Zenon DEF PlainFinally, Networked, Matrix, Startup
  <1>2. /\ Kind' = Kind /\ Counted' /\ LeakHasCause' /\ Decided' /\ Hanging'
        /\ helper' # "none" => Kind' = "diskVhost"
        /\ tap' => Kind' \in Networked
    BY <1>1, Behind, Zenon DEF Undecided, Looping
  <1>3. Existing'
    BY <1>1, <1>2, Zenon DEF Existing
  <1>4. vm' # "running"
    BY <1>1, Zenon DEF WaitInv, Existing
  <1>5. Explained'
    BY <1>1, <1>2, <1>4, Zenon DEF Explained, Remains
  <1>. QED  BY <1>2, <1>3, <1>5, Zenon DEF WaitInv

LEMMA DiskFinallyStep ==
  ASSUME WaitInv, DiskFinally
  PROVE  WaitInv'
  <1>1. /\ pc \in {"clean", "helperTerm", "helperKill"}
        /\ pc' \in {"main", "helperTerm", "helperKill"}
        /\ Kind \notin Networked
        /\ UNCHANGED <<script, log, output, vm, tap, results, leaked>>
        /\ outcome' \in {outcome, "stuck"}
        /\ \A c : c \in causes => c \in causes'
        /\ pc' = "main" => (helper' # "running" \/ "kill" \in causes')
        /\ pc' # "main" => helper' # "none"
    BY Zenon DEF DiskFinally, Networked
  <1>2. helper' # "none" => helper # "none"
    BY Zenon DEF DiskFinally, WaitInv, Existing
  <1>3. /\ Kind' = Kind /\ Counted' /\ LeakHasCause' /\ Decided' /\ Hanging'
        /\ helper' # "none" => Kind' = "diskVhost"
        /\ tap' => Kind' \in Networked
    BY <1>1, <1>2, Behind, Zenon DEF Undecided, Looping
  <1>4. vm' # "running"
    BY <1>1, Zenon DEF WaitInv, Existing
  <1>5. Existing'
    BY <1>1, <1>3, <1>4, Zenon DEF Existing
  <1>6. Explained'
    BY <1>1, <1>3, <1>4, Zenon DEF Explained, Remains, Caused
  <1>. QED  BY <1>3, <1>5, <1>6, Zenon DEF WaitInv

LEMMA TapFinallyStep ==
  ASSUME WaitInv, NetFinally \/ StargzFinally
  PROVE  WaitInv'
  <1>1. /\ pc = "clean" /\ pc' \in {"main", "operation"} /\ tap' = FALSE
        /\ Kind \in Networked
        /\ UNCHANGED <<script, log, output, vm, helper, outcome, results, leaked, causes>>
    BY Zenon DEF NetFinally, StargzFinally, CleanupTap, Networked
  <1>2. /\ Kind' = Kind /\ Counted' /\ LeakHasCause' /\ Decided' /\ Hanging'
        /\ helper' # "none" => Kind' = "diskVhost"
        /\ tap' => Kind' \in Networked
    BY <1>1, Behind, Zenon DEF Undecided, Looping
  <1>3. vm' # "running"
    BY <1>1, Zenon DEF WaitInv, Existing
  <1>4. Existing'
    BY <1>1, <1>2, <1>3, Zenon DEF Existing
  <1>5. Explained'
    BY <1>1, <1>2, <1>3, Zenon DEF Explained, Remains, Networked
  <1>. QED  BY <1>2, <1>4, <1>5, Zenon DEF WaitInv

LEMMA OperationStep ==
  ASSUME WaitInv, FirecrackerOperation
  PROVE  WaitInv'
  <1>0. Counted /\ Existing
    BY Zenon DEF WaitInv
  <1>1. /\ pc = "operation" /\ pc' = "main" /\ output' = log
        /\ outcome' \in {"row", "missing"}
        /\ outcome' = "row" => Has(log, "step") /\ (Kind = "stargzFirst" \/ Has(log, "result"))
        /\ UNCHANGED <<script, log, vm, helper, tap, results, leaked, causes>>
    BY Zenon DEF FirecrackerOperation
  <1>2. Kind' = Kind /\ Counted' /\ LeakHasCause'
    BY <1>1, WithinConsole, Zenon
  <1>3. outcome' = "row" => All(log)
    BY <1>0, <1>1, ReadIsComplete, Zenon DEF Stargz
  <1>4. Decided'
    <2>1. outcome' = "row" => All(output)'
      BY <1>1, <1>2, <1>3, SameConsole, Zenon DEF All
    <2>. QED  BY <1>1, <2>1, Zenon DEF Decided, Undecided, Looping
  <1>5. Hanging'
    BY <1>1, Zenon DEF Hanging, Looping
  <1>6. Existing'
    BY <1>0, <1>1, <1>2, Zenon DEF Existing
  <1>7. Explained'
    BY <1>0, <1>1, Zenon DEF Explained, Existing, Remains, Networked
  <1>. QED  BY <1>2, <1>4, <1>5, <1>6, <1>7, Zenon DEF WaitInv

LEMMA FinallyStep ==
  ASSUME WaitInv, Finally
  PROVE  WaitInv'
  <1>1. \/ StopVm \/ DockerEnds \/ PlainFinally \/ DiskFinally
        \/ NetFinally \/ StargzFinally
        \/ FirecrackerOperation
    BY Zenon DEF Finally, StopProcess, StartupStopProcess
  <1>. QED
    BY <1>1, StopVmStep, DockerEndsStep, PlainFinallyStep, DiskFinallyStep, TapFinallyStep,
       OperationStep, Zenon

----------------------------------------------------------------------------
(* The mains, and the theorems *)

\* Whatever main measures next, it starts with nothing on the host but what
\* has a cause.
LEMMA MainStep ==
  ASSUME WaitInv, Main
  PROVE  WaitInv'
  <1>0. Explained /\ LeakHasCause
    BY Zenon DEF WaitInv
  <1>1. /\ pc = "main" /\ pc' \in {"start", "exit"}
        /\ leaked' = leaked \cup Remains
        /\ vm' = "none" /\ helper' = "none" /\ tap' = FALSE
        /\ log' = 0 /\ outcome' = "none" /\ causes' = causes
    BY Zenon DEF Main, CpuMain, DiskMain, VhostMain, FileVsNbdMain, MatrixMain,
       QemuDiskMain,
       StargzIopsMain, HotpoolMain, StartupMain, WorkspaceMain, MainAborts, NextMeasurement
  <1>2. Counted'
    <2>1. Len(Markers') \in Nat
      BY Lengths, Zenon DEF Markers
    <2>. QED  BY <1>1, <2>1 DEF Counted
  <1>3. Decided'
    BY <1>1, NoClaim, Zenon
  <1>4. Hanging'
    BY <1>1, Zenon DEF Hanging
  <1>5. Existing'
    BY <1>1, Zenon DEF Existing
  <1>6. Explained'
    BY <1>1, Zenon DEF Explained
  <1>7. LeakHasCause'
    BY <1>0, <1>1, Zenon DEF Explained, LeakHasCause, Caused
  <1>. QED  BY <1>2, <1>3, <1>4, <1>5, <1>6, <1>7, Zenon DEF WaitInv

LEMMA WaitInvInit == WaitInit => WaitInv
  <1>. SUFFICES ASSUME WaitInit PROVE WaitInv
    BY Zenon
  <1>1. /\ pc = "start" /\ log = 0 /\ output = 0 /\ vm = "none" /\ helper = "none"
        /\ tap = FALSE /\ outcome = "none" /\ leaked = {}
    BY Zenon DEF WaitInit
  <1>2. Len(Markers) \in Nat
    BY Lengths, Zenon DEF Markers
  <1>3. Counted
    BY <1>1, <1>2 DEF Counted
  <1>4. Decided /\ Hanging
    BY <1>1, Zenon DEF Decided, Hanging
  <1>5. Existing /\ Explained
    BY <1>1, Zenon DEF Existing, Explained
  <1>6. LeakHasCause
    BY <1>1, Zenon DEF LeakHasCause
  <1>. QED  BY <1>3, <1>4, <1>5, <1>6, Zenon DEF WaitInv

LEMMA WaitInvNext == WaitInv /\ [WaitNext]_waitVars => WaitInv'
  <1>. SUFFICES ASSUME WaitInv, [WaitNext]_waitVars PROVE WaitInv'
    BY Zenon
  <1>1. CASE GuestWrites
    BY <1>1, GuestWritesStep, Zenon
  <1>2. CASE GuestExits
    BY <1>2, GuestExitsStep, Zenon
  <1>3. CASE HelperExits
    BY <1>3, HelperExitsStep, Zenon
  <1>4. CASE DeadlinePasses \/ Exited \/ UNCHANGED waitVars
    BY <1>4, StutterStep, Zenon DEF DeadlinePasses, Exited, waitVars
  <1>5. CASE Setup
    BY <1>5, SetupStep, Zenon
  <1>6. CASE Wait
    <2>1. \/ CheckDeadline \/ CpuLoop \/ DiskLoop \/ FileVsNbdLoop \/ WaitResultFromFile
          \/ WaitForMarker \/ LocalLoop \/ QemuLocalLoop \/ StargzLoop \/ HotpoolLoop
          => WaitInv'
      BY LoopsLook, LookedStep, Zenon
    <2>. QED  BY <1>6, <2>1, MeasureStep, Zenon DEF Wait
  <1>7. CASE Finally
    BY <1>7, FinallyStep, Zenon
  <1>8. CASE Main
    BY <1>8, MainStep, Zenon
  <1>. QED
    BY <1>1, <1>2, <1>3, <1>4, <1>5, <1>6, <1>7, <1>8, Zenon DEF WaitNext, Script

LEMMA WaitInvHolds == WaitSpec => []WaitInv
  BY WaitInvInit, WaitInvNext, PTL DEF WaitSpec

\* Whatever a main measures, no row stands on a log that was read while the
\* guest was still printing (the read_text and re.search of the wait loops).
THEOREM RowIsCompleteHolds == WaitSpec => []RowIsComplete
  <1>1. WaitInv => RowIsComplete
    BY Zenon DEF WaitInv, Decided, RowIsComplete
  <1>. QED  BY <1>1, WaitInvHolds, PTL

\* Whatever a main measures, "process exited before result" of
\* wait_result_from_file and "process exited before marker" of wait_for_marker
\* are true when they are raised.
THEOREM ExitSeenIsTrueHolds == WaitSpec => []ExitSeenIsTrue
  <1>1. WaitInv => ExitSeenIsTrue
    BY Zenon DEF WaitInv, Decided, ExitSeenIsTrue
  <1>. QED  BY <1>1, WaitInvHolds, PTL

\* However many measurements a run makes, what they leave on the host is there
\* because a killed process did not end, the storage daemon's machine was never
\* started, or setup_tap failed half way.
THEOREM WaitLeakHasCause == WaitSpec => []LeakHasCause
  <1>1. WaitInv => LeakHasCause
    BY Zenon DEF WaitInv
  <1>. QED  BY <1>1, WaitInvHolds, PTL
=============================================================================

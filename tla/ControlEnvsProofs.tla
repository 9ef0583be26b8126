--------------------------- MODULE ControlEnvsProofs --------------------------
(***************************************************************************)
(* Base images and environments, for any number of builds, environments,   *)
(* runs, nodes and crashes: the safety properties of ControlEnvs hold.     *)
(***************************************************************************)
EXTENDS ControlEnvs, TLAPS

(* The inductive invariant. *)

BuildPcs == {"none", "materialize", "volume", "import", "record", "point", "register", "done", "error", "lost"}
\* A start before its environment has a row, and a run before its request is sent.
Preparing == {"resolve", "volume", "env"}
Unsent == Preparing \cup {"none", "select"}
RunPcs == Unsent \cup {"call", "terminal", "stopping", "update", "done", "error"}
SessPcs == {"none", "sent", "open", "terminal", "stop", "recorded", "committed", "dead"}

SnapType == [vol : Volumes, line : SUBSET Nat, parts : Nat]
BaseType == [build : Builds, snap : Nat]
EnvType == [base : Nat, snap : Nat]
BuildType == [pc : BuildPcs, parts : Nat, snap : Nat]
RunType == [pc : RunPcs, env : Envs \cup {None}, tty : BOOLEAN, base : Nat, since : Nat, snap : Nat]
SessType == [pc : SessPcs, node : Nodes \cup {None}, from : Nat, snap : Nat]

Types ==
  /\ snaps \in Seq(SnapType)
  /\ bases \in Seq(BaseType)
  /\ latest \in [Volumes -> Nat \cup {None}]
  /\ env \in [Envs -> EnvType \cup {None}]
  /\ build \in [Builds -> BuildType]
  /\ run \in [Runs -> RunType]
  /\ sess \in [Runs -> SessType]
  /\ mixed \in SUBSET Runs

\* A snapshot is of its own line, and its line has been recorded.
Lines == \A i \in DOMAIN snaps : i \in snaps[i].line /\ snaps[i].line \subseteq DOMAIN snaps

\* What a build has imported and recorded.
Built(b) ==
  /\ build[b].pc \in {"none", "materialize", "volume"} => build[b].parts = 0
  /\ build[b].pc = "import" => build[b].parts < Parts
  /\ build[b].pc = "record" => build[b].parts = Parts
  /\ build[b].pc \in {"point", "register"} =>
       /\ build[b].snap \in DOMAIN snaps
       /\ snaps[build[b].snap].vol = b /\ snaps[build[b].snap].parts = Parts

\* What a run has resolved and sent.
Asked(r) ==
  /\ run[r].pc = "none" => run[r].env = None /\ run[r].base = 0
  /\ run[r].pc # "none" => run[r].env \in Envs
  /\ run[r].base # 0 => run[r].base \in DOMAIN bases /\ run[r].base >= run[r].since
  /\ run[r].since <= Len(bases)
  /\ run[r].pc \in {"volume", "env"} => run[r].base # 0
  /\ run[r].pc \in Unsent => sess[r].pc = "none"
  /\ run[r].pc \notin Unsent \cup {"error"} => sess[r].pc # "none"
  /\ run[r].pc \in {"update", "done"} => sess[r].pc = "committed"
  /\ run[r].pc = "update" => run[r].snap = sess[r].snap

\* A start has its environment for itself until the row is there, and what a
\* session works on has one.
Owned(r) ==
  /\ run[r].pc \in Preparing => env[run[r].env] = None /\ \A q \in Runs \ {r} : run[q].env # run[r].env
  /\ run[r].pc = "env" => latest[run[r].env] = bases[run[r].base].snap
  /\ run[r].pc = "select" \/ sess[r].pc # "none" => env[run[r].env] # None

\* Snapshot s descends from the base image of environment e through commits of
\* the volume of e.
Descends(s, e) ==
  LET b == bases[env[e].base].snap IN
  /\ s \in DOMAIN snaps /\ b \in DOMAIN snaps
  /\ b \in snaps[s].line
  /\ \A i \in snaps[s].line \ snaps[b].line : snaps[i].vol = e

Rooted(e) ==
  env[e] # None =>
    /\ \E r \in Runs : run[r].env = e
    /\ env[e].base \in DOMAIN bases
    /\ Descends(env[e].snap, e)
    /\ Descends(latest[e], e)

\* The snapshot a session works on, or has recorded.
Tip(r) == IF sess[r].pc \in {"recorded", "committed"} THEN sess[r].snap ELSE sess[r].from

\* A session whose commit may still come; one whose run still waits for the answer.
Active(r) == Live(r) /\ ~(sess[r].pc = "terminal" /\ run[r].pc = "error")
Waiting(r) == sess[r].pc = "committed" /\ run[r].pc \in {"call", "stopping", "update"}

Worked(r) ==
  /\ Live(r) \/ sess[r].pc = "committed" => Descends(Tip(r), run[r].env)
  /\ sess[r].pc \in {"open", "stop", "recorded"} /\ run[r].pc \notin {"call", "stopping"}
       => run[r].env \in behind

\* Two sessions of an environment that overlap are mixed.
Apart(r, q) ==
  r # q /\ run[r].env = run[q].env /\ Active(q) /\ (Active(r) \/ Waiting(r)) => r \in mixed

\* The commit of a run that is not mixed is what every later session works on.
Followed(r, q) ==
  r # q /\ run[r].env = run[q].env /\ r \notin mixed /\ sess[r].pc = "committed" /\ Active(q)
    => sess[r].snap \in snaps[Tip(q)].line

\* It is part of what the volume names, which is the commit itself as long as
\* its run waits for the answer.
Held(r) ==
  r \notin mixed /\ sess[r].pc = "committed" =>
    /\ sess[r].snap \in snaps[latest[run[r].env]].line
    /\ Waiting(r) => latest[run[r].env] = sess[r].snap

\* Only a commit whose run waits, or does not yet know that it failed, is ahead
\* of the row of its environment.
Current(e) ==
  \/ env[e] = None \/ e \in behind \/ env[e].snap = latest[e]
  \/ \E r \in Runs : run[r].env = e /\ (Waiting(r) \/ (sess[r].pc = "dead" /\ run[r].pc \in {"call", "stopping"}))

Inv ==
  /\ Types /\ Lines
  /\ \A b \in Builds : Built(b)
  /\ BaseImagesAreWhole
  /\ \A r \in Runs : Asked(r)
  /\ \A r \in Runs : Owned(r)
  /\ \A e \in Envs : Rooted(e)
  /\ \A r \in Runs : Worked(r)
  /\ \A r, q \in Runs : Apart(r, q)
  /\ \A r, q \in Runs : Followed(r, q)
  /\ \A r \in Runs : Held(r)
  /\ \A e \in Envs : Current(e)

-----------------------------------------------------------------------------
(* What grows. *)

\* Rows of snapshots and base images stay as they are.
Grown ==
  /\ \A i \in DOMAIN snaps : i \in DOMAIN snaps' /\ snaps'[i] = snaps[i]
  /\ \A i \in DOMAIN bases : i \in DOMAIN bases' /\ bases'[i] = bases[i]
  /\ Len(bases) <= Len(bases')

\* Unchanged tables stay as they are.
LEMMA SameGrown ==
  ASSUME Types, UNCHANGED <<snaps, bases>>
  PROVE  Grown
BY DEF Types, Grown

\* What CreateSnapshot does to the table.
LEMMA SnapshotGrown ==
  ASSUME Types, Lines, NEW v \in Volumes, NEW from \in DOMAIN snaps \cup {0}, NEW parts \in Nat,
         CreateSnapshot(v, from, parts), UNCHANGED bases
  PROVE  /\ Grown /\ Lines' /\ snaps' \in Seq(SnapType)
         /\ Len(snaps) + 1 \in DOMAIN snaps' /\ Len(snaps) + 1 \in Nat
         /\ snaps'[Len(snaps) + 1] = [vol |-> v, line |-> {Len(snaps) + 1} \cup Line(from), parts |-> parts]
<1> DEFINE n == Len(snaps) + 1
           x == [vol |-> v, line |-> {n} \cup Line(from), parts |-> parts]
<1>1. /\ snaps \in Seq(SnapType) /\ Len(snaps) \in Nat /\ DOMAIN snaps = 1 .. Len(snaps)
      /\ bases \in Seq(BaseType) /\ Len(bases) \in Nat
  BY DEF Types
<1>2. Line(from) \subseteq DOMAIN snaps BY Zenon DEF Lines, Line
<1>3. x \in SnapType BY <1>1, <1>2 DEF SnapType
<1>4. snaps' = Append(snaps, x) BY Zenon DEF CreateSnapshot
<1> HIDE DEF x
<1>5. /\ snaps' \in Seq(SnapType) /\ DOMAIN snaps' = 1 .. n /\ snaps'[n] = x
      /\ \A i \in 1 .. Len(snaps) : snaps'[i] = snaps[i]
  BY <1>1, <1>3, <1>4
<1>6. Grown BY <1>1, <1>5 DEF Grown
<1>7. x.line = {n} \cup Line(from) BY Zenon DEF x
<1>8. Lines'
  <2> SUFFICES ASSUME NEW i \in DOMAIN snaps'
               PROVE  i \in snaps'[i].line /\ snaps'[i].line \subseteq DOMAIN snaps'
    BY Zenon DEF Lines
  <2>1. CASE i = n BY <1>1, <1>2, <1>5, <1>7, <2>1
  <2>2. CASE i \in DOMAIN snaps BY <1>1, <1>5, <2>2 DEF Lines
  <2> QED BY <1>1, <1>5, <2>1, <2>2
<1> QED BY <1>1, <1>5, <1>6, <1>8 DEF x

\* A descendant of the base image of an environment stays one.
LEMMA DescendsKept ==
  ASSUME Types, Lines, Grown, NEW e \in Envs, env[e].base \in DOMAIN bases,
         env'[e].base = env[e].base, NEW s, Descends(s, e)
  PROVE  Descends(s, e)'
<1>1. bases'[env'[e].base].snap = bases[env[e].base].snap BY Zenon DEF Grown
<1> QED BY <1>1 DEF Descends, Grown, Lines

-----------------------------------------------------------------------------
(* Builds *)

\* A step of a build that leaves only whole images leaves the environments alone.
LEMMA BuildFrame ==
  ASSUME Inv, Types', Lines', Grown, \A b \in Builds : Built(b)', BaseImagesAreWhole',
         UNCHANGED <<env, run, sess, mixed, behind>>, \A e \in Envs : latest'[e] = latest[e]
  PROVE  Inv'
<1>0. Types /\ Lines BY Zenon DEF Inv
<1>1. (\A r \in Runs : Asked(r))'
  <2> SUFFICES ASSUME NEW r \in Runs PROVE Asked(r)'
    BY Zenon
  <2>1. Asked(r) BY Zenon DEF Inv
  <2>2. run[r] \in RunType /\ Len(bases) \in Nat /\ Len(bases') \in Nat BY <1>0 DEF Types
  <2> QED BY <2>1, <2>2 DEF Asked, Grown, RunType
<1>2. (\A r \in Runs : Owned(r))'
  BY DEF Inv, Types, Owned, Asked, Preparing, Unsent, Grown
<1>3. (\A e \in Envs : Rooted(e))'
  <2> SUFFICES ASSUME NEW e \in Envs, env[e] # None PROVE Rooted(e)'
    BY Zenon DEF Rooted
  <2>1. Rooted(e) BY Zenon DEF Inv
  <2>2. Descends(env[e].snap, e)' BY <1>0, <2>1, DescendsKept, Zenon DEF Rooted
  <2>3. Descends(latest[e], e)' BY <1>0, <2>1, DescendsKept, Zenon DEF Rooted
  <2> QED BY <2>1, <2>2, <2>3, Zenon DEF Rooted, Grown
<1>4. (\A r \in Runs : Worked(r))'
  <2> SUFFICES ASSUME NEW r \in Runs PROVE Worked(r)'
    BY Zenon
  <2>1. Worked(r) BY Zenon DEF Inv
  <2>2. SUFFICES ASSUME Live(r) \/ sess[r].pc = "committed" PROVE Descends(Tip(r), run[r].env)'
    BY <2>1, Zenon DEF Worked, Live
  <2>3. run[r].env \in Envs /\ env[run[r].env] # None
    BY <2>2, Zenon DEF Inv, Asked, Owned, Live, Unsent
  <2>4. env[run[r].env].base \in DOMAIN bases BY <2>3, Zenon DEF Inv, Rooted
  <2> QED BY <1>0, <2>1, <2>2, <2>3, <2>4, DescendsKept, Zenon DEF Worked, Tip
<1>5. (\A r, q \in Runs : Apart(r, q))' BY Zenon DEF Inv, Apart, Active, Waiting, Live
<1>6. (\A r, q \in Runs : Followed(r, q))'
  BY DEF Inv, Followed, Active, Live, Worked, Tip, Descends, Grown
<1>7. (\A r \in Runs : Held(r))'
  BY DEF Inv, Held, Waiting, Grown, Rooted, Owned, Asked, Unsent, Descends
<1>8. (\A e \in Envs : Current(e))' BY Zenon DEF Inv, Current, Waiting
<1> QED BY <1>0, <1>1, <1>2, <1>3, <1>4, <1>5, <1>6, <1>7, <1>8, Zenon DEF Inv

\* The build of b goes to a step with what it has, the others wait.
BuildMoved(b, to) ==
  /\ build' \in [Builds -> BuildType]
  /\ build'[b].pc = to
  /\ \A c \in Builds : c # b => build'[c] = build[c]

\* What BuildTo does to the builds.
LEMMA BuildToStep ==
  ASSUME Types, NEW b \in Builds, NEW from, NEW to \in BuildPcs, BuildTo(b, from, to)
  PROVE  /\ build[b].pc = from /\ BuildMoved(b, to)
         /\ to \notin {"done", "error"} => build'[b].parts = build[b].parts /\ build'[b].snap = build[b].snap
BY Zenon DEF Types, BuildType, BuildTo, BuildMoved, Ended

\* A build that fails, or goes on with what it has.
LEMMA BuildToKeeps ==
  ASSUME Types, NEW b \in Builds, Built(b), snaps' = snaps, NEW from, NEW to, BuildTo(b, from, to),
         \/ to = "error"
         \/ from = "none" /\ to = "materialize"
         \/ from = "materialize" /\ to = "volume"
         \/ from = "volume" /\ to = "import"
         \/ from = "point" /\ to = "register"
  PROVE  Built(b)' /\ \E p \in BuildPcs \ {"done"} : BuildMoved(b, p)
<1>1. to \in BuildPcs \ {"done"} BY Zenon DEF BuildPcs
<1>2. /\ build[b].pc = from /\ BuildMoved(b, to)
      /\ to # "error" => build'[b].parts = build[b].parts /\ build'[b].snap = build[b].snap
  BY <1>1, BuildToStep, Zenon
<1>3. build'[b].pc = to /\ Parts \in Nat \ {0} BY <1>2, ControlAssumption, Zenon DEF BuildMoved
<1>4. Built(b)' BY <1>2, <1>3 DEF Built
<1> QED BY <1>1, <1>2, <1>4, Zenon

\* A build that is where its step says leaves the others as they were.
LEMMA BuildKeeps ==
  ASSUME Inv, NEW b \in Builds, Types', Lines', Grown, BuildMoved(b, build'[b].pc), Built(b)',
         BaseImagesAreWhole', UNCHANGED <<env, run, sess, mixed, behind>>,
         \A v \in Volumes : v # b => latest'[v] = latest[v]
  PROVE  Inv'
<1>1. \A c \in Builds : Built(c)'
  <2> SUFFICES ASSUME NEW c \in Builds, c # b PROVE Built(c)'
    BY Zenon
  <2>1. Built(c) /\ build'[c] = build[c] BY Zenon DEF Inv, BuildMoved
  <2> QED BY <2>1, Zenon DEF Built, Grown
<1>2. \A e \in Envs : latest'[e] = latest[e] BY ControlAssumption, Zenon DEF Volumes
<1> QED BY <1>1, <1>2, BuildFrame, Zenon

\* Images stay whole when the builds that are done were done before.
LEMMA ImagesKept ==
  ASSUME Inv, Grown, bases' = bases, \A b \in Builds : build'[b].pc = "done" => build[b].pc = "done"
  PROVE  BaseImagesAreWhole'
BY Zenon DEF Inv, BaseImagesAreWhole, Grown

\* The steps of a build that touch no row of a snapshot or an image.
LEMMA BuildStepKeeps ==
  ASSUME Inv, NEW b \in Builds,
         StartBuild(b) \/ MaterializeImage(b) \/ CreateBaseVolume(b) \/ ImportPart(b) \/ PointImport(b)
  PROVE  Inv'
<1>0. Types /\ Lines /\ Built(b) /\ build[b] \in BuildType /\ b \in Volumes
  BY Zenon DEF Inv, Types, Volumes
<1>1. /\ UNCHANGED <<snaps, bases, env, run, sess, mixed, behind>>
      /\ \E s \in Nat \cup {None} : latest' = latest \/ latest' = [latest EXCEPT ![b] = s]
  BY <1>0, Zenon DEF StartBuild, MaterializeImage, CreateBaseVolume, ImportPart, PointImport,
     rows, history,
            UpdateLatestSnapshot, BuildType
<1>2. Built(b)' /\ \E p \in BuildPcs \ {"done"} : BuildMoved(b, p)
  <2>1. CASE StartBuild(b)
    <3>1. BuildTo(b, "none", "materialize") BY <2>1, Zenon DEF StartBuild
    <3> QED BY <3>1, <1>0, <1>1, BuildToKeeps, Zenon
  <2>2. CASE MaterializeImage(b)
    <3>1. PICK to \in {"volume", "error"} : BuildTo(b, "materialize", to)
      BY <2>2, Zenon DEF MaterializeImage
    <3> QED BY <3>1, <1>0, <1>1, BuildToKeeps, Zenon
  <2>3. CASE CreateBaseVolume(b)
    <3>1. PICK to \in {"import", "error"} : BuildTo(b, "volume", to)
      BY <2>3, Zenon DEF CreateBaseVolume
    <3> QED BY <3>1, <1>0, <1>1, BuildToKeeps, Zenon
  <2>4. CASE ImportPart(b)
    <3>1. CASE BuildTo(b, "import", "error") BY <3>1, <1>0, <1>1, BuildToKeeps, Zenon
    <3>2. CASE ~BuildTo(b, "import", "error")
      <4>1. /\ build[b].pc = "import"
            /\ build' = [build EXCEPT ![b] = [pc |-> IF @.parts + 1 = Parts THEN "record" ELSE "import",
                                               parts |-> @.parts + 1, snap |-> 0]]
        BY <2>4, <3>2, Zenon DEF ImportPart
      <4>2. /\ build' \in [Builds -> BuildType] /\ build'[b].parts = build[b].parts + 1
            /\ build'[b].pc = IF build[b].parts + 1 = Parts THEN "record" ELSE "import"
            /\ \A c \in Builds : c # b => build'[c] = build[c]
        BY <1>0, <4>1 DEF Types, BuildType, BuildPcs
      <4> QED BY <1>0, <1>1, <4>1, <4>2, ControlAssumption DEF Built, BuildMoved, BuildPcs,
          BuildType
    <3> QED BY <3>1, <3>2, Zenon
  <2>5. CASE PointImport(b)
    <3>1. PICK to \in {"register", "error"} : BuildTo(b, "point", to) BY <2>5, Zenon DEF PointImport
    <3> QED BY <3>1, <1>0, <1>1, BuildToKeeps, Zenon
  <2> QED BY <2>1, <2>2, <2>3, <2>4, <2>5, Zenon
<1>3. Types' BY <1>0, <1>1, <1>2, Zenon DEF Types, BuildMoved
<1>4. Lines' /\ Grown BY <1>0, <1>1, SameGrown, Zenon DEF Lines
<1>5. BaseImagesAreWhole' BY <1>0, <1>1, <1>2, <1>4, ImagesKept, Zenon DEF BuildMoved
<1>6. \A v \in Volumes : v # b => latest'[v] = latest[v] BY <1>0, <1>1, Zenon DEF Types
<1> QED BY <1>1, <1>2, <1>3, <1>4, <1>5, <1>6, BuildKeeps, Zenon DEF BuildMoved

\* The import is recorded with all its parts.
LEMMA RecordImportKeeps ==
  ASSUME Inv, NEW b \in Builds, RecordImport(b)
  PROVE  Inv'
<1>0. /\ Types /\ Lines /\ Built(b) /\ build[b] \in BuildType /\ b \in Volumes
      /\ build[b].pc = "record" /\ build[b].parts = Parts /\ Parts \in Nat
  BY ControlAssumption, Zenon DEF Inv, Types, Volumes, RecordImport, Built
<1>1. UNCHANGED <<latest, bases, env, run, sess, mixed, behind>> BY Zenon DEF RecordImport, history
<1>2. PICK o \in Outcomes :
        /\ build' = [build EXCEPT ![b] = IF o = "ok" THEN [pc |-> "point", parts |-> @.parts, snap |-> Len(snaps) + 1]
                                         ELSE Ended("error")]
        /\ IF o = "failed" THEN UNCHANGED snaps ELSE CreateSnapshot(b, 0, build[b].parts)
  BY Zenon DEF RecordImport
<1>3. /\ Grown /\ Lines' /\ snaps' \in Seq(SnapType)
      /\ o = "ok" => /\ Len(snaps) + 1 \in DOMAIN snaps'
                     /\ snaps'[Len(snaps) + 1].vol = b /\ snaps'[Len(snaps) + 1].parts = Parts
  <2>1. CASE o = "failed" BY <1>0, <1>1, <1>2, <2>1, SameGrown, Zenon DEF Types, Lines
  <2>2. CASE o # "failed"
    <3>1. CreateSnapshot(b, 0, Parts) BY <1>0, <1>2, <2>2, Zenon
    <3>2. /\ Grown /\ Lines' /\ snaps' \in Seq(SnapType) /\ Len(snaps) + 1 \in DOMAIN snaps'
          /\ snaps'[Len(snaps) + 1] = [vol |-> b, line |-> {Len(snaps) + 1} \cup Line(0), parts |-> Parts]
      BY <1>0, <1>1, <3>1, SnapshotGrown, Zenon
    <3> QED BY <3>2
  <2> QED BY <2>1, <2>2, Zenon
<1>4. /\ BuildMoved(b, build'[b].pc) /\ build'[b].pc = IF o = "ok" THEN "point" ELSE "error"
      /\ o = "ok" => build'[b].snap = Len(snaps) + 1
  BY <1>0, <1>2 DEF Types, BuildType, BuildMoved, BuildPcs, Ended
<1>5. Built(b)' BY <1>3, <1>4, Zenon DEF Built
<1>6. Types' BY <1>0, <1>1, <1>3, <1>4, Zenon DEF Types, BuildMoved
<1>7. BaseImagesAreWhole' BY <1>1, <1>3, <1>4, ImagesKept, Zenon DEF BuildMoved
<1> QED BY <1>1, <1>3, <1>4, <1>5, <1>6, <1>7, BuildKeeps, Zenon

\* The image that is registered is the recorded one.
LEMMA CreateBaseImageKeeps ==
  ASSUME Inv, NEW b \in Builds, CreateBaseImage(b)
  PROVE  Inv'
<1>0. /\ Types /\ Lines /\ Built(b) /\ build[b] \in BuildType /\ BaseImagesAreWhole
  BY Zenon DEF Inv, Types
<1>1. UNCHANGED <<snaps, latest, env, run, sess, mixed, behind>>
  BY Zenon DEF CreateBaseImage, history
<1> DEFINE x == [build |-> b, snap |-> build[b].snap]
<1>2. PICK o \in Outcomes :
        /\ BuildTo(b, "register", IF o = "ok" THEN "done" ELSE "error")
        /\ bases' = IF o = "failed" THEN bases ELSE Append(bases, x)
  BY Zenon DEF CreateBaseImage
<1>3. /\ build[b].pc = "register" /\ BuildMoved(b, IF o = "ok" THEN "done" ELSE "error")
  BY <1>0, <1>2, BuildToStep, Zenon DEF BuildPcs
<1>4. x \in BaseType /\ x.build = b /\ x.snap = build[b].snap BY <1>0, Zenon DEF BuildType, BaseType
<1>5. /\ bases' \in Seq(BaseType) /\ Len(bases) \in Nat /\ DOMAIN bases = 1 .. Len(bases)
      /\ o = "failed" => bases' = bases
      /\ o # "failed" => /\ DOMAIN bases' = 1 .. Len(bases) + 1 /\ Len(bases') = Len(bases) + 1
                         /\ bases'[Len(bases) + 1] = x
                         /\ \A i \in DOMAIN bases : bases'[i] = bases[i]
  <2> HIDE DEF x
  <2> QED BY <1>0, <1>2, <1>4 DEF Types
<1>6. Grown /\ Lines' BY <1>0, <1>1, <1>5 DEF Grown, Lines
<1>7. Types' BY <1>0, <1>1, <1>3, <1>5, Zenon DEF Types, BuildMoved
<1>8. Built(b)' BY <1>3, Zenon DEF Built, BuildMoved
<1>9. BaseImagesAreWhole'
  <2>1. \A i \in DOMAIN bases' : i \in DOMAIN bases \/ (o # "failed" /\ i = Len(bases) + 1)
    BY <1>5
  <2>2. \A i \in DOMAIN bases' :
           /\ bases'[i].snap \in DOMAIN snaps'
           /\ snaps'[bases'[i].snap].vol = bases'[i].build /\ snaps'[bases'[i].snap].parts = Parts
    BY <1>0, <1>1, <1>3, <1>4, <1>5, <2>1 DEF BaseImagesAreWhole, Built
  <2>3. \A c \in Builds : build'[c].pc = "done" => \E i \in DOMAIN bases' : bases'[i].build = c
    <3> SUFFICES ASSUME NEW c \in Builds, build'[c].pc = "done" PROVE \E i \in DOMAIN bases' : bases'[i].build = c
      BY Zenon
    <3>1. CASE c = b
      <4>1. o = "ok" BY <1>3, <3>1, Zenon DEF BuildMoved
      <4> QED BY <1>4, <1>5, <3>1, <4>1
    <3>2. CASE c # b BY <1>0, <1>3, <1>5, <1>6, <3>2 DEF BuildMoved, BaseImagesAreWhole, Grown
    <3> QED BY <3>1, <3>2, Zenon
  <2> QED BY <2>2, <2>3, Zenon DEF BaseImagesAreWhole
<1> QED BY <1>1, <1>3, <1>6, <1>7, <1>8, <1>9, BuildKeeps, Zenon DEF BuildMoved

\* The jobs that a crash ends are no longer registered, and those that were stay.
LEMMA BuildCrashKeeps ==
  ASSUME Inv, BuildCrash
  PROVE  Inv'
<1>0. Types /\ Lines BY Zenon DEF Inv
<1>1. UNCHANGED <<snaps, latest, bases, env, run, sess, mixed, behind>>
  BY Zenon DEF BuildCrash, rows, history
<1>2. /\ build' \in [Builds -> BuildType]
      /\ \A b \in Builds : build'[b] = build[b] \/ build'[b].pc = "lost"
  BY <1>0, Zenon DEF BuildCrash, Types, BuildType, BuildPcs, Ended
<1>3. Grown /\ Lines' BY <1>0, <1>1, SameGrown, Zenon DEF Lines
<1>4. Types' BY <1>0, <1>1, <1>2, Zenon DEF Types
<1>5. \A b \in Builds : Built(b)' BY <1>1, <1>2 DEF Inv, Built
<1>6. BaseImagesAreWhole' BY <1>1, <1>2, <1>3, ImagesKept, Zenon
<1> QED BY <1>1, <1>3, <1>4, <1>5, <1>6, BuildFrame, Zenon

-----------------------------------------------------------------------------
(* Runs *)

\* A step of run r, whose environment is e, leaves the other runs and the other
\* environments alone, and the base image of an environment is for good.
RunFrame(r, e) ==
  /\ Types' /\ Lines' /\ Grown /\ UNCHANGED <<bases, build>>
  /\ run'[r].env = e
  /\ run[r].pc # "none" => run[r].env = e
  /\ \A q \in Runs : q # r => run'[q] = run[q] /\ sess'[q] = sess[q]
  /\ \A q \in Runs : q # r /\ run[q].pc \in Preparing => run[q].env # e
  /\ \A d \in Envs : d # e => env'[d] = env[d] /\ latest'[d] = latest[d] /\ (d \in behind' <=> d \in behind)
  /\ \A d \in Envs : env[d] # None => env'[d] # None /\ env'[d].base = env[d].base
  /\ mixed \subseteq mixed'

\* A session that works has an environment with a row.
LEMMA WorkedHas ==
  ASSUME Inv, NEW r \in Runs, sess[r].pc # "none"
  PROVE  /\ run[r].pc \notin Unsent /\ run[r].env \in Envs /\ env[run[r].env] # None
         /\ env[run[r].env].base \in DOMAIN bases
<1>1. run[r].pc \notin Unsent /\ run[r].env \in Envs BY Zenon DEF Inv, Asked, Unsent
<1>2. env[run[r].env] # None BY Zenon DEF Inv, Owned
<1> QED BY <1>1, <1>2, Zenon DEF Inv, Rooted

\* A descendant of a base image stays one when the row of its environment stays.
LEMMA TipKept ==
  ASSUME Inv, Grown, NEW e \in Envs, env[e] # None, env'[e].base = env[e].base, NEW s, Descends(s, e)
  PROVE  Descends(s, e)'
<1>1. env[e].base \in DOMAIN bases BY Zenon DEF Inv, Rooted
<1> QED BY <1>1, DescendsKept, Zenon DEF Inv

\* What a step of a run leaves standing of the other runs.
LEMMA OthersKept ==
  ASSUME Inv, NEW r \in Runs, NEW e \in Envs, RunFrame(r, e), NEW q \in Runs, q # r,
         Active(q) /\ run[q].env \in behind => run[q].env \in behind'
  PROVE  Asked(q)' /\ Owned(q)' /\ Worked(q)'
<1>0. run'[q] = run[q] /\ sess'[q] = sess[q] /\ Types BY Zenon DEF RunFrame, Inv
<1>1. Asked(q)'
  <2>1. Asked(q) /\ bases' = bases BY Zenon DEF Inv, RunFrame
  <2> QED BY <1>0, <2>1, Zenon DEF Asked
<1>2. Owned(q)'
  <2>1. Owned(q) /\ Asked(q) /\ bases' = bases BY Zenon DEF Inv, RunFrame
  <2>2. run[q].pc \in Preparing => run[q].env \in Envs /\ run[q].env # e
    BY <2>1, Zenon DEF RunFrame, Asked, Preparing
  <2>3. run[q].pc \in Preparing => env'[run[q].env] = env[run[q].env] /\ latest'[run[q].env] = latest[run[q].env]
    BY <2>2, Zenon DEF RunFrame
  <2>4. run[q].pc \in Preparing => \A p \in Runs \ {q} : run'[p].env # run[q].env
    BY <2>1, <2>2, Zenon DEF RunFrame, Owned
  <2>5. run[q].pc = "select" \/ sess[q].pc # "none" => env'[run[q].env] # None
    BY <2>1, Zenon DEF RunFrame, Owned, Asked, Unsent
  <2> QED BY <1>0, <2>1, <2>3, <2>4, <2>5, Zenon DEF Owned, Preparing
<1>3. Worked(q)'
  <2>1. Worked(q) BY Zenon DEF Inv
  <2>2. Live(q) \/ sess[q].pc = "committed" => Descends(Tip(q), run[q].env)'
    <3> SUFFICES ASSUME Live(q) \/ sess[q].pc = "committed" PROVE Descends(Tip(q), run[q].env)'
      BY Zenon
    <3>1. sess[q].pc # "none" BY Zenon DEF Live
    <3>2. run[q].env \in Envs /\ env[run[q].env] # None BY <3>1, WorkedHas, Zenon
    <3>3. env'[run[q].env].base = env[run[q].env].base /\ Grown BY <3>2, Zenon DEF RunFrame
    <3> QED BY <1>0, <2>1, <3>2, <3>3, TipKept, Zenon DEF Worked, Tip
  <2>3. sess[q].pc \in {"open", "stop", "recorded"} => Active(q) BY Zenon DEF Active, Live
  <2> QED BY <1>0, <2>1, <2>2, <2>3, Zenon DEF Worked, Live
<1> QED BY <1>1, <1>2, <1>3, Zenon

\* What it leaves standing of the other environments.
LEMMA ElsewhereKept ==
  ASSUME Inv, NEW r \in Runs, NEW e \in Envs, RunFrame(r, e), NEW d \in Envs, d # e
  PROVE  Rooted(d)' /\ Current(d)'
<1>0. /\ env'[d] = env[d] /\ latest'[d] = latest[d] /\ (d \in behind' <=> d \in behind) /\ Grown
      /\ \A q \in Runs : q # r => run'[q] = run[q] /\ sess'[q] = sess[q]
      /\ run[r].pc # "none" => run[r].env # d
  BY Zenon DEF RunFrame
<1>1. run[r].env # d
  BY <1>0, ControlAssumption, Zenon DEF Inv, Asked
<1>2. Rooted(d)'
  <2> SUFFICES ASSUME env[d] # None PROVE Rooted(d)'
    BY <1>0, Zenon DEF Rooted
  <2>1. Rooted(d) BY Zenon DEF Inv
  <2>2. Descends(env[d].snap, d)' BY <1>0, <2>1, TipKept, Zenon DEF Rooted
  <2>3. Descends(latest[d], d)' BY <1>0, <2>1, TipKept, Zenon DEF Rooted
  <2>4. (\E q \in Runs : run[q].env = d)' BY <1>0, <1>1, <2>1, Zenon DEF Rooted
  <2> QED BY <1>0, <2>1, <2>2, <2>3, <2>4, Zenon DEF Rooted, Grown
<1>3. Current(d)'
  <2>1. Current(d) BY Zenon DEF Inv
  <2> QED BY <1>0, <1>1, <2>1, Zenon DEF Current, Waiting
<1> QED BY <1>2, <1>3, Zenon

\* A step that starts and commits no session.
Quiet(r) ==
  /\ snaps' = snaps
  /\ Active(r)' => Active(r) /\ Tip(r)' = Tip(r)
  /\ Waiting(r)' => Waiting(r)
  /\ sess'[r].pc = "committed" => sess[r].pc = "committed" /\ sess'[r].snap = sess[r].snap
  /\ \A q \in Runs : sess[q].pc = "committed" => latest'[run[q].env] = latest[run[q].env]

\* It leaves all commits as they were.
LEMMA QuietKept ==
  ASSUME Inv, NEW r \in Runs, NEW e \in Envs, RunFrame(r, e), Quiet(r)
  PROVE  /\ \A p, q \in Runs : Apart(p, q)' /\ Followed(p, q)'
         /\ \A q \in Runs : Held(q)'
<1>0. \A q \in Runs : sess[q].pc # "none" => run'[q].env = run[q].env
  BY WorkedHas, Zenon DEF RunFrame, Unsent
<1>1. \A q \in Runs : Active(q)' => Active(q) /\ Tip(q)' = Tip(q)
  BY Zenon DEF RunFrame, Quiet, Active, Live, Tip
<1>2. \A q \in Runs : Waiting(q)' => Waiting(q)
  BY Zenon DEF RunFrame, Quiet, Waiting
<1>3. \A q \in Runs : sess'[q].pc = "committed" => sess[q].pc = "committed" /\ sess'[q].snap = sess[q].snap
  BY Zenon DEF RunFrame, Quiet
<1>4. \A q \in Runs : Active(q) \/ Waiting(q) => sess[q].pc # "none"
  BY Zenon DEF Active, Waiting, Live
<1>5. mixed \subseteq mixed' /\ snaps' = snaps BY Zenon DEF RunFrame, Quiet
<1>6. ASSUME NEW p \in Runs, NEW q \in Runs PROVE Apart(p, q)'
  <2>1. Apart(p, q) BY Zenon DEF Inv
  <2> QED BY <1>0, <1>1, <1>2, <1>4, <1>5, <2>1, Zenon DEF Apart
<1>7. ASSUME NEW p \in Runs, NEW q \in Runs PROVE Followed(p, q)'
  <2>1. Followed(p, q) BY Zenon DEF Inv
  <2> QED BY <1>0, <1>1, <1>3, <1>4, <1>5, <2>1, Zenon DEF Followed
<1>8. ASSUME NEW q \in Runs PROVE Held(q)'
  <2>1. Held(q) BY Zenon DEF Inv
  <2>2. sess[q].pc = "committed" => latest'[run[q].env] = latest[run[q].env] BY Zenon DEF Quiet
  <2> QED BY <1>0, <1>2, <1>3, <1>5, <2>1, <2>2, Zenon DEF Held
<1> QED BY <1>6, <1>7, <1>8, Zenon

\* A step of a run is settled by what it does to the run, its environment and
\* the commits.
LEMMA RunKeeps ==
  ASSUME Inv, NEW r \in Runs, NEW e \in Envs, RunFrame(r, e),
         \A q \in Runs : q # r /\ Active(q) /\ run[q].env \in behind => run[q].env \in behind',
         Asked(r)', Owned(r)', Worked(r)', Rooted(e)', Current(e)',
         \A p, q \in Runs : Apart(p, q)' /\ Followed(p, q)', \A q \in Runs : Held(q)'
  PROVE  Inv'
<1>1. \A q \in Runs : Asked(q)' /\ Owned(q)' /\ Worked(q)' BY OthersKept, Zenon
<1>2. \A d \in Envs : Rooted(d)' /\ Current(d)' BY ElsewhereKept, Zenon
<1>3. \A b \in Builds : Built(b)'
  <2> SUFFICES ASSUME NEW b \in Builds PROVE Built(b)'
    BY Zenon
  <2>1. Built(b) /\ Grown /\ build' = build BY Zenon DEF Inv, RunFrame
  <2> QED BY <2>1, Zenon DEF Built, Grown
<1>4. BaseImagesAreWhole' BY ImagesKept, Zenon DEF RunFrame
<1>5. Types' /\ Lines' BY Zenon DEF RunFrame
<1> QED BY <1>1, <1>2, <1>3, <1>4, <1>5, Zenon DEF Inv

\* The row of the environment of a run stays, and so does what it goes back to.
LEMMA RowKept ==
  ASSUME Inv, NEW r \in Runs, NEW e \in Envs, RunFrame(r, e), env'[e] = env[e], latest'[e] = latest[e]
  PROVE  Rooted(e)'
<1> SUFFICES ASSUME env[e] # None PROVE Rooted(e)'
  BY Zenon DEF Rooted
<1>1. Rooted(e) /\ Grown /\ run'[r].env = e BY Zenon DEF Inv, RunFrame
<1>2. Descends(env[e].snap, e)' BY <1>1, TipKept, Zenon DEF Rooted
<1>3. Descends(latest[e], e)' BY <1>1, TipKept, Zenon DEF Rooted
<1> QED BY <1>1, <1>2, <1>3, Zenon DEF Rooted, Grown

\* A commit ahead of the row of the environment is still waited for.
Ahead(r) == Waiting(r) \/ (sess[r].pc = "dead" /\ run[r].pc \in {"call", "stopping"})

LEMMA CurrentKept ==
  ASSUME Inv, NEW r \in Runs, NEW e \in Envs, RunFrame(r, e), env'[e] = env[e], latest'[e] = latest[e],
         e \in behind => e \in behind', e \in behind' \/ (Ahead(r) => Ahead(r)')
  PROVE  Current(e)'
<1>1. Current(e) /\ run'[r].env = e BY Zenon DEF Inv, RunFrame
<1>2. SUFFICES ASSUME NEW q \in Runs, run[q].env = e, Ahead(q), e \notin behind' PROVE Current(e)'
  BY <1>1, Zenon DEF Current, Ahead
<1>3. Ahead(q)' BY <1>2, Zenon DEF RunFrame, Ahead, Waiting
<1>4. run'[q].env = e BY <1>1, <1>2, Zenon DEF RunFrame
<1> QED BY <1>3, <1>4, Zenon DEF Current, Ahead

\* A step of run r that changes neither rows nor commits.
ControlFrame(r, e) ==
  /\ Types' /\ UNCHANGED <<snaps, latest, bases, env, build, mixed>>
  /\ run'[r].env = e
  /\ run[r].pc # "none" => run[r].env = e
  /\ \A q \in Runs : q # r => run'[q] = run[q] /\ sess'[q] = sess[q]
  /\ behind \subseteq behind' /\ behind' \subseteq behind \cup {e}

LEMMA ControlKeeps ==
  ASSUME Inv, NEW r \in Runs, NEW e \in Envs, ControlFrame(r, e),
         \A q \in Runs : q # r /\ run[q].pc \in Preparing => run[q].env # e,
         Asked(r)', Owned(r)', Worked(r)',
         Active(r)' => Active(r) /\ Tip(r)' = Tip(r),
         Waiting(r)' => Waiting(r),
         sess'[r].pc = "committed" => sess[r].pc = "committed" /\ sess'[r].snap = sess[r].snap,
         e \in behind' \/ (Ahead(r) => Ahead(r)')
  PROVE  Inv'
<1>1. RunFrame(r, e)
  <2>1. Types /\ Lines BY Zenon DEF Inv
  <2>2. Grown /\ Lines' BY <2>1, SameGrown, Zenon DEF ControlFrame, Lines
  <2> QED BY <2>2, Zenon DEF ControlFrame, RunFrame
<1>2. Quiet(r) BY Zenon DEF ControlFrame, Quiet
<1>3. Rooted(e)' BY <1>1, RowKept, Zenon DEF ControlFrame
<1>4. Current(e)' BY <1>1, CurrentKept, Zenon DEF ControlFrame
<1>5. /\ \A p, q \in Runs : Apart(p, q)' /\ Followed(p, q)'
      /\ \A q \in Runs : Held(q)'
  BY <1>1, <1>2, QuietKept, Zenon
<1> QED BY <1>1, <1>3, <1>4, <1>5, RunKeeps, Zenon DEF ControlFrame

\* The preparing starts keep to their environments.
LEMMA PreparingAlone ==
  ASSUME Inv, NEW r \in Runs, NEW q \in Runs, q # r, run[q].pc \in Preparing, run[r].pc # "none"
  PROVE  run[q].env # run[r].env
BY Zenon DEF Inv, Owned

\* What RunTo does to the runs.
RunMoved(r, to) ==
  /\ run' \in [Runs -> RunType]
  /\ run'[r].pc = to /\ run'[r].env = run[r].env
  /\ run'[r].base = run[r].base /\ run'[r].since = run[r].since /\ run'[r].snap = run[r].snap
  /\ \A q \in Runs : q # r => run'[q] = run[q]

LEMMA RunToStep ==
  ASSUME Types, NEW r \in Runs, NEW from, NEW to \in RunPcs, RunTo(r, from, to)
  PROVE  run[r].pc = from /\ RunMoved(r, to)
BY Zenon DEF Types, RunType, RunTo, RunMoved

\* A start that resolves an image takes an environment nobody has.
LEMMA StartEnvKeeps ==
  ASSUME Inv, NEW r \in Runs, NEW e \in Envs, NEW tty \in BOOLEAN, StartEnv(r, e, tty)
  PROVE  Inv'
<1>0. Types /\ Asked(r) /\ Rooted(e) BY Zenon DEF Inv
<1>1. /\ run[r].pc = "none" /\ \A q \in Runs : run[q].env # e
      /\ UNCHANGED <<snaps, latest, bases, env, build, sess, mixed, behind>>
  BY Zenon DEF StartEnv, rows, history
<1>2. PICK since \in Finished \cup {0} :
        run' = [run EXCEPT ![r] = [pc |-> "resolve", env |-> e, tty |-> tty, base |-> 0, since |-> since, snap |-> 0]]
  BY Zenon DEF StartEnv
<1>10. since \in Nat /\ since <= Len(bases)
  <2>1. Len(bases) \in Nat /\ DOMAIN bases = 1 .. Len(bases) BY <1>0 DEF Types
  <2> QED BY <2>1 DEF Finished
<1>3. /\ run' \in [Runs -> RunType] /\ run'[r].pc = "resolve" /\ run'[r].env = e
      /\ run'[r].base = 0 /\ run'[r].since = since
      /\ \A q \in Runs : q # r => run'[q] = run[q]
  <2>1. [pc |-> "resolve", env |-> e, tty |-> tty, base |-> 0, since |-> since, snap |-> 0] \in RunType
    BY <1>10, Zenon DEF RunType, RunPcs, Unsent, Preparing
  <2> QED BY <1>0, <1>2, <2>1, Zenon DEF Types
<1>4. sess'[r].pc = "none" /\ sess[r].pc = "none" BY <1>0, <1>1, Zenon DEF Asked, Unsent
<1>5. env[e] = None BY <1>0, <1>1, Zenon DEF Rooted
<1>6. ControlFrame(r, e) BY <1>0, <1>1, <1>3, Zenon DEF ControlFrame, Types
<1>7. Asked(r)' BY <1>1, <1>3, <1>4, <1>10, Zenon DEF Asked, Unsent, Preparing
<1>8. Owned(r)' BY <1>1, <1>3, <1>4, <1>5, Zenon DEF Owned
<1>9. Worked(r)' /\ ~Active(r)' /\ ~Waiting(r)' /\ ~Ahead(r)
  BY <1>4, Zenon DEF Worked, Active, Live, Waiting, Ahead
<1> QED BY <1>1, <1>4, <1>6, <1>7, <1>8, <1>9, ControlKeeps, Zenon

\* A resumed environment has a row.
LEMMA ResumeEnvKeeps ==
  ASSUME Inv, NEW r \in Runs, NEW e \in Envs, NEW tty \in BOOLEAN, ResumeEnv(r, e, tty)
  PROVE  Inv'
<1>0. Types /\ Asked(r) BY Zenon DEF Inv
<1>1. /\ run[r].pc = "none" /\ env[e] # None
      /\ run' = [run EXCEPT ![r].pc = "select", ![r].env = e, ![r].tty = tty]
      /\ UNCHANGED <<snaps, latest, bases, env, build, sess, mixed, behind>>
  BY Zenon DEF ResumeEnv, rows, history
<1>2. "select" \in RunPcs BY Zenon DEF RunPcs, Unsent
<1>3. /\ run' \in [Runs -> RunType] /\ run'[r].pc = "select" /\ run'[r].env = e
      /\ run'[r].base = run[r].base /\ run'[r].since = run[r].since
      /\ \A q \in Runs : q # r => run'[q] = run[q]
  BY <1>0, <1>1, <1>2, Zenon DEF Types, RunType
<1>4. sess'[r].pc = "none" /\ sess[r].pc = "none" BY <1>0, <1>1, Zenon DEF Asked, Unsent
<1>5. \A q \in Runs : q # r /\ run[q].pc \in Preparing => run[q].env # e BY <1>1 DEF Inv, Owned
<1>6. ControlFrame(r, e) BY <1>0, <1>1, <1>3, Zenon DEF ControlFrame, Types
<1>7. Asked(r)' BY <1>0, <1>1, <1>3, <1>4, Zenon DEF Asked, Unsent, Preparing
<1>8. Owned(r)' BY <1>1, <1>3, <1>4, Zenon DEF Owned, Preparing
<1>9. Worked(r)' /\ ~Active(r)' /\ ~Waiting(r)' /\ ~Ahead(r)
  BY <1>4, Zenon DEF Worked, Active, Live, Waiting, Ahead
<1> QED BY <1>1, <1>4, <1>5, <1>6, <1>7, <1>8, <1>9, ControlKeeps, Zenon

\* What is resolved is a registered image, none older than the start counts on.
LEMMA ResolveKeeps ==
  ASSUME Inv, NEW r \in Runs, ResolveBaseImage(r)
  PROVE  Inv'
<1>0. Types /\ Asked(r) /\ Owned(r) BY Zenon DEF Inv
<1>1. /\ run[r].pc = "resolve"
      /\ UNCHANGED <<snaps, latest, bases, env, build, sess, mixed, behind>>
  BY Zenon DEF ResolveBaseImage, rows, history
<1>2. PICK e \in Envs : e = run[r].env BY <1>0, <1>1, Zenon DEF Asked
<1>3. Len(bases) \in Nat /\ DOMAIN bases = 1 .. Len(bases) /\ run[r] \in RunType BY <1>0 DEF Types
<1>4. PICK to \in {"volume", "error"} :
        /\ run' \in [Runs -> RunType] /\ run'[r].pc = to /\ run'[r].env = e
        /\ \A q \in Runs : q # r => run'[q] = run[q]
        /\ to = "volume" => run'[r].base # 0
        /\ run'[r].base # 0 => run'[r].base \in DOMAIN bases /\ run'[r].base >= run'[r].since
        /\ run'[r].since <= Len(bases)
  <2>0. "volume" \in RunPcs /\ "error" \in RunPcs BY Zenon DEF RunPcs, Unsent, Preparing
  <2>1. CASE bases # <<>> /\ run' = [run EXCEPT ![r].pc = "volume", ![r].base = Len(bases)]
    <3>1. /\ run' \in [Runs -> RunType] /\ run'[r].pc = "volume" /\ run'[r].env = run[r].env
          /\ run'[r].base = Len(bases) /\ run'[r].since = run[r].since
          /\ \A q \in Runs : q # r => run'[q] = run[q]
      BY <1>0, <1>3, <2>0, <2>1, Zenon DEF Types, RunType
    <3>2. Len(bases) # 0 BY <1>0, <2>1 DEF Types
    <3> QED BY <1>0, <1>2, <1>3, <3>1, <3>2 DEF Asked, RunType
  <2>2. CASE \E i \in DOMAIN bases : run' = [run EXCEPT ![r].pc = "volume", ![r].base = i, ![r].since = 0]
    <3>1. PICK i \in DOMAIN bases : run' = [run EXCEPT ![r].pc = "volume", ![r].base = i, ![r].since = 0]
      BY <2>2, Zenon
    <3>2. i \in Nat /\ 0 \in Nat /\ i # 0 BY <1>3
    <3>3. /\ run' \in [Runs -> RunType] /\ run'[r].pc = "volume" /\ run'[r].env = run[r].env
          /\ run'[r].base = i /\ run'[r].since = 0
          /\ \A q \in Runs : q # r => run'[q] = run[q]
      BY <1>0, <2>0, <3>1, <3>2, Zenon DEF Types, RunType
    <3> QED BY <1>2, <1>3, <3>2, <3>3
  <2>3. CASE RunTo(r, "resolve", "error")
    <3>1. RunMoved(r, "error") BY <1>0, <2>0, <2>3, RunToStep, Zenon
    <3> QED BY <1>0, <1>2, <3>1, Zenon DEF Asked, RunMoved
  <2> QED BY <2>1, <2>2, <2>3, Zenon DEF ResolveBaseImage
<1>5. sess'[r].pc = "none" /\ sess[r].pc = "none" BY <1>0, <1>1, Zenon DEF Asked, Unsent, Preparing
<1>6. ControlFrame(r, e) BY <1>0, <1>1, <1>2, <1>4, Zenon DEF ControlFrame, Types
<1>7. Asked(r)' BY <1>1, <1>4, <1>5, Zenon DEF Asked, Unsent, Preparing
<1>8. Owned(r)' BY <1>0, <1>1, <1>2, <1>4, <1>5, Zenon DEF Owned, Preparing
<1>9. Worked(r)' /\ ~Active(r)' /\ ~Waiting(r)' /\ ~Ahead(r)
  BY <1>5, Zenon DEF Worked, Active, Live, Waiting, Ahead
<1>10. \A q \in Runs : q # r /\ run[q].pc \in Preparing => run[q].env # e
  BY <1>1, <1>2, PreparingAlone, Zenon
<1> QED BY <1>5, <1>6, <1>7, <1>8, <1>9, <1>10, ControlKeeps, Zenon

\* What a session works on stays when the step keeps it.
LEMMA WorkedKept ==
  ASSUME Inv, NEW r \in Runs, NEW e \in Envs, RunFrame(r, e),
         (Live(r) \/ sess[r].pc = "committed")' => (Live(r) \/ sess[r].pc = "committed") /\ Tip(r)' = Tip(r),
         sess'[r].pc \in {"open", "stop", "recorded"} /\ run'[r].pc \notin {"call", "stopping"} => e \in behind'
  PROVE  Worked(r)'
<1>1. run'[r].env = e BY Zenon DEF RunFrame
<1>2. SUFFICES ASSUME (Live(r) \/ sess[r].pc = "committed")' PROVE Descends(Tip(r), run[r].env)'
  BY <1>1, Zenon DEF Worked
<1>3. sess[r].pc # "none" BY <1>2, Zenon DEF Live
<1>4. run[r].env = e /\ env[e] # None /\ env'[e].base = env[e].base /\ Grown
  BY <1>3, WorkedHas, Zenon DEF RunFrame, Unsent
<1>5. Descends(Tip(r), e) BY <1>2, <1>4, Zenon DEF Inv, Worked
<1> QED BY <1>1, <1>2, <1>4, <1>5, TipKept, Zenon

\* The same for a step that changes no rows.
LEMMA ControlWorked ==
  ASSUME Inv, NEW r \in Runs, NEW e \in Envs, ControlFrame(r, e), run[r].pc # "none",
         (Live(r) \/ sess[r].pc = "committed")' => (Live(r) \/ sess[r].pc = "committed") /\ Tip(r)' = Tip(r),
         sess'[r].pc \in {"open", "stop", "recorded"} /\ run'[r].pc \notin {"call", "stopping"} => e \in behind'
  PROVE  Worked(r)'
<1>1. Types /\ Lines BY Zenon DEF Inv
<1>2. Grown /\ Lines' BY <1>1, SameGrown, Zenon DEF ControlFrame, Lines
<1>3. \A q \in Runs : q # r /\ run[q].pc \in Preparing => run[q].env # e
  BY PreparingAlone, Zenon DEF ControlFrame
<1>4. RunFrame(r, e) BY <1>2, <1>3, Zenon DEF ControlFrame, RunFrame
<1> QED BY <1>4, WorkedKept, Zenon

\* The request of a run is sent to a node, or none answers.
LEMMA SelectNodeKeeps ==
  ASSUME Inv, up \subseteq Nodes, NEW r \in Runs, SelectNode(r)
  PROVE  Inv'
<1>0. Types /\ Asked(r) /\ Owned(r) BY Zenon DEF Inv
<1>1. UNCHANGED <<snaps, latest, bases, env, build, mixed, behind>>
  BY Zenon DEF SelectNode, rows, history
<1>2. PICK to \in {"call", "error"} :
        /\ RunTo(r, "select", to)
        /\ sess' = sess \/ \E n \in up : sess' = [sess EXCEPT ![r] = [pc |-> "sent", node |-> n, from |-> 0, snap |-> 0]]
        /\ to = "error" => sess' = sess
        /\ to = "call" => sess' # sess \/ \E n \in up : sess' = [sess EXCEPT ![r] = [pc |-> "sent", node |-> n, from |-> 0, snap |-> 0]]
  BY Zenon DEF SelectNode
<1>3. run[r].pc = "select" /\ RunMoved(r, to) BY <1>0, <1>2, RunToStep, Zenon DEF RunPcs
<1>4. PICK e \in Envs : e = run[r].env BY <1>0, <1>3, Zenon DEF Asked
<1>5. sess[r].pc = "none" /\ env[e] # None BY <1>0, <1>3, <1>4, Zenon DEF Asked, Unsent, Owned
<1>6. /\ sess' \in [Runs -> SessType] /\ sess'[r].pc = IF to = "call" THEN "sent" ELSE "none"
      /\ \A q \in Runs : q # r => sess'[q] = sess[q]
  <2>1. CASE to = "error" BY <1>0, <1>2, <1>5, <2>1, Zenon DEF Types
  <2>2. CASE to = "call"
    <3>1. PICK n \in up : sess' = [sess EXCEPT ![r] = [pc |-> "sent", node |-> n, from |-> 0, snap |-> 0]]
      BY <1>2, <2>2, Zenon
    <3>2. [pc |-> "sent", node |-> n, from |-> 0, snap |-> 0] \in SessType
      BY Zenon DEF SessType, SessPcs
    <3> QED BY <1>0, <2>2, <3>1, <3>2, Zenon DEF Types
  <2> QED BY <2>1, <2>2, Zenon
<1>7. ControlFrame(r, e) BY <1>0, <1>1, <1>3, <1>4, <1>6, Zenon DEF ControlFrame, Types, RunMoved
<1>8. Asked(r)' BY <1>0, <1>1, <1>3, <1>4, <1>6, Zenon DEF Asked, RunMoved, Unsent, Preparing
<1>9. Owned(r)' BY <1>1, <1>3, <1>4, <1>5, Zenon DEF Owned, Preparing, RunMoved
<1>10. Worked(r)' /\ ~Active(r)' /\ ~Waiting(r)' /\ ~Ahead(r) /\ sess'[r].pc # "committed"
  BY <1>5, <1>6, Zenon DEF Worked, Active, Live, Waiting, Ahead
<1>11. \A q \in Runs : q # r /\ run[q].pc \in Preparing => run[q].env # e
  BY <1>3, <1>4, PreparingAlone, Zenon
<1> QED BY <1>7, <1>8, <1>9, <1>10, <1>11, ControlKeeps, Zenon

\* A step of the session of r that only moves it.
SessMoved(r, to) ==
  /\ sess' \in [Runs -> SessType]
  /\ sess'[r].pc = to /\ sess'[r].from = sess[r].from /\ sess'[r].snap = sess[r].snap
  /\ \A q \in Runs : q # r => sess'[q] = sess[q]

LEMMA SessTo ==
  ASSUME Types, NEW r \in Runs, NEW to \in SessPcs,
         (sess' = sess /\ sess[r].pc = to) \/ sess' = [sess EXCEPT ![r].pc = to]
  PROVE  SessMoved(r, to)
BY Zenon DEF Types, SessType, SessMoved

LEMMA MoveAsked ==
  ASSUME Inv, NEW r \in Runs, NEW to, NEW at, RunMoved(r, to), SessMoved(r, at), UNCHANGED <<bases, env>>,
         run[r].pc \notin Unsent, to \notin Unsent \cup {"update", "done"}, sess[r].pc # "none", at # "none"
  PROVE  Asked(r)' /\ Owned(r)'
<1>0. Asked(r) /\ Owned(r) BY Zenon DEF Inv
<1>1. run[r].env \in Envs BY <1>0, Zenon DEF Asked, Unsent
<1>2. /\ run'[r].env = run[r].env /\ run'[r].pc = to
      /\ run'[r].base = run[r].base /\ run'[r].since = run[r].since /\ sess'[r].pc = at
  BY Zenon DEF RunMoved, SessMoved
<1>3. Asked(r)'
  <2>1. to \notin Unsent /\ to # "none" /\ to \notin {"update", "done"} /\ to \notin {"volume", "env"}
    BY Zenon DEF Unsent, Preparing
  <2> QED BY <1>0, <1>1, <1>2, <2>1, Zenon DEF Asked
<1>4. Owned(r)' BY <1>0, <1>1, <1>2, Zenon DEF Owned, Unsent, Preparing
<1> QED BY <1>3, <1>4, Zenon

\* A run and its session move on, with nothing new in either.
LEMMA MoveKeeps ==
  ASSUME Inv, NEW r \in Runs, NEW to, NEW at, RunMoved(r, to), SessMoved(r, at),
         UNCHANGED <<snaps, latest, bases, env, build, mixed>>,
         behind \subseteq behind', behind' \subseteq behind \cup {run[r].env},
         run[r].pc \notin Unsent, to \notin Unsent \cup {"update", "done"}, sess[r].pc # "none", at # "none",
         at \in {"open", "terminal", "stop", "recorded"} =>
           /\ Active(r) \/ (to = "error" /\ at = "terminal")
           /\ Live(r) /\ (at = "recorded" <=> sess[r].pc = "recorded"),
         at = "committed" => sess[r].pc = "committed",
         at = "committed" /\ to \in {"call", "stopping"} => run[r].pc \in {"call", "stopping", "update"},
         \/ run[r].env \in behind'
         \/ /\ Ahead(r) => Waiting(r)' \/ (at = "dead" /\ to \in {"call", "stopping"})
            /\ at \in {"open", "stop", "recorded"} => to \in {"call", "stopping"}
  PROVE  Inv'
<1>0. Types /\ Asked(r) /\ Owned(r) /\ Worked(r) BY Zenon DEF Inv
<1>1. PICK e \in Envs : e = run[r].env BY <1>0, Zenon DEF Asked, Unsent
<1>2. /\ run'[r].env = e /\ run'[r].pc = to /\ run'[r].base = run[r].base /\ run'[r].since = run[r].since
      /\ sess'[r].pc = at /\ sess'[r].from = sess[r].from /\ sess'[r].snap = sess[r].snap
  BY <1>1, Zenon DEF RunMoved, SessMoved
<1>3. ControlFrame(r, e) BY <1>0, <1>1, Zenon DEF ControlFrame, Types, RunMoved, SessMoved
<1>4. Asked(r)' /\ Owned(r)' BY MoveAsked, Zenon
<1>6. (Live(r) \/ sess[r].pc = "committed")' => (Live(r) \/ sess[r].pc = "committed") /\ Tip(r)' = Tip(r)
  BY <1>2, Zenon DEF Live, Tip
<1>7. Active(r)' => Active(r) /\ Tip(r)' = Tip(r) BY <1>2, Zenon DEF Active, Live, Tip
<1>8. Waiting(r)' => Waiting(r) BY <1>2, Zenon DEF Waiting
<1>9. e \in behind' \/ (Ahead(r) => Ahead(r)') BY <1>1, <1>2, Zenon DEF Ahead
<1>10. at \in {"open", "stop", "recorded"} /\ to \notin {"call", "stopping"} => e \in behind'
  BY <1>1, Zenon
<1>11. Worked(r)' BY <1>2, <1>3, <1>6, <1>10, ControlWorked, Zenon DEF Unsent
<1>12. \A q \in Runs : q # r /\ run[q].pc \in Preparing => run[q].env # e
  BY <1>1, PreparingAlone, Zenon DEF Unsent
<1> QED BY <1>2, <1>3, <1>4, <1>7, <1>8, <1>9, <1>11, <1>12, ControlKeeps, Zenon

\* A call fails: the run gives up, or may stop its terminal again.
LEMMA CallFailsKeeps ==
  ASSUME Inv, NEW r \in Runs, CallFails(r)
  PROVE  Inv'
<1>0. Types /\ Asked(r) BY Zenon DEF Inv
<1>1. UNCHANGED <<snaps, latest, bases, env, build, mixed>> /\ behind' = behind \cup {run[r].env}
  BY Zenon DEF CallFails, rows
<1>2. run[r].env \in behind' /\ behind \subseteq behind' /\ behind' \subseteq behind \cup {run[r].env}
  BY <1>1, Zenon
<1>3. CASE run[r].pc \in {"call", "stopping"} /\ RunTo(r, run[r].pc, "error") /\ UNCHANGED sess
  <2>1. RunMoved(r, "error") BY <1>0, <1>3, RunToStep, Zenon DEF RunPcs
  <2>2. PICK at \in SessPcs : at = sess[r].pc BY <1>0, Zenon DEF Types, SessType
  <2>3. SessMoved(r, at) BY <1>0, <1>3, <2>2, SessTo, Zenon
  <2>4. run[r].pc \notin Unsent /\ "error" \notin Unsent \cup {"update", "done"}
    BY <1>3, Zenon DEF Unsent, Preparing
  <2>5. sess[r].pc # "none" BY <1>0, <1>3, <2>4, Zenon DEF Asked
  <2>6. at \in {"open", "terminal", "stop", "recorded"} => Active(r) /\ Live(r) /\ (at = "recorded" <=> sess[r].pc = "recorded")
    BY <1>3, <2>2, Zenon DEF Active, Live
  <2>7. at = "committed" => sess[r].pc = "committed" BY <2>2, Zenon
  <2> QED BY <1>1, <1>2, <2>1, <2>2, <2>3, <2>4, <2>5, <2>6, <2>7, MoveKeeps, Zenon
<1>4. CASE sess[r].pc = "sent" /\ RunTo(r, "call", "error") /\ sess' = [sess EXCEPT ![r].pc = "dead"]
  <2>1. run[r].pc = "call" /\ RunMoved(r, "error") BY <1>0, <1>4, RunToStep, Zenon DEF RunPcs
  <2>2. SessMoved(r, "dead") BY <1>0, <1>4, SessTo, Zenon DEF SessPcs
  <2>3. run[r].pc \notin Unsent /\ "error" \notin Unsent \cup {"update", "done"}
    BY <2>1, Zenon DEF Unsent, Preparing
  <2> QED BY <1>1, <1>2, <1>4, <2>1, <2>2, <2>3, MoveKeeps, Zenon
<1>5. CASE sess[r].pc = "stop" /\ RunTo(r, "stopping", "terminal") /\ sess' = [sess EXCEPT ![r].pc = "terminal"]
  <2>1. run[r].pc = "stopping" /\ RunMoved(r, "terminal") BY <1>0, <1>5, RunToStep, Zenon DEF RunPcs
  <2>2. SessMoved(r, "terminal") BY <1>0, <1>5, SessTo, Zenon DEF SessPcs
  <2>3. run[r].pc \notin Unsent /\ "terminal" \notin Unsent \cup {"update", "done"}
    BY <2>1, Zenon DEF Unsent, Preparing
  <2>4. Live(r) /\ Active(r) BY <1>5, Zenon DEF Live, Active
  <2> QED BY <1>1, <1>2, <1>5, <2>1, <2>2, <2>3, <2>4, MoveKeeps, Zenon
<1> QED BY <1>3, <1>4, <1>5, Zenon DEF CallFails

\* The stop of a terminal.
LEMMA TtyStopKeeps ==
  ASSUME Inv, NEW r \in Runs, TtyStop(r)
  PROVE  Inv'
<1>0. Types /\ Asked(r) BY Zenon DEF Inv
<1>1. UNCHANGED <<snaps, latest, bases, env, build, mixed, behind>>
  BY Zenon DEF TtyStop, rows, history
<1>2. run[r].pc = "terminal" /\ RunMoved(r, "stopping")
  BY <1>0, RunToStep, Zenon DEF TtyStop, RunPcs
<1>3. run[r].pc \notin Unsent /\ "stopping" \notin Unsent \cup {"update", "done"}
  BY <1>2, Zenon DEF Unsent, Preparing
<1>4. sess' = [sess EXCEPT ![r].pc = IF @ = "terminal" THEN "stop" ELSE @] BY Zenon DEF TtyStop
<1>7. behind \subseteq behind' /\ behind' \subseteq behind \cup {run[r].env} BY <1>1, Zenon
<1>5. CASE sess[r].pc = "terminal"
  <2>1. SessMoved(r, "stop")
    <3>1. "stop" \in SessPcs BY Zenon DEF SessPcs
    <3> QED BY <1>0, <1>4, <1>5, <3>1, Zenon DEF Types, SessType, SessMoved
  <2>2. Live(r) /\ Active(r) /\ ~Ahead(r) BY <1>2, <1>5, Zenon DEF Live, Active, Ahead, Waiting
  <2>3. sess[r].pc # "none" /\ sess[r].pc # "recorded" BY <1>5, Zenon
  <2> QED BY <1>1, <1>2, <1>3, <1>7, <2>1, <2>2, <2>3, MoveKeeps, Zenon
<1>6. CASE sess[r].pc = "dead"
  <2>1. SessMoved(r, "dead")
    BY <1>0, <1>4, <1>6, Zenon DEF Types, SessType, SessMoved
  <2>2. ~Ahead(r) BY <1>2, <1>6, Zenon DEF Ahead, Waiting
  <2> QED BY <1>1, <1>2, <1>3, <1>6, <2>1, <2>2, MoveKeeps, Zenon
<1> QED BY <1>5, <1>6, Zenon DEF TtyStop

\* The node answers with a terminal, or with the commit.
LEMMA CallReturnsKeeps ==
  ASSUME Inv, NEW r \in Runs, CallReturns(r)
  PROVE  Inv'
<1>0. Types /\ Asked(r) /\ Owned(r) BY Zenon DEF Inv
<1>1. UNCHANGED <<snaps, latest, bases, env, build, sess, mixed, behind>>
  BY Zenon DEF CallReturns, rows, history
<1>2. CASE sess[r].pc = "terminal" /\ RunTo(r, "call", "terminal")
  <2>1. run[r].pc = "call" /\ RunMoved(r, "terminal") BY <1>0, <1>2, RunToStep, Zenon DEF RunPcs
  <2>2. SessMoved(r, "terminal") BY <1>0, <1>1, <1>2, SessTo, Zenon DEF SessPcs
  <2>3. run[r].pc \notin Unsent /\ "terminal" \notin Unsent \cup {"update", "done"}
    BY <2>1, Zenon DEF Unsent, Preparing
  <2>4. Live(r) /\ Active(r) /\ ~Ahead(r) BY <1>2, <2>1, Zenon DEF Live, Active, Ahead, Waiting
  <2> QED BY <1>1, <1>2, <2>1, <2>2, <2>3, <2>4, MoveKeeps, Zenon
<1>3. CASE sess[r].pc = "committed" /\ run[r].pc \in {"call", "stopping"}
           /\ run' = [run EXCEPT ![r].pc = "update", ![r].snap = sess[r].snap]
  <2>1. PICK e \in Envs : e = run[r].env BY <1>0, <1>3, Zenon DEF Asked
  <2>2. "update" \in RunPcs /\ sess[r].snap \in Nat BY <1>0, Zenon DEF RunPcs, Types, SessType
  <2>3. /\ run' \in [Runs -> RunType] /\ run'[r].pc = "update" /\ run'[r].env = run[r].env
        /\ run'[r].base = run[r].base /\ run'[r].since = run[r].since /\ run'[r].snap = sess[r].snap
        /\ \A q \in Runs : q # r => run'[q] = run[q]
    BY <1>0, <1>3, <2>2, Zenon DEF Types, RunType
  <2>4. ControlFrame(r, e) BY <1>0, <1>1, <2>1, <2>3, Zenon DEF ControlFrame, Types
  <2>5. Asked(r)' BY <1>0, <1>1, <1>3, <2>1, <2>3, Zenon DEF Asked, Unsent, Preparing
  <2>6. Owned(r)' BY <1>0, <1>1, <1>3, <2>1, <2>3, Zenon DEF Owned, Preparing
  <2>7. Worked(r)' BY <1>1, <1>3, <2>4, ControlWorked, Zenon DEF Tip, Live
  <2>8. Waiting(r) /\ Waiting(r)' BY <1>1, <1>3, <2>3, Zenon DEF Waiting
  <2>9. ~Active(r)' BY <1>1, <1>3, Zenon DEF Active, Live
  <2>10. \A q \in Runs : q # r /\ run[q].pc \in Preparing => run[q].env # e
    BY <1>3, <2>1, PreparingAlone, Zenon
  <2> QED BY <1>1, <1>3, <2>4, <2>5, <2>6, <2>7, <2>8, <2>9, <2>10, ControlKeeps, Zenon DEF Ahead
<1> QED BY <1>2, <1>3, Zenon DEF CallReturns

\* The session of a node fails without an effect on the rows.
LEMMA FailsKeeps ==
  ASSUME Inv, NEW r \in Runs, NodeFails(r), UNCHANGED rows
  PROVE  Inv'
<1>0. Types /\ Asked(r) BY Zenon DEF Inv
<1>1. UNCHANGED <<snaps, latest, bases, env, build, run, mixed, behind>>
  BY Zenon DEF NodeFails, rows, history
<1>2. Live(r) /\ sess' = [sess EXCEPT ![r].pc = "dead"] BY Zenon DEF NodeFails
<1>3. SessMoved(r, "dead") BY <1>0, <1>2, SessTo, Zenon DEF SessPcs
<1>4. PICK to : to = run[r].pc BY Zenon
<1>5. RunMoved(r, to) BY <1>0, <1>1, <1>4, Zenon DEF RunMoved, Types
<1>6. run[r].pc \notin Unsent \cup {"update", "done"} /\ sess[r].pc # "none" /\ ~Ahead(r)
  BY <1>0, <1>2, Zenon DEF Asked, Live, Ahead, Waiting
<1> QED BY <1>1, <1>3, <1>4, <1>5, <1>6, MoveKeeps, Zenon

\* A row of base_images.
LEMMA BaseRow ==
  ASSUME Types, NEW i \in DOMAIN bases
  PROVE  i \in Nat /\ bases[i].snap \in Nat
<1>1. bases \in Seq(BaseType) BY Zenon DEF Types
<1>2. bases[i] \in BaseType /\ i \in Nat BY <1>1
<1> QED BY <1>2, Zenon DEF BaseType

\* The volume of a new environment is the start's own until the row is there.
LEMMA CreateEnvVolumeKeeps ==
  ASSUME Inv, NEW r \in Runs, CreateEnvVolume(r)
  PROVE  Inv'
<1>0. Types /\ Lines /\ Asked(r) /\ Owned(r) BY Zenon DEF Inv
<1>1. UNCHANGED <<snaps, bases, env, build, sess, mixed, behind>>
  BY Zenon DEF CreateEnvVolume, history
<1>2. PICK o \in Outcomes :
        /\ RunTo(r, "volume", IF o = "ok" THEN "env" ELSE "error")
        /\ IF o = "failed" THEN UNCHANGED latest ELSE UpdateLatestSnapshot(run[r].env, bases[run[r].base].snap)
  BY Zenon DEF CreateEnvVolume
<1>3. run[r].pc = "volume" /\ RunMoved(r, IF o = "ok" THEN "env" ELSE "error")
  BY <1>0, <1>2, RunToStep, Zenon DEF RunPcs, Unsent, Preparing
<1>4. PICK e \in Envs : e = run[r].env BY <1>0, <1>3, Zenon DEF Asked
<1>5. /\ env[e] = None /\ (\A q \in Runs \ {r} : run[q].env # e) /\ sess[r].pc = "none"
      /\ run[r].base \in DOMAIN bases /\ e \in Volumes
  BY <1>0, <1>3, <1>4, Zenon DEF Owned, Asked, Unsent, Preparing, Volumes
<1>6. bases[run[r].base].snap \in Nat BY <1>0, <1>5, BaseRow, Zenon
<1>7. /\ latest' \in [Volumes -> Nat \cup {None}]
      /\ \A v \in Volumes : v # e => latest'[v] = latest[v]
      /\ o = "ok" => latest'[e] = bases[run[r].base].snap
  BY <1>0, <1>2, <1>4, <1>5, <1>6, Zenon DEF Types, UpdateLatestSnapshot
<1>8. RunFrame(r, e)
  <2>1. Grown /\ Lines' BY <1>0, <1>1, SameGrown, Zenon DEF Lines
  <2>2. Types' BY <1>0, <1>1, <1>3, <1>7, Zenon DEF Types, RunMoved
  <2> QED BY <1>1, <1>3, <1>4, <1>5, <1>7, <2>1, <2>2, Zenon DEF RunFrame, RunMoved, Volumes
<1>9. Asked(r)' BY <1>0, <1>1, <1>3, <1>4, <1>5, Zenon DEF Asked, RunMoved, Unsent, Preparing
<1>10. Owned(r)' BY <1>1, <1>3, <1>4, <1>5, <1>7, Zenon DEF Owned, Preparing, RunMoved
<1>11. Worked(r)' /\ ~Active(r)' /\ ~Waiting(r)' /\ sess'[r].pc # "committed"
  BY <1>1, <1>5, Zenon DEF Worked, Active, Live, Waiting
<1>12. Rooted(e)' /\ Current(e)' BY <1>1, <1>5, Zenon DEF Rooted, Current
<1>13. Quiet(r)
  <2>1. \A q \in Runs : sess[q].pc = "committed" => latest'[run[q].env] = latest[run[q].env]
    BY <1>5, <1>7, WorkedHas, Zenon DEF Volumes
  <2> QED BY <1>1, <1>11, <2>1, Zenon DEF Quiet
<1>14. /\ \A p, q \in Runs : Apart(p, q)' /\ Followed(p, q)'
       /\ \A q \in Runs : Held(q)'
  BY <1>8, <1>13, QuietKept, Zenon
<1> QED BY <1>1, <1>8, <1>9, <1>10, <1>11, <1>12, <1>14, RunKeeps, Zenon

\* The row of a new environment names what its volume names.
LEMMA CreateEnvKeeps ==
  ASSUME Inv, NEW r \in Runs, CreateEnv(r)
  PROVE  Inv'
<1>0. Types /\ Lines /\ Asked(r) /\ Owned(r) /\ BaseImagesAreWhole BY Zenon DEF Inv
<1>1. UNCHANGED <<snaps, latest, bases, build, sess, mixed, behind>> BY Zenon DEF CreateEnv, history
<1>2. PICK o \in Outcomes :
        /\ RunTo(r, "env", IF o = "ok" THEN "select" ELSE "error")
        /\ env' = IF o = "failed" THEN env
                  ELSE [env EXCEPT ![run[r].env] = [base |-> run[r].base, snap |-> bases[run[r].base].snap]]
  BY Zenon DEF CreateEnv
<1>3. run[r].pc = "env" /\ RunMoved(r, IF o = "ok" THEN "select" ELSE "error")
  BY <1>0, <1>2, RunToStep, Zenon DEF RunPcs, Unsent
<1>4. PICK e \in Envs : e = run[r].env BY <1>0, <1>3, Zenon DEF Asked
<1>21. run[r].base \in DOMAIN bases BY <1>0, <1>3, Zenon DEF Asked
<1>22. PICK b \in Nat : b = bases[run[r].base].snap BY <1>0, <1>21, BaseRow, Zenon
<1> DEFINE x == [base |-> run[r].base, snap |-> b]
<1>5. /\ env[e] = None /\ (\A q \in Runs \ {r} : run[q].env # e) /\ sess[r].pc = "none"
      /\ latest[e] = b
  BY <1>0, <1>3, <1>4, <1>22, Zenon DEF Owned, Asked, Unsent, Preparing
<1>6. x \in EnvType /\ x # None
  <2>1. x \in EnvType BY <1>0, <1>21, BaseRow, Zenon DEF EnvType
  <2> QED BY <2>1, ControlAssumption, Zenon DEF EnvType
<1>7. b \in DOMAIN snaps /\ b \in snaps[b].line
  BY <1>0, <1>21, <1>22, Zenon DEF BaseImagesAreWhole, Lines
<1>8. /\ env' \in [Envs -> EnvType \cup {None}]
      /\ \A d \in Envs : d # e => env'[d] = env[d]
      /\ IF o = "failed" THEN env'[e] = None ELSE env'[e] = x
  <2> HIDE DEF x
  <2>1. env' = IF o = "failed" THEN env ELSE [env EXCEPT ![e] = x] BY <1>2, <1>4, <1>22, Zenon DEF x
  <2> QED BY <1>0, <1>5, <1>6, <2>1, Zenon DEF Types
<1>9. RunFrame(r, e)
  <2>1. Grown /\ Lines' BY <1>0, <1>1, SameGrown, Zenon DEF Lines
  <2>2. Types' BY <1>0, <1>1, <1>3, <1>8, Zenon DEF Types, RunMoved
  <2> QED BY <1>1, <1>3, <1>4, <1>5, <1>8, <2>1, <2>2, Zenon DEF RunFrame, RunMoved
<1>10. Asked(r)'
  BY <1>0, <1>1, <1>3, <1>4, <1>5, <1>21, Zenon DEF Asked, RunMoved, Unsent, Preparing
<1>11. Owned(r)'
  BY <1>1, <1>3, <1>4, <1>5, <1>6, <1>8, Zenon DEF Owned, Preparing, RunMoved, Outcomes
<1>12. Worked(r)' /\ ~Active(r)' /\ ~Waiting(r)' /\ sess'[r].pc # "committed"
  BY <1>1, <1>5, Zenon DEF Worked, Active, Live, Waiting
<1>13. Rooted(e)' /\ Current(e)'
  <2>1. CASE o = "failed" BY <1>8, <2>1, Zenon DEF Rooted, Current
  <2>2. CASE o # "failed"
    <3>1. env'[e].base = run[r].base /\ env'[e].snap = b BY <1>8, <2>2
    <3>2. bases'[env'[e].base].snap = b BY <1>1, <1>22, <3>1, Zenon
    <3>3. Descends(b, e)' BY <1>1, <1>7, <3>2, Zenon DEF Descends
    <3>4. run'[r].env = e BY <1>3, <1>4, Zenon DEF RunMoved
    <3> HIDE DEF x
    <3> QED BY <1>1, <1>5, <1>21, <3>1, <3>3, <3>4, Zenon DEF Rooted, Current
  <2> QED BY <2>1, <2>2, Zenon
<1>14. Quiet(r) BY <1>1, <1>12, Zenon DEF Quiet
<1>15. /\ \A p, q \in Runs : Apart(p, q)' /\ Followed(p, q)'
       /\ \A q \in Runs : Held(q)'
  BY <1>9, <1>14, QuietKept, Zenon
<1> QED BY <1>1, <1>9, <1>10, <1>11, <1>12, <1>13, <1>15, RunKeeps, Zenon

\* The row follows the volume when the run met no other; no session is then at
\* work that could move the volume.
LEMMA UpdateEnvSnapshotKeeps ==
  ASSUME Inv, NEW r \in Runs, UpdateEnvSnapshot(r)
  PROVE  Inv'
<1>0. Types /\ Lines /\ Asked(r) /\ Owned(r) /\ Worked(r) /\ Held(r) BY Zenon DEF Inv
<1>1. UNCHANGED <<snaps, latest, bases, build, sess, mixed>> BY Zenon DEF UpdateEnvSnapshot
<1>2. PICK o \in Outcomes :
        /\ RunTo(r, "update", IF o = "ok" THEN "done" ELSE "error")
        /\ env' = IF o = "failed" THEN env ELSE [env EXCEPT ![run[r].env].snap = run[r].snap]
        /\ behind' = IF o = "ok" /\ r \notin mixed THEN behind \ {run[r].env} ELSE behind \cup {run[r].env}
  BY Zenon DEF UpdateEnvSnapshot
<1>3. run[r].pc = "update" /\ RunMoved(r, IF o = "ok" THEN "done" ELSE "error")
  BY <1>0, <1>2, RunToStep, Zenon DEF RunPcs
<1>4. PICK e \in Envs : e = run[r].env BY <1>0, <1>3, Zenon DEF Asked
<1>5. PICK s \in Nat : s = sess[r].snap BY <1>0, Zenon DEF Types, SessType
<1>6. /\ sess[r].pc = "committed" /\ run[r].snap = s /\ Waiting(r)
      /\ env[e] # None /\ env[e].base \in DOMAIN bases
  BY <1>0, <1>3, <1>4, <1>5, WorkedHas, Zenon DEF Asked, Waiting
<1>7. Descends(s, e) BY <1>0, <1>4, <1>5, <1>6, Zenon DEF Worked, Tip
<1>8. r \notin mixed => latest[e] = s BY <1>0, <1>4, <1>5, <1>6, Zenon DEF Held
<1>9. /\ env' \in [Envs -> EnvType \cup {None}]
      /\ \A d \in Envs : d # e => env'[d] = env[d]
      /\ env'[e] # None /\ env'[e].base = env[e].base
      /\ env'[e].snap = IF o = "failed" THEN env[e].snap ELSE s
  <2>1. CASE o = "failed" BY <1>0, <1>2, <1>6, <2>1, Zenon DEF Types
  <2>2. CASE o # "failed"
    <3>1. env' = [env EXCEPT ![e].snap = s] BY <1>2, <1>4, <1>6, <2>2, Zenon
    <3>2. /\ env' \in [Envs -> EnvType \cup {None}]
          /\ \A d \in Envs : d # e => env'[d] = env[d]
          /\ env'[e] # None /\ env'[e].base = env[e].base /\ env'[e].snap = s
      BY <1>0, <1>6, <3>1, ControlAssumption, Zenon DEF Types, EnvType
    <3> QED BY <2>2, <3>2, Zenon
  <2> QED BY <2>1, <2>2, Zenon
<1>10. RunFrame(r, e)
  <2>1. Grown /\ Lines' BY <1>0, <1>1, SameGrown, Zenon DEF Lines
  <2>2. Types' BY <1>0, <1>1, <1>3, <1>9, Zenon DEF Types, RunMoved
  <2>3. \A q \in Runs : q # r /\ run[q].pc \in Preparing => run[q].env # e
    BY <1>3, <1>4, PreparingAlone, Zenon
  <2>4. \A d \in Envs : d # e => (d \in behind' <=> d \in behind) BY <1>2, <1>4, Zenon
  <2> QED BY <1>1, <1>3, <1>4, <1>9, <2>1, <2>2, <2>3, <2>4, Zenon DEF RunFrame, RunMoved
<1>11. Asked(r)' BY <1>0, <1>1, <1>3, <1>4, <1>6, Zenon DEF Asked, RunMoved, Unsent, Preparing
<1>12. Owned(r)' BY <1>1, <1>3, <1>4, <1>6, <1>9, Zenon DEF Owned, Preparing, RunMoved
<1>13. Worked(r)' BY <1>1, <1>6, <1>10, WorkedKept, Zenon DEF Live, Tip
<1>14. Rooted(e)'
  <2>1. Rooted(e) /\ Grown /\ run'[r].env = e BY <1>10, Zenon DEF Inv, RunFrame
  <2>2. Descends(env[e].snap, e) /\ Descends(latest[e], e) BY <1>6, <2>1, Zenon DEF Rooted
  <2>3. Descends(env[e].snap, e)' BY <1>6, <1>7, <1>9, <2>1, <2>2, TipKept, Zenon
  <2>4. Descends(latest[e], e)' BY <1>1, <1>6, <1>9, <2>1, <2>2, TipKept, Zenon
  <2> QED BY <1>1, <1>6, <1>9, <2>1, <2>3, <2>4, Zenon DEF Rooted
<1>15. Current(e)'
  <2>1. CASE o = "ok" /\ r \notin mixed BY <1>1, <1>8, <1>9, <2>1, Zenon DEF Current
  <2>2. CASE ~(o = "ok" /\ r \notin mixed) BY <1>2, <1>4, <2>2, Zenon DEF Current
  <2> QED BY <2>1, <2>2, Zenon
<1>16. \A q \in Runs : q # r /\ Active(q) /\ run[q].env \in behind => run[q].env \in behind'
  <2> SUFFICES ASSUME NEW q \in Runs, q # r, Active(q), run[q].env \in behind PROVE run[q].env \in behind'
    BY Zenon
  <2>1. Apart(r, q) BY Zenon DEF Inv
  <2>2. run[q].env = e => r \in mixed BY <1>4, <1>6, <2>1, Zenon DEF Apart
  <2> QED BY <1>2, <1>4, <2>2, Zenon
<1>17. Quiet(r) BY <1>1, <1>3, <1>6, Zenon DEF Quiet, Active, Live, Waiting, RunMoved
<1>18. /\ \A p, q \in Runs : Apart(p, q)' /\ Followed(p, q)'
       /\ \A q \in Runs : Held(q)'
  BY <1>10, <1>17, QuietKept, Zenon
<1> QED BY <1>10, <1>11, <1>12, <1>13, <1>14, <1>15, <1>16, <1>18, RunKeeps, Zenon

-----------------------------------------------------------------------------
(* Sessions *)

\* A step of the session of r, whose run stays where it is.
SessFrame(r, e) ==
  /\ RunFrame(r, e) /\ UNCHANGED <<run, env>>
  /\ run[r].env = e /\ env[e] # None
  /\ run[r].pc \notin Unsent \cup {"update", "done"}
  /\ sess'[r].pc # "none"

\* The run of a session that moves stays what it was.
LEMMA SessAsked ==
  ASSUME Inv, NEW r \in Runs, NEW e \in Envs, SessFrame(r, e)
  PROVE  Asked(r)' /\ Owned(r)'
<1>0. Asked(r) /\ Owned(r) /\ run' = run /\ bases' = bases /\ env' = env /\ sess'[r].pc # "none"
  BY Zenon DEF Inv, SessFrame, RunFrame
<1>1. Asked(r)' BY <1>0, Zenon DEF Asked, SessFrame, Unsent
<1>2. Owned(r)' BY <1>0, Zenon DEF Owned, SessFrame, Unsent, Preparing
<1> QED BY <1>1, <1>2, Zenon

\* A session starts from what the volume names; whom it meets is marked.
LEMMA NodeStartKeeps ==
  ASSUME Inv, NEW r \in Runs, NodeStart(r)
  PROVE  Inv'
<1>0. Types /\ Lines /\ Asked(r) BY Zenon DEF Inv
<1>1. PICK e \in Envs : e = run[r].env BY WorkedHas, Zenon DEF NodeStart
<1> DEFINE met == {q \in Runs \ {r} : run[q].env = e /\ Pending(q)}
<1>2. /\ sess[r].pc = "sent"
      /\ sess' = [sess EXCEPT ![r].pc = IF run[r].tty THEN "terminal" ELSE "open", ![r].from = latest[e]]
      /\ mixed' = IF met = {} THEN mixed ELSE mixed \cup met \cup {r}
      /\ behind' = IF run[r].pc = "call" THEN behind ELSE behind \cup {e}
      /\ UNCHANGED <<snaps, latest, bases, env, build, run>>
  BY <1>1, Zenon DEF NodeStart
<1>3. env[e] # None /\ run[r].pc \notin Unsent \cup {"update", "done"}
  BY <1>0, <1>1, <1>2, WorkedHas, Zenon DEF Asked
<1>4. PICK s \in Nat : s = latest[e] /\ Descends(s, e)
  <2>1. Descends(latest[e], e) BY <1>3, Zenon DEF Inv, Rooted
  <2>2. latest[e] \in Nat BY <1>0, <2>1 DEF Descends, Types
  <2> QED BY <2>1, <2>2, Zenon
<1>5. PICK to \in {"terminal", "open"} : to = IF run[r].tty THEN "terminal" ELSE "open" BY Zenon
<1>6. /\ sess' \in [Runs -> SessType] /\ sess'[r].pc = to /\ sess'[r].from = s
      /\ \A q \in Runs : q # r => sess'[q] = sess[q]
  <2>1. sess' = [sess EXCEPT ![r].pc = to, ![r].from = s] BY <1>2, <1>4, <1>5, Zenon
  <2>2. to \in SessPcs BY Zenon DEF SessPcs
  <2> QED BY <1>0, <2>1, <2>2, Zenon DEF Types, SessType
<1>7. mixed \subseteq mixed' /\ mixed' \subseteq Runs BY <1>0, <1>2, Zenon DEF Types
<1>8. SessFrame(r, e)
  <2>1. Grown /\ Lines' BY <1>0, <1>2, SameGrown, Zenon DEF Lines
  <2>2. Types' BY <1>0, <1>2, <1>6, <1>7, Zenon DEF Types
  <2>3. \A q \in Runs : q # r /\ run[q].pc \in Preparing => run[q].env # e
    BY <1>1, <1>3, PreparingAlone, Zenon DEF Unsent
  <2>4. \A d \in Envs : d # e => (d \in behind' <=> d \in behind) BY <1>2, Zenon
  <2>5. RunFrame(r, e) BY <1>1, <1>2, <1>6, <1>7, <2>1, <2>2, <2>3, <2>4, Zenon DEF RunFrame
  <2> QED BY <1>1, <1>2, <1>3, <1>6, <2>5, Zenon DEF SessFrame
<1>9. Asked(r)' /\ Owned(r)' BY <1>8, SessAsked, Zenon
<1>10. Tip(r)' = s BY <1>6, Zenon DEF Tip
<1>11. Worked(r)'
  <2>1. Descends(s, e)' BY <1>3, <1>4, <1>8, TipKept, Zenon DEF SessFrame, RunFrame
  <2> QED BY <1>1, <1>2, <1>6, <1>10, <2>1, Zenon DEF Worked
<1>12. Rooted(e)' BY <1>2, <1>8, RowKept, Zenon DEF SessFrame
<1>13. Current(e)'
  <2>1. ~Ahead(r) BY <1>2, Zenon DEF Ahead, Waiting
  <2>2. e \in behind => e \in behind' BY <1>2, Zenon
  <2> QED BY <1>2, <1>8, <2>1, <2>2, CurrentKept, Zenon DEF SessFrame
<1>14. \A q \in Runs : q # r => (Active(q)' <=> Active(q)) /\ (Waiting(q)' <=> Waiting(q)) /\ Tip(q)' = Tip(q)
  BY <1>2, <1>6, Zenon DEF Active, Waiting, Live, Tip
<1>15. \A q \in Runs : q # r /\ run[q].env = e /\ (Active(q) \/ Waiting(q)) => q \in mixed' /\ r \in mixed'
  <2>1. \A q \in Runs : Active(q) \/ Waiting(q) => Pending(q) BY Zenon DEF Active, Waiting, Pending
  <2>2. \A q \in met : q \in mixed' /\ r \in mixed' BY <1>2, Zenon
  <2> QED BY <2>1, <2>2, Zenon
<1> HIDE DEF met
<1>16. ASSUME NEW p \in Runs, NEW q \in Runs PROVE Apart(p, q)' /\ Followed(p, q)'
  <2>0. Apart(p, q) /\ Followed(p, q) /\ Held(p) BY Zenon DEF Inv
  <2>1. CASE p # r /\ q # r BY <1>2, <1>6, <1>7, <1>14, <2>0, <2>1, Zenon DEF Apart, Followed
  <2>2. CASE p = r /\ q # r BY <1>1, <1>2, <1>6, <1>14, <1>15, <2>2, Zenon DEF Apart, Followed
  <2>3. CASE p # r /\ q = r
    <3>1. Apart(p, q)' BY <1>1, <1>2, <1>14, <1>15, <2>3, Zenon DEF Apart
    <3>2. Followed(p, q)'
      BY <1>1, <1>2, <1>4, <1>6, <1>7, <1>10, <2>0, <2>3, Zenon DEF Followed, Held
    <3> QED BY <3>1, <3>2, Zenon
  <2>4. CASE p = q BY <2>4, Zenon DEF Apart, Followed
  <2> QED BY <2>1, <2>2, <2>3, <2>4, Zenon
<1>17. ASSUME NEW q \in Runs PROVE Held(q)'
  <2>1. Held(q) BY Zenon DEF Inv
  <2>2. CASE q = r BY <1>6, <2>2, Zenon DEF Held
  <2>3. CASE q # r BY <1>2, <1>6, <1>7, <1>14, <2>1, <2>3, Zenon DEF Held
  <2> QED BY <2>2, <2>3, Zenon
<1>18. behind \subseteq behind' BY <1>2, Zenon
<1> QED BY <1>8, <1>9, <1>11, <1>12, <1>13, <1>16, <1>17, <1>18, RunKeeps, Zenon DEF SessFrame

\* The volume is pointed to what the session recorded.
LEMMA PointKeeps ==
  ASSUME Inv, NEW r \in Runs, NEW at \in {"committed", "dead"}, sess[r].pc = "recorded",
         sess' = [sess EXCEPT ![r].pc = at], UpdateLatestSnapshot(run[r].env, sess[r].snap),
         UNCHANGED <<snaps, bases, env, build, run, mixed, behind>>
  PROVE  Inv'
<1>0. Types /\ Lines /\ Asked(r) /\ Worked(r) BY Zenon DEF Inv
<1>1. PICK e \in Envs : e = run[r].env BY WorkedHas, Zenon
<1>2. PICK s \in Nat : s = sess[r].snap BY <1>0, Zenon DEF Types, SessType
<1>3. env[e] # None /\ run[r].pc \notin Unsent \cup {"update", "done"}
  BY <1>0, <1>1, WorkedHas, Zenon DEF Asked
<1>4. Live(r) /\ Active(r) /\ Tip(r) = s BY <1>2, Zenon DEF Live, Active, Tip
<1>5. Descends(s, e) /\ s \in DOMAIN snaps /\ s \in snaps[s].line
  <2>1. Descends(s, e) BY <1>0, <1>1, <1>4, Zenon DEF Worked
  <2> QED BY <1>0, <2>1, Zenon DEF Descends, Lines
<1>6. SessMoved(r, at) BY <1>0, SessTo, Zenon DEF SessPcs
<1>7. sess'[r].pc = at /\ sess'[r].snap = s BY <1>2, <1>6, Zenon DEF SessMoved
<1>8. /\ latest' \in [Volumes -> Nat \cup {None}] /\ latest'[e] = s
      /\ \A d \in Envs : d # e => latest'[d] = latest[d]
  BY <1>0, <1>1, <1>2, Zenon DEF Types, UpdateLatestSnapshot, Volumes
<1>9. SessFrame(r, e)
  <2>1. Grown /\ Lines' BY <1>0, SameGrown, Zenon DEF Lines
  <2>2. Types' BY <1>0, <1>6, <1>8, Zenon DEF Types, SessMoved
  <2>3. \A q \in Runs : q # r /\ run[q].pc \in Preparing => run[q].env # e
    BY <1>1, <1>3, PreparingAlone, Zenon DEF Unsent
  <2>4. RunFrame(r, e) BY <1>1, <1>6, <1>8, <2>1, <2>2, <2>3, Zenon DEF RunFrame, SessMoved
  <2> QED BY <1>1, <1>3, <1>7, <2>4, Zenon DEF SessFrame
<1>10. Asked(r)' /\ Owned(r)' BY <1>9, SessAsked, Zenon
<1>11. Worked(r)'
  <2>1. (Live(r) \/ sess[r].pc = "committed")' => Tip(r)' = Tip(r)
    BY <1>4, <1>7, Zenon DEF Live, Tip
  <2> QED BY <1>4, <1>7, <1>9, <2>1, WorkedKept, Zenon DEF SessFrame
<1>12. Rooted(e)'
  <2>1. Rooted(e) /\ run'[r].env = e /\ Grown BY <1>9, Zenon DEF Inv, SessFrame, RunFrame
  <2>2. Descends(s, e)' BY <1>3, <1>5, <2>1, TipKept, Zenon
  <2>3. Descends(env[e].snap, e)' BY <1>3, <2>1, TipKept, Zenon DEF Rooted
  <2> QED BY <1>3, <1>8, <2>1, <2>2, <2>3, Zenon DEF Rooted
<1>13. Current(e)'
  <2>1. run[r].pc \in {"call", "stopping"} \/ e \in behind BY <1>0, <1>1, Zenon DEF Worked
  <2> QED BY <1>1, <1>7, <2>1, Zenon DEF Current, Waiting
<1>14. \A q \in Runs : q # r => (Active(q)' <=> Active(q)) /\ (Waiting(q)' <=> Waiting(q)) /\ Tip(q)' = Tip(q)
                                /\ sess'[q] = sess[q]
  BY <1>6, Zenon DEF Active, Waiting, Live, Tip, SessMoved
<1>15. ~Active(r)' BY <1>7, Zenon DEF Active, Live
<1>16. ASSUME NEW p \in Runs, NEW q \in Runs PROVE Apart(p, q)' /\ Followed(p, q)'
  <2>0. Apart(p, q) /\ Followed(p, q) BY Zenon DEF Inv
  <2>1. CASE p # r /\ q # r BY <1>14, <2>0, <2>1, Zenon DEF Apart, Followed
  <2>2. CASE p = r /\ q # r BY <1>4, <1>14, <2>0, <2>2, Zenon DEF Apart, Followed
  <2>3. CASE q = r BY <1>15, <2>3, Zenon DEF Apart, Followed
  <2> QED BY <2>1, <2>2, <2>3, Zenon
<1>17. ASSUME NEW q \in Runs PROVE Held(q)'
  <2>1. CASE q = r BY <1>1, <1>5, <1>7, <1>8, <2>1, Zenon DEF Held
  <2>2. CASE q # r /\ run[q].env = e
    <3>1. Apart(q, r) /\ Followed(q, r) BY Zenon DEF Inv
    <3>2. ~Waiting(q) \/ q \in mixed BY <1>1, <1>4, <2>2, <3>1, Zenon DEF Apart
    <3>3. q \notin mixed /\ sess[q].pc = "committed" => sess[q].snap \in snaps[s].line
      BY <1>1, <1>4, <2>2, <3>1, Zenon DEF Followed
    <3> QED BY <1>8, <1>14, <2>2, <3>2, <3>3, Zenon DEF Held
  <2>3. CASE q # r /\ run[q].env # e
    <3>1. Held(q) BY Zenon DEF Inv
    <3>2. sess[q].pc = "committed" => latest'[run[q].env] = latest[run[q].env]
      BY <1>8, <2>3, WorkedHas, Zenon
    <3> QED BY <1>14, <2>3, <3>1, <3>2, Zenon DEF Held
  <2> QED BY <2>1, <2>2, <2>3, Zenon
<1> QED BY <1>9, <1>10, <1>11, <1>12, <1>13, <1>16, <1>17, RunKeeps, Zenon DEF SessFrame

\* The commit of a session is recorded: it descends from what the session
\* started from.
LEMMA NodeRecordsKeeps ==
  ASSUME Inv, NEW r \in Runs, NodeRecords(r)
  PROVE  Inv'
<1>0. Types /\ Lines /\ Asked(r) /\ Worked(r) BY Zenon DEF Inv
<1>1. PICK e \in Envs : e = run[r].env BY WorkedHas, Zenon DEF NodeRecords
<1>2. PICK n : n = Len(snaps) + 1 BY Zenon
<1>3. PICK s : s = sess[r].from BY Zenon
<1>4. /\ sess[r].pc \in {"open", "stop"} /\ CreateSnapshot(e, s, Parts)
      /\ sess' = [sess EXCEPT ![r].pc = "recorded", ![r].snap = n]
      /\ UNCHANGED <<latest, bases, env, build, run, mixed, behind>>
  BY <1>1, <1>2, <1>3, Zenon DEF NodeRecords, history
<1>5. env[e] # None /\ run[r].pc \notin Unsent \cup {"update", "done"}
  BY <1>0, <1>1, <1>4, WorkedHas, Zenon DEF Asked
<1>6. Live(r) /\ Active(r) /\ Tip(r) = s BY <1>3, <1>4, Zenon DEF Live, Active, Tip
<1>7. Descends(s, e) /\ s \in DOMAIN snaps
  <2>1. Descends(s, e) BY <1>0, <1>1, <1>6, Zenon DEF Worked
  <2> QED BY <2>1, Zenon DEF Descends
<1>8. Parts \in Nat /\ e \in Volumes /\ s \in DOMAIN snaps \cup {0}
  BY <1>7, ControlAssumption, Zenon DEF Volumes
<1>9. /\ Grown /\ Lines' /\ snaps' \in Seq(SnapType) /\ n \in DOMAIN snaps' /\ n \in Nat
      /\ snaps'[n] = [vol |-> e, line |-> {n} \cup Line(s), parts |-> Parts]
  BY <1>0, <1>2, <1>4, <1>8, SnapshotGrown, Zenon
<1>10. snaps'[n].vol = e /\ snaps'[n].line = {n} \cup snaps[s].line
  <2>1. s # 0 BY <1>0, <1>7 DEF Types
  <2> QED BY <1>9, <2>1 DEF Line
<1>11. /\ sess' \in [Runs -> SessType] /\ sess'[r].pc = "recorded" /\ sess'[r].snap = n
       /\ \A q \in Runs : q # r => sess'[q] = sess[q]
  <2>1. "recorded" \in SessPcs BY Zenon DEF SessPcs
  <2> QED BY <1>0, <1>4, <1>9, <2>1, Zenon DEF Types, SessType
<1>12. SessFrame(r, e)
  <2>1. Types' BY <1>0, <1>4, <1>9, <1>11, Zenon DEF Types
  <2>2. \A q \in Runs : q # r /\ run[q].pc \in Preparing => run[q].env # e
    BY <1>1, <1>5, PreparingAlone, Zenon DEF Unsent
  <2>3. RunFrame(r, e) BY <1>1, <1>4, <1>9, <1>11, <2>1, <2>2, Zenon DEF RunFrame
  <2> QED BY <1>1, <1>4, <1>5, <1>11, <2>3, Zenon DEF SessFrame
<1>13. Asked(r)' /\ Owned(r)' BY <1>12, SessAsked, Zenon
<1>14. Tip(r)' = n /\ Active(r)' BY <1>11, Zenon DEF Tip, Active, Live
<1>15. Descends(n, e)'
  <2>1. Descends(s, e)' BY <1>5, <1>7, <1>12, TipKept, Zenon DEF SessFrame, RunFrame
  <2>2. snaps'[s] = snaps[s] BY <1>7, <1>9, Zenon DEF Grown
  <2> QED BY <1>9, <1>10, <2>1, <2>2, Zenon DEF Descends
<1>16. Worked(r)' BY <1>0, <1>1, <1>4, <1>11, <1>14, <1>15, Zenon DEF Worked
<1>17. Rooted(e)' BY <1>4, <1>12, RowKept, Zenon DEF SessFrame
<1>18. Current(e)'
  <2>1. ~Ahead(r) BY <1>4, Zenon DEF Ahead, Waiting
  <2> QED BY <1>4, <1>12, <2>1, CurrentKept, Zenon DEF SessFrame
<1>19. \A q \in Runs : q # r => (Active(q)' <=> Active(q)) /\ (Waiting(q)' <=> Waiting(q)) /\ Tip(q)' = Tip(q)
                                /\ sess'[q] = sess[q]
  BY <1>4, <1>11, Zenon DEF Active, Waiting, Live, Tip
<1>20. ~Waiting(r)' BY <1>11, Zenon DEF Waiting
<1>21. ASSUME NEW q \in Runs, Active(q) PROVE snaps'[Tip(q)] = snaps[Tip(q)]
  <2>1. Worked(q) BY Zenon DEF Inv
  <2>2. Tip(q) \in DOMAIN snaps BY <1>21, <2>1, Zenon DEF Worked, Active, Descends
  <2> QED BY <1>9, <2>2, Zenon DEF Grown
<1>22. ASSUME NEW p \in Runs, NEW q \in Runs PROVE Apart(p, q)' /\ Followed(p, q)'
  <2>0. Apart(p, q) /\ Followed(p, q) BY Zenon DEF Inv
  <2>1. Apart(p, q)' BY <1>4, <1>6, <1>14, <1>19, <1>20, <2>0, Zenon DEF Apart
  <2>4. sess'[p].pc = "committed" => sess[p].pc = "committed" /\ sess'[p].snap = sess[p].snap
    BY <1>11, <1>19, Zenon
  <2>2. CASE q # r
    <3>1. Active(q)' => Active(q) /\ Tip(q)' = Tip(q) /\ snaps'[Tip(q)] = snaps[Tip(q)]
      BY <1>19, <1>21, <2>2, Zenon
    <3> QED BY <1>4, <2>0, <2>1, <2>4, <3>1, Zenon DEF Followed
  <2>3. CASE q = r
    <3>1. snaps'[Tip(q)'].line = {n} \cup snaps[Tip(q)].line BY <1>6, <1>10, <1>14, <2>3, Zenon
    <3> QED BY <1>4, <1>6, <2>0, <2>1, <2>3, <2>4, <3>1, Zenon DEF Followed
  <2> QED BY <2>1, <2>2, <2>3, Zenon
<1>23. ASSUME NEW q \in Runs PROVE Held(q)'
  <2>1. Held(q) BY Zenon DEF Inv
  <2>2. CASE q = r BY <1>11, <2>2, Zenon DEF Held
  <2>3. CASE q # r
    <3>1. SUFFICES ASSUME sess[q].pc = "committed" PROVE Held(q)'
      BY <1>19, <2>3, Zenon DEF Held
    <3>2. latest[run[q].env] \in DOMAIN snaps BY <3>1, WorkedHas, Zenon DEF Inv, Rooted, Descends
    <3>3. snaps'[latest[run[q].env]] = snaps[latest[run[q].env]] BY <1>9, <3>2, Zenon DEF Grown
    <3> QED BY <1>4, <1>19, <2>1, <2>3, <3>3, Zenon DEF Held
  <2> QED BY <2>2, <2>3, Zenon
<1> QED BY <1>4, <1>12, <1>13, <1>16, <1>17, <1>18, <1>22, <1>23, RunKeeps, Zenon DEF SessFrame

\* The pointer of a volume moves, or the step before fails.
LEMMA NodePointsKeeps ==
  ASSUME Inv, NEW r \in Runs, NodePoints(r) \/ NodeFails(r)
  PROVE  Inv'
<1>1. CASE NodePoints(r)
  <2>1. /\ sess[r].pc = "recorded" /\ sess' = [sess EXCEPT ![r].pc = "committed"]
        /\ UpdateLatestSnapshot(run[r].env, sess[r].snap)
        /\ UNCHANGED <<snaps, bases, env, build, run, mixed, behind>>
    BY <1>1, Zenon DEF NodePoints, history
  <2> QED BY <2>1, PointKeeps, Zenon
<1>2. CASE NodeFails(r) /\ UNCHANGED rows BY <1>2, FailsKeeps, Zenon
<1>3. CASE NodeFails(r) /\ ~UNCHANGED rows
  <2>1. /\ sess[r].pc = "recorded" /\ sess' = [sess EXCEPT ![r].pc = "dead"]
        /\ UpdateLatestSnapshot(run[r].env, sess[r].snap)
        /\ UNCHANGED <<snaps, bases, env, build, run, mixed, behind>>
    BY <1>3, Zenon DEF NodeFails, history
  <2> QED BY <2>1, PointKeeps, Zenon
<1> QED BY <1>1, <1>2, <1>3, Zenon

\* A node that crashes takes the sessions with it that it has not committed.
LEMMA NodeCrashKeeps ==
  ASSUME Inv, NEW n \in Nodes, NodeCrash(n)
  PROVE  Inv'
<1>0. Types /\ Lines BY Zenon DEF Inv
<1>1. UNCHANGED <<snaps, latest, bases, env, build, run, mixed, behind>>
  BY Zenon DEF NodeCrash, rows, history
<1>2. /\ sess' \in [Runs -> SessType]
      /\ \A r \in Runs :
           \/ sess'[r] = sess[r]
           \/ (Live(r) \/ sess[r].pc = "sent") /\ sess'[r].pc = "dead"
  <2>1. sess' = [r \in Runs |-> IF sess[r].node = n /\ (Live(r) \/ sess[r].pc = "sent")
                                THEN [sess[r] EXCEPT !.pc = "dead"] ELSE sess[r]]
    BY Zenon DEF NodeCrash
  <2>2. \A r \in Runs : sess[r] \in SessType BY <1>0, Zenon DEF Types
  <2>3. \A r \in Runs : [sess[r] EXCEPT !.pc = "dead"] \in SessType /\ [sess[r] EXCEPT !.pc = "dead"].pc = "dead"
    BY <2>2, Zenon DEF SessType, SessPcs
  <2> QED BY <2>1, <2>2, <2>3, Zenon
<1>3. \A r \in Runs : /\ Active(r)' => Active(r) /\ Tip(r)' = Tip(r)
                      /\ (Live(r) \/ sess[r].pc = "committed")' => sess'[r] = sess[r]
                      /\ Waiting(r)' <=> Waiting(r)
                      /\ sess'[r].pc = "committed" <=> sess[r].pc = "committed"
                      /\ sess[r].pc \in {"committed", "dead", "none"} => sess'[r] = sess[r]
                      /\ sess'[r].pc = "none" <=> sess[r].pc = "none"
  BY <1>1, <1>2, Zenon DEF Active, Tip, Live, Waiting
<1>4. Types' /\ Lines' BY <1>0, <1>1, <1>2, Zenon DEF Types, Lines
<1>5. (\A b \in Builds : Built(b))' /\ BaseImagesAreWhole'
  BY <1>1, Zenon DEF Inv, Built, BaseImagesAreWhole
<1>6. ASSUME NEW r \in Runs PROVE Asked(r)' /\ Owned(r)'
  <2>0. Asked(r) /\ Owned(r) BY Zenon DEF Inv
  <2>1. Asked(r)' BY <1>1, <1>3, <2>0, Zenon DEF Asked
  <2>2. Owned(r)' BY <1>1, <1>3, <2>0, Zenon DEF Owned
  <2> QED BY <2>1, <2>2, Zenon
<1>7. (\A e \in Envs : Rooted(e))' BY <1>1, ZenonT(60) DEF Inv, Rooted, Descends
<1>8. ASSUME NEW r \in Runs PROVE Worked(r)'
  <2>0. Worked(r) BY Zenon DEF Inv
  <2>1. CASE sess'[r] = sess[r] BY <1>1, <2>0, <2>1, Zenon DEF Worked, Live, Tip, Descends
  <2>2. CASE sess'[r].pc = "dead" BY <2>2, Zenon DEF Worked, Live
  <2> QED BY <1>2, <2>1, <2>2, Zenon
<1>9. ASSUME NEW p \in Runs, NEW q \in Runs PROVE Apart(p, q)' /\ Followed(p, q)'
  <2>0. Apart(p, q) /\ Followed(p, q) BY Zenon DEF Inv
  <2> QED BY <1>1, <1>3, <2>0, Zenon DEF Apart, Followed
<1>10. ASSUME NEW q \in Runs PROVE Held(q)'
  <2>0. Held(q) BY Zenon DEF Inv
  <2> QED BY <1>1, <1>3, <2>0, Zenon DEF Held
<1>11. ASSUME NEW e \in Envs PROVE Current(e)'
  <2>0. Current(e) BY Zenon DEF Inv
  <2> QED BY <1>1, <1>3, <2>0, Zenon DEF Current
<1> QED BY <1>4, <1>5, <1>6, <1>7, <1>8, <1>9, <1>10, <1>11, Zenon DEF Inv

-----------------------------------------------------------------------------
(* The theorems. *)

\* Nothing is there at first.
LEMMA InitInv ==
  ASSUME Init
  PROVE  Inv /\ up \subseteq Nodes
<1> USE ControlAssumption DEF Init
<1>1. Types
  BY DEF Types, Ended, NewSession, BuildType, BuildPcs, RunType, RunPcs, Unsent, SessType, SessPcs
<1>2. Lines /\ BaseImagesAreWhole BY DEF Lines, BaseImagesAreWhole, Ended
<1>3. \A b \in Builds : Built(b) BY Zenon DEF Built, Ended
<1>4. \A r \in Runs : Asked(r) BY DEF Asked, NewSession, Unsent
<1>5. \A r \in Runs : Owned(r) BY Zenon DEF Owned, Preparing, NewSession
<1>6. \A r \in Runs : sess[r].pc = "none" /\ run[r].pc = "none" BY Zenon DEF NewSession
<1>7. (\A e \in Envs : Rooted(e)) /\ (\A e \in Envs : Current(e)) BY Zenon DEF Rooted, Current
<1>8. \A r \in Runs : Worked(r) /\ Held(r) /\ ~Active(r)
  BY <1>6, Zenon DEF Worked, Live, Held, Active
<1>9. \A r, q \in Runs : Apart(r, q) /\ Followed(r, q) BY <1>8, Zenon DEF Apart, Followed
<1> QED BY <1>1, <1>2, <1>3, <1>4, <1>5, <1>7, <1>8, <1>9, Zenon DEF Inv

\* The invariant speaks of the rows, the builds, the runs and their sessions.
LEMMA StillKeeps ==
  ASSUME Inv, UNCHANGED <<snaps, latest, bases, env, build, run, sess, mixed, behind>>
  PROVE  Inv'
<1>1. (Types /\ Lines /\ BaseImagesAreWhole)' BY Zenon DEF Inv, Types, Lines, BaseImagesAreWhole
<1>2. (\A b \in Builds : Built(b))' BY Zenon DEF Inv, Built
<1>3. (\A r \in Runs : Asked(r))' BY Zenon DEF Inv, Asked
<1>4. (\A r \in Runs : Owned(r))' BY Zenon DEF Inv, Owned
<1>5. (\A e \in Envs : Rooted(e))' BY ZenonT(60) DEF Inv, Rooted, Descends
<1>6. (\A r \in Runs : Worked(r))' BY Zenon DEF Inv, Worked, Live, Tip, Descends
<1>7. (\A r, q \in Runs : Apart(r, q))' BY Zenon DEF Inv, Apart, Active, Live, Waiting
<1>8. (\A r, q \in Runs : Followed(r, q))' BY Zenon DEF Inv, Followed, Active, Live, Tip
<1>9. (\A r \in Runs : Held(r))' BY Zenon DEF Inv, Held, Waiting
<1>10. (\A e \in Envs : Current(e))' BY Zenon DEF Inv, Current, Waiting
<1> QED BY <1>1, <1>2, <1>3, <1>4, <1>5, <1>6, <1>7, <1>8, <1>9, <1>10, Zenon DEF Inv

\* Every step keeps the invariant.
LEMMA InvStep ==
  ASSUME Inv, up \subseteq Nodes, [Next]_vars
  PROVE  Inv' /\ (up \subseteq Nodes)'
<1>1. Inv'
  <2>1. ASSUME NEW b \in Builds, BuildStep(b) PROVE Inv'
    BY <2>1, BuildStepKeeps, RecordImportKeeps, CreateBaseImageKeeps, Zenon DEF BuildStep
  <2>2. ASSUME NEW r \in Runs, RunStep(r) PROVE Inv'
    BY <2>2, StartEnvKeeps, ResumeEnvKeeps, ResolveKeeps, CreateEnvVolumeKeeps, CreateEnvKeeps,
       SelectNodeKeeps, CallFailsKeeps, CallReturnsKeeps, TtyStopKeeps, UpdateEnvSnapshotKeeps,
       NodeStartKeeps, NodeRecordsKeeps, NodePointsKeeps, Zenon DEF RunStep
  <2>3. ASSUME UNCHANGED <<snaps, latest, bases, env, build, run, sess, mixed, behind>> PROVE Inv'
    BY <2>3, StillKeeps, Zenon
  <2>4. ASSUME NEW n \in Nodes, NodeRestart(n) PROVE Inv'
    BY <2>3, <2>4, Zenon DEF NodeRestart, rows, history
  <2>5. CASE UNCHANGED vars BY <2>3, <2>5, Zenon DEF vars
  <2> QED BY <2>1, <2>2, <2>4, <2>5, NodeCrashKeeps, BuildCrashKeeps, Zenon DEF Next
<1>2. up' = up \/ \E n \in Nodes : up' = up \cup {n} \/ up' = up \ {n}
  BY ZenonT(60) DEF Next, vars, BuildStep, RunStep, StartBuild, MaterializeImage,
     CreateBaseVolume, ImportPart, RecordImport,
     PointImport, CreateBaseImage, BuildCrash, StartEnv, ResumeEnv, ResolveBaseImage, CreateEnvVolume, CreateEnv,
     SelectNode, CallFails, CallReturns, TtyStop, UpdateEnvSnapshot, NodeStart, NodeFails, NodeRecords,
     NodePoints, NodeCrash, NodeRestart
<1> QED BY <1>1, <1>2, Zenon

\* The invariant always holds.
LEMMA InvAlways == Spec => [](Inv /\ up \subseteq Nodes)
BY InitInv, InvStep, PTL DEF Spec

\* What runBuild registers is a whole image: for any number of builds, parts and
\* crashes a row of base_images names a recorded snapshot with every part.
THEOREM WholeImages == Spec => []BaseImagesAreWhole
<1>1. Inv => BaseImagesAreWhole BY Zenon DEF Inv
<1> QED BY <1>1, InvAlways, PTL

\* resolveBaseImage gives a start that names an image what a build had registered
\* when it had answered, or something newer.
THEOREM FreshBases == Spec => []StartsUseFreshBase
<1>1. Inv => StartsUseFreshBase BY Zenon DEF Inv, Asked, StartsUseFreshBase
<1> QED BY <1>1, InvAlways, PTL

\* startEnv, resumeEnv and runEnvCommand: the row and the volume of an
\* environment descend from its base image through commits of the volume.
THEOREM EnvsDescend == Spec => []EnvDescendsFromBase
<1>1. Inv => EnvDescendsFromBase
  <2> SUFFICES ASSUME Inv, NEW e \in Envs, env[e] # None
               PROVE  \A s \in {env[e].snap, latest[e]} :
                        /\ bases[env[e].base].snap \in Line(s)
                        /\ \A i \in Line(s) \ Line(bases[env[e].base].snap) : snaps[i].vol = e
    BY Zenon DEF EnvDescendsFromBase
  <2>1. Rooted(e) /\ 0 \notin DOMAIN snaps BY DEF Inv, Types
  <2> QED BY <2>1, Zenon DEF Rooted, Descends, Line
<1> QED BY <1>1, InvAlways, PTL

\* A run that runEnvCommand acknowledged and that met no other stays part of
\* every later state of its volume.
THEOREM AckedRunsStay == Spec => []AckedRunsKept
<1>1. Inv => AckedRunsKept
  <2> SUFFICES ASSUME Inv, NEW r \in Runs, run[r].pc = "done", r \notin mixed
               PROVE  sess[r].snap \in Line(latest[run[r].env])
    BY Zenon DEF AckedRunsKept
  <2>1. Asked(r) /\ Held(r) /\ 0 \notin DOMAIN snaps BY DEF Inv, Types
  <2>2. sess[r].pc = "committed" BY <2>1, Zenon DEF Asked
  <2>3. latest[run[r].env] \in DOMAIN snaps BY <2>2, WorkedHas, Zenon DEF Inv, Rooted, Descends
  <2> QED BY <2>1, <2>2, <2>3, Zenon DEF Held, Line
<1> QED BY <1>1, InvAlways, PTL

\* The row of an environment (UpdateEnvSnapshot) names what its volume names when
\* nobody waits for a run, up to the causes the property lists.
THEOREM EnvPointersFollow == Spec => []EnvPointerCurrent
<1>1. Inv => EnvPointerCurrent BY DEF Inv, Current, Waiting, EnvPointerCurrent
<1> QED BY <1>1, InvAlways, PTL
=============================================================================

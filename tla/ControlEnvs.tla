----------------------------- MODULE ControlEnvs ------------------------------
(***************************************************************************)
(* Base image builds (cmd/base-image-service) and environments             *)
(* (cmd/control-service) over the shared metadata rows of pkg/storage and  *)
(* the node services that run and commit.                                  *)
(*                                                                         *)
(* A snapshot is abstracted to the volume it was committed from, the       *)
(* snapshots its content goes back to and, for an import, how much of the  *)
(* image it holds.  One image reference is built, possibly several times.  *)
(* Every call to the database or to another service may fail, before it    *)
(* has an effect or after it; a node goes on with a request whose caller   *)
(* has given up.                                                           *)
(***************************************************************************)
EXTENDS Naturals, Sequences

CONSTANTS Builds,      \* builds, each with a base volume of its own
          Envs,        \* environments, each with a volume of its own
          Runs,        \* startEnv and resumeEnv requests, with the tty/stop of a terminal
          Nodes,       \* nodes of the control service
          Parts,       \* chunks of the root file system
          MaxCrashes,  \* bound on crashes of services
          None

Volumes == Builds \cup Envs

ASSUME ControlAssumption ==
  /\ Parts \in Nat \ {0} /\ MaxCrashes \in Nat
  /\ Builds \cap Envs = {} /\ None \notin Nodes \cup Envs /\ None \notin [base : Nat, snap : Nat]

VARIABLES
  snaps,     \* rows of snapshots: [vol, line, parts], line: itself and those it was made from
  latest,    \* volumes.latest_snapshot_id, None when there is no row
  bases,     \* rows of base_images, oldest first: [build, snap]
  env,       \* rows of envs: [base, snap], or None
  build,     \* per build: [pc, parts, snap]
  run,       \* per run: [pc, env, tty, base, since, snap] in the control service
  sess,      \* per run: [pc, node, from, snap] of its session on a node
  up,        \* nodes that answer
  crashes,
  mixed,     \* runs that met another run of their environment (history)
  behind     \* environments with a failed or mixed run since the last clean one (history)

rows == <<snaps, latest, bases, env>>
history == <<mixed, behind>>
vars == <<snaps, latest, bases, env, build, run, sess, up, crashes, mixed, behind>>

\* A build that has not begun, or has ended, keeps nothing.
Ended(pc) == [pc |-> pc, parts |-> 0, snap |-> 0]
NewSession == [pc |-> "none", node |-> None, from |-> 0, snap |-> 0]

Init ==
  /\ snaps = <<>> /\ bases = <<>> /\ crashes = 0 /\ mixed = {} /\ behind = {}
  /\ latest = [v \in Volumes |-> None]
  /\ env = [e \in Envs |-> None]
  /\ build = [b \in Builds |-> Ended("none")]
  /\ run = [r \in Runs |-> [pc |-> "none", env |-> None, tty |-> FALSE, base |-> 0, since |-> 0, snap |-> 0]]
  /\ sess = [r \in Runs |-> NewSession]
  /\ up = Nodes

\* A call to the database: it fails without an effect, takes effect and
\* answers, or takes effect and its answer is lost.
Outcomes == {"failed", "ok", "lost"}

\* Snapshot s and those it was made from; 0 is no snapshot.
Line(s) == IF s = 0 THEN {} ELSE snaps[s].line

CreateSnapshot(v, from, parts) ==
  snaps' = Append(snaps, [vol |-> v, line |-> {Len(snaps) + 1} \cup Line(from), parts |-> parts])
UpdateLatestSnapshot(v, s) == latest' = [latest EXCEPT ![v] = s]

----------------------------------------------------------------------------
(* runBuild *)

BuildTo(b, from, to) ==
  /\ build[b].pc = from
  /\ build' = [build EXCEPT ![b] = IF to \in {"done", "error"} THEN Ended(to) ELSE [@ EXCEPT !.pc = to]]

\* buildImage, or startBuild and the goroutine of its job.
StartBuild(b) ==
  /\ BuildTo(b, "none", "materialize")
  /\ UNCHANGED <<rows, run, sess, up, crashes, history>>

\* materializeImage, which changes nothing shared; any of its commands fails.
MaterializeImage(b) ==
  /\ \E to \in {"volume", "error"} : BuildTo(b, "materialize", to)
  /\ UNCHANGED <<rows, run, sess, up, crashes, history>>

CreateBaseVolume(b) ==
  /\ \E o \in Outcomes :
       /\ BuildTo(b, "volume", IF o = "ok" THEN "import" ELSE "error")
       /\ latest' = IF o = "failed" THEN latest ELSE [latest EXCEPT ![b] = 0]
  /\ UNCHANGED <<snaps, bases, env, run, sess, up, crashes, history>>

\* (Mutant: a write that fails ends the import as the end of the file does.)
ImportPartAnyway(b) ==
  /\ build[b].pc = "import"
  /\ \/ build' = [build EXCEPT ![b] = [pc |-> IF @.parts + 1 = Parts THEN "record" ELSE "import",
                                         parts |-> @.parts + 1, snap |-> 0]]
     \/ BuildTo(b, "import", "record")
  /\ UNCHANGED <<rows, run, sess, up, crashes, history>>

\* importFile: one chunk is read and written; an error ends the import, and
\* the session is stopped.
ImportPart(b) ==
  /\ build[b].pc = "import"
  /\ \/ build' = [build EXCEPT ![b] = [pc |-> IF @.parts + 1 = Parts THEN "record" ELSE "import",
                                         parts |-> @.parts + 1, snap |-> 0]]
     \/ BuildTo(b, "import", "error")
  /\ UNCHANGED <<rows, run, sess, up, crashes, history>>

\* The commit of the import: the snapshot row, then the volume's pointer.
RecordImport(b) ==
  /\ build[b].pc = "record"
  /\ \E o \in Outcomes :
       /\ build' = [build EXCEPT ![b] = IF o = "ok" THEN [pc |-> "point", parts |-> @.parts, snap |-> Len(snaps) + 1]
                                        ELSE Ended("error")]
       /\ IF o = "failed" THEN UNCHANGED snaps ELSE CreateSnapshot(b, 0, build[b].parts)
  /\ UNCHANGED <<latest, bases, env, run, sess, up, crashes, history>>

PointImport(b) ==
  /\ \E o \in Outcomes :
       /\ BuildTo(b, "point", IF o = "ok" THEN "register" ELSE "error")
       /\ IF o = "failed" THEN UNCHANGED latest ELSE UpdateLatestSnapshot(b, build[b].snap)
  /\ UNCHANGED <<snaps, bases, env, run, sess, up, crashes, history>>

CreateBaseImage(b) ==
  /\ \E o \in Outcomes :
       /\ BuildTo(b, "register", IF o = "ok" THEN "done" ELSE "error")
       /\ bases' = IF o = "failed" THEN bases ELSE Append(bases, [build |-> b, snap |-> build[b].snap])
  /\ UNCHANGED <<snaps, latest, env, run, sess, up, crashes, history>>

\* The base image service dies, and its jobs with it.
BuildCrash ==
  /\ crashes < MaxCrashes /\ crashes' = crashes + 1
  /\ build' = [b \in Builds |-> IF build[b].pc \in {"none", "done", "error", "lost"} THEN build[b]
                                ELSE Ended("lost")]
  /\ build' # build
  /\ UNCHANGED <<rows, run, sess, up, history>>

----------------------------------------------------------------------------
(* startEnv, resumeEnv and runEnvCommand *)

RunTo(r, from, to) == run[r].pc = from /\ run' = [run EXCEPT ![r].pc = to]

\* What GetBaseImageByRef would find of the builds that have answered.
Finished == {i \in DOMAIN bases : build[bases[i].build].pc = "done"}

\* since: what a client that names the image may count on.
StartEnv(r, e, tty) ==
  /\ run[r].pc = "none" /\ \A q \in Runs : run[q].env # e
  /\ \E since \in Finished \cup {0} :
       /\ \A i \in Finished : i <= since
       /\ run' = [run EXCEPT ![r] = [pc |-> "resolve", env |-> e, tty |-> tty, base |-> 0, since |-> since, snap |-> 0]]
  /\ UNCHANGED <<rows, build, sess, up, crashes, history>>

\* (Mutant: ORDER BY created_at without DESC.)
ResolveOldest(r) ==
  /\ run[r].pc = "resolve" /\ bases # <<>>
  /\ run' = [run EXCEPT ![r].pc = "volume", ![r].base = 1]
  /\ UNCHANGED <<rows, build, sess, up, crashes, history>>

\* resolveBaseImage: the newest base image of the reference, the one named by
\* its id, or an error.
ResolveBaseImage(r) ==
  /\ run[r].pc = "resolve"
  /\ \/ bases # <<>> /\ run' = [run EXCEPT ![r].pc = "volume", ![r].base = Len(bases)]
     \/ \E i \in DOMAIN bases : run' = [run EXCEPT ![r].pc = "volume", ![r].base = i, ![r].since = 0]
     \/ RunTo(r, "resolve", "error")
  /\ UNCHANGED <<rows, build, sess, up, crashes, history>>

\* (Mutant: the new volume is not based on the image's snapshot.)
CreateEnvVolumeEmpty(r) ==
  /\ RunTo(r, "volume", "env") /\ latest' = [latest EXCEPT ![run[r].env] = 0]
  /\ UNCHANGED <<snaps, bases, env, build, sess, up, crashes, history>>

CreateEnvVolume(r) ==
  /\ \E o \in Outcomes :
       /\ RunTo(r, "volume", IF o = "ok" THEN "env" ELSE "error")
       /\ IF o = "failed" THEN UNCHANGED latest
          ELSE UpdateLatestSnapshot(run[r].env, bases[run[r].base].snap)
  /\ UNCHANGED <<snaps, bases, env, build, sess, up, crashes, history>>

CreateEnv(r) ==
  /\ \E o \in Outcomes :
       /\ RunTo(r, "env", IF o = "ok" THEN "select" ELSE "error")
       /\ env' = IF o = "failed" THEN env
                 ELSE [env EXCEPT ![run[r].env] = [base |-> run[r].base, snap |-> bases[run[r].base].snap]]
  /\ UNCHANGED <<snaps, latest, bases, build, sess, up, crashes, history>>

ResumeEnv(r, e, tty) ==
  /\ run[r].pc = "none" /\ env[e] # None
  /\ run' = [run EXCEPT ![r].pc = "select", ![r].env = e, ![r].tty = tty]
  /\ UNCHANGED <<rows, build, sess, up, crashes, history>>

\* selectNode probes the forced node, or the last one and then all; which of
\* the nodes that answer is taken is left open, none is an error.  Then the
\* request is sent, and the node may be gone by then.
SelectNode(r) ==
  /\ \/ \E n \in up :
          /\ RunTo(r, "select", "call")
          /\ sess' = [sess EXCEPT ![r] = [pc |-> "sent", node |-> n, from |-> 0, snap |-> 0]]
     \/ RunTo(r, "select", "error") /\ UNCHANGED sess
  /\ UNCHANGED <<rows, build, up, crashes, history>>

\* The call fails or times out; what was sent may still arrive, and what the
\* node has begun goes on.  A stop that did not arrive can be sent again.
CallFails(r) ==
  /\ \/ run[r].pc \in {"call", "stopping"} /\ RunTo(r, run[r].pc, "error") /\ UNCHANGED sess
     \/ sess[r].pc = "sent" /\ RunTo(r, "call", "error") /\ sess' = [sess EXCEPT ![r].pc = "dead"]
     \/ sess[r].pc = "stop" /\ RunTo(r, "stopping", "terminal") /\ sess' = [sess EXCEPT ![r].pc = "terminal"]
  /\ behind' = behind \cup {run[r].env}
  /\ UNCHANGED <<rows, build, up, crashes, mixed>>

\* The node answers: with the committed snapshot, with a terminal, or (after
\* the stop of a terminal) with its snapshot.
CallReturns(r) ==
  /\ \/ sess[r].pc = "committed" /\ run[r].pc \in {"call", "stopping"}
        /\ run' = [run EXCEPT ![r].pc = "update", ![r].snap = sess[r].snap]
     \/ sess[r].pc = "terminal" /\ RunTo(r, "call", "terminal")
  /\ UNCHANGED <<rows, build, sess, up, crashes, history>>

\* tty/stop for the terminal.
TtyStop(r) ==
  /\ RunTo(r, "terminal", "stopping") /\ sess[r].pc \in {"terminal", "dead"}
  /\ sess' = [sess EXCEPT ![r].pc = IF @ = "terminal" THEN "stop" ELSE @]
  /\ UNCHANGED <<rows, build, up, crashes, history>>

\* (Mutant: the row is updated only when the run was not a terminal.)
UpdateEnvSnapshotRun(r) ==
  /\ RunTo(r, "update", "done")
  /\ env' = [env EXCEPT ![run[r].env].snap = IF run[r].tty THEN @ ELSE run[r].snap]
  /\ behind' = IF r \in mixed THEN behind \cup {run[r].env} ELSE behind \ {run[r].env}
  /\ UNCHANGED <<snaps, latest, bases, build, sess, up, crashes, mixed>>

UpdateEnvSnapshot(r) ==
  /\ \E o \in Outcomes :
       /\ RunTo(r, "update", IF o = "ok" THEN "done" ELSE "error")
       /\ env' = IF o = "failed" THEN env ELSE [env EXCEPT ![run[r].env].snap = run[r].snap]
       /\ behind' = IF o = "ok" /\ r \notin mixed THEN behind \ {run[r].env}
                    ELSE behind \cup {run[r].env}
  /\ UNCHANGED <<snaps, latest, bases, build, sess, up, crashes, mixed>>

----------------------------------------------------------------------------
(* The session on the node *)

Live(q) == sess[q].pc \in {"open", "terminal", "stop", "recorded"}
\* A run whose commit or whose answer may still come.  A terminal whose start
\* was answered with an error runs on, but nobody knows it to stop it.
Pending(q) ==
  \/ Live(q) /\ ~(sess[q].pc = "terminal" /\ run[q].pc = "error")
  \/ run[q].pc \in {"stopping", "update"} \/ (run[q].pc = "call" /\ sess[q].pc = "committed")

\* (Mutant: a session starts from the snapshot of the base image.)
NodeStartFromBase(r) ==
  LET e == run[r].env
      met == {q \in Runs \ {r} : run[q].env = e /\ Pending(q)}
  IN /\ sess[r].pc = "sent" /\ sess[r].node \in up
     /\ sess' = [sess EXCEPT ![r].pc = IF run[r].tty THEN "terminal" ELSE "open", ![r].from = bases[env[e].base].snap]
     /\ mixed' = IF met = {} THEN mixed ELSE mixed \cup met \cup {r}
     /\ behind' = IF run[r].pc = "call" THEN behind ELSE behind \cup {e}
     /\ UNCHANGED <<snaps, latest, bases, env, build, run, up, crashes>>

\* The session of a node starts from the volume's latest snapshot.
NodeStart(r) ==
  LET e == run[r].env
      met == {q \in Runs \ {r} : run[q].env = e /\ Pending(q)}
  IN /\ sess[r].pc = "sent" /\ sess[r].node \in up
     /\ sess' = [sess EXCEPT ![r].pc = IF run[r].tty THEN "terminal" ELSE "open", ![r].from = latest[e]]
     /\ mixed' = IF met = {} THEN mixed ELSE mixed \cup met \cup {r}
     /\ behind' = IF run[r].pc = "call" THEN behind ELSE behind \cup {e}
     /\ UNCHANGED <<snaps, latest, bases, env, build, run, up, crashes>>

\* The run, the stop of a terminal or a step of its commit fails on the node;
\* the effect of the failed step may be there.
NodeFails(r) ==
  /\ Live(r) /\ sess' = [sess EXCEPT ![r].pc = "dead"]
  /\ \/ UNCHANGED rows
     \/ sess[r].pc = "recorded" /\ UpdateLatestSnapshot(run[r].env, sess[r].snap) /\ UNCHANGED <<snaps, bases, env>>
  /\ UNCHANGED <<build, run, up, crashes, history>>

NodeRecords(r) ==
  /\ sess[r].pc \in {"open", "stop"}
  /\ CreateSnapshot(run[r].env, sess[r].from, Parts)
  /\ sess' = [sess EXCEPT ![r].pc = "recorded", ![r].snap = Len(snaps) + 1]
  /\ UNCHANGED <<latest, bases, env, build, run, up, crashes, history>>

NodePoints(r) ==
  /\ sess[r].pc = "recorded" /\ sess' = [sess EXCEPT ![r].pc = "committed"]
  /\ UpdateLatestSnapshot(run[r].env, sess[r].snap)
  /\ UNCHANGED <<snaps, bases, env, build, run, up, crashes, history>>

NodeCrash(n) ==
  /\ crashes < MaxCrashes /\ crashes' = crashes + 1 /\ n \in up /\ up' = up \ {n}
  /\ sess' = [r \in Runs |-> IF sess[r].node = n /\ (Live(r) \/ sess[r].pc = "sent")
                             THEN [sess[r] EXCEPT !.pc = "dead"] ELSE sess[r]]
  /\ UNCHANGED <<rows, build, run, history>>

NodeRestart(n) ==
  /\ n \in Nodes \ up /\ up' = up \cup {n}
  /\ UNCHANGED <<rows, build, run, sess, crashes, history>>

----------------------------------------------------------------------------

BuildStep(b) ==
  \/ StartBuild(b) \/ MaterializeImage(b) \/ CreateBaseVolume(b) \/ ImportPart(b)
  \/ RecordImport(b) \/ PointImport(b) \/ CreateBaseImage(b)

RunStep(r) ==
  \/ \E e \in Envs, tty \in BOOLEAN : StartEnv(r, e, tty) \/ ResumeEnv(r, e, tty)
  \/ ResolveBaseImage(r) \/ CreateEnvVolume(r) \/ CreateEnv(r) \/ SelectNode(r)
  \/ CallFails(r) \/ CallReturns(r) \/ TtyStop(r) \/ UpdateEnvSnapshot(r)
  \/ NodeStart(r) \/ NodeFails(r) \/ NodeRecords(r) \/ NodePoints(r)

Next ==
  \/ \E b \in Builds : BuildStep(b)
  \/ \E r \in Runs : RunStep(r)
  \/ \E n \in Nodes : NodeCrash(n) \/ NodeRestart(n)
  \/ BuildCrash

Spec == Init /\ [][Next]_vars

----------------------------------------------------------------------------
(* Properties *)

\* What a build registers is the whole image: a base image row names a recorded
\* snapshot of its build's own volume that holds every part, whatever write,
\* commit step or service failed in this or an earlier build; and a build that
\* answered "done" is registered.
BaseImagesAreWhole ==
  /\ \A i \in DOMAIN bases :
       /\ bases[i].snap \in DOMAIN snaps
       /\ snaps[bases[i].snap].vol = bases[i].build /\ snaps[bases[i].snap].parts = Parts
  /\ \A b \in Builds : build[b].pc = "done" => \E i \in DOMAIN bases : bases[i].build = b

\* A start that names an image gets what a build that had answered by then has
\* registered, or something newer (GetBaseImageByRef), whatever failed since.
StartsUseFreshBase ==
  \A r \in Runs : run[r].base # 0 => run[r].base >= run[r].since

\* Both pointers of an environment, its own and that of its volume, descend
\* from the base image its row names, through commits of its own volume only.
EnvDescendsFromBase ==
  \A e \in Envs : env[e] # None =>
    LET b == bases[env[e].base].snap IN
    \A s \in {env[e].snap, latest[e]} :
      b \in Line(s) /\ \A i \in Line(s) \ Line(b) : snaps[i].vol = e

\* What runEnvCommand acknowledged stays: the snapshot of a run is part of all
\* later states of the volume, unless its session met another one of the
\* environment; that includes one whose caller had already been told of an error.
AckedRunsKept ==
  \A r \in Runs : run[r].pc = "done" /\ r \notin mixed =>
    sess[r].snap \in Line(latest[run[r].env])

\* When nobody waits for a run of an environment its row and its volume name the
\* same snapshot, unless since the last undisturbed run a call or an update
\* failed, runs met, or a node took up a request whose caller had given up; the
\* next undisturbed run repairs the row.
EnvPointerCurrent ==
  \A e \in Envs :
    env[e] = None \/ e \in behind \/ env[e].snap = latest[e]
    \/ \E r \in Runs : run[r].env = e /\ run[r].pc \in {"call", "stopping", "update"}

=============================================================================

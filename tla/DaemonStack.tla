----------------------------- MODULE DaemonStack -----------------------------
(***************************************************************************)
(* The scripts that put up temporary daemons and containers, work with     *)
(* them and take them down in finally blocks:                              *)
(*   "dockerNbd"     measure-jetbrains-docker-nbd: dockerd and containerd  *)
(*                   on a file system on an NBD device;                    *)
(*   "dockerLayers"  measure-docker-layer-resume: two dockerd nodes;       *)
(*   "stargzLayers"  measure-stargz-layer-resume: containerd with stargz;  *)
(*   "stargzIops"    measure-firecracker-stargz-iops: an optimizer;        *)
(*   "coldImage"     measure-cold-image-startup: registry, proxy, optimizer, *)
(*                   the compose stack and a node, one after the other;    *)
(*   "sysboxFirst", "sysboxIops"  the sysbox scripts: an optimizer per     *)
(*                   command and a container with daemons per measurement; *)
(*   "overlaybdReal" measure-overlaybd-jetbrains-workspace-real.           *)
(* Daemons may be slow, crash, or resist even SIGKILL (a process stuck in  *)
(* the kernel); every command may fail.                                    *)
(*                                                                         *)
(* A script is a sequence of blocks, each a try with its finally; the last *)
(* one stands for the try around them all.                                 *)
(***************************************************************************)
EXTENDS Naturals, Sequences, ScriptRun

CONSTANTS StackScripts, \* the scripts to explore
          Layout,       \* the blocks of each, by KEEP_REGISTRY and what is there
          MaxCrashes    \* daemons that crash by themselves (bound)

VARIABLES
  keep,       \* KEEP_REGISTRY, fixed
  kept,       \* what an earlier run left: "none", "registry" or its "images"
  block, at,  \* the block, and the position in its try, then in its finally
  up,         \* each thing the script puts up
  container,  \* nodes on which a measured container runs
  measured,   \* measurements: "joined" or "timeout"
  written,    \* the results
  raised,     \* an exception is on its way
  stuck,      \* daemons whose stop raised (history)
  troubles,   \* what else went wrong (history)
  crashes

fixed == <<script, keep, kept>>
stackVars == <<script, keep, kept, pc, block, at, up, container, measured, written,
               raised, stuck, troubles, crashes>>

Guests == {"guestStargz", "guestContainerd"}   \* daemons inside a sysbox node
Daemons == {"nbdServer", "containerd", "dockerd", "containerd2", "dockerd2",
            "stargz", "ctr"} \cup Guests
Containers == {"registry", "toxiproxy", "stack", "node"}   \* docker run -d
Things == Daemons \cup Containers \cup {"device", "mount", "overlaybdMount"}

Running(x) == up[x] \in {"starting", "ready"}

\* What thing x stands on in script s.
NeedsIn(s, x) ==
  CASE s = "dockerNbd" /\ x = "device" -> {"nbdServer"}
    [] s = "dockerNbd" /\ x = "mount" -> {"device"}
    [] s = "dockerNbd" /\ x = "containerd" -> {"mount"}
    [] x = "dockerd" -> {"containerd"}
    [] x = "dockerd2" -> {"containerd2"}
    [] s \in {"stargzLayers", "coldImage"} /\ x = "containerd2" -> {"stargz"}
    [] x \in Guests -> {"node"}
    [] OTHER -> {}

Needs(x) == NeedsIn(script, x)

Popen(x) == [do |-> "popen", what |-> x]
Command(x) == [do |-> "command", what |-> x]
Exec(x) == [do |-> "exec", what |-> x]
Work == [do |-> "work", what |-> "none"]
MeasureOn(x) == [do |-> "measure", what |-> x]
Online == [do |-> "online", what |-> "node"]
CleanMounts == [do |-> "clean", what |-> "overlaybdMount"]
Workspace == [do |-> "workspace", what |-> "ctr"]
AwaitCleanMounts == [do |-> "awaitClean", what |-> "overlaybdMount"]

Block(steps, takeDown) == [try |-> steps, finally |-> takeDown]

----------------------------------------------------------------------------
(* The try blocks *)

\* main of measure-jetbrains-docker-nbd: image file, server, nbd-client, mkfs
\* and mount, the daemons, docker save | load, the measurement.
DockerNbdPlan ==
  <<Work, Popen("nbdServer"), Command("device"), Work, Command("mount"),
    Popen("containerd"), Popen("dockerd"), Work, MeasureOn("dockerd")>>

\* NodeDaemon.start.
NodeDaemonStart(c, d) == <<Popen(c), Popen(d)>>

\* main of measure-docker-layer-resume: registry, two nodes, the base image
\* into both, a start on each, then commit, push and the proof on node-2.
DockerLayersPlan ==
  <<Command("registry")>>
  \o NodeDaemonStart("containerd", "dockerd") \o NodeDaemonStart("containerd2", "dockerd2")
  \o <<Work, MeasureOn("dockerd"), MeasureOn("dockerd2"), Work>>

\* ContainerdNode.start of the node with the stargz snapshotter.
StargzNodeStart == <<Popen("stargz"), Popen("containerd2")>>

\* main of measure-stargz-layer-resume: registry, optimizer, node-2; then the
\* images are seeded, optimized, pulled and run.
StargzLayersPlan ==
  <<Command("registry"), Popen("containerd")>> \o StargzNodeStart \o <<Work, Work>>

\* ensure_registry: docker run unless it is running, then the wait.
EnsureRegistry == <<Command("registry")>>

\* ContainerdNode.start of measure-firecracker-stargz-iops.
OptimizerStart == <<Popen("containerd")>>

\* main of measure-firecracker-stargz-iops: the registry of an earlier run or a
\* new one, the optimizer; images, docker and the guests are work to it.
StargzIopsPlan == EnsureRegistry \o OptimizerStart \o <<Work, Work>>

\* setup_registry_toxiproxy, then the test image.
ColdRegistryPlan == <<Command("registry"), Command("toxiproxy"), Work>>

\* restart_stack and measure_orca.
ColdStackPlan == <<Command("stack"), Work>>

\* ContainerdNode.start of the cold script, with or without a snapshotter.
ColdNodeStart(c, snapshotter) ==
  [i \in DOMAIN snapshotter |-> Popen(snapshotter[i])] \o <<Popen(c)>>

\* measure_lazy_no_vm: a node of its own, rpull and run.
ColdLazyPlan == ColdNodeStart("containerd2", <<"stargz">>) \o <<Work>>

\* start_node, outside the try of measure_scenario.
StartNode == <<Command("node")>>

\* wait_for_online: the two daemons go to the background inside the node, then
\* it waits for both sockets; pull and run follow.
ScenarioPlan == <<Exec("guestStargz"), Exec("guestContainerd"), Online, Work, Work>>

\* main of measure-overlaybd-jetbrains-workspace-real without SKIP_RUN: no
\* overlaybd mount may be active before the conversion, after it and before the run.
OverlaybdPlan == <<CleanMounts, Work, CleanMounts, Work, CleanMounts>>

----------------------------------------------------------------------------
(* The finally blocks: what they take down, in order *)

DockerNbdFinally == <<"dockerd", "containerd", "mount", "device", "nbdServer">>

\* NodeDaemon.stop: dockerd, then its containerd.
NodeDaemonStop(c, d) == <<d, c>>

DockerLayersFinally ==
  NodeDaemonStop("containerd", "dockerd") \o NodeDaemonStop("containerd2", "dockerd2")
  \o <<"registry">>

\* ContainerdNode.stop: containerd, then the snapshotter.
ContainerdNodeStop == <<"containerd2", "stargz">>

StargzLayersFinally == ContainerdNodeStop \o <<"containerd", "registry">>

\* The finally blocks that heed KEEP_REGISTRY.
StargzIopsFinally(keeps) == <<"containerd">> \o (IF keeps THEN <<>> ELSE <<"registry">>)
ColdFinally(keeps) == IF keeps THEN <<>> ELSE <<"registry", "toxiproxy">>

\* host_containerd_ctr: a containerd for one command.
HostContainerdCtr == Block(<<Popen("containerd"), Work>>, <<"containerd">>)

\* optimize_and_push of the sysbox scripts: pull, optimize and push, unless the
\* registry has the image.
OptimizeAndPush(there) ==
  IF there = "images" THEN <<>> ELSE <<HostContainerdCtr, HostContainerdCtr, HostContainerdCtr>>

\* ContainerdNode.stop of the cold script.
ColdNodeStop(c, snapshotter) == <<c>> \o snapshotter

\* optimize_lazy_image: one containerd for the three commands.
OptimizeLazyImage(there) ==
  IF there = "images" THEN <<>> ELSE
  <<Block(ColdNodeStart("containerd", <<>>) \o <<Work>>, ColdNodeStop("containerd", <<>>))>>

\* main of the cold script; the marker of the lazy run is looked for last.
ColdBlocks(keeps, there) ==
  <<Block(ColdRegistryPlan, <<>>)>> \o OptimizeLazyImage(there)
  \o <<Block(ColdStackPlan, <<>>), Block(ColdLazyPlan, ColdNodeStop("containerd2", <<"stargz">>)),
       Block(<<Work>>, ColdFinally(keeps))>>

\* measure_scenario: docker rm -f of the node.
MeasureScenario == <<Block(StartNode, <<>>), Block(ScenarioPlan, <<"node">>)>>

\* main of the first-output scenarios: registry and image, base image, three
\* nodes one after the other, the results.
SysboxFirstBlocks(there) ==
  <<Block(EnsureRegistry \o <<Work>>, <<>>)>> \o OptimizeAndPush(there)
  \o <<Block(<<Work>>, <<>>)>> \o OptimizeAndPush(there)
  \o MeasureScenario \o MeasureScenario \o MeasureScenario \o <<Block(<<>>, <<>>)>>

\* sysbox_operation is laid out like measure_scenario.
SysboxOperation == <<Block(StartNode, <<>>), Block(ScenarioPlan, <<"node">>)>>

\* main of measure-sysbox-stargz-iops without PARTIAL_BASE_CACHE.
SysboxIopsBlocks(there) ==
  <<Block(EnsureRegistry \o <<Work>>, <<>>)>> \o OptimizeAndPush(there)
  \o SysboxOperation \o SysboxOperation \o SysboxOperation \o <<Block(<<>>, <<>>)>>

\* run_workspace, then wait_for_clean_mounts.
OverlaybdBlocks ==
  <<Block(OverlaybdPlan, <<>>), Block(<<Workspace>>, <<"ctr">>),
    Block(<<AwaitCleanMounts>>, <<>>)>>

\* The scripts as they are: a value for Layout.
Scripted(s, keeps, there) ==
  CASE s = "dockerNbd" -> <<Block(DockerNbdPlan, DockerNbdFinally)>>
    [] s = "dockerLayers" -> <<Block(DockerLayersPlan, DockerLayersFinally)>>
    [] s = "stargzLayers" -> <<Block(StargzLayersPlan, StargzLayersFinally)>>
    [] s = "stargzIops" -> <<Block(StargzIopsPlan, StargzIopsFinally(keeps))>>
    [] s = "coldImage" -> ColdBlocks(keeps, there)
    [] s = "sysboxFirst" -> SysboxFirstBlocks(there)
    [] s = "sysboxIops" -> SysboxIopsBlocks(there)
    [] s = "overlaybdReal" -> OverlaybdBlocks

Found == {"none", "registry", "images"}   \* what an earlier run may have left
Keeps == {"stargzIops", "coldImage"}                     \* KEEP_REGISTRY
Reuses == Keeps \cup {"sysboxFirst", "sysboxIops"}       \* ensure_registry

\* What is running already.
Earlier(s, there) ==
  {x \in {"registry", "toxiproxy"} : there # "none" /\ (x = "toxiproxy" => s = "coldImage")}

Layouts ==
  [s \in StackScripts |-> [keeps \in BOOLEAN |-> [there \in Found |-> Scripted(s, keeps, there)]]]

----------------------------------------------------------------------------
(* The discipline of a layout, which makes the properties below hold *)

Names(list, x) == \E i \in DOMAIN list : list[i] = x

Steps == {Popen(x) : x \in Daemons \ Guests} \cup {MeasureOn(x) : x \in Daemons}
         \cup {Command(x) : x \in Containers \cup {"device", "mount"}}
         \cup {Exec(x) : x \in Guests}
         \cup {Work, Online, CleanMounts, Workspace, AwaitCleanMounts}

Stoppable == (Daemons \ Guests) \cup Containers \cup {"device", "mount"}

\* A daemon is started behind what it stands on, in the same try.
Upwards(s, b) ==
  \A i \in DOMAIN b.try : b.try[i].do = "popen" =>
     \A y \in NeedsIn(s, b.try[i].what) :
        \E j \in DOMAIN b.try : /\ j < i /\ b.try[j].what = y
                               /\ b.try[j].do \in {"popen", "command"}

\* A finally block takes a thing down behind all that the script puts on it;
\* a node takes its guests along, and no daemon is stopped before it.
Downwards(s, blocks, b) ==
  \A i \in DOMAIN b.finally :
     /\ \A x \in Things \ Guests :
           (/\ b.finally[i] \in NeedsIn(s, x)
            /\ \E c \in DOMAIN blocks : \E n \in DOMAIN blocks[c].try : blocks[c].try[n].what = x)
           => \E j \in DOMAIN b.finally : j < i /\ b.finally[j] = x
     /\ b.finally[i] = "node" => \A j \in DOMAIN b.finally : j < i => b.finally[j] \notin Daemons

\* The scripts that leave the registry, and with it its proxy, to the next run.
LeavesRegistry(s, keeps) == s \in Reuses /\ (s \in Keeps => keeps)

\* A thing is known to the finally block of its try or to the outer one, or is
\* meant to stay; a node is the last thing its block makes and belongs to the
\* finally block of the next one.
Answered(s, keeps, blocks, n, x) ==
  \/ Names(blocks[n].finally, x) \/ Names(blocks[Len(blocks)].finally, x) \/ x = "stack"
  \/ x \in {"registry", "toxiproxy"} /\ LeavesRegistry(s, keeps)

HandedOn(blocks, n, i) ==
  /\ i = Len(blocks[n].try) /\ blocks[n].finally = <<>>
  /\ n < Len(blocks) /\ Names(blocks[n + 1].finally, "node")

Accounted(s, keeps, blocks, n) ==
  LET b == blocks[n]
  IN \A i \in DOMAIN b.try :
       /\ b.try[i].do = "popen" => Names(b.finally, b.try[i].what)
       /\ b.try[i].do = "exec" => Names(b.finally, "node")
       /\ b.try[i].do = "command" =>
             \/ Answered(s, keeps, blocks, n, b.try[i].what)
             \/ b.try[i].what = "node" /\ HandedOn(blocks, n, i)
       /\ b.try[i].do = "workspace" =>
             Names(b.finally, "ctr") /\ s = "overlaybdReal" /\ n < Len(blocks)

\* The overlaybd script looks for mounts last, and there only.
LooksLast(blocks) ==
  /\ Len(blocks) > 1 /\ blocks[Len(blocks)].try # <<>>
  /\ \A i \in DOMAIN blocks[Len(blocks)].try : blocks[Len(blocks)].try[i].do = "awaitClean"

\* Script s keeps the rules, with KEEP_REGISTRY as given and what it finds there.
Disciplined(s, keeps, there) ==
  LET blocks == Layout[s][keeps][there]
  IN /\ blocks \in Seq([try : Seq(Steps), finally : Seq(Stoppable)]) /\ blocks # <<>>
     /\ \A n \in DOMAIN blocks : /\ Upwards(s, blocks[n]) /\ Downwards(s, blocks, blocks[n])
                                 /\ Accounted(s, keeps, blocks, n)
     /\ \A x \in Earlier(s, there) : Answered(s, keeps, blocks, 1, x) \/ s \notin Reuses
     /\ s = "overlaybdReal" => LooksLast(blocks)

Discipline ==
  \A s \in StackScripts, keeps \in BOOLEAN, there \in Found : Disciplined(s, keeps, there)

ASSUME StackAssumption == Discipline /\ MaxCrashes \in Nat

----------------------------------------------------------------------------

Blocks == Layout[script][keep][kept]
Try == Blocks[block].try
Finally == Blocks[block].finally
Outer == Len(Blocks)
Step == Try[at]
InTry(action) == pc = "step" /\ at <= Len(Try) /\ Step.do = action

----------------------------------------------------------------------------
(* The try block's steps *)

Leave(exception) ==
  /\ pc' = "finally" /\ at' = 1 /\ raised' = exception
  /\ UNCHANGED <<fixed, block, stuck, crashes>>

Continue(l) == pc' = l /\ UNCHANGED <<fixed, block, at, raised, stuck, crashes>>

Advance ==
  /\ at' = at + 1 /\ pc' = "step"
  /\ UNCHANGED <<fixed, block, raised, stuck, crashes>>

\* A command fails or a program is missing: the finally block is next.
StepRaises ==
  /\ pc = "step" /\ at <= Len(Try)
  /\ Leave(TRUE) /\ UNCHANGED <<up, container, measured, written, troubles>>

\* subprocess.Popen: from here on the finally block knows the process.
StartDaemon ==
  /\ InTry("popen")
  /\ up' = [up EXCEPT ![Step.what] = "starting"]
  /\ Continue("wait") /\ UNCHANGED <<container, measured, written, troubles>>

\* containerd.sock, stargz.sock, docker info; the NBD server just gets a second.
WaitForDaemon ==
  /\ pc = "wait" /\ (up[Step.what] = "ready" \/ Step.what = "nbdServer")
  /\ Advance /\ UNCHANGED <<up, container, measured, written, troubles>>

\* (Mutant: docker info is asked for ever.)
WaitDeadlineNever == FALSE /\ UNCHANGED stackVars

\* The deadline, or before it the exit of the process where the loop looks for it.
WaitDeadline ==
  /\ pc = "wait" /\ up[Step.what] # "ready" /\ Step.what # "nbdServer"
  /\ Leave(TRUE) /\ UNCHANGED <<up, container, measured, written, troubles>>

\* nbd-client, mount; docker run of a container that is not there yet, and the
\* wait until it answers.
RunCommand ==
  /\ InTry("command")
  /\ \A y \in Needs(Step.what) : up[y] = "ready"
  /\ up' = [up EXCEPT ![Step.what] = "ready"]
  /\ Advance /\ UNCHANGED <<container, measured, written, troubles>>

\* docker run made the container, and it or the wait for an answer failed.
NoAnswer ==
  /\ InTry("command") /\ Step.what \in Containers
  /\ up' = [up EXCEPT ![Step.what] = "ready"]
  /\ troubles' = IF Step.what = "node" THEN troubles \cup {"halfStarted"} ELSE troubles
  /\ Leave(TRUE) /\ UNCHANGED <<container, measured, written>>

\* docker exec of a daemon that goes to the background.
ExecDaemon ==
  /\ InTry("exec") /\ up["node"] = "ready"
  /\ up' = [up EXCEPT ![Step.what] = "starting"]
  /\ Advance /\ UNCHANGED <<container, measured, written, troubles>>

\* test -S of both sockets.
WaitForOnline ==
  /\ InTry("online") /\ \A x \in Guests : up[x] = "ready"
  /\ Advance /\ UNCHANGED <<up, container, measured, written, troubles>>

OnlineDeadline ==
  /\ InTry("online") /\ \E x \in Guests : up[x] # "ready"
  /\ Leave(TRUE) /\ UNCHANGED <<up, container, measured, written, troubles>>

\* Commands that leave nothing behind: truncate, mkfs, save and load, pull,
\* push, commit, optimize, and runs with --rm.
RunWork ==
  /\ InTry("work")
  /\ Advance /\ UNCHANGED <<up, container, measured, written, troubles>>

\* measure_container, measure_workspace: docker run -d, before their try.
StartContainer ==
  /\ InTry("measure") /\ up[Step.what] = "ready"
  /\ container' = container \cup {Step.what}
  /\ Continue("logs") /\ UNCHANGED <<up, measured, written, troubles>>

\* The loop over docker logs (unchecked) ends with the marker or the deadline.
ReadLogs ==
  /\ pc = "logs"
  /\ \/ up[Step.what] = "ready" /\ measured' = Append(measured, "joined")
     \/ measured' = Append(measured, "timeout")
  /\ Continue("remove") /\ UNCHANGED <<up, container, written, troubles>>

\* docker rm -f ... || true in the finally block of the measurement: without
\* its daemon, or with a daemon beneath it gone, it may do nothing.
RemoveContainer ==
  /\ pc = "remove" /\ Advance
  /\ \/ /\ up[Step.what] = "ready"
        /\ container' = container \ {Step.what} /\ UNCHANGED troubles
     \/ /\ \E x \in Daemons : up[x] = "dead"
        /\ troubles' = troubles \cup {"notRemoved"} /\ UNCHANGED container
  /\ UNCHANGED <<up, measured, written>>

\* require_clean_mounts: findmnt shows no overlaybd mount.
RequireCleanMounts ==
  /\ InTry("clean")
  /\ IF up["overlaybdMount"] = "ready" THEN Leave(TRUE) ELSE Advance
  /\ UNCHANGED <<up, container, measured, written, troubles>>

\* run_workspace: ctr run, whose snapshot containerd mounts.
RunWorkspace ==
  /\ InTry("workspace")
  /\ up' = [up EXCEPT !["ctr"] = "ready", !["overlaybdMount"] = "ready"]
  /\ Continue("lines") /\ UNCHANGED <<container, measured, written, troubles>>

\* readline gives a line: it completes the Join URL, or the deadline has passed
\* by now.  readline blocks, so without a line nobody looks at the deadline.
ReadLine ==
  /\ pc = "lines"
  /\ \E row \in {"joined", "timeout"} : measured' = Append(measured, row)
  /\ Leave(FALSE) /\ UNCHANGED <<up, container, written, troubles>>

\* The output has ended and poll() shows the exit.
ReadEnd ==
  /\ pc = "lines" /\ ~Running("ctr") /\ measured' = Append(measured, "timeout")
  /\ Leave(FALSE) /\ UNCHANGED <<up, container, written, troubles>>

\* wait_for_clean_mounts.
WaitForCleanMounts ==
  /\ InTry("awaitClean") /\ up["overlaybdMount"] = "down"
  /\ Advance /\ UNCHANGED <<up, container, measured, written, troubles>>

CleanDeadline ==
  /\ InTry("awaitClean") /\ up["overlaybdMount"] = "ready"
  /\ Leave(TRUE) /\ UNCHANGED <<up, container, measured, written, troubles>>

\* The end of a try; that of the last one writes the results.
WriteResult ==
  /\ pc = "step" /\ at > Len(Try)
  /\ written' = (block = Outer) /\ Leave(FALSE) /\ UNCHANGED <<up, container, measured, troubles>>

----------------------------------------------------------------------------
(* The finally block's steps *)

Stopping == Finally[at]

Proceed == at' = at + 1 /\ UNCHANGED <<fixed, pc, block, measured, written, raised, crashes>>

\* An exception goes on to the outer finally block, and the script ends there.
Unwind ==
  /\ IF block = Outer THEN pc' = "end" /\ UNCHANGED <<block, at>>
     ELSE pc' = "finally" /\ block' = Outer /\ at' = 1
  /\ raised' = TRUE

\* (Mutant: a daemon that does not answer yet is overlooked.)
StopDaemonReady ==
  /\ pc = "finally" /\ at <= Len(Finally) /\ Stopping \in Daemons
  /\ up' = [up EXCEPT ![Stopping] = IF @ = "ready" THEN "down" ELSE @]
  /\ Proceed /\ UNCHANGED <<container, stuck, troubles>>

\* terminate, wait, kill, wait.  dockerd ends its containers on SIGTERM; killed,
\* it leaves them to their shims.
StopDaemon ==
  /\ pc = "finally" /\ at <= Len(Finally) /\ Stopping \in Daemons
  /\ IF Running(Stopping)
     THEN /\ up' = [up EXCEPT ![Stopping] = "down"]
          /\ \/ container' = container \ {Stopping} /\ UNCHANGED troubles
             \/ container' = container /\ troubles' = troubles \cup {"sigkill"}
     ELSE UNCHANGED <<up, container, troubles>>
  /\ Proceed /\ UNCHANGED stuck

\* (Mutant: the exception is swallowed.)
StopRaisesSwallowed ==
  /\ pc = "finally" /\ at <= Len(Finally) /\ Stopping \in Daemons /\ Running(Stopping)
  /\ stuck' = stuck \cup {Stopping} /\ Proceed /\ UNCHANGED <<up, container, troubles>>

\* The wait after kill() times out: the exception leaves this finally block.
StopRaises ==
  /\ pc = "finally" /\ at <= Len(Finally) /\ Stopping \in Daemons /\ Running(Stopping)
  /\ stuck' = stuck \cup {Stopping} /\ Unwind
  /\ UNCHANGED <<fixed, up, container, measured, written, troubles, crashes>>

\* umount, unchecked: a container that still runs keeps the file system busy.
Unmount ==
  /\ pc = "finally" /\ at <= Len(Finally) /\ Stopping = "mount"
  /\ \/ container = {} /\ up' = [up EXCEPT !["mount"] = "down"] /\ UNCHANGED troubles
     \/ /\ container # {} /\ up["mount"] = "ready"
        /\ troubles' = troubles \cup {"busy"} /\ UNCHANGED up
     \/ container # {} /\ up["mount"] = "down" /\ UNCHANGED <<up, troubles>>
  /\ Proceed /\ UNCHANGED <<container, stuck>>

\* nbd-client -d and docker rm -f, which takes what runs inside along.
Release ==
  /\ pc = "finally" /\ at <= Len(Finally) /\ Stopping \in Containers \cup {"device"}
  /\ up' = [x \in Things |-> IF x = Stopping \/ (x \in Guests /\ Stopping \in Needs(x))
                             THEN "down" ELSE up[x]]
  /\ Proceed /\ UNCHANGED <<container, stuck, troubles>>

\* Behind a finally block: the next block, or the end.
EndFinally ==
  /\ pc = "finally" /\ at > Len(Finally)
  /\ IF raised THEN Unwind
     ELSE /\ IF block = Outer THEN pc' = "end" /\ UNCHANGED <<block, at>>
             ELSE pc' = "step" /\ block' = block + 1 /\ at' = 1
          /\ UNCHANGED raised
  /\ UNCHANGED <<fixed, up, container, measured, written, stuck, troubles, crashes>>

----------------------------------------------------------------------------
(* The daemons *)

Host == UNCHANGED <<fixed, pc, block, at, container, measured, written, raised, stuck, troubles>>

Ready(x) ==
  /\ up[x] = "starting" /\ (\A y \in Needs(x) : up[y] = "ready")
  /\ up' = [up EXCEPT ![x] = "ready"] /\ Host /\ UNCHANGED crashes

\* A daemon dies, or a node with all it runs.
Crash(x) ==
  /\ Running(x) /\ crashes < MaxCrashes /\ pc # "end"
  /\ up' = [y \in Things |-> IF y = x \/ (x = "node" /\ y \in Guests /\ Running(y))
                             THEN "dead" ELSE up[y]]
  /\ crashes' = crashes + 1 /\ Host

\* Others mount images before the run; containerd unmounts after it, or not.
HostMount ==
  /\ script = "overlaybdReal" /\ pc # "end" /\ UNCHANGED crashes /\ Host
  /\ \/ /\ block = 1 /\ up["overlaybdMount"] = "down"
        /\ up' = [up EXCEPT !["overlaybdMount"] = "ready"]
     \/ /\ ~Running("ctr") /\ up["overlaybdMount"] = "ready"
        /\ up' = [up EXCEPT !["overlaybdMount"] = "down"]

StackInit ==
  /\ script \in StackScripts /\ keep \in BOOLEAN /\ kept \in Found
  /\ (script \notin Keeps => ~keep) /\ (script \notin Reuses => kept = "none")
  /\ pc = "step" /\ block = 1 /\ at = 1
  /\ up = [x \in Things |-> IF x \in Earlier(script, kept) THEN "ready" ELSE "down"]
  /\ container = {} /\ measured = <<>>
  /\ written = FALSE /\ raised = FALSE /\ stuck = {} /\ troubles = {} /\ crashes = 0

StackScript ==
  \/ StartDaemon \/ WaitForDaemon \/ RunCommand \/ ExecDaemon \/ WaitForOnline
  \/ RunWork \/ StartContainer \/ ReadLogs \/ RemoveContainer
  \/ RequireCleanMounts \/ RunWorkspace \/ ReadEnd \/ WaitForCleanMounts
  \/ WriteResult \/ StepRaises \/ StopDaemon \/ Unmount \/ Release \/ EndFinally

Deadline == WaitDeadline \/ OnlineDeadline \/ CleanDeadline

StackNext ==
  \/ StackScript \/ Deadline \/ NoAnswer \/ StopRaises \/ ReadLine \/ HostMount
  \/ \E x \in Daemons \cup {"node"} : Ready(x) \/ Crash(x)

\* The script goes on, and its waits have deadlines; daemons owe nothing, not
\* even a line of output.
StackSpec == /\ StackInit /\ [][StackNext]_stackVars
             /\ WF_stackVars(StackScript) /\ WF_stackVars(Deadline)

----------------------------------------------------------------------------
(* Properties *)

\* Nothing is taken from beneath what still runs: dockerd goes before its
\* containerd, containerd before its snapshotter or its file system, the mount
\* before the device, the device before the server.  Two things break the
\* order: a daemon that crashed, and an unmount that failed because a
\* container outlived its daemon; the unmount is unchecked, so the device and
\* the server then go while the file system is mounted.
FoundationsStay ==
  \A x \in Things : Running(x) =>
     \A y \in Needs(x) : \/ Running(y) \/ up[y] = "dead"
                         \/ x = "mount" /\ "busy" \in troubles

\* What is left when the script has ended.  A daemon whose stop raised takes
\* with it everything its finally block would have stopped after it, but not
\* the outer finally block.  Besides, there is only: what the script never takes
\* down (the compose stack, a registry that is kept); a mount that was busy,
\* which needs a container whose removal failed and a dockerd that did not end
\* by SIGTERM; a sysbox node whose docker run failed half way, before the try
\* that removes it; and an overlaybd mount, but then the script says so and
\* writes no results.
LeftoversHaveCause ==
  pc = "end" =>
     \A x \in Things : Running(x) =>
        \/ \E n \in DOMAIN Blocks : \E i, j \in DOMAIN Blocks[n].finally :
              /\ Blocks[n].finally[i] \in stuck /\ i <= j
              /\ Blocks[n].finally[j] = x
        \/ x = "stack"
        \/ x \in {"registry", "toxiproxy"} /\ LeavesRegistry(script, keep)
        \/ x = "mount" /\ {"busy", "notRemoved"} \subseteq troubles
        \/ x = "node" /\ "halfStarted" \in troubles
        \/ x = "overlaybdMount" /\ raised /\ ~written

\* Every script ends, whatever the daemons do, but for run_workspace of the
\* overlaybd script: its readline waits for a container that says nothing.
Terminates == <>(pc = "end") \/ <>[](pc = "lines" /\ Running("ctr"))

=============================================================================

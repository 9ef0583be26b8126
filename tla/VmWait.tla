------------------------------- MODULE VmWait -------------------------------
(***************************************************************************)
(* How the measuring scripts boot a virtual machine, wait for the line it  *)
(* prints on its serial console, and stop it again.  Every script polls a  *)
(* log file that the machine's process writes and the process's exit       *)
(* status, one after the other, until a deadline; they differ in what they *)
(* look for, in the order of the two looks, in what they do when the       *)
(* process is gone, in what they set up outside the try whose finally      *)
(* cleans up, and in what main does with a measurement that failed.        *)
(*                                                                         *)
(* "script" never changes, so one run covers all of them; Kind is the       *)
(* measuring function the script is in.  The console is abstracted to how  *)
(* many of the markers the guest prints, in their order, are in the log so *)
(* far; a line that is only half written is a marker of its own ("prefix"). *)
(***************************************************************************)
EXTENDS Naturals, Sequences, ScriptRun

CONSTANTS WaitScripts,  \* the scripts to explore
          Plans         \* what the main of each script measures, in its order

VARIABLES
  log,       \* markers the machine has written to its console
  output,    \* markers in the script's last read of the log
  vm,        \* the machine's process: "none", "running" or "exited"
  helper,    \* qemu-storage-daemon of the vhost-user-blk backend
  tap,       \* a TAP device of this measurement exists
  expired,   \* the deadline has passed
  sent,      \* the hotpool command has been typed into the guest
  outcome,   \* how the measurement ended
  results,   \* what main has collected
  leaked,    \* what earlier measurements of the run left behind
  causes     \* why something could be left behind (history)

waitVars == <<script, pc, log, output, vm, helper, tap, expired, sent, outcome,
              results, leaked, causes>>

\* What the mains measure, with two modes, depths or targets where those are
\* configurable: a value for Plans.
Plan ==
  [cpu |-> <<"cpuDocker", "cpu">>,
   disk |-> <<"diskDocker", "disk", "diskDocker", "disk">>,
   vhost |-> <<"disk", "diskVhost">>,
   fileVsNbd |-> <<"fileVsNbd", "fileVsNbd">>,
   matrix |-> <<"matrixDocker", "matrixFirecracker", "matrixQemu", "matrixCloud">>,
   qemuDisk |-> <<"qemuDisk", "qemuDisk">>,
   startup |-> <<"startupDocker", "startupFirecracker", "startupQemu", "startupCloud">>,
   workspace |-> <<"local", "qemuLocal">>,
   hotpool |-> <<"hotpool">>,
   stargz |-> <<"stargzDockerFirst", "stargzDocker", "stargzFirst", "stargzBench">>]

\* The measuring function the script is in.
Kind == IF pc = "exit" THEN "none" ELSE Plans[script][Len(results) + 1]

\* A plain "docker run" of a program that ends by itself: no deadline.
Containers == {"cpuDocker", "diskDocker", "matrixDocker", "stargzDockerFirst", "stargzDocker"}

Matrix == {"matrixFirecracker", "matrixQemu", "matrixCloud"}

Startup == {"startupDocker", "startupFirecracker", "startupQemu", "startupCloud"}

----------------------------------------------------------------------------
(* What the guests print *)

DiskBenchOutput == <<"prefix", "result">>

\* Guest init of the stargz machines: it starts the two daemons, pulls the
\* image, runs the mode, prints the step's result and powers off; under
\* "set -eu" any failing command ends init and with it the machine.
GuestInitOutput(mode) ==
  IF mode = "first"
  THEN <<"stargz", "containerd", "ready", "rpull", "step">>
  ELSE <<"stargz", "containerd", "ready", "rpull", "result", "step">>

\* What measuring function k sees printed, in its order.
Printed(k) ==
  CASE k = "none" -> <<>>
    [] k \in Startup -> <<"first", "result">>
    [] k \in {"local", "qemuLocal", "stargzDockerFirst"} -> <<"result">>
    [] k = "hotpool" -> <<"ready", "result">>
    [] k = "stargzFirst" -> GuestInitOutput("first")
    [] k = "stargzBench" -> GuestInitOutput("bench")
    [] OTHER -> DiskBenchOutput

Markers == Printed(Kind)

\* A log with its first n markers holds marker m.
Has(n, m) == \E i \in 1..n : Markers[i] = m

All(n) == n = Len(Markers)

\* disk-bench under -hang-after-result blocks once its result is printed.
Hangs == Kind \in Matrix

GuestWrites ==
  /\ vm = "running" /\ ~All(log)
  /\ (Kind = "hotpool" /\ Markers[log + 1] = "result") => sent
  /\ log' = log + 1
  /\ UNCHANGED <<script, pc, output, vm, helper, tap, expired, sent, outcome,
                 results, leaked, causes>>

\* The guest's init returns, fails or powers off: the process is gone.
GuestExits ==
  /\ vm = "running" /\ ~(Hangs /\ All(log))
  /\ vm' = "exited"
  /\ UNCHANGED <<script, pc, log, output, helper, tap, expired, sent, outcome,
                 results, leaked, causes>>

HelperExits ==
  /\ helper = "running" /\ helper' = "exited"
  /\ UNCHANGED <<script, pc, log, output, vm, tap, expired, sent, outcome,
                 results, leaked, causes>>

DeadlinePasses ==
  /\ pc \in {"check", "read", "poll", "socket", "timeout"} /\ ~expired
  /\ expired' = TRUE
  /\ UNCHANGED <<script, pc, log, output, vm, helper, tap, sent, outcome,
                 results, leaked, causes>>

----------------------------------------------------------------------------
(* Steps of the scripts; "host" is what the loops leave alone *)

host == <<script, log, vm, helper, tap, sent, results, leaked, causes>>

Continue(l) == pc' = l /\ UNCHANGED <<output, expired, outcome>>

\* Leave the try block with a value or an exception: its finally runs next.
\* measure_docker first gives its client five seconds to end.
Leave(o) ==
  /\ outcome' = o /\ UNCHANGED expired
  /\ pc' = IF Kind = "startupDocker" /\ o = "row" THEN "clientEnds" ELSE "finally"

\* An exception before the try: straight to main, nothing is cleaned up.
GiveUp(o) ==
  /\ outcome' = o /\ pc' = "main"
  /\ UNCHANGED <<script, log, output, vm, expired, sent, results, leaked>>

Popen ==
  /\ vm' = "running" /\ pc' = IF Kind = "qemuDisk" THEN "timeout"
                             ELSE IF Kind \in Containers THEN "container" ELSE "check"
  /\ expired' = FALSE
  /\ UNCHANGED <<script, log, output, sent, outcome, results, leaked, causes>>

\* Missing assets, a failed initramfs or rootfs copy, or a failed Popen:
\* all of it before the try.
PlainSetup ==
  /\ pc = "start" /\ UNCHANGED <<helper, tap>>
  /\ \/ GiveUp("failed") /\ UNCHANGED causes
     \/ Popen

CpuSetup == Kind = "cpu" /\ PlainSetup

FileVsNbdSetup == Kind = "fileVsNbd" /\ PlainSetup

MatrixSetup == Kind = "matrixFirecracker" /\ PlainSetup

MatrixQemuSetup == Kind = "matrixQemu" /\ PlainSetup

MatrixCloudSetup == Kind = "matrixCloud" /\ PlainSetup

StartupSetup == Kind = "startupFirecracker" /\ PlainSetup

StartupDockerSetup == Kind = "startupDocker" /\ PlainSetup

StartupQemuSetup == Kind = "startupQemu" /\ PlainSetup

StartupCloudSetup == Kind = "startupCloud" /\ PlainSetup

QemuDiskSetup == Kind = "qemuDisk" /\ PlainSetup

ContainerSetup == Kind \in Containers /\ PlainSetup

\* The vhost-user-blk backend starts its storage daemon and waits for the
\* socket before the try that would stop it.
DiskSetup ==
  /\ Kind \in {"disk", "diskVhost"} /\ UNCHANGED tap
  /\ \/ /\ pc = "start" /\ UNCHANGED helper
        /\ \/ GiveUp("failed") /\ UNCHANGED causes
           \/ Kind = "disk" /\ Popen
     \/ /\ pc = "start" /\ Kind = "diskVhost"
        /\ helper' = "running" /\ pc' = "socket" /\ expired' = FALSE
        /\ UNCHANGED <<script, log, output, vm, sent, outcome, results, leaked,
                       causes>>
     \/ /\ pc = "socket" /\ UNCHANGED helper
        /\ \/ /\ helper = "exited" \/ expired
              /\ GiveUp("failed") /\ causes' = causes \cup {"socket"}
           \/ Popen
           \/ GiveUp("failed") /\ causes' = causes \cup {"socket"}

\* setup_tap adds the device and then addresses it and adds firewall rules;
\* a command that fails after the first leaves the device, and the caller
\* has not entered its try yet.
TapSteps ==
  /\ pc = "tap" /\ UNCHANGED helper
  /\ \/ GiveUp("failed") /\ UNCHANGED <<tap, causes>>
     \/ tap' = TRUE /\ GiveUp("failed") /\ causes' = causes \cup {"tap"}
     \/ /\ tap' = TRUE /\ pc' = "try"
        /\ UNCHANGED <<script, log, output, vm, expired, sent, outcome, results,
                       leaked, causes>>

SetupTap == Kind \in {"local", "qemuLocal", "hotpool"} /\ TapSteps

StargzSetupTap == Kind \in {"stargzFirst", "stargzBench"} /\ TapSteps

\* Rootfs and copy first, then the TAP device, then the try with the Popen.
NetSetup ==
  /\ UNCHANGED <<helper, tap>>
  /\ \/ pc = "start" /\ GiveUp("failed") /\ UNCHANGED causes
     \/ pc = "start" /\ Continue("tap") /\ UNCHANGED host
     \/ pc = "try" /\ Leave("failed") /\ UNCHANGED <<output, host>>
     \/ pc = "try" /\ Popen

\* Missing assets make measure_firecracker_local return an error row.
MissingAssets ==
  /\ pc = "start" /\ GiveUp("noAssets") /\ UNCHANGED <<helper, tap, causes>>

LocalSetup == Kind = "local" /\ (MissingAssets \/ NetSetup)

QemuLocalSetup == Kind = "qemuLocal" /\ (MissingAssets \/ NetSetup)

StargzSetup == Kind \in {"stargzFirst", "stargzBench"} /\ NetSetup

HotpoolSetup == Kind = "hotpool" /\ NetSetup

----------------------------------------------------------------------------
(* The waits.  "check" is the loop's condition, "read" the read of the log *)
(* with the test on it, "poll" the look at the process. *)

CheckDeadline ==
  /\ pc = "check" /\ Kind \notin {"local", "qemuLocal"}
  /\ IF expired THEN Leave("timeout") /\ UNCHANGED output ELSE Continue("read")
  /\ UNCHANGED host

Read(test) ==
  /\ pc = "read" /\ output' = log
  /\ IF test THEN Leave("row") ELSE pc' = "poll" /\ UNCHANGED <<expired, outcome>>
  /\ UNCHANGED host

Poll(raises) ==
  /\ pc = "poll"
  /\ IF raises THEN Leave("exited") /\ UNCHANGED output ELSE Continue("check")
  /\ UNCHANGED host

\* (Mutant: half a line is taken for the result.)
CpuLoopTorn ==
  /\ Kind = "cpu"
  /\ Read(Has(log, "prefix")) \/ Poll(vm = "exited" /\ ~Has(output, "prefix"))

\* The test is for the text before the JSON, the extraction wants its brace.
CpuLoop ==
  /\ Kind = "cpu"
  /\ \/ /\ pc = "read" /\ output' = log /\ UNCHANGED host
        /\ IF Has(log, "prefix")
           THEN Leave(IF Has(log, "result") THEN "row" ELSE "garbled")
           ELSE pc' = "poll" /\ UNCHANGED <<expired, outcome>>
     \/ Poll(vm = "exited" /\ ~Has(output, "prefix"))

\* A process that is gone after half a line is waited for until the deadline.
DiskLoop ==
  /\ Kind \in {"disk", "diskVhost"}
  /\ \/ Read(Has(log, "result"))
     \/ Poll(vm = "exited" /\ ~Has(output, "prefix"))

FileVsNbdLoop ==
  /\ Kind = "fileVsNbd"
  /\ \/ Read(Has(log, "result"))
     \/ Poll(vm = "exited")

WaitResultFromFile ==
  /\ Kind \in Matrix
  /\ \/ Read(Has(log, "result"))
     \/ Poll(vm = "exited")

\* (Mutant: no second read of the log.)
WaitForMarkerOnce ==
  /\ Kind \in Startup
  /\ Read(Has(log, "result")) \/ Poll(vm = "exited")

\* The log is read once more after the process was seen to be gone.
WaitForMarker ==
  /\ Kind \in Startup
  /\ \/ Read(Has(log, "result"))
     \/ Poll(FALSE) /\ vm # "exited"
     \/ /\ pc = "poll" /\ vm = "exited" /\ output' = log
        /\ Leave(IF Has(log, "result") THEN "row" ELSE "exited")
        /\ UNCHANGED host

\* The loop's condition looks at the process as well; behind the loop the
\* log is read again, but not searched for the marker.
LocalWait ==
  \/ /\ pc = "check"
     /\ Continue(IF expired \/ vm = "exited" THEN "after" ELSE "read")
     /\ UNCHANGED host
  \/ Read(Has(log, "result"))
  \/ Poll(FALSE)
  \/ /\ pc = "after" /\ output' = log
     /\ Leave(IF vm = "running" THEN "timeout" ELSE "exited")
     /\ UNCHANGED host

LocalLoop == Kind = "local" /\ LocalWait

QemuLocalLoop == Kind = "qemuLocal" /\ LocalWait

\* A result line without the step's line keeps the loop waiting.
StargzLoop ==
  /\ Kind \in {"stargzFirst", "stargzBench"}
  /\ \/ Read(Has(log, "step") /\ (Kind = "stargzFirst" \/ Has(log, "result")))
     \/ Poll(vm = "exited" /\ ~Has(output, "result"))

\* (Mutant: the first wait's deadline is renewed on every pass.)
HotpoolLoopRenewed ==
  /\ Kind = "hotpool"
  /\ \/ sent /\ Read(Has(log, "result"))
     \/ /\ ~sent /\ pc = "read" /\ output' = log
        /\ sent' = Has(log, "ready") /\ pc' = "poll" /\ expired' = FALSE
        /\ UNCHANGED <<script, log, vm, helper, tap, outcome, results, leaked,
                       causes>>
     \/ Poll(FALSE)

\* wait_for and wait_for_workspace never look at the process; the command is
\* typed once the guest's terminal is ready, and the second wait has a
\* deadline of its own.
HotpoolLoop ==
  /\ Kind = "hotpool"
  /\ \/ sent /\ Read(Has(log, "result"))
     \/ /\ ~sent /\ pc = "read" /\ output' = log
        /\ sent' = Has(log, "ready") /\ pc' = "poll"
        /\ expired' = IF Has(log, "ready") THEN FALSE ELSE expired
        /\ UNCHANGED <<script, log, vm, helper, tap, outcome, results, leaked,
                       causes>>
     \/ sent /\ pc = "poll" /\ vm = "exited" /\ output = 1   \* os.write raises
        /\ Leave("failed") /\ UNCHANGED <<output, host>>
     \/ Poll(FALSE)

\* "timeout N qemu-system-x86_64": the script sees the output when the
\* process is gone; QEMU is taken to end on timeout's SIGTERM.
QemuDiskMeasure ==
  /\ Kind = "qemuDisk" /\ pc = "timeout"
  /\ vm = "exited" \/ expired
  /\ vm' = "exited" /\ output' = log /\ pc' = "main"
  /\ outcome' = IF Has(log, "result") THEN "row" ELSE "garbled"
  /\ UNCHANGED <<script, log, helper, tap, expired, sent, results, leaked,
                 causes>>

\* "docker run" with check=True raises on a failing container; the matrix's
\* call looks at the output alone.
ContainerMeasure(kinds, check) ==
  /\ Kind \in kinds /\ pc = "container" /\ vm = "exited"
  /\ output' = log /\ pc' = "main"
  /\ \/ outcome' = IF Has(log, "result") THEN "row" ELSE "garbled"
     \/ check /\ outcome' = "failed"
  /\ UNCHANGED <<script, log, vm, helper, tap, expired, sent, results, leaked,
                 causes>>

CpuDocker == ContainerMeasure({"cpuDocker"}, TRUE)

DiskDocker == ContainerMeasure({"diskDocker"}, TRUE)

MatrixDocker == ContainerMeasure({"matrixDocker"}, FALSE)

DockerFirstOutput == ContainerMeasure({"stargzDockerFirst"}, TRUE)

DockerBench == ContainerMeasure({"stargzDocker"}, TRUE)

----------------------------------------------------------------------------
(* The finally blocks *)

\* terminate, wait, kill, wait: the second wait raises out of the finally
\* block, and what the block would have done after it is not done.
StopVm ==
  /\ \/ /\ pc = "finally" /\ vm # "running"
        /\ pc' = "clean" /\ UNCHANGED <<vm, outcome, causes>>
     \/ /\ pc = "finally" /\ vm = "running"
        /\ pc' = "term" /\ UNCHANGED <<vm, outcome, causes>>
     \/ /\ pc \in {"term", "kill"}
        /\ vm' = "exited" /\ pc' = "clean" /\ UNCHANGED <<outcome, causes>>
     \/ /\ pc = "term" /\ vm = "running"
        /\ pc' = "kill" /\ UNCHANGED <<vm, outcome, causes>>
     \/ /\ pc = "kill" /\ vm = "running"
        /\ outcome' = "stuck" /\ pc' = "main" /\ causes' = causes \cup {"kill"}
        /\ UNCHANGED vm
  /\ UNCHANGED <<script, log, output, helper, tap, expired, sent, results,
                 leaked>>

\* process.wait(timeout=5) raises while the docker client still runs.
DockerEnds ==
  /\ Kind = "startupDocker" /\ pc = "clientEnds" /\ pc' = "finally"
  /\ \/ vm = "exited" /\ UNCHANGED outcome
     \/ vm = "running" /\ outcome' = "failed"
  /\ UNCHANGED <<script, log, output, vm, helper, tap, expired, sent,
                 results, leaked, causes>>

StopProcess == Kind \in Matrix /\ StopVm

StartupStopProcess == Kind \in Startup /\ StopVm

PlainFinally ==
  /\ Kind \in {"cpu", "fileVsNbd"} \cup Matrix \cup Startup
  /\ pc = "clean" /\ pc' = "main"
  /\ UNCHANGED <<script, log, output, vm, helper, tap, expired, sent, outcome,
                 results, leaked, causes>>

\* (Mutant: the storage daemon is stopped only behind a result.)
DiskFinallyOnRow ==
  /\ Kind \in {"disk", "diskVhost"} /\ pc = "clean" /\ pc' = "main"
  /\ helper' = IF outcome = "row" THEN "exited" ELSE helper
  /\ UNCHANGED <<script, log, output, vm, tap, expired, sent, outcome, results,
                 leaked, causes>>

\* The storage daemon is stopped after the machine, the same way.
DiskFinally ==
  /\ Kind \in {"disk", "diskVhost"} /\ pc \in {"clean", "helperTerm", "helperKill"}
  /\ \/ /\ pc = "clean" /\ helper # "running"
        /\ pc' = "main" /\ UNCHANGED <<helper, outcome, causes>>
     \/ /\ pc = "clean" /\ helper = "running"
        /\ pc' = "helperTerm" /\ UNCHANGED <<helper, outcome, causes>>
     \/ /\ pc \in {"helperTerm", "helperKill"}
        /\ helper' = "exited" /\ pc' = "main" /\ UNCHANGED <<outcome, causes>>
     \/ /\ pc = "helperTerm" /\ helper = "running"
        /\ pc' = "helperKill" /\ UNCHANGED <<helper, outcome, causes>>
     \/ /\ pc = "helperKill" /\ helper = "running"
        /\ outcome' = "stuck" /\ pc' = "main" /\ causes' = causes \cup {"kill"}
        /\ UNCHANGED helper
  /\ UNCHANGED <<script, log, output, vm, tap, expired, sent, results, leaked>>

CleanupTap ==
  /\ pc = "clean"
  /\ tap' = FALSE
  /\ UNCHANGED <<script, log, output, vm, helper, expired, sent, outcome,
                 results, leaked, causes>>

\* cleanup_tap is the last statement of the finally block.
NetFinally ==
  /\ Kind \in {"local", "qemuLocal", "hotpool"}
  /\ CleanupTap /\ pc' = "main"

StargzFinally ==
  /\ Kind \in {"stargzFirst", "stargzBench"}
  /\ CleanupTap /\ pc' = IF outcome = "row" THEN "operation" ELSE "main"

\* firecracker_operation reads the log again and looks up the step and, but
\* for the first-output mode, the benchmark's line.
FirecrackerOperation ==
  /\ pc = "operation" /\ pc' = "main" /\ output' = log
  /\ outcome' = IF Has(log, "step") /\ (Kind = "stargzFirst" \/ Has(log, "result"))
                THEN "row" ELSE "missing"
  /\ UNCHANGED <<script, log, vm, helper, tap, expired, sent, results, leaked,
                 causes>>

----------------------------------------------------------------------------
(* The mains *)

\* What the measurement that just ended leaves on the host.
Remains ==
  {x \in {"vm", "helper", "tap"} :
     \/ x = "vm" /\ vm = "running"
     \/ x = "helper" /\ helper = "running"
     \/ x = "tap" /\ tap}

NextMeasurement(goesOn) ==
  /\ pc = "main"
  /\ leaked' = leaked \cup Remains
  /\ vm' = "none" /\ helper' = "none" /\ tap' = FALSE
  /\ log' = 0 /\ output' = 0 /\ sent' = FALSE /\ expired' = FALSE
  /\ results' = Append(results, outcome) /\ outcome' = "none"
  /\ pc' = IF goesOn /\ Len(results') < Len(Plans[script]) THEN "start" ELSE "exit"
  /\ UNCHANGED <<script, causes>>

\* An exception of a measurement ends the script.
MainAborts(s) == script = s /\ NextMeasurement(outcome = "row")

CpuMain == MainAborts("cpu")

DiskMain == MainAborts("disk")

\* run_backend runs the disk script once per backend and raises when it failed.
VhostMain == MainAborts("vhost")

FileVsNbdMain == MainAborts("fileVsNbd")

MatrixMain == MainAborts("matrix")

QemuDiskMain == MainAborts("qemuDisk")

StargzIopsMain == MainAborts("stargz")

\* The summary is printed inside the try, before the clean-up.
HotpoolMain == MainAborts("hotpool")

\* Every exception becomes an error row and the next runtime is measured.
StartupMain == script = "startup" /\ NextMeasurement(TRUE)

\* Error rows are returned, exceptions are not caught.
WorkspaceMain ==
  /\ script = "workspace"
  /\ NextMeasurement(outcome \in {"row", "noAssets", "timeout", "exited"})

----------------------------------------------------------------------------

WaitInit ==
  /\ script \in WaitScripts
  /\ pc = "start" /\ log = 0 /\ output = 0 /\ vm = "none" /\ helper = "none"
  /\ tap = FALSE /\ expired = FALSE /\ sent = FALSE /\ outcome = "none"
  /\ results = <<>> /\ leaked = {} /\ causes = {}

Setup == \/ CpuSetup \/ FileVsNbdSetup \/ MatrixSetup \/ MatrixQemuSetup
         \/ MatrixCloudSetup \/ StartupSetup \/ StartupDockerSetup \/ StartupQemuSetup
         \/ StartupCloudSetup \/ QemuDiskSetup \/ ContainerSetup \/ DiskSetup
         \/ LocalSetup \/ QemuLocalSetup \/ StargzSetup \/ HotpoolSetup \/ SetupTap
         \/ StargzSetupTap

Wait == \/ CheckDeadline \/ CpuLoop \/ DiskLoop \/ FileVsNbdLoop \/ WaitResultFromFile
        \/ WaitForMarker \/ LocalLoop \/ QemuLocalLoop \/ StargzLoop \/ HotpoolLoop
        \/ QemuDiskMeasure \/ CpuDocker \/ DiskDocker \/ MatrixDocker
        \/ DockerFirstOutput \/ DockerBench

Finally == \/ StopProcess \/ StartupStopProcess
           \/ (Kind \notin Matrix \cup Startup /\ StopVm)
           \/ DockerEnds \/ PlainFinally \/ DiskFinally \/ NetFinally \/ StargzFinally
           \/ FirecrackerOperation

Main == \/ CpuMain \/ DiskMain \/ VhostMain \/ FileVsNbdMain \/ MatrixMain
        \/ QemuDiskMain \/ StargzIopsMain \/ HotpoolMain \/ StartupMain \/ WorkspaceMain

Script == Setup \/ Wait \/ Finally \/ Main

Exited == pc = "exit" /\ UNCHANGED waitVars

WaitNext == GuestWrites \/ GuestExits \/ HelperExits \/ DeadlinePasses \/ Script \/ Exited

\* The script's own steps always come, and so does its deadline; the machines
\* owe it nothing.  The plain containers run a benchmark that ends.
ContainerEnds == Kind \in Containers /\ GuestExits

WaitSpec == /\ WaitInit /\ [][WaitNext]_waitVars
            /\ WF_waitVars(Script) /\ WF_waitVars(DeadlinePasses) /\ WF_waitVars(ContainerEnds)

----------------------------------------------------------------------------
(* Properties *)

\* A read that catches the guest in the middle of its line is never taken for
\* a result: every row stands on a log with all the guest prints (the
\* read_text and re.search of the loops).
RowIsComplete == (outcome = "row" /\ pc = "main") => All(output)

\* "process exited before result" and "process exited before marker" are true:
\* a guest that prints and ends between the read of the log and the look at
\* the process is not reported as one that printed nothing.  The matrix owes
\* it to -hang-after-result, wait_for_marker to its second read.
ExitSeenIsTrue ==
  (Kind \in Matrix \cup Startup /\ outcome = "exited")
     => ~Has(log, "result")

\* A machine, a storage daemon or a TAP device outlives its measurement only
\* if a killed process did not end in time, the daemon was started for a
\* machine that was never reached, or setup_tap itself failed half way.
LeakHasCause ==
  \A x \in leaked :
     \/ "kill" \in causes
     \/ x = "helper" /\ "socket" \in causes
     \/ x = "tap" /\ "tap" \in causes

\* Whatever the guest does, the script comes to an end: every wait has a
\* deadline, whether or not it looks at the process.
Terminates == <>(pc = "exit")

=============================================================================

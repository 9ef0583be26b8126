------------------------------ MODULE NbdBench -------------------------------
(***************************************************************************)
(* The scripts that measure a file behind the local NBD server:            *)
(* measure-firecracker-file-vs-nbd ("fcNbd"), measure-vmm-block-matrix     *)
(* ("matrix") and measure-file-vs-nbd ("fileVsNbd").  A run takes a free   *)
(* /dev/nbdX, starts a server process, waits until the port answers,       *)
(* attaches the device, measures and takes it all down again.  The port is *)
(* the same in every run of a script, so what a run leaves behind meets    *)
(* the next one; other programs use NBD devices too.                       *)
(***************************************************************************)
EXTENDS Naturals, Sequences, ScriptRun

CONSTANTS Scripts,        \* the scripts to explore
          Plans,          \* what a run of each script measures, by target
          NumDevices,     \* NBD devices of the machine
          MaxServers,     \* server processes over all runs (bound)
          MaxRuns         \* runs of the script (bound)

\* TARGETS, MODES, IO_DEPTHS and RUNTIMES come from the environment; a run
\* measures something.  Only fcNbd has servers in chunk mode.
ASSUME BenchAssumption ==
  /\ Scripts \subseteq {"fcNbd", "matrix", "fileVsNbd"}
  /\ Plans \in [Scripts -> Seq({"file", "range", "chunk"})]
  /\ \A s \in Scripts : /\ Len(Plans[s]) > 0
                        /\ s # "fcNbd" => Plans[s] \in Seq({"file", "range"})
  /\ NumDevices \in Nat /\ MaxServers \in Nat /\ MaxRuns \in Nat

Servers == 1..MaxServers
Devices == 1..NumDevices
Free == 0
Other == MaxServers + 1    \* another program's NBD connection

VARIABLES
  preferred,         \* the device the script's environment names, or Free
  step,              \* which of its measurements the run is at
  state, mode,       \* of each server process
  owner,             \* whose server each device is connected to, or Free
  device,            \* the run's device
  proc,              \* the server this run started last, 0 before
  mine,              \* nbd_server, nbd_proc: what the finally block stops
  failed,            \* an exception is on its way through the finally block
  rows,              \* measurements of this run
  runs, leftovers,   \* runs begun; servers alive when this run began
  stats,             \* the server whose statistics are in STATS_FILE
  causes, late, hurt,\* history: why servers leak, devices another program
                     \* took since the run chose its own, ones it lost
  sigkill            \* this run had to kill a server (history)

servers == <<state, mode>>
history == <<runs, leftovers, causes, late, hurt, stats, sigkill>>
vars == <<script, preferred, pc, step, servers, owner, device, proc, mine,
          failed, rows, history>>

Alive(i) == state[i] \in {"starting", "listening"}
Listening == {i \in Servers : state[i] = "listening"}
Unused == {i \in Servers : state[i] = "none"}

\* The measurements of a run; fileVsNbd has one server for all.
Plan == Plans[script]
Target == Plan[step]

Goto(l) == pc' = l /\ UNCHANGED <<script, preferred>>

----------------------------------------------------------------------------
(* Devices and servers *)

\* nbd-client -d, unchecked: whoever is connected is disconnected.
DetachNbd ==
  /\ owner' = [owner EXCEPT ![device] = Free]
  /\ hurt' = IF owner[device] = Other THEN hurt \cup {device} ELSE hurt

\* Popen of the server.
Launch(m) ==
  \E i \in Unused :
    /\ \A n \in Unused : i <= n
    /\ proc' = i
    /\ state' = [state EXCEPT ![i] = "starting"]
    /\ mode' = [mode EXCEPT ![i] = m]

\* The server binds its port, or ends because the address is in use.
ServerBinds(i) ==
  /\ state[i] = "starting"
  /\ state' = [state EXCEPT ![i] = IF Listening = {} THEN "listening" ELSE "exited"]
  /\ UNCHANGED <<script, preferred, pc, step, mode, owner, device, proc, mine, failed, rows, history>>

\* A node service or another script connects a device nobody uses, and
\* disconnects it.
OtherAttaches(d) ==
  /\ owner[d] = Free /\ owner' = [owner EXCEPT ![d] = Other]
  /\ late' = late \cup {d}
  /\ UNCHANGED <<script, preferred, pc, step, servers, device, proc, mine, failed, rows,
                 runs, leftovers, causes, hurt, stats, sigkill>>

OtherDetaches(d) ==
  /\ owner[d] = Other /\ owner' = [owner EXCEPT ![d] = Free]
  /\ UNCHANGED <<script, preferred, pc, step, servers, device, proc, mine, failed, rows, history>>

----------------------------------------------------------------------------
(* One run *)

FreeDevices == {d \in Devices : owner[d] = Free}

\* (Mutant: the pid file is not looked at.)
FindFreeNbdAny(d) == IF preferred # Free THEN d = preferred ELSE d = 1

\* find_free_nbd: the first device without a pid, unless one is given.
FindFreeNbd(d) ==
  IF preferred # Free THEN d = preferred
  ELSE d \in FreeDevices /\ \A e \in FreeDevices : d <= e

\* main up to the loop.  The data file and the binaries are there; without a
\* free device the script ends at once, which leaves nothing to describe.
Start(s, first) ==
  /\ script = s /\ pc = "idle" /\ runs < MaxRuns
  /\ \E d \in Devices : FindFreeNbd(d) /\ device' = d
  /\ runs' = runs + 1 /\ leftovers' = {i \in Servers : Alive(i)} /\ late' = {}
  /\ sigkill' = FALSE
  /\ step' = 1 /\ proc' = 0 /\ mine' = 0 /\ failed' = FALSE /\ rows' = {}
  /\ Goto(first) /\ UNCHANGED <<servers, owner, causes, hurt, stats>>

FcNbdMain == Start("fcNbd", "clean")

MatrixMain == Start("matrix", "next")

FileVsNbdMain == Start("fileVsNbd", "clean")

\* fcNbd and fileVsNbd detach the device once before they use it.
MainDetach ==
  /\ pc = "clean" /\ DetachNbd
  /\ Goto(IF script = "fileVsNbd" THEN "popen" ELSE "next")
  /\ UNCHANGED <<step, servers, device, proc, mine, failed, rows, runs, leftovers, causes, late, stats, sigkill>>

\* The head of the loops over runtimes, modes, depths and targets: a file
\* needs no server, every NBD target gets one of its own.
NextTarget ==
  /\ pc = "next" /\ step <= Len(Plan)
  /\ mine' = 0 /\ proc' = 0
  /\ Goto(IF Target = "file" THEN "measure" ELSE "detach")
  /\ UNCHANGED <<step, servers, owner, device, failed, rows, history>>

DetachFirst ==
  /\ pc = "detach" /\ DetachNbd /\ Goto("popen")
  /\ UNCHANGED <<step, servers, device, proc, mine, failed, rows, runs, leftovers, causes, late, stats, sigkill>>

\* (Mutant: every target gets start_nbd_server's range mode.)
StartNbdServer ==
  /\ script = "fcNbd" /\ pc = "popen" /\ Launch("range") /\ Goto("poll")
  /\ UNCHANGED <<step, owner, device, mine, failed, rows, history>>

\* start_nbd_server_mode, in the target's mode: main learns of the server only
\* when the wait is over.
StartNbdServerMode ==
  /\ script = "fcNbd" /\ pc = "popen" /\ Launch(Target) /\ Goto("poll")
  /\ UNCHANGED <<step, owner, device, mine, failed, rows, history>>

\* start_nbd: only when the device is attached as well.
StartNbd ==
  /\ script = "matrix" /\ pc = "popen" /\ Launch("range") /\ Goto("poll")
  /\ UNCHANGED <<step, owner, device, mine, failed, rows, history>>

\* (Mutant: the server is known to the finally block only after the wait.)
FileVsNbdPopenUnknown ==
  /\ script = "fileVsNbd" /\ pc = "popen" /\ Launch("range") /\ Goto("poll")
  /\ UNCHANGED <<step, owner, device, mine, failed, rows, history>>

\* main of fileVsNbd keeps the process before it waits.
FileVsNbdPopen ==
  /\ script = "fileVsNbd" /\ pc = "popen" /\ Launch("range") /\ Goto("poll")
  /\ mine' = proc'
  /\ UNCHANGED <<step, owner, device, failed, rows, history>>

\* An exception: on to the finally block, which does nothing without a server.
Raise(cause) ==
  /\ failed' = TRUE /\ Goto(IF mine # 0 THEN "finallyDetach" ELSE "idle")
  /\ causes' = causes \cup (IF mine = 0 /\ proc # 0 THEN {cause} ELSE {})
  /\ UNCHANGED <<step, servers, owner, device, proc, mine, rows, runs, leftovers, late, hurt, stats, sigkill>>

\* wait_for_server polls the process and then probes the port.
WaitPoll ==
  /\ pc = "poll"
  /\ \/ state[proc] = "exited" /\ Raise("exited")
     \/ /\ Alive(proc) /\ Goto("probe")
        /\ UNCHANGED <<step, servers, owner, device, proc, mine, failed, rows, history>>

\* Any server that listens answers the probe.
WaitProbe ==
  /\ pc = "probe"
  /\ Goto(IF Listening # {} THEN "attach" ELSE "poll")
  /\ mine' = IF Listening # {} /\ script = "fcNbd" THEN proc ELSE mine
  /\ UNCHANGED <<step, servers, owner, device, proc, failed, rows, history>>

\* Ten seconds without an answer.
WaitTimeout == pc = "poll" /\ Raise("timeout")

\* nbd-client fails on a device that is in use, and whenever else it fails.
AttachNbd ==
  /\ pc = "attach"
  /\ \/ Raise("attach")
     \/ /\ owner[device] = Free
        /\ \E i \in Listening : owner' = [owner EXCEPT ![device] = i]
        /\ mine' = proc
        /\ Goto("measure")
        /\ UNCHANGED <<step, servers, device, proc, failed, rows, history>>

\* A measurement: the row says which server answered.
Measure ==
  /\ pc = "measure"
  /\ \/ Raise("measure")
     \/ /\ rows' = rows \cup {[target |-> Target,
                               server |-> IF Target = "file" THEN 0 ELSE owner[device],
                               own |-> proc]}
        /\ \/ script = "fileVsNbd" /\ step < Len(Plan) /\ Goto("measure") /\ step' = step + 1
           \/ mine = 0 /\ Goto("next") /\ step' = step + 1
           \/ /\ mine # 0 /\ (script = "fileVsNbd" => step = Len(Plan))
              /\ Goto("finallyDetach") /\ UNCHANGED step
        /\ UNCHANGED <<servers, owner, device, proc, mine, failed, history>>

FinallyDetach ==
  /\ pc = "finallyDetach" /\ DetachNbd /\ Goto("finallyStop")
  /\ UNCHANGED <<step, servers, device, proc, mine, failed, rows, runs, leftovers, causes, late, stats, sigkill>>

AfterFinally ==
  /\ Goto(IF failed THEN "idle" ELSE IF script = "fileVsNbd" THEN "write" ELSE "next")
  /\ step' = step + 1
  /\ UNCHANGED <<mode, owner, device, proc, mine, failed, rows, runs, leftovers, causes, late, hurt>>

\* stop_process: SIGTERM, and SIGKILL after five seconds; a server of these
\* scripts keeps no statistics.
StopProcess ==
  /\ pc = "finallyStop" /\ script # "fileVsNbd" /\ AfterFinally
  /\ state' = [state EXCEPT ![mine] = "exited"]
  /\ UNCHANGED <<stats, sigkill>>

\* (Mutant: main does not wait for the server to end.)
FileVsNbdStopNoWait ==
  /\ pc = "finallyStop" /\ script = "fileVsNbd" /\ AfterFinally
  /\ state' = [state EXCEPT ![mine] = "exited"]
  /\ stats' \in {stats, mine} /\ UNCHANGED sigkill

\* The same in main of fileVsNbd.  On SIGTERM a server that serves writes its
\* statistics; one that still starts, has ended or is killed does not.
FileVsNbdStop ==
  /\ pc = "finallyStop" /\ script = "fileVsNbd" /\ AfterFinally
  /\ state' = [state EXCEPT ![mine] = "exited"]
  /\ \/ state[mine] = "listening" /\ stats' = mine /\ UNCHANGED sigkill
     \/ state[mine] = "listening" /\ sigkill' = TRUE /\ UNCHANGED stats
     \/ state[mine] # "listening" /\ UNCHANGED <<stats, sigkill>>

\* append_results, write_results: only a run without an exception gets here.
WriteResults(s, at) ==
  /\ script = s /\ pc = at /\ (at = "next" => step > Len(Plan))
  /\ Goto("idle") /\ UNCHANGED <<step, servers, owner, device, proc, mine, failed, rows, history>>

FcNbdAppendResults == WriteResults("fcNbd", "next")

MatrixWriteResults == WriteResults("matrix", "next")

\* STATS_FILE, when there is one, is part of the results.
FileVsNbdResults == WriteResults("fileVsNbd", "write")

\* The script is killed and no finally block runs.
Killed ==
  /\ pc # "idle"
  /\ failed' = TRUE /\ Goto("idle") /\ causes' = causes \cup {"killed"}
  /\ UNCHANGED <<step, servers, owner, device, proc, mine, rows, runs, leftovers, late, hurt, stats, sigkill>>

----------------------------------------------------------------------------

Init ==
  /\ script \in Scripts /\ preferred \in Devices \cup {Free}
  /\ pc = "idle" /\ step = 1
  /\ state = [i \in Servers |-> "none"] /\ mode = [i \in Servers |-> "range"]
  /\ owner \in [Devices -> {Free, Other}]
  /\ device = Free /\ proc = 0 /\ mine = 0 /\ failed = FALSE /\ rows = {}
  /\ runs = 0 /\ leftovers = {} /\ causes = {} /\ late = {} /\ hurt = {}
  /\ stats = 0 /\ sigkill = FALSE

Main == FcNbdMain \/ MatrixMain \/ FileVsNbdMain

Script ==
  \/ MainDetach \/ NextTarget \/ DetachFirst
  \/ StartNbdServerMode \/ StartNbd \/ FileVsNbdPopen
  \/ WaitPoll \/ WaitProbe \/ AttachNbd \/ Measure
  \/ FinallyDetach \/ StopProcess \/ FileVsNbdStop
  \/ FcNbdAppendResults \/ MatrixWriteResults \/ FileVsNbdResults

Next ==
  \/ Main \/ Script \/ WaitTimeout \/ Killed
  \/ \E i \in Servers : ServerBinds(i)
  \/ \E d \in Devices : OtherAttaches(d) \/ OtherDetaches(d)

\* No fairness: the properties say what a run may leave or print, not that it
\* ends, and a server may take for ever to bind.
Spec == Init /\ [][Next]_vars

----------------------------------------------------------------------------
(* Properties *)

\* A row labelled with an NBD mode was measured through the server that this
\* run started, in that mode.  Only a server that was alive before the run
\* began can stand in for it: the probe of wait_for_server asks whether the
\* port answers, not who answers.
RowsAreOfTheirServer ==
  \A r \in rows : r.target # "file" =>
     \/ r.server = r.own /\ mode[r.own] = r.target
     \/ r.server \in leftovers

\* Servers outlive their run only when the script was killed, when the wait
\* timed out before main knew the process (fcNbd, matrix), or when attaching
\* failed inside start_nbd (matrix).
LeakHasCause ==
  (pc = "idle" /\ \E i \in Servers : Alive(i)) =>
     \/ "killed" \in causes
     \/ script \in {"fcNbd", "matrix"} /\ "timeout" \in causes
     \/ script = "matrix" /\ "attach" \in causes

\* The statistics printed with a run's rows are those of its own server, unless
\* that server had to be killed or an older one held the port: STATS_FILE is
\* never removed, so then an earlier run's numbers would be printed.
StatsAreOfThisRun ==
  (script = "fileVsNbd" /\ pc = "idle" /\ runs > 0 /\ ~failed) =>
     stats \in {0, proc} \/ sigkill \/ leftovers # {}

\* Every detach is unconditional, yet another program loses its device only
\* when the device was named in the environment or when the program took it
\* after find_free_nbd had looked.
OthersAreLeftAlone ==
  [][\A d \in hurt' \ hurt : preferred # Free \/ d \in late]_vars

=============================================================================

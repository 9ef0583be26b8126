---------------------------- MODULE NodeSessions -----------------------------
(***************************************************************************)
(* Sessions of one node service (cmd/node-service): the exports, the NBD   *)
(* devices of the host, mounted file systems, Firecracker runs and         *)
(* terminals, the requests that end them, and what fails on the way.       *)
(*                                                                         *)
(* The storage engine is abstracted to the set of open sessions and, per   *)
(* session, whether it holds writes that no snapshot has (module Backend   *)
(* is the engine in detail).  A client learns the id of a session from the *)
(* answer to its start, so other requests come only after that answer.     *)
(***************************************************************************)
EXTENDS Naturals, FiniteSets, FiniteSetsExt

CONSTANTS Sessions,    \* session ids, each used once
          NumDevices,  \* nbdDeviceCount
          Handlers,    \* requests served at the same time, besides the starts
          Runtimes,    \* the runtimes that are started (bound)
          None         \* no session, no device

Devices == 0 .. NumDevices - 1

ASSUME NodeAssumption ==
  /\ NumDevices \in Nat
  /\ None \notin Devices \cup Sessions /\ None \notin {"running", "up", "stopping", "gone"}
  /\ Runtimes \subseteq {"nbd", "nbdCommit", "mounted", "run", "save", "restore", "tty"}

VARIABLES
  open,      \* Backend.sessions
  unsaved,   \* sessions with acknowledged writes that no snapshot has
  exports,   \* nbdExports
  used,      \* usedNBDDevices
  mounts,    \* per session: its device in the map mounts, or None
  attached,  \* host kernel, per device: the session it serves, or None
  fs,        \* host kernel: sessions whose file system is mounted
  vm,        \* per session: its Firecracker process
  marker,    \* per session: success marker "no", "printed" by the guest, "seen"
  tty,       \* per session: its terminal in ttySessions
  start,     \* per session: [pc, rt, dev] of its start request
  conns,     \* sessions whose export has a client outside the node
  req,       \* per handler: [pc, op, s, dev]
  lost,      \* sessions whose ttyStop failed before the detach (history)
  asked,     \* sessions a client asked to stop (history)
  late,      \* sessions written between the commit and the stop of a
             \* disconnect (history)
  dropped    \* sessions that were stopped with unsaved writes (history)

host == <<attached, fs, vm, marker>>
maps == <<exports, used, mounts, tty>>
engine == <<open, unsaved, dropped>>
history == <<lost, asked, late>>
vars == <<open, unsaved, exports, used, mounts, attached, fs, vm, marker, tty,
          start, conns, req, lost, asked, late, dropped>>

Idle == [pc |-> "idle", op |-> None, s |-> None, dev |-> None]

\* start[s] is at "from" and goes on to "to".
Go(s, from, to) ==
  start[s].pc = from /\ start' = [start EXCEPT ![s] = [pc |-> to, rt |-> @.rt, dev |-> @.dev]]
\* The same of a handler.
At(h, from, to) ==
  req[h].pc = from /\ req' = [req EXCEPT ![h] = [pc |-> to, op |-> @.op, s |-> @.s, dev |-> @.dev]]
Answer(h) == req' = [req EXCEPT ![h] = Idle]

Doing(s, pcs) == \E h \in Handlers : req[h].s = s /\ req[h].pc \in pcs

unregisterNBDExport(s) == exports' = exports \ {s}
releaseNBDDevice(d) == used' = used \ {d}

\* Backend.Stop: the overlay is removed with what nobody committed.
Stop(s) ==
  /\ open' = open \ {s} /\ unsaved' = unsaved \ {s}
  /\ dropped' = dropped \cup ({s} \cap unsaved)

----------------------------------------------------------------------------
(* startSession *)

StartSession(s, rt) ==
  /\ start[s].pc = "none"
  /\ start' = [start EXCEPT ![s] = [pc |-> IF rt \in {"nbd", "nbdCommit"} THEN "export" ELSE "alloc",
                                    rt |-> rt, dev |-> None]]
  /\ open' = open \cup {s}
  /\ UNCHANGED <<unsaved, dropped, maps, host, conns, req, history>>

\* runtime nbd-export-test.
RegisterExport(s) ==
  /\ Go(s, "export", "ready") /\ exports' = exports \cup {s}
  /\ UNCHANGED <<engine, used, mounts, tty, host, conns, req, history>>

\* The preflights, which may fail, and allocateNBDDevicePrefer, under mountMu:
\* the first free device, or the one a restore asks for; none is an error.
allocateNBDDevice(s) ==
  LET free == Devices \ used
      choice == IF start[s].rt = "restore" THEN free ELSE {d \in free : d = Min(free)}
  IN /\ start[s].pc = "alloc"
     /\ \/ \E d \in choice :
             /\ start' = [start EXCEPT ![s] = [pc |-> "attach", rt |-> @.rt, dev |-> d]]
             /\ used' = used \cup {d}
        \/ Go(s, "alloc", "abort") /\ UNCHANGED used
     /\ UNCHANGED <<engine, exports, mounts, tty, host, conns, req, history>>

\* The export is registered and nbd-client connects the device to it; the
\* kernel refuses a device that is connected already.
Attach(s) ==
  LET d == start[s].dev IN
  /\ start[s].pc = "attach" /\ exports' = exports \cup {s}
  /\ \/ attached[d] = None /\ attached' = [attached EXCEPT ![d] = s]
        /\ Go(s, "attach", IF start[s].rt = "mounted" THEN "mount" ELSE "boot")
     \/ Go(s, "attach", "cleanup") /\ UNCHANGED attached
  /\ UNCHANGED <<engine, used, mounts, tty, fs, vm, marker, conns, req, history>>

\* mkfs.ext4 and mount; then the session is in the map.
Mount(s) ==
  /\ \/ Go(s, "mount", "ready") /\ fs' = fs \cup {s}
        /\ mounts' = [mounts EXCEPT ![s] = start[s].dev]
     \/ Go(s, "mount", "cleanup") /\ UNCHANGED <<fs, mounts>>
  /\ UNCHANGED <<engine, exports, used, attached, vm, marker, tty, conns, req, history>>

\* (Mutant: the error path keeps the device.)
CleanupKeepsDevice(s) ==
  /\ Go(s, "cleanup", "abort")
  /\ unregisterNBDExport(s) /\ UNCHANGED used
  /\ attached' \in {attached, [attached EXCEPT ![start[s].dev] = None]}
  /\ UNCHANGED <<engine, mounts, tty, fs, vm, marker, conns, req, history>>

\* The deferred clean-up of an error: nbd-client -d may fail, which is ignored.
Cleanup(s) ==
  /\ Go(s, "cleanup", "abort")
  /\ unregisterNBDExport(s) /\ releaseNBDDevice(start[s].dev)
  /\ attached' \in {attached, [attached EXCEPT ![start[s].dev] = None]}
  /\ UNCHANGED <<engine, mounts, tty, fs, vm, marker, conns, req, history>>

Abort(s) ==
  /\ Go(s, "abort", "failed")
  /\ unregisterNBDExport(s) /\ Stop(s)
  /\ UNCHANGED <<used, mounts, tty, host, conns, req, history>>

----------------------------------------------------------------------------
(* runFirecrackerSession and restoreFirecrackerSession *)

\* orca-init is put on the volume, the network and the configuration are set
\* up, and Firecracker starts; any of it may fail.
Boot(s) ==
  /\ \/ Go(s, "boot", IF start[s].rt = "restore" THEN "restoring" ELSE "running")
        /\ vm' = [vm EXCEPT ![s] = "running"]
     \/ Go(s, "boot", "cleanup") /\ UNCHANGED vm
  /\ UNCHANGED <<engine, maps, attached, fs, marker, conns, req, history>>

GuestPrints(s) ==
  /\ vm[s] = "running" /\ marker[s] = "no" /\ start[s].rt # "restore"
  /\ marker' = [marker EXCEPT ![s] = "printed"]
  /\ UNCHANGED <<engine, maps, attached, fs, vm, start, conns, req, history>>

\* The goroutine "collect" may read the last output after the process ended.
Collect(s) ==
  /\ marker[s] = "printed" /\ marker' = [marker EXCEPT ![s] = "seen"]
  /\ UNCHANGED <<engine, maps, attached, fs, vm, start, conns, req, history>>

VmExits(s) ==
  /\ vm[s] = "running" /\ \E status \in {"ok", "bad"} : vm' = [vm EXCEPT ![s] = status]
  /\ UNCHANGED <<engine, maps, attached, fs, marker, start, conns, req, history>>

\* waitForMarkerOrExit: the marker was seen, or the process ended well and the
\* marker is in the output.
MarkerSeen(s) ==
  /\ Go(s, "running", IF start[s].rt = "tty" THEN "ready" ELSE "marked")
  /\ marker[s] = "seen"
  /\ tty' = [tty EXCEPT ![s] = IF start[s].rt = "tty" THEN "up" ELSE @]
  /\ UNCHANGED <<engine, exports, used, mounts, host, conns, req, history>>

Kill(s) == vm' = [vm EXCEPT ![s] = IF @ = "running" THEN "killed" ELSE @]

\* (Mutant: a start waits for its guest for ever.)
RunErrorNoTimeout(s) ==
  /\ Go(s, "running", "cleanup") /\ vm[s] # "running" /\ Kill(s)
  /\ UNCHANGED <<engine, maps, attached, fs, marker, conns, req, history>>

\* (Mutant: the error path does not stop the machine.)
RunErrorKeepsVm(s) ==
  /\ Go(s, "running", "cleanup")
  /\ vm[s] = "bad" \/ (vm[s] # "running" /\ marker[s] # "seen") \/ start[s].rt # "tty"
  /\ UNCHANGED <<engine, maps, host, conns, req, history>>

\* The process ended first, or the timeout or the client's going away ended
\* the wait; the context of a terminal has neither.
RunError(s) ==
  /\ Go(s, "running", "cleanup")
  /\ vm[s] = "bad" \/ (vm[s] # "running" /\ marker[s] # "seen") \/ start[s].rt # "tty"
  /\ Kill(s)
  /\ UNCHANGED <<engine, maps, attached, fs, marker, conns, req, history>>

\* (Mutant: the exit status after the marker is not looked at.)
WaitExitAny(s) ==
  /\ start[s].rt # "save" /\ Go(s, "marked", "flush") /\ Kill(s)
  /\ UNCHANGED <<engine, maps, attached, fs, marker, conns, req, history>>

\* wait: the timeout kills a guest that does not power off, and a bad status
\* is an error although the marker was seen.
WaitExit(s) ==
  /\ start[s].rt # "save"
  /\ \/ vm[s] = "ok" /\ Go(s, "marked", "flush") /\ UNCHANGED vm
     \/ vm[s] # "ok" /\ Go(s, "marked", "cleanup") /\ Kill(s)
  /\ UNCHANGED <<engine, maps, attached, fs, marker, conns, req, history>>

\* The machine, if it still runs, is paused, saved and killed; or that fails.
SaveMemory(s) ==
  /\ start[s].rt = "save"
  /\ (vm[s] = "running" /\ Go(s, "marked", "flush")) \/ Go(s, "marked", "cleanup")
  /\ Kill(s)
  /\ UNCHANGED <<engine, maps, attached, fs, marker, conns, req, history>>

\* The snapshot is loaded or not; in both cases the machine is stopped.
Restore(s) ==
  /\ \E to \in {"detach", "cleanup"} : Go(s, "restoring", to)
  /\ Kill(s)
  /\ UNCHANGED <<engine, maps, attached, fs, marker, conns, req, history>>

\* sync and blockdev --flushbufs.
Flush(s) ==
  /\ \E to \in {"detach", "cleanup"} : Go(s, "flush", to)
  /\ UNCHANGED <<engine, maps, host, conns, req, history>>

\* detach: an error of nbd-client is recorded and ignored.  A restore commits
\* nothing, and a run only when it was asked to or its mode writes the volume.
Detach(s) ==
  /\ \E to \in CASE start[s].rt = "restore" -> {"ready"}
               [] start[s].rt = "save" -> {"commit"}
               [] OTHER -> {"commit", "ready"} : Go(s, "detach", to)
  /\ unregisterNBDExport(s) /\ releaseNBDDevice(start[s].dev)
  /\ attached' \in {attached, [attached EXCEPT ![start[s].dev] = None]}
  /\ UNCHANGED <<engine, mounts, tty, fs, vm, marker, conns, req, history>>

CommitRun(s) ==
  /\ \/ Go(s, "commit", "ready") /\ unsaved' = unsaved \ {s}
     \/ Go(s, "commit", "abort") /\ UNCHANGED unsaved
  /\ UNCHANGED <<open, dropped, maps, host, conns, req, history>>

----------------------------------------------------------------------------
(* Writes, and the clients of exports outside the node *)

\* A file system or a machine writes through the device, or a client through
\* its connection; a write to a session that was stopped fails.
Writes(s) ==
  /\ s \in open /\ s \notin unsaved
  /\ \/ s \in conns
     \/ (s \in fs \/ vm[s] = "running" \/ start[s].pc = "boot") /\ attached[start[s].dev] = s
  /\ unsaved' = unsaved \cup {s}
  /\ late' = IF Doing(s, {"discStop"}) THEN late \cup {s} ELSE late
  /\ UNCHANGED <<open, dropped, maps, host, start, conns, req, lost, asked>>

\* handshake and resolveNBDExport; a connection may break off at any time.
Connect(s) ==
  /\ start[s].rt \in {"nbd", "nbdCommit"} /\ start[s].pc = "ready"
  /\ \/ s \in exports /\ conns' = conns \cup {s}
     \/ conns' = conns \ {s}
  /\ conns' # conns
  /\ UNCHANGED <<engine, maps, host, start, req, history>>

----------------------------------------------------------------------------
(* commit, stop, tty/stop and NBD_CMD_DISC on a session that was answered *)

Request(h, s, op) ==
  /\ req[h] = Idle /\ start[s].pc = "ready"
  /\ op = "disc" => s \in conns
  /\ op = "ttyStop" => tty[s] = "up"
  /\ req' = [req EXCEPT ![h] = [pc |-> IF op = "disc" THEN "disc" ELSE IF op = "ttyStop" THEN "halt" ELSE "lookup",
                                op |-> op, s |-> s, dev |-> None]]
  /\ tty' = [tty EXCEPT ![s] = IF op = "ttyStop" THEN "stopping" ELSE @]
  /\ conns' = IF op = "disc" THEN conns \ {s} ELSE conns
  /\ asked' = IF op = "stop" THEN asked \cup {s} ELSE asked
  /\ UNCHANGED <<engine, exports, used, mounts, host, start, lost, late>>

\* detachMountedSession: the map is read under mountMu, the rest runs without.
Lookup(h) ==
  LET d == mounts[req[h].s] IN
  /\ req[h].pc = "lookup"
  /\ req' = [req EXCEPT ![h] = [pc |-> IF d = None THEN "act" ELSE "umount",
                                op |-> @.op, s |-> @.s, dev |-> d]]
  /\ UNCHANGED <<engine, maps, host, start, conns, history>>

\* sync and umount: what is not mounted cannot be unmounted.
Umount(h) ==
  /\ \/ req[h].s \in fs /\ At(h, "umount", "disconnect") /\ fs' = fs \ {req[h].s}
     \/ req[h].pc = "umount" /\ Answer(h) /\ UNCHANGED fs
  /\ UNCHANGED <<engine, maps, attached, vm, marker, start, conns, history>>

\* nbd-client -d; its failure is answered, and the session stays in the map
\* without a file system to unmount.
Disconnect(h) ==
  /\ \/ At(h, "disconnect", "release") /\ attached' = [attached EXCEPT ![req[h].dev] = None]
     \/ req[h].pc = "disconnect" /\ Answer(h) /\ UNCHANGED attached
  /\ UNCHANGED <<engine, maps, fs, vm, marker, start, conns, history>>

Release(h) ==
  /\ At(h, "release", "forget") /\ releaseNBDDevice(req[h].dev)
  /\ UNCHANGED <<engine, exports, mounts, tty, host, start, conns, history>>

\* The map entry goes; RemoveAll of the mount path may fail.
Forget(h) ==
  /\ At(h, "forget", "act") \/ (req[h].pc = "forget" /\ Answer(h))
  /\ mounts' = [mounts EXCEPT ![req[h].s] = None]
  /\ UNCHANGED <<engine, exports, used, tty, host, start, conns, history>>

\* Backend.Commit, then the export goes; an error leaves both as they are.
CommitSession(h) ==
  LET s == req[h].s IN
  /\ req[h].pc = "act" /\ req[h].op = "commit" /\ Answer(h)
  /\ \/ s \in open /\ unsaved' = unsaved \ {s} /\ unregisterNBDExport(s)
     \/ UNCHANGED <<unsaved, exports>>
  /\ UNCHANGED <<open, dropped, used, mounts, tty, host, start, conns, history>>

StopSession(h) ==
  /\ req[h].pc = "act" /\ req[h].op = "stop" /\ Answer(h)
  /\ unregisterNBDExport(req[h].s) /\ Stop(req[h].s)
  /\ UNCHANGED <<used, mounts, tty, host, start, conns, history>>

\* (Mutant: the session is stopped although the commit failed.)
DiscCommitOrStop(h) ==
  LET s == req[h].s IN
  /\ req[h].pc = "disc"
  /\ IF start[s].rt # "nbdCommit" THEN At(h, "disc", "unregister") /\ UNCHANGED unsaved
     ELSE /\ At(h, "disc", "discStop")
          /\ unsaved' \in {unsaved, unsaved \ {s}}
  /\ UNCHANGED <<open, dropped, maps, host, start, conns, history>>

\* StorageDevice.Disconnect: a commit that fails leaves the session open, and
\* its export goes all the same.
DiscCommit(h) ==
  LET s == req[h].s IN
  /\ \/ s \in open /\ start[s].rt = "nbdCommit"
        /\ At(h, "disc", "discStop") /\ unsaved' = unsaved \ {s}
     \/ At(h, "disc", "unregister") /\ UNCHANGED unsaved
  /\ UNCHANGED <<open, dropped, maps, host, start, conns, history>>

\* Backend.Stop after the commit, and OnDisconnect.
DiscStop(h) ==
  /\ \/ At(h, "discStop", "unregister") /\ Stop(req[h].s) /\ UNCHANGED exports
     \/ req[h].pc = "unregister" /\ Answer(h) /\ unregisterNBDExport(req[h].s) /\ UNCHANGED engine
  /\ UNCHANGED <<used, mounts, tty, host, start, conns, history>>

\* (Mutant: a terminal that does not exit in time is left running.)
HaltTtyNoKill(h) ==
  /\ At(h, "halt", "ttySync")
  /\ UNCHANGED <<engine, maps, host, start, conns, history>>

\* stopFn: "exit" is typed, and after three seconds the process is killed.
HaltTty(h) ==
  /\ At(h, "halt", "ttySync")
  /\ vm' = [vm EXCEPT ![req[h].s] = IF @ = "running" THEN "killed" ELSE @]
  /\ UNCHANGED <<engine, maps, attached, fs, marker, start, conns, history>>

\* sync and flush; after an error nothing is detached, and the terminal that
\* could be asked again is forgotten.
SyncTty(h) ==
  /\ \/ At(h, "ttySync", "ttyDetach") /\ UNCHANGED <<tty, history>>
     \/ /\ req[h].pc = "ttySync" /\ Answer(h)
        /\ tty' = [tty EXCEPT ![req[h].s] = "gone"] /\ lost' = lost \cup {req[h].s}
  /\ UNCHANGED <<engine, exports, used, mounts, host, start, conns, asked, late>>

DetachTty(h) ==
  LET d == start[req[h].s].dev IN
  /\ At(h, "ttyDetach", "ttyCommit")
  /\ unregisterNBDExport(req[h].s) /\ releaseNBDDevice(d)
  /\ attached' \in {attached, [attached EXCEPT ![d] = None]}
  /\ UNCHANGED <<engine, mounts, tty, fs, vm, marker, start, conns, history>>

\* The session is stopped whether or not the commit succeeded.
CommitTty(h) ==
  LET s == req[h].s IN
  /\ req[h].pc = "ttyCommit" /\ Answer(h) /\ tty' = [tty EXCEPT ![s] = "gone"]
  /\ \/ s \in open /\ open' = open \ {s} /\ unsaved' = unsaved \ {s} /\ UNCHANGED dropped
     \/ Stop(s)
  /\ UNCHANGED <<exports, used, mounts, host, start, conns, history>>

----------------------------------------------------------------------------

Init ==
  /\ open = {} /\ unsaved = {} /\ exports = {} /\ used = {} /\ fs = {} /\ conns = {}
  /\ lost = {} /\ asked = {} /\ late = {} /\ dropped = {}
  /\ mounts = [s \in Sessions |-> None] /\ attached = [d \in Devices |-> None]
  /\ vm = [s \in Sessions |-> None] /\ marker = [s \in Sessions |-> "no"]
  /\ tty = [s \in Sessions |-> None]
  /\ start = [s \in Sessions |-> [pc |-> "none", rt |-> None, dev |-> None]]
  /\ req = [h \in Handlers |-> Idle]

StartStep(s) ==
  \/ RegisterExport(s) \/ allocateNBDDevice(s) \/ Attach(s) \/ Mount(s) \/ Cleanup(s) \/ Abort(s)
  \/ Boot(s) \/ MarkerSeen(s) \/ RunError(s) \/ WaitExit(s) \/ SaveMemory(s) \/ Restore(s)
  \/ Flush(s) \/ Detach(s) \/ CommitRun(s)

HandlerStep(h) ==
  \/ Lookup(h) \/ Umount(h) \/ Disconnect(h) \/ Release(h) \/ Forget(h)
  \/ CommitSession(h) \/ StopSession(h) \/ DiscCommit(h) \/ DiscStop(h)
  \/ HaltTty(h) \/ SyncTty(h) \/ DetachTty(h) \/ CommitTty(h)

Environment(s) ==
  \/ \E rt \in Runtimes : StartSession(s, rt)
  \/ GuestPrints(s) \/ Collect(s) \/ VmExits(s) \/ Writes(s) \/ Connect(s)
  \/ \E h \in Handlers, op \in {"commit", "stop", "ttyStop", "disc"} : Request(h, s, op)

Next ==
  \/ \E s \in Sessions : StartStep(s) \/ Environment(s)
  \/ \E h \in Handlers : HandlerStep(h)

Spec == Init /\ [][Next]_vars

----------------------------------------------------------------------------
(* Properties *)

\* Session s answers for device d: its start works with it, it is mounted and
\* not released, or its terminal has not been detached.
Holds(s, d) ==
  \/ start[s].dev = d
     /\ start[s].pc \in {"attach", "mount", "cleanup", "boot", "running", "marked", "restoring", "flush", "detach"}
  \/ mounts[s] = d /\ ~Doing(s, {"forget"})
  \/ start[s].dev = d /\ tty[s] \in {"up", "stopping"} /\ ~Doing(s, {"ttyCommit"})

\* A device that allocateNBDDevicePrefer handed out serves one session until
\* releaseNBDDevice, whatever errors and concurrent commits and stops of the
\* same session do; and no device stays taken for nobody, but for a tty/stop
\* that failed in sync or flush.
DevicesAccounted ==
  /\ \A s \in Sessions, d \in Devices : Holds(s, d) =>
       d \in used /\ \A t \in Sessions \ {s} : ~Holds(t, d)
  /\ \A d \in used : \E s \in Sessions : Holds(s, d) \/ (s \in lost /\ start[s].dev = d)

\* Nobody takes the device from under a mounted file system or a running
\* machine: the nbd-client -d of other sessions, of repeated commits and stops
\* and of error paths never hits it.
LiveStaysAttached ==
  \A s \in Sessions : (s \in fs \/ vm[s] = "running") => attached[start[s].dev] = s

\* A commit the node makes itself, and that of a mounted session, finds the
\* file system unmounted and the machine ended.
CommitsAreQuiet ==
  \A s \in Sessions :
    (start[s].pc = "commit" \/ Doing(s, {"act", "ttyCommit"})) =>
      s \notin fs /\ (vm[s] = "running" => start[s].rt = "tty" /\ ~Doing(s, {"ttyCommit"}))

\* A run is committed only when its guest reported success and, unless the
\* machine was saved and killed, ended well: no timeout, no bad exit.
CommittedRunsSucceeded ==
  \A s \in Sessions : start[s].pc = "commit" =>
    marker[s] = "seen" /\ vm[s] = IF start[s].rt = "save" THEN "killed" ELSE "ok"

\* Acknowledged writes are given up only by a stop that was asked for, a start
\* that failed, the stop of a terminal (also when its commit failed), or when
\* they came between the commit and the stop of a disconnect: a failed commit
\* alone, at a disconnect or on request, keeps them.
DropsHaveCause ==
  \A s \in dropped : s \in asked \cup late \/ start[s].pc = "failed" \/ tty[s] = "gone"

\* Nobody waits for ever: a request that is not answered can go on, whatever
\* the guest, the clients and the other requests do (no step waits for a lock
\* held across a command).  The one exception is the start of a terminal whose
\* guest neither becomes ready nor ends: its context has no timeout.
RequestsGoOn ==
  /\ \A s \in Sessions :
       \/ start[s].pc \in {"none", "ready", "failed"}
       \/ ENABLED StartStep(s)
       \/ start[s].rt = "tty" /\ start[s].pc = "running" /\ vm[s] = "running"
  /\ \A h \in Handlers : req[h] = Idle \/ ENABLED HandlerStep(h)

=============================================================================

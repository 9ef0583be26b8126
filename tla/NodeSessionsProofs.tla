------------------------- MODULE NodeSessionsProofs -------------------------
(***************************************************************************)
(* The sessions of a node, for any number of sessions, devices and         *)
(* requests: who holds a device, what stays attached, which commits are    *)
(* quiet, and why writes are given up.                                     *)
(*                                                                         *)
(* First the inductive invariant, what the steps of starts and requests    *)
(* leave of it, and that guests, clients and every step of a start keep    *)
(* it; then the steps of requests, and the theorems.                       *)
(***************************************************************************)
EXTENDS NodeSessions, TLAPS

\* A start works with its device.
Working == {"attach", "mount", "cleanup", "boot", "running", "marked", "restoring", "flush", "detach"}
\* A commit or stop is past the unmounting, a tty/stop is on its way.
Detaching == {"disconnect", "release", "forget"}
Stopping == {"halt", "ttySync", "ttyDetach", "ttyCommit"}

StartPcs == {"none", "export", "alloc", "abort", "commit", "ready", "failed"} \cup Working
ReqPcs == {"idle", "lookup", "umount", "act", "disc", "discStop", "unregister"} \cup Detaching \cup Stopping

StartType == [Sessions -> [pc : StartPcs, rt : Runtimes \cup {None}, dev : Devices \cup {None}]]
ReqType == [Handlers -> [pc : ReqPcs, op : {"commit", "stop", "ttyStop", "disc", None},
                         s : Sessions \cup {None}, dev : Devices \cup {None}]]

Types ==
  /\ used \in SUBSET Devices
  /\ mounts \in [Sessions -> Devices \cup {None}]
  /\ attached \in [Devices -> Sessions \cup {None}]
  /\ vm \in [Sessions -> {None, "running", "ok", "bad", "killed"}]
  /\ marker \in [Sessions -> {"no", "printed", "seen"}]
  /\ tty \in [Sessions -> {None, "up", "stopping", "gone"}]
  /\ start \in StartType /\ req \in ReqType
  /\ dropped \in SUBSET Sessions /\ lost \in SUBSET Sessions

\* What the start of a session has, and what it leaves to the requests.
Started(s) ==
  /\ start[s].pc # "ready" => mounts[s] = None /\ tty[s] = None /\ s \notin fs \cup lost
  /\ start[s].pc \in Working \/ tty[s] # None => start[s].dev \in Devices
  /\ mounts[s] # None => mounts[s] = start[s].dev /\ start[s].rt = "mounted"
  /\ tty[s] # None => start[s].rt = "tty"
  /\ s \in fs => mounts[s] # None
  /\ start[s].pc = "mount" => start[s].rt = "mounted"

\* A machine that runs belongs to its start or to its terminal, and who uses a
\* device is attached to it.
Live(s) ==
  /\ vm[s] = "running" =>
       \/ start[s].pc \in {"running", "marked", "restoring"}
       \/ start[s].pc = "ready" /\ tty[s] \in {"up", "stopping"}
  /\ (vm[s] = "running" \/ s \in fs \/ start[s].pc \in {"mount", "boot"})
       => start[s].dev \in Devices /\ attached[start[s].dev] = s

\* On its way to the commit a run has seen its marker and its machine has ended.
Succeeded(s) ==
  /\ start[s].pc = "marked" => marker[s] = "seen"
  /\ start[s].pc = "restoring" => start[s].rt = "restore"
  /\ start[s].pc \in {"flush", "commit"} \/ (start[s].pc = "detach" /\ start[s].rt # "restore") =>
       marker[s] = "seen" /\ vm[s] = IF start[s].rt = "save" THEN "killed" ELSE "ok"
  /\ start[s].pc = "detach" => vm[s] # "running"

\* What a request holds at its step.
Served(h) ==
  LET s == req[h].s IN
  /\ req[h].pc = "idle" => s = None
  /\ req[h].pc # "idle" => s \in Sessions /\ start[s].pc = "ready" /\ (req[h].op = "stop" => s \in asked)
  /\ req[h].pc = "umount" \/ req[h].pc \in Detaching =>
       req[h].dev \in Devices /\ req[h].dev = start[s].dev /\ start[s].rt = "mounted"
  /\ req[h].pc \in Detaching => mounts[s] = req[h].dev /\ s \notin fs
  /\ req[h].pc = "act" => mounts[s] = None
  /\ req[h].pc \in Stopping => tty[s] = "stopping"
  /\ req[h].pc \in Stopping \ {"halt"} => vm[s] # "running"
  /\ req[h].pc = "discStop" => (s \in unsaved => s \in late)

\* Two requests never detach the same session.
Alone ==
  \A h, k \in Handlers : h # k /\ req[h].s = req[k].s =>
    /\ ~(req[h].pc \in Detaching /\ req[k].pc \in Detaching)
    /\ ~(req[h].pc \in Stopping /\ req[k].pc \in Stopping)

Inv ==
  /\ Types
  /\ \A s \in Sessions : Started(s)
  /\ \A s \in Sessions : Live(s)
  /\ \A s \in Sessions : Succeeded(s)
  /\ \A h \in Handlers : Served(h)
  /\ Alone
  /\ DevicesAccounted
  /\ DropsHaveCause

-----------------------------------------------------------------------------
(* How the two control states move. *)

\* The start of s goes to a step with its runtime and a device, the others wait.
Moved(s, to, d) ==
  /\ start' \in StartType
  /\ start'[s].pc = to /\ start'[s].rt = start[s].rt /\ start'[s].dev = d
  /\ \A t \in Sessions : t # s => start'[t] = start[t]

\* The same of a request.
Stepped(h, to, d) ==
  /\ req' \in ReqType
  /\ req'[h].pc = to /\ req'[h].op = req[h].op /\ req'[h].s = req[h].s /\ req'[h].dev = d
  /\ \A k \in Handlers : k # h => req'[k] = req[k]

Answered(h) ==
  /\ req' \in ReqType
  /\ req'[h] = Idle
  /\ \A k \in Handlers : k # h => req'[k] = req[k]

\* What Go does to the starts.
LEMMA GoStep ==
  ASSUME Types, NEW s \in Sessions, NEW from, NEW to \in StartPcs, Go(s, from, to)
  PROVE  start[s].pc = from /\ Moved(s, to, start[s].dev)
BY Zenon DEF Types, StartType, Go, Moved

\* What At does to the requests.
LEMMA AtStep ==
  ASSUME Types, NEW h \in Handlers, NEW from, NEW to \in ReqPcs, At(h, from, to)
  PROVE  req[h].pc = from /\ Stepped(h, to, req[h].dev)
BY Zenon DEF Types, ReqType, At, Stepped

\* What Answer does to the requests.
LEMMA AnswerStep ==
  ASSUME Types, NEW h \in Handlers, Answer(h)
  PROVE  Answered(h)
<1>1. Idle \in [pc : ReqPcs, op : {"commit", "stop", "ttyStop", "disc", None},
               s : Sessions \cup {None}, dev : Devices \cup {None}]
  BY Zenon DEF Idle, ReqPcs
<1> QED BY <1>1, Zenon DEF Types, ReqType, Answer, Answered

-----------------------------------------------------------------------------
(* Who holds which device. *)

\* A step that neither takes nor releases a device.
LEMMA KeepDevices ==
  ASSUME Types, DevicesAccounted, used' = used,
         \A t \in Sessions, d \in Devices : Holds(t, d)' <=> Holds(t, d),
         \A t \in lost : t \in lost' /\ start'[t].dev = start[t].dev
  PROVE  DevicesAccounted'
BY Zenon DEF Types, DevicesAccounted

\* The holder of a device releases it.
LEMMA ReleaseDevice ==
  ASSUME Types, DevicesAccounted, NEW s \in Sessions, NEW e \in Devices, Holds(s, e), used' = used \ {e},
         \A d \in Devices : Holds(s, d) => d = e,
         \A d \in Devices : ~Holds(s, d)',
         \A t \in Sessions, d \in Devices : t # s => (Holds(t, d)' <=> Holds(t, d)),
         \A t \in lost : t \in lost' /\ start'[t].dev = start[t].dev
  PROVE  DevicesAccounted'
BY DEF Types, DevicesAccounted

\* A free device is handed to a session that has none.
LEMMA TakeDevice ==
  ASSUME Types, DevicesAccounted, NEW s \in Sessions, NEW e \in Devices, e \notin used, used' = used \cup {e},
         \A d \in Devices : ~Holds(s, d),
         \A d \in Devices : Holds(s, d)' <=> d = e,
         \A t \in Sessions, d \in Devices : t # s => (Holds(t, d)' <=> Holds(t, d)),
         \A t \in lost : t \in lost' /\ start'[t].dev = start[t].dev
  PROVE  DevicesAccounted'
BY DEF Types, DevicesAccounted

\* A device stays with a terminal that is forgotten.
LEMMA LoseDevice ==
  ASSUME Types, DevicesAccounted, NEW s \in Sessions, used' = used, s \in lost',
         \A d \in Devices : Holds(s, d) => d = start'[s].dev,
         \A d \in Devices : ~Holds(s, d)',
         \A t \in Sessions, d \in Devices : t # s => (Holds(t, d)' <=> Holds(t, d)),
         \A t \in lost : t \in lost' /\ start'[t].dev = start[t].dev
  PROVE  DevicesAccounted'
BY DEF Types, DevicesAccounted

-----------------------------------------------------------------------------
(* Steps of a start. *)

\* A step of the start of s leaves the other sessions and the requests alone.
StartFrame(s) ==
  /\ start[s].pc # "ready"
  /\ UNCHANGED <<req, lost, asked, late>>
  /\ \A t \in Sessions : t # s =>
       /\ start'[t] = start[t] /\ mounts'[t] = mounts[t] /\ tty'[t] = tty[t]
       /\ vm'[t] = vm[t] /\ marker'[t] = marker[t]
       /\ (t \in fs' <=> t \in fs) /\ (t \in unsaved' <=> t \in unsaved)
       /\ (t \in dropped' <=> t \in dropped)

\* What a step of a start leaves standing.
LEMMA StartFrameKeeps ==
  ASSUME Inv, NEW s \in Sessions, StartFrame(s)
  PROVE  /\ \A t \in Sessions : t # s => Started(t)' /\ Succeeded(t)'
         /\ \A h \in Handlers : Served(h)'
         /\ Alone'
         /\ \A t \in Sessions, d \in Devices : t # s => (Holds(t, d)' <=> Holds(t, d))
         /\ \A pcs : ~Doing(s, pcs) /\ ~Doing(s, pcs)'
         /\ \A t \in Sessions : t # s /\ t \in dropped' => t \in asked \cup late \/ start[t].pc = "failed" \/ tty[t] = "gone"
<1> USE NodeAssumption DEF Inv, StartFrame
<1>1. \A t \in Sessions : t # s => Started(t)' BY DEF Started, Working
<1>2. \A t \in Sessions : t # s => Succeeded(t)' BY DEF Succeeded
<1>3. \A h \in Handlers : Served(h)' BY DEF Served, Detaching, Stopping
<1>4. Alone' BY Zenon DEF Alone
<1>5. \A t, pcs : Doing(t, pcs)' <=> Doing(t, pcs) BY Zenon DEF Doing
<1>6. \A t \in Sessions, d \in Devices : t # s => (Holds(t, d)' <=> Holds(t, d))
  BY <1>5, Zenon DEF Holds
<1>7. \A pcs : ~Doing(s, pcs) BY DEF Doing, Served
<1>8. \A t \in Sessions : t # s /\ t \in dropped' => t \in asked \cup late \/ start[t].pc = "failed" \/ tty[t] = "gone"
  BY Zenon DEF DropsHaveCause
<1> QED BY <1>1, <1>2, <1>3, <1>4, <1>5, <1>6, <1>7, <1>8, Zenon

\* Who uses a device holds it.
LEMMA LiveHolds ==
  ASSUME Inv, NEW t \in Sessions,
         vm[t] = "running" \/ t \in fs \/ start[t].pc \in {"mount", "boot"}
  PROVE  Holds(t, start[t].dev)
<1> USE DEF Inv
<1>1. CASE t \in fs
  <2>1. ~Doing(t, {"forget"}) BY <1>1, Zenon DEF Doing, Served, Detaching
  <2> QED BY <1>1, <2>1, Zenon DEF Holds, Started
<1>2. CASE vm[t] = "running"
  <2>1. ~Doing(t, {"ttyCommit"}) BY <1>2, Zenon DEF Doing, Served, Stopping
  <2> QED BY <1>2, <2>1, Zenon DEF Holds, Live
<1>3. CASE start[t].pc \in {"mount", "boot"} BY <1>3, Zenon DEF Holds
<1> QED BY <1>1, <1>2, <1>3, Zenon

\* What a session holds before and after a step of its start.
LEMMA StartHolds ==
  ASSUME Inv, NEW s \in Sessions, StartFrame(s), Started(s)', NEW d \in Devices
  PROVE  /\ Holds(s, d) <=> start[s].pc \in Working /\ start[s].dev = d
         /\ start'[s].pc # "ready" => (Holds(s, d)' <=> start'[s].pc \in Working /\ start'[s].dev = d)
         /\ start'[s].pc = "ready" =>
              (Holds(s, d)' <=> mounts'[s] = d \/ (start'[s].dev = d /\ tty'[s] \in {"up", "stopping"}))
<1>1. \A pcs : ~Doing(s, pcs) /\ ~Doing(s, pcs)' BY StartFrameKeeps, Zenon
<1>2. start[s].pc # "ready" /\ Started(s) /\ d # None BY NodeAssumption, Zenon DEF StartFrame, Inv
<1> QED BY <1>1, <1>2, NodeAssumption, Zenon DEF Holds, Started, Working

\* A step of a start is settled by what it does to its own session.
LEMMA StartKeeps ==
  ASSUME Inv, NEW s \in Sessions, StartFrame(s),
         Types', Started(s)', Live(s)', Succeeded(s)', DevicesAccounted',
         \A d \in Devices : attached'[d] = attached[d] \/ Holds(s, d) \/ attached[d] = None,
         (dropped' = dropped /\ start[s].pc # "failed") \/ start'[s].pc = "failed"
  PROVE  Inv'
<1>1. \A t \in Sessions : t # s => Live(t)'
  <2> SUFFICES ASSUME NEW t \in Sessions, t # s PROVE Live(t)'
    BY Zenon
  <2>1. Live(t) /\ (Holds(t, start[t].dev) => ~Holds(s, start[t].dev) \/ start[t].dev \notin Devices)
    BY Zenon DEF Inv, DevicesAccounted
  <2>2. (vm[t] = "running" \/ t \in fs \/ start[t].pc \in {"mount", "boot"}) => Holds(t, start[t].dev)
    BY LiveHolds, Zenon
  <2> QED BY <2>1, <2>2, NodeAssumption DEF Live, StartFrame
<1>2. DropsHaveCause'
  <2>1. s \in dropped' => s \in asked \cup late \/ start'[s].pc = "failed"
    BY NodeAssumption DEF Inv, DropsHaveCause, StartFrame, Started
  <2> QED BY <2>1, StartFrameKeeps DEF DropsHaveCause, StartFrame, Types
<1> QED BY <1>1, <1>2, StartFrameKeeps, Zenon DEF Inv

\* A start keeps its device, hands it to its mount or terminal, or has none.
LEMMA StartKeepsDevices ==
  ASSUME Inv, NEW s \in Sessions, StartFrame(s), Started(s)', used' = used,
         start[s].pc \in Working => start'[s].dev = start[s].dev,
         \/ start[s].pc \in Working /\ start'[s].pc \in Working
         \/ /\ start[s].pc \in Working /\ start'[s].pc = "ready"
            /\ mounts'[s] = start[s].dev \/ tty'[s] = "up"
         \/ /\ start[s].pc \notin Working /\ start'[s].pc \notin Working
            /\ start'[s].pc = "ready" => mounts'[s] = None /\ tty'[s] = None
  PROVE  DevicesAccounted'
<1>1. \A d \in Devices : Holds(s, d)' <=> Holds(s, d)
  BY StartHolds, NodeAssumption DEF Started, Working
<1>2. \A t \in Sessions, d \in Devices : Holds(t, d)' <=> Holds(t, d)
  BY <1>1, StartFrameKeeps, Zenon
<1>3. \A t \in lost : t \in lost' /\ start'[t].dev = start[t].dev
  BY Zenon DEF Inv, Types, StartFrame, Started
<1> QED BY <1>2, <1>3, KeepDevices, Zenon DEF Inv

-----------------------------------------------------------------------------
(* Guests and clients. *)

\* A step that only ends machines, advances markers or records writes.
LEMMA QuietKeeps ==
  ASSUME Inv, UNCHANGED <<used, mounts, attached, fs, tty, start, req, lost, asked, dropped>>, Types',
         \A t \in Sessions : vm'[t] = vm[t] \/ (vm[t] = "running" /\ vm'[t] # "running"),
         \A t \in Sessions : marker[t] = "seen" => marker'[t] = "seen",
         \A t \in late : t \in late',
         \A t \in unsaved' : t \in unsaved \/ (Doing(t, {"discStop"}) => t \in late')
  PROVE  Inv'
<1>1. (\A t \in Sessions : Started(t))' BY Zenon DEF Inv, Started, Working
<1>2. (\A t \in Sessions : Live(t))' BY Zenon DEF Inv, Live
<1>3. (\A t \in Sessions : Succeeded(t))' BY Zenon DEF Inv, Succeeded
<1>4. (\A h \in Handlers : Served(h))'
  <2> SUFFICES ASSUME NEW h \in Handlers PROVE Served(h)'
    BY Zenon
  <2>1. req[h].pc = "discStop" => Doing(req[h].s, {"discStop"}) BY Zenon DEF Doing
  <2> QED BY <2>1, Zenon DEF Inv, Served, Detaching, Stopping
<1>5. Alone' BY Zenon DEF Inv, Alone
<1>6. DevicesAccounted' BY DEF Inv, DevicesAccounted, Holds, Doing
<1>7. DropsHaveCause' BY Zenon DEF Inv, DropsHaveCause
<1> QED BY <1>1, <1>2, <1>3, <1>4, <1>5, <1>6, <1>7, Zenon DEF Inv

\* Guests, clients and their writes change no resource.
LEMMA GuestKeeps ==
  ASSUME Inv, NEW s \in Sessions,
         GuestPrints(s) \/ Collect(s) \/ VmExits(s) \/ Writes(s) \/ Connect(s)
  PROVE  Inv'
<1> USE DEF engine, maps, host, history
<1>1. CASE GuestPrints(s) \/ Collect(s)
  BY <1>1, QuietKeeps, Zenon DEF GuestPrints, Collect, Inv, Types
<1>2. CASE VmExits(s)
  BY <1>2, QuietKeeps, Zenon DEF VmExits, Inv, Types
<1>3. CASE Writes(s)
  BY <1>3, QuietKeeps, Zenon DEF Writes, Inv, Types
<1>4. CASE Connect(s)
  BY <1>4, QuietKeeps, Zenon DEF Connect, Inv, Types
<1> QED BY <1>1, <1>2, <1>3, <1>4, Zenon

\* A new request takes nothing but the terminal it stops.
LEMMA RequestKeeps ==
  ASSUME Inv, NEW h \in Handlers, NEW s \in Sessions, NEW op \in {"commit", "stop", "ttyStop", "disc"},
         Request(h, s, op)
  PROVE  Inv'
<1> USE NodeAssumption DEF engine, maps, host, history
<1>1. /\ req[h].pc = "idle" /\ start[s].pc = "ready" /\ req' \in ReqType
      /\ req'[h].pc = IF op = "disc" THEN "disc" ELSE IF op = "ttyStop" THEN "halt" ELSE "lookup"
      /\ req'[h].op = op /\ req'[h].s = s
      /\ \A k \in Handlers : k # h => req'[k] = req[k]
  <2>1. req \in ReqType BY Zenon DEF Inv, Types
  <2> QED BY <2>1 DEF Request, ReqType, ReqPcs, Stopping, Idle
<1>2. /\ op = "ttyStop" => tty[s] = "up" /\ tty' = [tty EXCEPT ![s] = "stopping"]
      /\ op # "ttyStop" => tty' = tty
  <2>1. tty \in [Sessions -> {None, "up", "stopping", "gone"}] BY Zenon DEF Inv, Types
  <2> QED BY <2>1, Zenon DEF Request
<1>3. /\ UNCHANGED <<engine, used, mounts, host, start, lost, late>>
      /\ asked' = IF op = "stop" THEN asked \cup {s} ELSE asked
  BY Zenon DEF Request
<1>4. Types' BY <1>1, <1>2, <1>3 DEF Inv, Types
<1>5. (\A t \in Sessions : Started(t))' BY <1>2, <1>3 DEF Inv, Types, Started, Working
<1>6. (\A t \in Sessions : Live(t))' BY <1>2, <1>3 DEF Inv, Types, Live
<1>7. (\A t \in Sessions : Succeeded(t))' BY <1>3, Zenon DEF Inv, Succeeded
<1>8. (\A k \in Handlers : Served(k))'
  <2>1. Served(h)' BY <1>1, <1>2, <1>3, Zenon DEF Inv, Types, Served, Detaching, Stopping
  <2>3. (\A k \in Handlers : Served(k)) /\ tty \in [Sessions -> {None, "up", "stopping", "gone"}]
    BY ZenonT(60) DEF Inv, Types
  <2>2. ASSUME NEW k \in Handlers, k # h PROVE Served(k)'
    BY <1>1, <1>2, <1>3, <2>2, <2>3 DEF Served, Detaching, Stopping
  <2> QED BY <2>1, <2>2, Zenon
<1>9. Alone' BY <1>1, <1>2 DEF Inv, Served, Alone, Detaching, Stopping
<1>10. DevicesAccounted'
  <2>1. \A t \in Sessions, p \in {"forget", "ttyCommit"} : Doing(t, {p})' <=> Doing(t, {p})
    BY <1>1, Zenon DEF Doing
  <2>2. \A t \in Sessions, d \in Devices : Holds(t, d)' <=> Holds(t, d)
    BY <1>2, <1>3, <2>1, Zenon DEF Inv, Types, Holds
  <2> QED BY <1>3, <2>2, KeepDevices, Zenon DEF Inv
<1>11. DropsHaveCause' BY <1>2, <1>3, Zenon DEF Inv, Types, DropsHaveCause
<1> QED BY <1>4, <1>5, <1>6, <1>7, <1>8, <1>9, <1>10, <1>11, Zenon DEF Inv

-----------------------------------------------------------------------------
(* Steps of a request. *)

\* A step of a request leaves the starts and the other sessions and requests
\* alone, and takes from its own session only.
HandlerFrame(h) ==
  LET s == req[h].s IN
  /\ s \in Sessions /\ start[s].pc = "ready" /\ req' \in ReqType
  /\ req'[h].s = s \/ (req'[h].pc = "idle" /\ req'[h].s = None)
  /\ UNCHANGED <<start, marker, late, asked>>
  /\ \A k \in Handlers : k # h => req'[k] = req[k]
  /\ \A t \in Sessions : t # s =>
       /\ mounts'[t] = mounts[t] /\ tty'[t] = tty[t] /\ vm'[t] = vm[t]
       /\ (t \in dropped' => t \in dropped) /\ (t \in lost' <=> t \in lost)
  /\ mounts'[s] = mounts[s] \/ (mounts'[s] = None /\ req[h].pc \in Detaching)
  /\ tty'[s] = tty[s] \/ (tty'[s] = "gone" /\ req[h].pc \in Stopping)
  /\ vm'[s] = "running" => vm[s] = "running"
  /\ fs' \subseteq fs /\ unsaved' \subseteq unsaved
  /\ lost \subseteq lost'
  /\ req'[h].pc \in Detaching => req[h].pc \in Detaching \/ s \in fs
  /\ req'[h].pc \in Stopping => req[h].pc \in Stopping

\* What a step of a request leaves standing.
LEMMA HandlerFrameKeeps ==
  ASSUME Inv, NEW h \in Handlers, HandlerFrame(h)
  PROVE  /\ \A t \in Sessions : t # req[h].s => Started(t)'
         /\ \A t \in Sessions : Succeeded(t)'
         /\ \A k \in Handlers : k # h => Served(k)'
         /\ Alone'
         /\ \A t \in Sessions, d \in Devices : t # req[h].s => (Holds(t, d)' <=> Holds(t, d))
<1> USE NodeAssumption DEF HandlerFrame
<1>a. \A t \in Sessions : Started(t) BY Zenon DEF Inv
<1>b. \A k \in Handlers : Served(k) BY Zenon DEF Inv
<1>c. Alone BY Zenon DEF Inv
<1>1. \A t \in Sessions : t # req[h].s => Started(t)' BY <1>a DEF Started, Working
<1>2. \A t \in Sessions : Succeeded(t)'
  <2>1. \A t \in Sessions : Succeeded(t) BY Zenon DEF Inv
  <2> QED BY <2>1 DEF Succeeded
<1>3. ASSUME NEW k \in Handlers, k # h PROVE Served(k)'
  <2>1. CASE req[k].s = req[h].s
    <3>1. /\ req[k].pc \in Detaching => req[h].pc \notin Detaching
          /\ req[k].pc \in Stopping => req[h].pc \notin Stopping
      BY <1>3, <1>c, <2>1, Zenon DEF Alone
    <3> QED BY <1>3, <1>b, <2>1, <3>1 DEF Served, Detaching, Stopping
  <2>2. CASE req[k].s # req[h].s BY <1>3, <1>b, <2>2 DEF Served, Detaching, Stopping
  <2> QED BY <2>1, <2>2, Zenon
<1>4. Alone'
  <2>1. req'[h].pc \in Detaching /\ req[h].pc \notin Detaching =>
          \A k \in Handlers : req[k].s = req[h].s => req[k].pc \notin Detaching
    BY <1>b, ZenonT(60) DEF Served
  <2> QED BY <1>c, <2>1 DEF Alone, Detaching, Stopping
<1>5. \A t \in Sessions : t # req[h].s =>
        (Doing(t, {"forget"})' <=> Doing(t, {"forget"})) /\ (Doing(t, {"ttyCommit"})' <=> Doing(t, {"ttyCommit"}))
  BY Zenon DEF Doing
<1>6. \A t \in Sessions, d \in Devices : t # req[h].s => (Holds(t, d)' <=> Holds(t, d))
  BY <1>5, Zenon DEF Holds
<1> QED BY <1>1, <1>2, <1>3, <1>4, <1>6, Zenon

\* An idle handler has nothing.
LEMMA AnsweredServed ==
  ASSUME NEW h \in Handlers, Answered(h)
  PROVE  Served(h)' /\ req'[h].pc = "idle" /\ req'[h].s = None
BY NodeAssumption DEF Served, Answered, Idle, Detaching, Stopping

\* A step of a request is settled by what it does to its own session.
LEMMA HandlerKeeps ==
  ASSUME Inv, NEW h \in Handlers, NEW s \in Sessions, req[h].s = s, HandlerFrame(h),
         Types', Started(s)', Live(s)', Served(h)', DevicesAccounted',
         \A d \in Devices : attached'[d] = attached[d] \/ Holds(s, d),
         s \in dropped' => s \in dropped \cup asked \cup late \/ tty'[s] = "gone"
  PROVE  Inv'
<1>1. \A t \in Sessions : t # s => Live(t)'
  <2> SUFFICES ASSUME NEW t \in Sessions, t # s PROVE Live(t)'
    BY Zenon
  <2>1. /\ Live(t)
        /\ Holds(t, start[t].dev) => ~Holds(s, start[t].dev) \/ start[t].dev \notin Devices
    BY Zenon DEF Inv, DevicesAccounted, HandlerFrame
  <2>2. (vm[t] = "running" \/ t \in fs \/ start[t].pc \in {"mount", "boot"}) => Holds(t, start[t].dev)
    BY LiveHolds, Zenon
  <2> QED BY <2>1, <2>2, Zenon DEF Live, HandlerFrame
<1>2. DropsHaveCause'
  <2>1. ASSUME NEW t \in dropped' PROVE t \in asked \cup late \/ start[t].pc = "failed" \/ tty'[t] = "gone"
    <3>1. t \in Sessions BY Zenon DEF Types
    <3>2. CASE t = s BY <2>1, <3>2, NodeAssumption, Zenon DEF Inv, DropsHaveCause, HandlerFrame
    <3>3. CASE t # s BY <2>1, <3>1, <3>3, Zenon DEF Inv, DropsHaveCause, HandlerFrame
    <3> QED BY <3>2, <3>3, Zenon
  <2> QED BY <2>1, Zenon DEF DropsHaveCause, HandlerFrame
<1> QED BY <1>1, <1>2, HandlerFrameKeeps, Zenon DEF Inv

\* Most steps of a request do not change who holds what.
LEMMA HandlerKeepsDevices ==
  ASSUME Inv, NEW h \in Handlers, NEW s \in Sessions, req[h].s = s, HandlerFrame(h), used' = used,
         mounts'[s] = mounts[s], tty'[s] = tty[s],
         req[h].pc \notin {"forget", "ttyCommit"}, req'[h].pc \notin {"forget", "ttyCommit"}
  PROVE  DevicesAccounted'
<1>1. /\ Doing(s, {"forget"})' <=> Doing(s, {"forget"})
      /\ Doing(s, {"ttyCommit"})' <=> Doing(s, {"ttyCommit"})
  BY Zenon DEF Doing, HandlerFrame
<1>2. \A d \in Devices : Holds(s, d)' <=> Holds(s, d)
  BY <1>1, Zenon DEF Holds, HandlerFrame
<1> QED BY <1>2, HandlerFrameKeeps, KeepDevices, Zenon DEF Inv, HandlerFrame

\* A request that detaches a mount has its device.
LEMMA MountHolds ==
  ASSUME Inv, NEW h \in Handlers, NEW s \in Sessions, req[h].s = s, req[h].pc \in {"disconnect", "release"}
  PROVE  Holds(s, req[h].dev) /\ req[h].dev \in Devices /\ mounts[s] = req[h].dev
<1>1. Served(h) /\ Alone BY Zenon DEF Inv
<1>2. ~Doing(s, {"forget"}) BY <1>1, Zenon DEF Alone, Doing, Detaching
<1> QED BY <1>1, <1>2, Zenon DEF Holds, Served, Detaching

\* A request that stops a terminal has its device until it released it.
LEMMA TerminalHolds ==
  ASSUME Inv, NEW h \in Handlers, NEW s \in Sessions, req[h].s = s, req[h].pc \in {"ttySync", "ttyDetach"}
  PROVE  /\ tty[s] = "stopping" /\ start[s].dev \in Devices /\ mounts[s] = None
         /\ Holds(s, start[s].dev) /\ \A d \in Devices : Holds(s, d) => d = start[s].dev
<1>1. Served(h) /\ Started(s) /\ Alone BY Zenon DEF Inv
<1>2. ~Doing(s, {"ttyCommit"}) BY <1>1, Zenon DEF Alone, Doing, Stopping
<1>3. start[s].pc = "ready" /\ tty[s] = "stopping" BY <1>1, Zenon DEF Served, Stopping
<1>4. start[s].dev \in Devices /\ mounts[s] = None BY <1>1, <1>3, NodeAssumption, Zenon DEF Started
<1> QED BY <1>2, <1>3, <1>4, NodeAssumption, Zenon DEF Holds

-----------------------------------------------------------------------------
(* Every step of a start keeps the invariant.                              *)


\* A session that begins has nothing yet.
LEMMA StartSessionKeeps ==
  ASSUME Inv, NEW s \in Sessions, NEW rt \in Runtimes, StartSession(s, rt)
  PROVE  Inv'
<1> USE NodeAssumption DEF engine, maps, host, history, StartSession
<1>0. Types /\ Started(s) /\ Live(s) /\ Succeeded(s) BY Zenon DEF Inv
<1>1. /\ start[s].pc = "none" /\ start' \in StartType
      /\ start'[s].pc \in {"export", "alloc"} /\ start'[s].dev = None
      /\ \A t \in Sessions : t # s => start'[t] = start[t]
  BY Zenon DEF Inv, Types, StartType, StartPcs
<1>2. StartFrame(s) BY <1>0, <1>1, Zenon DEF Types, StartFrame, Moved
<1>3. Types' BY <1>0, <1>1, Zenon DEF Types, StartType, Moved
<1>4. Started(s)' BY <1>0, <1>1, Zenon DEF Types, Started, Working, Moved
<1>5. Live(s)' BY <1>0, <1>1, Zenon DEF Types, Started, Live, Working, Moved
<1>6. Succeeded(s)' BY <1>0, <1>1, Zenon DEF Succeeded, Live, Moved
<1>7. DevicesAccounted'
  BY <1>0, <1>1, <1>2, <1>4, StartKeepsDevices, Zenon DEF Started, Working, Moved
<1>8. \A d \in Devices : attached'[d] = attached[d] \/ Holds(s, d) \/ attached[d] = None BY Zenon
<1>9. (dropped' = dropped /\ start[s].pc # "failed") \/ start'[s].pc = "failed" BY <1>1, Zenon
<1> QED BY <1>2, <1>3, <1>4, <1>5, <1>6, <1>7, <1>8, <1>9, StartKeeps, Zenon

\* A plain export needs no device.
LEMMA RegisterExportKeeps ==
  ASSUME Inv, NEW s \in Sessions, RegisterExport(s)
  PROVE  Inv'
<1> USE NodeAssumption DEF engine, maps, host, history, RegisterExport
<1>0. Types /\ Started(s) /\ Live(s) /\ Succeeded(s) BY Zenon DEF Inv
<1>1. start[s].pc = "export" /\ Moved(s, "ready", start[s].dev)
  BY <1>0, GoStep, Zenon DEF StartPcs, Working
<1>2. StartFrame(s) BY <1>0, <1>1, Zenon DEF Types, StartFrame, Moved
<1>3. Types' BY <1>0, <1>1, Zenon DEF Types, StartType, Moved
<1>4. Started(s)' BY <1>0, <1>1, Zenon DEF Types, Started, Working, Moved
<1>5. Live(s)' BY <1>0, <1>1, Zenon DEF Types, Started, Live, Working, Moved
<1>6. Succeeded(s)' BY <1>0, <1>1, Zenon DEF Succeeded, Live, Moved
<1>7. DevicesAccounted'
  BY <1>0, <1>1, <1>2, <1>4, StartKeepsDevices, Zenon DEF Started, Working, Moved
<1>8. \A d \in Devices : attached'[d] = attached[d] \/ Holds(s, d) \/ attached[d] = None BY Zenon
<1>9. (dropped' = dropped /\ start[s].pc # "failed") \/ start'[s].pc = "failed" BY <1>1, Zenon
<1> QED BY <1>2, <1>3, <1>4, <1>5, <1>6, <1>7, <1>8, <1>9, StartKeeps, Zenon

\* A start takes a free device or fails.
LEMMA allocateNBDDeviceKeeps ==
  ASSUME Inv, NEW s \in Sessions, allocateNBDDevice(s)
  PROVE  Inv'
<1> USE NodeAssumption DEF engine, maps, host, history
<1>0. /\ start[s].pc = "alloc"
      /\ UNCHANGED <<engine, exports, mounts, tty, host, conns, req, history>>
      /\ \/ \E d \in Devices \ used :
               /\ start' = [start EXCEPT ![s] = [pc |-> "attach", rt |-> @.rt, dev |-> d]]
               /\ used' = used \cup {d}
         \/ Go(s, "alloc", "abort") /\ UNCHANGED used
  BY Zenon DEF allocateNBDDevice
<1>1. /\ start[s].pc = "alloc"
      /\ \/ \E d \in Devices \ used : Moved(s, "attach", d) /\ used' = used \cup {d}
         \/ Moved(s, "abort", start[s].dev) /\ used' = used
  <2>1. ASSUME NEW d \in Devices, start' = [start EXCEPT ![s] = [pc |-> "attach", rt |-> @.rt, dev |-> d]]
        PROVE  Moved(s, "attach", d)
    BY <2>1, Zenon DEF Inv, Types, StartType, StartPcs, Working, Moved
  <2>2. Go(s, "alloc", "abort") => Moved(s, "abort", start[s].dev)
    BY GoStep, Zenon DEF Inv, StartPcs
  <2> QED BY <1>0, <2>1, <2>2, Zenon
<1>2. StartFrame(s) BY <1>0, <1>1, Zenon DEF Inv, Types, StartFrame, Moved
<1>3. Types' BY <1>0, <1>1, Zenon DEF Inv, Types, Moved
<1>4. Started(s)' BY <1>0, <1>1 DEF Inv, Types, Started, Working, Moved
<1>5. Live(s)' BY <1>0, <1>1, Zenon DEF Inv, Types, Started, Live, Moved
<1>6. Succeeded(s)' BY <1>0, <1>1, Zenon DEF Inv, Succeeded, Moved
<1>7. DevicesAccounted'
  <2>1. CASE \E d \in Devices \ used : Moved(s, "attach", d) /\ used' = used \cup {d}
    <3>1. PICK e \in Devices \ used : Moved(s, "attach", e) /\ used' = used \cup {e} BY <2>1, Zenon
    <3>2. \A d \in Devices : ~Holds(s, d) /\ (Holds(s, d)' <=> d = e)
      BY <1>1, <1>2, <1>4, <3>1, StartHolds, Zenon DEF Moved, Working
    <3>3. \A t \in lost : t \in lost' /\ start'[t].dev = start[t].dev
      BY <1>0, <1>2, Zenon DEF Inv, Types, StartFrame, Started
    <3> QED BY <1>2, <3>1, <3>2, <3>3, StartFrameKeeps, TakeDevice, Zenon DEF Inv
  <2>2. CASE Moved(s, "abort", start[s].dev) /\ used' = used
    BY <1>1, <1>2, <1>4, <2>2, StartKeepsDevices, Zenon DEF Working, Moved
  <2> QED BY <1>1, <2>1, <2>2, Zenon
<1> QED BY <1>0, <1>2, <1>3, <1>4, <1>5, <1>6, <1>7, StartKeeps, Zenon

\* nbd-client connects a free device to the session that took it.
LEMMA AttachKeeps ==
  ASSUME Inv, NEW s \in Sessions, Attach(s)
  PROVE  Inv'
<1> USE NodeAssumption DEF engine, maps, host, history, Attach
<1>0. Types /\ Started(s) /\ Live(s) /\ Succeeded(s) BY Zenon DEF Inv
<1>1. /\ start[s].pc = "attach" /\ start[s].dev \in Devices
      /\ \/ /\ attached[start[s].dev] = None /\ attached' = [attached EXCEPT ![start[s].dev] = s]
            /\ Moved(s, IF start[s].rt = "mounted" THEN "mount" ELSE "boot", start[s].dev)
         \/ Moved(s, "cleanup", start[s].dev) /\ attached' = attached
  BY <1>0, GoStep, Zenon DEF Started, StartPcs, Working
<1>2. StartFrame(s) BY <1>0, <1>1, Zenon DEF Types, StartFrame, Moved
<1>3. Types' BY <1>0, <1>1 DEF Types, StartType, Moved
<1>4. Started(s)' BY <1>0, <1>1, Zenon DEF Types, Started, Working, Moved
<1>5. Live(s)' BY <1>0, <1>1 DEF Types, Started, Live, Working, Moved
<1>6. Succeeded(s)' BY <1>0, <1>1, Zenon DEF Succeeded, Live, Moved
<1>7. DevicesAccounted'
  BY <1>0, <1>1, <1>2, <1>4, StartKeepsDevices, Zenon DEF Started, Working, Moved
<1>8. \A d \in Devices : attached'[d] = attached[d] \/ Holds(s, d) \/ attached[d] = None
  BY <1>0, <1>1, Zenon DEF Types
<1>9. (dropped' = dropped /\ start[s].pc # "failed") \/ start'[s].pc = "failed" BY <1>1, Zenon
<1> QED BY <1>2, <1>3, <1>4, <1>5, <1>6, <1>7, <1>8, <1>9, StartKeeps, Zenon

\* A mounted session hands its device to the map of mounts.
LEMMA MountKeeps ==
  ASSUME Inv, NEW s \in Sessions, Mount(s)
  PROVE  Inv'
<1> USE NodeAssumption DEF engine, maps, host, history, Mount
<1>0. Types /\ Started(s) /\ Live(s) /\ Succeeded(s) BY Zenon DEF Inv
<1>1. /\ start[s].pc = "mount"
      /\ \/ Moved(s, "ready", start[s].dev) /\ fs' = fs \cup {s} /\ mounts' = [mounts EXCEPT ![s] = start[s].dev]
         \/ Moved(s, "cleanup", start[s].dev) /\ UNCHANGED <<fs, mounts>>
  BY <1>0, GoStep, Zenon DEF StartPcs, Working
<1>2. StartFrame(s) BY <1>0, <1>1, Zenon DEF Types, StartFrame, Moved
<1>3. Types' BY <1>0, <1>1 DEF Types, StartType, Moved
<1>4. Started(s)' BY <1>0, <1>1 DEF Types, Started, Working, Moved
<1>5. Live(s)' BY <1>0, <1>1, Zenon DEF Types, Started, Live, Working, Moved
<1>6. Succeeded(s)' BY <1>0, <1>1, Zenon DEF Succeeded, Live, Moved
<1>7. DevicesAccounted'
  BY <1>0, <1>1, <1>2, <1>4, StartKeepsDevices, Zenon DEF Types, Started, Working, Moved
<1>8. \A d \in Devices : attached'[d] = attached[d] \/ Holds(s, d) \/ attached[d] = None BY Zenon
<1>9. (dropped' = dropped /\ start[s].pc # "failed") \/ start'[s].pc = "failed" BY <1>1, Zenon
<1> QED BY <1>2, <1>3, <1>4, <1>5, <1>6, <1>7, <1>8, <1>9, StartKeeps, Zenon

\* The error path detaches and releases its own device.
LEMMA CleanupKeeps ==
  ASSUME Inv, NEW s \in Sessions, Cleanup(s)
  PROVE  Inv'
<1> USE NodeAssumption DEF engine, maps, host, history, Cleanup
<1>0. Types /\ Started(s) /\ Live(s) /\ Succeeded(s) BY Zenon DEF Inv
<1>1. start[s].pc = "cleanup" /\ Moved(s, "abort", start[s].dev)
  BY <1>0, GoStep, Zenon DEF StartPcs, Working
<1>2. StartFrame(s) BY <1>0, <1>1, Zenon DEF Types, StartFrame, Moved, releaseNBDDevice
<1>3. Types' BY <1>0, <1>1, Zenon DEF Types, StartType, Moved, releaseNBDDevice
<1>4. Started(s)' BY <1>0, <1>1, Zenon DEF Types, Started, Working, Moved, releaseNBDDevice
<1>5. Live(s)' BY <1>0, <1>1, Zenon DEF Types, Started, Live, Working, Moved, releaseNBDDevice
<1>6. Succeeded(s)' BY <1>0, <1>1, Zenon DEF Succeeded, Live, Moved, releaseNBDDevice
<1>7. DevicesAccounted'
  <2>1. start[s].dev \in Devices BY <1>0, <1>1, Zenon DEF Started, Working
  <2>2. Holds(s, start[s].dev) /\ \A d \in Devices : (Holds(s, d) => d = start[s].dev) /\ ~Holds(s, d)'
    BY <1>0, <1>1, <1>2, <1>4, <2>1, StartHolds, Zenon DEF Started, Moved, Working
  <2>3. \A t \in lost : t \in lost' /\ start'[t].dev = start[t].dev
    BY <1>1, <1>2, Zenon DEF Inv, Types, StartFrame, Started, Moved
  <2> QED BY <1>2, <2>1, <2>2, <2>3, StartFrameKeeps, ReleaseDevice, Zenon DEF Inv, releaseNBDDevice
<1>8. \A d \in Devices : attached'[d] = attached[d] \/ Holds(s, d) \/ attached[d] = None
  <2>1. Holds(s, start[s].dev) BY <1>1, Zenon DEF Holds
  <2> QED BY <1>0, <2>1, Zenon DEF Types
<1>9. (dropped' = dropped /\ start[s].pc # "failed") \/ start'[s].pc = "failed" BY <1>1, Zenon
<1> QED BY <1>2, <1>3, <1>4, <1>5, <1>6, <1>7, <1>8, <1>9, StartKeeps, Zenon

\* A start that failed drops its session.
LEMMA AbortKeeps ==
  ASSUME Inv, NEW s \in Sessions, Abort(s)
  PROVE  Inv'
<1> USE NodeAssumption DEF engine, maps, host, history, Abort
<1>0. Types /\ Started(s) /\ Live(s) /\ Succeeded(s) BY Zenon DEF Inv
<1>1. start[s].pc = "abort" /\ Moved(s, "failed", start[s].dev)
  BY <1>0, GoStep, Zenon DEF StartPcs, Working
<1>2. StartFrame(s) BY <1>0, <1>1, Zenon DEF Types, StartFrame, Moved, Stop
<1>3. Types' BY <1>0, <1>1, Zenon DEF Types, StartType, Moved, Stop
<1>4. Started(s)' BY <1>0, <1>1, Zenon DEF Types, Started, Working, Moved, Stop
<1>5. Live(s)' BY <1>0, <1>1, Zenon DEF Types, Started, Live, Working, Moved, Stop
<1>6. Succeeded(s)' BY <1>0, <1>1, Zenon DEF Succeeded, Live, Moved, Stop
<1>7. DevicesAccounted'
  BY <1>0, <1>1, <1>2, <1>4, StartKeepsDevices, Zenon DEF Started, Working, Moved, Stop
<1>8. \A d \in Devices : attached'[d] = attached[d] \/ Holds(s, d) \/ attached[d] = None BY Zenon
<1>9. (dropped' = dropped /\ start[s].pc # "failed") \/ start'[s].pc = "failed"
  BY <1>1, Zenon DEF Moved
<1> QED BY <1>2, <1>3, <1>4, <1>5, <1>6, <1>7, <1>8, <1>9, StartKeeps, Zenon

\* A machine starts on an attached device.
LEMMA BootKeeps ==
  ASSUME Inv, NEW s \in Sessions, Boot(s)
  PROVE  Inv'
<1> USE NodeAssumption DEF engine, maps, host, history, Boot
<1>0. Types /\ Started(s) /\ Live(s) /\ Succeeded(s) BY Zenon DEF Inv
<1>1. /\ start[s].pc = "boot"
      /\ \/ /\ Moved(s, IF start[s].rt = "restore" THEN "restoring" ELSE "running", start[s].dev)
            /\ vm' = [vm EXCEPT ![s] = "running"]
         \/ Moved(s, "cleanup", start[s].dev) /\ vm' = vm
  BY <1>0, GoStep, Zenon DEF StartPcs, Working
<1>2. StartFrame(s) BY <1>0, <1>1 DEF Types, StartFrame, Moved
<1>3. Types' BY <1>0, <1>1, Zenon DEF Types, StartType, Moved
<1>4. Started(s)' BY <1>0, <1>1, Zenon DEF Types, Started, Working, Moved
<1>5. Live(s)' BY <1>0, <1>1, Zenon DEF Types, Started, Live, Working, Moved
<1>6. Succeeded(s)'
  <2>1. vm \in [Sessions -> {None, "running", "ok", "bad", "killed"}] BY <1>0, Zenon DEF Types
  <2> QED BY <1>0, <1>1, <2>1, Zenon DEF Succeeded, Live, Moved
<1>7. DevicesAccounted'
  BY <1>0, <1>1, <1>2, <1>4, StartKeepsDevices, Zenon DEF Started, Working, Moved
<1>8. \A d \in Devices : attached'[d] = attached[d] \/ Holds(s, d) \/ attached[d] = None BY Zenon
<1>9. (dropped' = dropped /\ start[s].pc # "failed") \/ start'[s].pc = "failed" BY <1>1, Zenon
<1> QED BY <1>2, <1>3, <1>4, <1>5, <1>6, <1>7, <1>8, <1>9, StartKeeps, Zenon

\* A terminal takes over the device of its start.
LEMMA MarkerSeenKeeps ==
  ASSUME Inv, NEW s \in Sessions, MarkerSeen(s)
  PROVE  Inv'
<1> USE NodeAssumption DEF engine, maps, host, history, MarkerSeen
<1>0. Types /\ Started(s) /\ Live(s) /\ Succeeded(s) BY Zenon DEF Inv
<1>1. /\ start[s].pc = "running" /\ marker[s] = "seen"
      /\ Moved(s, IF start[s].rt = "tty" THEN "ready" ELSE "marked", start[s].dev)
  BY <1>0, GoStep, Zenon DEF StartPcs, Working
<1>2. StartFrame(s) BY <1>0, <1>1, Zenon DEF Types, StartFrame, Moved
<1>3. Types' BY <1>0, <1>1, Zenon DEF Types, StartType, Moved
<1>4. Started(s)' BY <1>0, <1>1, Zenon DEF Types, Started, Working, Moved
<1>5. Live(s)' BY <1>0, <1>1, Zenon DEF Types, Started, Live, Working, Moved
<1>6. Succeeded(s)' BY <1>0, <1>1, Zenon DEF Succeeded, Live, Moved
<1>7. DevicesAccounted'
  BY <1>0, <1>1, <1>2, <1>4, StartKeepsDevices, Zenon DEF Types, Started, Working, Moved
<1>8. \A d \in Devices : attached'[d] = attached[d] \/ Holds(s, d) \/ attached[d] = None BY Zenon
<1>9. (dropped' = dropped /\ start[s].pc # "failed") \/ start'[s].pc = "failed" BY <1>1, Zenon
<1> QED BY <1>2, <1>3, <1>4, <1>5, <1>6, <1>7, <1>8, <1>9, StartKeeps, Zenon

\* A failed run leaves no machine.
LEMMA RunErrorKeeps ==
  ASSUME Inv, NEW s \in Sessions, RunError(s)
  PROVE  Inv'
<1> USE NodeAssumption DEF engine, maps, host, history, RunError
<1>0. Types /\ Started(s) /\ Live(s) /\ Succeeded(s) BY ZenonT(60) DEF Inv
<1>1. start[s].pc = "running" /\ Moved(s, "cleanup", start[s].dev)
  BY <1>0, GoStep, Zenon DEF StartPcs, Working
<1>2. StartFrame(s) BY <1>0, <1>1, Zenon DEF Types, StartFrame, Moved, Kill
<1>3. Types' BY <1>0, <1>1, Zenon DEF Types, StartType, Moved, Kill
<1>4. Started(s)' BY <1>0, <1>1, Zenon DEF Types, Started, Working, Moved, Kill
<1>5. Live(s)' BY <1>0, <1>1, Zenon DEF Types, Started, Live, Working, Moved, Kill
<1>6. Succeeded(s)'
  <2>1. vm \in [Sessions -> {None, "running", "ok", "bad", "killed"}] BY <1>0, ZenonT(60) DEF Types
  <2> QED BY <1>0, <1>1, <2>1, Zenon DEF Succeeded, Live, Moved, Kill
<1>7. DevicesAccounted'
  BY <1>0, <1>1, <1>2, <1>4, StartKeepsDevices, Zenon DEF Started, Working, Moved, Kill
<1>8. \A d \in Devices : attached'[d] = attached[d] \/ Holds(s, d) \/ attached[d] = None BY Zenon
<1>9. (dropped' = dropped /\ start[s].pc # "failed") \/ start'[s].pc = "failed" BY <1>1, Zenon
<1> QED BY <1>2, <1>3, <1>4, <1>5, <1>6, <1>7, <1>8, <1>9, StartKeeps, Zenon

\* A run goes on only when its machine ended well.
LEMMA WaitExitKeeps ==
  ASSUME Inv, NEW s \in Sessions, WaitExit(s)
  PROVE  Inv'
<1> USE NodeAssumption DEF engine, maps, host, history, WaitExit
<1>0. Types /\ Started(s) /\ Live(s) /\ Succeeded(s) BY ZenonT(60) DEF Inv
<1>1. /\ start[s].pc = "marked" /\ start[s].rt # "save"
      /\ \/ vm[s] = "ok" /\ vm' = vm /\ Moved(s, "flush", start[s].dev)
         \/ vm[s] # "ok" /\ Kill(s) /\ Moved(s, "cleanup", start[s].dev)
  BY <1>0, GoStep, Zenon DEF StartPcs, Working
<1>2. StartFrame(s) BY <1>0, <1>1, Zenon DEF Types, StartFrame, Moved, Kill
<1>3. Types' BY <1>0, <1>1 DEF Types, StartType, Moved, Kill
<1>4. Started(s)' BY <1>0, <1>1, Zenon DEF Types, Started, Working, Moved, Kill
<1>5. Live(s)' BY <1>0, <1>1, Zenon DEF Types, Started, Live, Working, Moved, Kill
<1>6. Succeeded(s)'
  <2>1. vm \in [Sessions -> {None, "running", "ok", "bad", "killed"}] BY <1>0, ZenonT(60) DEF Types
  <2> QED BY <1>0, <1>1, <2>1, Zenon DEF Succeeded, Live, Moved, Kill
<1>7. DevicesAccounted'
  BY <1>0, <1>1, <1>2, <1>4, StartKeepsDevices, Zenon DEF Started, Working, Moved, Kill
<1>8. \A d \in Devices : attached'[d] = attached[d] \/ Holds(s, d) \/ attached[d] = None BY Zenon
<1>9. (dropped' = dropped /\ start[s].pc # "failed") \/ start'[s].pc = "failed" BY <1>1, Zenon
<1> QED BY <1>2, <1>3, <1>4, <1>5, <1>6, <1>7, <1>8, <1>9, StartKeeps, Zenon

\* A saved machine is killed before the flush.
LEMMA SaveMemoryKeeps ==
  ASSUME Inv, NEW s \in Sessions, SaveMemory(s)
  PROVE  Inv'
<1> USE NodeAssumption DEF engine, maps, host, history, SaveMemory
<1>0. Types /\ Started(s) /\ Live(s) /\ Succeeded(s) BY Zenon DEF Inv
<1>1. /\ start[s].pc = "marked" /\ start[s].rt = "save"
      /\ \/ vm[s] = "running" /\ Moved(s, "flush", start[s].dev)
         \/ Moved(s, "cleanup", start[s].dev)
  BY <1>0, GoStep, Zenon DEF StartPcs, Working
<1>2. StartFrame(s) BY <1>0, <1>1, Zenon DEF Types, StartFrame, Moved, Kill
<1>3. Types' BY <1>0, <1>1, Zenon DEF Types, StartType, Moved, Kill
<1>4. Started(s)' BY <1>0, <1>1, Zenon DEF Types, Started, Working, Moved, Kill
<1>5. Live(s)' BY <1>0, <1>1, Zenon DEF Types, Started, Live, Working, Moved, Kill
<1>6. Succeeded(s)'
  <2>1. vm \in [Sessions -> {None, "running", "ok", "bad", "killed"}] BY <1>0, ZenonT(60) DEF Types
  <2> QED BY <1>0, <1>1, <2>1, Zenon DEF Succeeded, Live, Moved, Kill
<1>7. DevicesAccounted'
  BY <1>0, <1>1, <1>2, <1>4, StartKeepsDevices, Zenon DEF Started, Working, Moved, Kill
<1>8. \A d \in Devices : attached'[d] = attached[d] \/ Holds(s, d) \/ attached[d] = None BY Zenon
<1>9. (dropped' = dropped /\ start[s].pc # "failed") \/ start'[s].pc = "failed" BY <1>1, Zenon
<1> QED BY <1>2, <1>3, <1>4, <1>5, <1>6, <1>7, <1>8, <1>9, StartKeeps, Zenon

\* A restored machine is stopped before the detach.
LEMMA RestoreKeeps ==
  ASSUME Inv, NEW s \in Sessions, Restore(s)
  PROVE  Inv'
<1> USE NodeAssumption DEF engine, maps, host, history, Restore
<1>0. Types /\ Started(s) /\ Live(s) /\ Succeeded(s) BY Zenon DEF Inv
<1>1. start[s].pc = "restoring" /\ \E to \in {"detach", "cleanup"} : Moved(s, to, start[s].dev)
  BY <1>0, GoStep, Zenon DEF StartPcs, Working
<1>2. StartFrame(s) BY <1>0, <1>1, Zenon DEF Types, StartFrame, Moved, Kill
<1>3. Types' BY <1>0, <1>1, Zenon DEF Types, StartType, Moved, Kill
<1>4. Started(s)' BY <1>0, <1>1, Zenon DEF Types, Started, Working, Moved, Kill
<1>5. Live(s)' BY <1>0, <1>1, Zenon DEF Types, Started, Live, Working, Moved, Kill
<1>6. Succeeded(s)'
  <2>1. vm \in [Sessions -> {None, "running", "ok", "bad", "killed"}] BY <1>0, Zenon DEF Types
  <2> QED BY <1>0, <1>1, <2>1, Zenon DEF Succeeded, Live, Moved, Kill
<1>7. DevicesAccounted'
  BY <1>0, <1>1, <1>2, <1>4, StartKeepsDevices, Zenon DEF Started, Working, Moved, Kill
<1>8. \A d \in Devices : attached'[d] = attached[d] \/ Holds(s, d) \/ attached[d] = None BY Zenon
<1>9. (dropped' = dropped /\ start[s].pc # "failed") \/ start'[s].pc = "failed" BY <1>1, Zenon
<1> QED BY <1>2, <1>3, <1>4, <1>5, <1>6, <1>7, <1>8, <1>9, StartKeeps, Zenon

\* The flush changes no resource.
LEMMA FlushKeeps ==
  ASSUME Inv, NEW s \in Sessions, Flush(s)
  PROVE  Inv'
<1> USE NodeAssumption DEF engine, maps, host, history, Flush
<1>0. Types /\ Started(s) /\ Live(s) /\ Succeeded(s) BY Zenon DEF Inv
<1>1. start[s].pc = "flush" /\ \E to \in {"detach", "cleanup"} : Moved(s, to, start[s].dev)
  BY <1>0, GoStep, Zenon DEF StartPcs, Working
<1>2. StartFrame(s) BY <1>0, <1>1, Zenon DEF Types, StartFrame, Moved
<1>3. Types' BY <1>0, <1>1, Zenon DEF Types, StartType, Moved
<1>4. Started(s)' BY <1>0, <1>1, Zenon DEF Types, Started, Working, Moved
<1>5. Live(s)' BY <1>0, <1>1, Zenon DEF Types, Started, Live, Working, Moved
<1>6. Succeeded(s)' BY <1>0, <1>1, Zenon DEF Succeeded, Live, Moved
<1>7. DevicesAccounted'
  BY <1>0, <1>1, <1>2, <1>4, StartKeepsDevices, Zenon DEF Started, Working, Moved
<1>8. \A d \in Devices : attached'[d] = attached[d] \/ Holds(s, d) \/ attached[d] = None BY Zenon
<1>9. (dropped' = dropped /\ start[s].pc # "failed") \/ start'[s].pc = "failed" BY <1>1, Zenon
<1> QED BY <1>2, <1>3, <1>4, <1>5, <1>6, <1>7, <1>8, <1>9, StartKeeps, Zenon

\* A finished run releases its device.
LEMMA DetachKeeps ==
  ASSUME Inv, NEW s \in Sessions, Detach(s)
  PROVE  Inv'
<1> USE NodeAssumption DEF engine, maps, host, history, Detach
<1>0. Types /\ Started(s) /\ Live(s) /\ Succeeded(s) BY Zenon DEF Inv
<1>1. /\ start[s].pc = "detach"
      /\ \/ Moved(s, "ready", start[s].dev)
         \/ start[s].rt # "restore" /\ Moved(s, "commit", start[s].dev)
  BY <1>0, GoStep DEF StartPcs, Working
<1>2. StartFrame(s) BY <1>0, <1>1, Zenon DEF Types, StartFrame, Moved, releaseNBDDevice
<1>3. Types' BY <1>0, <1>1, Zenon DEF Types, StartType, Moved, releaseNBDDevice
<1>4. Started(s)' BY <1>0, <1>1, Zenon DEF Types, Started, Working, Moved, releaseNBDDevice
<1>5. Live(s)' BY <1>0, <1>1, Zenon DEF Types, Started, Live, Working, Moved, releaseNBDDevice
<1>6. Succeeded(s)' BY <1>0, <1>1, Zenon DEF Succeeded, Live, Moved, releaseNBDDevice
<1>7. DevicesAccounted'
  <2>1. start[s].dev \in Devices BY <1>0, <1>1, Zenon DEF Started, Working
  <2>2. Holds(s, start[s].dev) /\ \A d \in Devices : (Holds(s, d) => d = start[s].dev) /\ ~Holds(s, d)'
    BY <1>0, <1>1, <1>2, <1>4, <2>1, StartHolds DEF Started, Moved, Working
  <2>3. \A t \in lost : t \in lost' /\ start'[t].dev = start[t].dev
    BY <1>1, <1>2, Zenon DEF Inv, Types, StartFrame, Started, Moved
  <2> QED BY <1>2, <2>1, <2>2, <2>3, StartFrameKeeps, ReleaseDevice, Zenon DEF Inv, releaseNBDDevice
<1>8. \A d \in Devices : attached'[d] = attached[d] \/ Holds(s, d) \/ attached[d] = None
  <2>1. Holds(s, start[s].dev) BY <1>1, Zenon DEF Holds
  <2> QED BY <1>0, <2>1, Zenon DEF Types
<1>9. (dropped' = dropped /\ start[s].pc # "failed") \/ start'[s].pc = "failed" BY <1>1, Zenon
<1> QED BY <1>2, <1>3, <1>4, <1>5, <1>6, <1>7, <1>8, <1>9, StartKeeps, Zenon

\* The commit of a run changes no resource.
LEMMA CommitRunKeeps ==
  ASSUME Inv, NEW s \in Sessions, CommitRun(s)
  PROVE  Inv'
<1> USE NodeAssumption DEF engine, maps, host, history, CommitRun
<1>0. Types /\ Started(s) /\ Live(s) /\ Succeeded(s) BY Zenon DEF Inv
<1>1. start[s].pc = "commit" /\ \E to \in {"ready", "abort"} : Moved(s, to, start[s].dev)
  BY <1>0, GoStep, Zenon DEF StartPcs, Working
<1>2. StartFrame(s) BY <1>0, <1>1, Zenon DEF Types, StartFrame, Moved
<1>3. Types' BY <1>0, <1>1, Zenon DEF Types, StartType, Moved
<1>4. Started(s)' BY <1>0, <1>1, Zenon DEF Types, Started, Working, Moved
<1>5. Live(s)' BY <1>0, <1>1, Zenon DEF Types, Started, Live, Working, Moved
<1>6. Succeeded(s)' BY <1>0, <1>1, Zenon DEF Succeeded, Live, Moved
<1>7. DevicesAccounted'
  BY <1>0, <1>1, <1>2, <1>4, StartKeepsDevices, Zenon DEF Started, Working, Moved
<1>8. \A d \in Devices : attached'[d] = attached[d] \/ Holds(s, d) \/ attached[d] = None BY Zenon
<1>9. (dropped' = dropped /\ start[s].pc # "failed") \/ start'[s].pc = "failed" BY <1>1, Zenon
<1> QED BY <1>2, <1>3, <1>4, <1>5, <1>6, <1>7, <1>8, <1>9, StartKeeps, Zenon

-----------------------------------------------------------------------------
(* Requests                                                                *)

\* Steps that touch only the engine and the exports.
LEMMA EngineKeeps ==
  ASSUME NEW s \in Sessions, UNCHANGED <<start, mounts, tty, fs, lost, vm, attached>>
  PROVE  (Started(s) => Started(s)') /\ (Live(s) => Live(s)')
BY Zenon DEF Started, Live

LEMMA EngineFrame ==
  ASSUME Types, NEW h \in Handlers, NEW s \in Sessions, req[h].s = s, start[s].pc = "ready",
         Answered(h) \/ \E to \in {"discStop", "unregister"} : Stepped(h, to, req[h].dev),
         UNCHANGED <<start, marker, late, asked, used, attached, mounts, tty, vm, fs, lost>>,
         unsaved' \subseteq unsaved, dropped' \subseteq dropped \cup {s}
  PROVE  HandlerFrame(h) /\ Types'
<1>1. /\ req' \in ReqType /\ (req'[h].s = s \/ (req'[h].pc = "idle" /\ req'[h].s = None))
      /\ req'[h].pc \notin Detaching \cup Stopping
      /\ \A k \in Handlers : k # h => req'[k] = req[k]
  BY DEF Answered, Stepped, Idle, Detaching, Stopping
<1>2. HandlerFrame(h) BY <1>1, Zenon DEF HandlerFrame
<1>3. Types' BY <1>1, Zenon DEF Types
<1> QED BY <1>2, <1>3, Zenon

\* The machine of a terminal ends before the rest.
LEMMA HaltTtyKeeps ==
  ASSUME Inv, NEW h \in Handlers, HaltTty(h)
  PROVE  Inv'
<1> USE NodeAssumption DEF engine, maps, host, history, HaltTty
<1>0. PICK s \in Sessions : req[h].s = s /\ req[h].pc # "idle" /\ start[s].pc = "ready"
                             /\ Types /\ Started(s) /\ Live(s) /\ Served(h)
  BY Zenon DEF Inv, Served, At
<1>1. /\ req[h].pc = "halt" /\ Stepped(h, "ttySync", req[h].dev)
      /\ vm' = [vm EXCEPT ![s] = IF @ = "running" THEN "killed" ELSE @]
  BY <1>0, AtStep, AnswerStep, Zenon DEF ReqPcs, Detaching, Stopping
<1>2. HandlerFrame(h)
  BY <1>0, <1>1 DEF Types, HandlerFrame, Stepped, Answered, Idle, Detaching, Stopping
<1>3. Types' BY <1>0, <1>1 DEF Types, Stepped, Answered
<1>4. Started(s)' BY <1>0, Zenon DEF Started
<1>5. Live(s)' BY <1>0, <1>1, Zenon DEF Types, Started, Served, Live, Stopping
<1>6. Served(h)'
  <2>1. vm'[s] # "running" BY <1>0, <1>1, Zenon DEF Types
  <2> QED BY <1>0, <1>1, <2>1, Zenon DEF Served, Stepped, Detaching, Stopping
<1>7. DevicesAccounted' BY <1>0, <1>1, <1>2, HandlerKeepsDevices, AnsweredServed, Zenon DEF Stepped
<1>8. \A d \in Devices : attached'[d] = attached[d] \/ Holds(s, d) BY Zenon
<1>9. s \in dropped' => s \in dropped \cup asked \cup late \/ tty'[s] = "gone" BY Zenon
<1> QED BY <1>0, <1>2, <1>3, <1>4, <1>5, <1>6, <1>7, <1>8, <1>9, HandlerKeeps, Zenon

\* A failed sync forgets the terminal and loses its device.
LEMMA SyncTtyKeeps ==
  ASSUME Inv, NEW h \in Handlers, SyncTty(h)
  PROVE  Inv'
<1> USE NodeAssumption DEF engine, maps, host, history, SyncTty
<1>0. PICK s \in Sessions : req[h].s = s /\ req[h].pc # "idle" /\ start[s].pc = "ready"
                             /\ Types /\ Started(s) /\ Live(s) /\ Served(h)
  BY Zenon DEF Inv, Served, At
<1>1. /\ req[h].pc = "ttySync"
      /\ \/ Stepped(h, "ttyDetach", req[h].dev) /\ tty' = tty /\ lost' = lost
         \/ Answered(h) /\ tty' = [tty EXCEPT ![s] = "gone"] /\ lost' = lost \cup {s}
  BY <1>0, AtStep, AnswerStep, Zenon DEF ReqPcs, Detaching, Stopping
<1>2. HandlerFrame(h)
  BY <1>0, <1>1 DEF Types, HandlerFrame, Stepped, Answered, Idle, Detaching, Stopping
<1>3. Types' BY <1>0, <1>1 DEF Types, Stepped, Answered
<1>4. Started(s)' BY <1>0, <1>1, Zenon DEF Types, Started, Working, Served, Stopping
<1>5. Live(s)' BY <1>0, <1>1, Zenon DEF Types, Started, Served, Live, Stopping
<1>6. Served(h)'
  <2>1. CASE Stepped(h, "ttyDetach", req[h].dev) /\ tty' = tty
    BY <1>0, <1>1, <2>1, Zenon DEF Served, Stepped, Detaching, Stopping
  <2> QED BY <1>1, <2>1, AnsweredServed, Zenon
<1>7. DevicesAccounted'
  <2>2. /\ tty[s] = "stopping" /\ start[s].dev \in Devices /\ mounts[s] = None
        /\ Holds(s, start[s].dev) /\ \A d \in Devices : Holds(s, d) => d = start[s].dev
    BY <1>0, <1>1, TerminalHolds, ZenonT(60)
  <2>4. CASE tty' = tty /\ Stepped(h, "ttyDetach", req[h].dev)
    BY <1>0, <1>1, <1>2, <2>4, HandlerKeepsDevices, Zenon DEF Stepped
  <2>5. CASE tty' = [tty EXCEPT ![s] = "gone"] /\ lost' = lost \cup {s}
    <3>1. \A d \in Devices : ~Holds(s, d)' BY <1>0, <2>2, <2>5, Zenon DEF Types, Holds
    <3> QED BY <1>0, <1>2, <2>2, <2>5, <3>1, HandlerFrameKeeps, LoseDevice, Zenon DEF Inv
  <2> QED BY <1>1, <2>4, <2>5, Zenon
<1>8. \A d \in Devices : attached'[d] = attached[d] \/ Holds(s, d) BY Zenon
<1>9. s \in dropped' => s \in dropped \cup asked \cup late \/ tty'[s] = "gone" BY Zenon
<1> QED BY <1>0, <1>2, <1>3, <1>4, <1>5, <1>6, <1>7, <1>8, <1>9, HandlerKeeps, Zenon

\* The terminal releases the device it still holds.
LEMMA DetachTtyKeeps ==
  ASSUME Inv, NEW h \in Handlers, DetachTty(h)
  PROVE  Inv'
<1> USE NodeAssumption DEF engine, maps, host, history, DetachTty
<1>0. PICK s \in Sessions : req[h].s = s /\ req[h].pc # "idle" /\ start[s].pc = "ready"
                             /\ Types /\ Started(s) /\ Live(s) /\ Served(h)
  BY Zenon DEF Inv, Served, At
<1>1. req[h].pc = "ttyDetach" /\ Stepped(h, "ttyCommit", req[h].dev) /\ used' = used \ {start[s].dev}
  BY <1>0, AtStep, Zenon DEF ReqPcs, Stopping, releaseNBDDevice
<1>2. HandlerFrame(h)
  BY <1>0, <1>1, Zenon DEF HandlerFrame, Stepped, Answered, Idle, Detaching, Stopping
<1>3. Types' BY <1>0, <1>1, Zenon DEF Types, Stepped, Answered
<1>4. Started(s)' BY <1>0, Zenon DEF Started
<1>5. Live(s)' BY <1>0, <1>1, Zenon DEF Types, Started, Served, Live, Stopping
<1>6. Served(h)'
  <2>1. tty'[s] = "stopping" /\ vm'[s] # "running" BY <1>0, <1>1, Zenon DEF Served, Stopping
  <2> QED BY <1>0, <1>1, <2>1, Zenon DEF Served, Stepped, Detaching, Stopping
<1>7. DevicesAccounted'
  <2>2. /\ tty[s] = "stopping" /\ start[s].dev \in Devices /\ mounts[s] = None
        /\ Holds(s, start[s].dev) /\ \A d \in Devices : Holds(s, d) => d = start[s].dev
    BY <1>0, <1>1, TerminalHolds, Zenon
  <2>4. Doing(s, {"ttyCommit"})' BY <1>0, <1>1, Zenon DEF Doing, Stepped
  <2>5. \A d \in Devices : ~Holds(s, d)' BY <1>0, <2>2, <2>4, Zenon DEF Holds
  <2> QED BY <1>0, <1>1, <1>2, <2>2, <2>5, HandlerFrameKeeps, ReleaseDevice, ZenonT(60) DEF Inv,
      HandlerFrame
<1>8. \A d \in Devices : attached'[d] = attached[d] \/ Holds(s, d)
  <2>2. /\ tty[s] = "stopping" /\ start[s].dev \in Devices /\ mounts[s] = None
        /\ Holds(s, start[s].dev) /\ \A d \in Devices : Holds(s, d) => d = start[s].dev
    BY <1>0, <1>1, TerminalHolds, Zenon
  <2> QED BY <1>0, <2>2, Zenon DEF Types
<1>9. s \in dropped' => s \in dropped \cup asked \cup late \/ tty'[s] = "gone" BY Zenon
<1> QED BY <1>0, <1>2, <1>3, <1>4, <1>5, <1>6, <1>7, <1>8, <1>9, HandlerKeeps, Zenon

\* The stop of a terminal may drop writes.
LEMMA CommitTtyKeeps ==
  ASSUME Inv, NEW h \in Handlers, CommitTty(h)
  PROVE  Inv'
<1> USE NodeAssumption DEF engine, maps, host, history, CommitTty
<1>0. PICK s \in Sessions : req[h].s = s /\ req[h].pc # "idle" /\ start[s].pc = "ready"
                             /\ Types /\ Started(s) /\ Live(s) /\ Served(h)
  BY Zenon DEF Inv, Served, At
<1>1. /\ req[h].pc = "ttyCommit" /\ Answered(h) /\ tty' = [tty EXCEPT ![s] = "gone"]
      /\ unsaved' \subseteq unsaved /\ dropped' \subseteq dropped \cup {s}
  BY <1>0, AnswerStep, Zenon DEF Stop
<1>2. HandlerFrame(h)
  <2>1. /\ \A t \in Sessions : t # s => tty'[t] = tty[t] /\ (t \in dropped' => t \in dropped)
        /\ tty'[s] = "gone" /\ UNCHANGED <<start, marker, late, asked, mounts, vm, fs, lost>>
    BY <1>0, <1>1, Zenon DEF Types
  <2> HIDE DEF CommitTty
  <2>2. /\ req'[h].pc = "idle" /\ req'[h].s = None /\ req' \in ReqType
        /\ \A k \in Handlers : k # h => req'[k] = req[k]
        /\ req[h].pc \in Stopping /\ req'[h].pc \notin Detaching \cup Stopping
    BY <1>1 DEF Answered, Idle, Detaching, Stopping
  <2>3. unsaved' \subseteq unsaved BY <1>1, Zenon
  <2> QED BY <1>0, <2>1, <2>2, <2>3, Zenon DEF HandlerFrame
<1>3. Types'
  <2>1. /\ req' \in ReqType /\ tty' \in [Sessions -> {None, "up", "stopping", "gone"}]
        /\ dropped' \in SUBSET Sessions /\ UNCHANGED <<used, mounts, attached, vm, marker, start, lost>>
    BY <1>0, <1>1 DEF Types, Answered
  <2> HIDE DEF CommitTty
  <2> QED BY <1>0, <2>1, Zenon DEF Types
<1>4. Started(s)' BY <1>0, <1>1, Zenon DEF Types, Started, Working, Served, Stopping
<1>5. Live(s)' BY <1>0, <1>1, Zenon DEF Types, Started, Served, Live, Stopping
<1>6. Served(h)' BY <1>1, AnsweredServed, Zenon
<1>7. DevicesAccounted'
  <2>1. Doing(s, {"ttyCommit"}) BY <1>0, <1>1, Zenon DEF Doing
  <2>2. mounts[s] = None /\ mounts' = mounts /\ start' = start /\ used' = used /\ tty'[s] = "gone"
    <3>1. tty[s] = "stopping" BY <1>0, <1>1, Zenon DEF Served, Stopping
    <3> QED BY <1>0, <1>1, <3>1, Zenon DEF Types, Started
  <2>3. \A d \in Devices : ~Holds(s, d) /\ ~Holds(s, d)'
    BY <1>0, <2>1, <2>2, Zenon DEF Holds
  <2> QED BY <1>0, <1>2, <2>2, <2>3, HandlerFrameKeeps, KeepDevices, Zenon DEF Inv
<1>8. \A d \in Devices : attached'[d] = attached[d] \/ Holds(s, d) BY Zenon
<1>9. s \in dropped' => s \in dropped \cup asked \cup late \/ tty'[s] = "gone"
  BY <1>0, <1>1, Zenon DEF Types
<1> QED BY <1>0, <1>2, <1>3, <1>4, <1>5, <1>6, <1>7, <1>8, <1>9, HandlerKeeps, Zenon

\* detachMountedSession reads the device of its session.
LEMMA LookupKeeps ==
  ASSUME Inv, NEW h \in Handlers, Lookup(h)
  PROVE  Inv'
<1> USE NodeAssumption DEF engine, maps, host, history, Lookup
<1>0. PICK s \in Sessions : req[h].s = s /\ req[h].pc # "idle" /\ start[s].pc = "ready"
                             /\ Types /\ Started(s) /\ Live(s) /\ Served(h)
  BY Zenon DEF Inv, Served, At
<1>1. /\ req[h].pc = "lookup"
      /\ Stepped(h, IF mounts[s] = None THEN "act" ELSE "umount", mounts[s])
  BY <1>0, Zenon DEF Types, ReqType, ReqPcs, Stepped
<1>2. HandlerFrame(h) BY <1>0, <1>1 DEF HandlerFrame, Stepped, Answered, Idle, Detaching, Stopping
<1>3. Types' BY <1>0, <1>1, Zenon DEF Types, Stepped, Answered
<1>4. Started(s)' BY <1>0, Zenon DEF Started
<1>5. Live(s)' BY <1>0, Zenon DEF Live
<1>6. Served(h)'
  BY <1>0, <1>1, AnsweredServed DEF Types, Started, Served, Stepped, Detaching, Stopping
<1>7. DevicesAccounted' BY <1>0, <1>1, <1>2, HandlerKeepsDevices DEF Stepped
<1>8. \A d \in Devices : attached'[d] = attached[d] \/ Holds(s, d) BY Zenon
<1>9. s \in dropped' => s \in dropped \cup asked \cup late \/ tty'[s] = "gone" BY Zenon
<1> QED BY <1>0, <1>2, <1>3, <1>4, <1>5, <1>6, <1>7, <1>8, <1>9, HandlerKeeps, Zenon

\* Only one request unmounts a session.
LEMMA UmountKeeps ==
  ASSUME Inv, NEW h \in Handlers, Umount(h)
  PROVE  Inv'
<1> USE NodeAssumption DEF engine, maps, host, history, Umount
<1>0. PICK s \in Sessions : req[h].s = s /\ req[h].pc # "idle" /\ start[s].pc = "ready"
                             /\ Types /\ Started(s) /\ Live(s) /\ Served(h)
  BY Zenon DEF Inv, Served, At
<1>1. /\ req[h].pc = "umount"
      /\ \/ s \in fs /\ Stepped(h, "disconnect", req[h].dev) /\ fs' = fs \ {s}
         \/ Answered(h) /\ fs' = fs
  BY <1>0, AtStep, AnswerStep, Zenon DEF ReqPcs, Detaching, Stopping
<1>2. HandlerFrame(h)
  BY <1>0, <1>1 DEF Types, HandlerFrame, Stepped, Answered, Idle, Detaching, Stopping
<1>3. Types' BY <1>0, <1>1, Zenon DEF Types, Stepped, Answered
<1>4. Started(s)' BY <1>0, <1>1, Zenon DEF Types, Started, Working
<1>5. Live(s)' BY <1>0, <1>1, Zenon DEF Types, Started, Served, Live, Stopping
<1>6. Served(h)'
  BY <1>0, <1>1, AnsweredServed DEF Types, Started, Served, Stepped, Detaching, Stopping
<1>7. DevicesAccounted' BY <1>0, <1>1, <1>2, HandlerKeepsDevices, AnsweredServed, Zenon DEF Stepped
<1>8. \A d \in Devices : attached'[d] = attached[d] \/ Holds(s, d) BY Zenon
<1>9. s \in dropped' => s \in dropped \cup asked \cup late \/ tty'[s] = "gone" BY Zenon
<1> QED BY <1>0, <1>2, <1>3, <1>4, <1>5, <1>6, <1>7, <1>8, <1>9, HandlerKeeps, Zenon

\* It then detaches the device that the session still holds.
LEMMA DisconnectKeeps ==
  ASSUME Inv, NEW h \in Handlers, Disconnect(h)
  PROVE  Inv'
<1> USE NodeAssumption DEF engine, maps, host, history, Disconnect
<1>0. PICK s \in Sessions : req[h].s = s /\ req[h].pc # "idle" /\ start[s].pc = "ready"
                             /\ Types /\ Started(s) /\ Live(s) /\ Served(h)
  BY Zenon DEF Inv, Served, At
<1>1. /\ req[h].pc = "disconnect"
      /\ \/ Stepped(h, "release", req[h].dev) /\ attached' = [attached EXCEPT ![req[h].dev] = None]
         \/ Answered(h) /\ attached' = attached
  BY <1>0, AtStep, AnswerStep, Zenon DEF ReqPcs, Detaching, Stopping
<1>2. HandlerFrame(h) BY <1>0, <1>1 DEF HandlerFrame, Stepped, Answered, Idle, Detaching, Stopping
<1>3. Types' BY <1>0, <1>1, Zenon DEF Types, Stepped, Answered
<1>4. Started(s)' BY <1>0, Zenon DEF Started
<1>5. Live(s)'
  <2>1. s \notin fs /\ vm[s] # "running"
    BY <1>0, <1>1, ZenonT(60) DEF Served, Started, Live, Detaching
  <2> QED BY <1>0, <2>1, Zenon DEF Live
<1>6. Served(h)' BY <1>0, <1>1, AnsweredServed DEF Served, Stepped, Detaching, Stopping
<1>7. DevicesAccounted'
  BY <1>0, <1>1, <1>2, HandlerKeepsDevices, AnsweredServed, ZenonT(60) DEF Stepped
<1>8. \A d \in Devices : attached'[d] = attached[d] \/ Holds(s, d)
  <2>2. Holds(s, req[h].dev) /\ req[h].dev \in Devices /\ mounts[s] = req[h].dev
    BY <1>0, <1>1, MountHolds, Zenon
  <2> QED BY <1>0, <2>2, Zenon DEF Types
<1>9. s \in dropped' => s \in dropped \cup asked \cup late \/ tty'[s] = "gone" BY Zenon
<1> QED BY <1>0, <1>2, <1>3, <1>4, <1>5, <1>6, <1>7, <1>8, <1>9, HandlerKeeps, Zenon

\* It releases the device it detached.
LEMMA ReleaseKeeps ==
  ASSUME Inv, NEW h \in Handlers, Release(h)
  PROVE  Inv'
<1> USE NodeAssumption DEF engine, maps, host, history, Release
<1>0. PICK s \in Sessions : req[h].s = s /\ req[h].pc # "idle" /\ start[s].pc = "ready"
                             /\ Types /\ Started(s) /\ Live(s) /\ Served(h)
  BY Zenon DEF Inv, Served, At
<1>1. req[h].pc = "release" /\ Stepped(h, "forget", req[h].dev) /\ used' = used \ {req[h].dev}
  BY <1>0, AtStep, AnswerStep, Zenon DEF ReqPcs, Detaching, Stopping, releaseNBDDevice
<1>2. HandlerFrame(h)
  BY <1>0, <1>1, Zenon DEF HandlerFrame, Stepped, Answered, Idle, Detaching, Stopping
<1>3. Types' BY <1>0, <1>1, Zenon DEF Types, Stepped, Answered
<1>4. Started(s)' BY <1>0, Zenon DEF Started
<1>5. Live(s)' BY <1>0, Zenon DEF Live
<1>6. Served(h)' BY <1>0, <1>1, AnsweredServed DEF Served, Stepped, Detaching, Stopping
<1>7. DevicesAccounted'
  <2>2. Holds(s, req[h].dev) /\ req[h].dev \in Devices /\ mounts[s] = req[h].dev
    BY <1>0, <1>1, MountHolds, Zenon
  <2>3. start[s].dev = req[h].dev /\ tty[s] = None
    BY <1>0, <1>1, Zenon DEF Started, Served, Detaching
  <2>4. Doing(s, {"forget"})' BY <1>0, <1>1, Zenon DEF Doing, Stepped
  <2>5. \A d \in Devices : (Holds(s, d) => d = req[h].dev) /\ ~Holds(s, d)'
    BY <1>0, <2>2, <2>3, <2>4, Zenon DEF Holds
  <2> QED BY <1>0, <1>1, <1>2, <2>2, <2>5, HandlerFrameKeeps, ReleaseDevice, ZenonT(60) DEF Inv,
      HandlerFrame
<1>8. \A d \in Devices : attached'[d] = attached[d] \/ Holds(s, d) BY Zenon
<1>9. s \in dropped' => s \in dropped \cup asked \cup late \/ tty'[s] = "gone" BY Zenon
<1> QED BY <1>0, <1>2, <1>3, <1>4, <1>5, <1>6, <1>7, <1>8, <1>9, HandlerKeeps, Zenon

\* It drops the entry of a device that was released before.
LEMMA ForgetKeeps ==
  ASSUME Inv, NEW h \in Handlers, Forget(h)
  PROVE  Inv'
<1> USE NodeAssumption
<1>0. PICK s \in Sessions : req[h].s = s /\ req[h].pc # "idle" /\ start[s].pc = "ready"
                             /\ Types /\ Started(s) /\ Live(s) /\ Served(h)
  BY Zenon DEF Inv, Served, At, Forget
<1>1. /\ req[h].pc = "forget" /\ (Stepped(h, "act", req[h].dev) \/ Answered(h))
      /\ mounts' = [mounts EXCEPT ![s] = None]
      /\ UNCHANGED <<open, unsaved, dropped, exports, used, tty, attached, fs, vm, marker,
                     start, conns, lost, asked, late>>
  <2>1. "act" \in ReqPcs BY Zenon DEF ReqPcs, Detaching, Stopping
  <2> QED BY <1>0, <2>1, AtStep, AnswerStep, Zenon DEF Forget, engine, host, history
<1>2. HandlerFrame(h)
  BY <1>0, <1>1 DEF Types, HandlerFrame, Stepped, Answered, Idle, Detaching, Stopping
<1>3. Types' BY <1>0, <1>1, Zenon DEF Types, Stepped, Answered
<1>4. Started(s)' BY <1>0, <1>1, Zenon DEF Types, Started, Working, Served, Detaching
<1>5. Live(s)' BY <1>0, <1>1, Zenon DEF Live
<1>6. Served(h)'
  BY <1>0, <1>1, AnsweredServed DEF Types, Started, Served, Stepped, Detaching, Stopping
<1>7. DevicesAccounted'
  <2>1. Doing(s, {"forget"}) BY <1>0, <1>1, Zenon DEF Doing
  <2>2. start[s].rt = "mounted" BY <1>0, <1>1, Zenon DEF Served, Detaching
  <2>3. tty[s] = None /\ tty' = tty /\ start' = start /\ used' = used /\ mounts'[s] = None
    BY <1>0, <1>1, <2>2, Zenon DEF Types, Started
  <2>4. \A d \in Devices : ~Holds(s, d) /\ ~Holds(s, d)'
    BY <1>0, <2>1, <2>3, Zenon DEF Holds
  <2> QED BY <1>0, <1>1, <1>2, <2>3, <2>4, HandlerFrameKeeps, KeepDevices, Zenon DEF Inv
<1>8. \A d \in Devices : attached'[d] = attached[d] \/ Holds(s, d) BY <1>1, Zenon
<1>9. s \in dropped' => s \in dropped \cup asked \cup late \/ tty'[s] = "gone" BY <1>1, Zenon
<1> QED BY <1>0, <1>2, <1>3, <1>4, <1>5, <1>6, <1>7, <1>8, <1>9, HandlerKeeps, Zenon

\* A commit changes no resource.
LEMMA CommitSessionKeeps ==
  ASSUME Inv, NEW h \in Handlers, CommitSession(h)
  PROVE  Inv'
<1> USE NodeAssumption DEF engine, maps, host, history, CommitSession
<1>0. PICK s \in Sessions : req[h].s = s /\ req[h].pc # "idle" /\ start[s].pc = "ready"
                             /\ Types /\ Started(s) /\ Live(s) /\ Served(h)
  BY Zenon DEF Inv, Served, At
<1>1. req[h].pc = "act" /\ Answered(h)
  BY <1>0, AnswerStep, Zenon
<1>2. HandlerFrame(h) /\ Types' BY <1>0, <1>1, EngineFrame, Zenon
<1>3. Types' BY <1>2, Zenon
<1>4. Started(s)' BY <1>0, EngineKeeps, Zenon
<1>5. Live(s)' BY <1>0, EngineKeeps, Zenon
<1>6. Served(h)' BY <1>1, AnsweredServed, Zenon
<1>7. DevicesAccounted' BY <1>0, <1>1, <1>2, HandlerKeepsDevices, AnsweredServed, Zenon DEF Stepped
<1>8. \A d \in Devices : attached'[d] = attached[d] \/ Holds(s, d) BY Zenon
<1>9. s \in dropped' => s \in dropped \cup asked \cup late \/ tty'[s] = "gone" BY Zenon
<1> QED BY <1>0, <1>2, <1>3, <1>4, <1>5, <1>6, <1>7, <1>8, <1>9, HandlerKeeps, Zenon

\* A stop that was asked for may drop writes.
LEMMA StopSessionKeeps ==
  ASSUME Inv, NEW h \in Handlers, StopSession(h)
  PROVE  Inv'
<1> USE NodeAssumption DEF engine, maps, host, history, StopSession
<1>0. PICK s \in Sessions : req[h].s = s /\ req[h].pc # "idle" /\ start[s].pc = "ready"
                             /\ Types /\ Started(s) /\ Live(s) /\ Served(h)
  BY ZenonT(60) DEF Inv, Served, At
<1>1. req[h].pc = "act" /\ req[h].op = "stop" /\ Answered(h) /\ Stop(s)
  BY <1>0, AnswerStep, Zenon
<1>2. HandlerFrame(h) /\ Types' BY <1>0, <1>1, EngineFrame, Zenon DEF Stop
<1>3. Types' BY <1>2, Zenon
<1>4. Started(s)' BY <1>0, EngineKeeps, Zenon
<1>5. Live(s)' BY <1>0, EngineKeeps, Zenon
<1>6. Served(h)' BY <1>1, AnsweredServed, Zenon
<1>7. DevicesAccounted' BY <1>0, <1>1, <1>2, HandlerKeepsDevices, AnsweredServed, Zenon DEF Stepped
<1>8. \A d \in Devices : attached'[d] = attached[d] \/ Holds(s, d) BY Zenon
<1>9. s \in dropped' => s \in dropped \cup asked \cup late \/ tty'[s] = "gone"
  BY <1>0, <1>1, Zenon DEF Served, Stop
<1> QED BY <1>0, <1>2, <1>3, <1>4, <1>5, <1>6, <1>7, <1>8, <1>9, HandlerKeeps, Zenon

\* The commit of a disconnect leaves nothing unsaved.
LEMMA DiscCommitKeeps ==
  ASSUME Inv, NEW h \in Handlers, DiscCommit(h)
  PROVE  Inv'
<1> USE NodeAssumption DEF engine, maps, host, history, DiscCommit
<1>0. PICK s \in Sessions : req[h].s = s /\ req[h].pc # "idle" /\ start[s].pc = "ready"
                             /\ Types /\ Started(s) /\ Live(s) /\ Served(h)
  BY Zenon DEF Inv, Served, At
<1>1. /\ req[h].pc = "disc"
      /\ \/ Stepped(h, "discStop", req[h].dev) /\ unsaved' = unsaved \ {s}
         \/ Stepped(h, "unregister", req[h].dev) /\ unsaved' = unsaved
  BY <1>0, AtStep, AnswerStep, Zenon DEF ReqPcs, Detaching, Stopping
<1>2. HandlerFrame(h) /\ Types' BY <1>0, <1>1, EngineFrame, Zenon
<1>3. Types' BY <1>2, Zenon
<1>4. Started(s)' BY <1>0, EngineKeeps, Zenon
<1>5. Live(s)' BY <1>0, EngineKeeps, Zenon
<1>6. Served(h)' BY <1>0, <1>1, AnsweredServed DEF Served, Stepped, Detaching, Stopping
<1>7. DevicesAccounted' BY <1>0, <1>1, <1>2, HandlerKeepsDevices, AnsweredServed, Zenon DEF Stepped
<1>8. \A d \in Devices : attached'[d] = attached[d] \/ Holds(s, d) BY Zenon
<1>9. s \in dropped' => s \in dropped \cup asked \cup late \/ tty'[s] = "gone" BY Zenon
<1> QED BY <1>0, <1>2, <1>3, <1>4, <1>5, <1>6, <1>7, <1>8, <1>9, HandlerKeeps, Zenon

\* What its stop drops came after the commit.
LEMMA DiscStopKeeps ==
  ASSUME Inv, NEW h \in Handlers, DiscStop(h)
  PROVE  Inv'
<1> USE NodeAssumption DEF engine, maps, host, history, DiscStop
<1>0. PICK s \in Sessions : req[h].s = s /\ req[h].pc # "idle" /\ start[s].pc = "ready"
                             /\ Types /\ Started(s) /\ Live(s) /\ Served(h)
  BY ZenonT(60) DEF Inv, Served, At
<1>1. \/ req[h].pc = "discStop" /\ Stepped(h, "unregister", req[h].dev) /\ Stop(s)
      \/ req[h].pc = "unregister" /\ Answered(h) /\ UNCHANGED engine
  BY <1>0, AtStep, AnswerStep, Zenon DEF ReqPcs, Detaching, Stopping
<1>2. HandlerFrame(h) /\ Types' BY <1>0, <1>1, EngineFrame, Zenon DEF Stop
<1>3. Types' BY <1>2, Zenon
<1>4. Started(s)' BY <1>0, EngineKeeps, Zenon
<1>5. Live(s)' BY <1>0, EngineKeeps, Zenon
<1>6. Served(h)'
  <2>1. CASE Stepped(h, "unregister", req[h].dev)
    BY <1>0, <2>1, Zenon DEF Served, Stepped, Detaching, Stopping
  <2> QED BY <1>1, <2>1, AnsweredServed, ZenonT(60)
<1>7. DevicesAccounted' BY <1>0, <1>1, <1>2, HandlerKeepsDevices, AnsweredServed, Zenon DEF Stepped
<1>8. \A d \in Devices : attached'[d] = attached[d] \/ Holds(s, d) BY Zenon
<1>9. s \in dropped' => s \in dropped \cup asked \cup late \/ tty'[s] = "gone"
  BY <1>0, <1>1, ZenonT(60) DEF Served, Stop
<1> QED BY <1>0, <1>2, <1>3, <1>4, <1>5, <1>6, <1>7, <1>8, <1>9, HandlerKeeps, Zenon

-----------------------------------------------------------------------------
(* The theorems. *)

\* A node begins with nothing.
LEMMA InitInv == Init => Inv
<1> SUFFICES ASSUME Init PROVE Inv
  BY Zenon
<1> USE NodeAssumption DEF Init
<1>1. Types
  <2>1. start \in StartType BY Zenon DEF StartType, StartPcs
  <2>2. req \in ReqType BY Zenon DEF ReqType, ReqPcs, Idle
  <2> QED BY <2>1, <2>2, Zenon DEF Types
<1>2. \A s \in Sessions : Started(s) BY Zenon DEF Started, Working
<1>3. \A s \in Sessions : Live(s) BY Zenon DEF Live
<1>4. \A s \in Sessions : Succeeded(s) BY Zenon DEF Succeeded
<1>5. \A h \in Handlers : req[h].pc = "idle" /\ req[h].s = None BY Zenon DEF Idle
<1>6. \A h \in Handlers : Served(h) BY <1>5, Zenon DEF Served, Detaching, Stopping
<1>7. Alone BY <1>5, Zenon DEF Alone, Detaching, Stopping
<1>8. DevicesAccounted
  <2>1. \A s \in Sessions, d \in Devices : ~Holds(s, d) BY Zenon DEF Holds
  <2> QED BY <2>1, Zenon DEF DevicesAccounted
<1>9. DropsHaveCause BY Zenon DEF DropsHaveCause
<1> QED BY <1>1, <1>2, <1>3, <1>4, <1>6, <1>7, <1>8, <1>9, Zenon DEF Inv

\* Every step of the node keeps the invariant.
LEMMA NextInv == Inv /\ [Next]_vars => Inv'
<1> SUFFICES ASSUME Inv, [Next]_vars PROVE Inv'
  BY Zenon
<1>1. ASSUME NEW s \in Sessions, StartStep(s) PROVE Inv'
  BY <1>1, RegisterExportKeeps, allocateNBDDeviceKeeps, AttachKeeps, MountKeeps, CleanupKeeps,
     AbortKeeps, BootKeeps, MarkerSeenKeeps, RunErrorKeeps, WaitExitKeeps, SaveMemoryKeeps,
     RestoreKeeps, FlushKeeps, DetachKeeps, CommitRunKeeps, Zenon DEF StartStep
<1>2. ASSUME NEW s \in Sessions, Environment(s) PROVE Inv'
  BY <1>2, StartSessionKeeps, GuestKeeps, RequestKeeps, Zenon DEF Environment
<1>3. ASSUME NEW h \in Handlers, HandlerStep(h) PROVE Inv'
  BY <1>3, LookupKeeps, UmountKeeps, DisconnectKeeps, ReleaseKeeps, ForgetKeeps, CommitSessionKeeps,
     StopSessionKeeps, DiscCommitKeeps, DiscStopKeeps, HaltTtyKeeps, SyncTtyKeeps, DetachTtyKeeps,
     CommitTtyKeeps, Zenon DEF HandlerStep
<1>4. CASE UNCHANGED vars
  <2>1. Types' BY <1>4, Zenon DEF vars, Inv, Types
  <2> QED BY <1>4, <2>1, QuietKeeps, Zenon DEF vars
<1> QED BY <1>1, <1>2, <1>3, <1>4, Zenon DEF Next

\* The invariant holds.
LEMMA InvHolds == Spec => []Inv
BY InitInv, NextInv, PTL DEF Spec

\* A device serves one session from allocateNBDDevicePrefer to releaseNBDDevice
\* and none stays taken but after a tty/stop that failed, for any number of
\* sessions, devices and requests.
THEOREM DevicesAccountedHolds == Spec => []DevicesAccounted
<1>1. Inv => DevicesAccounted BY Zenon DEF Inv
<1> QED BY <1>1, InvHolds, PTL

\* No detach of the node hits the device of a mounted file system or of a
\* running machine.
THEOREM LiveStaysAttachedHolds == Spec => []LiveStaysAttached
<1>1. Inv => LiveStaysAttached BY Zenon DEF Inv, Live, LiveStaysAttached
<1> QED BY <1>1, InvHolds, PTL

\* The commits of the node find the file system unmounted and the machine ended.
THEOREM CommitsAreQuietHolds == Spec => []CommitsAreQuiet
<1>1. Inv => CommitsAreQuiet
  <2> SUFFICES ASSUME Inv, NEW s \in Sessions,
                      start[s].pc = "commit" \/ Doing(s, {"act", "ttyCommit"})
               PROVE  s \notin fs /\ (vm[s] = "running" => start[s].rt = "tty" /\ ~Doing(s, {"ttyCommit"}))
    BY Zenon DEF CommitsAreQuiet
  <2>1. CASE start[s].pc = "commit" BY <2>1, Zenon DEF Inv, Started, Live
  <2>2. CASE Doing(s, {"act", "ttyCommit"})
    <3>1. mounts[s] = None /\ start[s].pc = "ready"
      BY <2>2, NodeAssumption DEF Inv, Doing, Served, Started, Stopping
    <3>2. vm[s] = "running" => ~Doing(s, {"ttyCommit"}) BY Zenon DEF Inv, Doing, Served, Stopping
    <3> QED BY <3>1, <3>2, NodeAssumption DEF Inv, Started, Live
  <2> QED BY <2>1, <2>2, Zenon
<1> QED BY <1>1, InvHolds, PTL

\* A run is committed only when its guest reported success and its machine
\* ended well or was saved.
THEOREM CommittedRunsSucceededHolds == Spec => []CommittedRunsSucceeded
<1>1. Inv => CommittedRunsSucceeded BY Zenon DEF Inv, Succeeded, CommittedRunsSucceeded
<1> QED BY <1>1, InvHolds, PTL

\* Acknowledged writes are given up only for one of the named causes.
THEOREM DropsHaveCauseHolds == Spec => []DropsHaveCause
<1>1. Inv => DropsHaveCause BY Zenon DEF Inv
<1> QED BY <1>1, InvHolds, PTL

=============================================================================

---------------------------- MODULE DaemonProofs ----------------------------
(***************************************************************************)
(* The safety properties of NbdBench and of DaemonStack.  The two have     *)
(* nothing in common but this module.                                      *)
(***************************************************************************)
EXTENDS NbdBench, DaemonStack, TLAPS

-----------------------------------------------------------------------------
(***************************************************************************)
(* NbdBench: what the measurements behind the local NBD server say, for    *)
(* any number of devices, runs and servers and for any plan: whose numbers *)
(* a row holds, why a server is left behind, and whose device a script     *)
(* takes.                                                                  *)
(*                                                                         *)
(* The invariant says who can listen on the port: while a run goes on, its *)
(* last server and what was there when it began, and the latter only for   *)
(* a reason.                                                               *)
(***************************************************************************)

-----------------------------------------------------------------------------
(* The inductive invariant *)

Before == {"clean", "next", "detach", "popen", "write"}   \* no server of this run
Waiting == {"poll", "probe", "attach"}
Ending == {"finallyDetach", "finallyStop"}
Planned == {"clean", "detach", "popen", "measure"} \cup Waiting
Pcs == Before \cup Waiting \cup Ending \cup {"idle", "measure"}

Types ==
  /\ script \in Scripts /\ preferred \in Devices \cup {Free} /\ pc \in Pcs
  /\ step \in Nat \ {0} /\ (pc \in Planned => step <= Len(Plan))
  /\ state \in [Servers -> {"none", "starting", "listening", "exited"}]
  /\ mode \in [Servers -> {"file", "range", "chunk"}]
  /\ owner \in [Devices -> Servers \cup {Free, Other}]
  /\ device \in Devices \cup {Free} /\ (pc # "idle" => device \in Devices)
  /\ proc \in Servers \cup {0} /\ mine \in {0, proc}
  /\ failed \in BOOLEAN /\ runs \in Nat /\ leftovers \in SUBSET Servers

\* A server that runs while the script does is this run's last one, or was
\* there before.
Run ==
  /\ proc # 0 => state[proc] # "none"
  /\ \A i \in leftovers : state[i] # "none"
  /\ pc \in Before => \A i \in Servers : Alive(i) => i \in leftovers
  /\ pc # "idle" => \A i \in Servers : Alive(i) => i \in leftovers \/ i = proc
  /\ pc \in Waiting \cup Ending => proc # 0
  /\ pc \in Ending => mine = proc
  /\ pc \in {"clean", "detach", "popen"} => proc = 0
  /\ pc \in {"next", "detach"} => script # "fileVsNbd"
  /\ pc = "write" => script = "fileVsNbd"

\* The server of this run is in the mode that is being measured, and the
\* device leads to it or to one that was there before.
ModeOf == IF script = "fileVsNbd" THEN "range" ELSE Target
Measured ==
  /\ pc \in {"detach", "popen"} /\ script # "fileVsNbd" => Target # "file"
  /\ pc \in Waiting => mode[proc] = ModeOf
  /\ pc \in Waiting /\ script = "fileVsNbd" => mine = proc
  /\ pc = "attach" /\ script = "fcNbd" => mine = proc
  /\ pc = "measure" /\ proc = 0 => script # "fileVsNbd" /\ Target = "file"
  /\ pc = "measure" /\ proc # 0 =>
       /\ mine = proc /\ mode[proc] = ModeOf
       /\ owner[device] = proc \/ owner[device] \in leftovers

\* Without an older server on the port the run's own one serves.
Serving ==
  /\ pc \in {"measure"} \cup Ending /\ proc # 0 /\ ~failed /\ leftovers = {} =>
       state[proc] = "listening"
  /\ (pc = "write" \/ (pc = "idle" /\ runs > 0 /\ ~failed)) /\ script = "fileVsNbd" =>
       stats = proc \/ sigkill \/ leftovers # {}

Excused ==
  \/ "killed" \in causes
  \/ script \in {"fcNbd", "matrix"} /\ "timeout" \in causes
  \/ script = "matrix" /\ "attach" \in causes
Blamed == leftovers # {} => Excused

RowsHold ==
  \A r \in rows : r.target # "file" =>
     \/ /\ r.server = r.own /\ r.own \in Servers /\ state[r.own] # "none"
        /\ mode[r.own] = r.target
     \/ r.server \in leftovers

Taken == pc # "idle" /\ owner[device] = Other => preferred # Free \/ device \in late

Inv ==
  /\ Types /\ Run /\ Measured /\ Serving /\ Blamed /\ LeakHasCause /\ RowsHold /\ Taken

-----------------------------------------------------------------------------
(* What the steps share *)

LEMMA Numbers ==
  /\ 0 \notin Servers /\ Other \notin Servers /\ Other # Free /\ Free \notin Devices /\ Free = 0
BY BenchAssumption DEF Servers, Other, Devices, Free

\* What a run plans to measure.
LEMMA Plannable ==
  ASSUME Types, pc \in Planned
  PROVE  /\ Target \in {"file", "range", "chunk"}
         /\ script # "fcNbd" => Target \in {"file", "range"}
<1>1. script \in Scripts /\ step \in Nat /\ step >= 1 /\ step <= Len(Plan) BY DEF Types
<1>2. /\ Plan \in Seq({"file", "range", "chunk"})
      /\ script # "fcNbd" => Plan \in Seq({"file", "range"})
  BY <1>1, BenchAssumption, Zenon DEF Plan
<1>3. Plan[step] \in {"file", "range", "chunk"} BY <1>1, <1>2
<1>4. script # "fcNbd" => Plan[step] \in {"file", "range"}
  <2> SUFFICES ASSUME script # "fcNbd" PROVE Plan[step] \in {"file", "range"} OBVIOUS
  <2>1. Plan \in Seq({"file", "range"}) BY <1>2, Zenon
  <2> QED BY <1>1, <2>1
<1> QED BY <1>3, <1>4, Zenon DEF Target

\* A server that was started keeps its mode.
LEMMA RowsKept ==
  ASSUME RowsHold, UNCHANGED <<rows, leftovers>>,
         \A i \in Servers : state[i] # "none" => state'[i] # "none" /\ mode'[i] = mode[i]
  PROVE  RowsHold'
BY Zenon DEF RowsHold

LEMMA BlamedKept ==
  ASSUME UNCHANGED <<script, leftovers>>, causes \subseteq causes'
  PROVE  (Excused => Excused') /\ (Blamed => Blamed')
<1>1. Excused => Excused' BY Zenon DEF Excused
<1> QED BY <1>1, Zenon DEF Blamed

LEMMA TargetKept ==
  ASSUME UNCHANGED <<script, step>>
  PROVE  Plan' = Plan /\ Target' = Target /\ ModeOf' = ModeOf
BY Zenon DEF Plan, Target, ModeOf

\* The steps of a run that neither start nor stop a server.
Calm ==
  /\ UNCHANGED <<script, preferred, state, mode, device, proc, rows, runs, leftovers, stats,
                 sigkill>>
  /\ causes \subseteq causes' /\ (~failed' => ~failed) /\ failed' \in BOOLEAN
  /\ pc # "idle"

LEMMA CalmKeeps ==
  ASSUME Inv, Calm
  PROVE  RowsHold' /\ Blamed' /\ (Excused => Excused') /\ \A i \in Servers : Alive(i)' <=> Alive(i)
<1>1. RowsHold' BY RowsKept, Zenon DEF Inv, Calm
<1>2. Blamed' /\ (Excused => Excused') BY BlamedKept, Zenon DEF Inv, Calm
<1>3. \A i \in Servers : Alive(i)' <=> Alive(i) BY Zenon DEF Calm, Alive
<1> QED BY <1>1, <1>2, <1>3, Zenon

\* A detach leaves nobody on the run's device.
LEMMA Detaches ==
  ASSUME Types, DetachNbd, pc # "idle"
  PROVE  owner' \in [Devices -> Servers \cup {Free, Other}] /\ owner'[device] # Other
<1>1. owner' = [owner EXCEPT ![device] = Free] /\ device \in Devices
      /\ owner \in [Devices -> Servers \cup {Free, Other}]
  BY Zenon DEF DetachNbd, Types
<1> QED BY <1>1, Numbers, Zenon

-----------------------------------------------------------------------------
(* One lemma per action *)

LEMMA StepMainDetach == ASSUME Inv, MainDetach PROVE Inv'
<1>0. Types /\ Run /\ Measured /\ Serving BY Zenon DEF Inv
<1>1. /\ pc = "clean" /\ DetachNbd /\ pc' = IF script = "fileVsNbd" THEN "popen" ELSE "next"
      /\ UNCHANGED <<script, preferred, step, state, mode, device, proc, mine, failed, rows,
                     runs, leftovers, causes, late, stats, sigkill>>
  BY Zenon DEF MainDetach, Goto, servers
<1>2. Calm BY <1>0, <1>1, Zenon DEF Calm, Types
<1>3. RowsHold' /\ Blamed' /\ \A i \in Servers : Alive(i)' <=> Alive(i) BY <1>2, CalmKeeps, Zenon
<1>4. owner' \in [Devices -> Servers \cup {Free, Other}] /\ owner'[device] # Other
  BY <1>0, <1>1, Detaches, Zenon
<1>5. /\ pc' \in {"popen", "next"} /\ (pc' = "next" => script # "fileVsNbd")
      /\ (pc' = "popen" => script = "fileVsNbd")
  BY <1>1, Zenon
<1>6. Types'
  <2>1. step <= Len(Plan) BY <1>0, <1>1, Zenon DEF Types, Planned
  <2>2. Plan' = Plan BY <1>1, TargetKept, Zenon
  <2> QED BY <1>0, <1>1, <1>4, <1>5, <2>1, <2>2, Zenon DEF Types, Pcs, Before
<1>7. Run'
  BY <1>0, <1>1, <1>3, <1>5, Zenon DEF Run, Before, Waiting, Ending
<1>8. Measured' /\ Serving' /\ LeakHasCause' /\ Taken'
  BY <1>1, <1>4, <1>5, Zenon DEF Measured, Serving, LeakHasCause, Taken, Waiting, Ending
<1> QED BY <1>3, <1>6, <1>7, <1>8, Zenon DEF Inv

LEMMA StepNextTarget == ASSUME Inv, NextTarget PROVE Inv'
<1>0. Types /\ Run /\ Measured /\ Serving /\ RowsHold /\ Blamed /\ Taken BY Zenon DEF Inv
<1>1. /\ pc = "next" /\ step <= Len(Plan) /\ mine' = 0 /\ proc' = 0
      /\ pc' = IF Target = "file" THEN "measure" ELSE "detach"
      /\ UNCHANGED <<script, preferred, step, state, mode, owner, device, failed, rows,
                     runs, leftovers, causes, late, hurt, stats, sigkill>>
  BY Zenon DEF NextTarget, Goto, servers, history
<1>2. RowsHold' BY <1>0, <1>1, RowsKept, Zenon
<1>3. Blamed' BY <1>0, <1>1, BlamedKept, Zenon
<1>4. Plan' = Plan /\ Target' = Target /\ \A i \in Servers : Alive(i)' <=> Alive(i)
  BY <1>1, TargetKept, Zenon DEF Alive
<1>5. /\ pc' \in {"measure", "detach"} /\ (pc' = "measure" => Target = "file")
      /\ (pc' = "detach" => Target # "file")
  BY <1>1, Zenon
<1>6. Types'
  BY <1>0, <1>1, <1>4, <1>5, Zenon DEF Types, Pcs, Before
<1>7. \A i \in Servers : Alive(i) => i \in leftovers BY <1>0, <1>1, Zenon DEF Run, Before
<1>8. script # "fileVsNbd" BY <1>0, <1>1, Zenon DEF Run
<1>9. Run'
  BY <1>0, <1>1, <1>4, <1>5, <1>7, <1>8, Zenon DEF Run, Before, Waiting, Ending
<1>10. Measured' /\ Serving' /\ LeakHasCause'
  BY <1>1, <1>4, <1>5, <1>8, Zenon DEF Measured, Serving, LeakHasCause, Waiting, Ending
<1>11. Taken' BY <1>0, <1>1, Zenon DEF Taken
<1> QED BY <1>2, <1>3, <1>6, <1>9, <1>10, <1>11, Zenon DEF Inv

LEMMA StepDetachFirst == ASSUME Inv, DetachFirst PROVE Inv'
<1>0. Types /\ Run /\ Measured /\ Serving BY Zenon DEF Inv
<1>1. /\ pc = "detach" /\ DetachNbd /\ pc' = "popen"
      /\ UNCHANGED <<script, preferred, step, state, mode, device, proc, mine, failed, rows,
                     runs, leftovers, causes, late, stats, sigkill>>
  BY Zenon DEF DetachFirst, Goto, servers
<1>2. Calm BY <1>0, <1>1, Zenon DEF Calm, Types
<1>3. RowsHold' /\ Blamed' /\ \A i \in Servers : Alive(i)' <=> Alive(i) BY <1>2, CalmKeeps, Zenon
<1>4. owner' \in [Devices -> Servers \cup {Free, Other}] /\ owner'[device] # Other
  BY <1>0, <1>1, Detaches, Zenon
<1>5. Plan' = Plan /\ Target' = Target BY <1>1, TargetKept, Zenon
<1>6. Types'
  <2>1. step <= Len(Plan) BY <1>0, <1>1, Zenon DEF Types, Planned
  <2> QED BY <1>0, <1>1, <1>4, <1>5, <2>1, Zenon DEF Types, Pcs, Before
<1>7. Run'
  BY <1>0, <1>1, <1>3, Zenon DEF Run, Before, Waiting, Ending
<1>8. Measured' /\ Serving' /\ LeakHasCause' /\ Taken'
  BY <1>0, <1>1, <1>4, <1>5, Zenon DEF Measured, Serving, LeakHasCause, Taken, Waiting, Ending
<1> QED BY <1>3, <1>6, <1>7, <1>8, Zenon DEF Inv

\* Popen, in the mode of the target; in fileVsNbd main keeps the process.
LEMMA StepPopen ==
  ASSUME Inv, pc = "popen", NEW m, m = ModeOf, Launch(m), Goto("poll"),
         mine' \in {mine, proc'}, script = "fileVsNbd" => mine' = proc',
         UNCHANGED <<step, owner, device, failed, rows, history>>
  PROVE  Inv'
<1>0. Types /\ Run /\ Measured /\ Serving /\ RowsHold /\ Blamed /\ Taken BY Zenon DEF Inv
<1>1. PICK i \in Unused :
        proc' = i /\ state' = [state EXCEPT ![i] = "starting"] /\ mode' = [mode EXCEPT ![i] = m]
  BY Zenon DEF Launch
<1>2. /\ pc' = "poll"
      /\ UNCHANGED <<script, preferred, step, owner, device, failed, rows,
                     runs, leftovers, causes, late, hurt, stats, sigkill>>
  BY Zenon DEF Goto, history
<1>3. /\ i \in Servers /\ state[i] = "none" /\ i # 0
      /\ state \in [Servers -> {"none", "starting", "listening", "exited"}]
      /\ mode \in [Servers -> {"file", "range", "chunk"}]
  BY <1>0, Numbers, Zenon DEF Unused, Types
<1>4. m \in {"file", "range", "chunk"} BY <1>0, Plannable, Zenon DEF ModeOf, Planned
<1>5. /\ state'[i] = "starting" /\ mode'[i] = m
      /\ \A j \in Servers : j # i => state'[j] = state[j] /\ mode'[j] = mode[j]
      /\ state' \in [Servers -> {"none", "starting", "listening", "exited"}]
      /\ mode' \in [Servers -> {"file", "range", "chunk"}]
  BY <1>1, <1>3, <1>4, Zenon
<1>6. proc = 0 /\ mine = 0 BY <1>0, Zenon DEF Run, Types
<1>7. RowsHold' BY <1>0, <1>2, <1>3, <1>5, RowsKept, Zenon
<1>8. Blamed' BY <1>0, <1>2, BlamedKept, Zenon
<1>9. Plan' = Plan /\ ModeOf' = ModeOf BY <1>2, TargetKept, Zenon
<1>10. Types'
  <2>1. step <= Len(Plan) BY <1>0, Zenon DEF Types, Planned
  <2>2. pc' \in Pcs BY <1>2, Zenon DEF Pcs, Waiting
  <2>3. mine' \in {0, proc'} BY <1>6, Zenon
  <2> QED BY <1>0, <1>1, <1>2, <1>3, <1>5, <1>9, <2>1, <2>2, <2>3, Zenon DEF Types
<1>11. Run'
  <2>1. \A j \in Servers : Alive(j)' => j \in leftovers' \/ j = proc'
    BY <1>0, <1>1, <1>2, <1>5, Zenon DEF Run, Before, Alive
  <2>2. \A j \in leftovers' : state'[j] # "none"
    BY <1>0, <1>2, <1>3, <1>5, Zenon DEF Run, Types
  <2> QED BY <1>1, <1>2, <1>3, <1>5, <2>1, <2>2, Zenon DEF Run, Before, Waiting, Ending
<1>12. Measured'
  BY <1>1, <1>2, <1>5, <1>9, Zenon DEF Measured, Waiting
<1>13. Serving' /\ LeakHasCause' BY <1>2, Zenon DEF Serving, LeakHasCause, Ending
<1>14. Taken' BY <1>0, <1>2, Zenon DEF Taken
<1> QED BY <1>7, <1>8, <1>10, <1>11, <1>12, <1>13, <1>14, Zenon DEF Inv

LEMMA StepPopens == ASSUME Inv, StartNbdServerMode \/ StartNbd \/ FileVsNbdPopen PROVE Inv'
<1>0. Types /\ Measured BY Zenon DEF Inv
<1>1. CASE StartNbdServerMode
  <2>1. ModeOf = Target BY <1>1, Zenon DEF StartNbdServerMode, ModeOf
  <2> QED BY <1>1, <2>1, StepPopen, Zenon DEF StartNbdServerMode
<1>2. CASE StartNbd
  <2>1. script = "matrix" /\ pc = "popen" BY <1>2, Zenon DEF StartNbd
  <2>2. ModeOf = "range" BY <1>0, <2>1, Plannable, Zenon DEF ModeOf, Measured, Planned
  <2> QED BY <1>2, <2>1, <2>2, StepPopen, Zenon DEF StartNbd
<1>3. CASE FileVsNbdPopen
  <2>1. ModeOf = "range" BY <1>3, Zenon DEF FileVsNbdPopen, ModeOf
  <2> QED BY <1>3, <2>1, StepPopen, Zenon DEF FileVsNbdPopen
<1> QED BY <1>1, <1>2, <1>3, Zenon

\* An exception.  Without a server that main knows of, the run is over: what it
\* started runs on only if it timed out, or failed to attach in start_nbd.
LEMMA StepRaise ==
  ASSUME Inv, NEW cause \in {"exited", "timeout", "attach", "measure"}, Raise(cause),
         pc \in {"poll", "attach", "measure"},
         cause = "exited" => pc = "poll" /\ state[proc] = "exited",
         cause = "timeout" => pc = "poll", cause = "attach" => pc = "attach",
         cause = "measure" => pc = "measure"
  PROVE  Inv'
<1>0. Types /\ Run /\ Measured /\ Serving /\ Blamed /\ Taken BY Zenon DEF Inv
<1>1. /\ failed' = TRUE /\ pc' = IF mine # 0 THEN "finallyDetach" ELSE "idle"
      /\ causes' = causes \cup (IF mine = 0 /\ proc # 0 THEN {cause} ELSE {})
      /\ UNCHANGED <<script, preferred, step, state, mode, owner, device, proc, mine, rows,
                     runs, leftovers, late, hurt, stats, sigkill>>
  BY Zenon DEF Raise, Goto, servers
<1>2. causes \subseteq causes' BY <1>1, Zenon
<1>3. Calm BY <1>0, <1>1, <1>2, Zenon DEF Calm, Types
<1>4. /\ RowsHold' /\ Blamed' /\ (Excused => Excused')
      /\ \A i \in Servers : Alive(i)' <=> Alive(i)
  BY <1>3, CalmKeeps, Zenon
<1>5. /\ pc' \in {"finallyDetach", "idle"} /\ (pc' = "finallyDetach" <=> mine # 0)
      /\ mine \in {0, proc} /\ Plan' = Plan
  BY <1>0, <1>1, TargetKept, Zenon DEF Types
<1>6. Types'
  <2>1. pc' \in Pcs /\ pc' \notin Planned BY <1>5, Zenon DEF Pcs, Ending, Planned, Waiting
  <2>2. pc # "idle" OBVIOUS
  <2> QED BY <1>0, <1>1, <2>1, <2>2, Zenon DEF Types
<1>7. Run'
  BY <1>0, <1>1, <1>4, <1>5, Zenon DEF Run, Before, Waiting, Ending
<1>8. Measured' /\ Serving' /\ Taken'
  BY <1>0, <1>1, <1>5, Zenon DEF Measured, Serving, Taken, Waiting
<1>9. LeakHasCause'
  <2> SUFFICES ASSUME pc' = "idle", NEW i \in Servers, Alive(i) PROVE Excused'
    BY <1>4, Zenon DEF LeakHasCause, Excused
  <2>1. mine = 0 /\ (i \in leftovers \/ i = proc) BY <1>0, <1>5, Zenon DEF Run
  <2>2. CASE i \in leftovers BY <1>0, <1>4, <2>2, Zenon DEF Blamed
  <2>3. CASE i = proc
    <3>1. proc # 0 /\ cause \in causes' /\ state[proc] # "exited"
      BY <1>1, <2>1, <2>3, Numbers, Zenon DEF Alive
    <3>2. pc # "measure" BY <1>0, <2>1, <3>1, Zenon DEF Measured
    <3>3. script \in {"fcNbd", "matrix"} /\ (pc = "attach" => script = "matrix")
      <4>1. script # "fileVsNbd" /\ (pc = "attach" => script # "fcNbd")
        BY <1>0, <2>1, <3>1, <3>2, Zenon DEF Measured, Waiting
      <4> QED BY <1>0, <4>1, BenchAssumption, Zenon DEF Types
    <3> QED BY <1>1, <3>1, <3>2, <3>3, Zenon DEF Excused
  <2> QED BY <2>1, <2>2, <2>3, Zenon
<1> QED BY <1>4, <1>6, <1>7, <1>8, <1>9, Zenon DEF Inv

LEMMA StepWait == ASSUME Inv, WaitPoll \/ WaitProbe \/ WaitTimeout PROVE Inv'
<1>0. Types /\ Run /\ Measured /\ Serving /\ Blamed /\ Taken BY Zenon DEF Inv
<1>1. CASE pc = "poll" /\ state[proc] = "exited" /\ Raise("exited") BY <1>1, StepRaise, Zenon
<1>2. CASE WaitTimeout BY <1>2, StepRaise, Zenon DEF WaitTimeout
<1>3. ASSUME pc \in {"poll", "probe"}, pc' \in Waiting, mine' \in {mine, proc},
             pc' = "attach" /\ script = "fcNbd" => mine' = proc,
             UNCHANGED <<script, preferred, step, servers, owner, device, proc, failed, rows,
                         history>>
      PROVE  Inv'
  <2>1. UNCHANGED <<script, preferred, step, state, mode, owner, device, proc, failed, rows,
                    runs, leftovers, causes, late, hurt, stats, sigkill>>
    BY <1>3, Zenon DEF servers, history
  <2>2. Calm
    <3>1. pc # "idle" /\ failed \in BOOLEAN BY <1>0, <1>3, Zenon DEF Types
    <3> QED BY <2>1, <3>1, Zenon DEF Calm
  <2>3. RowsHold' /\ Blamed' /\ \A i \in Servers : Alive(i)' <=> Alive(i) BY <2>2, CalmKeeps, Zenon
  <2>4. Plan' = Plan /\ ModeOf' = ModeOf BY <2>1, TargetKept, Zenon
  <2>5. proc # 0 /\ pc \in Waiting /\ pc # "idle" /\ step <= Len(Plan)
    BY <1>0, <1>3, Zenon DEF Run, Waiting, Types, Planned
  <2>6. pc' \in Pcs /\ pc' \notin Before \cup Ending \cup {"idle", "measure"}
    BY <1>3, Zenon DEF Pcs, Waiting, Before, Ending
  <2>7. Types' BY <1>0, <1>3, <2>1, <2>4, <2>5, <2>6, Zenon DEF Types
  <2>8. Run'
    <3>1. pc' \notin {"clean", "detach", "popen", "next", "write"} BY <2>6, Zenon DEF Before
    <3> QED BY <1>0, <2>1, <2>3, <2>5, <2>6, <3>1, Zenon DEF Run
  <2>9. Measured'
    <3>1. mode[proc] = ModeOf /\ (script = "fileVsNbd" => mine = proc)
      BY <1>0, <2>5, Zenon DEF Measured
    <3>2. pc' \notin {"detach", "popen", "measure"} BY <2>6, Zenon DEF Before
    <3> QED BY <1>3, <2>1, <2>4, <3>1, <3>2, Zenon DEF Measured
  <2>10. Serving' /\ LeakHasCause'
    <3>1. pc' \notin {"write", "idle", "measure"} \cup Ending BY <2>6, Zenon DEF Before
    <3> QED BY <3>1, Zenon DEF Serving, LeakHasCause
  <2>11. Taken' BY <1>0, <2>1, <2>5, Zenon DEF Taken
  <2> QED BY <2>3, <2>7, <2>8, <2>9, <2>10, <2>11, Zenon DEF Inv
<1>4. CASE WaitPoll
  BY <1>1, <1>3, <1>4, Zenon DEF WaitPoll, Goto, Waiting
<1>5. CASE WaitProbe
  BY <1>3, <1>5, Zenon DEF WaitProbe, Goto, Waiting
<1> QED BY <1>2, <1>4, <1>5, Zenon

LEMMA StepAttachNbd == ASSUME Inv, AttachNbd PROVE Inv'
<1>0. Types /\ Run /\ Measured /\ Serving /\ Blamed /\ Taken BY Zenon DEF Inv
<1>1. CASE pc = "attach" /\ Raise("attach") BY <1>1, StepRaise, Zenon
<1>2. ASSUME NEW i \in Listening, pc = "attach", owner' = [owner EXCEPT ![device] = i],
             mine' = proc, Goto("measure"),
             UNCHANGED <<step, servers, device, proc, failed, rows, history>>
      PROVE  Inv'
  <2>1. /\ pc' = "measure"
        /\ UNCHANGED <<script, preferred, step, state, mode, device, proc, failed, rows,
                       runs, leftovers, causes, late, hurt, stats, sigkill>>
    BY <1>2, Zenon DEF Goto, servers, history
  <2>2. Calm
    <3>1. pc # "idle" /\ failed \in BOOLEAN BY <1>0, <1>2, Zenon DEF Types
    <3> QED BY <2>1, <3>1, Zenon DEF Calm
  <2>3. RowsHold' /\ Blamed' /\ \A j \in Servers : Alive(j)' <=> Alive(j) BY <2>2, CalmKeeps, Zenon
  <2>4. Plan' = Plan /\ ModeOf' = ModeOf BY <2>1, TargetKept, Zenon
  <2>5. proc # 0 /\ pc \in Waiting /\ step <= Len(Plan) /\ device \in Devices
    BY <1>0, <1>2, Zenon DEF Run, Waiting, Types, Planned
  <2>6. i \in Servers /\ state[i] = "listening" /\ Alive(i) BY Zenon DEF Listening, Alive
  <2>7. i \in leftovers \/ i = proc BY <1>0, <1>2, <2>6, Zenon DEF Run
  <2>8. owner' \in [Devices -> Servers \cup {Free, Other}] /\ owner'[device] = i
    BY <1>0, <1>2, <2>5, <2>6, Zenon DEF Types
  <2>9. Types'
    <3>1. pc' \in Pcs BY <2>1, Zenon DEF Pcs
    <3> QED BY <1>0, <1>2, <2>1, <2>4, <2>5, <2>8, <3>1, Zenon DEF Types
  <2>10. Run'
    BY <1>0, <1>2, <2>1, <2>3, Zenon DEF Run, Before, Waiting, Ending
  <2>11. Measured'
    BY <1>0, <1>2, <2>1, <2>4, <2>5, <2>7, <2>8, Zenon DEF Measured, Waiting
  <2>12. Serving' /\ LeakHasCause' BY <2>1, <2>6, <2>7, Zenon DEF Serving, LeakHasCause
  <2>13. Taken' BY <2>1, <2>6, <2>8, Numbers, Zenon DEF Taken
  <2> QED BY <2>3, <2>9, <2>10, <2>11, <2>12, <2>13, Zenon DEF Inv
<1> QED BY <1>1, <1>2, Zenon DEF AttachNbd

LEMMA StepMeasure == ASSUME Inv, Measure PROVE Inv'
<1>0. Types /\ Run /\ Measured /\ Serving /\ Blamed /\ Taken /\ RowsHold BY Zenon DEF Inv
<1>1. CASE pc = "measure" /\ Raise("measure") BY <1>1, StepRaise, Zenon
<1> DEFINE row == [target |-> Target, server |-> IF Target = "file" THEN 0 ELSE owner[device],
                   own |-> proc]
<1>2. ASSUME pc = "measure", rows' = rows \cup {row},
             \/ script = "fileVsNbd" /\ step < Len(Plan) /\ Goto("measure") /\ step' = step + 1
             \/ mine = 0 /\ Goto("next") /\ step' = step + 1
             \/ mine # 0 /\ Goto("finallyDetach") /\ UNCHANGED step,
             UNCHANGED <<servers, owner, device, proc, mine, failed, history>>
      PROVE  Inv'
  <2>1. UNCHANGED <<script, preferred, state, mode, owner, device, proc, mine, failed,
                    runs, leftovers, causes, late, hurt, stats, sigkill>>
    BY <1>2, Zenon DEF Goto, servers, history
  <2>2. /\ proc \in Servers \cup {0} /\ mine \in {0, proc} /\ step \in Nat \ {0}
        /\ (proc = 0 => script # "fileVsNbd" /\ Target = "file")
        /\ (proc # 0 => /\ mine = proc /\ mode[proc] = ModeOf /\ state[proc] # "none"
                        /\ owner[device] = proc \/ owner[device] \in leftovers)
    BY <1>0, <1>2, Zenon DEF Types, Measured, Run
  <2>3. /\ pc' \in {"measure", "next", "finallyDetach"} /\ (pc' = "next" <=> proc = 0)
        /\ (pc' = "measure" => script = "fileVsNbd" /\ step' = step + 1 /\ step < Len(Plan))
        /\ step' \in {step, step + 1}
    BY <1>2, <2>2, Zenon DEF Goto
  <2>4. Plan' = Plan BY <2>1, Zenon DEF Plan
  <2>5. \A i \in Servers : Alive(i)' <=> Alive(i) BY <2>1, Zenon DEF Alive
  <2>6. Blamed' BY <1>0, <2>1, BlamedKept, Zenon
  <2>7. RowsHold'
    <3>1. Target # "file" =>
            \/ /\ row.server = row.own /\ row.own \in Servers /\ state[row.own] # "none"
               /\ mode[row.own] = row.target
            \/ row.server \in leftovers
      <4> SUFFICES ASSUME Target # "file"
                   PROVE  \/ /\ row.server = row.own /\ row.own \in Servers /\ state[row.own] # "none"
                             /\ mode[row.own] = row.target
                          \/ row.server \in leftovers
        OBVIOUS
      <4>1. row.server = owner[device] /\ row.own = proc /\ row.target = Target BY Zenon
      <4>2. ModeOf = Target
        BY <1>0, <1>2, Plannable, Zenon DEF ModeOf, Planned
      <4> HIDE DEF row
      <4> QED BY <2>2, <4>1, <4>2, Zenon
    <3>2. row.target = Target BY Zenon
    <3> HIDE DEF row
    <3> QED BY <1>0, <1>2, <2>1, <3>1, <3>2, Zenon DEF RowsHold
  <2>8. Types'
    <3>1. step' \in Nat \ {0} BY <2>2, <2>3
    <3>2. pc' \in Pcs /\ (pc' \in Planned => pc' = "measure")
      BY <2>3, Zenon DEF Pcs, Planned, Before, Waiting, Ending
    <3>3. Len(Plan) \in Nat
      <4>1. Plan \in Seq({"file", "range", "chunk"}) BY <1>0, BenchAssumption, Zenon DEF Types, Plan
      <4> QED BY <4>1
    <3>4. pc' \in Planned => step' <= Len(Plan') BY <2>2, <2>3, <2>4, <3>2, <3>3
    <3> QED BY <1>0, <1>2, <2>1, <2>4, <3>1, <3>2, <3>4, Zenon DEF Types
  <2>9. Run'
    <3>1. pc' = "next" => script # "fileVsNbd" /\ \A i \in Servers : Alive(i) => i \in leftovers
      BY <1>0, <1>2, <2>2, <2>3, Numbers, Zenon DEF Run
    <3> QED BY <1>0, <1>2, <2>1, <2>2, <2>3, <2>5, <3>1, Zenon DEF Run, Before, Waiting, Ending
  <2>10. Measured'
    <3>1. script = "fileVsNbd" => ModeOf' = ModeOf BY <2>1, Zenon DEF ModeOf
    <3> QED BY <2>1, <2>2, <2>3, <3>1, Zenon DEF Measured, Waiting
  <2>11. Serving' /\ LeakHasCause'
    <3>1. pc' \notin {"write", "idle"} BY <2>3, Zenon
    <3>2. proc # 0 /\ ~failed /\ leftovers = {} => state[proc] = "listening"
      BY <1>0, <1>2, Zenon DEF Serving
    <3> QED BY <2>1, <3>1, <3>2, Zenon DEF Serving, LeakHasCause
  <2>12. Taken' BY <1>0, <1>2, <2>1, Zenon DEF Taken
  <2> QED BY <2>6, <2>7, <2>8, <2>9, <2>10, <2>11, <2>12, Zenon DEF Inv
<1> QED BY <1>1, <1>2, Zenon DEF Measure

LEMMA StepFinallyDetach == ASSUME Inv, FinallyDetach PROVE Inv'
<1>0. Types /\ Run /\ Serving BY Zenon DEF Inv
<1>1. /\ pc = "finallyDetach" /\ DetachNbd /\ pc' = "finallyStop"
      /\ UNCHANGED <<script, preferred, step, state, mode, device, proc, mine, failed, rows,
                     runs, leftovers, causes, late, stats, sigkill>>
  BY Zenon DEF FinallyDetach, Goto, servers
<1>2. Calm BY <1>0, <1>1, Zenon DEF Calm, Types
<1>3. RowsHold' /\ Blamed' /\ \A i \in Servers : Alive(i)' <=> Alive(i) BY <1>2, CalmKeeps, Zenon
<1>4. owner' \in [Devices -> Servers \cup {Free, Other}] /\ owner'[device] # Other
  BY <1>0, <1>1, Detaches, Zenon
<1>5. Types'
  <2>1. pc' \in Pcs /\ pc' \notin Planned BY <1>1, Zenon DEF Pcs, Ending, Planned, Waiting
  <2> QED BY <1>0, <1>1, <1>4, <2>1, Zenon DEF Types
<1>6. Run' BY <1>0, <1>1, <1>3, Zenon DEF Run, Before, Waiting, Ending
<1>7. Measured' /\ LeakHasCause' /\ Taken'
  BY <1>1, <1>4, Zenon DEF Measured, LeakHasCause, Taken, Waiting
<1>8. Serving' BY <1>0, <1>1, Zenon DEF Serving, Ending
<1> QED BY <1>3, <1>5, <1>6, <1>7, <1>8, Zenon DEF Inv

LEMMA StepStop == ASSUME Inv, StopProcess \/ FileVsNbdStop PROVE Inv'
<1>0. Types /\ Run /\ Serving /\ RowsHold /\ Blamed /\ Taken BY Zenon DEF Inv
<1>1. /\ pc = "finallyStop"
      /\ pc' = IF failed THEN "idle" ELSE IF script = "fileVsNbd" THEN "write" ELSE "next"
      /\ step' = step + 1 /\ state' = [state EXCEPT ![mine] = "exited"]
      /\ UNCHANGED <<script, preferred, mode, owner, device, proc, mine, failed, rows,
                     runs, leftovers, causes, late, hurt>>
  BY Zenon DEF StopProcess, FileVsNbdStop, AfterFinally, Goto
<1>2. mine = proc /\ proc # 0 /\ proc \in Servers BY <1>0, <1>1, Zenon DEF Run, Ending, Types
<1>3. /\ state' \in [Servers -> {"none", "starting", "listening", "exited"}]
      /\ state'[proc] = "exited" /\ \A i \in Servers : i # proc => state'[i] = state[i]
  BY <1>0, <1>1, <1>2, Zenon DEF Types
<1>4. \A i \in Servers : state[i] # "none" => state'[i] # "none" BY <1>3, Zenon
<1>5. RowsHold' BY <1>0, <1>1, <1>4, RowsKept, Zenon
<1>6. Blamed' BY <1>0, <1>1, BlamedKept, Zenon
<1>7. \A i \in Servers : Alive(i)' => i \in leftovers
  <2> SUFFICES ASSUME NEW i \in Servers, Alive(i)' PROVE i \in leftovers OBVIOUS
  <2>1. i # proc BY <1>3, Zenon DEF Alive
  <2>2. Alive(i) BY <1>3, <2>1, Zenon DEF Alive
  <2> QED BY <1>0, <1>1, <2>1, <2>2, Zenon DEF Run
<1>8. /\ pc' \in {"idle", "write", "next"} /\ (pc' = "idle" <=> failed)
      /\ (pc' = "write" => script = "fileVsNbd") /\ (pc' = "next" => script # "fileVsNbd")
  BY <1>1, Zenon
<1>9. Types'
  <2>1. pc' \in Pcs /\ pc' \notin Planned BY <1>8, Zenon DEF Pcs, Before, Planned, Waiting
  <2>2. step' \in Nat \ {0}
    <3>1. step \in Nat \ {0} BY <1>0, Zenon DEF Types
    <3> QED BY <1>1, <3>1
  <2>3. pc # "idle" BY <1>1, Zenon
  <2> QED BY <1>0, <1>1, <1>3, <2>1, <2>2, <2>3, Zenon DEF Types
<1>10. Run'
  <2>1. \A i \in leftovers' : state'[i] # "none"
    BY <1>0, <1>1, <1>4, Zenon DEF Run, Types
  <2>2. pc' \notin Waiting \cup Ending \cup {"clean", "detach", "popen"}
    BY <1>8, Zenon DEF Waiting, Ending
  <2>3. proc' # 0 => state'[proc'] # "none" BY <1>1, <1>3, Zenon
  <2> QED BY <1>1, <1>7, <1>8, <2>1, <2>2, <2>3, Zenon DEF Run
<1>11. Measured' BY <1>8, Zenon DEF Measured, Waiting
<1>12. LeakHasCause' BY <1>1, <1>6, <1>7, Zenon DEF LeakHasCause, Blamed, Excused
<1>13. Serving'
  <2>1. CASE script # "fileVsNbd" BY <1>1, <1>8, <2>1, Zenon DEF Serving, Ending
  <2>2. CASE script = "fileVsNbd" /\ ~failed
    <3>1. FileVsNbdStop BY <2>2, Zenon DEF StopProcess
    <3>2. leftovers = {} => state[proc] = "listening"
      BY <1>0, <1>1, <1>2, <2>2, Zenon DEF Serving, Ending
    <3>3. stats' = proc \/ sigkill' \/ leftovers # {} BY <1>2, <3>1, <3>2, Zenon DEF FileVsNbdStop
    <3> QED BY <1>1, <1>8, <3>3, Zenon DEF Serving, Ending
  <2>3. CASE failed BY <1>1, <1>8, <2>3, Zenon DEF Serving, Ending
  <2> QED BY <2>1, <2>2, <2>3, Zenon
<1>14. Taken' BY <1>0, <1>1, Zenon DEF Taken
<1> QED BY <1>5, <1>6, <1>9, <1>10, <1>11, <1>12, <1>13, <1>14, Zenon DEF Inv

LEMMA StepResults ==
  ASSUME Inv, FcNbdAppendResults \/ MatrixWriteResults \/ FileVsNbdResults
  PROVE  Inv'
<1>0. Types /\ Run /\ Serving /\ Blamed BY Zenon DEF Inv
<1>1. /\ pc \in {"next", "write"} /\ pc' = "idle" /\ (script = "fileVsNbd" => pc = "write")
      /\ UNCHANGED <<script, preferred, step, state, mode, owner, device, proc, mine, failed, rows,
                     runs, leftovers, causes, late, hurt, stats, sigkill>>
  BY Zenon DEF FcNbdAppendResults, MatrixWriteResults, FileVsNbdResults, WriteResults, Goto,
     servers, history
<1>2. Calm BY <1>0, <1>1, Zenon DEF Calm, Types
<1>3. RowsHold' /\ Blamed' /\ \A i \in Servers : Alive(i)' <=> Alive(i) BY <1>2, CalmKeeps, Zenon
<1>4. Types'
  <2>1. pc' \in Pcs /\ pc' \notin Planned BY <1>1, Zenon DEF Pcs, Planned, Waiting
  <2> QED BY <1>0, <1>1, <2>1, Zenon DEF Types
<1>5. \A i \in Servers : Alive(i)' => i \in leftovers' BY <1>0, <1>1, <1>3, Zenon DEF Run, Before
<1>6. Run' BY <1>0, <1>1, Zenon DEF Run, Before, Waiting, Ending
<1>7. LeakHasCause' BY <1>3, <1>5, Zenon DEF LeakHasCause, Blamed, Excused
<1>8. Measured' /\ Taken' BY <1>1, Zenon DEF Measured, Taken, Waiting
<1>9. Serving'
  <2>1. script = "fileVsNbd" => stats = proc \/ sigkill \/ leftovers # {}
    BY <1>0, <1>1, Zenon DEF Serving
  <2>2. pc' \notin {"measure"} \cup Ending BY <1>1, Zenon DEF Ending
  <2> QED BY <1>1, <2>1, <2>2, Zenon DEF Serving
<1> QED BY <1>3, <1>4, <1>6, <1>7, <1>8, <1>9, Zenon DEF Inv

LEMMA StepKilled == ASSUME Inv, Killed PROVE Inv'
<1>0. Types /\ Run BY Zenon DEF Inv
<1>1. /\ pc # "idle" /\ pc' = "idle" /\ failed' = TRUE /\ causes' = causes \cup {"killed"}
      /\ UNCHANGED <<script, preferred, step, state, mode, owner, device, proc, mine, rows,
                     runs, leftovers, late, hurt, stats, sigkill>>
  BY Zenon DEF Killed, Goto, servers
<1>2. Calm BY <1>0, <1>1, Zenon DEF Calm, Types
<1>3. RowsHold' /\ Blamed' BY <1>2, CalmKeeps, Zenon
<1>4. Types'
  <2>1. pc' \in Pcs /\ pc' \notin Planned BY <1>1, Zenon DEF Pcs, Planned, Waiting
  <2> QED BY <1>0, <1>1, <2>1, Zenon DEF Types
<1>5. Run' BY <1>0, <1>1, Zenon DEF Run, Before, Waiting, Ending
<1>6. Measured' /\ Taken' /\ Serving' /\ LeakHasCause'
  BY <1>1, Zenon DEF Measured, Taken, Serving, LeakHasCause, Waiting, Ending
<1> QED BY <1>3, <1>4, <1>5, <1>6, Zenon DEF Inv

LEMMA StepServerBinds == ASSUME Inv, NEW i \in Servers, ServerBinds(i) PROVE Inv'
<1>0. Types /\ Run /\ Measured /\ Serving /\ RowsHold /\ Blamed /\ Taken /\ LeakHasCause
  BY Zenon DEF Inv
<1>1. PICK to \in {"listening", "exited"} : state' = [state EXCEPT ![i] = to]
  BY Zenon DEF ServerBinds
<1>2. /\ state[i] = "starting"
      /\ UNCHANGED <<script, preferred, pc, step, mode, owner, device, proc, mine, failed, rows,
                     runs, leftovers, causes, late, hurt, stats, sigkill>>
  BY Zenon DEF ServerBinds, history
<1>3. /\ state' \in [Servers -> {"none", "starting", "listening", "exited"}]
      /\ state'[i] = to /\ \A j \in Servers : j # i => state'[j] = state[j]
  BY <1>0, <1>1, Zenon DEF Types
<1>4. \A j \in Servers : /\ state[j] # "none" => state'[j] # "none"
                         /\ state[j] = "listening" => state'[j] = "listening"
                         /\ Alive(j)' => Alive(j)
  BY <1>2, <1>3, Zenon DEF Alive
<1>5. RowsHold' BY <1>0, <1>2, <1>4, RowsKept, Zenon
<1>6. Blamed' BY <1>0, <1>2, BlamedKept, Zenon
<1>7. Plan' = Plan /\ Target' = Target /\ ModeOf' = ModeOf BY <1>2, TargetKept, Zenon
<1>8. Types' BY <1>0, <1>2, <1>3, <1>7, Zenon DEF Types
<1>9. proc \in Servers \cup {0} /\ leftovers \in SUBSET Servers BY <1>0, Zenon DEF Types
<1>10. Run' BY <1>0, <1>2, <1>4, <1>9, Zenon DEF Run
<1>11. Measured' BY <1>0, <1>2, <1>7, Zenon DEF Measured
<1>12. Serving' BY <1>0, <1>2, <1>4, <1>9, Zenon DEF Serving
<1>13. LeakHasCause' BY <1>0, <1>2, <1>4, Zenon DEF LeakHasCause
<1>14. Taken' BY <1>0, <1>2, Zenon DEF Taken
<1> QED BY <1>5, <1>6, <1>8, <1>10, <1>11, <1>12, <1>13, <1>14, Zenon DEF Inv

\* Other programs take no device that is in use, and the run's own is.
LEMMA StepOthers == ASSUME Inv, NEW d \in Devices, OtherAttaches(d) \/ OtherDetaches(d) PROVE Inv'
<1>0. Types /\ Run /\ Measured /\ Serving /\ RowsHold /\ Blamed /\ Taken /\ LeakHasCause
  BY Zenon DEF Inv
<1>1. /\ \/ owner[d] = Free /\ owner' = [owner EXCEPT ![d] = Other] /\ late' = late \cup {d}
         \/ owner[d] = Other /\ owner' = [owner EXCEPT ![d] = Free] /\ late' = late
      /\ UNCHANGED <<script, preferred, pc, step, state, mode, device, proc, mine, failed, rows,
                     runs, leftovers, causes, hurt, stats, sigkill>>
  BY Zenon DEF OtherAttaches, OtherDetaches, servers, history
<1>2. owner' \in [Devices -> Servers \cup {Free, Other}] BY <1>0, <1>1, Zenon DEF Types
<1>3. RowsHold' BY <1>0, <1>1, RowsKept, Zenon
<1>4. Blamed' BY <1>0, <1>1, BlamedKept, Zenon
<1>5. /\ Plan' = Plan /\ Target' = Target /\ ModeOf' = ModeOf
      /\ \A i \in Servers : Alive(i)' <=> Alive(i)
  BY <1>1, TargetKept, Zenon DEF Alive
<1>6. Types' BY <1>0, <1>1, <1>2, <1>5, Zenon DEF Types
<1>7. Run' BY <1>0, <1>1, <1>5, Zenon DEF Run
<1>8. LeakHasCause' BY <1>0, <1>1, <1>5, Zenon DEF LeakHasCause
<1>9. Serving' BY <1>0, <1>1, Zenon DEF Serving
<1>10. pc # "idle" /\ owner'[device] # owner[device] =>
         (owner[device] \in {Free, Other} /\ (owner'[device] = Other => device \in late'))
  <2>1. pc # "idle" => device \in Devices BY <1>0, Zenon DEF Types
  <2> QED BY <1>0, <1>1, <2>1, Zenon DEF Types
<1>11. Measured'
  <2>1. pc = "measure" /\ proc # 0 => owner[device] \notin {Free, Other}
    BY <1>0, Numbers, Zenon DEF Measured, Types
  <2>2. pc = "measure" /\ proc # 0 => owner'[device] = owner[device] BY <1>10, <2>1, Zenon
  <2> QED BY <1>0, <1>1, <1>5, <2>2, Zenon DEF Measured
<1>12. Taken'
  <2>1. late \subseteq late' BY <1>1, Zenon
  <2> QED BY <1>0, <1>1, <1>10, <2>1, Zenon DEF Taken
<1> QED BY <1>3, <1>4, <1>6, <1>7, <1>8, <1>9, <1>11, <1>12, Zenon DEF Inv

LEMMA StepMain == ASSUME Inv, Main PROVE Inv'
<1>0. Types /\ Run /\ LeakHasCause BY Zenon DEF Inv
<1>1. PICK first \in {"clean", "next"}, d \in Devices :
        /\ pc = "idle" /\ pc' = first /\ (script = "fileVsNbd" => first = "clean")
        /\ FindFreeNbd(d) /\ device' = d
        /\ runs' = runs + 1 /\ leftovers' = {i \in Servers : Alive(i)} /\ late' = {}
        /\ step' = 1 /\ proc' = 0 /\ mine' = 0 /\ failed' = FALSE /\ rows' = {}
        /\ UNCHANGED <<script, preferred, state, mode, owner, causes, hurt, stats>>
  BY Zenon DEF Main, FcNbdMain, MatrixMain, FileVsNbdMain, Start, Goto, servers
<1>2. \A i \in Servers : Alive(i)' <=> Alive(i) BY <1>1, Zenon DEF Alive
<1>3. Types'
  <2>1. pc' \in Pcs BY <1>1, Zenon DEF Pcs, Before
  <2>2. 1 \in Nat \ {0} /\ runs' \in Nat
    <3>1. runs \in Nat BY <1>0, Zenon DEF Types
    <3> QED BY <1>1, <3>1
  <2>3. 1 <= Len(Plan')
    <3>1. script \in Scripts BY <1>0, Zenon DEF Types
    <3>2. Plan \in Seq({"file", "range", "chunk"}) /\ Len(Plan) > 0
      BY <3>1, BenchAssumption, Zenon DEF Plan
    <3>3. Len(Plan) \in Nat BY <3>2
    <3>4. Plan' = Plan BY <1>1, Zenon DEF Plan
    <3> QED BY <3>2, <3>3, <3>4
  <2> QED BY <1>0, <1>1, <2>1, <2>2, <2>3, Zenon DEF Types
<1>4. Run'
  <2>1. \A i \in leftovers' : state'[i] # "none" BY <1>1, Zenon DEF Alive
  <2> QED BY <1>1, <1>2, <2>1, Zenon DEF Run, Waiting, Ending
<1>5. Measured' /\ Serving' /\ LeakHasCause'
  BY <1>1, Zenon DEF Measured, Serving, LeakHasCause, Waiting, Ending
<1>6. Blamed' BY <1>0, <1>1, Zenon DEF Blamed, Excused, LeakHasCause
<1>7. RowsHold' BY <1>1, Zenon DEF RowsHold
<1>8. Taken' BY <1>1, Numbers, Zenon DEF Taken, FindFreeNbd, FreeDevices
<1> QED BY <1>3, <1>4, <1>5, <1>6, <1>7, <1>8, Zenon DEF Inv

-----------------------------------------------------------------------------
(* The theorems *)

LEMMA InitInv == Init => Inv
<1> SUFFICES ASSUME Init PROVE Inv OBVIOUS
<1>1. /\ script \in Scripts /\ preferred \in Devices \cup {Free}
      /\ pc = "idle" /\ step = 1
      /\ state = [i \in Servers |-> "none"] /\ mode = [i \in Servers |-> "range"]
      /\ owner \in [Devices -> {Free, Other}]
      /\ device = Free /\ proc = 0 /\ mine = 0 /\ failed = FALSE /\ rows = {}
      /\ runs = 0 /\ leftovers = {}
  BY Zenon DEF Init
<1>2. 1 \in Nat \ {0} /\ 0 \in Nat /\ ~(0 > 0) OBVIOUS
<1>3. Types
  <2>1. pc \in Pcs /\ pc \notin Planned BY <1>1, Zenon DEF Pcs, Planned, Waiting
  <2>2. owner \in [Devices -> Servers \cup {Free, Other}] BY <1>1, Zenon
  <2> QED BY <1>1, <1>2, <2>1, <2>2, Zenon DEF Types
<1>4. \A i \in Servers : ~Alive(i) BY <1>1, Zenon DEF Alive
<1>5. Run BY <1>1, Zenon DEF Run, Before, Waiting, Ending
<1>6. Measured /\ Serving /\ Taken
  BY <1>1, <1>2, Zenon DEF Measured, Serving, Taken, Waiting, Ending
<1>7. Blamed /\ LeakHasCause /\ RowsHold BY <1>1, <1>4, Zenon DEF Blamed, LeakHasCause, RowsHold
<1> QED BY <1>3, <1>5, <1>6, <1>7, Zenon DEF Inv

LEMMA NextInv == Inv /\ [Next]_vars => Inv'
<1> SUFFICES ASSUME Inv, [Next]_vars PROVE Inv' OBVIOUS
<1>1. CASE UNCHANGED vars
  <2>0. Types /\ Run /\ Measured /\ Serving /\ RowsHold /\ Blamed /\ Taken /\ LeakHasCause
    BY Zenon DEF Inv
  <2>1. UNCHANGED <<script, preferred, pc, step, state, mode, owner, device, proc, mine, failed,
                    rows,
                    runs, leftovers, causes, late, hurt, stats, sigkill>>
    BY <1>1, Zenon DEF vars, servers, history
  <2>2. /\ Plan' = Plan /\ Target' = Target /\ ModeOf' = ModeOf
        /\ \A i \in Servers : Alive(i)' <=> Alive(i)
    BY <2>1, TargetKept, Zenon DEF Alive
  <2>3. RowsHold' /\ Blamed' BY <2>0, <2>1, RowsKept, BlamedKept, Zenon
  <2>4. Types' /\ Serving' /\ Taken' BY <2>0, <2>1, <2>2, Zenon DEF Types, Serving, Taken
  <2>5. Run' /\ LeakHasCause' BY <2>0, <2>1, <2>2, Zenon DEF Run, LeakHasCause
  <2>6. Measured' BY <2>0, <2>1, <2>2, Zenon DEF Measured
  <2> QED BY <2>3, <2>4, <2>5, <2>6, Zenon DEF Inv
<1>2. CASE Script
  BY <1>2, StepMainDetach, StepNextTarget, StepDetachFirst, StepPopens, StepWait, StepAttachNbd,
     StepMeasure, StepFinallyDetach, StepStop, StepResults, Zenon DEF Script
<1> QED BY <1>1, <1>2, StepMain, StepWait, StepKilled, StepServerBinds, StepOthers, Zenon DEF Next

LEMMA AlwaysInv == Spec => []Inv
<1>1. Init => Inv BY InitInv
<1>2. Inv /\ [Next]_vars => Inv' BY NextInv
<1> QED BY <1>1, <1>2, PTL DEF Spec

\* For any plan, number of devices and history of runs, a row of an NBD target
\* was measured through a server of its run in that mode, or through one that
\* was alive when the run began.
THEOREM RowsOfTheirServer == Spec => []RowsAreOfTheirServer
<1>1. Inv => RowsAreOfTheirServer BY Zenon DEF Inv, RowsHold, RowsAreOfTheirServer
<1> QED BY <1>1, AlwaysInv, PTL

\* For any plan and number of runs, servers are left behind only by a kill, a
\* wait that timed out or an attach that failed in start_nbd.
THEOREM LeaksHaveCause == Spec => []LeakHasCause
<1>1. Inv => LeakHasCause BY Zenon DEF Inv
<1> QED BY <1>1, AlwaysInv, PTL

\* For any plan and number of runs, main of measure-file-vs-nbd prints the
\* statistics of its own server, unless that was killed or an older one served.
THEOREM StatsOfThisRun == Spec => []StatsAreOfThisRun
<1>1. Inv => StatsAreOfThisRun BY Zenon DEF Inv, Serving, StatsAreOfThisRun
<1> QED BY <1>1, AlwaysInv, PTL

\* For any number of devices, a script disconnects another program only from a
\* device that its environment names or that was free when it looked.
THEOREM OthersLeftAlone == Spec => OthersAreLeftAlone
<1>1. ASSUME Inv, [Next]_vars PROVE [\A d \in hurt' \ hurt : preferred # Free \/ d \in late]_vars
  <2> SUFFICES ASSUME Next, NEW d \in hurt', d \notin hurt PROVE preferred # Free \/ d \in late
    BY <1>1
  <2>1. pc # "idle" /\ DetachNbd
    BY Zenon DEF Next, Main, Script, FcNbdMain, MatrixMain, FileVsNbdMain, Start, MainDetach,
       NextTarget,
       DetachFirst, StartNbdServerMode, StartNbd, FileVsNbdPopen, WaitPoll, WaitProbe,
       WaitTimeout, Raise,
       AttachNbd, Measure, FinallyDetach, StopProcess, FileVsNbdStop, AfterFinally,
       FcNbdAppendResults,
       MatrixWriteResults, FileVsNbdResults, WriteResults, Killed, ServerBinds, OtherAttaches,
       OtherDetaches, history
  <2>2. d = device /\ owner[device] = Other BY <2>1, Zenon DEF DetachNbd
  <2> QED BY <1>1, <2>1, <2>2, Zenon DEF Inv, Taken
<1> QED BY <1>1, AlwaysInv, PTL DEF Spec, OthersAreLeftAlone

-----------------------------------------------------------------------------
(***************************************************************************)
(* DaemonStack, for any number of crashes and every script whose blocks    *)
(* keep the discipline (StackAssumption).                                  *)
(*                                                                         *)
(* Whatever runs is still to be taken down by a finally block, or has an   *)
(* excuse (Covered); a finally block that comes to a thing has passed all  *)
(* that stands on it (Passed with the discipline), and a try has put up    *)
(* what the next step stands on (Launched).                                *)
(***************************************************************************)
----------------------------------------------------------------------------
(* The inductive invariant *)

Typed ==
  /\ Discipline
  /\ script \in StackScripts /\ keep \in BOOLEAN /\ kept \in Found
  /\ block \in DOMAIN Blocks /\ at \in Nat \ {0}
  /\ up \in [Things -> {"down", "starting", "ready", "dead"}]

\* Where the script is in the middle of a step; no exception is on its way.
\* It ends behind the outer finally block.
Within ==
  /\ pc = "end" => block = Outer
  /\ pc \notin {"finally", "end"} => ~raised
  /\ pc = "wait" => at \in DOMAIN Try /\ Step.do = "popen"
  /\ pc \in {"logs", "remove"} => at \in DOMAIN Try /\ Step.do = "measure"
  /\ pc = "lines" => at \in DOMAIN Try /\ Step.do = "workspace"

\* What a try has put up stays until its finally block, or is dead.
Launched ==
  pc \notin {"finally", "end"} =>
     \A j \in DOMAIN Try :
        (Try[j].do \in {"popen", "command"} /\ (j < at \/ (j = at /\ pc = "wait")))
           => up[Try[j].what] # "down"

\* What a finally block has passed is gone, but for a mount that was busy.
Passed ==
  pc = "finally" =>
     \A j \in DOMAIN Finally :
        j < at => ~Running(Finally[j]) \/ (Finally[j] = "mount" /\ "busy" \in troubles)

\* The finally block of the try, or the outer one, still comes to x.
Here(x) ==
  pc # "end" /\ \E i \in DOMAIN Finally : Finally[i] = x /\ (pc = "finally" => at <= i)

Later(x) == pc # "end" /\ block # Outer /\ Names(Blocks[Outer].finally, x)

\* A node was made and the block that removes it is next: nothing can raise
\* in between.
Handed ==
  /\ ~raised /\ block < Outer /\ Finally = <<>> /\ Names(Blocks[block + 1].finally, "node")
  /\ pc = "finally" \/ (pc = "step" /\ at > Len(Try))

MayStay(x) ==
  \/ \E n \in DOMAIN Blocks : \E i, j \in DOMAIN Blocks[n].finally :
        Blocks[n].finally[i] \in stuck /\ i <= j /\ Blocks[n].finally[j] = x
  \/ x = "stack"
  \/ x \in {"registry", "toxiproxy"} /\ LeavesRegistry(script, keep)
  \/ x = "mount" /\ {"busy", "notRemoved"} \subseteq troubles
  \/ x = "node" /\ "halfStarted" \in troubles

\* Whatever runs is still to be taken down, or stays for a reason.
Covered ==
  \A x \in Things \ (Guests \cup {"overlaybdMount"}) :
     Running(x) => Here(x) \/ Later(x) \/ (x = "node" /\ Handed) \/ MayStay(x)

\* Guests run in a node that is about to be used or removed.
Guested == \A x \in Guests : Running(x) => up["node"] = "ready" /\ Here("node")

\* The results of the overlaybd script are written without a mount, and only
\* an exception ends a script without results.
Mounted ==
  /\ Running("overlaybdMount") => script = "overlaybdReal"
  /\ written => block = Outer /\ pc \in {"finally", "end"} /\ ~Running("overlaybdMount")
  /\ (block = Outer /\ pc \in {"finally", "end"}) => raised \/ written
  /\ (script = "overlaybdReal" /\ block = Outer /\ pc \notin {"finally", "end"} /\ at > 1)
        => ~Running("overlaybdMount")

\* A container outlives its measurement only if its removal failed.
Contained ==
  /\ container # {} =>
        \/ "notRemoved" \in troubles
        \/ pc \in {"logs", "remove"} /\ container = {Step.what}
  /\ "busy" \in troubles => "notRemoved" \in troubles

\* What stands on something was put up by a step of the script.
Known ==
  \A x \in Things \ Guests :
     (Running(x) /\ Needs(x) # {}) =>
        \E n \in DOMAIN Blocks : \E i \in DOMAIN Blocks[n].try : Blocks[n].try[i].what = x

StackInv ==
  /\ Typed /\ Within /\ Launched /\ Passed /\ Covered /\ Guested /\ Mounted /\ Contained
  /\ Known /\ FoundationsStay

----------------------------------------------------------------------------
(* What the layout of the script gives *)

LEMMA NeedsFacts ==
  ASSUME NEW s, NEW x
  PROVE  /\ NeedsIn(s, x) \subseteq Things \ (Guests \cup {"overlaybdMount"})
         /\ x \in Containers \cup {"ctr", "overlaybdMount"} => NeedsIn(s, x) = {}
         /\ x \in Guests => NeedsIn(s, x) = {"node"}
  <1>. USE DEF Things, Guests, Containers, Daemons
  <1>1. NeedsIn(s, x) \in {{"nbdServer"}, {"device"}, {"mount"}, {"containerd"}, {"containerd2"},
                           {"stargz"}, {"node"}, {}}
    BY Zenon DEF NeedsIn
  <1>2. NeedsIn(s, x) \subseteq Things \ (Guests \cup {"overlaybdMount"})
    BY <1>1, Zenon
  <1>3. x \in Containers \cup {"ctr", "overlaybdMount"} => NeedsIn(s, x) = {}
    BY Zenon DEF NeedsIn
  <1>4. x \in Guests => NeedsIn(s, x) = {"node"}
    BY Zenon DEF NeedsIn
  <1>. QED  BY <1>2, <1>3, <1>4, Zenon

LEMMA Rules ==
  ASSUME Typed
  PROVE  /\ Blocks \in Seq([try : Seq(Steps), finally : Seq(Stoppable)]) /\ Blocks # <<>>
         /\ \A n \in DOMAIN Blocks :
               /\ Upwards(script, Blocks[n]) /\ Downwards(script, Blocks, Blocks[n])
               /\ Accounted(script, keep, Blocks, n)
         /\ \A x \in Earlier(script, kept) :
               Answered(script, keep, Blocks, 1, x) \/ script \notin Reuses
         /\ script = "overlaybdReal" => LooksLast(Blocks)
  <1>1. Disciplined(script, keep, kept)
    BY Zenon DEF Typed, Discipline
  <1>. QED  BY <1>1, Zenon DEF Disciplined, Blocks

LEMMA Shapes ==
  ASSUME Typed
  PROVE  /\ Outer \in Nat \ {0} /\ DOMAIN Blocks = 1..Outer /\ Outer \in DOMAIN Blocks
         /\ \A n \in DOMAIN Blocks :
               /\ Len(Blocks[n].try) \in Nat /\ DOMAIN Blocks[n].try = 1..Len(Blocks[n].try)
               /\ Len(Blocks[n].finally) \in Nat
               /\ DOMAIN Blocks[n].finally = 1..Len(Blocks[n].finally)
               /\ Blocks[n].try \in Seq(Steps)
               /\ \A i \in DOMAIN Blocks[n].try : Blocks[n].try[i] \in Steps
               /\ \A i \in DOMAIN Blocks[n].finally : Blocks[n].finally[i] \in Stoppable
  <1>1. Blocks \in Seq([try : Seq(Steps), finally : Seq(Stoppable)]) /\ Blocks # <<>>
    BY Rules, Zenon
  <1>2. Outer \in Nat \ {0} /\ DOMAIN Blocks = 1..Outer /\ Outer \in DOMAIN Blocks
    BY <1>1 DEF Outer
  <1>3. ASSUME NEW S, NEW f \in Seq(S)
        PROVE  Len(f) \in Nat /\ DOMAIN f = 1..Len(f) /\ \A i \in DOMAIN f : f[i] \in S
    BY <1>3
  <1>4. ASSUME NEW n \in DOMAIN Blocks
        PROVE  Blocks[n].try \in Seq(Steps) /\ Blocks[n].finally \in Seq(Stoppable)
    <2>1. Blocks[n] \in [try : Seq(Steps), finally : Seq(Stoppable)]
      BY <1>1, <1>3, <1>4, Zenon
    <2>. QED  BY <2>1, Zenon
  <1>. QED  BY <1>2, <1>3, <1>4, Zenon

LEMMA StepTypes ==
  ASSUME NEW st \in Steps
  PROVE  /\ st.do = "popen" => st.what \in Daemons \ Guests
         /\ st.do = "command" => st.what \in Containers \cup {"device", "mount"}
         /\ st.do = "exec" => st.what \in Guests
         /\ st.do = "measure" => st.what \in Daemons
  <1>. USE DEF Steps, Popen, MeasureOn, Command, Exec, Work, Online, CleanMounts,
           Workspace,
               AwaitCleanMounts
  <1>1. CASE \E x \in Daemons \ Guests : st = Popen(x)
    BY <1>1
  <1>2. CASE \E x \in Daemons : st = MeasureOn(x)
    BY <1>2
  <1>3. CASE \E x \in Containers \cup {"device", "mount"} : st = Command(x)
    BY <1>3
  <1>4. CASE \E x \in Guests : st = Exec(x)
    BY <1>4
  <1>5. CASE st \in {Work, Online, CleanMounts, Workspace, AwaitCleanMounts}
    BY <1>5
  <1>. QED  BY <1>1, <1>2, <1>3, <1>4, <1>5, Zenon

LEMMA ThingsApart ==
  /\ Daemons \subseteq Things /\ Containers \subseteq Things /\ Guests \subseteq Daemons
  /\ {"device", "mount", "overlaybdMount", "node", "ctr"} \subseteq Things
  /\ "ctr" \in Daemons \ Guests /\ "node" \in Containers
  /\ Containers \cap Daemons = {}
  /\ Daemons \cap {"device", "mount", "overlaybdMount", "node", "stack", "registry", "toxiproxy"} = {}
  /\ Containers \cap {"device", "mount", "overlaybdMount"} = {}
  /\ Stoppable \subseteq Things \ (Guests \cup {"overlaybdMount"})
  BY Zenon DEF Things, Daemons, Containers, Guests, Stoppable

----------------------------------------------------------------------------
(* Frame lemmas *)

States == {"down", "starting", "ready", "dead"}

Trying == {"step", "wait", "logs", "remove", "lines"}

LEMMA SameLayout ==
  ASSUME UNCHANGED <<script, keep, kept>>
  PROVE  /\ Blocks' = Blocks /\ Outer' = Outer /\ \A x : Needs(x)' = Needs(x)
         /\ block' = block => Try' = Try /\ Finally' = Finally
  BY Zenon DEF Blocks, Outer, Needs, Try, Finally

LEMMA MayStayStays ==
  ASSUME UNCHANGED <<script, keep, kept>>, \A c : c \in troubles => c \in troubles',
         \A d : d \in stuck => d \in stuck', NEW x, MayStay(x)
  PROVE  MayStay(x)'
  <1>1. Blocks' = Blocks
    BY SameLayout, Zenon
  <1>. QED  BY <1>1, Zenon DEF MayStay

\* A step of a try may put things up, on what is up already, and such that a
\* finally block or an excuse answers for them.
Founded(x) ==
  /\ \A y \in Needs(x) : up'[y] # "down"
  /\ (x \notin Guests /\ Needs(x) # {}) =>
        \E n \in DOMAIN Blocks : \E i \in DOMAIN Blocks[n].try : Blocks[n].try[i].what = x
  /\ x \notin Guests \cup {"overlaybdMount"} =>
        \/ Names(Finally, x) \/ Names(Blocks[Outer].finally, x)
        \/ MayStay(x)' \/ (x = "node" /\ Handed')
  /\ x \in Guests => up'["node"] = "ready" /\ Names(Finally, "node")
  /\ x = "overlaybdMount" => script = "overlaybdReal"

PutsUp ==
  /\ up' \in [Things -> States]
  /\ \A x \in Things : up[x] # "down" => up'[x] # "down"
  /\ up["node"] = "ready" => up'["node"] = "ready"
  /\ \A x \in Things : Running(x)' => Running(x) \/ Founded(x)

LEMMA Idle == ASSUME Typed, up' = up PROVE PutsUp
  BY Zenon DEF PutsUp, Typed, Running, States

\* What a step of a try keeps.
LEMMA TryKeeps ==
  ASSUME StackInv, PutsUp, UNCHANGED <<script, keep, kept, block, stuck>>,
         \A c : c \in troubles => c \in troubles', at' \in Nat \ {0},
         pc \in Trying, pc' \in Trying \cup {"finally"}, pc' = "finally" => at' = 1,
         Handed => Handed'
  PROVE  Typed' /\ Passed' /\ Covered' /\ Guested' /\ Known' /\ FoundationsStay'
  <1>0. Typed /\ Covered /\ Guested /\ Known /\ FoundationsStay
    BY Zenon DEF StackInv
  <1>1. /\ Blocks' = Blocks /\ Outer' = Outer /\ \A x : Needs(x)' = Needs(x)
        /\ Try' = Try /\ Finally' = Finally
    BY SameLayout, Zenon
  <1>2. pc # "finally" /\ pc # "end" /\ pc' # "end"
    BY Zenon DEF Trying
  <1>3. Typed'
    BY <1>0, <1>1, Zenon DEF Typed, PutsUp, States
  <1>4. Passed'
    <2>1. \A j \in DOMAIN Finally : pc' = "finally" => ~(j < at')
      <3>1. DOMAIN Finally \subseteq Nat \ {0}
        BY <1>0, Shapes DEF Typed, Finally
      <3>. QED  BY <3>1
    <2>. QED  BY <1>1, <2>1, Zenon DEF Passed
  <1>5. \A x : Names(Finally, x) => Here(x)'
    <2>1. \A i \in DOMAIN Finally : pc' = "finally" => at' <= i
      <3>1. DOMAIN Finally \subseteq Nat \ {0}
        BY <1>0, Shapes DEF Typed, Finally
      <3>. QED  BY <3>1
    <2>. QED  BY <1>1, <1>2, <2>1, Zenon DEF Here, Names
  <1>6. \A x : Here(x) => Here(x)'
    BY <1>5, Zenon DEF Here, Names
  <1>7. \A x : Names(Blocks[Outer].finally, x) => Here(x)' \/ Later(x)'
    BY <1>1, <1>2, <1>5, Zenon DEF Later, Finally
  <1>8. \A x : Later(x) => Later(x)'
    BY <1>1, <1>2, Zenon DEF Later
  <1>9. Covered'
    <2>. SUFFICES ASSUME NEW x \in Things \ (Guests \cup {"overlaybdMount"}), Running(x)'
                  PROVE  Here(x)' \/ Later(x)' \/ (x = "node" /\ Handed') \/ MayStay(x)'
      BY Zenon DEF Covered
    <2>1. CASE Running(x)
      BY <1>0, <1>6, <1>8, <2>1, MayStayStays, Zenon DEF Covered
    <2>2. CASE Founded(x)
      BY <1>5, <1>7, <2>2, Zenon DEF Founded
    <2>. QED  BY <2>1, <2>2, Zenon DEF PutsUp
  <1>10. Guested'
    <2>. SUFFICES ASSUME NEW x \in Guests, Running(x)'
                  PROVE  up'["node"] = "ready" /\ Here("node")'
      BY Zenon DEF Guested
    <2>1. CASE Running(x)
      BY <1>0, <1>6, <2>1, Zenon DEF Guested, PutsUp
    <2>2. CASE Founded(x)
      BY <1>5, <2>2, Zenon DEF Founded
    <2>. QED  BY <2>1, <2>2, ThingsApart, Zenon DEF PutsUp
  <1>11. Known'
    <2>. SUFFICES ASSUME NEW x \in Things \ Guests, Running(x)', Needs(x)' # {}
                  PROVE  \E n \in DOMAIN Blocks : \E i \in DOMAIN Blocks[n].try :
                            Blocks[n].try[i].what = x
      BY <1>1, Zenon DEF Known
    <2>1. CASE Running(x)
      BY <1>0, <1>1, <2>1, Zenon DEF Known
    <2>2. CASE Founded(x)
      BY <1>1, <2>2, Zenon DEF Founded
    <2>. QED  BY <2>1, <2>2, Zenon DEF PutsUp
  <1>12. FoundationsStay'
    <2>. SUFFICES ASSUME NEW x \in Things, Running(x)', NEW y \in Needs(x)
                  PROVE  Running(y)' \/ up'[y] = "dead" \/ (x = "mount" /\ "busy" \in troubles')
      BY <1>1, Zenon DEF FoundationsStay
    <2>1. y \in Things /\ up'[y] \in States
      BY NeedsFacts, Zenon DEF Needs, PutsUp
    <2>2. up'[y] # "down" => Running(y)' \/ up'[y] = "dead"
      BY <2>1, Zenon DEF States, Running
    <2>3. CASE Running(x)
      BY <1>0, <2>1, <2>2, <2>3, Zenon DEF FoundationsStay, PutsUp, Running
    <2>4. CASE Founded(x)
      BY <2>2, <2>4, Zenon DEF Founded
    <2>. QED  BY <2>3, <2>4, Zenon DEF PutsUp
  <1>. QED  BY <1>3, <1>4, <1>9, <1>10, <1>11, <1>12, Zenon

\* Before the end of a try nothing is handed on.
LEMMA NotHanded ==
  ASSUME Typed, pc \in Trying, at \in DOMAIN Try \/ pc # "step"
  PROVE  ~Handed
  <1>1. at \in DOMAIN Try => ~(at > Len(Try))
    <2>1. Len(Try) \in Nat /\ DOMAIN Try = 1..Len(Try)
      BY Shapes DEF Typed, Try
    <2>. QED  BY <2>1
  <1>. QED  BY <1>1, Zenon DEF Handed, Trying

LEMMA LeaveStep ==
  ASSUME StackInv, PutsUp, UNCHANGED <<script, keep, kept, block, stuck, container>>,
         \A c : c \in troubles => c \in troubles', "busy" \in troubles' => "busy" \in troubles,
         pc \in {"step", "wait", "lines"}, pc' = "finally", at' = 1, Handed => Handed',
         block = Outer => raised' \/ written',
         written' => block = Outer /\ ~Running("overlaybdMount")'
  PROVE  StackInv'
  <1>0. Mounted /\ Contained
    BY Zenon DEF StackInv
  <1>1. Outer' = Outer
    BY SameLayout, Zenon
  <1>2. Typed' /\ Passed' /\ Covered' /\ Guested' /\ Known' /\ FoundationsStay'
    <2>1. at' \in Nat \ {0}
      OBVIOUS
    <2>. QED  BY <2>1, TryKeeps, Zenon DEF Trying
  <1>3. Within' /\ Launched'
    BY Zenon DEF Within, Launched
  <1>4. Mounted'
    BY <1>0, <1>1, ThingsApart, Zenon DEF Mounted, PutsUp, Founded
  <1>5. Contained'
    BY <1>0, Zenon DEF Contained
  <1>. QED  BY <1>2, <1>3, <1>4, <1>5, Zenon DEF StackInv

LEMMA AdvanceStep ==
  ASSUME StackInv, PutsUp, UNCHANGED <<script, keep, kept, block, stuck, raised, written>>,
         \A c : c \in troubles => c \in troubles', "busy" \in troubles' => "busy" \in troubles,
         pc \in Trying, at \in DOMAIN Try, pc' = "step", at' = at + 1,
         Step.do \in {"popen", "command"} => up'[Step.what] # "down",
         (script = "overlaybdReal" /\ block = Outer) => ~Running("overlaybdMount")',
         container' # {} => "notRemoved" \in troubles'
  PROVE  StackInv'
  <1>0. Typed /\ Within /\ Mounted /\ Contained /\ Launched
    BY Zenon DEF StackInv
  <1>1. Blocks' = Blocks /\ Outer' = Outer /\ Try' = Try
    BY SameLayout, Zenon
  <1>2. at' \in Nat \ {0} /\ \A j \in DOMAIN Try : j < at' => j < at \/ j = at
    BY <1>0, Shapes DEF Typed, Try
  <1>3. ~Handed
    BY <1>0, NotHanded, Zenon
  <1>4. Typed' /\ Passed' /\ Covered' /\ Guested' /\ Known' /\ FoundationsStay'
    BY <1>2, <1>3, TryKeeps, Zenon DEF Trying
  <1>5. Within'
    BY <1>0, Zenon DEF Within, Trying
  <1>6. Launched'
    <2>. SUFFICES ASSUME NEW j \in DOMAIN Try, Try[j].do \in {"popen", "command"}, j < at'
                  PROVE  up'[Try[j].what] # "down"
      BY <1>1, Zenon DEF Launched
    <2>1. CASE j = at
      BY <2>1, Zenon DEF Step
    <2>2. CASE j < at
      <3>1. Try[j].what \in Things
        BY <1>0, Shapes, StepTypes, ThingsApart, Zenon DEF Typed, Try
      <3>. QED  BY <1>0, <2>2, <3>1, Zenon DEF Launched, Trying, PutsUp
    <2>. QED  BY <1>2, <2>1, <2>2, Zenon
  <1>7. Mounted'
    BY <1>0, <1>1, ThingsApart, Zenon DEF Mounted, PutsUp, Founded, Trying
  <1>8. Contained'
    BY <1>0, Zenon DEF Contained
  <1>. QED  BY <1>4, <1>5, <1>6, <1>7, <1>8, Zenon DEF StackInv

LEMMA GotoStep ==
  ASSUME StackInv, PutsUp, UNCHANGED <<script, keep, kept, block, at, stuck, raised, written,
                                       troubles>>,
         pc \in Trying, at \in DOMAIN Try, pc' \in {"wait", "logs", "remove", "lines"},
         pc' = "wait" => Step.do = "popen" /\ up'[Step.what] # "down",
         pc' \in {"logs", "remove"} => Step.do = "measure",
         pc' = "lines" => Step.do = "workspace",
         block = Outer => (Running("overlaybdMount")' => Running("overlaybdMount")),
         container' # {} =>
            "notRemoved" \in troubles \/ (pc' \in {"logs", "remove"} /\ container' = {Step.what})
  PROVE  StackInv'
  <1>0. Typed /\ Within /\ Mounted /\ Contained /\ Launched
    BY Zenon DEF StackInv
  <1>1. Blocks' = Blocks /\ Outer' = Outer /\ Try' = Try /\ Step' = Step
    BY SameLayout, Zenon DEF Step
  <1>2. ~Handed
    BY <1>0, NotHanded, Zenon
  <1>3. Typed' /\ Passed' /\ Covered' /\ Guested' /\ Known' /\ FoundationsStay'
    BY <1>0, <1>2, TryKeeps, Zenon DEF Trying, Typed
  <1>4. Within'
    BY <1>0, <1>1, Zenon DEF Within, Trying
  <1>5. Launched'
    <2>. SUFFICES ASSUME NEW j \in DOMAIN Try, Try[j].do \in {"popen", "command"},
                         j < at \/ (j = at /\ pc' = "wait")
                  PROVE  up'[Try[j].what] # "down"
      BY <1>1, Zenon DEF Launched
    <2>1. CASE j = at /\ pc' = "wait"
      BY <2>1, Zenon DEF Step
    <2>2. CASE j < at
      <3>1. Try[j].what \in Things
        BY <1>0, Shapes, StepTypes, ThingsApart, Zenon DEF Typed, Try
      <3>. QED  BY <1>0, <2>2, <3>1, Zenon DEF Launched, Trying, PutsUp
    <2>. QED  BY <2>1, <2>2, Zenon
  <1>6. Mounted'
    BY <1>0, <1>1, ThingsApart, Zenon DEF Mounted, PutsUp, Founded, Trying
  <1>7. Contained'
    BY <1>0, <1>1, Zenon DEF Contained
  <1>. QED  BY <1>3, <1>4, <1>5, <1>6, <1>7, Zenon DEF StackInv

----------------------------------------------------------------------------
(* Steps of a try that put nothing up *)

LEMMA AtStep ==
  ASSUME StackInv, pc = "step", at <= Len(Try)
  PROVE  at \in DOMAIN Try
  <1>1. Typed
    BY Zenon DEF StackInv
  <1>2. Len(Try) \in Nat /\ DOMAIN Try = 1..Len(Try)
    BY <1>1, Shapes, Zenon DEF Typed, Try
  <1>. QED  BY <1>1, <1>2 DEF Typed

\* The last block of the overlaybd script only looks for mounts.
LEMMA OuterLooks ==
  ASSUME StackInv, at \in DOMAIN Try, Step.do # "awaitClean"
  PROVE  ~(script = "overlaybdReal" /\ block = Outer)
  BY Rules, Zenon DEF StackInv, LooksLast, Outer, Try, Step

\* An exception, or the way out of a try that is not the last.
LEMMA LeavesQuietly ==
  ASSUME StackInv, pc \in {"step", "wait", "lines"}, at \in DOMAIN Try, NEW e, Leave(e),
         e = TRUE \/ block # Outer, UNCHANGED <<up, container, written, troubles>>
  PROVE  StackInv'
  <1>0. Typed /\ Mounted
    BY Zenon DEF StackInv
  <1>1. ~Handed
    BY <1>0, NotHanded, Zenon DEF Trying
  <1>2. PutsUp
    BY <1>0, Idle, Zenon
  <1>3. /\ pc' = "finally" /\ at' = 1 /\ raised' = e
        /\ UNCHANGED <<script, keep, kept, block, stuck>>
    BY Zenon DEF Leave, fixed
  <1>4. ~written'
    BY <1>0, Zenon DEF Mounted
  <1>. QED  BY <1>1, <1>2, <1>3, <1>4, LeaveStep, Zenon

\* On to the next step.
LEMMA AdvancesQuietly ==
  ASSUME StackInv, pc \in Trying, at \in DOMAIN Try, Advance,
         Step.do # "command", Step.do = "popen" => pc = "wait",
         Step.do = "awaitClean" => ~Running("overlaybdMount"),
         UNCHANGED <<up, written>>, \A c : c \in troubles => c \in troubles',
         "busy" \in troubles' => "busy" \in troubles, container' # {} => "notRemoved" \in troubles'
  PROVE  StackInv'
  <1>0. Typed /\ Mounted /\ Launched
    BY Zenon DEF StackInv
  <1>1. PutsUp
    BY <1>0, Idle, Zenon
  <1>2. pc' = "step" /\ at' = at + 1 /\ UNCHANGED <<script, keep, kept, block, stuck, raised>>
    BY Zenon DEF Advance, fixed
  <1>3. Step.do \in {"popen", "command"} => up'[Step.what] # "down"
    BY <1>0, Zenon DEF Launched, Step
  <1>4. (script = "overlaybdReal" /\ block = Outer) => ~Running("overlaybdMount")'
    BY OuterLooks, Zenon DEF Running
  <1>. QED  BY <1>1, <1>2, <1>3, <1>4, AdvanceStep, Zenon

LEMMA QuietSteps ==
  ASSUME StackInv,
         \/ StepRaises \/ WaitForDaemon \/ WaitForOnline \/ RunWork \/ WaitForCleanMounts
         \/ RequireCleanMounts \/ Deadline
  PROVE  StackInv'
  <1>0. Within /\ Contained
    BY Zenon DEF StackInv
  <1>. USE DEF InTry, Trying
  <1>1. CASE StepRaises
    BY <1>1, AtStep, LeavesQuietly, Zenon DEF StepRaises
  <1>2. CASE WaitDeadline
    BY <1>0, <1>2, LeavesQuietly, Zenon DEF WaitDeadline, Within
  <1>3. CASE OnlineDeadline
    BY <1>3, AtStep, LeavesQuietly, Zenon DEF OnlineDeadline
  <1>4. CASE CleanDeadline
    BY <1>4, AtStep, LeavesQuietly, Zenon DEF CleanDeadline
  <1>5. (pc = "step" \/ pc = "wait") /\ container' = container /\ troubles' = troubles
           => (container' # {} => "notRemoved" \in troubles')
    BY <1>0, Zenon DEF Contained
  <1>6. CASE WaitForDaemon
    BY <1>0, <1>5, <1>6, AdvancesQuietly, Zenon DEF WaitForDaemon, Within
  <1>7. CASE WaitForOnline
    BY <1>5, <1>7, AtStep, AdvancesQuietly, Zenon DEF WaitForOnline
  <1>8. CASE RunWork
    BY <1>5, <1>8, AtStep, AdvancesQuietly, Zenon DEF RunWork
  <1>9. CASE WaitForCleanMounts
    BY <1>5, <1>9, AtStep, AdvancesQuietly, Zenon DEF WaitForCleanMounts, Running
  <1>10. CASE RequireCleanMounts
    <2>1. CASE Leave(TRUE)
      BY <1>10, <2>1, AtStep, LeavesQuietly, Zenon DEF RequireCleanMounts
    <2>2. CASE Advance
      BY <1>5, <1>10, <2>2, AtStep, AdvancesQuietly, Zenon DEF RequireCleanMounts
    <2>. QED  BY <1>10, <2>1, <2>2, Zenon DEF RequireCleanMounts
  <1>. QED
    BY <1>1, <1>2, <1>3, <1>4, <1>6, <1>7, <1>8, <1>9, <1>10, Zenon DEF Deadline

LEMMA LinesStep ==
  ASSUME StackInv, ReadLine \/ ReadEnd
  PROVE  StackInv'
  <1>1. /\ pc = "lines" /\ at \in DOMAIN Try /\ Step.do = "workspace"
        /\ Leave(FALSE) /\ UNCHANGED <<up, container, written, troubles>>
    BY Zenon DEF StackInv, Within, ReadLine, ReadEnd
  <1>2. block # Outer
    <2>1. Typed
      BY Zenon DEF StackInv
    <2>2. block < Outer
      BY <1>1, <2>1, Rules, Zenon DEF Typed, Accounted, Try, Step, Outer
    <2>3. block \in Nat /\ Outer \in Nat
      BY <2>1, Shapes DEF Typed
    <2>. QED  BY <2>2, <2>3
  <1>. QED  BY <1>1, <1>2, LeavesQuietly, Zenon

LEMMA WriteResultStep ==
  ASSUME StackInv, WriteResult
  PROVE  StackInv'
  <1>0. Typed /\ Mounted
    BY Zenon DEF StackInv
  <1>1. /\ pc = "step" /\ at > Len(Try) /\ written' = (block = Outer)
        /\ pc' = "finally" /\ at' = 1 /\ raised' = FALSE
        /\ UNCHANGED <<script, keep, kept, block, stuck, up, container, troubles>>
    BY Zenon DEF WriteResult, Leave, fixed
  <1>2. PutsUp
    BY <1>0, <1>1, Idle, Zenon
  <1>3. Handed => Handed'
    BY <1>1, SameLayout, Zenon DEF Handed
  <1>4. block = Outer => ~Running("overlaybdMount")'
    <2>1. CASE script = "overlaybdReal" /\ block = Outer
      <3>1. Try # <<>>
        BY <1>0, <2>1, Rules, Zenon DEF LooksLast, Outer, Try
      <3>2. Try \in Seq(Steps)
        BY <1>0, Shapes, Zenon DEF Typed, Try
      <3>3. at > 1
        BY <1>0, <1>1, <3>1, <3>2 DEF Typed
      <3>. QED  BY <1>0, <1>1, <2>1, <3>3, Zenon DEF Mounted, Running
    <2>2. CASE script # "overlaybdReal"
      BY <1>0, <1>1, <2>2, Zenon DEF Mounted, Running
    <2>. QED  BY <2>1, <2>2, Zenon
  <1>. QED  BY <1>1, <1>2, <1>3, <1>4, LeaveStep, Zenon

LEMMA MeasureSteps ==
  ASSUME StackInv, StartContainer \/ ReadLogs \/ RemoveContainer
  PROVE  StackInv'
  <1>0. Typed /\ Within /\ Contained
    BY Zenon DEF StackInv
  <1>1. up' = up /\ PutsUp
    BY <1>0, Idle, Zenon DEF StartContainer, ReadLogs, RemoveContainer
  <1>2. at \in DOMAIN Try /\ Step.do = "measure" /\ UNCHANGED written
    BY <1>0, AtStep, Zenon DEF StartContainer, ReadLogs, RemoveContainer, InTry, Within
  <1>3. CASE StartContainer
    <2>1. /\ pc = "step" /\ pc' = "logs" /\ container' = container \cup {Step.what}
          /\ UNCHANGED <<script, keep, kept, block, at, stuck, raised, troubles>>
      BY <1>3, Zenon DEF StartContainer, InTry, Continue, fixed
    <2>2. container' # {} => "notRemoved" \in troubles \/ container' = {Step.what}
      BY <1>0, <2>1, Zenon DEF Contained
    <2>. QED  BY <1>1, <1>2, <2>1, <2>2, GotoStep, Zenon DEF Trying, Running
  <1>4. CASE ReadLogs
    <2>1. /\ pc = "logs" /\ pc' = "remove" /\ container' = container
          /\ UNCHANGED <<script, keep, kept, block, at, stuck, raised, troubles>>
      BY <1>4, Zenon DEF ReadLogs, Continue, fixed
    <2>. QED  BY <1>0, <1>1, <1>2, <2>1, GotoStep, Zenon DEF Trying, Running, Contained
  <1>5. CASE RemoveContainer
    <2>1. /\ pc = "remove" /\ Advance
          /\ \/ container' = container \ {Step.what} /\ troubles' = troubles
             \/ troubles' = troubles \cup {"notRemoved"}
      BY <1>5, Zenon DEF RemoveContainer
    <2>2. container' # {} => "notRemoved" \in troubles'
      BY <1>0, <2>1, Zenon DEF Contained
    <2>. QED  BY <1>1, <1>2, <2>1, <2>2, AdvancesQuietly, Zenon DEF Trying
  <1>. QED  BY <1>3, <1>4, <1>5, Zenon

----------------------------------------------------------------------------
(* Steps of a try that put something up *)

LEMMA PutUp ==
  ASSUME Typed, NEW x \in Things, NEW v \in {"starting", "ready"}, up' = [up EXCEPT ![x] = v]
  PROVE  /\ up' \in [Things -> States] /\ up'[x] = v
         /\ \A y \in Things : y # x => up'[y] = up[y]
  <1>1. up \in [Things -> States] /\ v \in States
    BY Zenon DEF Typed, States
  <1>. QED  BY <1>1, Zenon

\* One thing more.
LEMMA OneMore ==
  ASSUME Typed, NEW x \in Things, NEW v \in {"starting", "ready"}, up' = [up EXCEPT ![x] = v],
         x = "node" => v = "ready", Founded(x)
  PROVE  PutsUp
  <1>1. /\ up' \in [Things -> States] /\ up'[x] = v
        /\ \A y \in Things : y # x => up'[y] = up[y]
    BY PutUp, Zenon
  <1>2. \A y \in Things : Running(y)' => Running(y) \/ Founded(y)
    BY <1>1, Zenon DEF Running
  <1>3. v # "down" /\ "node" \in Things
    BY ThingsApart, Zenon
  <1>. QED  BY <1>1, <1>2, <1>3, Zenon DEF PutsUp

LEMMA StartDaemonStep ==
  ASSUME StackInv, StartDaemon
  PROVE  StackInv'
  <1>0. Typed /\ Launched /\ Contained
    BY Zenon DEF StackInv
  <1>1. /\ pc = "step" /\ at \in DOMAIN Try /\ Step.do = "popen" /\ pc' = "wait"
        /\ up' = [up EXCEPT ![Step.what] = "starting"]
        /\ UNCHANGED <<script, keep, kept, block, at, stuck, raised, written, troubles, container>>
    BY AtStep, Zenon DEF StartDaemon, InTry, Continue, fixed
  <1>2. Step \in Steps /\ Step.what \in Daemons \ Guests /\ block \in DOMAIN Blocks
    BY <1>0, <1>1, Shapes, StepTypes, Zenon DEF Typed, Try, Step
  <1>. PICK x : x = Step.what
    OBVIOUS
  <1>3. x \in Things /\ x # "node" /\ x # "overlaybdMount"
    BY <1>2, ThingsApart, Zenon
  <1>4. /\ up' \in [Things -> States] /\ up'[x] = "starting"
        /\ \A y \in Things : y # x => up'[y] = up[y]
    BY <1>0, <1>1, <1>3, PutUp, Zenon
  <1>5. \A y \in Needs(x) : up'[y] # "down"
    <2>. SUFFICES ASSUME NEW y \in Needs(x) PROVE up'[y] # "down"
      OBVIOUS
    <2>1. PICK j \in DOMAIN Try : /\ j < at /\ Try[j].what = y
                                   /\ Try[j].do \in {"popen", "command"}
      <3>1. Upwards(script, Blocks[block])
        BY <1>0, <1>2, Rules, Zenon
      <3>. QED  BY <1>1, <3>1, Zenon DEF Upwards, Needs, Try, Step
    <2>2. up[y] # "down" /\ y \in Things
      BY <1>0, <1>1, <2>1, NeedsFacts, Zenon DEF Launched, Needs
    <2>. QED  BY <1>4, <2>2, Zenon
  <1>6. Names(Finally, x)
    BY <1>0, <1>1, <1>2, Rules, Zenon DEF Accounted, Try, Step, Finally
  <1>7. \E n \in DOMAIN Blocks : \E i \in DOMAIN Blocks[n].try : Blocks[n].try[i].what = x
    BY <1>1, <1>2, Zenon DEF Try, Step
  <1>8. Founded(x)
    BY <1>2, <1>3, <1>5, <1>6, <1>7, Zenon DEF Founded
  <1>9. PutsUp
    BY <1>0, <1>1, <1>3, <1>8, OneMore, Zenon
  <1>10. Running("overlaybdMount")' => Running("overlaybdMount")
    BY <1>3, <1>4, ThingsApart, Zenon DEF Running
  <1>11. container' # {} => "notRemoved" \in troubles
    BY <1>0, <1>1, Zenon DEF Contained
  <1>12. up'[Step.what] # "down"
    BY <1>4, Zenon
  <1>. QED  BY <1>1, <1>9, <1>10, <1>11, <1>12, GotoStep, Zenon DEF Trying

\* Who answers for what a command of the try has made.
LEMMA CommandAnswered ==
  ASSUME StackInv, at \in DOMAIN Try, Step.do = "command", UNCHANGED <<script, keep, kept>>,
         NEW x, x = Step.what
  PROVE  \/ Names(Finally, x) \/ Names(Blocks[Outer].finally, x) \/ MayStay(x)'
         \/ x = "node" /\ HandedOn(Blocks, block, at)
  <1>1. Typed
    BY Zenon DEF StackInv
  <1>2. \/ Answered(script, keep, Blocks, block, x)
        \/ x = "node" /\ HandedOn(Blocks, block, at)
    BY <1>1, Rules, Zenon DEF Typed, Accounted, Try, Step
  <1>. QED  BY <1>2, Zenon DEF Answered, Finally, Outer, MayStay

LEMMA CommandStep ==
  ASSUME StackInv, RunCommand \/ NoAnswer
  PROVE  StackInv'
  <1>0. Typed /\ Within /\ Contained /\ Mounted
    BY Zenon DEF StackInv
  <1>1. /\ pc = "step" /\ at \in DOMAIN Try /\ Step.do = "command"
        /\ up' = [up EXCEPT ![Step.what] = "ready"]
        /\ UNCHANGED <<script, keep, kept, block, stuck, written, container>>
    BY AtStep, Zenon DEF RunCommand, NoAnswer, InTry, Advance, Leave, fixed
  <1>2. /\ Step \in Steps /\ Step.what \in Containers \cup {"device", "mount"}
        /\ block \in DOMAIN Blocks
    BY <1>0, <1>1, Shapes, StepTypes, Zenon DEF Typed, Try, Step
  <1>. PICK x : x = Step.what
    OBVIOUS
  <1>3. x \in Things /\ x \notin Guests \cup {"overlaybdMount"}
    BY <1>2, ThingsApart, Zenon
  <1>4. /\ up' \in [Things -> States] /\ up'[x] = "ready"
        /\ \A y \in Things : y # x => up'[y] = up[y]
    BY <1>0, <1>1, <1>3, PutUp, Zenon
  <1>5. \A y \in Needs(x) : up'[y] # "down"
    <2>1. CASE RunCommand
      BY <1>4, <2>1, NeedsFacts, Zenon DEF RunCommand, Needs
    <2>2. CASE NoAnswer
      BY <2>2, NeedsFacts, Zenon DEF NoAnswer, Needs
    <2>. QED  BY <2>1, <2>2, Zenon
  <1>6. \E n \in DOMAIN Blocks : \E i \in DOMAIN Blocks[n].try : Blocks[n].try[i].what = x
    BY <1>1, <1>2, Zenon DEF Try, Step
  <1>7. Running("overlaybdMount")' => Running("overlaybdMount")
    BY <1>3, <1>4, ThingsApart, Zenon DEF Running
  <1>8. container' # {} => "notRemoved" \in troubles
    BY <1>0, <1>1, Zenon DEF Contained
  <1>9. ~written /\ ~(script = "overlaybdReal" /\ block = Outer)
    BY <1>0, <1>1, OuterLooks, Zenon DEF Mounted
  <1>10. ~Handed
    BY <1>0, <1>1, NotHanded, Zenon DEF Trying
  <1>11. CASE RunCommand
    <2>1. pc' = "step" /\ at' = at + 1 /\ raised' = raised /\ troubles' = troubles
      BY <1>11, Zenon DEF RunCommand, Advance
    <2>2. HandedOn(Blocks, block, at) => Handed'
      <3>1. /\ Blocks' = Blocks /\ Outer' = Outer
            /\ Try' = Try /\ Finally' = Finally
        BY <1>1, SameLayout, Zenon
      <3>2. HandedOn(Blocks, block, at) => at' > Len(Try)
        <4>1. Len(Try) \in Nat
          BY <1>0, Shapes, Zenon DEF Typed, Try
        <4>. QED  BY <2>1, <4>1 DEF HandedOn, Try
      <3>. QED
        BY <1>0, <1>1, <2>1, <3>1, <3>2, Zenon DEF HandedOn, Handed, Outer, Finally, Within
    <2>3. Founded(x)
      BY <1>1, <1>3, <1>5, <1>6, <2>2, CommandAnswered, Zenon DEF Founded
    <2>4. PutsUp
      BY <1>0, <1>1, <1>3, <2>3, OneMore, Zenon
    <2>5. up'[Step.what] # "down"
      BY <1>4, Zenon
    <2>. QED  BY <1>1, <1>8, <1>9, <2>1, <2>4, <2>5, AdvanceStep, Zenon DEF Trying
  <1>12. CASE NoAnswer
    <2>1. /\ pc' = "finally" /\ at' = 1 /\ raised' = TRUE
          /\ x = "node" => "halfStarted" \in troubles'
          /\ \A c : c \in troubles => c \in troubles'
          /\ "busy" \in troubles' => "busy" \in troubles
      BY <1>12, Zenon DEF NoAnswer, Leave
    <2>2. x = "node" => MayStay(x)'
      BY <2>1, Zenon DEF MayStay
    <2>3. Founded(x)
      BY <1>1, <1>3, <1>5, <1>6, <2>2, CommandAnswered, Zenon DEF Founded
    <2>4. PutsUp
      BY <1>0, <1>1, <1>3, <2>3, OneMore, Zenon
    <2>. QED  BY <1>1, <1>9, <1>10, <2>1, <2>4, LeaveStep, Zenon
  <1>. QED  BY <1>11, <1>12, Zenon

LEMMA ExecDaemonStep ==
  ASSUME StackInv, ExecDaemon
  PROVE  StackInv'
  <1>0. Typed /\ Contained
    BY Zenon DEF StackInv
  <1>1. /\ pc = "step" /\ at \in DOMAIN Try /\ Step.do = "exec" /\ up["node"] = "ready"
        /\ up' = [up EXCEPT ![Step.what] = "starting"] /\ pc' = "step" /\ at' = at + 1
        /\ UNCHANGED <<script, keep, kept, block, stuck, raised, written, troubles, container>>
    BY AtStep, Zenon DEF ExecDaemon, InTry, Advance, fixed
  <1>2. Step \in Steps /\ Step.what \in Guests /\ block \in DOMAIN Blocks
    BY <1>0, <1>1, Shapes, StepTypes, Zenon DEF Typed, Try, Step
  <1>. PICK x : x = Step.what
    OBVIOUS
  <1>3. x \in Things /\ x # "node" /\ x # "overlaybdMount" /\ "node" \in Things
    BY <1>2, ThingsApart, Zenon
  <1>4. /\ up' \in [Things -> States] /\ up'[x] = "starting"
        /\ \A y \in Things : y # x => up'[y] = up[y]
    BY <1>0, <1>1, <1>3, PutUp, Zenon
  <1>5. Needs(x) = {"node"} /\ up'["node"] = "ready"
    BY <1>1, <1>2, <1>3, <1>4, NeedsFacts, Zenon DEF Needs
  <1>6. Names(Finally, "node")
    BY <1>0, <1>1, <1>2, Rules, Zenon DEF Accounted, Try, Step, Finally
  <1>7. Founded(x)
    BY <1>2, <1>3, <1>5, <1>6, Zenon DEF Founded
  <1>8. PutsUp
    BY <1>0, <1>1, <1>3, <1>7, OneMore, Zenon
  <1>9. container' # {} => "notRemoved" \in troubles
    BY <1>0, <1>1, Zenon DEF Contained
  <1>10. ~(script = "overlaybdReal" /\ block = Outer)
    BY <1>1, OuterLooks, Zenon
  <1>. QED  BY <1>1, <1>8, <1>9, <1>10, AdvanceStep, Zenon DEF Trying

LEMMA RunWorkspaceStep ==
  ASSUME StackInv, RunWorkspace
  PROVE  StackInv'
  <1>0. Typed /\ Contained
    BY Zenon DEF StackInv
  <1>1. /\ pc = "step" /\ at \in DOMAIN Try /\ Step.do = "workspace" /\ pc' = "lines"
        /\ up' = [up EXCEPT !["ctr"] = "ready", !["overlaybdMount"] = "ready"]
        /\ UNCHANGED <<script, keep, kept, block, at, stuck, raised, written, troubles, container>>
    BY AtStep, Zenon DEF RunWorkspace, InTry, Continue, fixed
  <1>2. block \in DOMAIN Blocks
    BY <1>0, Zenon DEF Typed
  <1>3. Names(Finally, "ctr") /\ script = "overlaybdReal"
    BY <1>0, <1>1, <1>2, Rules, Zenon DEF Accounted, Try, Step, Finally
  <1>4. block # Outer
    BY <1>1, <1>3, OuterLooks, Zenon
  <1>5. /\ "ctr" \in Things /\ "overlaybdMount" \in Things
        /\ "node" \in Things /\ "ctr" \notin Guests
    BY ThingsApart, Zenon
  <1>6. /\ up' \in [Things -> States] /\ up'["ctr"] = "ready" /\ up'["overlaybdMount"] = "ready"
        /\ \A y \in Things \ {"ctr", "overlaybdMount"} : up'[y] = up[y]
    <2>1. up \in [Things -> States]
      BY <1>0, Zenon DEF Typed, States
    <2>. QED  BY <1>1, <1>5, <2>1 DEF States
  <1>7. Needs("ctr") = {} /\ Needs("overlaybdMount") = {}
    BY NeedsFacts, Zenon DEF Needs
  <1>8. Founded("ctr") /\ Founded("overlaybdMount")
    BY <1>3, <1>5, <1>7, ThingsApart, Zenon DEF Founded
  <1>9. PutsUp
    <2>1. \A x \in Things : Running(x)' => Running(x) \/ Founded(x)
      BY <1>6, <1>8, Zenon DEF Running
    <2>. QED  BY <1>5, <1>6, <2>1, Zenon DEF PutsUp
  <1>10. container' # {} => "notRemoved" \in troubles
    BY <1>0, <1>1, Zenon DEF Contained
  <1>. QED  BY <1>1, <1>4, <1>9, <1>10, GotoStep, Zenon DEF Trying

----------------------------------------------------------------------------
(* The finally blocks *)

\* What stands on the thing a finally block comes to is gone already.
LEMMA TopIsGone ==
  ASSUME StackInv, pc = "finally", at \in DOMAIN Finally, NEW x \in Things \ Guests,
         Running(x),
         Finally[at] \in Needs(x)
  PROVE  x = "mount" /\ "busy" \in troubles
  <1>0. Typed /\ Passed /\ Known
    BY Zenon DEF StackInv
  <1>1. Downwards(script, Blocks, Blocks[block])
    BY <1>0, Rules, Zenon DEF Typed
  <1>2. \E n \in DOMAIN Blocks : \E i \in DOMAIN Blocks[n].try : Blocks[n].try[i].what = x
    BY <1>0, Zenon DEF Known
  <1>3. PICK j \in DOMAIN Finally : j < at /\ Finally[j] = x
    BY <1>1, <1>2, Zenon DEF Downwards, Finally, Needs
  <1>. QED  BY <1>0, <1>3, Zenon DEF Passed

LEMMA KnownStays ==
  ASSUME Known, UNCHANGED <<script, keep, kept>>, \A x \in Things : Running(x)' => Running(x)
  PROVE  Known'
  <1>1. Blocks' = Blocks /\ \A x : Needs(x)' = Needs(x)
    BY SameLayout, Zenon
  <1>. QED  BY <1>1, Zenon DEF Known

\* A step of a finally block that is done with the thing it comes to.
LEMMA TakeDownStep ==
  ASSUME StackInv, pc = "finally", at \in DOMAIN Finally, NEW x, x = Finally[at],
         UNCHANGED <<script, keep, kept, pc, block, raised, written, stuck>>, at' = at + 1,
         \A c : c \in troubles => c \in troubles',
         "busy" \in troubles' => "busy" \in troubles \/ "notRemoved" \in troubles,
         container' # {} => container # {},
         up' \in [Things -> States],
         \A y \in Things :
            up'[y] = up[y] \/ (up'[y] = "down" /\ (y = x \/ (x = "node" /\ y \in Guests))),
         x = "node" => up'["node"] = "down" /\ \A y \in Guests : up'[y] = "down",
         ~Running(x)' \/ (x = "mount" /\ "busy" \in troubles')
  PROVE  StackInv'
  <1>0. Typed /\ Passed /\ Covered /\ Guested /\ Mounted /\ Contained /\ Known /\ FoundationsStay
    BY Zenon DEF StackInv
  <1>1. /\ Blocks' = Blocks /\ Outer' = Outer /\ \A y : Needs(y)' = Needs(y)
        /\ Try' = Try /\ Finally' = Finally
    BY SameLayout, Zenon
  <1>2. /\ x \in Things \ (Guests \cup {"overlaybdMount"}) /\ Guests \subseteq Things
        /\ "node" \in Things /\ "overlaybdMount" \in Things \ Guests
    BY <1>0, Shapes, ThingsApart, Zenon DEF Typed, Finally
  <1>3. \A y \in Things : Running(y)' => Running(y)
    BY Zenon DEF Running
  <1>4. /\ at' \in Nat \ {0} /\ \A j \in DOMAIN Finally : j < at' => j < at \/ j = at
        /\ \A j \in DOMAIN Finally : at <= j => at' <= j \/ j = at
    BY <1>0, Shapes DEF Typed, Finally
  <1>5. Typed'
    BY <1>0, <1>1, <1>4, Zenon DEF Typed, States
  <1>6. Within' /\ Launched'
    BY Zenon DEF Within, Launched
  <1>7. Passed'
    <2>. SUFFICES ASSUME NEW j \in DOMAIN Finally, j < at'
                  PROVE  ~Running(Finally[j])' \/ (Finally[j] = "mount" /\ "busy" \in troubles')
      BY <1>1, Zenon DEF Passed
    <2>. PICK y : y = Finally[j]
      OBVIOUS
    <2>1. y \in Things /\ Running(Finally[j])' = Running(y)'
      BY <1>0, <1>1, Shapes, ThingsApart, Zenon DEF Typed, Finally, Running
    <2>2. CASE j = at
      BY <2>1, <2>2, Zenon
    <2>3. CASE j < at
      BY <1>0, <1>3, <2>1, <2>3, Zenon DEF Passed
    <2>. QED  BY <1>4, <2>2, <2>3, Zenon
  <1>8. \A y : y # x /\ Here(y) => Here(y)'
    BY <1>1, <1>4, Zenon DEF Here
  <1>9. Contained'
    BY <1>0, Zenon DEF Contained
  <1>10. Covered'
    <2>. SUFFICES ASSUME NEW y \in Things \ (Guests \cup {"overlaybdMount"}), Running(y)'
                  PROVE  Here(y)' \/ Later(y)' \/ (y = "node" /\ Handed') \/ MayStay(y)'
      BY Zenon DEF Covered
    <2>1. CASE y = x
      <3>1. y = "mount" /\ "busy" \in troubles'
        BY <2>1, Zenon
      <3>. QED  BY <1>9, <3>1, Zenon DEF Contained, MayStay
    <2>2. CASE y # x
      <3>1. Later(y) => Later(y)'
        BY <1>1, Zenon DEF Later
      <3>2. Handed => Handed'
        BY <1>1, Zenon DEF Handed
      <3>. QED  BY <1>0, <1>3, <1>8, <2>2, <3>1, <3>2, MayStayStays, Zenon DEF Covered
    <2>. QED  BY <2>1, <2>2, Zenon
  <1>11. Guested'
    <2>. SUFFICES ASSUME NEW y \in Guests, Running(y)'
                  PROVE  up'["node"] = "ready" /\ Here("node")'
      BY Zenon DEF Guested
    <2>1. x # "node"
      BY Zenon DEF Running
    <2>2. up["node"] = "ready" /\ Here("node")
      BY <1>0, <1>2, <1>3, Zenon DEF Guested
    <2>. QED  BY <1>2, <1>8, <2>1, <2>2, Zenon
  <1>12. Mounted'
    BY <1>0, <1>1, <1>2, <1>3, Zenon DEF Mounted
  <1>13. Known'
    BY <1>0, <1>3, KnownStays, Zenon
  <1>14. FoundationsStay'
    <2>. SUFFICES ASSUME NEW z \in Things, Running(z)', NEW y \in Needs(z)
                  PROVE  Running(y)' \/ up'[y] = "dead" \/ (z = "mount" /\ "busy" \in troubles')
      BY <1>1, Zenon DEF FoundationsStay
    <2>1. y \in Things \ Guests
      BY NeedsFacts, Zenon DEF Needs
    <2>2. Running(y) \/ up[y] = "dead" \/ (z = "mount" /\ "busy" \in troubles)
      BY <1>0, <1>3, Zenon DEF FoundationsStay
    <2>3. CASE y # x
      BY <2>1, <2>2, <2>3, Zenon DEF Running
    <2>4. CASE y = x /\ z \notin Guests
      BY <1>3, <2>4, TopIsGone, Zenon
    <2>5. CASE y = x /\ z \in Guests
      BY <2>5, NeedsFacts, Zenon DEF Needs, Running
    <2>. QED  BY <2>3, <2>4, <2>5, Zenon
  <1>. QED
    BY <1>5, <1>6, <1>7, <1>9, <1>10, <1>11, <1>12, <1>13, <1>14, Zenon DEF StackInv

LEMMA FinallyHere ==
  ASSUME StackInv, pc = "finally", at <= Len(Finally)
  PROVE  at \in DOMAIN Finally /\ ~Handed
  <1>1. Typed
    BY Zenon DEF StackInv
  <1>2. at \in DOMAIN Finally
    BY <1>1, Shapes DEF Typed, Finally
  <1>3. DOMAIN <<>> = {}
    OBVIOUS
  <1>. QED  BY <1>2, <1>3, Zenon DEF Handed

LEMMA StopDaemonStep ==
  ASSUME StackInv, StopDaemon
  PROVE  StackInv'
  <1>0. Typed
    BY Zenon DEF StackInv
  <1>. PICK x : x = Finally[at]
    OBVIOUS
  <1>1. /\ pc = "finally" /\ at \in DOMAIN Finally /\ x \in Daemons /\ at' = at + 1
        /\ UNCHANGED <<script, keep, kept, pc, block, raised, written, stuck>>
    BY FinallyHere, Zenon DEF StopDaemon, Stopping, Proceed, fixed
  <1>2. x \in Things /\ x # "node" /\ x # "mount" /\ up \in [Things -> States]
    BY <1>0, <1>1, ThingsApart, Zenon DEF Typed, States
  <1>3. CASE ~Running(x)
    <2>1. up' = up /\ container' = container /\ troubles' = troubles
      BY <1>3, Zenon DEF StopDaemon, Stopping
    <2>2. ~Running(x)'
      BY <1>3, <2>1, Zenon DEF Running
    <2>. QED  BY <1>1, <1>2, <2>1, <2>2, TakeDownStep, Zenon
  <1>4. CASE Running(x)
    <2>1. /\ up' = [up EXCEPT ![x] = "down"]
          /\ \/ container' = container \ {x} /\ troubles' = troubles
             \/ container' = container /\ troubles' = troubles \cup {"sigkill"}
      BY <1>4, Zenon DEF StopDaemon, Stopping
    <2>2. /\ \A c : c \in troubles => c \in troubles'
          /\ "busy" \in troubles' => "busy" \in troubles
          /\ container' # {} => container # {}
      BY <2>1, Zenon
    <2>3. /\ up' \in [Things -> States] /\ up'[x] = "down"
          /\ \A y \in Things : y # x => up'[y] = up[y]
      BY <1>2, <2>1, SMT DEF States
    <2>4. ~Running(x)'
      BY <2>3, Zenon DEF Running
    <2>. QED  BY <1>1, <1>2, <2>2, <2>3, <2>4, TakeDownStep, Zenon
  <1>. QED  BY <1>3, <1>4, Zenon

LEMMA UnmountStep ==
  ASSUME StackInv, Unmount
  PROVE  StackInv'
  <1>0. Typed /\ Contained
    BY Zenon DEF StackInv
  <1>. DEFINE x == "mount"
  <1>1. /\ pc = "finally" /\ at \in DOMAIN Finally /\ x = Finally[at] /\ at' = at + 1
        /\ UNCHANGED <<script, keep, kept, pc, block, raised, written, stuck, container>>
    BY FinallyHere, Zenon DEF Unmount, Stopping, Proceed, fixed
  <1>2. x \in Things /\ x # "node" /\ up \in [Things -> States]
    BY <1>0, ThingsApart, Zenon DEF Typed, States
  <1>3. CASE container = {} /\ up' = [up EXCEPT ![x] = "down"] /\ troubles' = troubles
    <2>1. /\ up' \in [Things -> States] /\ up'[x] = "down"
          /\ \A y \in Things : y # x => up'[y] = up[y]
      BY <1>2, <1>3, SMT DEF States
    <2>2. ~Running(x)'
      BY <2>1, Zenon DEF Running
    <2>. QED  BY <1>1, <1>2, <1>3, <2>1, <2>2, TakeDownStep, Zenon
  <1>4. CASE container # {} /\ troubles' = troubles \cup {"busy"} /\ up' = up
    <2>1. "notRemoved" \in troubles
      BY <1>0, <1>1, <1>4, Zenon DEF Contained
    <2>2. "busy" \in troubles' /\ \A c : c \in troubles => c \in troubles'
      BY <1>4, Zenon
    <2>. QED  BY <1>1, <1>2, <1>4, <2>1, <2>2, TakeDownStep, Zenon
  <1>5. CASE up[x] = "down" /\ up' = up /\ troubles' = troubles
    <2>1. ~Running(x)'
      BY <1>5, Zenon DEF Running
    <2>. QED  BY <1>1, <1>2, <1>5, <2>1, TakeDownStep, Zenon
  <1>. QED  BY <1>3, <1>4, <1>5, Zenon DEF Unmount

LEMMA ReleaseStep ==
  ASSUME StackInv, Release
  PROVE  StackInv'
  <1>0. Typed
    BY Zenon DEF StackInv
  <1>. PICK x : x = Finally[at]
    OBVIOUS
  <1>1. /\ pc = "finally" /\ at \in DOMAIN Finally /\ x \in Containers \cup {"device"}
        /\ at' = at + 1
        /\ up' = [y \in Things |->
                     IF y = x \/ (y \in Guests /\ x \in Needs(y)) THEN "down" ELSE up[y]]
        /\ UNCHANGED <<script, keep, kept, pc, block, raised, written, stuck, container, troubles>>
    BY FinallyHere, Zenon DEF Release, Stopping, Proceed, fixed
  <1>2. x \in Things /\ x # "mount" /\ up \in [Things -> States] /\ Guests \subseteq Things
    BY <1>0, <1>1, ThingsApart, Zenon DEF Typed, States
  <1>3. \A y \in Guests : x \in Needs(y) <=> x = "node"
    BY NeedsFacts, Zenon DEF Needs
  <1>4. /\ up'[x] = "down" /\ (x = "node" => \A y \in Guests : up'[y] = "down")
        /\ \A y \in Things :
              up'[y] = up[y] \/ (up'[y] = "down" /\ (y = x \/ (x = "node" /\ y \in Guests)))
    BY <1>1, <1>2, <1>3, Zenon
  <1>5. up' \in [Things -> States]
    BY <1>1, <1>2 DEF States
  <1>6. ~Running(x)'
    BY <1>4, Zenon DEF Running
  <1>7. x = "node" => up'["node"] = "down" /\ \A y \in Guests : up'[y] = "down"
    BY <1>4, Zenon
  <1>8. /\ \A c : c \in troubles => c \in troubles'
        /\ "busy" \in troubles' => "busy" \in troubles
        /\ container' # {} => container # {}
    BY <1>1, Zenon
  <1>9. \A y \in Things :
           up'[y] = up[y] \/ (up'[y] = "down" /\ (y = x \/ (x = "node" /\ y \in Guests)))
    BY <1>4, Zenon
  <1>10. /\ pc = "finally" /\ at \in DOMAIN Finally /\ at' = at + 1
         /\ UNCHANGED <<script, keep, kept, pc, block, raised, written, stuck>>
    BY <1>1, Zenon
  <1>11. x = Finally[at]
    OBVIOUS
  <1>. QED  BY <1>5, <1>6, <1>7, <1>8, <1>9, <1>10, <1>11, TakeDownStep

\* An exception leaves a finally block; what the block would still have taken
\* down is excused.
LEMMA UnwindStep ==
  ASSUME StackInv, pc = "finally", Unwind, ~Handed,
         UNCHANGED <<script, keep, kept, up, container, written, troubles>>,
         \A d : d \in stuck => d \in stuck', \A x \in Things : Here(x) => MayStay(x)',
         \A x \in Guests : ~Running(x)
  PROVE  StackInv'
  <1>0. Typed /\ Covered /\ Mounted /\ Contained /\ Known /\ FoundationsStay
    BY Zenon DEF StackInv
  <1>1. /\ Blocks' = Blocks /\ Outer' = Outer /\ \A y : Needs(y)' = Needs(y)
        /\ \A x : Running(x)' = Running(x)
    BY SameLayout, Zenon DEF Running
  <1>2. /\ raised' = TRUE
        /\ \/ block = Outer /\ pc' = "end" /\ block' = block /\ at' = at
           \/ block # Outer /\ pc' = "finally" /\ block' = Outer /\ at' = 1
    BY Zenon DEF Unwind
  <1>3. Outer \in DOMAIN Blocks /\ 1 \in Nat \ {0}
    BY <1>0, Shapes
  <1>4. Typed'
    BY <1>0, <1>1, <1>2, <1>3, Zenon DEF Typed
  <1>5. Within' /\ Launched'
    BY <1>1, <1>2, Zenon DEF Within, Launched
  <1>6. Passed'
    <2>1. CASE pc' = "end"
      BY <2>1, Zenon DEF Passed
    <2>2. CASE pc' = "finally" /\ block' = Outer /\ at' = 1
      <3>1. \A j \in DOMAIN Blocks[Outer].finally : ~(j < 1)
        BY <1>0, <1>3, Shapes
      <3>. QED  BY <1>1, <2>2, <3>1, Zenon DEF Passed, Finally
    <2>. QED  BY <1>2, <2>1, <2>2, Zenon
  <1>7. Covered'
    <2>. SUFFICES ASSUME NEW x \in Things \ (Guests \cup {"overlaybdMount"}), Running(x)
                  PROVE  Here(x)' \/ MayStay(x)'
      BY <1>1, Zenon DEF Covered
    <2>1. Later(x) => Here(x)'
      <3>. SUFFICES ASSUME Later(x) PROVE Here(x)'
        OBVIOUS
      <3>1. PICK i \in DOMAIN Blocks[Outer].finally : Blocks[Outer].finally[i] = x
        BY Zenon DEF Later, Names
      <3>2. 1 <= i
        BY <1>0, <1>3, Shapes
      <3>3. Finally' = Blocks[Outer].finally /\ pc' = "finally" /\ at' = 1
        BY <1>1, <1>2, Zenon DEF Later, Finally
      <3>. QED  BY <3>1, <3>2, <3>3, Zenon DEF Here
    <2>2. MayStay(x) => MayStay(x)'
      BY MayStayStays, Zenon
    <2>. QED  BY <1>0, <2>1, <2>2, Zenon DEF Covered
  <1>8. Guested'
    BY <1>1, Zenon DEF Guested
  <1>9. Mounted' /\ Contained'
    BY <1>0, <1>1, <1>2, Zenon DEF Mounted, Contained
  <1>10. Known'
    BY <1>0, <1>1, KnownStays, Zenon
  <1>11. FoundationsStay'
    BY <1>0, <1>1, Zenon DEF FoundationsStay
  <1>. QED
    BY <1>4, <1>5, <1>6, <1>7, <1>8, <1>9, <1>10, <1>11, Zenon DEF StackInv

LEMMA StopRaisesStep ==
  ASSUME StackInv, StopRaises
  PROVE  StackInv'
  <1>0. Typed /\ Guested
    BY Zenon DEF StackInv
  <1>. PICK x : x = Finally[at]
    OBVIOUS
  <1>1. /\ pc = "finally" /\ at \in DOMAIN Finally /\ ~Handed /\ x \in Daemons
        /\ stuck' = stuck \cup {x} /\ Unwind
        /\ UNCHANGED <<script, keep, kept, up, container, written, troubles>>
    BY FinallyHere, Zenon DEF StopRaises, Stopping, fixed
  <1>2. \A d : d \in stuck => d \in stuck'
    BY <1>1, Zenon
  <1>3. \A y \in Things : Here(y) => MayStay(y)'
    <2>. SUFFICES ASSUME NEW y \in Things, Here(y) PROVE MayStay(y)'
      OBVIOUS
    <2>1. Blocks' = Blocks
      BY <1>1, SameLayout, Zenon
    <2>2. PICK j \in DOMAIN Finally : Finally[j] = y /\ at <= j
      BY <1>1, Zenon DEF Here
    <2>3. block \in DOMAIN Blocks /\ x \in stuck'
      BY <1>0, <1>1, Zenon DEF Typed
    <2>. QED  BY <1>1, <2>1, <2>2, <2>3, Zenon DEF MayStay, Finally
  <1>4. \A y \in Guests : ~Running(y)
    <2>. SUFFICES ASSUME NEW y \in Guests, Running(y) PROVE FALSE
      OBVIOUS
    <2>1. PICK i \in DOMAIN Finally : Finally[i] = "node" /\ at <= i
      BY <1>0, <1>1, Zenon DEF Guested, Here
    <2>2. Downwards(script, Blocks, Blocks[block])
      BY <1>0, Rules, Zenon DEF Typed
    <2>3. \A j \in DOMAIN Finally : j < i => Finally[j] \notin Daemons
      BY <2>1, <2>2, Zenon DEF Downwards, Finally
    <2>4. at < i \/ at = i
      BY <1>0, <1>1, <2>1, Shapes DEF Typed, Finally
    <2>. QED  BY <1>1, <2>1, <2>3, <2>4, ThingsApart, Zenon
  <1>. QED  BY <1>1, <1>2, <1>3, <1>4, UnwindStep, Zenon

\* Behind the end of a finally block without an exception.
LEMMA NextBlockStep ==
  ASSUME StackInv, pc = "finally", ~raised, block # Outer, \A x : ~Here(x),
         pc' = "step", block' = block + 1, at' = 1,
         UNCHANGED <<script, keep, kept, up, container, written, raised, troubles, stuck>>
  PROVE  StackInv'
  <1>0. Typed /\ Covered /\ Guested /\ Mounted /\ Contained /\ Known /\ FoundationsStay
    BY Zenon DEF StackInv
  <1>1. /\ Blocks' = Blocks /\ Outer' = Outer /\ \A y : Needs(y)' = Needs(y)
        /\ \A x : Running(x)' = Running(x)
    BY SameLayout, Zenon DEF Running
  <1>2. block + 1 \in DOMAIN Blocks /\ 1 \in Nat \ {0}
    BY <1>0, Shapes DEF Typed
  <1>3. Typed'
    BY <1>0, <1>1, <1>2, Zenon DEF Typed
  <1>4. Try' = Blocks[block + 1].try /\ Finally' = Blocks[block + 1].finally
    BY <1>1, Zenon DEF Try, Finally
  <1>5. Within' /\ Passed'
    BY Zenon DEF Within, Passed
  <1>6. Launched'
    <2>1. \A j \in DOMAIN Try' : ~(j < 1)
      BY <1>0, <1>2, <1>4, Shapes
    <2>. QED  BY <2>1, Zenon DEF Launched
  <1>7. \A x : Names(Blocks[block + 1].finally, x) => Here(x)'
    BY <1>4, Zenon DEF Here, Names
  <1>8. Covered'
    <2>. SUFFICES ASSUME NEW x \in Things \ (Guests \cup {"overlaybdMount"}), Running(x)
                  PROVE  Here(x)' \/ Later(x)' \/ MayStay(x)'
      BY <1>1, Zenon DEF Covered
    <2>1. Later(x) => Here(x)' \/ Later(x)'
      BY <1>1, <1>7, Zenon DEF Later
    <2>2. MayStay(x) => MayStay(x)'
      BY MayStayStays, Zenon
    <2>3. x = "node" /\ Handed => Here(x)'
      BY <1>7, Zenon DEF Handed
    <2>. QED  BY <1>0, <2>1, <2>2, <2>3, Zenon DEF Covered
  <1>9. Guested'
    BY <1>0, <1>1, Zenon DEF Guested
  <1>10. ~(1 > 1)
    OBVIOUS
  <1>11. Mounted' /\ Contained'
    BY <1>0, <1>1, <1>10, Zenon DEF Mounted, Contained
  <1>12. Known'
    BY <1>0, <1>1, KnownStays, Zenon
  <1>13. FoundationsStay'
    BY <1>0, <1>1, Zenon DEF FoundationsStay
  <1>. QED
    BY <1>3, <1>5, <1>6, <1>8, <1>9, <1>11, <1>12, <1>13, Zenon DEF StackInv

\* The last finally block ends without an exception.
LEMMA EndStep ==
  ASSUME StackInv, pc = "finally", ~raised, block = Outer, \A x : ~Here(x), pc' = "end",
         UNCHANGED <<script, keep, kept, block, at, up, container, written, raised, troubles, stuck>>
  PROVE  StackInv'
  <1>0. Typed /\ Covered /\ Guested /\ Mounted /\ Contained /\ Known /\ FoundationsStay
    BY Zenon DEF StackInv
  <1>1. /\ Blocks' = Blocks /\ Outer' = Outer /\ \A y : Needs(y)' = Needs(y)
        /\ \A x : Running(x)' = Running(x)
    BY SameLayout, Zenon DEF Running
  <1>2. Typed'
    BY <1>0, <1>1, Zenon DEF Typed
  <1>3. Within' /\ Passed' /\ Launched'
    BY <1>1, Zenon DEF Within, Passed, Launched
  <1>4. ~Handed
    <2>1. ~(Outer < Outer)
      BY <1>0, Shapes
    <2>. QED  BY <2>1, Zenon DEF Handed
  <1>5. Covered'
    <2>. SUFFICES ASSUME NEW x \in Things \ (Guests \cup {"overlaybdMount"}), Running(x)
                  PROVE  MayStay(x)'
      BY <1>1, Zenon DEF Covered
    <2>1. MayStay(x)
      BY <1>0, <1>4, Zenon DEF Covered, Later
    <2>. QED  BY <2>1, MayStayStays, Zenon
  <1>6. Guested'
    BY <1>0, <1>1, Zenon DEF Guested
  <1>7. Mounted' /\ Contained'
    BY <1>0, <1>1, Zenon DEF Mounted, Contained
  <1>8. Known'
    BY <1>0, <1>1, KnownStays, Zenon
  <1>9. FoundationsStay'
    BY <1>0, <1>1, Zenon DEF FoundationsStay
  <1>. QED
    BY <1>2, <1>3, <1>5, <1>6, <1>7, <1>8, <1>9, Zenon DEF StackInv

LEMMA EndFinallyStep ==
  ASSUME StackInv, EndFinally
  PROVE  StackInv'
  <1>0. Typed /\ Guested
    BY Zenon DEF StackInv
  <1>1. /\ pc = "finally" /\ at > Len(Finally)
        /\ UNCHANGED <<script, keep, kept, up, container, written, stuck, troubles>>
    BY Zenon DEF EndFinally, fixed
  <1>2. \A i \in DOMAIN Finally : ~(at <= i)
    BY <1>0, <1>1, Shapes DEF Typed, Finally
  <1>3. \A x : ~Here(x)
    BY <1>1, <1>2, Zenon DEF Here
  <1>4. CASE raised
    <2>1. Unwind /\ ~Handed
      BY <1>4, Zenon DEF EndFinally, Handed
    <2>2. \A x \in Guests : ~Running(x)
      BY <1>0, <1>3, Zenon DEF Guested
    <2>. QED  BY <1>1, <1>3, <2>1, <2>2, UnwindStep, Zenon
  <1>5. CASE ~raised /\ block # Outer
    <2>1. pc' = "step" /\ block' = block + 1 /\ at' = 1 /\ raised' = raised
      BY <1>5, Zenon DEF EndFinally
    <2>. QED  BY <1>1, <1>3, <1>5, <2>1, NextBlockStep, Zenon
  <1>6. CASE ~raised /\ block = Outer
    <2>1. pc' = "end" /\ block' = block /\ at' = at /\ raised' = raised
      BY <1>6, Zenon DEF EndFinally
    <2>. QED  BY <1>1, <1>3, <1>6, <2>1, EndStep, Zenon
  <1>. QED  BY <1>4, <1>5, <1>6, Zenon

----------------------------------------------------------------------------
(* The daemons and the host *)

\* Things change among "starting", "ready" and "dead"; none starts to run.
LEMMA HostStep ==
  ASSUME StackInv, UNCHANGED <<script, keep, kept, pc, block, at, container, written, raised,
                               stuck, troubles>>,
         up' \in [Things -> States], \A x \in Things : Running(x)' => Running(x),
         \A x \in Things : up[x] # "down" => up'[x] # "down",
         \A x \in Guests : Running(x)' => (up["node"] = "ready" => up'["node"] = "ready")
  PROVE  StackInv'
  <1>0. /\ Typed /\ Within /\ Launched /\ Passed /\ Covered /\ Guested /\ Mounted /\ Contained
        /\ Known /\ FoundationsStay
    BY Zenon DEF StackInv
  <1>1. /\ Blocks' = Blocks /\ Outer' = Outer /\ (\A y : Needs(y)' = Needs(y))
        /\ Try' = Try /\ Finally' = Finally /\ Step' = Step
    BY SameLayout, Zenon DEF Step
  <1>2. Typed' /\ Within'
    BY <1>0, <1>1, Zenon DEF Typed, Within, States
  <1>3. Launched'
    <2>. SUFFICES ASSUME pc \notin {"finally", "end"}, NEW j \in DOMAIN Try,
                         Try[j].do \in {"popen", "command"}, up[Try[j].what] # "down"
                  PROVE  up'[Try[j].what] # "down"
      BY <1>0, <1>1, Zenon DEF Launched
    <2>1. Try[j] \in Steps
      BY <1>0, Shapes, Zenon DEF Typed, Try
    <2>2. Try[j].what \in Things
      BY <2>1, StepTypes, ThingsApart, Zenon
    <2>. QED  BY <2>2, Zenon
  <1>4. Passed'
    <2>. SUFFICES ASSUME pc = "finally", NEW j \in DOMAIN Finally, j < at
                  PROVE  ~Running(Finally[j])' \/ (Finally[j] = "mount" /\ "busy" \in troubles)
      BY <1>1, Zenon DEF Passed
    <2>. PICK y : y = Finally[j]
      OBVIOUS
    <2>1. y \in Things /\ Running(Finally[j])' = Running(y)'
      BY <1>0, <1>1, Shapes, ThingsApart, Zenon DEF Typed, Finally, Running
    <2>. QED  BY <1>0, <2>1, Zenon DEF Passed
  <1>5. \A x : (Here(x) => Here(x)') /\ (Later(x) => Later(x)')
    BY <1>1, Zenon DEF Here, Later
  <1>6. Covered'
    <2>. SUFFICES ASSUME NEW x \in Things \ (Guests \cup {"overlaybdMount"}), Running(x)'
                  PROVE  Here(x)' \/ Later(x)' \/ (x = "node" /\ Handed') \/ MayStay(x)'
      BY Zenon DEF Covered
    <2>1. MayStay(x) => MayStay(x)'
      BY MayStayStays, Zenon
    <2>2. Handed => Handed'
      BY <1>1, Zenon DEF Handed
    <2>. QED  BY <1>0, <1>5, <2>1, <2>2, Zenon DEF Covered
  <1>7. Guested'
    BY <1>0, <1>5, ThingsApart, Zenon DEF Guested
  <1>8. Mounted' /\ Contained'
    BY <1>0, <1>1, ThingsApart, Zenon DEF Mounted, Contained
  <1>9. Known'
    BY <1>0, KnownStays, Zenon
  <1>10. FoundationsStay'
    <2>. SUFFICES ASSUME NEW x \in Things, Running(x)', NEW y \in Needs(x)
                  PROVE  Running(y)' \/ up'[y] = "dead" \/ (x = "mount" /\ "busy" \in troubles)
      BY <1>1, Zenon DEF FoundationsStay
    <2>1. y \in Things
      BY NeedsFacts, Zenon DEF Needs
    <2>2. up[y] # "down" \/ (x = "mount" /\ "busy" \in troubles)
      BY <1>0, Zenon DEF FoundationsStay, Running
    <2>3. up'[y] # "down" => Running(y)' \/ up'[y] = "dead"
      BY <2>1, SMT DEF Running, States
    <2>. QED  BY <2>1, <2>2, <2>3, Zenon
  <1>. QED
    BY <1>2, <1>3, <1>4, <1>6, <1>7, <1>8, <1>9, <1>10, Zenon DEF StackInv

LEMMA ReadyStep ==
  ASSUME StackInv, NEW x \in Daemons \cup {"node"}, Ready(x)
  PROVE  StackInv'
  <1>0. Typed
    BY Zenon DEF StackInv
  <1>1. /\ UNCHANGED <<script, keep, kept, pc, block, at, container, written, raised, stuck,
                       troubles>>
        /\ up[x] = "starting" /\ up' = [up EXCEPT ![x] = "ready"]
    BY Zenon DEF Ready, Host, fixed
  <1>2. x \in Things /\ up \in [Things -> States]
    BY <1>0, ThingsApart, Zenon DEF Typed, States
  <1>3. /\ up' \in [Things -> States] /\ up'[x] = "ready"
        /\ \A y \in Things : y # x => up'[y] = up[y]
    BY <1>1, <1>2, SMT DEF States
  <1>4. /\ \A y \in Things : Running(y)' => Running(y)
        /\ \A y \in Things : up[y] # "down" => up'[y] # "down"
    BY <1>1, <1>3, Zenon DEF Running
  <1>5. up["node"] = "ready" => up'["node"] = "ready"
    BY <1>3, ThingsApart, Zenon
  <1>. QED  BY <1>1, <1>3, <1>4, <1>5, HostStep, Zenon

LEMMA CrashStep ==
  ASSUME StackInv, NEW x \in Daemons \cup {"node"}, Crash(x)
  PROVE  StackInv'
  <1>0. Typed
    BY Zenon DEF StackInv
  <1>1. /\ UNCHANGED <<script, keep, kept, pc, block, at, container, written, raised, stuck,
                       troubles>>
        /\ Running(x)
        /\ up' = [y \in Things |-> IF y = x \/ (x = "node" /\ y \in Guests /\ Running(y))
                                   THEN "dead" ELSE up[y]]
    BY Zenon DEF Crash, Host, fixed
  <1>2. x \in Things /\ up \in [Things -> States] /\ Guests \subseteq Things
    BY <1>0, ThingsApart, Zenon DEF Typed, States
  <1>3. up' \in [Things -> States]
    BY <1>1, <1>2 DEF States
  <1>4. \A y \in Things : up'[y] = up[y] \/ (up'[y] = "dead" /\ Running(y))
    BY <1>1, Zenon
  <1>5. /\ \A y \in Things : Running(y)' => Running(y)
        /\ \A y \in Things : up[y] # "down" => up'[y] # "down"
    BY <1>4, Zenon DEF Running
  <1>6. \A y \in Guests : Running(y)' => (up["node"] = "ready" => up'["node"] = "ready")
    <2>. SUFFICES ASSUME NEW y \in Guests, Running(y)'
                  PROVE  up'["node"] = up["node"]
      BY Zenon
    <2>1. Running(y) /\ up'[y] # "dead"
      BY <1>2, <1>5, Zenon DEF Running
    <2>2. x # "node"
      BY <1>1, <1>2, <2>1, Zenon
    <2>. QED  BY <1>1, <2>2, ThingsApart, Zenon
  <1>. QED  BY <1>1, <1>3, <1>5, <1>6, HostStep, Zenon

LEMMA HostMountStep ==
  ASSUME StackInv, HostMount
  PROVE  StackInv'
  <1>0. /\ Typed /\ Within /\ Launched /\ Passed /\ Covered /\ Guested /\ Mounted /\ Contained
        /\ Known /\ FoundationsStay
    BY Zenon DEF StackInv
  <1>. DEFINE m == "overlaybdMount"
  <1>1. /\ UNCHANGED <<script, keep, kept, pc, block, at, container, written, raised, stuck,
                       troubles>>
        /\ script = "overlaybdReal" /\ pc # "end"
        /\ \/ block = 1 /\ up' = [up EXCEPT ![m] = "ready"]
           \/ up' = [up EXCEPT ![m] = "down"]
    BY Zenon DEF HostMount, Host, fixed
  <1>2. /\ Blocks' = Blocks /\ Outer' = Outer /\ (\A y : Needs(y)' = Needs(y))
        /\ Try' = Try /\ Finally' = Finally /\ Step' = Step
    BY <1>1, SameLayout, Zenon DEF Step
  <1>3. m \in Things \ Guests /\ up \in [Things -> States] /\ Needs(m) = {}
    BY <1>0, ThingsApart, NeedsFacts, Zenon DEF Typed, States, Needs
  <1>4. up' \in [Things -> States] /\ \A y \in Things : y # m => up'[y] = up[y]
    BY <1>1, <1>3, SMT DEF States
  <1>5. \A y \in Things : y # m => Running(y)' = Running(y)
    BY <1>4, Zenon DEF Running
  <1>6. Running(m)' => block # Outer
    <2>1. LooksLast(Blocks)
      BY <1>0, <1>1, Rules, Zenon
    <2>2. Outer # 1
      BY <1>0, <2>1, Shapes DEF LooksLast, Outer
    <2>3. CASE up' = [up EXCEPT ![m] = "down"]
      <3>1. up'[m] = "down"
        BY <1>3, <2>3, Zenon
      <3>. QED  BY <3>1, Zenon DEF Running
    <2>. QED  BY <1>1, <2>2, <2>3, Zenon
  <1>7. Typed' /\ Within'
    BY <1>0, <1>1, <1>2, <1>4, Zenon DEF Typed, Within, States
  <1>8. Launched'
    <2>. SUFFICES ASSUME pc \notin {"finally", "end"}, NEW j \in DOMAIN Try,
                         Try[j].do \in {"popen", "command"}, up[Try[j].what] # "down"
                  PROVE  up'[Try[j].what] # "down"
      BY <1>0, <1>1, <1>2, Zenon DEF Launched
    <2>1. Try[j] \in Steps
      BY <1>0, Shapes, Zenon DEF Typed, Try
    <2>2. Try[j].what \in Things /\ Try[j].what # m
      BY <2>1, StepTypes, ThingsApart, Zenon
    <2>. QED  BY <1>4, <2>2, Zenon
  <1>9. Passed'
    <2>. SUFFICES ASSUME pc = "finally", NEW j \in DOMAIN Finally, j < at
                  PROVE  ~Running(Finally[j])' \/ (Finally[j] = "mount" /\ "busy" \in troubles)
      BY <1>1, <1>2, Zenon DEF Passed
    <2>. PICK y : y = Finally[j]
      OBVIOUS
    <2>1. y \in Things /\ y # m /\ Running(Finally[j])' = Running(y)'
      BY <1>0, <1>1, <1>2, Shapes, ThingsApart, Zenon DEF Typed, Finally, Running
    <2>. QED  BY <1>0, <1>5, <2>1, Zenon DEF Passed
  <1>10. \A x : (Here(x) => Here(x)') /\ (Later(x) => Later(x)')
    BY <1>1, <1>2, Zenon DEF Here, Later
  <1>11. Covered'
    <2>. SUFFICES ASSUME NEW x \in Things \ (Guests \cup {m}), Running(x)
                  PROVE  Here(x)' \/ Later(x)' \/ (x = "node" /\ Handed') \/ MayStay(x)'
      BY <1>5, Zenon DEF Covered
    <2>1. MayStay(x) => MayStay(x)'
      BY <1>1, MayStayStays, Zenon
    <2>2. Handed => Handed'
      BY <1>1, <1>2, Zenon DEF Handed
    <2>. QED  BY <1>0, <1>10, <2>1, <2>2, Zenon DEF Covered
  <1>12. Guested'
    BY <1>0, <1>3, <1>4, <1>5, <1>10, ThingsApart, Zenon DEF Guested
  <1>13. Mounted' /\ Contained'
    BY <1>0, <1>1, <1>2, <1>6, Zenon DEF Mounted, Contained
  <1>14. Known'
    BY <1>0, <1>2, <1>3, <1>5, Zenon DEF Known
  <1>15. FoundationsStay'
    <2>. SUFFICES ASSUME NEW x \in Things, Running(x)', NEW y \in Needs(x)
                  PROVE  Running(y)' \/ up'[y] = "dead" \/ (x = "mount" /\ "busy" \in troubles)
      BY <1>1, <1>2, Zenon DEF FoundationsStay
    <2>1. x # m /\ y \in Things /\ y # m
      BY <1>3, NeedsFacts, Zenon DEF Needs
    <2>. QED  BY <1>0, <1>4, <1>5, <2>1, Zenon DEF FoundationsStay
  <1>. QED
    BY <1>7, <1>8, <1>9, <1>11, <1>12, <1>13, <1>14, <1>15, Zenon DEF StackInv

----------------------------------------------------------------------------
(* The theorems *)

LEMMA StackInitially == StackInit => StackInv
  <1>0. Discipline
    BY StackAssumption, Zenon
  <1>. SUFFICES ASSUME StackInit PROVE StackInv
    OBVIOUS
  <1>1. /\ script \in StackScripts /\ keep \in BOOLEAN /\ kept \in Found
        /\ pc = "step" /\ block = 1 /\ at = 1
        /\ up = [x \in Things |-> IF x \in Earlier(script, kept) THEN "ready" ELSE "down"]
        /\ container = {} /\ written = FALSE /\ raised = FALSE /\ stuck = {} /\ troubles = {}
        /\ script \notin Reuses => kept = "none"
    BY Zenon DEF StackInit
  <1>2. Blocks \in Seq([try : Seq(Steps), finally : Seq(Stoppable)]) /\ Blocks # <<>>
    BY <1>0, <1>1, Zenon DEF Disciplined, Discipline, Blocks
  <1>3. 1 \in DOMAIN Blocks /\ 1 \in Nat \ {0}
    BY <1>2
  <1>4. up \in [Things -> {"down", "starting", "ready", "dead"}]
    BY <1>1
  <1>5. Typed
    BY <1>0, <1>1, <1>3, <1>4, Zenon DEF Typed
  <1>6. /\ Outer \in DOMAIN Blocks /\ ~(1 > 1)
        /\ \A j \in DOMAIN Blocks[1].try : ~(j < 1)
    BY <1>3, <1>5, Shapes
  <1>7. Within /\ Launched /\ Passed
    BY <1>1, <1>6, Zenon DEF Within, Launched, Passed, Try
  <1>8. \A x \in Things : Running(x) => x \in Earlier(script, kept)
    BY <1>1, Zenon DEF Running
  <1>9. \A x \in Earlier(script, kept) : x \in {"registry", "toxiproxy"}
    BY Zenon DEF Earlier
  <1>10. Covered
    <2>. SUFFICES ASSUME NEW x \in Things, Running(x)
                  PROVE  Here(x) \/ Later(x) \/ MayStay(x)
      BY Zenon DEF Covered
    <2>1. x \in Earlier(script, kept)
      BY <1>8, Zenon
    <2>2. script \in Reuses
      BY <1>1, <2>1, Zenon DEF Earlier
    <2>3. Answered(script, keep, Blocks, 1, x)
      BY <1>5, <2>1, <2>2, Rules, Zenon
    <2>4. CASE Names(Blocks[1].finally, x)
      BY <1>1, <2>4, Zenon DEF Here, Names, Finally
    <2>5. CASE Names(Blocks[Outer].finally, x)
      BY <1>1, <2>4, <2>5, Zenon DEF Later
    <2>6. CASE x = "stack" \/ (x \in {"registry", "toxiproxy"} /\ LeavesRegistry(script, keep))
      BY <2>6, Zenon DEF MayStay
    <2>. QED  BY <2>3, <2>4, <2>5, <2>6, Zenon DEF Answered, Outer
  <1>11. Guested /\ Mounted /\ Contained
    <2>1. \A x \in Guests \cup {"overlaybdMount"} : ~Running(x)
      BY <1>8, <1>9, ThingsApart, Zenon
    <2>. QED  BY <1>1, <1>6, <2>1, Zenon DEF Guested, Mounted, Contained
  <1>12. \A x \in Things : Running(x) => Needs(x) = {}
    BY <1>8, <1>9, NeedsFacts, ThingsApart, Zenon DEF Needs, Containers
  <1>13. Known /\ FoundationsStay
    BY <1>12, Zenon DEF Known, FoundationsStay
  <1>. QED  BY <1>5, <1>7, <1>10, <1>11, <1>13, Zenon DEF StackInv

LEMMA StackSteps == StackInv /\ [StackNext]_stackVars => StackInv'
  <1>. SUFFICES ASSUME StackInv, [StackNext]_stackVars PROVE StackInv'
    OBVIOUS
  <1>1. CASE UNCHANGED stackVars
    <2>1. UNCHANGED <<script, keep, kept, pc, block, at, up, container, written, raised, stuck,
                      troubles>>
      BY <1>1, Zenon DEF stackVars
    <2>2. up' \in [Things -> States]
      BY <2>1, Zenon DEF StackInv, Typed, States
    <2>3. \A x \in Things : Running(x)' => Running(x)
      BY <2>1, Zenon DEF Running
    <2>. QED  BY <2>1, <2>2, <2>3, HostStep, Zenon
  <1>2. CASE StackScript
    BY <1>2, QuietSteps, StartDaemonStep, CommandStep, ExecDaemonStep, MeasureSteps,
      RunWorkspaceStep, LinesStep, WriteResultStep, StopDaemonStep, UnmountStep, ReleaseStep,
      EndFinallyStep, Zenon DEF StackScript
  <1>3. CASE Deadline \/ NoAnswer \/ StopRaises \/ ReadLine \/ HostMount
    BY <1>3, QuietSteps, CommandStep, StopRaisesStep, LinesStep, HostMountStep, Zenon
  <1>4. CASE \E x \in Daemons \cup {"node"} : Ready(x) \/ Crash(x)
    BY <1>4, ReadyStep, CrashStep, Zenon
  <1>. QED  BY <1>1, <1>2, <1>3, <1>4, Zenon DEF StackNext

LEMMA StackAlways == StackSpec => []StackInv
  BY StackInitially, StackSteps, PTL DEF StackSpec

\* Nothing is taken from beneath what still runs, unless it crashed or the
\* unmount found the file system busy: for every script with the discipline and
\* any number of crashes, whichever commands fail and daemons resist.
THEOREM FoundationsStayHolds == StackSpec => []FoundationsStay
  <1>1. StackInv => FoundationsStay
    BY Zenon DEF StackInv
  <1>. QED  BY <1>1, StackAlways, PTL

\* What is left behind the end of a script is there for one of the reasons the
\* property lists: the finally blocks account for everything the try blocks and
\* earlier runs put up.
THEOREM LeftoversHaveCauseHolds == StackSpec => []LeftoversHaveCause
  <1>1. StackInv => LeftoversHaveCause
    <2>. SUFFICES ASSUME StackInv, pc = "end", NEW x \in Things, Running(x)
                  PROVE  MayStay(x) \/ (x = "overlaybdMount" /\ raised /\ ~written)
      BY Zenon DEF LeftoversHaveCause, MayStay
    <2>0. Within /\ Covered /\ Guested /\ Mounted
      BY Zenon DEF StackInv
    <2>1. ~Here(x) /\ ~Later(x) /\ ~Handed /\ ~Here("node")
      BY Zenon DEF Here, Later, Handed
    <2>2. CASE x = "overlaybdMount"
      BY <2>0, <2>2, Zenon DEF Mounted, Within
    <2>3. CASE x \in Guests
      BY <2>0, <2>1, <2>3, Zenon DEF Guested
    <2>4. CASE x \notin Guests \cup {"overlaybdMount"}
      BY <2>0, <2>1, <2>4, Zenon DEF Covered
    <2>. QED  BY <2>2, <2>3, <2>4, Zenon
  <1>. QED  BY <1>1, StackAlways, PTL
=============================================================================

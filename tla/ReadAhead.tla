----------------------------- MODULE ReadAhead -----------------------------
(***************************************************************************)
(* The device an NBD export serves, pkg/nbd/storage_device.go: reads that  *)
(* follow each other make it fetch more than was asked and keep the bytes  *)
(* in a window in memory, and WriteAt drops the window.                    *)
(*                                                                         *)
(* The server has a goroutine per connection and every connection to an    *)
(* export gets the same StorageDevice.  StorageDevice.mu covers each look  *)
(* at or change of the window, but not the engine call in between.  The    *)
(* node's HTTP write handler calls the engine without the device.          *)
(*                                                                         *)
(* The engine is the session's content.  Its calls take effect in one      *)
(* step: the properties speak of single bytes, and each byte is read or    *)
(* written at one moment.  Bytes are named by their position, so a buffer  *)
(* is a function on a range of positions, and the empty one is nil.        *)
(***************************************************************************)
EXTENDS Integers, Functions

CONSTANTS
    Conns,          \* connections to the export
    Size,           \* SizeBytes
    ReadAheadBytes, \* NBD_READ_AHEAD_BYTES of the node
    Values,         \* byte values, only compared with each other
    MaxLength,      \* bound on the length of a request
    ChunkSize,      \* bytes of a chunk of the volume
    Failures,       \* whether engine calls may fail
    Bypass          \* whether clients also write over HTTP

ASSUME SizesAssumption ==
    /\ Size \in Nat \ {0} /\ ReadAheadBytes \in Nat /\ MaxLength \in Nat
    /\ ChunkSize \in Nat \ {0}
    /\ Failures \in BOOLEAN /\ Bypass \in BOOLEAN

VARIABLES
    content,        \* what the engine's session holds
    last,           \* haveLastRead, lastReadOffset, lastReadLength
    streak,         \* sequentialStreak
    window,         \* windowOffset and windowData
    pc,             \* the next step of each connection's request
    req,            \* its offset and length
    fetch,          \* fetchLength
    keep,           \* storeWindow
    got,            \* the bytes it has read
    \* auxiliary
    seen,           \* per read, the values its bytes have had since the call
    exposed         \* the window may hold bytes from before a write

device == <<last, streak, window>>
locals == <<req, fetch, keep, got>>
vars == <<content, device, pc, locals, seen, exposed>>

Pos == 0 .. Size - 1
At(off, len) == {p \in Pos : off <= p /\ p < off + len}
Nil == [p \in {} |-> 0]
Buffers == UNION {[S -> Values] : S \in SUBSET Pos}
NoRead == [have |-> FALSE, off |-> 0, len |-> 0]
NoReq == [off |-> 0, len |-> 0]
Unseen == [p \in Pos |-> {}]

\* What Server.handleRequest lets through: ranges inside the device.
Requests == {r \in [off : 0 .. Size, len : 0 .. MaxLength] : r.off + r.len <= Size}

TypeOK ==
    /\ content \in [Pos -> Values]
    /\ last \in [have : BOOLEAN, off : 0 .. Size, len : 0 .. MaxLength]
    /\ streak \in Nat
    /\ window \in Buffers
    /\ pc \in [Conns -> {"idle", "plan", "fetch", "store", "reply", "write"}]
    /\ req \in [Conns -> Requests]
    /\ fetch \in [Conns -> 0 .. Size]
    /\ keep \in [Conns -> BOOLEAN]
    /\ got \in [Conns -> Buffers]
    /\ seen \in [Conns -> [Pos -> SUBSET Values]]
    /\ exposed \in BOOLEAN

Init ==
    /\ content \in [Pos -> Values]
    /\ last = NoRead /\ streak = 0 /\ window = Nil
    /\ pc = [c \in Conns |-> "idle"]
    /\ req = [c \in Conns |-> NoReq]
    /\ fetch = [c \in Conns |-> 0]
    /\ keep = [c \in Conns |-> FALSE]
    /\ got = [c \in Conns |-> Nil]
    /\ seen = [c \in Conns |-> Unseen]
    /\ exposed = FALSE

-----------------------------------------------------------------------------
Reading == {c \in Conns : pc[c] \in {"plan", "fetch", "store", "reply"}}
Storing == {c \in Conns : pc[c] \in {"fetch", "store"} /\ keep[c]}
Writing == {c \in Conns : pc[c] = "write"}

Sequential(r) == last.have /\ r.off = last.off + last.len

recordRead(r) ==
    /\ streak' = IF Sequential(r) THEN streak + 1 ELSE 0
    /\ last' = [have |-> TRUE, off |-> r.off, len |-> r.len]

\* The engine's content becomes new; running reads may see the old or the new.
Change(new) ==
    /\ content' = new
    /\ seen' = [c \in Conns |->
                  [p \in Pos |-> IF c \in Reading /\ p \in At(req[c].off, req[c].len)
                                 THEN seen[c][p] \cup {new[p]} ELSE seen[c][p]]]

\* The goroutine answers and its locals are gone.
Done(c) ==
    /\ pc' = [pc EXCEPT ![c] = "idle"]
    /\ req' = [req EXCEPT ![c] = NoReq]
    /\ fetch' = [fetch EXCEPT ![c] = 0]
    /\ keep' = [keep EXCEPT ![c] = FALSE]
    /\ got' = [got EXCEPT ![c] = Nil]

Begin(c, r) ==
    /\ pc[c] = "idle"
    /\ req' = [req EXCEPT ![c] = r]
    /\ seen' = [seen EXCEPT ![c] =
                  [p \in Pos |-> IF p \in At(r.off, r.len) THEN {content[p]} ELSE {}]]

\* ReadAt without read-ahead: the request goes to the engine as it is.
ReadDirect(c, r) ==
    /\ ReadAheadBytes = 0 \/ r.len = 0
    /\ Begin(c, r)
    /\ pc' = [pc EXCEPT ![c] = "fetch"]
    /\ fetch' = [fetch EXCEPT ![c] = r.len]
    /\ keep' = [keep EXCEPT ![c] = FALSE]
    /\ UNCHANGED <<content, device, got, exposed>>

\* ReadAt answered by readAheadHit, under the lock.
ReadHit(c, r) ==
    /\ ReadAheadBytes > 0 /\ r.len > 0
    /\ At(r.off, r.len) \subseteq DOMAIN window
    /\ Begin(c, r)
    /\ recordRead(r)
    /\ got' = [got EXCEPT ![c] = Restrict(window, At(r.off, r.len))]
    /\ pc' = [pc EXCEPT ![c] = "reply"]
    /\ UNCHANGED <<content, window, fetch, keep, exposed>>

ReadMiss(c, r) ==
    /\ ReadAheadBytes > 0 /\ r.len > 0
    /\ ~(At(r.off, r.len) \subseteq DOMAIN window)
    /\ Begin(c, r)
    /\ pc' = [pc EXCEPT ![c] = "plan"]
    /\ UNCHANGED <<content, device, fetch, keep, got, exposed>>

\* Mutant: the read-ahead is clipped one byte too early.
fetchLengthShort(r) ==
    LET ahead == IF ReadAheadBytes < r.len THEN r.len ELSE ReadAheadBytes
        remaining == Size - r.off
    IN  IF ~Sequential(r) \/ streak + 1 < 2 THEN r.len
        ELSE IF remaining > 0 /\ ahead > remaining THEN remaining - 1
        ELSE ahead

\* planReadAhead compares the streak after recordReadLocked has raised it.
fetchLength(r) ==
    LET ahead == IF ReadAheadBytes < r.len THEN r.len ELSE ReadAheadBytes
        remaining == Size - r.off
    IN  IF ~Sequential(r) \/ streak + 1 < 2 THEN r.len
        ELSE IF remaining > 0 /\ ahead > remaining THEN remaining
        ELSE ahead

planReadAhead(c) ==
    LET n == fetchLength(req[c]) IN
    /\ pc[c] = "plan"
    /\ recordRead(req[c])
    /\ fetch' = [fetch EXCEPT ![c] = n]
    /\ keep' = [keep EXCEPT ![c] = n > req[c].len]
    /\ pc' = [pc EXCEPT ![c] = "fetch"]
    /\ exposed' = (exposed \/ (n > req[c].len /\ Writing # {}))
    /\ UNCHANGED <<content, window, req, got, seen>>

\* Backend.Read; the reply is cut to the request when no window is stored.
BackendRead(c) ==
    /\ pc[c] = "fetch"
    /\ got' = [got EXCEPT ![c] = Restrict(content, At(req[c].off, fetch[c]))]
    /\ pc' = [pc EXCEPT ![c] = IF keep[c] THEN "store" ELSE "reply"]
    /\ UNCHANGED <<content, device, req, fetch, keep, seen, exposed>>

ReadError(c) ==
    /\ Failures /\ pc[c] = "fetch"
    /\ Done(c)
    /\ seen' = [seen EXCEPT ![c] = Unseen]
    /\ UNCHANGED <<content, device, exposed>>

storeReadAheadWindow(c) ==
    /\ pc[c] = "store"
    /\ window' = got[c]
    /\ got' = [got EXCEPT ![c] = Restrict(got[c], At(req[c].off, req[c].len))]
    /\ pc' = [pc EXCEPT ![c] = "reply"]
    /\ UNCHANGED <<content, last, streak, req, fetch, keep, seen, exposed>>

Reply(c) ==
    /\ pc[c] = "reply"
    /\ Done(c)
    /\ seen' = [seen EXCEPT ![c] = Unseen]
    /\ UNCHANGED <<content, device, exposed>>

\* Mutant: WriteAt forgets the last read and leaves the window.
WriteAtKeepsWindow(c, r) ==
    /\ pc[c] = "idle"
    /\ last' = NoRead /\ streak' = 0
    /\ req' = [req EXCEPT ![c] = r]
    /\ pc' = [pc EXCEPT ![c] = "write"]
    /\ exposed' = (Storing # {} \/ (exposed /\ Reading # {}))
    /\ UNCHANGED <<content, window, fetch, keep, got, seen>>

\* WriteAt up to Backend.Write: invalidateReadAhead.  Unless a read runs, no
\* old byte is left anywhere.
WriteAt(c, r) ==
    /\ pc[c] = "idle"
    /\ last' = NoRead /\ streak' = 0 /\ window' = Nil
    /\ req' = [req EXCEPT ![c] = r]
    /\ pc' = [pc EXCEPT ![c] = "write"]
    /\ exposed' = (Storing # {} \/ (exposed /\ Reading # {}))
    /\ UNCHANGED <<content, fetch, keep, got, seen>>

Patched(r, v) == [p \in Pos |-> IF p \in At(r.off, r.len) THEN v ELSE content[p]]

BackendWrite(c) ==
    /\ pc[c] = "write"
    /\ \E v \in Values : Change(Patched(req[c], v))
    /\ Done(c)
    /\ UNCHANGED <<device, exposed>>

\* The positions of the chunks a write rewrites.
Touched(r) ==
    {p \in Pos : \E q \in At(r.off, r.len) : p \div ChunkSize = q \div ChunkSize}

\* A write that fails half way may leave anything in the chunks it rewrites.
WriteError(c) ==
    /\ Failures /\ pc[c] = "write"
    /\ \E new \in [Pos -> Values] :
         /\ \A p \in Pos \ Touched(req[c]) : new[p] = content[p]
         /\ Change(new)
    /\ Done(c)
    /\ UNCHANGED <<device, exposed>>

\* app.write of the node service: Backend.Write without the device.
HttpWrite(r) ==
    /\ Bypass
    /\ \E v \in Values : Change(Patched(r, v))
    /\ exposed' = (exposed \/ window # Nil \/ Storing # {})
    /\ UNCHANGED <<device, pc, locals>>

Next ==
    \/ \E c \in Conns :
         \/ \E r \in Requests :
              ReadDirect(c, r) \/ ReadHit(c, r) \/ ReadMiss(c, r) \/ WriteAt(c, r)
         \/ planReadAhead(c) \/ BackendRead(c) \/ ReadError(c)
         \/ storeReadAheadWindow(c) \/ Reply(c)
         \/ BackendWrite(c) \/ WriteError(c)
    \/ \E r \in Requests : HttpWrite(r)

Spec == Init /\ [][Next]_vars

-----------------------------------------------------------------------------
\* A fetch of planReadAhead covers the request and ends within the device,
\* whatever the length of the read-ahead: Backend.Read refuses a range past the
\* volume, which would fail a legal request near the end of the device.
FetchFits ==
    \A c \in Conns : pc[c] \in {"fetch", "store"} =>
        /\ fetch[c] >= req[c].len
        /\ req[c].off + fetch[c] <= Size

\* A read returns the bytes it was asked for, each with a value it had between
\* the call and the reply of ReadAt.
ReadsRegular ==
    \A c \in Conns : pc[c] = "reply" =>
        /\ DOMAIN got[c] = At(req[c].off, req[c].len)
        /\ \A p \in DOMAIN got[c] : got[c][p] \in seen[c][p]

\* ReadAt can only go wrong after a write ran while a read was filling the
\* window, or went around the device, and only until the next WriteAt that
\* finds no read running.  Failed reads and writes do no harm.
ReadsRegularUnlessExposed == exposed \/ ReadsRegular

=============================================================================

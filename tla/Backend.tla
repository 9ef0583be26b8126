------------------------------ MODULE Backend ------------------------------
(***************************************************************************)
(* The block storage engine of pkg/storage: Backend, Session, and the      *)
(* Repository and ObjectStore it calls.                                    *)
(*                                                                         *)
(* A volume is a row with a pointer to its latest snapshot.  A snapshot is *)
(* a row plus a manifest object that maps chunk indexes to chunk ids, and  *)
(* a chunk id is the digest of the chunk's bytes.  A session, on one node, *)
(* overlays dirty chunk files on the manifest it was started from; Commit  *)
(* turns the overlay into new chunks, a manifest, a snapshot row and a     *)
(* moved pointer, in that order and one remote call at a time.             *)
(*                                                                         *)
(* Every request runs in a handler (a goroutine of the HTTP or NBD         *)
(* server).  Backend.mu protects only the session map, so the steps of     *)
(* handlers interleave, on one session too.  A remote call may fail before *)
(* or after it takes effect, a local file call may fail half way, and a    *)
(* node may crash between any two steps.                                   *)
(***************************************************************************)
EXTENDS Integers, FiniteSets

CONSTANTS
    Nodes,          \* node ids
    Volumes,        \* volume ids
    SessionIds,     \* uuids for sessions; a run uses each at most once
    SnapshotIds,    \* uuids for snapshots; a run uses each at most once
    Handlers,       \* request handlers that may be active together
    NumChunks,      \* chunks of a volume: SizeBytes / ChunkSize
    ChunkSize,      \* bytes of a chunk
    Bytes,          \* byte values, 0 among them
    Requests,       \* [off, len, byte]: clients fill byte ranges with one value
    BatchSize,      \* CommitOptions.UploadBatchChunks
    MaxFaults,      \* bound on failed calls and crashes in one behaviour
    None,           \* a missing row, object, file, manifest entry or local
    Absent,         \* a volume without a row
    Unknown         \* a byte no acknowledgement speaks about

Index == 0 .. NumChunks - 1
Offsets == 0 .. ChunkSize - 1
Chunk == [Offsets -> Bytes]
ZeroChunk == [o \in Offsets |-> 0]

\* SHA-256, taken to be injective: the id of a chunk is a tagged copy of it.
HashChunk(c) == [sha256 |-> c]
ChunkIds == {HashChunk(c) : c \in Chunk}

Manifest == [Index -> ChunkIds \cup {None}]
NoManifest == [i \in Index |-> None]
Slots == [Index -> Chunk \cup {None}]
NoChunks == [i \in Index |-> None]

ASSUME ConstantsAssumption ==
    /\ NumChunks \in Nat \ {0} /\ ChunkSize \in Nat \ {0} /\ BatchSize \in Nat \ {0}
    /\ MaxFaults \in Nat
    /\ 0 \in Bytes
    /\ Requests \subseteq [off : Nat, len : Nat \ {0}, byte : Bytes]
    /\ \A r \in Requests : r.off + r.len <= NumChunks * ChunkSize

ASSUME SentinelsAssumption ==
    /\ None \notin Nodes \cup Volumes \cup SessionIds \cup SnapshotIds
    /\ None \notin Chunk /\ None \notin ChunkIds /\ None \notin Manifest
    /\ None \notin [volume : Volumes, image : [Index -> Chunk]]
    /\ Absent \notin SnapshotIds \cup {None}
    /\ Unknown \notin Bytes

VARIABLES
    \* Postgres
    latest,         \* volumes.latest_snapshot_id
    lastNode,       \* volumes.last_node
    rows,           \* snapshots: the volume of each recorded snapshot
    \* MinIO
    chunks,         \* objects chunks/{id}
    manifests,      \* objects manifests/{snapshot}.json
    \* node disk
    cache,          \* LocalCache: chunks put on each node, evicted or not
    dirs,           \* sessions whose dirty-sessions/{id} directory exists
    files,          \* dirty-sessions/{id}/{index}, as normalizeChunk reads them
    \* node memory
    open,           \* Backend.sessions
    home,           \* the node a session was started on
    vol,            \* Session.Volume.VolumeID
    base,           \* Session.BaseManifest
    dirty,          \* Session.Dirty
    \* handlers
    pc,             \* the next step of each handler
    on,             \* its session
    todo,           \* chunk indexes it has still to visit
    buf,            \* chunks it holds in memory
    fd,             \* its open dirty file is still linked in the directory
    req,            \* the write request it serves
    man,            \* the manifest its commit builds
    snap,           \* the snapshot id it loads or creates
    faults,         \* failed calls and crashes so far
    \* what clients were told (auxiliary)
    said,           \* the content each session acknowledged
    pub,            \* the content each snapshot was to hold
    overlapped      \* sessions on which two requests have run together

repo == <<latest, lastNode, rows>>
store == <<chunks, manifests>>
disk == <<dirs, files>>
session == <<open, home, vol, base, dirty>>
locals == <<on, todo, buf, fd, req, man, snap>>
aux == <<said, pub, overlapped>>
vars == <<repo, store, cache, disk, session, pc, locals, faults, aux>>

Told == [Index -> [Offsets -> Bytes \cup {Unknown}]]
Zeroes == [i \in Index |-> ZeroChunk]
NoReq == [off |-> 0, len |-> 0, byte |-> 0]

RepoTypes ==
    /\ latest \in [Volumes -> SnapshotIds \cup {None, Absent}]
    /\ lastNode \in [Volumes -> Nodes \cup {None}]
    /\ rows \in [SnapshotIds -> Volumes \cup {None}]

StoreTypes ==
    /\ chunks \in [ChunkIds -> Chunk \cup {None}]
    /\ manifests \in [SnapshotIds -> Manifest \cup {None}]

DiskTypes ==
    /\ dirs \subseteq SessionIds
    /\ files \in [SessionIds -> Slots]

SessionTypes ==
    /\ open \subseteq SessionIds
    /\ home \in [SessionIds -> Nodes \cup {None}]
    /\ vol \in [SessionIds -> Volumes \cup {None}]
    /\ base \in [SessionIds -> Manifest]
    /\ dirty \in [SessionIds -> SUBSET Index]

HandlerTypes ==
    /\ pc \in [Handlers -> {"idle", "sload", "wresolve", "wopen", "wdata",
                            "cread", "cput", "cmanifest", "crecord", "cpoint", "cclear"}]
    /\ on \in [Handlers -> SessionIds \cup {None}]
    /\ todo \in [Handlers -> SUBSET Index]
    /\ buf \in [Handlers -> Slots]
    /\ fd \in [Handlers -> BOOLEAN]
    /\ req \in [Handlers -> [off : Nat, len : Nat, byte : Bytes]]
    /\ man \in [Handlers -> Manifest]
    /\ snap \in [Handlers -> SnapshotIds \cup {None}]

AuxTypes ==
    /\ said \in [SessionIds -> Told]
    /\ pub \in [SnapshotIds -> Told \cup {None}]
    /\ overlapped \subseteq SessionIds

TypeOK ==
    /\ RepoTypes
    /\ StoreTypes
    /\ cache \in [Nodes -> [ChunkIds -> Chunk \cup {None}]]
    /\ DiskTypes
    /\ SessionTypes
    /\ HandlerTypes
    /\ faults \in 0 .. MaxFaults
    /\ AuxTypes

Init ==
    /\ latest = [v \in Volumes |-> Absent]
    /\ lastNode = [v \in Volumes |-> None]
    /\ rows = [p \in SnapshotIds |-> None]
    /\ chunks = [id \in ChunkIds |-> None]
    /\ manifests = [p \in SnapshotIds |-> None]
    /\ cache = [n \in Nodes |-> [id \in ChunkIds |-> None]]
    /\ dirs = {}
    /\ files = [s \in SessionIds |-> NoChunks]
    /\ open = {}
    /\ home = [s \in SessionIds |-> None]
    /\ vol = [s \in SessionIds |-> None]
    /\ base = [s \in SessionIds |-> NoManifest]
    /\ dirty = [s \in SessionIds |-> {}]
    /\ pc = [h \in Handlers |-> "idle"]
    /\ on = [h \in Handlers |-> None]
    /\ todo = [h \in Handlers |-> {}]
    /\ buf = [h \in Handlers |-> NoChunks]
    /\ fd = [h \in Handlers |-> FALSE]
    /\ req = [h \in Handlers |-> NoReq]
    /\ man = [h \in Handlers |-> NoManifest]
    /\ snap = [h \in Handlers |-> None]
    /\ faults = 0
    /\ said = [s \in SessionIds |-> Zeroes]
    /\ pub = [p \in SnapshotIds |-> None]
    /\ overlapped = {}

-----------------------------------------------------------------------------
(* Handlers.                                                               *)

Goto(h, label) == pc' = [pc EXCEPT ![h] = label]

\* The handler sends its reply and its locals go out of scope.
Leave(h) ==
    /\ Goto(h, "idle")
    /\ on' = [on EXCEPT ![h] = None]
    /\ todo' = [todo EXCEPT ![h] = {}]
    /\ buf' = [buf EXCEPT ![h] = NoChunks]
    /\ req' = [req EXCEPT ![h] = NoReq]
    /\ man' = [man EXCEPT ![h] = NoManifest]
    /\ snap' = [snap EXCEPT ![h] = None]

Reply(h) ==
    /\ Leave(h)
    /\ fd' = [fd EXCEPT ![h] = FALSE]

\* Backend.session: the request finds its session in the map.
Lookup(h, s) ==
    /\ pc[h] = "idle"
    /\ s \in open
    /\ on' = [on EXCEPT ![h] = s]
    /\ overlapped' = IF \E g \in Handlers : on[g] = s
                     THEN overlapped \cup {s} ELSE overlapped

Busy(s) == \E h \in Handlers : on[h] = s

-----------------------------------------------------------------------------
(* Reading chunks.                                                         *)

\* The chunk that id names: from the cache of node n, or from the store when
\* the cache misses.  A chunk may have been evicted, so a Get of a chunk that
\* was Put may miss.  A chunk the store does not have reads as zeroes.
Fetch(n, id) == {IF chunks[id] # None THEN chunks[id] ELSE ZeroChunk}
                  \cup ({cache[n][id]} \ {None})

BaseChunk(s, i) == IF base[s][i] = None THEN {ZeroChunk} ELSE Fetch(home[s], base[s][i])

\* resolveChunk and resolveChunkRange: what they may return, from the overlay
\* or else the base.  None: the overlay file is missing, the call fails.
resolveChunk(s, i) == IF i \in dirty[s] THEN {files[s][i]} ELSE BaseChunk(s, i)

\* LocalCache.Put.
CachePut(n, id, c) == cache' = [cache EXCEPT ![n][id] = c]

\* A chunk that resolveChunk fetches from the store is put in the cache.
FillCache(s, i) ==
    \/ UNCHANGED cache
    \/ /\ i \notin dirty[s]
       /\ base[s][i] # None
       /\ chunks[base[s][i]] # None
       /\ CachePut(home[s], base[s][i], chunks[base[s][i]])

\* Backend.Read, one chunk of it: all it changes is the cache.
Read(s, i) ==
    /\ s \in open
    /\ FillCache(s, i)
    /\ UNCHANGED <<repo, store, disk, session, pc, locals, aux>>

-----------------------------------------------------------------------------
(* Volumes and sessions.                                                   *)

\* Repository.CreateVolume.  An environment's volume starts at the recorded
\* snapshot of its base image; an existing row is left alone.
CreateVolume(v, p) ==
    /\ latest[v] = Absent
    /\ p # None => rows[p] # None
    /\ latest' = [latest EXCEPT ![v] = p]
    /\ UNCHANGED <<lastNode, rows, store, cache, disk, session, pc, locals, aux>>

\* Backend.StartSession up to GetVolume.
StartSession(h, s, n, v) ==
    /\ pc[h] = "idle"
    /\ home[s] = None
    /\ latest[v] # Absent
    /\ Goto(h, "sload")
    /\ on' = [on EXCEPT ![h] = s]
    /\ snap' = [snap EXCEPT ![h] = latest[v]]
    /\ home' = [home EXCEPT ![s] = n]
    /\ vol' = [vol EXCEPT ![s] = v]
    /\ UNCHANGED <<repo, store, cache, disk, open, base, dirty,
                   todo, buf, fd, req, man, aux>>

\* GetSnapshot and loadManifest need their row and their object.
Loadable(p) == p # None => rows[p] # None /\ manifests[p] # None

\* The rest of StartSession: GetSnapshot, loadManifest, the overlay
\* directory, the entry in the session map, UpdateLastNode.
StartLoad(h) ==
    LET s == on[h] IN
    /\ pc[h] = "sload"
    /\ Loadable(snap[h])
    /\ base' = [base EXCEPT ![s] = IF snap[h] = None THEN NoManifest ELSE manifests[snap[h]]]
    /\ dirs' = dirs \cup {s}
    /\ open' = open \cup {s}
    /\ lastNode' = [lastNode EXCEPT ![vol[s]] = home[s]]
    /\ said' = [said EXCEPT ![s] = IF snap[h] = None THEN Zeroes ELSE pub[snap[h]]]
    /\ Reply(h)
    /\ UNCHANGED <<latest, rows, store, cache, files, home, vol, dirty, pub, overlapped>>

\* StartSession fails: a remote read, or UpdateLastNode, whose effect may
\* have taken place; the session and its directory are gone again.
StartError(h) ==
    /\ pc[h] = "sload"
    /\ \/ UNCHANGED lastNode
       \/ /\ Loadable(snap[h])
          /\ lastNode' = [lastNode EXCEPT ![vol[on[h]]] = home[on[h]]]
    /\ Reply(h)
    /\ UNCHANGED <<latest, rows, store, cache, disk, session, aux>>

\* os.RemoveAll of a session's overlay: complete, or stopped by an error
\* after removing some files.  Removed files stay writable to handlers that
\* hold them open, but no longer have a name.
RemoveOverlay(s, gone, complete) ==
    /\ complete => gone = Index
    /\ files' = [files EXCEPT ![s] = [i \in Index |-> IF i \in gone THEN None ELSE @[i]]]
    /\ dirs' = IF complete THEN dirs \ {s} ELSE dirs

Unlink(s, gone) ==
    fd' = [h \in Handlers |-> fd[h] /\ ~(on[h] = s /\ \E i \in gone : buf[h][i] # None)]

\* Sessions that are in no map and held by no handler are garbage.  Their
\* directory may be left on the disk, but ids are fresh and nobody will look
\* there again: the model forgets all of it.
Forget(gone) ==
    /\ dirs' = dirs \ gone
    /\ files' = [s \in SessionIds |-> IF s \in gone THEN NoChunks ELSE files[s]]
    /\ base' = [s \in SessionIds |-> IF s \in gone THEN NoManifest ELSE base[s]]
    /\ dirty' = [s \in SessionIds |-> IF s \in gone THEN {} ELSE dirty[s]]
    /\ said' = [s \in SessionIds |-> IF s \in gone THEN Zeroes ELSE said[s]]

\* Backend.Stop, under Backend.mu.  A request that found the session before
\* goes on with it.
Stop(s) ==
    /\ s \in open
    /\ open' = open \ {s}
    /\ \/ /\ ~Busy(s)
          /\ Forget({s})
          /\ UNCHANGED fd
       \/ /\ Busy(s)
          /\ RemoveOverlay(s, Index, TRUE)
          /\ Unlink(s, Index)
          /\ UNCHANGED <<base, dirty, said>>
    /\ UNCHANGED <<repo, store, cache, home, vol, pc,
                   on, todo, buf, req, man, snap, pub, overlapped>>

\* RemoveAll gives up half way under a request that still uses the session.
StopError(s) ==
    /\ s \in open
    /\ Busy(s)
    /\ open' = open \ {s}
    /\ \E gone \in SUBSET Index :
          /\ RemoveOverlay(s, gone, FALSE)
          /\ Unlink(s, gone)
    /\ UNCHANGED <<repo, store, cache, home, vol, base, dirty, pc,
                   on, todo, buf, req, man, snap, aux>>

\* The node process dies: its sessions and handlers are lost.
Crash(n) ==
    LET here == {s \in SessionIds : home[s] = n}
        dead == {h \in Handlers : on[h] \in here}
    IN
    /\ here # {}
    /\ open' = open \ here
    /\ Forget(here)
    /\ pc' = [h \in Handlers |-> IF h \in dead THEN "idle" ELSE pc[h]]
    /\ on' = [h \in Handlers |-> IF h \in dead THEN None ELSE on[h]]
    /\ todo' = [h \in Handlers |-> IF h \in dead THEN {} ELSE todo[h]]
    /\ buf' = [h \in Handlers |-> IF h \in dead THEN NoChunks ELSE buf[h]]
    /\ fd' = [h \in Handlers |-> h \notin dead /\ fd[h]]
    /\ req' = [h \in Handlers |-> IF h \in dead THEN NoReq ELSE req[h]]
    /\ man' = [h \in Handlers |-> IF h \in dead THEN NoManifest ELSE man[h]]
    /\ snap' = [h \in Handlers |-> IF h \in dead THEN None ELSE snap[h]]
    /\ UNCHANGED <<repo, store, cache, home, vol, pub, overlapped>>

-----------------------------------------------------------------------------
(* Backend.Write.                                                          *)

\* ChunkIndexes: the chunks a byte range touches, and the bytes of one chunk
\* that it covers.
ChunkIndexes(off, len) == (off \div ChunkSize) .. ((off + len - 1) \div ChunkSize)
Covers(r, i, o) == i * ChunkSize + o \in r.off .. r.off + r.len - 1

Patch(r, i, c) == [o \in Offsets |-> IF Covers(r, i, o) THEN r.byte ELSE c[o]]

\* Chunks are visited in ascending order.
Min(S) == CHOOSE i \in S : \A j \in S : i <= j

\* A failed write promises nothing for the bytes it asked for, nor for the
\* dirty chunk whose file it left truncated.
Doubt(s, r, torn) ==
    said' = [said EXCEPT ![s] = [i \in Index |-> [o \in Offsets |->
                IF Covers(r, i, o) \/ i \in torn THEN Unknown ELSE @[i][o]]]]

\* The lookup, the bounds check and ChunkIndexes.
Write(h, s, r) ==
    /\ Lookup(h, s)
    /\ Goto(h, "wresolve")
    /\ todo' = [todo EXCEPT ![h] = ChunkIndexes(r.off, r.len)]
    /\ req' = [req EXCEPT ![h] = r]
    /\ UNCHANGED <<repo, store, cache, disk, session, buf, fd, man, snap, said, pub>>

\* The next chunk is read from the overlay or resolved, and patched in memory.
WriteResolve(h) ==
    LET s == on[h]
        i == Min(todo[h])
    IN
    /\ pc[h] = "wresolve"
    /\ \E chunk \in resolveChunk(s, i) \ {None} :
          buf' = [buf EXCEPT ![h][i] = Patch(req[h], i, chunk)]
    /\ FillCache(s, i)
    /\ Goto(h, "wopen")
    /\ UNCHANGED <<repo, store, disk, session, on, todo, fd, req, man, snap, aux>>

\* writeDirtyChunk opens the file with O_TRUNC: until its data is written it
\* reads as zeroes.
WriteOpen(h) ==
    LET s == on[h]
        i == Min(todo[h])
    IN
    /\ pc[h] = "wopen"
    /\ s \in dirs
    /\ files' = [files EXCEPT ![s][i] = ZeroChunk]
    /\ fd' = [fd EXCEPT ![h] = TRUE]
    /\ Goto(h, "wdata")
    /\ UNCHANGED <<repo, store, cache, dirs, session, on, todo, buf, req, man, snap, aux>>

\* (Mutant: the loop over the chunks does not advance.)
WriteDataStuck(h) ==
    /\ pc[h] = "wdata"
    /\ files' = IF fd[h] THEN [files EXCEPT ![on[h]] = buf[h]] ELSE files
    /\ dirty' = [dirty EXCEPT ![on[h]] = @ \cup todo[h]]
    /\ Goto(h, "wresolve")
    /\ UNCHANGED <<repo, store, cache, dirs, open, home, vol, base, locals, aux>>

\* The data goes to the open file, the chunk is marked dirty, and the write
\* moves to its next chunk or is acknowledged.
WriteData(h) ==
    LET s == on[h]
        i == Min(todo[h])
        left == todo[h] \ {i}
        r == req[h]
    IN
    /\ pc[h] = "wdata"
    /\ files' = IF fd[h] THEN [files EXCEPT ![s][i] = buf[h][i]] ELSE files
    /\ dirty' = [dirty EXCEPT ![s] = @ \cup {i}]
    /\ \/ /\ left # {}
          /\ Goto(h, "wresolve")
          /\ todo' = [todo EXCEPT ![h] = left]
          /\ buf' = [buf EXCEPT ![h] = NoChunks]
          /\ fd' = [fd EXCEPT ![h] = FALSE]
          /\ UNCHANGED <<on, req, man, snap, said>>
       \/ /\ left = {}
          /\ Reply(h)
          /\ said' = [said EXCEPT ![s] = [j \in Index |-> Patch(r, j, @[j])]]
    /\ UNCHANGED <<repo, store, cache, dirs, open, home, vol, base, pub, overlapped>>

\* The write returns an error: the chunk or its file cannot be read, the
\* fetched chunk cannot be cached, or the file cannot be opened.
WriteError(h) ==
    /\ \/ pc[h] = "wresolve" /\ FillCache(on[h], Min(todo[h]))
       \/ pc[h] = "wopen" /\ UNCHANGED cache
    /\ Doubt(on[h], req[h], {})
    /\ Reply(h)
    /\ UNCHANGED <<repo, store, disk, session, pub, overlapped>>

\* The disk takes only the first n bytes of the chunk.
WriteTorn(h, n) ==
    LET s == on[h]
        i == Min(todo[h])
    IN
    /\ pc[h] = "wdata"
    /\ files' = IF fd[h]
                THEN [files EXCEPT ![s][i] =
                        [o \in Offsets |-> IF o < n THEN buf[h][i][o] ELSE 0]]
                ELSE files
    /\ Doubt(s, req[h], dirty[s] \cap {i})
    /\ Reply(h)
    /\ UNCHANGED <<repo, store, cache, dirs, session, pub, overlapped>>

-----------------------------------------------------------------------------
(* Backend.CommitWithOptions.                                              *)

Pending(h) == {i \in Index : buf[h][i] # None}

\* SnapshotIds bounds the commits of a behaviour: each one that is running
\* will find a fresh id.
FreshIds ==
    Cardinality({g \in Handlers : pc[g] \in {"cread", "cput", "cmanifest"}})
        < Cardinality({p \in SnapshotIds : manifests[p] = None})

\* (Mutant: the new manifest starts empty instead of as a copy of the base.)
CommitFromEmpty(h, s) ==
    /\ Lookup(h, s)
    /\ FreshIds
    /\ Goto(h, IF dirty[s] = {} THEN "cmanifest" ELSE "cread")
    /\ todo' = [todo EXCEPT ![h] = dirty[s]]
    /\ UNCHANGED <<repo, store, cache, disk, session, buf, fd, req, man, snap, said, pub>>

\* The dirty indexes are listed and the manifest copied.
Commit(h, s) ==
    /\ Lookup(h, s)
    /\ FreshIds
    /\ Goto(h, IF dirty[s] = {} THEN "cmanifest" ELSE "cread")
    /\ todo' = [todo EXCEPT ![h] = dirty[s]]
    /\ man' = [man EXCEPT ![h] = base[s]]
    /\ UNCHANGED <<repo, store, cache, disk, session, buf, fd, req, snap, said, pub>>

\* commitDirtyBatch, first loop: the files of a batch are read in order.
CommitRead(h) ==
    LET i == Min(todo[h])
        left == todo[h] \ {i}
        chunk == files[on[h]][i]
    IN
    /\ pc[h] = "cread"
    /\ chunk # None
    /\ buf' = [buf EXCEPT ![h][i] = chunk]
    /\ todo' = [todo EXCEPT ![h] = left]
    /\ Goto(h, IF left = {} \/ Cardinality(Pending(h)) + 1 = BatchSize
               THEN "cput" ELSE "cread")
    /\ UNCHANGED <<repo, store, cache, disk, session, on, fd, req, man, snap, aux>>

\* (Mutant: the chunk goes to the local cache only.)
UploadChunkCacheOnly(h, chunk) ==
    /\ pc[h] = "cput"
    /\ CachePut(home[on[h]], HashChunk(chunk), chunk)
    /\ UNCHANGED <<repo, store, base, aux>>

\* Exists, Put and Cache.Put for one chunk of the batch.
UploadChunk(h, chunk) ==
    /\ pc[h] = "cput"
    /\ chunks' = [chunks EXCEPT ![HashChunk(chunk)] = IF @ = None THEN chunk ELSE @]
    /\ CachePut(home[on[h]], HashChunk(chunk), chunk)
    /\ UNCHANGED <<repo, manifests, base, aux>>

\* (Mutant: the uploaded chunk is not entered in the manifest.)
CommitPutUnlisted(h) ==
    LET i == Min(Pending(h)) IN
    /\ UploadChunk(h, buf[h][i])
    /\ buf' = [buf EXCEPT ![h][i] = None]
    /\ Goto(h, IF Pending(h) # {i} THEN "cput"
               ELSE IF todo[h] # {} THEN "cread" ELSE "cmanifest")
    /\ UNCHANGED <<disk, open, home, vol, dirty, on, todo, fd, req, man, snap>>

\* commitDirtyBatch, second loop: the chunk is uploaded and entered in the
\* manifest; then the next chunk, the next batch, or the manifest.
CommitPut(h) ==
    LET i == Min(Pending(h)) IN
    /\ UploadChunk(h, buf[h][i])
    /\ man' = [man EXCEPT ![h][i] = HashChunk(buf[h][i])]
    /\ buf' = [buf EXCEPT ![h][i] = None]
    /\ Goto(h, IF Pending(h) # {i} THEN "cput"
               ELSE IF todo[h] # {} THEN "cread" ELSE "cmanifest")
    /\ UNCHANGED <<disk, open, home, vol, dirty, on, todo, fd, req, snap>>

\* (Mutant: the manifest goes to a key that may be in use.)
saveManifestReused(h, p) ==
    /\ pc[h] = "cmanifest"
    /\ manifests' = [manifests EXCEPT ![p] = man[h]]
    /\ pub' = [pub EXCEPT ![p] = said[on[h]]]
    /\ UNCHANGED <<repo, chunks, cache, base, said, overlapped>>

\* Store.Put of the manifest, under the key of a new snapshot id.  What the
\* session acknowledged is what the snapshot is to hold.
saveManifest(h, p) ==
    /\ pc[h] = "cmanifest"
    /\ manifests[p] = None
    /\ manifests' = [manifests EXCEPT ![p] = man[h]]
    /\ pub' = [pub EXCEPT ![p] =
                 IF on[h] \in overlapped
                 THEN [i \in Index |-> [o \in Offsets |-> Unknown]] ELSE said[on[h]]]
    /\ UNCHANGED <<repo, chunks, cache, base, said, overlapped>>

\* (Mutant: the pointer is moved before the snapshot is recorded.)
CommitManifestUnrecorded(h, p) ==
    /\ saveManifest(h, p)
    /\ snap' = [snap EXCEPT ![h] = p]
    /\ Goto(h, "cpoint")
    /\ UNCHANGED <<disk, open, home, vol, dirty, on, todo, buf, fd, req, man>>

CommitManifest(h, p) ==
    /\ saveManifest(h, p)
    /\ snap' = [snap EXCEPT ![h] = p]
    /\ Goto(h, "crecord")
    /\ UNCHANGED <<disk, open, home, vol, dirty, on, todo, buf, fd, req, man>>

CreateSnapshot(h) ==
    /\ pc[h] = "crecord"
    /\ rows' = [rows EXCEPT ![snap[h]] = vol[on[h]]]
    /\ UNCHANGED <<latest, lastNode, store, cache, base, aux>>

CommitRecord(h) ==
    /\ CreateSnapshot(h)
    /\ Goto(h, "cpoint")
    /\ UNCHANGED <<disk, open, home, vol, dirty, locals>>

\* The pointer that is replaced is not looked at.
UpdateLatestSnapshot(h) ==
    /\ pc[h] = "cpoint"
    /\ latest' = [latest EXCEPT ![vol[on[h]]] = snap[h]]
    /\ UNCHANGED <<lastNode, rows, store, cache, aux>>

\* (Mutant: the session keeps its old base.)
CommitPointKeepsBase(h) ==
    /\ UpdateLatestSnapshot(h)
    /\ Goto(h, "cclear")
    /\ UNCHANGED <<disk, session, locals>>

CommitPoint(h) ==
    /\ UpdateLatestSnapshot(h)
    /\ base' = [base EXCEPT ![on[h]] = man[h]]
    /\ Goto(h, "cclear")
    /\ UNCHANGED <<disk, open, home, vol, dirty, locals>>

\* clearDirtyOverlay: RemoveAll, MkdirAll (also when the session was stopped
\* meanwhile), an empty dirty set, success.
CommitClear(h) ==
    LET s == on[h] IN
    /\ pc[h] = "cclear"
    /\ files' = [files EXCEPT ![s] = NoChunks]
    /\ dirs' = dirs \cup {s}
    /\ dirty' = [dirty EXCEPT ![s] = {}]
    /\ Leave(h)
    /\ Unlink(s, Index)
    /\ UNCHANGED <<repo, store, cache, open, home, vol, base, aux>>

\* clearDirtyOverlay fails in RemoveAll or MkdirAll: files are gone, and the
\* dirty set still names them.
CommitClearError(h) ==
    LET s == on[h] IN
    /\ pc[h] = "cclear"
    /\ \E complete \in BOOLEAN, gone \in SUBSET Index :
          /\ RemoveOverlay(s, gone, complete)
          /\ Unlink(s, gone)
    /\ Leave(h)
    /\ UNCHANGED <<repo, store, cache, session, aux>>

\* A call of the commit fails, before or after it took effect, and the commit
\* returns the error.
CommitError(h) ==
    /\ \/ /\ pc[h] \in {"cread", "cput", "cmanifest", "crecord", "cpoint"}
          /\ UNCHANGED <<repo, store, cache, base, aux>>
       \/ \E i \in Pending(h) : i = Min(Pending(h)) /\ UploadChunk(h, buf[h][i])
       \/ \E p \in SnapshotIds : saveManifest(h, p)
       \/ CreateSnapshot(h)
       \/ UpdateLatestSnapshot(h) /\ UNCHANGED base
    /\ Reply(h)
    /\ UNCHANGED <<disk, open, home, vol, dirty>>

-----------------------------------------------------------------------------

\* The overlay file or directory that a request needs next is gone.
WriteRefused(h) ==
    /\ \/ pc[h] = "wresolve" /\ None \in resolveChunk(on[h], Min(todo[h]))
       \/ pc[h] = "wopen" /\ on[h] \notin dirs
    /\ WriteError(h)

CommitRefused(h) ==
    /\ pc[h] = "cread" /\ files[on[h]][Min(todo[h])] = None
    /\ CommitError(h)

HandlerStep(h) ==
    /\ UNCHANGED faults
    /\ \/ StartLoad(h)
       \/ WriteResolve(h) \/ WriteOpen(h) \/ WriteData(h) \/ WriteRefused(h)
       \/ CommitRead(h) \/ CommitPut(h) \/ CommitRecord(h) \/ CommitPoint(h)
       \/ \E p \in SnapshotIds : CommitManifest(h, p)
       \/ CommitClear(h) \/ CommitRefused(h)

Request ==
    /\ UNCHANGED faults
    /\ \/ \E v \in Volumes, p \in SnapshotIds \cup {None} : CreateVolume(v, p)
       \/ \E s \in SessionIds : Stop(s)
       \/ \E s \in SessionIds, i \in Index : Read(s, i)
       \/ \E h \in Handlers, s \in SessionIds :
             \/ \E n \in Nodes, v \in Volumes : StartSession(h, s, n, v)
             \/ \E r \in Requests : Write(h, s, r)
             \/ Commit(h, s)

Fault ==
    /\ faults < MaxFaults
    /\ faults' = faults + 1
    /\ \/ \E h \in Handlers :
             \/ StartError(h) \/ WriteError(h) \/ CommitError(h) \/ CommitClearError(h)
             \/ \E n \in 0 .. ChunkSize - 1 : WriteTorn(h, n)
       \/ \E s \in SessionIds : StopError(s)
       \/ \E n \in Nodes : Crash(n)

Next == Request \/ Fault \/ \E h \in Handlers : HandlerStep(h)

Fairness == \A h \in Handlers : WF_vars(HandlerStep(h))

Safe == Init /\ [][Next]_vars
Spec == Safe /\ Fairness

-----------------------------------------------------------------------------
(* Properties.                                                             *)

\* Every chunk object a manifest names is in the store.
Stored(m) == \A i \in Index : m[i] # None => chunks[m[i]] # None

\* A session can be started from snapshot p, and no read will be zero-filled
\* for want of an object.
Restorable(p) == p # None => /\ rows[p] # None
                             /\ manifests[p] # None
                             /\ Stored(manifests[p])

\* Commit uploads chunks, then the manifest, then records the snapshot, then
\* moves the pointer.  So whatever fails or crashes, a volume's pointer, and
\* the snapshot a StartSession has read from it, lead to a complete image.
DurableClosure ==
    /\ \A v \in Volumes : latest[v] # Absent => Restorable(latest[v])
    /\ \A h \in Handlers : pc[h] = "sload" => Restorable(snap[h])

\* The ErrNotFound branch of resolveChunk, which reads a missing chunk object
\* as zeroes, is never taken: the objects named by the manifest of a session
\* all exist, as do those of the manifest a commit builds.
NoSilentZero ==
    /\ \A s \in open : Stored(base[s])
    /\ \A h \in Handlers : Stored(man[h])

\* Told bytes t agree with the chunk c.
Matches(t, c) == \A o \in Offsets : t[o] \in {c[o], Unknown}

Image(m) == [i \in Index |-> IF m[i] = None THEN ZeroChunk ELSE chunks[m[i]]]

\* A recorded snapshot holds exactly the bytes its session had acknowledged
\* when commit listed them, for ever: later writes, commits, crashes and
\* deduplicated uploads never disturb it.
SnapshotExact ==
    \A p \in SnapshotIds : rows[p] # None =>
        \A i \in Index : Matches(pub[p][i], Image(manifests[p])[i])

\* What a session shows for chunk i: the overlay or the base image.  If the
\* overlay file is gone (clearDirtyOverlay failed after a published commit)
\* Read reports an error, and the bytes are those of the base.
Visible(s, i) ==
    IF resolveChunk(s, i) = {None} THEN BaseChunk(s, i) ELSE resolveChunk(s, i)

Acknowledged(s) ==
    \A i \in Index : \A chunk \in Visible(s, i) : Matches(said[s][i], chunk)

\* Between requests, a session whose requests came one at a time (as on one
\* NBD connection) shows every byte it acknowledged, through failed writes,
\* failed commits, retries, cache evictions and a start on another node.
AckedWritesVisible ==
    \A s \in open : ~Busy(s) /\ s \notin overlapped => Acknowledged(s)

\* README: patched bytes stay on disk "until commit or stop".  Here requests
\* may overlap: a write acknowledged while a commit runs is to be visible too.
AckedWritesKept == \A s \in open : ~Busy(s) => Acknowledged(s)

\* Every request is answered, that is, a handler is idle again and again: the
\* batch loop of Commit and the chunk loop of Write make progress whatever the
\* other handlers do.
HandlersReturn == \A h \in Handlers : []<>(pc[h] = "idle")

\* What clients of the repository see of it: recorded snapshots with the
\* bytes they restore, and volumes that point to them.
snapshots == [p \in SnapshotIds |-> IF rows[p] = None THEN None ELSE
                                     [volume |-> rows[p], image |-> Image(manifests[p])]]

Abstract == INSTANCE SnapshotStore WITH Images <- [Index -> Chunk]

\* The backend implements the snapshot store: a snapshot appears at once and
\* complete, is never changed, and pointers only move to recorded snapshots.
ImplementsSnapshotStore == Abstract!Spec

=============================================================================

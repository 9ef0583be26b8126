--------------------------- MODULE BackendProofs ----------------------------
(***************************************************************************)
(* The inductive invariant of Backend, for every number of nodes, volumes, *)
(* sessions, snapshots, handlers, chunks and faults, and the theorems that *)
(* follow.                                                                 *)
(*                                                                         *)
(* Inv says of the handlers what they hold at each step (Control), and of  *)
(* the stored objects in which order they come into being (Durable):       *)
(* chunks before the manifest that names them, the manifest before the     *)
(* row, the row before any pointer to it.                                  *)
(*                                                                         *)
(* A step of one handler leaves the other handlers alone, and no step      *)
(* takes anything away: rows and objects, once there, stay (Grows).  So    *)
(* what the invariant says of the other handlers is kept (KeptHandler),    *)
(* and it remains to look at the handler that moves, and at what its call  *)
(* adds to the store.                                                      *)
(*                                                                         *)
(* The refinement: objects are immutable once they exist, so the image of  *)
(* a recorded snapshot stands still; and only three calls change what      *)
(* callers of the repository see: CreateVolume, CreateSnapshot and         *)
(* UpdateLatestSnapshot.                                                   *)
(***************************************************************************)
EXTENDS Backend, WellFoundedInduction, NaturalsInduction, TLAPS

-----------------------------------------------------------------------------
(* Numbers.                                                                *)

\* The order of the natural numbers is well founded.
LEMMA LessWellFounded ==
    \E R : IsWellFoundedOn(R, Nat) /\ \A a, b \in Nat : a < b => <<a, b>> \in R
<1>1. OpToRel(<, Nat) = {ss \in Nat \X Nat : ss[1] < ss[2]}
  BY Zenon DEF OpToRel
<1>2. \A a, b \in Nat : a < b => <<a, b>> \in {ss \in Nat \X Nat : ss[1] < ss[2]}
  BY Zenon
<1>3. IsWellFoundedOn({ss \in Nat \X Nat : ss[1] < ss[2]}, Nat)
  BY <1>1, NatLessThanWellFounded, Zenon
<1> QED BY <1>2, <1>3, Zenon

\* The loops of Write and Commit visit a member of the set they have left.
LEMMA MinInSet ==
    ASSUME NEW S \in SUBSET Nat, S # {}
    PROVE  Min(S) \in S
<1>1. PICK R : /\ IsWellFoundedOn(R, Nat)
               /\ \A a, b \in Nat : a < b => <<a, b>> \in R
  BY LessWellFounded, Zenon
<1>2. PICK x \in S : \A y \in S : ~(<<y, x>> \in R)
  <2>1. IsWellFoundedOn(R, Nat) /\ S \subseteq Nat
    BY <1>1, Zenon
  <2> QED BY <2>1, WFMin, Zenon
<1>3. \A y \in S : x <= y
  <2>1. \A y \in S : ~(y < x)
    BY <1>1, <1>2, Zenon
  <2> QED BY <2>1
<1> QED BY <1>3, Zenon DEF Min

\* A number below n * c lies in one of n blocks of size c.
LEMMA QuotientBound ==
    ASSUME NEW a \in Nat, NEW n \in Nat, NEW c \in Nat \ {0}, a < n * c
    PROVE  a \div c \in 0 .. n - 1
<1> DEFINE q == a \div c
<1>1. q \in Nat /\ c * q <= a
  OBVIOUS
<1>2. ASSUME q >= n PROVE FALSE
  <2>1. c * q >= c * n
    BY <1>1, <1>2
  <2> QED BY <1>1, <2>1
<1> QED BY <1>1, <1>2

LEMMA QuotientMonotone ==
    ASSUME NEW a \in Nat, NEW b \in Nat, NEW c \in Nat \ {0}, a <= b
    PROVE  a \div c <= b \div c
OBVIOUS

\* The chunks of an accepted request are chunks of the volume, and there is
\* at least one.
LEMMA ChunkIndexesType ==
    ASSUME NEW r \in Requests
    PROVE  /\ ChunkIndexes(r.off, r.len) \subseteq Index
           /\ ChunkIndexes(r.off, r.len) # {}
<1> DEFINE e == r.off + r.len - 1
<1>1. /\ r.off \in Nat /\ r.len \in Nat \ {0} /\ e \in Nat /\ r.off <= e
      /\ e < NumChunks * ChunkSize /\ ChunkSize \in Nat \ {0} /\ NumChunks \in Nat
  BY ConstantsAssumption
<1> HIDE DEF e
<1>2. e \div ChunkSize \in 0 .. NumChunks - 1
  BY <1>1, QuotientBound, Zenon
<1>3. r.off \div ChunkSize <= e \div ChunkSize
  BY <1>1, QuotientMonotone, Zenon
<1>4. r.off \div ChunkSize \in Nat
  BY <1>1
<1>5. ChunkIndexes(r.off, r.len) = (r.off \div ChunkSize) .. (e \div ChunkSize)
  BY Zenon DEF ChunkIndexes, e
<1> QED BY <1>1, <1>2, <1>3, <1>4, <1>5 DEF Index

-----------------------------------------------------------------------------
(* Data.                                                                   *)

LEMMA ZeroData ==
    /\ ZeroChunk \in Chunk
    /\ NoChunks \in Slots
    /\ NoManifest \in Manifest
    /\ Zeroes \in Told
    /\ [i \in Index |-> [o \in Offsets |-> Unknown]] \in Told
BY ConstantsAssumption, Zenon DEF ZeroChunk, Chunk, NoChunks, Slots, NoManifest, Manifest,
   Zeroes, Told

LEMMA HashChunkType == \A c \in Chunk : HashChunk(c) \in ChunkIds
BY Zenon DEF ChunkIds

\* Patching, doubting and tearing yield chunks and told contents again.
LEMMA PatchType ==
    ASSUME NEW r, r.byte \in Bytes
    PROVE  /\ \A i \in Index, c \in Chunk : Patch(r, i, c) \in Chunk
           /\ \A t \in Told : [j \in Index |-> Patch(r, j, t[j])] \in Told
           /\ \A t \in Told, torn \in SUBSET Index :
                 [i \in Index |-> [o \in Offsets |->
                     IF Covers(r, i, o) \/ i \in torn THEN Unknown ELSE t[i][o]]] \in Told
BY Zenon DEF Patch, Chunk, Told

LEMMA TornType ==
    \A c \in Chunk, n \in Int : [o \in Offsets |-> IF o < n THEN c[o] ELSE 0] \in Chunk
BY ConstantsAssumption, Zenon DEF Chunk

-----------------------------------------------------------------------------
(* The inductive invariant.                                                *)

Writing == {"wresolve", "wopen", "wdata"}
Publishing == {"crecord", "cpoint", "cclear"}

\* What a handler holds at each step.
Holds(h) ==
    /\ pc[h] # "idle" => /\ on[h] \in SessionIds
                         /\ home[on[h]] \in Nodes
                         /\ vol[on[h]] \in Volumes
    /\ pc[h] \in Writing \cup {"cread"} => todo[h] # {}
    /\ pc[h] \in {"wopen", "wdata"} => buf[h][Min(todo[h])] \in Chunk
    /\ pc[h] = "cput" => Pending(h) # {}
    /\ pc[h] \in Publishing => snap[h] \in SnapshotIds

\* Every chunk that manifest m names is among the objects c.
Complete(m, c) == \A i \in Index : m[i] # None => c[m[i]] # None

\* The objects and rows that a handler's locals refer to: those of the
\* manifest it builds, of the snapshot it is to load, and of the snapshot
\* that it has saved but not yet recorded, or recorded.
Refers(h) ==
    /\ Complete(man[h], chunks)
    /\ pc[h] = "sload" /\ snap[h] # None => rows[snap[h]] # None
    /\ pc[h] \in Publishing => manifests[snap[h]] # None
    /\ pc[h] = "crecord" => rows[snap[h]] = None
    /\ pc[h] \in {"cpoint", "cclear"} => rows[snap[h]] = vol[on[h]]

Control == \A h \in Handlers : Holds(h) /\ Refers(h)

\* The snapshot id of a commit is its own.
Distinct ==
    \A g, h \in Handlers :
        g # h /\ pc[g] \in Publishing /\ pc[h] \in Publishing => snap[g] # snap[h]

\* The volume of every session has a row.
Homed ==
    \A s \in SessionIds :
        /\ s \in open => home[s] \in Nodes /\ vol[s] \in Volumes
        /\ vol[s] # None => latest[vol[s]] # Absent

\* Objects come into being before what refers to them.
Durable ==
    /\ \A s \in SessionIds : Complete(base[s], chunks)
    /\ \A p \in SnapshotIds :
          /\ manifests[p] # None => Complete(manifests[p], chunks) /\ pub[p] \in Told
          /\ rows[p] # None => manifests[p] # None
    /\ \A v \in Volumes : latest[v] \in SnapshotIds => rows[latest[v]] # None

Inv == TypeOK /\ Control /\ Distinct /\ Homed /\ Durable

LEMMA InitInv == Init => Inv
<1> SUFFICES ASSUME Init PROVE Inv
  BY Zenon
<1>1. TypeOK
  BY ZeroData, ConstantsAssumption
     DEF Init, TypeOK, RepoTypes, StoreTypes, DiskTypes, SessionTypes, HandlerTypes, AuxTypes,
         NoReq
<1>2. Complete(NoManifest, chunks)
  BY Zenon DEF Complete, NoManifest
<1>3. Control /\ Distinct /\ Homed /\ Durable
  BY <1>2, SentinelsAssumption, Zenon
     DEF Init, Control, Holds, Refers, Distinct, Homed, Durable, Writing, Publishing
<1> QED BY <1>1, <1>3, Zenon DEF Inv

\* What a handler may rely on at its next step.
LEMMA AtStep ==
    ASSUME Inv, NEW h \in Handlers
    PROVE  /\ pc[h] # "idle" => /\ on[h] \in SessionIds
                                /\ home[on[h]] \in Nodes
                                /\ vol[on[h]] \in Volumes
           /\ pc[h] \in Writing \cup {"cread"} => Min(todo[h]) \in todo[h] \cap Index
           /\ pc[h] \in {"wopen", "wdata"} => buf[h][Min(todo[h])] \in Chunk
           /\ pc[h] = "cput" => /\ Min(Pending(h)) \in Pending(h) \cap Index
                                /\ buf[h][Min(Pending(h))] \in Chunk
           /\ pc[h] \in Publishing => snap[h] \in SnapshotIds
<1>1. Holds(h)
  BY Zenon DEF Inv, Control
<1>2. todo[h] \subseteq Index /\ buf[h] \in Slots
  BY Zenon DEF Inv, TypeOK, HandlerTypes
<1>3. Pending(h) \subseteq Index /\ Index \subseteq Nat
  BY ConstantsAssumption DEF Pending, Index
<1>4. pc[h] \in Writing \cup {"cread"} => Min(todo[h]) \in todo[h] \cap Index
  BY <1>1, <1>2, <1>3, MinInSet, Zenon DEF Holds
<1>5. pc[h] = "cput" => Min(Pending(h)) \in Pending(h)
  BY <1>1, <1>3, MinInSet, Zenon DEF Holds
<1>6. \A i \in Pending(h) : buf[h][i] \in Chunk
  BY <1>2, Zenon DEF Pending, Slots
<1> QED BY <1>1, <1>3, <1>4, <1>5, <1>6, Zenon DEF Holds

-----------------------------------------------------------------------------
(* Steps.                                                                  *)

\* The actions of Next, each once.
Step ==
    \/ \E v \in Volumes, p \in SnapshotIds \cup {None} : CreateVolume(v, p)
    \/ \E s \in SessionIds : Stop(s) \/ StopError(s) \/ \E i \in Index : Read(s, i)
    \/ \E h \in Handlers, s \in SessionIds :
          \/ \E n \in Nodes, v \in Volumes : StartSession(h, s, n, v)
          \/ \E r \in Requests : Write(h, s, r)
          \/ Commit(h, s)
    \/ \E h \in Handlers :
          \/ StartLoad(h) \/ StartError(h)
          \/ WriteResolve(h) \/ WriteOpen(h) \/ WriteData(h) \/ WriteError(h)
          \/ \E n \in 0 .. ChunkSize - 1 : WriteTorn(h, n)
          \/ CommitRead(h) \/ CommitPut(h)
          \/ \E p \in SnapshotIds : CommitManifest(h, p)
          \/ CommitRecord(h) \/ CommitPoint(h) \/ CommitClear(h)
          \/ CommitClearError(h) \/ CommitError(h)
    \/ \E n \in Nodes : Crash(n)

LEMMA NextSteps == [Next]_vars => Step \/ UNCHANGED vars
BY Zenon DEF Next, Request, Fault, HandlerStep, WriteRefused, CommitRefused, Step

LEMMA FaultsType == TypeOK /\ [Next]_vars => faults' \in 0 .. MaxFaults
BY ConstantsAssumption DEF TypeOK, Next, Request, Fault, HandlerStep, vars

-----------------------------------------------------------------------------
(* Every step keeps the types.                                             *)

CacheType == cache \in [Nodes -> [ChunkIds -> Chunk \cup {None}]]

\* The types but for the fault counter.
Types ==
    /\ RepoTypes /\ StoreTypes /\ CacheType /\ DiskTypes
    /\ SessionTypes /\ HandlerTypes /\ AuxTypes

\* Variables that do not change keep their types.
LEMMA TypesKept ==
    ASSUME Types
    PROVE  /\ UNCHANGED repo => RepoTypes'
           /\ UNCHANGED store => StoreTypes'
           /\ UNCHANGED cache => CacheType'
           /\ UNCHANGED disk => DiskTypes'
           /\ UNCHANGED session => SessionTypes'
           /\ UNCHANGED <<pc, locals>> => HandlerTypes'
           /\ UNCHANGED aux => AuxTypes'
<1>1. UNCHANGED repo => RepoTypes'
  BY Zenon DEF Types, repo, RepoTypes
<1>2. UNCHANGED store => StoreTypes'
  BY Zenon DEF Types, store, StoreTypes
<1>3. UNCHANGED cache => CacheType'
  BY Zenon DEF Types, CacheType
<1>4. UNCHANGED disk => DiskTypes'
  BY Zenon DEF Types, disk, DiskTypes
<1>5. UNCHANGED session => SessionTypes'
  BY Zenon DEF Types, session, SessionTypes
<1>6. UNCHANGED <<pc, locals>> => HandlerTypes'
  BY Zenon DEF Types, locals, HandlerTypes
<1>7. UNCHANGED aux => AuxTypes'
  BY Zenon DEF Types, aux, AuxTypes
<1> QED BY <1>1, <1>2, <1>3, <1>4, <1>5, <1>6, <1>7, Zenon

LEMMA ReplyTypes ==
    ASSUME HandlerTypes, NEW h \in Handlers, Leave(h),
           fd' \in [Handlers -> BOOLEAN] \/ Reply(h)
    PROVE  HandlerTypes'
<1>1. fd' \in [Handlers -> BOOLEAN]
  BY Zenon DEF HandlerTypes, Reply
<1>2. NoReq \in [off : Nat, len : Nat, byte : Bytes]
  BY ConstantsAssumption, Zenon DEF NoReq
<1> QED BY <1>1, <1>2, ZeroData, Zenon DEF HandlerTypes, Leave, Goto

\* What resolveChunk returns is a chunk.
LEMMA ResolveType ==
    ASSUME Types, NEW s \in SessionIds, NEW i \in Index, home[s] \in Nodes
    PROVE  resolveChunk(s, i) \subseteq Chunk \cup {None}
<1>1. base[s][i] # None => base[s][i] \in ChunkIds
  BY Zenon DEF Types, SessionTypes, Manifest
<1>2. base[s][i] # None => Fetch(home[s], base[s][i]) \subseteq Chunk
  BY <1>1, ZeroData DEF Types, StoreTypes, CacheType, Fetch
<1>3. files[s][i] \in Chunk \cup {None}
  BY Zenon DEF Types, DiskTypes, Slots
<1> QED BY <1>2, <1>3, ZeroData, Zenon DEF resolveChunk, BaseChunk

LEMMA FillCacheType ==
    ASSUME Types, NEW s \in SessionIds, NEW i \in Index, FillCache(s, i)
    PROVE  CacheType'
<1>1. base[s][i] # None => base[s][i] \in ChunkIds
  BY Zenon DEF Types, SessionTypes, Manifest
<1>2. CASE UNCHANGED cache
  BY <1>2, Zenon DEF Types, CacheType
<1>3. ASSUME base[s][i] # None, CachePut(home[s], base[s][i], chunks[base[s][i]])
      PROVE  CacheType'
  <2>1. chunks[base[s][i]] \in Chunk \cup {None}
    BY <1>1, <1>3, Zenon DEF Types, StoreTypes
  <2> QED BY <1>3, <2>1, Zenon DEF CachePut, Types, CacheType
<1> QED BY <1>2, <1>3, Zenon DEF FillCache

LEMMA UnlinkType ==
    ASSUME NEW s, NEW gone, Unlink(s, gone)
    PROVE  fd' \in [Handlers -> BOOLEAN]
BY Zenon DEF Unlink

LEMMA OverlayType ==
    ASSUME DiskTypes, NEW s \in SessionIds, NEW gone \in SUBSET Index, NEW complete \in BOOLEAN,
           RemoveOverlay(s, gone, complete)
    PROVE  DiskTypes'
<1>1. \A f \in Slots : [i \in Index |-> IF i \in gone THEN None ELSE f[i]] \in Slots
  BY Zenon DEF Slots
<1>2. [i \in Index |-> IF i \in gone THEN None ELSE files[s][i]] \in Slots
  BY <1>1, Zenon DEF DiskTypes
<1> QED BY <1>2, Zenon DEF RemoveOverlay, DiskTypes

LEMMA ForgetType ==
    ASSUME Types, NEW gone, Forget(gone)
    PROVE  /\ DiskTypes'
           /\ base' \in [SessionIds -> Manifest]
           /\ dirty' \in [SessionIds -> SUBSET Index]
           /\ said' \in [SessionIds -> Told]
BY ZeroData, Zenon DEF Types, DiskTypes, SessionTypes, AuxTypes, Forget

LEMMA DoubtType ==
    ASSUME Types, NEW s \in SessionIds, NEW r, NEW torn \in SUBSET Index, Doubt(s, r, torn)
    PROVE  said' \in [SessionIds -> Told]
<1>1. said \in [SessionIds -> Told]
  BY Zenon DEF Types, AuxTypes
<1>2. \A t \in Told : [i \in Index |-> [o \in Offsets |->
          IF Covers(r, i, o) \/ i \in torn THEN Unknown ELSE t[i][o]]] \in Told
  BY Zenon DEF Told
<1>3. [i \in Index |-> [o \in Offsets |->
          IF Covers(r, i, o) \/ i \in torn THEN Unknown ELSE said[s][i][o]]] \in Told
  BY <1>1, <1>2, Zenon
<1> QED BY <1>1, <1>3, Zenon DEF Doubt

\* What the calls of a commit, which may succeed or fail, do to the types.
LEMMA UploadTypes ==
    ASSUME Types, NEW h \in Handlers, NEW chunk \in Chunk, on[h] \in SessionIds,
           UploadChunk(h, chunk)
    PROVE  StoreTypes' /\ CacheType' /\ UNCHANGED <<repo, base, aux>>
<1>1. HashChunk(chunk) \in ChunkIds
  BY HashChunkType, Zenon
<1> HIDE DEF HashChunk
<1>2. StoreTypes'
  BY <1>1, Zenon DEF Types, StoreTypes, UploadChunk
<1>3. CacheType'
  BY <1>1, Zenon DEF Types, CacheType, UploadChunk, CachePut
<1> QED BY <1>2, <1>3, Zenon DEF UploadChunk

LEMMA saveManifestTypes ==
    ASSUME Types, NEW h \in Handlers, NEW p \in SnapshotIds, on[h] \in SessionIds,
           saveManifest(h, p)
    PROVE  StoreTypes' /\ AuxTypes' /\ UNCHANGED <<repo, cache, base>>
<1>1. StoreTypes'
  BY Zenon DEF Types, StoreTypes, HandlerTypes, saveManifest
<1>2. AuxTypes'
  <2>1. said[on[h]] \in Told
    BY Zenon DEF Types, AuxTypes
  <2> QED BY <2>1, ZeroData, Zenon DEF Types, AuxTypes, saveManifest
<1> QED BY <1>1, <1>2, Zenon DEF saveManifest

LEMMA MetadataTypes ==
    ASSUME Types, NEW h \in Handlers, on[h] \in SessionIds, vol[on[h]] \in Volumes,
           snap[h] \in SnapshotIds, CreateSnapshot(h) \/ UpdateLatestSnapshot(h)
    PROVE  RepoTypes' /\ UNCHANGED <<store, cache, aux>>
BY Zenon DEF Types, RepoTypes, CreateSnapshot, UpdateLatestSnapshot

\* What the invariant says of the types, and that variables that do not
\* change keep them.
LEMMA InvTyped ==
    ASSUME Inv
    PROVE  /\ Types
           /\ RepoTypes /\ StoreTypes /\ DiskTypes /\ SessionTypes /\ HandlerTypes /\ AuxTypes
           /\ UNCHANGED repo => RepoTypes'
           /\ UNCHANGED store => StoreTypes'
           /\ UNCHANGED cache => CacheType'
           /\ UNCHANGED disk => DiskTypes'
           /\ UNCHANGED session => SessionTypes'
           /\ UNCHANGED <<pc, locals>> => HandlerTypes'
           /\ UNCHANGED aux => AuxTypes'
<1>1. Types
  BY Zenon DEF Inv, TypeOK, Types, CacheType
<1> QED BY <1>1, TypesKept, Zenon DEF Types

-----------------------------------------------------------------------------
(* Action by action.                                                       *)

LEMMA CreateVolumeTypes ==
    ASSUME Inv, NEW v \in Volumes, NEW p \in SnapshotIds \cup {None}, CreateVolume(v, p)
    PROVE  Types'
<1> QED BY InvTyped, Zenon DEF Types, CreateVolume, RepoTypes

LEMMA StopTypes ==
    ASSUME Inv, NEW s \in SessionIds, Stop(s)
    PROVE  Types'
<1>1. SessionTypes' /\ DiskTypes' /\ said' \in [SessionIds -> Told]
  <2>1. CASE Forget({s})
    BY InvTyped, <2>1, ForgetType, Zenon DEF Stop, SessionTypes
  <2>2. CASE RemoveOverlay(s, Index, TRUE) /\ UNCHANGED <<base, dirty, said>>
    BY InvTyped, <2>2, OverlayType, Zenon DEF Stop, SessionTypes, AuxTypes
  <2> QED BY <2>1, <2>2, Zenon DEF Stop
<1>2. HandlerTypes'
  BY InvTyped, UnlinkType, Zenon DEF Stop, HandlerTypes
<1>3. AuxTypes'
  BY InvTyped, <1>1, Zenon DEF Stop, AuxTypes
<1> QED BY InvTyped, <1>1, <1>2, <1>3, Zenon DEF Types, Stop

LEMMA StopErrorTypes ==
    ASSUME Inv, NEW s \in SessionIds, StopError(s)
    PROVE  Types'
<1>1. DiskTypes'
  BY InvTyped, OverlayType, Zenon DEF StopError
<1>2. SessionTypes'
  BY InvTyped, Zenon DEF StopError, SessionTypes
<1>3. HandlerTypes'
  BY InvTyped, UnlinkType, Zenon DEF StopError, HandlerTypes
<1> QED BY InvTyped, <1>1, <1>2, <1>3, Zenon DEF Types, StopError

LEMMA ReadTypes ==
    ASSUME Inv, NEW s \in SessionIds, NEW i \in Index, Read(s, i)
    PROVE  Types'
<1> QED BY InvTyped, FillCacheType, Zenon DEF Types, Read

LEMMA StartSessionTypes ==
    ASSUME Inv, NEW h \in Handlers, NEW s \in SessionIds, NEW n \in Nodes, NEW v \in Volumes,
           StartSession(h, s, n, v)
    PROVE  Types'
<1>1. SessionTypes'
  BY InvTyped, Zenon DEF StartSession, SessionTypes
<1>2. HandlerTypes'
  BY InvTyped, SentinelsAssumption, Zenon DEF StartSession, HandlerTypes, RepoTypes, Goto
<1> QED BY InvTyped, <1>1, <1>2, Zenon DEF Types, StartSession

LEMMA WriteTypes ==
    ASSUME Inv, NEW h \in Handlers, NEW s \in SessionIds, NEW r \in Requests, Write(h, s, r)
    PROVE  Types'
<1>1. HandlerTypes'
  BY InvTyped, ChunkIndexesType, ConstantsAssumption, Zenon
     DEF Write, Lookup, HandlerTypes, Goto
<1>2. AuxTypes'
  BY InvTyped, Zenon DEF Write, Lookup, AuxTypes
<1> QED BY InvTyped, <1>1, <1>2, Zenon DEF Types, Write

LEMMA CommitTypes ==
    ASSUME Inv, NEW h \in Handlers, NEW s \in SessionIds, Commit(h, s)
    PROVE  Types'
<1>1. HandlerTypes'
  BY InvTyped, Zenon DEF Commit, Lookup, HandlerTypes, SessionTypes, Goto
<1>2. AuxTypes'
  BY InvTyped, Zenon DEF Commit, Lookup, AuxTypes
<1> QED BY InvTyped, <1>1, <1>2, Zenon DEF Types, Commit

LEMMA StartLoadTypes ==
    ASSUME Inv, NEW h \in Handlers, StartLoad(h)
    PROVE  Types'
<1>1. on[h] \in SessionIds /\ vol[on[h]] \in Volumes /\ home[on[h]] \in Nodes
  BY AtStep, Zenon DEF StartLoad
<1>2. snap[h] # None => manifests[snap[h]] \in Manifest /\ pub[snap[h]] \in Told
  BY InvTyped, Zenon DEF StartLoad, Loadable, StoreTypes, HandlerTypes, Inv, Durable
<1>3. RepoTypes'
  BY InvTyped, <1>1, Zenon DEF StartLoad, RepoTypes
<1>4. DiskTypes'
  BY InvTyped, <1>1, Zenon DEF StartLoad, DiskTypes
<1>5. SessionTypes'
  BY InvTyped, <1>1, <1>2, ZeroData, Zenon DEF StartLoad, SessionTypes
<1>6. AuxTypes'
  BY InvTyped, <1>1, <1>2, ZeroData, Zenon DEF StartLoad, AuxTypes
<1>7. HandlerTypes'
  BY InvTyped, ReplyTypes, Zenon DEF StartLoad, Reply
<1> QED BY InvTyped, <1>3, <1>4, <1>5, <1>6, <1>7, Zenon DEF Types, StartLoad

LEMMA StartErrorTypes ==
    ASSUME Inv, NEW h \in Handlers, StartError(h)
    PROVE  Types'
<1>1. on[h] \in SessionIds /\ vol[on[h]] \in Volumes /\ home[on[h]] \in Nodes
  BY AtStep, Zenon DEF StartError
<1>2. RepoTypes'
  BY InvTyped, <1>1, Zenon DEF StartError, RepoTypes
<1>3. HandlerTypes'
  BY InvTyped, ReplyTypes, Zenon DEF StartError, Reply
<1> QED BY InvTyped, <1>2, <1>3, Zenon DEF Types, StartError

LEMMA WriteResolveTypes ==
    ASSUME Inv, NEW h \in Handlers, WriteResolve(h)
    PROVE  Types'
<1> DEFINE i == Min(todo[h])
<1>1. i \in Index /\ on[h] \in SessionIds /\ home[on[h]] \in Nodes
  BY AtStep, Zenon DEF WriteResolve, Writing
<1>2. PICK chunk \in Chunk : buf' = [buf EXCEPT ![h][i] = Patch(req[h], i, chunk)]
  BY InvTyped, <1>1, ResolveType, Zenon DEF WriteResolve
<1>3. Patch(req[h], i, chunk) \in Chunk
  BY InvTyped, <1>1, PatchType, Zenon DEF HandlerTypes
<1>4. CacheType'
  BY InvTyped, <1>1, FillCacheType, Zenon DEF WriteResolve
<1> HIDE DEF i
<1>5. HandlerTypes'
  BY InvTyped, <1>1, <1>2, <1>3, Zenon DEF WriteResolve, HandlerTypes, Goto, Slots
<1> QED BY InvTyped, <1>4, <1>5, Zenon DEF Types, WriteResolve

LEMMA WriteOpenTypes ==
    ASSUME Inv, NEW h \in Handlers, WriteOpen(h)
    PROVE  Types'
<1>1. Min(todo[h]) \in Index /\ on[h] \in SessionIds
  BY AtStep, Zenon DEF WriteOpen, Writing
<1>2. DiskTypes'
  BY InvTyped, <1>1, ZeroData, Zenon DEF WriteOpen, DiskTypes, Slots
<1>3. HandlerTypes'
  BY InvTyped, Zenon DEF WriteOpen, HandlerTypes, Goto
<1> QED BY InvTyped, <1>2, <1>3, Zenon DEF Types, WriteOpen

LEMMA WriteDataTypes ==
    ASSUME Inv, NEW h \in Handlers, WriteData(h)
    PROVE  Types'
<1> DEFINE i == Min(todo[h])
           s == on[h]
<1>1. i \in Index /\ s \in SessionIds /\ buf[h][i] \in Chunk
  BY AtStep, Zenon DEF WriteData, Writing
<1>2. DiskTypes'
  BY InvTyped, <1>1, Zenon DEF WriteData, DiskTypes, Slots
<1>3. SessionTypes'
  <2>1. dirty' = [dirty EXCEPT ![s] = @ \cup {i}] /\ UNCHANGED <<open, home, vol, base>>
    BY Zenon DEF WriteData
  <2> HIDE DEF i, s
  <2> QED BY InvTyped, <1>1, <2>1, Zenon DEF SessionTypes
<1>4. AuxTypes'
  <2>1. said[s] \in Told /\ req[h].byte \in Bytes
    BY InvTyped, <1>1, Zenon DEF AuxTypes, HandlerTypes
  <2>2. [j \in Index |-> Patch(req[h], j, said[s][j])] \in Told
    BY <2>1, PatchType, Zenon
  <2>3. /\ \/ UNCHANGED said
           \/ said' = [said EXCEPT ![s] = [j \in Index |-> Patch(req[h], j, said[s][j])]]
        /\ UNCHANGED <<pub, overlapped>>
    BY Zenon DEF WriteData
  <2> QED BY InvTyped, <2>2, <2>3, Zenon DEF AuxTypes
<1>5. HandlerTypes'
  <2>1. CASE Reply(h)
    BY InvTyped, <2>1, ReplyTypes, Zenon DEF Reply
  <2>2. CASE ~Reply(h)
    <3>1. /\ pc' = [pc EXCEPT ![h] = "wresolve"]
          /\ todo' = [todo EXCEPT ![h] = todo[h] \ {i}]
          /\ buf' = [buf EXCEPT ![h] = NoChunks]
          /\ fd' = [fd EXCEPT ![h] = FALSE]
          /\ UNCHANGED <<on, req, man, snap>>
      BY <2>2, Zenon DEF WriteData, Goto
    <3> HIDE DEF i
    <3> QED BY InvTyped, <3>1, ZeroData, Zenon DEF HandlerTypes
  <2> QED BY <2>1, <2>2, Zenon
<1> QED BY InvTyped, <1>2, <1>3, <1>4, <1>5, Zenon DEF Types, WriteData

LEMMA WriteErrorTypes ==
    ASSUME Inv, NEW h \in Handlers, WriteError(h)
    PROVE  Types'
<1>1. on[h] \in SessionIds /\ Min(todo[h]) \in Index
  BY AtStep, Zenon DEF WriteError, Writing
<1>2. CacheType'
  BY InvTyped, <1>1, FillCacheType, Zenon DEF WriteError
<1>3. {} \in SUBSET Index /\ Doubt(on[h], req[h], {})
  BY Zenon DEF WriteError
<1>4. said' \in [SessionIds -> Told]
  BY InvTyped, <1>1, <1>3, DoubtType, Zenon
<1>5. AuxTypes'
  BY InvTyped, <1>4, Zenon DEF WriteError, AuxTypes
<1>6. HandlerTypes'
  BY InvTyped, ReplyTypes, Zenon DEF WriteError, Reply
<1> QED BY InvTyped, <1>2, <1>5, <1>6, Zenon DEF Types, WriteError

LEMMA WriteTornTypes ==
    ASSUME Inv, NEW h \in Handlers, NEW n \in 0 .. ChunkSize - 1, WriteTorn(h, n)
    PROVE  Types'
<1> DEFINE i == Min(todo[h])
           torn == [o \in Offsets |-> IF o < n THEN buf[h][i][o] ELSE 0]
<1>1. on[h] \in SessionIds /\ i \in Index /\ buf[h][i] \in Chunk
  BY AtStep, Zenon DEF WriteTorn, Writing
<1>2. torn \in Chunk
  BY <1>1, TornType
<1>3. DiskTypes'
  <2>1. files' = files \/ files' = [files EXCEPT ![on[h]][i] = torn]
    BY Zenon DEF WriteTorn
  <2>2. UNCHANGED dirs
    BY Zenon DEF WriteTorn
  <2> HIDE DEF i, torn
  <2> QED BY InvTyped, <1>1, <1>2, <2>1, <2>2 DEF DiskTypes, Slots
<1>4. Doubt(on[h], req[h], dirty[on[h]] \cap {i})
  BY Zenon DEF WriteTorn
<1>5. dirty[on[h]] \cap {i} \in SUBSET Index
  BY <1>1, Zenon
<1>6. said' \in [SessionIds -> Told]
  BY InvTyped, <1>1, <1>4, <1>5, DoubtType, Zenon
<1>7. AuxTypes'
  BY InvTyped, <1>6, Zenon DEF WriteTorn, AuxTypes
<1>8. HandlerTypes'
  BY InvTyped, ReplyTypes, Zenon DEF WriteTorn, Reply
<1> QED BY InvTyped, <1>3, <1>7, <1>8, Zenon DEF Types, WriteTorn

LEMMA CommitReadTypes ==
    ASSUME Inv, NEW h \in Handlers, CommitRead(h)
    PROVE  Types'
<1> DEFINE i == Min(todo[h])
<1>1. i \in Index /\ on[h] \in SessionIds
  BY AtStep, Zenon DEF CommitRead
<1>2. files[on[h]][i] \in Chunk \cup {None}
  BY InvTyped, <1>1, Zenon DEF DiskTypes, Slots
<1>3. /\ buf' = [buf EXCEPT ![h][i] = files[on[h]][i]]
      /\ todo' = [todo EXCEPT ![h] = todo[h] \ {i}]
      /\ UNCHANGED <<on, fd, req, man, snap>>
  BY Zenon DEF CommitRead
<1>4. \E label \in {"cput", "cread"} : pc' = [pc EXCEPT ![h] = label]
  BY Zenon DEF CommitRead, Goto
<1> HIDE DEF i
<1>5. HandlerTypes'
  BY InvTyped, <1>1, <1>2, <1>3, <1>4, Zenon DEF HandlerTypes, Slots
<1> QED BY InvTyped, <1>5, Zenon DEF Types, CommitRead

LEMMA CommitPutTypes ==
    ASSUME Inv, NEW h \in Handlers, CommitPut(h)
    PROVE  Types'
<1> DEFINE i == Min(Pending(h))
           id == HashChunk(buf[h][i])
<1>1. i \in Index /\ buf[h][i] \in Chunk /\ on[h] \in SessionIds /\ UploadChunk(h, buf[h][i])
  BY AtStep, Zenon DEF CommitPut, UploadChunk
<1>2. id \in ChunkIds
  BY <1>1, HashChunkType, Zenon
<1>3. /\ man' = [man EXCEPT ![h][i] = id]
      /\ buf' = [buf EXCEPT ![h][i] = None]
      /\ UNCHANGED <<on, todo, fd, req, snap>>
  BY Zenon DEF CommitPut
<1>4. \E label \in {"cput", "cread", "cmanifest"} : pc' = [pc EXCEPT ![h] = label]
  BY Zenon DEF CommitPut, Goto
<1>5. StoreTypes' /\ CacheType' /\ UNCHANGED <<repo, base, aux>>
  BY InvTyped, <1>1, UploadTypes, Zenon
<1> HIDE DEF i, id
<1>6. HandlerTypes'
  BY InvTyped, <1>1, <1>2, <1>3, <1>4, Zenon DEF HandlerTypes, Slots, Manifest
<1>7. SessionTypes'
  BY InvTyped, <1>5, Zenon DEF CommitPut, SessionTypes
<1> QED BY InvTyped, <1>5, <1>6, <1>7, Zenon DEF Types, CommitPut

LEMMA CommitManifestTypes ==
    ASSUME Inv, NEW h \in Handlers, NEW p \in SnapshotIds, CommitManifest(h, p)
    PROVE  Types'
<1>1. on[h] \in SessionIds
  BY AtStep, Zenon DEF CommitManifest, saveManifest
<1>2. StoreTypes' /\ AuxTypes' /\ UNCHANGED <<repo, cache, base>>
  BY InvTyped, <1>1, saveManifestTypes, Zenon DEF CommitManifest
<1>3. HandlerTypes'
  BY InvTyped, Zenon DEF CommitManifest, HandlerTypes, Goto
<1>4. SessionTypes'
  BY InvTyped, <1>2, Zenon DEF CommitManifest, SessionTypes
<1> QED BY InvTyped, <1>2, <1>3, <1>4, Zenon DEF Types, CommitManifest

LEMMA CommitRecordPointTypes ==
    ASSUME Inv, NEW h \in Handlers, CommitRecord(h) \/ CommitPoint(h)
    PROVE  Types'
<1>1. CreateSnapshot(h) \/ UpdateLatestSnapshot(h)
  BY Zenon DEF CommitRecord, CommitPoint
<1>2. /\ on[h] \in SessionIds /\ vol[on[h]] \in Volumes /\ snap[h] \in SnapshotIds
      /\ man[h] \in Manifest
  BY InvTyped, <1>1, AtStep, Zenon DEF CreateSnapshot, UpdateLatestSnapshot, Publishing,
       HandlerTypes
<1>3. RepoTypes' /\ UNCHANGED <<store, cache, aux>>
  BY InvTyped, <1>1, <1>2, MetadataTypes, Zenon
<1>4. SessionTypes'
  BY InvTyped, <1>2, Zenon DEF CommitRecord, CreateSnapshot, CommitPoint, SessionTypes
<1>5. HandlerTypes'
  BY InvTyped, Zenon DEF CommitRecord, CommitPoint, HandlerTypes, Goto, locals
<1> QED BY InvTyped, <1>3, <1>4, <1>5, Zenon DEF Types, CommitRecord, CommitPoint

LEMMA CommitClearTypes ==
    ASSUME Inv, NEW h \in Handlers, CommitClear(h)
    PROVE  Types'
<1>1. on[h] \in SessionIds
  BY AtStep, Zenon DEF CommitClear
<1>2. DiskTypes'
  BY InvTyped, <1>1, ZeroData, Zenon DEF CommitClear, DiskTypes
<1>3. SessionTypes'
  BY InvTyped, Zenon DEF CommitClear, SessionTypes
<1>4. HandlerTypes'
  BY InvTyped, ReplyTypes, UnlinkType, Zenon DEF CommitClear
<1> QED BY InvTyped, <1>2, <1>3, <1>4, Zenon DEF Types, CommitClear

LEMMA CommitClearErrorTypes ==
    ASSUME Inv, NEW h \in Handlers, CommitClearError(h)
    PROVE  Types'
<1>1. on[h] \in SessionIds
  BY AtStep, Zenon DEF CommitClearError
<1>2. PICK complete \in BOOLEAN, gone \in SUBSET Index :
          RemoveOverlay(on[h], gone, complete) /\ Unlink(on[h], gone)
  BY Zenon DEF CommitClearError
<1>3. DiskTypes'
  BY InvTyped, <1>1, <1>2, OverlayType, Zenon
<1>4. HandlerTypes'
  BY InvTyped, <1>2, ReplyTypes, UnlinkType, Zenon DEF CommitClearError
<1> QED BY InvTyped, <1>3, <1>4, Zenon DEF Types, CommitClearError

LEMMA CommitErrorTypes ==
    ASSUME Inv, NEW h \in Handlers, CommitError(h)
    PROVE  Types'
<1>1. HandlerTypes' /\ DiskTypes'
  BY InvTyped, ReplyTypes, Zenon DEF CommitError, Reply
<1>2. UNCHANGED base => SessionTypes'
  BY InvTyped, Zenon DEF CommitError, SessionTypes
<1>3. CASE UNCHANGED <<repo, store, cache, base, aux>>
  BY InvTyped, <1>1, <1>2, <1>3, Zenon DEF Types
<1>4. ASSUME NEW i \in Pending(h), i = Min(Pending(h)), UploadChunk(h, buf[h][i]) PROVE Types'
  <2>1. on[h] \in SessionIds /\ buf[h][i] \in Chunk
    BY <1>4, AtStep, Zenon DEF UploadChunk
  <2>2. StoreTypes' /\ CacheType' /\ UNCHANGED <<repo, base, aux>>
    BY InvTyped, <1>4, <2>1, UploadTypes, Zenon
  <2> QED BY InvTyped, <1>1, <1>2, <2>2, Zenon DEF Types
<1>5. ASSUME NEW p \in SnapshotIds, saveManifest(h, p) PROVE Types'
  <2>1. on[h] \in SessionIds
    BY <1>5, AtStep, Zenon DEF saveManifest
  <2>2. StoreTypes' /\ AuxTypes' /\ UNCHANGED <<repo, cache, base>>
    BY InvTyped, <1>5, <2>1, saveManifestTypes, Zenon
  <2> QED BY InvTyped, <1>1, <1>2, <2>2, Zenon DEF Types
<1>6. ASSUME CreateSnapshot(h) \/ UpdateLatestSnapshot(h), UNCHANGED base PROVE Types'
  <2>1. on[h] \in SessionIds /\ vol[on[h]] \in Volumes /\ snap[h] \in SnapshotIds
    BY <1>6, AtStep, Zenon DEF CreateSnapshot, UpdateLatestSnapshot, Publishing
  <2>2. RepoTypes' /\ UNCHANGED <<store, cache, aux>>
    BY InvTyped, <1>6, <2>1, MetadataTypes, Zenon
  <2> QED BY InvTyped, <1>1, <1>2, <1>6, <2>2, Zenon DEF Types
<1>7. CreateSnapshot(h) => UNCHANGED base
  BY Zenon DEF CreateSnapshot
<1> QED BY <1>3, <1>4, <1>5, <1>6, <1>7, Zenon DEF Types, CommitError

LEMMA CrashTypes ==
    ASSUME Inv, NEW n \in Nodes, Crash(n)
    PROVE  Types'
<1>1. PICK here : /\ Forget(here) /\ open' = open \ here /\ UNCHANGED <<home, vol>>
  BY Zenon DEF Crash
<1>2. DiskTypes' /\ SessionTypes'
  BY InvTyped, <1>1, ForgetType, Zenon DEF SessionTypes
<1>3. AuxTypes'
  BY InvTyped, <1>1, ForgetType, Zenon DEF Crash, AuxTypes
<1>4. NoReq \in [off : Nat, len : Nat, byte : Bytes]
  BY ConstantsAssumption, Zenon DEF NoReq
<1>5. HandlerTypes'
  BY InvTyped, <1>4, ZeroData, Zenon DEF Crash, HandlerTypes
<1> QED BY InvTyped, <1>2, <1>3, <1>5, Zenon DEF Types, Crash

\* Every step keeps every variable in its type.
LEMMA TypeStep == Inv /\ [Next]_vars => TypeOK'
<1>1. TypeOK' <=> Types' /\ faults' \in 0 .. MaxFaults
  BY Zenon DEF TypeOK, Types, CacheType
<1>2. ASSUME Inv, Step PROVE Types'
  BY <1>2, CreateVolumeTypes, StopTypes, StopErrorTypes, ReadTypes, StartSessionTypes,
       WriteTypes, CommitTypes, StartLoadTypes, StartErrorTypes, WriteResolveTypes,
       WriteOpenTypes, WriteDataTypes, WriteErrorTypes, WriteTornTypes, CommitReadTypes,
       CommitPutTypes, CommitManifestTypes, CommitRecordPointTypes, CommitClearTypes,
       CommitClearErrorTypes, CommitErrorTypes, CrashTypes, Zenon DEF Step
<1>3. ASSUME Inv, UNCHANGED vars PROVE Types'
  BY <1>3, InvTyped, Zenon DEF vars, Types
<1>4. Inv => TypeOK
  BY Zenon DEF Inv
<1> QED BY <1>1, <1>2, <1>3, <1>4, NextSteps, FaultsType, Zenon

-----------------------------------------------------------------------------
(* Inv is inductive                                                        *)

Rest == Control /\ Distinct /\ Homed /\ Durable

\* The handler g does not move.
Kept(g) ==
    /\ pc'[g] = pc[g] /\ on'[g] = on[g] /\ todo'[g] = todo[g]
    /\ buf'[g] = buf[g] /\ snap'[g] = snap[g] /\ man'[g] = man[g]

\* The handler g has replied or died.
Gone(g) == pc'[g] = "idle" /\ man'[g] = NoManifest

\* Rows and objects, once there, stay as they are, and so does the place of a
\* session.
Grows ==
    /\ \A k \in ChunkIds : chunks[k] # None => chunks'[k] = chunks[k]
    /\ \A p \in SnapshotIds : manifests[p] # None => manifests'[p] = manifests[p]
    /\ \A p \in SnapshotIds : rows[p] # None => rows'[p] = rows[p]
    /\ \A s \in SessionIds : home[s] \in Nodes => home'[s] = home[s] /\ vol'[s] = vol[s]

\* No other handler is about to record a snapshot that is recorded now.
Unrecorded(g) == pc[g] = "crecord" => rows'[snap[g]] = rows[snap[g]]

LEMMA LeaveKeeps ==
    ASSUME Inv, NEW h \in Handlers, Leave(h)
    PROVE  Gone(h) /\ \A g \in Handlers \ {h} : Kept(g)
BY InvTyped DEF Leave, Goto, HandlerTypes, Kept, Gone

\* A manifest stays complete when chunks are added, and when it is given a
\* chunk that is there.
LEMMA CompleteGrows ==
    ASSUME NEW m \in Manifest, NEW c, NEW d, Complete(m, c),
           \A k \in ChunkIds : c[k] # None => d[k] # None
    PROVE  /\ Complete(m, d)
           /\ \A i \in Index, k \in ChunkIds :
                 d[k] # None => Complete([m EXCEPT ![i] = k], d)
BY Zenon DEF Complete, Manifest

LEMMA CompleteEmpty == \A c : Complete(NoManifest, c)
BY Zenon DEF Complete, NoManifest

LEMMA KeptHandler ==
    ASSUME Inv, Grows, NEW g \in Handlers, Kept(g), Unrecorded(g)
    PROVE  Holds(g)' /\ Refers(g)'
<1>1. Holds(g) /\ Refers(g)
  BY Zenon DEF Inv, Control
<1>2. Pending(g)' = Pending(g)
  BY Zenon DEF Kept, Pending
<1>3. pc[g] # "idle" => home'[on[g]] = home[on[g]] /\ vol'[on[g]] = vol[on[g]]
  BY <1>1, Zenon DEF Holds, Grows
<1>4. Holds(g)'
  BY <1>1, <1>2, <1>3, Zenon DEF Holds, Kept
<1>5. Complete(man'[g], chunks')
  <2>1. man[g] \in Manifest
    BY InvTyped, Zenon DEF HandlerTypes
  <2>2. \A k \in ChunkIds : chunks[k] # None => chunks'[k] # None
    BY Zenon DEF Grows
  <2> QED BY <1>1, <2>1, <2>2, CompleteGrows, Zenon DEF Refers, Kept
<1>6. snap[g] \in SnapshotIds \cup {None}
  BY InvTyped, Zenon DEF HandlerTypes
<1>7. pc[g] \in {"cpoint", "cclear"} => rows[snap[g]] # None
  BY <1>1, SentinelsAssumption, Zenon DEF Holds, Refers
<1>8. Refers(g)'
  BY <1>1, <1>3, <1>5, <1>6, <1>7, Zenon DEF Refers, Holds, Kept, Grows, Unrecorded, Publishing
<1> QED BY <1>4, <1>8, Zenon

LEMMA GoneHandler ==
    ASSUME NEW g \in Handlers, Gone(g)
    PROVE  Holds(g)' /\ Refers(g)'
BY CompleteEmpty, Zenon DEF Gone, Holds, Refers, Writing, Publishing

\* A step of handler h, after which it holds what it has to.
LEMMA HandlersStep ==
    ASSUME Inv, Grows, NEW h \in Handlers, Holds(h)', Refers(h)',
           \A g \in Handlers \ {h} : Kept(g) /\ Unrecorded(g),
           pc'[h] \in Publishing =>
               \A g \in Handlers \ {h} : pc[g] \in Publishing => snap[g] # snap'[h]
    PROVE  Control' /\ Distinct'
<1>1. Control'
  BY KeptHandler, Zenon DEF Control
<1>2. Distinct'
  BY ZenonT(60) DEF Inv, Distinct, Kept
<1> QED BY <1>1, <1>2, Zenon

\* Handlers that reply or die.
LEMMA HandlersLeave ==
    ASSUME Inv, Grows, \A g \in Handlers : Gone(g) \/ (Kept(g) /\ Unrecorded(g))
    PROVE  Control' /\ Distinct'
<1>1. Control'
  BY KeptHandler, GoneHandler, Zenon DEF Control
<1>2. Distinct'
  BY ZenonT(60) DEF Inv, Distinct, Kept, Gone, Publishing
<1> QED BY <1>1, <1>2, Zenon

-----------------------------------------------------------------------------
(* Steps that touch neither rows nor objects.                              *)

Static == UNCHANGED <<latest, rows, chunks, manifests, pub, home, vol>>

LEMMA StaticGrows ==
    Static => Grows /\ \A g \in Handlers : Unrecorded(g)
BY Zenon DEF Static, Grows, Unrecorded

LEMMA StaticStore ==
    ASSUME Inv, Static, open' \subseteq open,
           \A s \in SessionIds : base'[s] = base[s] \/ base'[s] = NoManifest
    PROVE  Homed' /\ Durable'
<1>1. Homed'
  BY Zenon DEF Inv, Homed, Static
<1>2. \A s \in SessionIds : Complete(base'[s], chunks')
  BY CompleteEmpty, Zenon DEF Inv, Durable, Static
<1>3. Durable'
  BY <1>2, Zenon DEF Inv, Durable, Static
<1> QED BY <1>1, <1>3, Zenon

\* Handlers reply or die, sessions are forgotten.
LEMMA StaticLeave ==
    ASSUME Inv, Static, open' \subseteq open,
           \A s \in SessionIds : base'[s] = base[s] \/ base'[s] = NoManifest,
           \A g \in Handlers : Gone(g) \/ Kept(g)
    PROVE  Grows /\ Rest'
BY StaticGrows, StaticStore, HandlersLeave, Zenon DEF Rest

\* A handler moves to a step that refers to no snapshot.
LEMMA StaticMove ==
    ASSUME Inv, Static, UNCHANGED <<open, base>>, NEW h \in Handlers,
           \A g \in Handlers \ {h} : Kept(g),
           pc'[h] \notin Publishing \cup {"sload"},
           man'[h] = man[h] \/ \E s \in SessionIds : man'[h] = base[s],
           Holds(h)'
    PROVE  Grows /\ Rest'
<1>1. Complete(man'[h], chunks')
  BY Zenon DEF Inv, Control, Refers, Durable, Static
<1>2. Refers(h)'
  BY <1>1, Zenon DEF Refers, Publishing
<1>3. Homed' /\ Durable'
  BY StaticStore, Zenon
<1> QED BY <1>2, <1>3, StaticGrows, HandlersStep, Zenon DEF Rest

LEMMA ForgetBase ==
    ASSUME NEW gone, Forget(gone)
    PROVE  \A s \in SessionIds : base'[s] = base[s] \/ base'[s] = NoManifest
BY Zenon DEF Forget

LEMMA StopSteps ==
    ASSUME Inv, NEW s \in SessionIds, Stop(s) \/ StopError(s)
    PROVE  Grows /\ Rest'
<1>1. Static /\ open' \subseteq open /\ UNCHANGED <<pc, on, todo, buf, snap, man>>
  BY Zenon DEF Stop, StopError, Static, repo, store, aux
<1>2. \A t \in SessionIds : base'[t] = base[t] \/ base'[t] = NoManifest
  BY ForgetBase, Zenon DEF Stop, StopError
<1> QED BY <1>1, <1>2, StaticLeave, Zenon DEF Kept

LEMMA ReadStep ==
    ASSUME Inv, NEW s \in SessionIds, NEW i \in Index, Read(s, i)
    PROVE  Grows /\ Rest'
<1>1. Static /\ UNCHANGED <<open, base, pc, on, todo, buf, snap, man>>
  BY Zenon DEF Read, Static, repo, store, aux, session, locals
<1> QED BY <1>1, StaticLeave, Zenon DEF Kept

LEMMA CrashStep ==
    ASSUME Inv, NEW n \in Nodes, Crash(n)
    PROVE  Grows /\ Rest'
<1>1. Static /\ open' \subseteq open
  BY Zenon DEF Crash, Static, repo, store
<1>2. \A s \in SessionIds : base'[s] = base[s] \/ base'[s] = NoManifest
  BY ForgetBase, Zenon DEF Crash
<1>3. \A g \in Handlers : Gone(g) \/ Kept(g)
  BY Zenon DEF Crash, Gone, Kept
<1> QED BY <1>1, <1>2, <1>3, StaticLeave, Zenon

\* Requests that end, well or with an error, without a remote call.
LEMMA LeaveSteps ==
    ASSUME Inv, NEW h \in Handlers,
           \/ StartError(h) \/ WriteError(h)
           \/ \E n \in 0 .. ChunkSize - 1 : WriteTorn(h, n)
           \/ CommitClear(h) \/ CommitClearError(h)
           \/ CommitError(h) /\ UNCHANGED <<repo, store, cache, base, aux>>
    PROVE  Grows /\ Rest'
<1>1. Leave(h)
  BY Zenon DEF StartError, WriteError, WriteTorn, CommitClear, CommitClearError, CommitError, Reply
<1>2. Static /\ UNCHANGED <<open, base>>
  BY Zenon DEF StartError, WriteError, WriteTorn, CommitClear, CommitClearError, CommitError,
               Static, repo, store, session, aux
<1> QED BY <1>1, <1>2, LeaveKeeps, StaticLeave, Zenon

LEMMA WriteStep ==
    ASSUME Inv, NEW h \in Handlers, NEW s \in SessionIds, NEW r \in Requests, Write(h, s, r)
    PROVE  Grows /\ Rest'
<1>1. Static /\ UNCHANGED <<open, base, buf, man, snap>>
  BY Zenon DEF Write, Static, repo, store, session
<1>2. /\ pc'[h] = "wresolve" /\ on'[h] = s /\ todo'[h] = ChunkIndexes(r.off, r.len)
      /\ \A g \in Handlers \ {h} : Kept(g)
  BY <1>1, InvTyped, Zenon DEF Write, Lookup, Goto, HandlerTypes, Kept
<1>3. home[s] \in Nodes /\ vol[s] \in Volumes
  BY Zenon DEF Write, Lookup, Inv, Homed
<1>4. Holds(h)'
  BY <1>1, <1>2, <1>3, ChunkIndexesType, Zenon DEF Holds, Static, Publishing, Writing
<1> QED BY <1>1, <1>2, <1>4, StaticMove, Zenon DEF Publishing

LEMMA CommitStep ==
    ASSUME Inv, NEW h \in Handlers, NEW s \in SessionIds, Commit(h, s)
    PROVE  Grows /\ Rest'
<1>1. Static /\ UNCHANGED <<open, base, buf, snap>>
  BY Zenon DEF Commit, Static, repo, store, session
<1>2. /\ pc'[h] = (IF dirty[s] = {} THEN "cmanifest" ELSE "cread")
      /\ on'[h] = s /\ todo'[h] = dirty[s] /\ man'[h] = base[s]
      /\ \A g \in Handlers \ {h} : Kept(g)
  BY <1>1, InvTyped, Zenon DEF Commit, Lookup, Goto, HandlerTypes, Kept
<1>3. home[s] \in Nodes /\ vol[s] \in Volumes
  BY Zenon DEF Commit, Lookup, Inv, Homed
<1>4. Holds(h)'
  BY <1>1, <1>2, <1>3, Zenon DEF Holds, Static, Publishing, Writing
<1> QED BY <1>1, <1>2, <1>4, StaticMove, Zenon DEF Publishing

LEMMA WriteResolveStep ==
    ASSUME Inv, NEW h \in Handlers, WriteResolve(h)
    PROVE  Grows /\ Rest'
<1>1. Static /\ UNCHANGED <<open, base, on, todo, man, snap>>
  BY Zenon DEF WriteResolve, Static, repo, store, session, aux
<1>2. Holds(h) /\ pc[h] = "wresolve"
  BY Zenon DEF WriteResolve, Inv, Control
<1>3. Min(todo[h]) \in Index /\ on[h] \in SessionIds /\ home[on[h]] \in Nodes
  BY <1>2, AtStep, Zenon DEF Writing
<1>4. PICK chunk \in Chunk :
          buf' = [buf EXCEPT ![h][Min(todo[h])] = Patch(req[h], Min(todo[h]), chunk)]
  BY <1>3, InvTyped, ResolveType, Zenon DEF WriteResolve
<1>5. Patch(req[h], Min(todo[h]), chunk) \in Chunk
  BY <1>3, InvTyped, PatchType, Zenon DEF HandlerTypes
<1>6. buf'[h][Min(todo[h])] \in Chunk /\ \A g \in Handlers \ {h} : buf'[g] = buf[g]
  BY <1>3, <1>4, <1>5, InvTyped, Zenon DEF HandlerTypes, Slots
<1>7. pc'[h] = "wopen" /\ \A g \in Handlers \ {h} : Kept(g)
  BY <1>1, <1>6, InvTyped, Zenon DEF WriteResolve, Goto, HandlerTypes, Kept
<1>8. Holds(h)'
  BY <1>1, <1>2, <1>6, <1>7, Zenon DEF Holds, Static, Publishing, Writing
<1> QED BY <1>1, <1>7, <1>8, StaticMove, Zenon DEF Publishing

LEMMA WriteOpenStep ==
    ASSUME Inv, NEW h \in Handlers, WriteOpen(h)
    PROVE  Grows /\ Rest'
<1>1. Static /\ UNCHANGED <<open, base, on, todo, buf, man, snap>>
  BY Zenon DEF WriteOpen, Static, repo, store, session, aux
<1>2. Holds(h) /\ pc[h] = "wopen"
  BY Zenon DEF WriteOpen, Inv, Control
<1>3. pc'[h] = "wdata" /\ \A g \in Handlers \ {h} : Kept(g)
  BY <1>1, InvTyped, Zenon DEF WriteOpen, Goto, HandlerTypes, Kept
<1>4. Holds(h)'
  BY <1>1, <1>2, <1>3, Zenon DEF Holds, Static, Publishing, Writing
<1> QED BY <1>1, <1>3, <1>4, StaticMove, Zenon DEF Publishing

LEMMA WriteDataStep ==
    ASSUME Inv, NEW h \in Handlers, WriteData(h)
    PROVE  Grows /\ Rest'
<1>1. Static /\ UNCHANGED <<open, base>>
  BY Zenon DEF WriteData, Static, repo, store
<1>2. CASE Leave(h)
  BY <1>1, <1>2, LeaveKeeps, StaticLeave, Zenon
<1>3. ASSUME NEW left, left # {}, Goto(h, "wresolve"), todo' = [todo EXCEPT ![h] = left],
             buf' = [buf EXCEPT ![h] = NoChunks], UNCHANGED <<on, man, snap>>
      PROVE  Grows /\ Rest'
  <2>1. Holds(h) /\ pc[h] = "wdata"
    BY Zenon DEF WriteData, Inv, Control
  <2>2. pc'[h] = "wresolve" /\ todo'[h] = left /\ \A g \in Handlers \ {h} : Kept(g)
    BY <1>3, InvTyped, Zenon DEF Goto, HandlerTypes, Kept
  <2>3. Holds(h)'
    BY <1>1, <1>3, <2>1, <2>2, Zenon DEF Holds, Static, Publishing, Writing
  <2> QED BY <1>1, <1>3, <2>2, <2>3, StaticMove, Zenon DEF Publishing
<1> QED BY <1>2, <1>3, Zenon DEF WriteData, Reply

LEMMA CommitReadStep ==
    ASSUME Inv, NEW h \in Handlers, CommitRead(h)
    PROVE  Grows /\ Rest'
<1>1. Static /\ UNCHANGED <<open, base, on, man, snap>>
  BY Zenon DEF CommitRead, Static, repo, store, session, aux
<1>2. Holds(h) /\ pc[h] = "cread"
  BY Zenon DEF CommitRead, Inv, Control
<1>3. PICK i \in Index : i = Min(todo[h])
  BY <1>2, AtStep, Zenon
<1>4. buf'[h][i] # None /\ \A g \in Handlers \ {h} : buf'[g] = buf[g]
  BY <1>3, InvTyped DEF CommitRead, HandlerTypes, Slots
<1>5. i \in Pending(h)'
  BY <1>4, Zenon DEF Pending
<1>6. /\ pc'[h] \in {"cput", "cread"}
      /\ pc'[h] = "cread" => todo'[h] # {}
      /\ \A g \in Handlers \ {h} : Kept(g)
  BY <1>1, <1>4, InvTyped, Zenon DEF CommitRead, Goto, HandlerTypes, Kept
<1>7. Holds(h)'
  BY <1>1, <1>2, <1>5, <1>6, Zenon DEF Holds, Static, Publishing, Writing
<1> QED BY <1>1, <1>6, <1>7, StaticMove, Zenon DEF Publishing

-----------------------------------------------------------------------------
(* Volumes and sessions come into being.                                   *)

LEMMA CreateVolumeStep ==
    ASSUME Inv, NEW v \in Volumes, NEW p \in SnapshotIds \cup {None}, CreateVolume(v, p)
    PROVE  Grows /\ Rest'
<1>1. UNCHANGED <<rows, chunks, manifests, pub, home, vol, open, base,
                  pc, on, todo, buf, snap, man>>
  BY Zenon DEF CreateVolume, store, session, locals, aux
<1>2. /\ latest'[v] = p /\ p # Absent /\ (p # None => rows[p] # None)
      /\ \A w \in Volumes \ {v} : latest'[w] = latest[w]
  BY InvTyped, SentinelsAssumption, Zenon DEF CreateVolume, RepoTypes
<1>3. Grows /\ \A g \in Handlers : Kept(g) /\ Unrecorded(g)
  BY <1>1, Zenon DEF Grows, Kept, Unrecorded
<1>4. Homed'
  BY <1>1, <1>2, InvTyped, Zenon DEF Inv, Homed, SessionTypes
<1>5. Durable'
  BY <1>1, <1>2, SentinelsAssumption, Zenon DEF Inv, Durable
<1> QED BY <1>3, <1>4, <1>5, HandlersLeave, Zenon DEF Rest

LEMMA StartSessionStep ==
    ASSUME Inv, NEW h \in Handlers, NEW s \in SessionIds, NEW n \in Nodes, NEW v \in Volumes,
           StartSession(h, s, n, v)
    PROVE  Grows /\ Rest'
<1>1. UNCHANGED <<latest, rows, chunks, manifests, pub, open, base, todo, buf, man>>
  BY Zenon DEF StartSession, repo, store, aux
<1>2. /\ pc'[h] = "sload" /\ on'[h] = s /\ snap'[h] = latest[v]
      /\ \A g \in Handlers \ {h} : Kept(g)
  BY <1>1, InvTyped, ZenonT(60) DEF StartSession, Goto, HandlerTypes, Kept
<1>3. /\ home[s] = None /\ home'[s] = n /\ vol'[s] = v /\ latest[v] # Absent
      /\ \A t \in SessionIds \ {s} : home'[t] = home[t] /\ vol'[t] = vol[t]
  BY InvTyped, Zenon DEF StartSession, SessionTypes
<1>4. Grows /\ \A g \in Handlers : Unrecorded(g)
  BY <1>1, <1>3, SentinelsAssumption, Zenon DEF Grows, Unrecorded
<1>5. Holds(h)'
  BY <1>2, <1>3, Zenon DEF Holds, Publishing, Writing
<1>6. Refers(h)'
  <2>1. Complete(man[h], chunks)
    BY Zenon DEF Inv, Control, Refers
  <2>2. latest[v] \in SnapshotIds => rows[latest[v]] # None
    BY Zenon DEF Inv, Durable
  <2>3. latest[v] \in SnapshotIds \cup {None}
    BY <1>3, InvTyped, Zenon DEF RepoTypes
  <2> QED BY <1>1, <1>2, <2>1, <2>2, <2>3, Zenon DEF Refers, Publishing
<1>7. Homed'
  BY <1>1, <1>3, Zenon DEF Inv, Homed
<1>8. Durable'
  BY <1>1, Zenon DEF Inv, Durable
<1>9. Control' /\ Distinct'
  BY <1>2, <1>4, <1>5, <1>6, HandlersStep, Zenon DEF Publishing
<1> QED BY <1>4, <1>7, <1>8, <1>9, Zenon DEF Rest

LEMMA StartLoadStep ==
    ASSUME Inv, NEW h \in Handlers, StartLoad(h)
    PROVE  Grows /\ Rest'
<1>1. Static /\ Leave(h) /\ open' = open \cup {on[h]}
  BY Zenon DEF StartLoad, Static, Reply, store
<1>2. Gone(h) /\ \A g \in Handlers \ {h} : Kept(g)
  BY <1>1, LeaveKeeps, Zenon
<1>3. on[h] \in SessionIds /\ home[on[h]] \in Nodes /\ vol[on[h]] \in Volumes
  BY AtStep, Zenon DEF StartLoad
<1>4. Complete(IF snap[h] = None THEN NoManifest ELSE manifests[snap[h]], chunks)
  <2>1. snap[h] \in SnapshotIds \cup {None}
    BY InvTyped, Zenon DEF HandlerTypes
  <2> QED BY <2>1, CompleteEmpty, Zenon DEF StartLoad, Loadable, Inv, Durable
<1>5. \A s \in SessionIds : Complete(base'[s], chunks)
  <2>1. PICK m : /\ m = IF snap[h] = None THEN NoManifest ELSE manifests[snap[h]]
                 /\ base' = [base EXCEPT ![on[h]] = m]
    BY Zenon DEF StartLoad
  <2>2. \A s \in SessionIds : base'[s] = base[s] \/ base'[s] = m
    BY <1>3, <2>1, InvTyped, Zenon DEF SessionTypes
  <2> QED BY <1>4, <2>1, <2>2, Zenon DEF Inv, Durable
<1>6. Homed'
  BY <1>1, <1>3, Zenon DEF Inv, Homed, Static
<1>7. Durable'
  BY <1>1, <1>5, Zenon DEF Inv, Durable, Static
<1> QED BY <1>1, <1>2, <1>6, <1>7, StaticGrows, HandlersLeave, Zenon DEF Rest

-----------------------------------------------------------------------------
(* The remote calls of a commit, whether or not it goes on after them.     *)

Placed == UNCHANGED <<open, home, vol>>

LEMMA UploadKeeps ==
    ASSUME Inv, Placed, NEW h \in Handlers, NEW chunk \in Chunk, UploadChunk(h, chunk)
    PROVE  /\ Grows /\ Homed' /\ Durable'
           /\ \A g \in Handlers : Unrecorded(g)
           /\ HashChunk(chunk) \in ChunkIds /\ chunks'[HashChunk(chunk)] # None
<1>1. PICK id \in ChunkIds : id = HashChunk(chunk)
  BY HashChunkType, Zenon
<1>2. /\ chunks' = [chunks EXCEPT ![id] = IF chunks[id] = None THEN chunk ELSE chunks[id]]
      /\ UNCHANGED <<latest, rows, manifests, base, pub>>
  BY <1>1, Zenon DEF UploadChunk, repo, aux
<1>3. chunks'[id] # None /\ \A k \in ChunkIds : chunks[k] # None => chunks'[k] = chunks[k]
  BY <1>2, InvTyped, SentinelsAssumption, Zenon DEF StoreTypes
<1>4. Grows /\ \A g \in Handlers : Unrecorded(g)
  BY <1>2, <1>3, Zenon DEF Placed, Grows, Unrecorded
<1>5. \A m \in Manifest : Complete(m, chunks) => Complete(m, chunks')
  <2>1. \A k \in ChunkIds : chunks[k] # None => chunks'[k] # None
    BY <1>3, Zenon
  <2> QED BY <2>1, CompleteGrows, Zenon
<1>6. Homed'
  BY <1>2, Zenon DEF Inv, Homed, Placed
<1>7. Durable'
  <2>1. /\ \A s \in SessionIds : base[s] \in Manifest
        /\ \A p \in SnapshotIds : manifests[p] # None => manifests[p] \in Manifest
    BY InvTyped, Zenon DEF SessionTypes, StoreTypes
  <2> QED BY <1>2, <1>5, <2>1, Zenon DEF Inv, Durable
<1> QED BY <1>1, <1>3, <1>4, <1>6, <1>7, Zenon

LEMMA SaveKeeps ==
    ASSUME Inv, Placed, NEW h \in Handlers, NEW p \in SnapshotIds, saveManifest(h, p)
    PROVE  /\ Grows /\ Homed' /\ Durable'
           /\ \A g \in Handlers : Unrecorded(g)
           /\ manifests'[p] # None /\ rows'[p] = None
<1>1. pc[h] = "cmanifest" /\ manifests[p] = None /\ UNCHANGED <<latest, rows, chunks, base>>
  BY Zenon DEF saveManifest, repo
<1>2. /\ manifests'[p] = man[h] /\ man[h] \in Manifest /\ pub'[p] \in Told
      /\ \A q \in SnapshotIds \ {p} : manifests'[q] = manifests[q] /\ pub'[q] = pub[q]
  <2>1. manifests' = [manifests EXCEPT ![p] = man[h]] /\ man[h] \in Manifest
    BY InvTyped, Zenon DEF saveManifest, HandlerTypes
  <2>2. PICK t \in Told : pub' = [pub EXCEPT ![p] = t]
    <3>1. said[on[h]] \in Told
      BY <1>1, AtStep, InvTyped, Zenon DEF AuxTypes
    <3> QED BY <3>1, ZeroData, Zenon DEF saveManifest
  <2> QED BY <2>1, <2>2, InvTyped, Zenon DEF StoreTypes, AuxTypes
<1>3. Complete(man[h], chunks)
  BY Zenon DEF Inv, Control, Refers
<1>4. Grows /\ \A g \in Handlers : Unrecorded(g)
  BY <1>1, <1>2, Zenon DEF Placed, Grows, Unrecorded
<1>5. Homed'
  BY <1>1, Zenon DEF Inv, Homed, Placed
<1>6. manifests'[p] # None /\ rows'[p] = None
  BY <1>1, <1>2, SentinelsAssumption, Zenon DEF Inv, Durable
<1>7. Durable'
  BY <1>1, <1>2, <1>3, <1>6, Zenon DEF Inv, Durable
<1> QED BY <1>4, <1>5, <1>6, <1>7, Zenon

LEMMA RecordKeeps ==
    ASSUME Inv, Placed, NEW h \in Handlers, CreateSnapshot(h)
    PROVE  /\ Grows /\ Homed' /\ Durable'
           /\ \A g \in Handlers \ {h} : Unrecorded(g)
           /\ rows'[snap[h]] = vol[on[h]]
<1>1. pc[h] = "crecord" /\ UNCHANGED <<latest, chunks, manifests, base, pub>>
  BY Zenon DEF CreateSnapshot, store, aux
<1>2. snap[h] \in SnapshotIds /\ vol[on[h]] \in Volumes
  BY <1>1, AtStep, Zenon DEF Publishing
<1>3. manifests[snap[h]] # None /\ rows[snap[h]] = None
  BY <1>1, Zenon DEF Inv, Control, Refers, Publishing
<1>4. /\ rows'[snap[h]] = vol[on[h]]
      /\ \A q \in SnapshotIds \ {snap[h]} : rows'[q] = rows[q]
  BY <1>2, InvTyped, Zenon DEF CreateSnapshot, RepoTypes
<1>5. Grows
  BY <1>1, <1>3, <1>4, Zenon DEF Placed, Grows
<1>6. ASSUME NEW g \in Handlers \ {h} PROVE Unrecorded(g)
  <2>1. pc[g] = "crecord" => snap[g] \in SnapshotIds \ {snap[h]}
    BY <1>1, AtStep, Zenon DEF Inv, Distinct, Publishing
  <2> QED BY <1>4, <2>1, Zenon DEF Unrecorded
<1>7. Homed'
  BY <1>1, Zenon DEF Inv, Homed, Placed
<1>8. Durable'
  BY <1>1, <1>3, <1>4, <1>5, Zenon DEF Inv, Durable, Grows
<1> QED BY <1>4, <1>5, <1>6, <1>7, <1>8, Zenon

LEMMA PointKeeps ==
    ASSUME Inv, Placed, NEW h \in Handlers, UpdateLatestSnapshot(h),
           \A s \in SessionIds : base'[s] = base[s] \/ base'[s] = man[h]
    PROVE  /\ Grows /\ Homed' /\ Durable'
           /\ \A g \in Handlers : Unrecorded(g)
<1>1. pc[h] = "cpoint" /\ UNCHANGED <<rows, chunks, manifests, pub>>
  BY Zenon DEF UpdateLatestSnapshot, store, aux
<1>2. snap[h] \in SnapshotIds /\ vol[on[h]] \in Volumes
  BY <1>1, AtStep, Zenon DEF Publishing
<1>3. rows[snap[h]] # None /\ Complete(man[h], chunks)
  BY <1>1, <1>2, SentinelsAssumption, Zenon DEF Inv, Control, Refers
<1>4. /\ latest'[vol[on[h]]] = snap[h]
      /\ \A v \in Volumes \ {vol[on[h]]} : latest'[v] = latest[v]
  BY <1>2, InvTyped, Zenon DEF UpdateLatestSnapshot, RepoTypes
<1>5. Grows /\ \A g \in Handlers : Unrecorded(g)
  BY <1>1, Zenon DEF Placed, Grows, Unrecorded
<1>6. Homed'
  BY <1>2, <1>4, InvTyped, SentinelsAssumption, Zenon DEF Inv, Homed, Placed, SessionTypes
<1>7. Durable'
  BY <1>1, <1>3, <1>4, Zenon DEF Inv, Durable
<1> QED BY <1>5, <1>6, <1>7, Zenon

LEMMA CommitPutStep ==
    ASSUME Inv, NEW h \in Handlers, CommitPut(h)
    PROVE  Grows /\ Rest'
<1>1. Placed /\ UNCHANGED <<on, todo, snap>> /\ UploadChunk(h, buf[h][Min(Pending(h))])
  BY Zenon DEF CommitPut, Placed
<1>2. PICK i \in Pending(h) \cap Index, chunk \in Chunk :
          i = Min(Pending(h)) /\ chunk = buf[h][i]
  BY <1>1, AtStep, Zenon DEF UploadChunk
<1>3. PICK id : id = HashChunk(chunk)
  BY Zenon
<1>4. /\ Grows /\ Homed' /\ Durable' /\ \A g \in Handlers : Unrecorded(g)
      /\ id \in ChunkIds /\ chunks'[id] # None
  BY <1>1, <1>2, <1>3, UploadKeeps, Zenon
<1>5. /\ man' = [man EXCEPT ![h] = [man[h] EXCEPT ![i] = id]]
      /\ buf' = [buf EXCEPT ![h] = [buf[h] EXCEPT ![i] = None]]
      /\ pc' = [pc EXCEPT ![h] = IF Pending(h) # {i} THEN "cput"
                                 ELSE IF todo[h] # {} THEN "cread" ELSE "cmanifest"]
  BY <1>2, <1>3, Zenon DEF CommitPut, Goto
<1>6. /\ man'[h] = [man[h] EXCEPT ![i] = id]
      /\ buf'[h] = [buf[h] EXCEPT ![i] = None]
      /\ pc'[h] \in {"cput", "cread", "cmanifest"}
      /\ pc'[h] = "cput" => Pending(h) # {i}
      /\ pc'[h] = "cread" => todo[h] # {}
      /\ \A g \in Handlers \ {h} : Kept(g)
  BY <1>1, <1>5, InvTyped, ZenonT(60) DEF HandlerTypes, Kept
<1>7. Holds(h)'
  <2>1. \A j \in Pending(h) \ {i} : j \in Pending(h)'
    BY <1>6, InvTyped, Zenon DEF Pending, HandlerTypes, Slots
  <2>2. pc'[h] = "cput" => Pending(h)' # {}
    BY <1>2, <1>6, <2>1, Zenon
  <2>3. Holds(h) /\ pc[h] = "cput"
    BY <1>1, Zenon DEF Inv, Control, UploadChunk
  <2> QED BY <1>1, <1>6, <2>2, <2>3, Zenon DEF Holds, Placed, Publishing, Writing
<1>8. Refers(h)'
  <2>1. Complete(man[h], chunks) /\ man[h] \in Manifest
    BY InvTyped, Zenon DEF Inv, Control, Refers, HandlerTypes
  <2>2. \A k \in ChunkIds : chunks[k] # None => chunks'[k] # None
    BY <1>4, Zenon DEF Grows
  <2>3. Complete([man[h] EXCEPT ![i] = id], chunks')
    BY <1>2, <1>4, <2>1, <2>2, CompleteGrows, Zenon
  <2> QED BY <1>6, <2>3, Zenon DEF Refers, Publishing
<1>9. Control' /\ Distinct'
  BY <1>4, <1>6, <1>7, <1>8, HandlersStep, Zenon DEF Publishing
<1> QED BY <1>4, <1>9, Zenon DEF Rest

LEMMA CommitManifestStep ==
    ASSUME Inv, NEW h \in Handlers, NEW p \in SnapshotIds, CommitManifest(h, p)
    PROVE  Grows /\ Rest'
<1>1. Placed /\ UNCHANGED <<on, todo, buf, man>> /\ saveManifest(h, p)
  BY Zenon DEF CommitManifest, Placed
<1>2. /\ Grows /\ Homed' /\ Durable' /\ \A g \in Handlers : Unrecorded(g)
      /\ manifests'[p] # None /\ rows'[p] = None
  BY <1>1, SaveKeeps, Zenon
<1>3. pc'[h] = "crecord" /\ snap'[h] = p /\ \A g \in Handlers \ {h} : Kept(g)
  BY <1>1, InvTyped, Zenon DEF CommitManifest, Goto, HandlerTypes, Kept
<1>4. Holds(h) /\ Refers(h) /\ pc[h] = "cmanifest" /\ manifests[p] = None /\ UNCHANGED chunks
  BY <1>1, Zenon DEF Inv, Control, saveManifest
<1>5. Holds(h)' /\ Refers(h)'
  BY <1>1, <1>2, <1>3, <1>4, Zenon DEF Holds, Refers, Placed, Publishing, Writing
<1>6. \A g \in Handlers \ {h} : pc[g] \in Publishing => snap[g] # snap'[h]
  BY <1>3, <1>4, Zenon DEF Inv, Control, Refers
<1> QED BY <1>2, <1>3, <1>5, <1>6, HandlersStep, Zenon DEF Rest

LEMMA CommitRecordStep ==
    ASSUME Inv, NEW h \in Handlers, CommitRecord(h)
    PROVE  Grows /\ Rest'
<1>1. Placed /\ UNCHANGED <<on, todo, buf, man, snap, chunks, manifests>> /\ CreateSnapshot(h)
  BY Zenon DEF CommitRecord, Placed, locals, CreateSnapshot, store
<1>2. /\ Grows /\ Homed' /\ Durable' /\ \A g \in Handlers \ {h} : Unrecorded(g)
      /\ rows'[snap[h]] = vol[on[h]]
  BY <1>1, RecordKeeps, Zenon
<1>3. pc'[h] = "cpoint" /\ \A g \in Handlers \ {h} : Kept(g)
  BY <1>1, InvTyped, Zenon DEF CommitRecord, Goto, HandlerTypes, Kept
<1>4. Holds(h) /\ Refers(h) /\ pc[h] = "crecord"
  BY <1>1, Zenon DEF Inv, Control, CreateSnapshot
<1>5. Holds(h)' /\ Refers(h)'
  BY <1>1, <1>2, <1>3, <1>4, Zenon DEF Holds, Refers, Placed, Publishing, Writing
<1>6. \A g \in Handlers \ {h} : pc[g] \in Publishing => snap[g] # snap'[h]
  BY <1>1, <1>4, Zenon DEF Inv, Distinct, Publishing
<1> QED BY <1>2, <1>3, <1>5, <1>6, HandlersStep, Zenon DEF Rest

LEMMA CommitPointStep ==
    ASSUME Inv, NEW h \in Handlers, CommitPoint(h)
    PROVE  Grows /\ Rest'
<1>1. /\ Placed /\ UNCHANGED <<on, todo, buf, man, snap, rows, chunks, manifests>>
      /\ UpdateLatestSnapshot(h) /\ pc[h] = "cpoint"
  BY Zenon DEF CommitPoint, Placed, locals, UpdateLatestSnapshot, store
<1>2. \A s \in SessionIds : base'[s] = base[s] \/ base'[s] = man[h]
  BY InvTyped, Zenon DEF CommitPoint, SessionTypes
<1>3. Grows /\ Homed' /\ Durable' /\ \A g \in Handlers : Unrecorded(g)
  BY <1>1, <1>2, PointKeeps, Zenon
<1>4. pc'[h] = "cclear" /\ \A g \in Handlers \ {h} : Kept(g)
  BY <1>1, InvTyped, Zenon DEF CommitPoint, Goto, HandlerTypes, Kept
<1>5. Holds(h) /\ Refers(h)
  BY Zenon DEF Inv, Control
<1>6. Holds(h)' /\ Refers(h)'
  BY <1>1, <1>4, <1>5, Zenon DEF Holds, Refers, Placed, Publishing, Writing
<1>7. \A g \in Handlers \ {h} : pc[g] \in Publishing => snap[g] # snap'[h]
  BY <1>1, Zenon DEF Inv, Distinct, Publishing
<1> QED BY <1>3, <1>4, <1>6, <1>7, HandlersStep, Zenon DEF Rest

LEMMA CommitErrorStep ==
    ASSUME Inv, NEW h \in Handlers, CommitError(h)
    PROVE  Grows /\ Rest'
<1>1. Placed /\ Leave(h)
  BY Zenon DEF CommitError, Placed, Reply
<1>2. Gone(h) /\ \A g \in Handlers \ {h} : Kept(g)
  BY <1>1, LeaveKeeps, Zenon
<1>3. CASE UNCHANGED <<repo, store, cache, base, aux>>
  BY <1>3, LeaveSteps, Zenon
<1>4. CASE Grows /\ Homed' /\ Durable' /\ \A g \in Handlers \ {h} : Unrecorded(g)
  BY <1>2, <1>4, HandlersLeave, Zenon DEF Rest
<1>5. ASSUME NEW i \in Pending(h), i = Min(Pending(h)), UploadChunk(h, buf[h][i])
      PROVE  Grows /\ Rest'
  <2>1. buf[h][i] \in Chunk
    BY <1>5, AtStep, Zenon DEF UploadChunk
  <2> QED BY <1>1, <1>4, <1>5, <2>1, UploadKeeps, Zenon
<1>6. ASSUME NEW p \in SnapshotIds, saveManifest(h, p) PROVE Grows /\ Rest'
  BY <1>1, <1>4, <1>6, SaveKeeps, Zenon
<1>7. CASE CreateSnapshot(h)
  BY <1>1, <1>4, <1>7, RecordKeeps, Zenon
<1>8. CASE UpdateLatestSnapshot(h) /\ UNCHANGED base
  BY <1>1, <1>4, <1>8, PointKeeps, Zenon
<1> QED BY <1>3, <1>5, <1>6, <1>7, <1>8, Zenon DEF CommitError

-----------------------------------------------------------------------------
(* Theorems.                                                               *)

LEMMA RestStep == Inv /\ [Next]_vars => Grows /\ Rest'
<1>1. ASSUME Inv, UNCHANGED vars PROVE Grows /\ Rest'
  <2>1. Static /\ UNCHANGED <<open, base, pc, on, todo, buf, snap, man>>
    BY <1>1, Zenon DEF vars, Static, repo, store, session, locals, aux
  <2> QED BY <1>1, <2>1, StaticLeave, Zenon DEF Kept
<1>2. ASSUME Inv, Step PROVE Grows /\ Rest'
  BY <1>2, CreateVolumeStep, StopSteps, ReadStep, StartSessionStep, WriteStep, CommitStep,
     StartLoadStep, LeaveSteps, WriteResolveStep, WriteOpenStep, WriteDataStep, CommitReadStep,
     CommitPutStep, CommitManifestStep, CommitRecordStep, CommitPointStep, CommitErrorStep,
     CrashStep, Zenon DEF Step
<1> QED BY <1>1, <1>2, NextSteps, Zenon

LEMMA InvStep == Inv /\ [Next]_vars => Inv'
BY TypeStep, RestStep, Zenon DEF Inv, Rest

LEMMA InvAlways == Safe => []Inv
BY InitInv, InvStep, PTL DEF Safe

\* The fields of Backend, Session and the handlers, and the rows and objects
\* they read and write, keep their types whatever interleaves or fails.
THEOREM TypeCorrect == Safe => []TypeOK
<1>1. Inv => TypeOK
  BY Zenon DEF Inv
<1> QED BY <1>1, InvAlways, PTL

\* Whatever call of CommitWithOptions fails, and wherever a node crashes, the
\* latest snapshot of every volume can be restored in full, and so can the
\* one that a StartSession is about to load.
THEOREM DurableClosureHolds == Safe => []DurableClosure
<1>1. Inv => DurableClosure
  <2> SUFFICES ASSUME Inv PROVE DurableClosure
    BY Zenon
  <2>1. \A p \in SnapshotIds : rows[p] # None => Restorable(p)
    BY Zenon DEF Inv, Durable, Restorable, Complete, Stored
  <2>2. Restorable(None)
    BY Zenon DEF Restorable
  <2>3. \A v \in Volumes : latest[v] # Absent => Restorable(latest[v])
    BY <2>1, <2>2, InvTyped, Zenon DEF Inv, RepoTypes, Durable
  <2>4. \A h \in Handlers : pc[h] = "sload" => Restorable(snap[h])
    BY <2>1, <2>2, InvTyped, Zenon DEF Inv, HandlerTypes, Control, Refers
  <2> QED BY <2>3, <2>4, Zenon DEF DurableClosure
<1> QED BY <1>1, InvAlways, PTL

\* resolveChunk never turns a chunk that a session's manifest names into
\* zeroes because its object is missing.
THEOREM NoSilentZeroHolds == Safe => []NoSilentZero
<1>1. Inv => NoSilentZero
  BY InvTyped, Zenon DEF Inv, SessionTypes, Control, Refers, Durable, NoSilentZero, Complete, Stored
<1> QED BY <1>1, InvAlways, PTL

-----------------------------------------------------------------------------
(* Backend implements SnapshotStore.                                       *)

\* What one step may do to the metadata.
RepositoryStep ==
    \/ UNCHANGED <<latest, rows>>
    \/ \E v \in Volumes, p \in SnapshotIds \cup {None} : CreateVolume(v, p)
    \/ \E h \in Handlers : CreateSnapshot(h) \/ UpdateLatestSnapshot(h)

LEMMA StepEffects == Inv /\ [Next]_vars => Grows /\ RepositoryStep
<1> SUFFICES ASSUME Inv, Step PROVE RepositoryStep
  <2>1. UNCHANGED vars => RepositoryStep
    BY Zenon DEF vars, repo, RepositoryStep
  <2> QED BY <2>1, NextSteps, RestStep, Zenon
<1>1. ASSUME NEW s \in SessionIds, Stop(s) \/ StopError(s) \/ \E i \in Index : Read(s, i)
      PROVE  UNCHANGED <<latest, rows>>
  BY <1>1, Zenon DEF Stop, StopError, Read, repo
<1>2. ASSUME NEW h \in Handlers, NEW s \in SessionIds,
             \/ \E n \in Nodes, v \in Volumes : StartSession(h, s, n, v)
             \/ \E r \in Requests : Write(h, s, r)
             \/ Commit(h, s)
      PROVE  UNCHANGED <<latest, rows>>
  BY <1>2, Zenon DEF StartSession, Write, Commit, repo
<1>3. ASSUME NEW h \in Handlers, StartLoad(h) \/ StartError(h)
      PROVE  UNCHANGED <<latest, rows>>
  BY <1>3, Zenon DEF StartLoad, StartError
<1>4. ASSUME NEW h \in Handlers,
             \/ WriteResolve(h) \/ WriteOpen(h) \/ WriteData(h) \/ WriteError(h)
             \/ \E n \in 0 .. ChunkSize - 1 : WriteTorn(h, n)
      PROVE  UNCHANGED <<latest, rows>>
  BY <1>4, Zenon DEF WriteResolve, WriteOpen, WriteData, WriteError, WriteTorn, repo
<1>5. ASSUME NEW h \in Handlers,
             \/ CommitRead(h) \/ CommitPut(h) \/ CommitClear(h) \/ CommitClearError(h)
             \/ \E p \in SnapshotIds : CommitManifest(h, p)
      PROVE  UNCHANGED <<latest, rows>>
  BY <1>5, Zenon DEF CommitRead, CommitPut, UploadChunk, CommitClear, CommitClearError,
                     CommitManifest, saveManifest, repo
<1>6. ASSUME NEW h \in Handlers, CommitRecord(h) \/ CommitPoint(h) \/ CommitError(h)
      PROVE  UNCHANGED <<latest, rows>> \/ CreateSnapshot(h) \/ UpdateLatestSnapshot(h)
  BY <1>6, Zenon DEF CommitRecord, CommitPoint, CommitError, UploadChunk, saveManifest, repo
<1>7. ASSUME NEW n \in Nodes, Crash(n) PROVE UNCHANGED <<latest, rows>>
  BY <1>7, Zenon DEF Crash, repo
<1> QED BY <1>1, <1>2, <1>3, <1>4, <1>5, <1>6, <1>7, Zenon DEF Step, RepositoryStep

-----------------------------------------------------------------------------
(* Images.                                                                 *)

\* The image of a complete manifest is a volume's content, and stays.
LEMMA ImageKept ==
    ASSUME Inv, Grows, NEW m \in Manifest, Complete(m, chunks)
    PROVE  Image(m) \in [Index -> Chunk] /\ Image(m)' = Image(m)
<1>1. \A i \in Index : m[i] # None => /\ chunks[m[i]] \in Chunk
                                      /\ chunks'[m[i]] = chunks[m[i]]
  <2>1. \A i \in Index : m[i] # None => m[i] \in ChunkIds /\ chunks[m[i]] # None
    BY Zenon DEF Manifest, Complete
  <2> QED BY <2>1, InvTyped DEF StoreTypes, Grows
<1> QED BY <1>1, ZeroData, Zenon DEF Image

\* A recorded snapshot stays as it is.
LEMMA SnapshotKept ==
    ASSUME Inv, Grows, NEW p \in SnapshotIds, rows[p] # None, rows'[p] = rows[p]
    PROVE  snapshots'[p] = snapshots[p] /\ snapshots[p] # None /\ snapshots[p].volume = rows[p]
<1>1. manifests[p] \in Manifest /\ Complete(manifests[p], chunks) /\ rows[p] \in Volumes
  BY InvTyped, Zenon DEF RepoTypes, StoreTypes, Inv, Durable
<1>2. manifests'[p] = manifests[p]
  BY <1>1, SentinelsAssumption, Zenon DEF Grows
<1>3. PICK m \in Manifest : m = manifests[p]
  BY <1>1, Zenon
<1>4. Image(m) \in [Index -> Chunk] /\ Image(m)' = Image(m)
  BY <1>1, <1>3, ImageKept, Zenon
<1>5. /\ Image(manifests[p]) = Image(m)
      /\ Image(manifests[p])' = Image(m)'
  BY <1>2, <1>3, Zenon DEF Image
<1>6. [volume |-> rows[p], image |-> Image(m)] # None
  BY <1>1, <1>4, SentinelsAssumption
<1>7. snapshots[p] = [volume |-> rows[p], image |-> Image(m)]
  BY <1>5, Zenon DEF snapshots
<1>8. snapshots'[p] = [volume |-> rows[p], image |-> Image(m)]
  BY <1>4, <1>5, Zenon DEF snapshots
<1> QED BY <1>6, <1>7, <1>8

LEMMA SnapshotsKept ==
    ASSUME Inv, Grows, NEW S \in SUBSET SnapshotIds, \A p \in S : rows'[p] = rows[p]
    PROVE  \A p \in S : snapshots'[p] = snapshots[p]
<1> SUFFICES ASSUME NEW p \in S PROVE snapshots'[p] = snapshots[p]
  BY Zenon
<1>1. CASE rows[p] # None
  BY <1>1, SnapshotKept, Zenon
<1>2. CASE rows[p] = None
  BY <1>2, Zenon DEF snapshots
<1> QED BY <1>1, <1>2, Zenon

-----------------------------------------------------------------------------
(* Refinement.                                                             *)

LEMMA AbstractInit == Init => Abstract!Init
BY Zenon DEF Init, Abstract!Init, snapshots

\* The three calls are the three actions of the snapshot store.
LEMMA AbstractCreateVolume ==
    ASSUME Inv, Grows, NEW v \in Volumes, NEW p \in SnapshotIds \cup {None},
           CreateVolume(v, p)
    PROVE  Abstract!Next
<1>1. UNCHANGED rows
  BY Zenon DEF CreateVolume
<1>2. UNCHANGED snapshots
  <2>1. \A q \in SnapshotIds : snapshots'[q] = snapshots[q]
    BY <1>1, SnapshotsKept, Zenon
  <2> QED BY <2>1, Zenon DEF snapshots
<1>3. p # None => snapshots[p] # None
  BY <1>1, SnapshotKept, Zenon DEF CreateVolume
<1>4. Abstract!CreateVolume(v, p)
  BY <1>2, <1>3, Zenon DEF CreateVolume, Abstract!CreateVolume
<1> QED BY <1>4, Zenon DEF Abstract!Next

LEMMA AbstractCreateSnapshot ==
    ASSUME Inv, Grows, NEW h \in Handlers, CreateSnapshot(h)
    PROVE  Abstract!Next
<1>1. PICK p \in SnapshotIds, v \in Volumes :
          p = snap[h] /\ v = vol[on[h]] /\ rows[p] = None /\ latest[v] # Absent
  <2>1. on[h] \in SessionIds /\ snap[h] \in SnapshotIds /\ vol[on[h]] \in Volumes
    BY AtStep, Zenon DEF CreateSnapshot, Publishing
  <2> QED BY <2>1, SentinelsAssumption, Zenon DEF CreateSnapshot, Inv, Control, Refers, Homed
<1>2. manifests[p] \in Manifest /\ Complete(manifests[p], chunks)
  BY <1>1, InvTyped, Zenon DEF CreateSnapshot, StoreTypes, Inv, Control, Refers, Publishing, Durable
<1>3. rows' = [rows EXCEPT ![p] = v] /\ UNCHANGED <<latest, chunks, manifests>>
  BY <1>1, Zenon DEF CreateSnapshot, store
<1>4. PICK image \in [Index -> Chunk] : image = Image(manifests[p])
  <2>1. PICK m \in Manifest : m = manifests[p]
    BY <1>2, Zenon
  <2> QED BY <1>2, <2>1, ImageKept, Zenon
<1>5. Image(manifests[p])' = Image(manifests[p])
  BY <1>3, Zenon DEF Image
<1>6. snapshots[p] = None
  BY <1>1, Zenon DEF snapshots
<1>7. rows'[p] = v /\ v # None
  BY <1>1, <1>3, InvTyped, SentinelsAssumption, Zenon DEF RepoTypes
<1>8. snapshots'[p] = [volume |-> v, image |-> image]
  BY <1>1, <1>4, <1>5, <1>7, Zenon DEF snapshots
<1>9. \A q \in SnapshotIds \ {p} : snapshots'[q] = snapshots[q]
  <2>1. \A q \in SnapshotIds \ {p} : rows'[q] = rows[q]
    BY <1>3, InvTyped, Zenon DEF RepoTypes
  <2> QED BY <2>1, SnapshotsKept, ZenonT(60)
<1>10. snapshots' = [snapshots EXCEPT ![p] = [volume |-> v, image |-> image]]
  <2>1. /\ snapshots = [q \in SnapshotIds |-> snapshots[q]]
        /\ snapshots' = [q \in SnapshotIds |-> snapshots'[q]]
    BY Zenon DEF snapshots
  <2> QED BY <1>1, <1>8, <1>9, <2>1, Zenon
<1>11. Abstract!CreateSnapshot(p, v, image)
  BY <1>1, <1>3, <1>6, <1>10, Zenon DEF Abstract!CreateSnapshot
<1> QED BY <1>1, <1>11, Zenon DEF Abstract!Next

LEMMA AbstractUpdate ==
    ASSUME Inv, Grows, NEW h \in Handlers, UpdateLatestSnapshot(h)
    PROVE  Abstract!Next
<1> DEFINE p == snap[h]
           v == vol[on[h]]
<1>1. p \in SnapshotIds /\ v \in Volumes /\ rows[p] = v /\ on[h] \in SessionIds
  BY AtStep, Zenon DEF UpdateLatestSnapshot, Inv, Control, Refers, Publishing
<1>2. latest[v] # Absent /\ v # None
  BY <1>1, SentinelsAssumption, Zenon DEF Inv, Homed
<1>3. latest' = [latest EXCEPT ![v] = p] /\ UNCHANGED rows
  BY Zenon DEF UpdateLatestSnapshot
<1> HIDE DEF p, v
<1>4. snapshots[p] # None /\ snapshots[p].volume = v
  BY <1>1, <1>2, <1>3, SnapshotKept, Zenon
<1>5. UNCHANGED snapshots
  <2>1. \A q \in SnapshotIds : snapshots'[q] = snapshots[q]
    BY <1>3, SnapshotsKept, Zenon
  <2> QED BY <2>1, Zenon DEF snapshots
<1>6. Abstract!UpdateLatestSnapshot(v, p)
  BY <1>2, <1>3, <1>4, <1>5, Zenon DEF Abstract!UpdateLatestSnapshot
<1> QED BY <1>1, <1>6, Zenon DEF Abstract!Next

LEMMA AbstractStep == Inv /\ [Next]_vars => [Abstract!Next]_(Abstract!vars)
<1> SUFFICES ASSUME Inv, [Next]_vars PROVE Abstract!Next \/ UNCHANGED <<snapshots, latest>>
  BY Zenon DEF Abstract!vars
<1>1. Grows /\ RepositoryStep
  BY StepEffects, Zenon
<1>2. CASE UNCHANGED <<latest, rows>>
  <2>1. \A q \in SnapshotIds : snapshots'[q] = snapshots[q]
    BY <1>1, <1>2, SnapshotsKept, Zenon
  <2> QED BY <1>2, <2>1, Zenon DEF snapshots
<1> QED BY <1>1, <1>2, AbstractCreateVolume, AbstractCreateSnapshot, AbstractUpdate, Zenon
        DEF RepositoryStep

\* The handlers of Backend, interleaved and failing in any way, show callers
\* of the repository nothing but steps of the snapshot store: snapshots appear
\* complete, never change, and pointers move only to the volume's own.
THEOREM Refinement == Safe => ImplementsSnapshotStore
BY AbstractInit, AbstractStep, InvAlways, PTL DEF Safe, ImplementsSnapshotStore, Abstract!Spec

-----------------------------------------------------------------------------
(***************************************************************************)
(* What a session acknowledged is what it shows and what its snapshots     *)
(* hold: the invariant Exact.                                              *)
(*                                                                         *)
(* The argument follows one chunk at a time.  Between requests the chunk   *)
(* that a session shows matches what was acknowledged (Shows).  A write    *)
(* leaves the chunks it has finished as they will be acknowledged, and     *)
(* the others as they would be if it failed now (Patched); a commit has    *)
(* each chunk in its manifest, in memory, or still in the overlay          *)
(* (Gathered).  All of it is said of sessions whose requests came one at a *)
(* time, so that the request that moves is the only one there (Solo).      *)
(*                                                                         *)
(* Here: what steps leave alone, and the steps of no request.              *)
(* BackendExact has the steps of requests, and the theorems.               *)
(***************************************************************************)

Drained == {"cmanifest"} \cup Publishing
Committing == {"cread", "cput"} \cup Drained

\* A request that is over has no session and no chunks; a commit that has come
\* to its manifest has put every chunk.
Tidy(h) ==
    /\ pc[h] = "idle" => on[h] = None
    /\ pc[h] \in {"idle"} \cup Drained => \A i \in Index : buf[h][i] = None
    /\ pc[h] \in Drained => todo[h] = {}

\* Requests that share a session are known to overlap.
Solo == \A g, h \in Handlers : g # h /\ on[g] = on[h] /\ on[g] # None => on[g] \in overlapped

\* A session id that was not yet used is that of an empty session.
Unused(s) == home[s] = None => s \notin open \cup overlapped /\ dirty[s] = {}

\* Objects and cache entries are what their name says.
Addressed ==
    /\ \A k \in ChunkIds : chunks[k] # None => HashChunk(chunks[k]) = k
    /\ \A n \in Nodes, k \in ChunkIds : cache[n][k] # None => HashChunk(cache[n][k]) = k

\* The image of manifest m over the objects c.
Content(m, c) == [i \in Index |-> IF m[i] = None THEN ZeroChunk ELSE c[m[i]]]

\* Chunk i of session s, whatever the cache does.
Shown(s, i) ==
    IF i \in dirty[s] /\ files[s][i] # None THEN files[s][i] ELSE Content(base[s], chunks)[i]

Shows(s) == \A i \in Index : Matches(said[s][i], Shown(s, i))

\* The told bytes t of chunk i, but for those that request r asks to write.
Blur(r, i, t) == [o \in Offsets |-> IF Covers(r, i, o) THEN Unknown ELSE t[o]]

\* A write has finished the chunks it no longer has to visit, and may have
\* truncated the one it visits.
Patched(h, s) ==
    /\ \A i \in Index \ todo[h] : Matches(Patch(req[h], i, said[s][i]), Shown(s, i))
    /\ \A i \in todo[h] :
          \/ pc[h] = "wdata" /\ i = Min(todo[h]) /\ i \in dirty[s]
          \/ Matches(Blur(req[h], i, said[s][i]), Shown(s, i))
    /\ pc[h] \in {"wopen", "wdata"} =>
          Matches(Patch(req[h], Min(todo[h]), said[s][Min(todo[h])]), buf[h][Min(todo[h])])
    /\ pc[h] = "wdata" => fd[h]

\* Where a commit has chunk i.
Gathered(h, s, i) ==
    IF i \in todo[h]
    THEN files[s][i] # None => Matches(said[s][i], files[s][i])
    ELSE Matches(said[s][i], IF buf[h][i] # None THEN buf[h][i] ELSE Content(man[h], chunks)[i])

Serves(h, s) ==
    /\ pc[h] = "sload" => s \notin open /\ dirty[s] = {}
    /\ pc[h] \in Writing /\ s \in open => Patched(h, s)
    /\ pc[h] \in Committing => \A i \in Index : Gathered(h, s, i)
    /\ pc[h] = "cclear" => base[s] = man[h]

\* A session whose requests came one at a time.
Good(s) ==
    s \notin overlapped =>
        /\ s \in open /\ (\A h \in Handlers : on[h] = s => pc[h] \notin Writing) => Shows(s)
        /\ \A h \in Handlers : on[h] = s => Serves(h, s)

Published ==
    \A p \in SnapshotIds : manifests[p] # None =>
        \A i \in Index : Matches(pub[p][i], Content(manifests[p], chunks)[i])

Orderly ==
    /\ \A h \in Handlers : Tidy(h)
    /\ Solo
    /\ \A s \in SessionIds : Unused(s)
    /\ \A s \in SessionIds : Good(s)

Exact == Orderly /\ Addressed /\ Published

-----------------------------------------------------------------------------
(* Bytes and chunks.                                                       *)

\* Where the tables of handlers and sessions are defined: what an update at one
\* place leaves alone follows from this.
LEMMA Tables ==
    ASSUME Inv
    PROVE  /\ DOMAIN pc = Handlers /\ DOMAIN on = Handlers /\ DOMAIN todo = Handlers
           /\ DOMAIN buf = Handlers /\ DOMAIN fd = Handlers /\ DOMAIN req = Handlers
           /\ DOMAIN man = Handlers /\ DOMAIN snap = Handlers
           /\ DOMAIN home = SessionIds /\ DOMAIN base = SessionIds /\ DOMAIN dirty = SessionIds
           /\ DOMAIN files = SessionIds
BY InvTyped, Zenon DEF HandlerTypes, SessionTypes, DiskTypes

LEMMA Rows ==
    ASSUME Inv
    PROVE  /\ \A h \in Handlers : DOMAIN buf[h] = Index /\ DOMAIN man[h] = Index
           /\ \A s \in SessionIds : DOMAIN files[s] = Index
BY InvTyped, Zenon DEF HandlerTypes, DiskTypes, Slots, Manifest

LEMMA HashInjective == \A c, d : HashChunk(c) = HashChunk(d) => c = d
BY Zenon DEF HashChunk

\* What is told before and after a write of request r, and if it fails.
LEMMA MatchesPatch ==
    ASSUME NEW r, NEW i, NEW t, NEW c
    PROVE  /\ Matches(t, c) => Matches(Blur(r, i, t), c)
           /\ Matches(Patch(r, i, t), c) => Matches(Blur(r, i, t), c)
           /\ Matches(Blur(r, i, t), c) => Matches(Patch(r, i, t), Patch(r, i, c))
           /\ Matches(t, c) /\ (\A o \in Offsets : ~Covers(r, i, o)) => Matches(Patch(r, i, t), c)
BY Zenon DEF Matches, Blur, Patch

\* The bytes of a request lie in the chunks it visits.
LEMMA CoveredVisited ==
    ASSUME NEW r \in Requests, NEW i \in Index, NEW o \in Offsets, Covers(r, i, o)
    PROVE  i \in ChunkIndexes(r.off, r.len)
<1> DEFINE a == i * ChunkSize + o
           e == r.off + r.len - 1
<1>1. /\ ChunkSize \in Nat \ {0} /\ r.off \in Nat /\ r.len \in Nat \ {0} /\ i \in Nat
      /\ o \in Nat /\ o < ChunkSize
  BY ConstantsAssumption DEF Index, Offsets
<1>2. a \in Nat /\ e \in Nat /\ r.off <= a /\ a <= e
  BY <1>1 DEF Covers
<1>3. a \div ChunkSize = i
  BY <1>1
<1> HIDE DEF a
<1>4. r.off \div ChunkSize <= i /\ i <= e \div ChunkSize
  BY <1>1, <1>2, <1>3, QuotientMonotone, Zenon
<1>5. r.off \div ChunkSize \in Int /\ e \div ChunkSize \in Int
  BY <1>1, <1>2
<1> QED BY <1>1, <1>4, <1>5 DEF ChunkIndexes

LEMMA ContentKept ==
    ASSUME NEW m \in Manifest, NEW c, NEW d, Complete(m, c),
           \A k \in ChunkIds : c[k] # None => d[k] = c[k]
    PROVE  Content(m, d) = Content(m, c)
<1>1. \A i \in Index : m[i] # None => d[m[i]] = c[m[i]]
  BY Zenon DEF Manifest, Complete
<1> QED BY <1>1, Zenon DEF Content

\* Chunk by chunk.
LEMMA ContentAt ==
    \A m, c : \A i \in Index : Content(m, c)[i] = IF m[i] = None THEN ZeroChunk ELSE c[m[i]]
BY Zenon DEF Content

\* What resolveChunk reads below the overlay does not depend on the cache.
LEMMA BaseShown ==
    ASSUME Inv, Addressed, NEW s \in SessionIds, home[s] \in Nodes, NEW i \in Index
    PROVE  BaseChunk(s, i) = {Content(base[s], chunks)[i]}
<1>1. CASE base[s][i] = None
  BY <1>1, ContentAt, Zenon DEF BaseChunk
<1>2. CASE base[s][i] # None
  <2>1. PICK k \in ChunkIds : k = base[s][i]
    <3>1. base[s] \in Manifest
      BY InvTyped, Zenon DEF SessionTypes
    <3> QED BY <1>2, <3>1, Zenon DEF Manifest
  <2>2. chunks[k] # None
    BY <1>2, <2>1, Zenon DEF Inv, Durable, Complete
  <2>3. cache[home[s]][k] # None => cache[home[s]][k] = chunks[k]
    BY <2>2, HashInjective, ZenonT(60) DEF Addressed
  <2>4. Content(base[s], chunks)[i] = chunks[k]
    BY <1>2, <2>1, ContentAt, Zenon
  <2>5. Fetch(home[s], k) = {chunks[k]}
    BY <2>2, <2>3, Zenon DEF Fetch
  <2> QED BY <1>2, <2>1, <2>4, <2>5, Zenon DEF BaseChunk
<1> QED BY <1>1, <1>2, Zenon

-----------------------------------------------------------------------------
(* What a step leaves alone.                                               *)

\* The session s is not touched.
Same(s) ==
    /\ files'[s] = files[s] /\ dirty'[s] = dirty[s] /\ base'[s] = base[s] /\ said'[s] = said[s]
    /\ s \in open' <=> s \in open
    /\ s \in overlapped' <=> s \in overlapped

\* The handler g does not move, and its file keeps its name.
Still(g) == Kept(g) /\ req'[g] = req[g] /\ fd'[g] = fd[g]

\* The chunks of a base, and of a manifest in the making, stay what they are.
LEMMA BaseContent ==
    ASSUME Inv, Grows, NEW s \in SessionIds
    PROVE  Content(base[s], chunks') = Content(base[s], chunks)
<1>1. base[s] \in Manifest /\ Complete(base[s], chunks)
  BY InvTyped, Zenon DEF SessionTypes, Inv, Durable
<1>2. \A k \in ChunkIds : chunks[k] # None => chunks'[k] = chunks[k]
  BY Zenon DEF Grows
<1> QED BY <1>1, <1>2, ContentKept, Zenon

LEMMA ManContent ==
    ASSUME Inv, Grows, NEW h \in Handlers
    PROVE  Content(man[h], chunks') = Content(man[h], chunks)
<1>1. man[h] \in Manifest /\ Complete(man[h], chunks)
  BY InvTyped, Zenon DEF HandlerTypes, Inv, Control, Refers
<1>2. \A k \in ChunkIds : chunks[k] # None => chunks'[k] = chunks[k]
  BY Zenon DEF Grows
<1> QED BY <1>1, <1>2, ContentKept, Zenon

LEMMA ShownKept ==
    ASSUME Inv, Grows, NEW s \in SessionIds, NEW i \in Index, base'[s] = base[s],
           (i \in dirty'[s] <=> i \in dirty[s]), i \in dirty[s] => files'[s][i] = files[s][i]
    PROVE  Shown(s, i)' = Shown(s, i)
<1>1. Content(base'[s], chunks') = Content(base[s], chunks)
  BY BaseContent, Zenon
<1> QED BY <1>1, Zenon DEF Shown

LEMMA ShowsKept ==
    ASSUME Inv, Grows, NEW s \in SessionIds, base'[s] = base[s], said'[s] = said[s],
           dirty'[s] = dirty[s], files'[s] = files[s]
    PROVE  Shows(s) => Shows(s)'
<1>1. \A i \in Index : Shown(s, i)' = Shown(s, i)
  BY ShownKept, Zenon
<1> QED BY <1>1, Zenon DEF Shows

LEMMA ServesKept ==
    ASSUME Inv, Grows, NEW s \in SessionIds, NEW h \in Handlers, Same(s), Still(h), Serves(h, s)
    PROVE  Serves(h, s)'
<1>1. \A i \in Index : Shown(s, i)' = Shown(s, i)
  BY ShownKept, Zenon DEF Same
<1>2. Content(man'[h], chunks') = Content(man[h], chunks)
  BY ManContent, Zenon DEF Still, Kept
<1>3. todo[h] \subseteq Index
  BY InvTyped, Zenon DEF HandlerTypes
<1>4. Patched(h, s) => Patched(h, s)'
  BY <1>1, <1>3, Zenon DEF Patched, Same, Still, Kept
<1>5. \A i \in Index : Gathered(h, s, i) => Gathered(h, s, i)'
  BY <1>2, Zenon DEF Gathered, Same, Still, Kept
<1> QED BY <1>4, <1>5, Zenon DEF Serves, Same, Still, Kept

LEMMA GoodKept ==
    ASSUME Inv, Grows, NEW s \in SessionIds, Good(s), Same(s),
           \A g \in Handlers : on[g] = s \/ on'[g] = s => Still(g)
    PROVE  Good(s)'
<1>1. Shows(s) => Shows(s)'
  BY ShowsKept, Zenon DEF Same
<1>2. \A h \in Handlers : on'[h] = s => on[h] = s /\ pc'[h] = pc[h] /\ (Serves(h, s) => Serves(h, s)')
  BY ServesKept, Zenon DEF Still, Kept
<1>3. \A h \in Handlers : on[h] = s => on'[h] = s /\ pc'[h] = pc[h]
  BY Zenon DEF Still, Kept
<1> QED BY <1>1, <1>2, <1>3, Zenon DEF Good, Same

\* A request that is alone on its session.
LEMMA OnlyOne ==
    ASSUME Orderly, NEW h \in Handlers, NEW s \in SessionIds, on[h] = s, s \notin overlapped
    PROVE  Serves(h, s) /\ \A g \in Handlers \ {h} : on[g] # s
<1>1. s # None
  BY SentinelsAssumption, Zenon
<1> QED BY <1>1, Zenon DEF Orderly, Solo, Good

LEMMA TidyKept == \A g \in Handlers : Kept(g) /\ Tidy(g) => Tidy(g)'
BY Zenon DEF Kept, Tidy

\* Handler h moves, on session s; if others are there, s is known to overlap.
Moves(h, s) ==
    /\ on[h] \in {s, None} /\ on'[h] \in {s, None}
    /\ \A g \in Handlers \ {h} : Kept(g) /\ (on[g] # s => Still(g))
    /\ \A t \in SessionIds \ {s} : Same(t) /\ home'[t] = home[t]
    /\ home'[s] # None
    /\ s \notin overlapped' => s \notin overlapped /\ \A g \in Handlers \ {h} : on[g] # s

LEMMA OrderlyMove ==
    ASSUME Inv, Exact, Grows, NEW h \in Handlers, NEW s \in SessionIds, Moves(h, s), Tidy(h)',
           s \notin overlapped' =>
               /\ s \in open' /\ (on'[h] = s => pc'[h] \notin Writing) => Shows(s)'
               /\ on'[h] = s => Serves(h, s)'
    PROVE  Orderly'
<1>1. Orderly /\ s # None
  BY SentinelsAssumption, Zenon DEF Exact
<1>2. \A g \in Handlers : Tidy(g)'
  BY <1>1, TidyKept, Zenon DEF Orderly, Moves
<1>3. \A g \in Handlers \ {h} : on'[g] = on[g]
  BY Zenon DEF Moves, Kept
<1>4. Solo'
  <2>1. \A g \in Handlers \ {h} : on[g] = s => s \in overlapped' \/ on'[h] # s
    BY Zenon DEF Moves
  <2>2. \A t \in SessionIds : t \in overlapped => t \in overlapped'
    BY Zenon DEF Moves, Same
  <2>3. \A g \in Handlers : on[g] \in SessionIds \cup {None}
    BY InvTyped, Zenon DEF HandlerTypes
  <2>4. ASSUME NEW g \in Handlers, NEW k \in Handlers, g # k, on'[g] = on'[k], on'[g] # None
        PROVE  on'[g] \in overlapped'
    <3>1. CASE g = h
      BY <1>3, <2>1, <2>4, <3>1, Zenon DEF Moves
    <3>2. CASE k = h
      BY <1>3, <2>1, <2>4, <3>2, Zenon DEF Moves
    <3>3. CASE g # h /\ k # h
      BY <1>1, <1>3, <2>2, <2>3, <2>4, <3>3, Zenon DEF Orderly, Solo
    <3> QED BY <3>1, <3>2, <3>3, Zenon
  <2> QED BY <2>4, Zenon DEF Solo
<1>5. \A t \in SessionIds : Unused(t)'
  BY <1>1, Zenon DEF Orderly, Unused, Moves, Same
<1>6. \A t \in SessionIds \ {s} : Good(t)'
  <2>1. \A t \in SessionIds \ {s}, g \in Handlers : on[g] = t \/ on'[g] = t => Still(g)
    BY <1>3, SentinelsAssumption, Zenon DEF Moves
  <2> QED BY <1>1, <2>1, GoodKept, Zenon DEF Orderly, Moves
<1>7. Good(s)'
  <2>1. s \notin overlapped' => \A g \in Handlers : on'[g] = s => g = h
    BY <1>3, Zenon DEF Moves
  <2> QED BY <2>1, Zenon DEF Good
<1> QED BY <1>2, <1>4, <1>5, <1>6, <1>7, Zenon DEF Orderly

\* The same of a request that ends.
LEMMA OrderlyLeave ==
    ASSUME Inv, Exact, Grows, NEW h \in Handlers, NEW s \in SessionIds, on[h] = s, Leave(h),
           \A g \in Handlers \ {h} : on[g] # s => fd'[g] = fd[g],
           \A t \in SessionIds \ {s} : Same(t),
           UNCHANGED <<home, overlapped>>, home[s] # None,
           s \notin overlapped /\ s \in open' => Shows(s)'
    PROVE  Orderly'
<1>1. /\ pc'[h] = "idle" /\ on'[h] = None /\ (\A i \in Index : buf'[h][i] = None)
      /\ \A g \in Handlers \ {h} : req'[g] = req[g]
  BY Tables, ZenonT(60) DEF Leave, Goto, NoChunks
<1>2. \A g \in Handlers \ {h} : Kept(g) /\ (on[g] # s => Still(g))
  BY <1>1, LeaveKeeps, Zenon DEF Still
<1>3. s \notin overlapped => \A g \in Handlers \ {h} : on[g] # s
  BY OnlyOne, Zenon DEF Exact
<1>4. Moves(h, s)
  BY <1>1, <1>2, <1>3, Zenon DEF Moves
<1>5. Tidy(h)'
  BY <1>1, Zenon DEF Tidy, Drained, Publishing
<1>6. s # None
  BY SentinelsAssumption, Zenon
<1> QED BY <1>1, <1>4, <1>5, <1>6, OrderlyMove, Zenon

\* Nothing moves.
LEMMA OrderlyStill ==
    ASSUME Inv, Exact, Grows, UNCHANGED home,
           \A g \in Handlers : Still(g), \A t \in SessionIds : Same(t)
    PROVE  Orderly'
<1>1. Orderly
  BY Zenon DEF Exact
<1>2. \A g \in Handlers : Tidy(g)'
  BY <1>1, TidyKept, Zenon DEF Orderly, Still
<1>3. Solo'
  <2>1. \A g \in Handlers : on[g] \in SessionIds \cup {None} /\ on'[g] = on[g]
    BY InvTyped, Zenon DEF HandlerTypes, Still, Kept
  <2>2. \A t \in SessionIds : t \in overlapped => t \in overlapped'
    BY Zenon DEF Same
  <2> QED BY <1>1, <2>1, <2>2, Zenon DEF Orderly, Solo
<1>4. \A t \in SessionIds : Unused(t)'
  BY <1>1, Zenon DEF Orderly, Unused, Same
<1>5. \A t \in SessionIds : Good(t)'
  BY <1>1, GoodKept, Zenon DEF Orderly
<1> QED BY <1>2, <1>3, <1>4, <1>5, Zenon DEF Orderly

-----------------------------------------------------------------------------
(* Objects and the cache.                                                  *)

LEMMA PublishedKept ==
    ASSUME Inv, Exact, Grows, UNCHANGED <<manifests, pub>>
    PROVE  Published'
<1>1. \A k \in ChunkIds : chunks[k] # None => chunks'[k] = chunks[k]
  BY Zenon DEF Grows
<1>2. \A p \in SnapshotIds : manifests[p] # None =>
          manifests[p] \in Manifest /\ Complete(manifests[p], chunks)
  BY InvTyped, Zenon DEF StoreTypes, Inv, Durable
<1>3. \A p \in SnapshotIds : manifests[p] # None =>
          Content(manifests[p], chunks') = Content(manifests[p], chunks)
  BY <1>1, <1>2, ContentKept, Zenon
<1> QED BY <1>3, Zenon DEF Exact, Published

LEMMA FillAddressed ==
    ASSUME Inv, Exact, NEW s \in SessionIds, NEW i \in Index, home[s] \in Nodes,
           FillCache(s, i), UNCHANGED chunks
    PROVE  Addressed'
<1>1. CASE UNCHANGED cache
  BY <1>1, Zenon DEF Exact, Addressed
<1>2. ASSUME base[s][i] # None, chunks[base[s][i]] # None,
             CachePut(home[s], base[s][i], chunks[base[s][i]])
      PROVE  Addressed'
  <2>1. PICK k \in ChunkIds : k = base[s][i]
    <3>1. base[s] \in Manifest
      BY InvTyped, Zenon DEF SessionTypes
    <3> QED BY <1>2, <3>1, Zenon DEF Manifest
  <2>2. HashChunk(chunks[k]) = k
    BY <1>2, <2>1, Zenon DEF Exact, Addressed
  <2>3. \A n \in Nodes, j \in ChunkIds :
            cache'[n][j] = cache[n][j] \/ (j = k /\ cache'[n][j] = chunks[k])
    BY <1>2, <2>1, InvTyped, Zenon DEF CachePut, Types, CacheType
  <2> QED BY <2>2, <2>3, ZenonT(60) DEF Exact, Addressed
<1> QED BY <1>1, <1>2, Zenon DEF FillCache

LEMMA UploadAddressed ==
    ASSUME Inv, Exact, NEW h \in Handlers, NEW chunk \in Chunk, on[h] \in SessionIds,
           home[on[h]] \in Nodes, UploadChunk(h, chunk)
    PROVE  Addressed' /\ chunks'[HashChunk(chunk)] = chunk
<1>1. PICK k \in ChunkIds : k = HashChunk(chunk)
  BY HashChunkType, Zenon
<1>2. /\ chunks' = [chunks EXCEPT ![k] = IF chunks[k] = None THEN chunk ELSE chunks[k]]
      /\ cache' = [cache EXCEPT ![home[on[h]]][k] = chunk]
  BY <1>1, Zenon DEF UploadChunk, CachePut
<1>3. chunks[k] # None => chunks[k] = chunk
  BY <1>1, HashInjective, Zenon DEF Exact, Addressed
<1>4. chunks'[k] = chunk /\ \A j \in ChunkIds \ {k} : chunks'[j] = chunks[j]
  BY <1>2, <1>3, InvTyped, Zenon DEF StoreTypes
<1>5. \A n \in Nodes, j \in ChunkIds :
          cache'[n][j] = cache[n][j] \/ (j = k /\ cache'[n][j] = chunk)
  BY <1>2, InvTyped, Zenon DEF Types, CacheType
<1>6. \A j \in ChunkIds : chunks'[j] # None => HashChunk(chunks'[j]) = j
  BY <1>1, <1>4, Zenon DEF Exact, Addressed
<1>7. ASSUME NEW n \in Nodes, NEW j \in ChunkIds, cache'[n][j] # None
      PROVE  HashChunk(cache'[n][j]) = j
  <2>1. cache[n][j] # None => HashChunk(cache[n][j]) = j
    BY Zenon DEF Exact, Addressed
  <2>2. CASE cache'[n][j] = cache[n][j]
    BY <1>7, <2>1, <2>2, Zenon
  <2>3. CASE j = k /\ cache'[n][j] = chunk
    BY <1>1, <2>3, Zenon
  <2> QED BY <1>5, <2>2, <2>3, Zenon
<1> QED BY <1>1, <1>4, <1>6, <1>7, Zenon DEF Addressed

\* The manifest of a drained commit, and what the session acknowledged.
LEMMA DrainedGathers ==
    ASSUME Exact, NEW h \in Handlers, NEW s \in SessionIds, on[h] = s, s \notin overlapped,
           pc[h] \in Drained
    PROVE  \A i \in Index : Matches(said[s][i], Content(man[h], chunks)[i])
<1>1. Tidy(h) /\ Serves(h, s)
  BY OnlyOne, Zenon DEF Exact, Orderly
<1> QED BY <1>1, Zenon DEF Tidy, Serves, Gathered, Committing

LEMMA SavePublished ==
    ASSUME Inv, Exact, Grows, NEW h \in Handlers, NEW p \in SnapshotIds, on[h] \in SessionIds,
           saveManifest(h, p)
    PROVE  Published'
<1>1. pc[h] = "cmanifest" /\ UNCHANGED chunks
  BY Zenon DEF saveManifest
<1>2. PICK t : /\ t = IF on[h] \in overlapped THEN [i \in Index |-> [o \in Offsets |-> Unknown]]
                      ELSE said[on[h]]
               /\ pub' = [pub EXCEPT ![p] = t]
  BY Zenon DEF saveManifest
<1>3. manifests' = [manifests EXCEPT ![p] = man[h]]
  BY Zenon DEF saveManifest
<1>4. \A i \in Index : Matches(t[i], Content(man[h], chunks)[i])
  <2>1. CASE on[h] \in overlapped
    BY <1>2, <2>1, Zenon DEF Matches
  <2>2. CASE on[h] \notin overlapped
    BY <1>1, <1>2, <2>2, DrainedGathers, Zenon DEF Drained
  <2> QED BY <2>1, <2>2, Zenon
<1>5. /\ manifests'[p] = man[h] /\ pub'[p] = t
      /\ \A q \in SnapshotIds \ {p} : manifests'[q] = manifests[q] /\ pub'[q] = pub[q]
  BY <1>2, <1>3, InvTyped, Zenon DEF StoreTypes, AuxTypes
<1> QED BY <1>1, <1>4, <1>5, Zenon DEF Exact, Published

LEMMA AddressedKept ==
    ASSUME Exact, UNCHANGED <<chunks, cache>>
    PROVE  Addressed'
BY Zenon DEF Exact, Addressed

-----------------------------------------------------------------------------
(* Steps of no handler.                                                    *)

Frozen == UNCHANGED <<files, dirty, base, said, open, overlapped, home,
                      pc, on, todo, buf, snap, man, req, fd, manifests, pub, chunks>>

LEMMA FrozenKeeps ==
    ASSUME Inv, Exact, Grows, Frozen
    PROVE  Orderly' /\ Published'
<1>1. \A g \in Handlers : Still(g)
  BY Zenon DEF Frozen, Still, Kept
<1>2. \A t \in SessionIds : Same(t)
  BY Zenon DEF Frozen, Same
<1> QED BY <1>1, <1>2, OrderlyStill, PublishedKept, Zenon DEF Frozen

LEMMA CreateVolumeExact ==
    ASSUME Inv, Exact, Grows, NEW v \in Volumes, NEW p \in SnapshotIds \cup {None},
           CreateVolume(v, p)
    PROVE  Exact'
<1>1. Frozen /\ UNCHANGED cache
  BY Zenon DEF CreateVolume, Frozen, store, disk, session, locals, aux
<1> QED BY <1>1, FrozenKeeps, AddressedKept, Zenon DEF Frozen, Exact

LEMMA ReadExact ==
    ASSUME Inv, Exact, Grows, NEW s \in SessionIds, NEW i \in Index, Read(s, i)
    PROVE  Exact'
<1>1. Frozen /\ FillCache(s, i) /\ s \in open
  BY Zenon DEF Read, Frozen, store, disk, session, locals, aux
<1>2. Addressed'
  BY <1>1, FillAddressed, Zenon DEF Frozen, Inv, Homed
<1> QED BY <1>1, <1>2, FrozenKeeps, Zenon DEF Exact

\* Files that RemoveAll takes away are not missed: a commit that finds one
\* gone fails.
LEMMA ServesStopped ==
    ASSUME Inv, Grows, NEW s \in SessionIds, NEW h \in Handlers, Kept(h), Serves(h, s),
           s \notin open', base'[s] = base[s], dirty'[s] = dirty[s], said'[s] = said[s],
           \A i \in Index : files'[s][i] \in {files[s][i], None}
    PROVE  Serves(h, s)'
<1>1. Content(man'[h], chunks') = Content(man[h], chunks)
  BY ManContent, Zenon DEF Kept
<1>2. \A i \in Index : Gathered(h, s, i) => Gathered(h, s, i)'
  BY <1>1, Zenon DEF Gathered, Kept
<1> QED BY <1>2, Zenon DEF Serves, Kept

LEMMA UnlinkOthers ==
    ASSUME Inv, NEW s \in SessionIds, NEW gone, Unlink(s, gone), NEW g \in Handlers, on[g] # s
    PROVE  fd'[g] = fd[g]
<1>1. fd[g] \in BOOLEAN
  BY InvTyped, Zenon DEF HandlerTypes
<1>2. fd'[g] = (fd[g] /\ ~(on[g] = s /\ \E i \in gone : buf[g][i] # None))
  BY Zenon DEF Unlink
<1> QED BY <1>1, <1>2, Zenon

LEMMA OverlayFiles ==
    ASSUME Inv, NEW s \in SessionIds, NEW gone, NEW complete, RemoveOverlay(s, gone, complete)
    PROVE  /\ \A t \in SessionIds \ {s} : files'[t] = files[t]
           /\ \A i \in Index : files'[s][i] \in {files[s][i], None}
BY InvTyped, Zenon DEF RemoveOverlay, DiskTypes

LEMMA StopExact ==
    ASSUME Inv, Exact, Grows, NEW s \in SessionIds, Stop(s) \/ StopError(s)
    PROVE  Exact'
<1>1. /\ UNCHANGED <<chunks, manifests, cache, home, pc, on, todo, buf, req, man, snap,
                     pub, overlapped>>
      /\ s \in open /\ open' = open \ {s}
  BY Zenon DEF Stop, StopError, repo, store, aux
<1>2. /\ \A t \in SessionIds \ {s} : files'[t] = files[t] /\ dirty'[t] = dirty[t]
                                      /\ base'[t] = base[t] /\ said'[t] = said[t]
      /\ \A g \in Handlers : on[g] # s => fd'[g] = fd[g]
      /\ Busy(s) => /\ dirty'[s] = dirty[s] /\ base'[s] = base[s] /\ said'[s] = said[s]
                    /\ \A i \in Index : files'[s][i] \in {files[s][i], None}
  <2>1. CASE Busy(s) /\ UNCHANGED <<base, dirty, said>> /\
             \E gone, complete : RemoveOverlay(s, gone, complete) /\ Unlink(s, gone)
    BY <2>1, OverlayFiles, UnlinkOthers, Zenon
  <2>2. CASE ~Busy(s) /\ Forget({s}) /\ UNCHANGED fd
    BY <2>2, Zenon DEF Forget
  <2> QED BY <2>1, <2>2, Zenon DEF Stop, StopError, aux
<1>3. \A t \in SessionIds \ {s} : Same(t)
  BY <1>1, <1>2, Zenon DEF Same
<1>4. \A g \in Handlers : Kept(g) /\ (on[g] # s => Still(g))
  BY <1>1, <1>2, Zenon DEF Still, Kept
<1>5. Orderly
  BY Zenon DEF Exact
<1>6. (\A g \in Handlers : Tidy(g)') /\ Solo'
  BY <1>1, <1>4, <1>5, TidyKept, Zenon DEF Orderly, Solo
<1>7. \A t \in SessionIds : Unused(t)'
  BY <1>1, <1>3, <1>5, Zenon DEF Orderly, Unused, Same
<1>8. \A t \in SessionIds \ {s} : Good(t)'
  BY <1>1, <1>3, <1>4, <1>5, GoodKept, Zenon DEF Orderly
<1>9. Good(s)'
  <2>1. \A h \in Handlers : on[h] = s /\ Serves(h, s) => Serves(h, s)'
    BY <1>1, <1>2, <1>4, ServesStopped, Zenon DEF Busy
  <2> QED BY <1>1, <1>5, <2>1, Zenon DEF Orderly, Good
<1>10. Orderly'
  BY <1>6, <1>7, <1>8, <1>9, Zenon DEF Orderly
<1> QED BY <1>1, <1>10, AddressedKept, PublishedKept, Zenon DEF Exact

LEMMA CrashExact ==
    ASSUME Inv, Exact, Grows, NEW n \in Nodes, Crash(n)
    PROVE  Exact'
<1>1. PICK here \in SUBSET SessionIds :
          /\ here = {s \in SessionIds : home[s] = n}
          /\ UNCHANGED <<chunks, manifests, cache, home, pub, overlapped>>
          /\ open' = open \ here
          /\ Forget(here)
          /\ \A g \in Handlers :
                IF on[g] \in here THEN pc'[g] = "idle" /\ on'[g] = None /\ buf'[g] = NoChunks
                ELSE Kept(g) /\ req'[g] = req[g] /\ fd'[g] = (TRUE /\ fd[g])
  BY Zenon DEF Crash, Kept, repo, store
<1>0. \A t \in SessionIds, g \in Handlers : on'[g] = t => on[g] \notin here /\ on[g] = t
  <2>1. \A t \in SessionIds : t # None
    BY SentinelsAssumption, Zenon
  <2>2. \A g \in Handlers : IF on[g] \in here THEN on'[g] = None ELSE on'[g] = on[g]
    BY <1>1, Zenon DEF Kept
  <2> QED BY <2>1, <2>2, Zenon
<1>2. \A t \in SessionIds \ here : Same(t)
  BY <1>1, Zenon DEF Same, Forget
<1>3. \A g \in Handlers : on[g] \notin here => Still(g)
  BY <1>1, InvTyped, Zenon DEF Still, HandlerTypes
<1>4. Orderly
  BY Zenon DEF Exact
<1>5. \A g \in Handlers : Tidy(g)'
  <2>1. \A g \in Handlers : on[g] \in here => Tidy(g)'
    BY <1>1, ZenonT(60) DEF Tidy, NoChunks, Drained, Publishing
  <2> QED BY <1>3, <1>4, <2>1, TidyKept, Zenon DEF Orderly, Still
<1>6. Solo'
  <2>1. \A g \in Handlers : on'[g] = on[g] \/ on'[g] = None
    BY <1>1, Zenon DEF Kept
  <2> QED BY <1>1, <1>4, <2>1, Zenon DEF Orderly, Solo
<1>7. \A t \in SessionIds : Unused(t)'
  BY <1>1, <1>2, <1>4, Zenon DEF Orderly, Unused, Same, Forget
<1>8. \A t \in SessionIds \ here : Good(t)'
  <2>1. \A t \in SessionIds \ here, g \in Handlers : on[g] = t \/ on'[g] = t => Still(g)
    BY <1>3, <1>0, Zenon
  <2> QED BY <1>2, <1>4, <2>1, GoodKept, Zenon DEF Orderly
<1>9. \A t \in here : Good(t)'
  <2>1. \A t \in here : t \in SessionIds /\ t \notin open'
    BY <1>1, Zenon
  <2>2. \A t \in here, g \in Handlers : on'[g] # t
    BY <1>0, <2>1, Zenon
  <2> QED BY <2>1, <2>2, Zenon DEF Good
<1>10. Orderly'
  BY <1>5, <1>6, <1>7, <1>8, <1>9, Zenon DEF Orderly
<1> QED BY <1>1, <1>10, AddressedKept, PublishedKept, Zenon DEF Exact

-----------------------------------------------------------------------------
(* Handlers that move, and their sessions.                                 *)

\* A session shows what it acknowledged to a request that is not a write.
LEMMA AloneShows ==
    ASSUME Exact, NEW h \in Handlers, NEW s \in SessionIds, on[h] = s, s \notin overlapped,
           s \in open, pc[h] \notin Writing
    PROVE  Shows(s)
<1>1. \A g \in Handlers : on[g] = s => g = h
  BY OnlyOne, Zenon DEF Exact
<1> QED BY <1>1, Zenon DEF Exact, Orderly, Good

\* The handler h goes on with its request on s.
Continues(h, s) ==
    /\ on[h] = s /\ on'[h] = s
    /\ \A g \in Handlers \ {h} : Still(g)
    /\ \A t \in SessionIds \ {s} : Same(t)
    /\ UNCHANGED <<home, overlapped>>

LEMMA OrderlyContinue ==
    ASSUME Inv, Exact, Grows, NEW h \in Handlers, NEW s \in SessionIds, pc[h] # "idle",
           Continues(h, s), Tidy(h)',
           s \notin overlapped => /\ s \in open' /\ pc'[h] \notin Writing => Shows(s)'
                                  /\ Serves(h, s)'
    PROVE  Orderly'
<1>1. home[s] # None
  BY AtStep, SentinelsAssumption, Zenon DEF Continues
<1>2. s \notin overlapped => \A g \in Handlers \ {h} : on[g] # s
  BY OnlyOne, Zenon DEF Exact, Continues
<1>3. Moves(h, s)
  BY <1>1, <1>2, Zenon DEF Moves, Continues, Still
<1>4. s \notin overlapped' =>
          /\ s \in open' /\ (on'[h] = s => pc'[h] \notin Writing) => Shows(s)'
          /\ on'[h] = s => Serves(h, s)'
  BY Zenon DEF Continues
<1> QED BY <1>3, <1>4, OrderlyMove, Zenon

\* A commit goes on, and leaves the session as it is.
LEMMA OrderlyCommit ==
    ASSUME Inv, Exact, Grows, NEW h \in Handlers, NEW s \in SessionIds, Continues(h, s), Same(s),
           pc[h] \in Committing, pc'[h] \in Committing \ {"cclear"}, Tidy(h)',
           s \notin overlapped => \A i \in Index : Gathered(h, s, i)'
    PROVE  Orderly'
<1>1. pc[h] \notin Writing /\ pc[h] # "idle" /\ pc'[h] \notin Writing \cup {"sload", "cclear"}
  BY Zenon DEF Committing, Drained, Publishing, Writing
<1>2. s \notin overlapped /\ s \in open' => Shows(s)'
  BY <1>1, AloneShows, ShowsKept, Zenon DEF Continues, Same
<1>3. s \notin overlapped => Serves(h, s)'
  BY <1>1, Zenon DEF Serves
<1> QED BY <1>1, <1>2, <1>3, OrderlyContinue, Zenon

\* A request other than a write ends, and leaves the session as it is.
LEMMA OrderlyQuit ==
    ASSUME Inv, Exact, Grows, NEW h \in Handlers, pc[h] \notin Writing \cup {"idle"}, Reply(h),
           UNCHANGED <<files, dirty, base, said, open, overlapped, home>>
    PROVE  Orderly'
<1>1. PICK s \in SessionIds : s = on[h] /\ home[s] # None
  BY AtStep, SentinelsAssumption, Zenon
<1>2. \A t \in SessionIds : Same(t)
  BY Zenon DEF Same
<1>3. s \notin overlapped /\ s \in open' => Shows(s)'
  BY <1>1, AloneShows, ShowsKept, Zenon
<1>4. \A g \in Handlers \ {h} : fd'[g] = fd[g]
  BY InvTyped, Zenon DEF Reply, HandlerTypes
<1> QED BY <1>1, <1>2, <1>3, <1>4, OrderlyLeave, Zenon DEF Reply

=============================================================================

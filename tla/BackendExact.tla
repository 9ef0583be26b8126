---------------------------- MODULE BackendExact ----------------------------
(***************************************************************************)
(* What a session acknowledged is what it shows and what its snapshots     *)
(* hold, for every number of nodes, sessions, handlers, chunks and faults: *)
(* the steps of StartSession, Write and Commit keep the invariant Exact of *)
(* BackendProofs, and the theorems.                                        *)
(***************************************************************************)
EXTENDS BackendProofs

-----------------------------------------------------------------------------
(* StartSession.                                                           *)

LEMMA StartSessionExact ==
    ASSUME Inv, Exact, Grows, NEW h \in Handlers, NEW s \in SessionIds, NEW n \in Nodes,
           NEW v \in Volumes, StartSession(h, s, n, v)
    PROVE  Exact'
<1>1. UNCHANGED <<files, dirty, base, said, open, overlapped, todo, buf, man, req, fd,
                  chunks, manifests, cache, pub>>
  BY Zenon DEF StartSession, store, disk, aux
<1>2. /\ pc[h] = "idle" /\ home[s] = None
      /\ pc'[h] = "sload" /\ on'[h] = s /\ home'[s] = n
      /\ \A t \in SessionIds \ {s} : home'[t] = home[t]
      /\ \A g \in Handlers \ {h} : pc'[g] = pc[g] /\ on'[g] = on[g] /\ snap'[g] = snap[g]
  <2>1. /\ pc[h] = "idle" /\ home[s] = None
        /\ pc' = [pc EXCEPT ![h] = "sload"] /\ on' = [on EXCEPT ![h] = s]
        /\ home' = [home EXCEPT ![s] = n]
    BY Zenon DEF StartSession, Goto
  <2>2. \A g \in Handlers \ {h} : snap'[g] = snap[g]
    BY Tables, Zenon DEF StartSession
  <2>3. home'[s] = n /\ \A t \in SessionIds \ {s} : home'[t] = home[t]
    BY <2>1, Tables, Zenon
  <2>4. pc'[h] = "sload" /\ \A g \in Handlers \ {h} : pc'[g] = pc[g]
    BY <2>1, Tables, Zenon
  <2>5. on'[h] = s /\ \A g \in Handlers \ {h} : on'[g] = on[g]
    BY <2>1, Tables, Zenon
  <2> QED BY <2>1, <2>2, <2>3, <2>4, <2>5, Zenon
<1>3. \A g \in Handlers \ {h} : Still(g)
  BY <1>1, <1>2, Zenon DEF Still, Kept
<1>4. \A t \in SessionIds : Same(t)
  BY <1>1, Zenon DEF Same
<1>5. Orderly
  BY Zenon DEF Exact
<1>6. s \notin open /\ dirty[s] = {}
  BY <1>2, <1>5, Zenon DEF Orderly, Unused
<1>7. \A g \in Handlers : on[g] # s
  <2>1. \A g \in Handlers : pc[g] # "idle" => home[on[g]] # None
    BY AtStep, SentinelsAssumption, Zenon
  <2>2. \A g \in Handlers : pc[g] = "idle" => on[g] = None
    BY <1>5, Zenon DEF Orderly, Tidy
  <2> QED BY <1>2, <2>1, <2>2, SentinelsAssumption, Zenon
<1>8. on[h] = None /\ home'[s] # None
  BY <1>2, <1>5, SentinelsAssumption, Zenon DEF Orderly, Tidy
<1>9. Moves(h, s)
  BY <1>1, <1>2, <1>3, <1>4, <1>7, <1>8, Zenon DEF Moves, Still
<1>10. Tidy(h)'
  BY <1>2, Zenon DEF Tidy, Drained, Publishing
<1>11. Serves(h, s)'
  BY <1>1, <1>2, <1>6, Zenon DEF Serves, Writing, Committing, Drained, Publishing
<1>12. Orderly'
  BY <1>1, <1>6, <1>9, <1>10, <1>11, OrderlyMove, Zenon
<1> QED BY <1>1, <1>12, AddressedKept, PublishedKept, Zenon DEF Exact

LEMMA StartErrorExact ==
    ASSUME Inv, Exact, Grows, NEW h \in Handlers, StartError(h)
    PROVE  Exact'
<1>1. /\ UNCHANGED <<files, dirty, base, said, open, overlapped, home,
                     chunks, manifests, cache, pub>>
      /\ pc[h] = "sload" /\ Reply(h)
  BY Zenon DEF StartError, store, disk, session, aux
<1>2. Orderly'
  BY <1>1, OrderlyQuit, Zenon DEF Writing
<1> QED BY <1>1, <1>2, AddressedKept, PublishedKept, Zenon DEF Exact

\* A session starts from what its snapshot was to hold.
LEMMA StartLoadExact ==
    ASSUME Inv, Exact, Grows, NEW h \in Handlers, StartLoad(h)
    PROVE  Exact'
<1>1. /\ UNCHANGED <<files, dirty, overlapped, home, chunks, manifests, cache, pub>>
      /\ pc[h] = "sload" /\ Reply(h)
  BY Zenon DEF StartLoad, store
<1>2. PICK s \in SessionIds : s = on[h] /\ home[s] # None
  BY <1>1, AtStep, SentinelsAssumption, Zenon
<1>3. PICK m, t :
          /\ m = IF snap[h] = None THEN NoManifest ELSE manifests[snap[h]]
          /\ t = IF snap[h] = None THEN Zeroes ELSE pub[snap[h]]
          /\ base' = [base EXCEPT ![s] = m] /\ said' = [said EXCEPT ![s] = t]
          /\ open' = open \cup {s}
  BY <1>2, Zenon DEF StartLoad
<1>4. base'[s] = m /\ said'[s] = t /\ \A u \in SessionIds \ {s} : Same(u)
  BY <1>1, <1>3, InvTyped, Zenon DEF SessionTypes, AuxTypes, Same
<1>5. \A i \in Index : Matches(t[i], Content(m, chunks)[i])
  <2>1. CASE snap[h] = None
    <3>1. \A i \in Index : Zeroes[i] = ZeroChunk /\ NoManifest[i] = None
      BY Zenon DEF Zeroes, NoManifest
    <3>2. m = NoManifest /\ t = Zeroes
      BY <1>3, <2>1, Zenon
    <3>3. \A i \in Index : t[i] = ZeroChunk /\ Content(m, chunks)[i] = ZeroChunk
      BY <3>1, <3>2, ContentAt, ZenonT(60)
    <3> QED BY <3>3, Zenon DEF Matches
  <2>2. CASE snap[h] # None
    <3>1. snap[h] \in SnapshotIds /\ manifests[snap[h]] # None
      BY <2>2, InvTyped, Zenon DEF HandlerTypes, StartLoad, Loadable
    <3> QED BY <1>3, <2>2, <3>1, Zenon DEF Exact, Published
  <2> QED BY <2>1, <2>2, Zenon
<1>6. s \notin overlapped => Shows(s)'
  <2>1. s \notin overlapped => dirty[s] = {}
    BY <1>1, <1>2, OnlyOne, Zenon DEF Exact, Serves
  <2> QED BY <1>1, <1>4, <1>5, <2>1, Zenon DEF Shows, Shown
<1>7. \A g \in Handlers \ {h} : fd'[g] = fd[g]
  BY <1>1, InvTyped, Zenon DEF Reply, HandlerTypes
<1>8. Orderly'
  BY <1>1, <1>2, <1>4, <1>6, <1>7, OrderlyLeave, Zenon DEF Reply
<1> QED BY <1>1, <1>8, AddressedKept, PublishedKept, Zenon DEF Exact

-----------------------------------------------------------------------------
(* Write.                                                                  *)

\* A request that comes in finds no other, or overlaps it.
LEMMA LookupMoves ==
    ASSUME Inv, Exact, NEW h \in Handlers, NEW s \in SessionIds, Lookup(h, s),
           UNCHANGED <<files, dirty, base, said, open, home>>,
           \A g \in Handlers \ {h} : Still(g)
    PROVE  /\ Moves(h, s) /\ on'[h] = s /\ s \in open
           /\ s \notin overlapped' => s \notin overlapped /\ Shows(s)
<1>1. /\ on'[h] = s /\ pc[h] = "idle" /\ s \in open
      /\ overlapped' = IF \E g \in Handlers : on[g] = s THEN overlapped \cup {s} ELSE overlapped
  BY InvTyped, Zenon DEF Lookup, HandlerTypes
<1>2. \A t \in SessionIds \ {s} : Same(t)
  BY <1>1, Zenon DEF Same
<1>3. on[h] = None /\ home[s] # None
  BY <1>1, SentinelsAssumption, Zenon DEF Exact, Orderly, Tidy, Inv, Homed
<1>4. s \notin overlapped' => s \notin overlapped /\ \A g \in Handlers : on[g] # s
  BY <1>1, Zenon
<1>5. s \notin overlapped' => Shows(s)
  BY <1>1, <1>4, Zenon DEF Exact, Orderly, Good
<1>6. Moves(h, s)
  BY <1>1, <1>2, <1>3, <1>4, Zenon DEF Moves, Still
<1> QED BY <1>1, <1>4, <1>5, <1>6, Zenon

LEMMA WriteExact ==
    ASSUME Inv, Exact, Grows, NEW h \in Handlers, NEW s \in SessionIds, NEW r \in Requests,
           Write(h, s, r)
    PROVE  Exact'
<1>1. /\ UNCHANGED <<files, dirty, base, said, open, home, buf, fd, man, snap,
                     chunks, manifests, cache, pub>>
      /\ Lookup(h, s)
  BY Zenon DEF Write, store, disk, session
<1>2. /\ pc'[h] = "wresolve" /\ todo'[h] = ChunkIndexes(r.off, r.len) /\ req'[h] = r
      /\ \A g \in Handlers \ {h} : pc'[g] = pc[g] /\ on'[g] = on[g] /\ todo'[g] = todo[g]
                                    /\ req'[g] = req[g]
  BY Tables, ZenonT(60) DEF Write, Lookup, Goto
<1>3. \A g \in Handlers \ {h} : Still(g)
  BY <1>1, <1>2, Zenon DEF Still, Kept
<1>4. /\ Moves(h, s) /\ on'[h] = s
      /\ s \notin overlapped' => Shows(s)
  BY <1>1, <1>3, LookupMoves, Zenon
<1>5. Shows(s) => Shows(s)'
  BY <1>1, ShowsKept, Zenon
<1>6. Shows(s)' => Patched(h, s)'
  <2> SUFFICES ASSUME Shows(s)' PROVE Patched(h, s)'
    BY Zenon
  <2>1. \A i \in Index : Matches(said'[s][i], Shown(s, i)')
    BY Zenon DEF Shows
  <2>2. \A i \in Index \ todo'[h] : \A o \in Offsets : ~Covers(r, i, o)
    BY <1>2, CoveredVisited, Zenon
  <2>3. \A i \in Index \ todo'[h] : Matches(Patch(req'[h], i, said'[s][i]), Shown(s, i)')
    BY <1>2, <2>1, <2>2, MatchesPatch, Zenon
  <2>4. \A i \in todo'[h] : Matches(Blur(req'[h], i, said'[s][i]), Shown(s, i)')
    BY <1>2, <2>1, ChunkIndexesType, MatchesPatch, ZenonT(60)
  <2>5. pc'[h] \notin {"wopen", "wdata"}
    BY <1>2, Zenon
  <2> QED BY <2>3, <2>4, <2>5, Zenon DEF Patched
<1>7. Patched(h, s)' => Serves(h, s)'
  BY <1>2, Zenon DEF Serves, Committing, Drained, Publishing
<1>8. Tidy(h)' /\ pc'[h] \in Writing
  BY <1>2, Zenon DEF Tidy, Drained, Publishing, Writing
<1>9. Orderly'
  BY <1>4, <1>5, <1>6, <1>7, <1>8, OrderlyMove, Zenon
<1> QED BY <1>1, <1>9, AddressedKept, PublishedKept, Zenon DEF Exact

\* What holds when a write of an open session moves.
LEMMA PatchedNow ==
    ASSUME Exact, NEW h \in Handlers, NEW s \in SessionIds, on[h] = s, s \notin overlapped,
           s \in open, pc[h] \in Writing
    PROVE  Patched(h, s)
BY OnlyOne, Zenon DEF Exact, Serves

\* A write goes on.
LEMMA OrderlyWrite ==
    ASSUME Inv, Exact, Grows, NEW h \in Handlers, NEW s \in SessionIds, Continues(h, s),
           pc[h] \in Writing, pc'[h] \in Writing, UNCHANGED open,
           s \notin overlapped /\ s \in open /\ Patched(h, s) => Patched(h, s)'
    PROVE  Orderly'
<1>1. /\ pc[h] # "idle"
      /\ pc'[h] \notin {"idle", "sload", "cclear"} \cup Committing /\ pc'[h] \notin Drained
  BY Zenon DEF Committing, Drained, Publishing, Writing
<1>2. s \notin overlapped => Serves(h, s)'
  BY <1>1, PatchedNow, Zenon DEF Serves, Continues
<1>3. Tidy(h)'
  BY <1>1, Zenon DEF Tidy
<1> QED BY <1>1, <1>2, <1>3, OrderlyContinue, Zenon

LEMMA WriteResolveExact ==
    ASSUME Inv, Exact, Grows, NEW h \in Handlers, WriteResolve(h)
    PROVE  Exact'
<1>1. /\ UNCHANGED <<files, dirty, base, said, open, overlapped, home, on, todo, fd, req,
                     man, snap, chunks, manifests, pub>>
      /\ pc[h] = "wresolve"
  BY Zenon DEF WriteResolve, store, disk, session, aux
<1>2. PICK s \in SessionIds, i \in Index :
          s = on[h] /\ i = Min(todo[h]) /\ i \in todo[h] /\ home[s] \in Nodes
  BY <1>1, AtStep, Zenon DEF Writing
<1>3. FillCache(s, i)
  BY <1>2, Zenon DEF WriteResolve
<1>4. PICK chunk \in resolveChunk(s, i) \ {None} :
          buf' = [buf EXCEPT ![h][i] = Patch(req[h], i, chunk)]
  BY <1>2, Zenon DEF WriteResolve
<1>5. chunk = Shown(s, i)
  <2>1. CASE i \in dirty[s]
    BY <1>4, <2>1, Zenon DEF resolveChunk, Shown
  <2>2. CASE i \notin dirty[s]
    BY <1>2, <1>4, <2>2, BaseShown, Zenon DEF Exact, resolveChunk, Shown
  <2> QED BY <2>1, <2>2, Zenon
<1>6. /\ buf'[h][i] = Patch(req[h], i, chunk) /\ pc'[h] = "wopen"
      /\ \A g \in Handlers \ {h} : buf'[g] = buf[g] /\ pc'[g] = pc[g]
  <2>2. /\ buf'[h][i] = Patch(req[h], i, chunk) /\ \A g \in Handlers \ {h} : buf'[g] = buf[g]
    BY <1>4, Tables, Rows, Zenon
  <2>3. pc' = [pc EXCEPT ![h] = "wopen"]
    BY Zenon DEF WriteResolve, Goto
  <2>4. pc'[h] = "wopen" /\ \A g \in Handlers \ {h} : pc'[g] = pc[g]
    BY <2>3, Tables, Zenon
  <2> QED BY <2>2, <2>4, Zenon
<1>7. Continues(h, s)
  BY <1>1, <1>2, <1>6, Zenon DEF Continues, Still, Kept, Same
<1>8. Patched(h, s) => Patched(h, s)'
  <2> SUFFICES ASSUME Patched(h, s) PROVE Patched(h, s)'
    BY Zenon
  <2>1. \A j \in Index : Shown(s, j)' = Shown(s, j)
    BY <1>1, ShownKept, Zenon
  <2>2. /\ \A j \in Index \ todo[h] : Matches(Patch(req[h], j, said[s][j]), Shown(s, j))
        /\ \A j \in todo[h] : Matches(Blur(req[h], j, said[s][j]), Shown(s, j))
    BY <1>1, Zenon DEF Patched
  <2>3. Matches(Patch(req[h], i, said[s][i]), buf'[h][i])
    <3>1. Matches(Blur(req[h], i, said[s][i]), chunk)
      BY <1>2, <1>5, <2>2, Zenon
    <3>2. Matches(Patch(req[h], i, said[s][i]), Patch(req[h], i, chunk))
      BY <3>1, MatchesPatch, Zenon
    <3> QED BY <1>6, <3>2, Zenon
  <2>4. todo[h] \subseteq Index
    BY InvTyped, Zenon DEF HandlerTypes
  <2>5. /\ \A j \in Index \ todo'[h] : Matches(Patch(req'[h], j, said'[s][j]), Shown(s, j)')
        /\ \A j \in todo'[h] : Matches(Blur(req'[h], j, said'[s][j]), Shown(s, j)')
    BY <1>1, <2>1, <2>2, <2>4, Zenon
  <2>6. Min(todo'[h]) = i /\ pc'[h] # "wdata"
    BY <1>1, <1>2, <1>6, Zenon
  <2>7. Matches(Patch(req'[h], i, said'[s][i]), buf'[h][i])
    BY <1>1, <2>3, Zenon
  <2> QED BY <2>5, <2>6, <2>7, Zenon DEF Patched
<1>9. Orderly'
  BY <1>1, <1>6, <1>7, <1>8, OrderlyWrite, Zenon DEF Writing
<1>10. Addressed'
  BY <1>1, <1>2, <1>3, FillAddressed, Zenon
<1> QED BY <1>1, <1>9, <1>10, PublishedKept, Zenon DEF Exact

\* O_TRUNC takes the bytes of a chunk that is dirty; one that is not is still
\* shown from the base.
LEMMA WriteOpenExact ==
    ASSUME Inv, Exact, Grows, NEW h \in Handlers, WriteOpen(h)
    PROVE  Exact'
<1>1. /\ UNCHANGED <<dirty, base, said, open, overlapped, home, on, todo, buf, req,
                     man, snap, chunks, manifests, cache, pub>>
      /\ pc[h] = "wopen"
  BY Zenon DEF WriteOpen, store, session, aux
<1>2. PICK s \in SessionIds, i \in Index : s = on[h] /\ i = Min(todo[h]) /\ i \in todo[h]
  BY <1>1, AtStep, Zenon DEF Writing
<1>3. files' = [files EXCEPT ![s][i] = ZeroChunk]
  BY <1>2, Zenon DEF WriteOpen
<1>4. /\ \A t \in SessionIds \ {s} : files'[t] = files[t]
      /\ \A j \in Index \ {i} : files'[s][j] = files[s][j]
  BY <1>3, InvTyped, Zenon DEF DiskTypes, Slots
<1>5. /\ fd'[h] = TRUE /\ pc'[h] = "wdata"
      /\ \A g \in Handlers \ {h} : fd'[g] = fd[g] /\ pc'[g] = pc[g]
  BY Tables, Zenon DEF WriteOpen, Goto
<1>6. Continues(h, s)
  BY <1>1, <1>2, <1>4, <1>5, Zenon DEF Continues, Still, Kept, Same
<1>7. Patched(h, s) => Patched(h, s)'
  <2> SUFFICES ASSUME Patched(h, s) PROVE Patched(h, s)'
    BY Zenon
  <2>1. \A j \in Index : j # i \/ i \notin dirty[s] => Shown(s, j)' = Shown(s, j)
    BY <1>1, <1>4, ShownKept, Zenon
  <2>2. /\ \A j \in Index \ todo[h] : Matches(Patch(req[h], j, said[s][j]), Shown(s, j))
        /\ \A j \in todo[h] : Matches(Blur(req[h], j, said[s][j]), Shown(s, j))
        /\ Matches(Patch(req[h], i, said[s][i]), buf[h][i])
    BY <1>1, <1>2, Zenon DEF Patched
  <2>3. todo[h] \subseteq Index
    BY InvTyped, Zenon DEF HandlerTypes
  <2>4. Min(todo'[h]) = i
    BY <1>1, <1>2, Zenon
  <2>5. \A j \in Index \ todo'[h] : Matches(Patch(req'[h], j, said'[s][j]), Shown(s, j)')
    BY <1>1, <1>2, <2>1, <2>2, Zenon
  <2>6. \A j \in todo'[h] : \/ j = i /\ i \in dirty'[s]
                            \/ Matches(Blur(req'[h], j, said'[s][j]), Shown(s, j)')
    BY <1>1, <2>1, <2>2, <2>3, Zenon
  <2>7. Matches(Patch(req'[h], i, said'[s][i]), buf'[h][i])
    BY <1>1, <2>2, Zenon
  <2> QED BY <1>5, <2>4, <2>5, <2>6, <2>7, Zenon DEF Patched
<1>8. Orderly'
  BY <1>1, <1>5, <1>6, <1>7, OrderlyWrite, Zenon DEF Writing
<1> QED BY <1>1, <1>8, AddressedKept, PublishedKept, Zenon DEF Exact

\* The file has its data and the chunk is dirty: it is shown as written.
LEMMA WriteDataExact ==
    ASSUME Inv, Exact, Grows, NEW h \in Handlers, WriteData(h)
    PROVE  Exact'
<1>1. /\ UNCHANGED <<base, open, overlapped, home, chunks, manifests, cache, pub>>
      /\ pc[h] = "wdata"
  BY Zenon DEF WriteData, store
<1>2. PICK s \in SessionIds, i \in Index :
          /\ s = on[h] /\ i = Min(todo[h]) /\ i \in todo[h] /\ home[s] # None
          /\ buf[h][i] \in Chunk /\ buf[h][i] # None
  BY <1>1, AtStep, SentinelsAssumption, Zenon DEF Writing
<1>3. /\ files' = IF fd[h] THEN [files EXCEPT ![s][i] = buf[h][i]] ELSE files
      /\ dirty' = [dirty EXCEPT ![s] = dirty[s] \cup {i}]
  BY <1>2, Zenon DEF WriteData
<1>4. /\ \A t \in SessionIds \ {s} : files'[t] = files[t] /\ dirty'[t] = dirty[t]
      /\ \A j \in Index \ {i} : files'[s][j] = files[s][j]
      /\ fd[h] => files'[s][i] = buf[h][i]
      /\ dirty'[s] = dirty[s] \cup {i}
  <2>2. /\ \A t \in SessionIds \ {s} : files'[t] = files[t]
        /\ \A j \in Index \ {i} : files'[s][j] = files[s][j]
        /\ fd[h] => files'[s][i] = buf[h][i]
    <3>1. CASE fd[h] BY <1>3, <3>1, Tables, Rows, Zenon
    <3>2. CASE ~fd[h] BY <1>3, <3>2, Zenon
    <3> QED BY <3>1, <3>2, Zenon
  <2>3. dirty'[s] = dirty[s] \cup {i} /\ \A t \in SessionIds \ {s} : dirty'[t] = dirty[t]
    BY <1>3, Tables, Zenon
  <2> QED BY <2>2, <2>3, Zenon
<1>5. todo[h] \subseteq Index
  BY InvTyped, Zenon DEF HandlerTypes
<1>6. ASSUME s \notin overlapped, s \in open
      PROVE  /\ Shown(s, i)' = buf[h][i]
             /\ \A j \in Index \ {i} : Shown(s, j)' = Shown(s, j)
             /\ \A j \in Index \ todo[h] : Matches(Patch(req[h], j, said[s][j]), Shown(s, j))
             /\ \A j \in todo[h] \ {i} : Matches(Blur(req[h], j, said[s][j]), Shown(s, j))
             /\ Matches(Patch(req[h], i, said[s][i]), buf[h][i])
  <2>1. Patched(h, s)
    BY <1>1, <1>2, <1>6, PatchedNow, Zenon DEF Writing
  <2>2. Shown(s, i)' = buf[h][i]
    BY <1>1, <1>2, <1>4, <2>1, Zenon DEF Patched, Shown
  <2>3. \A j \in Index \ {i} : Shown(s, j)' = Shown(s, j)
    BY <1>1, <1>4, ShownKept, Zenon
  <2> QED BY <1>1, <1>2, <2>1, <2>2, <2>3, Zenon DEF Patched
<1>7. ASSUME NEW left, left = todo[h] \ {i}, left # {}, Goto(h, "wresolve"),
             todo' = [todo EXCEPT ![h] = left], buf' = [buf EXCEPT ![h] = NoChunks],
             fd' = [fd EXCEPT ![h] = FALSE], UNCHANGED <<on, req, man, snap, said>>
      PROVE  Orderly'
  <2>1. /\ pc'[h] = "wresolve" /\ todo'[h] = left
        /\ \A g \in Handlers \ {h} : pc'[g] = pc[g] /\ todo'[g] = todo[g] /\ buf'[g] = buf[g]
                                      /\ fd'[g] = fd[g]
    BY <1>7, Tables, Zenon DEF Goto
  <2>2. Continues(h, s)
    BY <1>1, <1>2, <1>4, <1>7, <2>1, Zenon DEF Continues, Still, Kept, Same
  <2>3. s \notin overlapped /\ s \in open => Patched(h, s)'
    <3> SUFFICES ASSUME s \notin overlapped, s \in open PROVE Patched(h, s)'
      BY Zenon
    <3>1. \A j \in Index \ todo'[h] : Matches(Patch(req'[h], j, said'[s][j]), Shown(s, j)')
      <4> SUFFICES ASSUME NEW j \in Index, j \notin left
                   PROVE  Matches(Patch(req[h], j, said[s][j]), Shown(s, j)')
        BY <1>7, <2>1, Zenon
      <4>1. CASE j = i
        BY <1>6, <4>1, Zenon
      <4>2. CASE j # i
        BY <1>6, <1>7, <4>2, Zenon
      <4> QED BY <4>1, <4>2, Zenon
    <3>2. \A j \in todo'[h] : Matches(Blur(req'[h], j, said'[s][j]), Shown(s, j)')
      BY <1>5, <1>6, <1>7, <2>1, ZenonT(60)
    <3>3. pc'[h] \notin {"wopen", "wdata"}
      BY <2>1, Zenon
    <3> QED BY <3>1, <3>2, <3>3, Zenon DEF Patched
  <2> QED BY <1>1, <2>1, <2>2, <2>3, OrderlyWrite, Zenon DEF Writing
<1>8. ASSUME todo[h] \ {i} = {}, Reply(h),
             said' = [said EXCEPT ![s] = [j \in Index |-> Patch(req[h], j, said[s][j])]]
      PROVE  Orderly'
  <2>1. /\ \A t \in SessionIds \ {s} : said'[t] = said[t]
        /\ \A j \in Index : said'[s][j] = Patch(req[h], j, said[s][j])
    BY <1>8, InvTyped, Zenon DEF AuxTypes
  <2>2. \A t \in SessionIds \ {s} : Same(t)
    BY <1>1, <1>4, <2>1, Zenon DEF Same
  <2>3. s \notin overlapped /\ s \in open => Shows(s)'
    <3> SUFFICES ASSUME s \notin overlapped, s \in open, NEW j \in Index
                 PROVE  Matches(said'[s][j], Shown(s, j)')
      BY Zenon DEF Shows
    <3>1. CASE j = i
      BY <1>6, <2>1, <3>1, Zenon
    <3>2. CASE j # i
      BY <1>6, <1>8, <2>1, <3>2, ZenonT(60)
    <3> QED BY <3>1, <3>2, Zenon
  <2>4. \A g \in Handlers \ {h} : fd'[g] = fd[g]
    BY <1>8, InvTyped, Zenon DEF Reply, HandlerTypes
  <2> QED BY <1>1, <1>2, <1>8, <2>2, <2>3, <2>4, OrderlyLeave, ZenonT(60) DEF Reply
<1>9. Orderly'
  BY <1>2, <1>7, <1>8, Zenon DEF WriteData
<1> QED BY <1>1, <1>9, AddressedKept, PublishedKept, Zenon DEF Exact

\* What is told after a write that failed.
LEMMA Doubtful ==
    ASSUME Inv, NEW s \in SessionIds, NEW r, NEW torn, Doubt(s, r, torn)
    PROVE  /\ \A t \in SessionIds \ {s} : said'[t] = said[t]
           /\ \A j \in Index \ torn : said'[s][j] = Blur(r, j, said[s][j])
           /\ \A j \in Index \cap torn : \A c : Matches(said'[s][j], c)
<1>1. /\ \A t \in SessionIds \ {s} : said'[t] = said[t]
      /\ \A j \in Index : said'[s][j] = [o \in Offsets |->
             IF Covers(r, j, o) \/ j \in torn THEN Unknown ELSE said[s][j][o]]
  BY InvTyped, Zenon DEF Doubt, AuxTypes
<1>2. \A j \in Index \ torn : said'[s][j] = Blur(r, j, said[s][j])
  BY <1>1, Zenon DEF Blur
<1>3. \A j \in Index \cap torn, o \in Offsets : said'[s][j][o] = Unknown
  BY <1>1, ZenonT(60)
<1> QED BY <1>1, <1>2, <1>3, Zenon DEF Matches

LEMMA WriteErrorExact ==
    ASSUME Inv, Exact, Grows, NEW h \in Handlers, WriteError(h)
    PROVE  Exact'
<1>1. /\ UNCHANGED <<files, dirty, base, open, overlapped, home, chunks, manifests, pub>>
      /\ pc[h] \in Writing \ {"wdata"} /\ Reply(h) /\ Doubt(on[h], req[h], {})
  BY Zenon DEF WriteError, store, disk, session, Writing
<1>2. PICK s \in SessionIds, i \in Index :
          s = on[h] /\ i = Min(todo[h]) /\ home[s] \in Nodes /\ home[s] # None
  BY <1>1, AtStep, SentinelsAssumption, Zenon DEF Writing
<1>3. /\ \A t \in SessionIds \ {s} : said'[t] = said[t]
      /\ \A j \in Index : said'[s][j] = Blur(req[h], j, said[s][j])
  <2>1. PICK r, torn : r = req[h] /\ torn = {} /\ Doubt(s, r, torn)
    BY <1>1, <1>2, Zenon
  <2>2. /\ \A t \in SessionIds \ {s} : said'[t] = said[t]
        /\ \A j \in Index \ torn : said'[s][j] = Blur(r, j, said[s][j])
    BY <2>1, Doubtful
  <2> QED BY <2>1, <2>2, Zenon
<1>4. \A t \in SessionIds \ {s} : Same(t)
  BY <1>1, <1>3, Zenon DEF Same
<1>5. s \notin overlapped /\ s \in open => Shows(s)'
  <2> SUFFICES ASSUME s \notin overlapped, s \in open PROVE Shows(s)'
    BY Zenon
  <2>1. Patched(h, s)
    BY <1>1, <1>2, PatchedNow, Zenon
  <2>2. \A j \in Index : Matches(Blur(req[h], j, said[s][j]), Shown(s, j))
    BY <1>1, <2>1, MatchesPatch, Zenon DEF Patched
  <2>3. \A j \in Index : Shown(s, j)' = Shown(s, j)
    BY <1>1, ShownKept, Zenon
  <2> QED BY <1>3, <2>2, <2>3, Zenon DEF Shows
<1>6. \A g \in Handlers \ {h} : fd'[g] = fd[g]
  BY <1>1, InvTyped, Zenon DEF Reply, HandlerTypes
<1>7. Orderly'
  BY <1>1, <1>2, <1>4, <1>5, <1>6, OrderlyLeave, ZenonT(60) DEF Reply
<1>8. Addressed'
  <2>1. CASE UNCHANGED cache
    BY <1>1, <2>1, AddressedKept, Zenon
  <2>2. CASE FillCache(s, i)
    BY <1>1, <1>2, <2>2, FillAddressed, Zenon
  <2> QED BY <1>2, <2>1, <2>2, Zenon DEF WriteError
<1> QED BY <1>1, <1>7, <1>8, PublishedKept, Zenon DEF Exact

LEMMA WriteTornExact ==
    ASSUME Inv, Exact, Grows, NEW h \in Handlers, NEW n, WriteTorn(h, n)
    PROVE  Exact'
<1>1. /\ UNCHANGED <<dirty, base, open, overlapped, home, chunks, manifests, cache, pub>>
      /\ pc[h] = "wdata" /\ Reply(h)
  BY Zenon DEF WriteTorn, store, session
<1>2. PICK s \in SessionIds, i \in Index : s = on[h] /\ i = Min(todo[h]) /\ home[s] # None
  BY <1>1, AtStep, SentinelsAssumption, Zenon DEF Writing
<1>3. PICK c : files' = files \/ files' = [files EXCEPT ![s][i] = c]
  BY <1>2, Zenon DEF WriteTorn
<1>4. /\ \A t \in SessionIds \ {s} : files'[t] = files[t]
      /\ \A j \in Index \ {i} : files'[s][j] = files[s][j]
  BY <1>3, InvTyped, ZenonT(60) DEF DiskTypes, Slots
<1>5. PICK r, torn : r = req[h] /\ torn = dirty[s] \cap {i} /\ Doubt(s, r, torn)
  BY <1>2, Zenon DEF WriteTorn
<1>6. /\ \A t \in SessionIds \ {s} : said'[t] = said[t]
      /\ \A j \in Index \ torn : said'[s][j] = Blur(r, j, said[s][j])
      /\ \A j \in Index \cap torn : \A d : Matches(said'[s][j], d)
  BY <1>5, Doubtful
<1>7. \A t \in SessionIds \ {s} : Same(t)
  BY <1>1, <1>4, <1>6, Zenon DEF Same
<1>8. s \notin overlapped /\ s \in open => Shows(s)'
  <2> SUFFICES ASSUME s \notin overlapped, s \in open, NEW j \in Index
               PROVE  Matches(said'[s][j], Shown(s, j)')
    BY Zenon DEF Shows
  <2>1. Patched(h, s)
    BY <1>1, <1>2, PatchedNow, Zenon DEF Writing
  <2>2. CASE j \in torn
    BY <1>6, <2>2, Zenon
  <2>3. CASE j \notin torn
    <3>1. j # i \/ i \notin dirty[s]
      BY <1>5, <2>3, Zenon
    <3>2. Shown(s, j)' = Shown(s, j)
      BY <1>1, <1>4, <3>1, ShownKept, Zenon
    <3>3. Matches(Blur(r, j, said[s][j]), Shown(s, j))
      BY <1>2, <1>5, <2>1, <3>1, MatchesPatch, ZenonT(60) DEF Patched
    <3> QED BY <1>6, <2>3, <3>2, <3>3, Zenon
  <2> QED BY <2>2, <2>3, Zenon
<1>9. \A g \in Handlers \ {h} : fd'[g] = fd[g]
  BY <1>1, InvTyped, Zenon DEF Reply, HandlerTypes
<1>10. Orderly'
  BY <1>1, <1>2, <1>7, <1>8, <1>9, OrderlyLeave, ZenonT(60) DEF Reply
<1> QED BY <1>1, <1>10, AddressedKept, PublishedKept, Zenon DEF Exact

-----------------------------------------------------------------------------
(* Commit.                                                                 *)

LEMMA CommitExact ==
    ASSUME Inv, Exact, Grows, NEW h \in Handlers, NEW s \in SessionIds, Commit(h, s)
    PROVE  Exact'
<1>1. /\ UNCHANGED <<files, dirty, base, said, open, home, buf, fd, req, snap,
                     chunks, manifests, cache, pub>>
      /\ Lookup(h, s)
  BY Zenon DEF Commit, store, disk, session
<1>2. /\ pc'[h] = (IF dirty[s] = {} THEN "cmanifest" ELSE "cread")
      /\ todo'[h] = dirty[s] /\ man'[h] = base[s]
      /\ \A g \in Handlers \ {h} : pc'[g] = pc[g] /\ on'[g] = on[g] /\ todo'[g] = todo[g]
                                    /\ man'[g] = man[g]
  BY Tables, ZenonT(60) DEF Commit, Lookup, Goto
<1>3. \A g \in Handlers \ {h} : Still(g)
  BY <1>1, <1>2, Zenon DEF Still, Kept
<1>4. /\ Moves(h, s) /\ on'[h] = s
      /\ s \notin overlapped' => Shows(s)
  BY <1>1, <1>3, LookupMoves, Zenon
<1>5. Shows(s) => Shows(s)'
  BY <1>1, ShowsKept, Zenon
<1>6. \A i \in Index : buf'[h][i] = None
  BY <1>1, Zenon DEF Lookup, Exact, Orderly, Tidy
<1>7. Tidy(h)' /\ pc'[h] \notin {"sload", "cclear"} /\ pc'[h] \notin Writing
  BY <1>2, <1>6, Zenon DEF Tidy, Drained, Publishing, Writing
<1>8. Shows(s) => \A i \in Index : Gathered(h, s, i)'
  BY <1>1, <1>2, <1>6, Zenon DEF Shows, Shown, Gathered
<1>9. Shows(s) => Serves(h, s)'
  BY <1>7, <1>8, Zenon DEF Serves
<1>10. Orderly'
  BY <1>4, <1>5, <1>7, <1>9, OrderlyMove, Zenon
<1> QED BY <1>1, <1>10, AddressedKept, PublishedKept, Zenon DEF Exact

\* What holds when a commit moves.
LEMMA GatheredNow ==
    ASSUME Exact, NEW h \in Handlers, NEW s \in SessionIds, on[h] = s, s \notin overlapped,
           pc[h] \in Committing
    PROVE  \A i \in Index : Gathered(h, s, i)
BY OnlyOne, Zenon DEF Exact, Serves

LEMMA CommitReadExact ==
    ASSUME Inv, Exact, Grows, NEW h \in Handlers, CommitRead(h)
    PROVE  Exact'
<1>1. /\ UNCHANGED <<files, dirty, base, said, open, overlapped, home, on, fd, req, man, snap,
                     chunks, manifests, cache, pub>>
      /\ pc[h] = "cread"
  BY Zenon DEF CommitRead, store, disk, session, aux
<1>2. PICK s \in SessionIds, i \in Index : s = on[h] /\ i = Min(todo[h]) /\ i \in todo[h]
  BY <1>1, AtStep, Zenon
<1>3. PICK chunk : /\ chunk = files[s][i] /\ chunk # None
                   /\ buf' = [buf EXCEPT ![h][i] = chunk]
                   /\ todo' = [todo EXCEPT ![h] = todo[h] \ {i}]
                   /\ \E l \in {"cput", "cread"} : pc' = [pc EXCEPT ![h] = l]
  BY <1>2, Zenon DEF CommitRead, Goto
<1>4. /\ buf'[h][i] = chunk /\ (\A j \in Index \ {i} : buf'[h][j] = buf[h][j])
      /\ todo'[h] = todo[h] \ {i} /\ pc'[h] \in {"cput", "cread"}
      /\ \A g \in Handlers \ {h} : pc'[g] = pc[g] /\ todo'[g] = todo[g] /\ buf'[g] = buf[g]
  <2>2. /\ buf'[h][i] = chunk /\ (\A j \in Index \ {i} : buf'[h][j] = buf[h][j])
        /\ \A g \in Handlers \ {h} : buf'[g] = buf[g]
    BY <1>3, Tables, Rows, Zenon
  <2>3. todo'[h] = todo[h] \ {i} /\ \A g \in Handlers \ {h} : todo'[g] = todo[g]
    BY <1>3, Tables, Zenon
  <2>4. pc'[h] \in {"cput", "cread"} /\ \A g \in Handlers \ {h} : pc'[g] = pc[g]
    BY <1>3, Tables, Zenon
  <2> QED BY <2>2, <2>3, <2>4, Zenon
<1>5. Continues(h, s) /\ Same(s)
  BY <1>1, <1>2, <1>4, Zenon DEF Continues, Still, Kept, Same
<1>6. Tidy(h)' /\ pc[h] \in Committing /\ pc'[h] \in Committing \ {"cclear"}
  BY <1>1, <1>4, Zenon DEF Tidy, Committing, Drained, Publishing
<1>7. s \notin overlapped => \A j \in Index : Gathered(h, s, j)'
  <2> SUFFICES ASSUME s \notin overlapped, NEW j \in Index PROVE Gathered(h, s, j)'
    BY Zenon
  <2>1. Gathered(h, s, j)
    BY <1>2, <1>6, GatheredNow, Zenon
  <2>2. CASE j = i
    BY <1>1, <1>2, <1>3, <1>4, <2>1, <2>2, Zenon DEF Gathered
  <2>3. CASE j # i
    BY <1>1, <1>4, <2>1, <2>3, Zenon DEF Gathered
  <2> QED BY <2>2, <2>3, Zenon
<1>8. Orderly'
  BY <1>5, <1>6, <1>7, OrderlyCommit, Zenon
<1> QED BY <1>1, <1>8, AddressedKept, PublishedKept, Zenon DEF Exact

LEMMA CommitPutExact ==
    ASSUME Inv, Exact, Grows, NEW h \in Handlers, CommitPut(h)
    PROVE  Exact'
<1>1. /\ UNCHANGED <<files, dirty, base, said, open, overlapped, home, on, todo, fd, req, snap,
                     manifests, pub>>
      /\ pc[h] = "cput" /\ UploadChunk(h, buf[h][Min(Pending(h))])
  BY Zenon DEF CommitPut, UploadChunk, disk, aux
<1>2. PICK s \in SessionIds, i \in Index, c \in Chunk :
          s = on[h] /\ i = Min(Pending(h)) /\ c = buf[h][i] /\ c # None /\ home[s] \in Nodes
  BY <1>1, AtStep, SentinelsAssumption, ZenonT(60)
<1>3. PICK id \in ChunkIds : id = HashChunk(c)
  BY HashChunkType, Zenon
<1>4. id # None /\ Addressed' /\ chunks'[id] = c
  BY <1>1, <1>2, <1>3, UploadAddressed, SentinelsAssumption, Zenon
<1>5. /\ man' = [man EXCEPT ![h][i] = id]
      /\ buf' = [buf EXCEPT ![h][i] = None]
      /\ pc' = [pc EXCEPT ![h] = IF Pending(h) # {i} THEN "cput"
                                 ELSE IF todo[h] # {} THEN "cread" ELSE "cmanifest"]
  BY <1>2, <1>3, Zenon DEF CommitPut, Goto
<1>6. /\ man'[h][i] = id /\ (\A j \in Index \ {i} : man'[h][j] = man[h][j])
      /\ \A g \in Handlers \ {h} : man'[g] = man[g]
  BY <1>5, Tables, Rows, Zenon
<1>7. /\ buf'[h][i] = None /\ (\A j \in Index \ {i} : buf'[h][j] = buf[h][j])
      /\ \A g \in Handlers \ {h} : buf'[g] = buf[g]
  BY <1>5, Tables, Rows, Zenon
<1>8. /\ pc'[h] \in {"cput", "cread", "cmanifest"}
      /\ pc'[h] = "cmanifest" => Pending(h) = {i} /\ todo[h] = {}
      /\ \A g \in Handlers \ {h} : pc'[g] = pc[g]
  BY <1>5, Tables, Zenon
<1>9. Continues(h, s) /\ Same(s)
  BY <1>1, <1>2, <1>6, <1>7, <1>8, Zenon DEF Continues, Still, Kept, Same
<1>10. Tidy(h)'
  <2>1. pc'[h] = "cmanifest" => \A j \in Index : buf'[h][j] = None
    BY <1>7, <1>8, Zenon DEF Pending
  <2> QED BY <1>1, <1>8, <2>1, Zenon DEF Tidy, Drained, Publishing
<1>11. pc[h] \in Committing /\ pc'[h] \in Committing \ {"cclear"}
  BY <1>1, <1>8, Zenon DEF Committing, Drained
<1>12. s \notin overlapped => \A j \in Index : Gathered(h, s, j)'
  <2> SUFFICES ASSUME s \notin overlapped, NEW j \in Index PROVE Gathered(h, s, j)'
    BY Zenon
  <2>1. Gathered(h, s, j)
    BY <1>2, <1>11, GatheredNow, Zenon
  <2>2. CASE j = i
    <3>1. man'[h][j] = id /\ chunks'[id] = c /\ id # None
      BY <1>4, <1>6, <2>2, Zenon
    <3>2. Content(man'[h], chunks')[j] = c
      BY <3>1, ContentAt, Zenon
    <3> QED BY <1>1, <1>2, <1>7, <2>1, <2>2, <3>2, ZenonT(60) DEF Gathered
  <2>3. CASE j # i
    <3>1. Content(man'[h], chunks')[j] = Content(man[h], chunks')[j]
      <4>1. man'[h][j] = man[h][j]
        BY <1>6, <2>3, Zenon
      <4>2. Content(man'[h], chunks')[j] =
              IF man'[h][j] = None THEN ZeroChunk ELSE chunks'[man'[h][j]]
        BY ContentAt, Zenon
      <4>3. Content(man[h], chunks')[j] =
              IF man[h][j] = None THEN ZeroChunk ELSE chunks'[man[h][j]]
        BY ContentAt, Zenon
      <4> QED BY <4>1, <4>2, <4>3, Zenon
    <3>2. Content(man[h], chunks') = Content(man[h], chunks)
      BY ManContent, Zenon
    <3> QED BY <1>1, <1>7, <2>1, <2>3, <3>1, <3>2, Zenon DEF Gathered
  <2> QED BY <2>2, <2>3, Zenon
<1>13. Orderly'
  BY <1>9, <1>10, <1>11, <1>12, OrderlyCommit, Zenon
<1> QED BY <1>1, <1>4, <1>13, PublishedKept, Zenon DEF Exact

-----------------------------------------------------------------------------
(* A commit publishes: Exact is inductive.                                 *)


\* A commit that has put every chunk stays tidy.
LEMMA StaysTidy ==
    ASSUME Exact, NEW h \in Handlers, pc[h] \in Drained, pc'[h] # "idle", UNCHANGED <<buf, todo>>
    PROVE  Tidy(h)'
<1>1. Tidy(h)
  BY Zenon DEF Exact, Orderly
<1>2. (\A i \in Index : buf[h][i] = None) /\ todo[h] = {}
  BY <1>1, Zenon DEF Tidy
<1> QED BY <1>2, Zenon DEF Tidy

LEMMA CommitManifestExact ==
    ASSUME Inv, Exact, Grows, NEW h \in Handlers, NEW p \in SnapshotIds, CommitManifest(h, p)
    PROVE  Exact'
<1>1. /\ UNCHANGED <<files, dirty, base, said, open, overlapped, home, on, todo, buf, fd, req,
                     man, chunks, cache>>
      /\ pc[h] = "cmanifest" /\ saveManifest(h, p)
  BY Zenon DEF CommitManifest, saveManifest, disk
<1>2. PICK s \in SessionIds : s = on[h]
  BY <1>1, AtStep, Zenon
<1>3. /\ pc'[h] = "crecord"
      /\ \A g \in Handlers \ {h} : pc'[g] = pc[g] /\ snap'[g] = snap[g]
  BY InvTyped, Zenon DEF CommitManifest, Goto, HandlerTypes
<1>4. Continues(h, s) /\ Same(s)
  BY <1>1, <1>2, <1>3, Zenon DEF Continues, Still, Kept, Same
<1>5. pc[h] \in Drained /\ pc[h] \in Committing /\ pc'[h] \in Committing \ {"cclear"}
  BY <1>1, <1>3, Zenon DEF Committing, Drained, Publishing
<1>6. Tidy(h)'
  BY <1>1, <1>3, <1>5, StaysTidy, Zenon
<1>7. s \notin overlapped => \A i \in Index : Gathered(h, s, i)'
  BY <1>1, <1>2, <1>5, GatheredNow, Zenon DEF Gathered
<1>8. Orderly'
  BY <1>4, <1>5, <1>6, <1>7, OrderlyCommit, Zenon
<1>9. Published'
  BY <1>1, <1>2, SavePublished, Zenon
<1> QED BY <1>1, <1>8, <1>9, AddressedKept, Zenon DEF Exact

LEMMA CommitRecordExact ==
    ASSUME Inv, Exact, Grows, NEW h \in Handlers, CommitRecord(h)
    PROVE  Exact'
<1>1. /\ UNCHANGED <<files, dirty, base, said, open, overlapped, home, on, todo, buf, fd, req,
                     man, snap, chunks, manifests, cache, pub>>
      /\ pc[h] = "crecord"
  BY Zenon DEF CommitRecord, CreateSnapshot, store, disk, aux, locals
<1>2. PICK s \in SessionIds : s = on[h]
  BY <1>1, AtStep, Zenon
<1>3. pc'[h] = "cpoint" /\ \A g \in Handlers \ {h} : pc'[g] = pc[g]
  BY InvTyped, Zenon DEF CommitRecord, Goto, HandlerTypes
<1>4. Continues(h, s) /\ Same(s)
  BY <1>1, <1>2, <1>3, Zenon DEF Continues, Still, Kept, Same
<1>5. pc[h] \in Drained /\ pc[h] \in Committing /\ pc'[h] \in Committing \ {"cclear"}
  BY <1>1, <1>3, Zenon DEF Committing, Drained, Publishing
<1>6. Tidy(h)'
  BY <1>1, <1>3, <1>5, StaysTidy, Zenon
<1>7. s \notin overlapped => \A i \in Index : Gathered(h, s, i)'
  BY <1>1, <1>2, <1>5, GatheredNow, Zenon DEF Gathered
<1>8. Orderly'
  BY <1>4, <1>5, <1>6, <1>7, OrderlyCommit, Zenon
<1> QED BY <1>1, <1>8, AddressedKept, PublishedKept, Zenon DEF Exact

\* The new base holds what the session acknowledged, below the old overlay.
LEMMA CommitPointExact ==
    ASSUME Inv, Exact, Grows, NEW h \in Handlers, CommitPoint(h)
    PROVE  Exact'
<1>1. /\ UNCHANGED <<files, dirty, said, open, overlapped, home, on, todo, buf, fd, req,
                     man, snap, chunks, manifests, cache, pub>>
      /\ pc[h] = "cpoint"
  BY Zenon DEF CommitPoint, UpdateLatestSnapshot, store, disk, aux, locals
<1>2. PICK s \in SessionIds : s = on[h]
  BY <1>1, AtStep, Zenon
<1>3. /\ pc'[h] = "cclear" /\ \A g \in Handlers \ {h} : pc'[g] = pc[g]
      /\ base'[s] = man[h] /\ \A t \in SessionIds \ {s} : base'[t] = base[t]
  BY <1>2, InvTyped, Zenon DEF CommitPoint, Goto, HandlerTypes, SessionTypes
<1>4. Continues(h, s)
  BY <1>1, <1>2, <1>3, Zenon DEF Continues, Still, Kept, Same
<1>5. pc[h] \in Drained /\ pc[h] \in Committing /\ pc[h] \notin Writing
  BY <1>1, Zenon DEF Committing, Drained, Publishing, Writing
<1>6. pc'[h] \in Drained /\ pc'[h] \notin Writing /\ pc'[h] # "sload"
  BY <1>3, Zenon DEF Drained, Publishing, Writing
<1>7. Tidy(h)'
  BY <1>1, <1>3, <1>5, StaysTidy, Zenon
<1>8. s \notin overlapped => Serves(h, s)'
  <2>1. s \notin overlapped => \A i \in Index : Gathered(h, s, i)'
    BY <1>1, <1>2, <1>5, GatheredNow, Zenon DEF Gathered
  <2> QED BY <1>1, <1>3, <1>6, <2>1, Zenon DEF Serves
<1>9. s \notin overlapped /\ s \in open => Shows(s)'
  <2> SUFFICES ASSUME s \notin overlapped, s \in open, NEW i \in Index
               PROVE  Matches(said'[s][i], Shown(s, i)')
    BY Zenon DEF Shows
  <2>1. Matches(said[s][i], Shown(s, i))
    BY <1>2, <1>5, AloneShows, Zenon DEF Shows
  <2>2. Matches(said[s][i], Content(man[h], chunks)[i])
    BY <1>2, <1>5, DrainedGathers, Zenon
  <2>3. Shown(s, i)' = Shown(s, i) \/ Shown(s, i)' = Content(man[h], chunks)[i]
    BY <1>1, <1>3, Zenon DEF Shown
  <2> QED BY <1>1, <2>1, <2>2, <2>3, Zenon
<1>10. Orderly'
  BY <1>1, <1>4, <1>5, <1>7, <1>8, <1>9, OrderlyContinue, Zenon
<1> QED BY <1>1, <1>10, AddressedKept, PublishedKept, Zenon DEF Exact

\* Files that go when the base already is the committed manifest.
LEMMA ClearedShows ==
    ASSUME Inv, Exact, Grows, NEW h \in Handlers, NEW s \in SessionIds, on[h] = s,
           pc[h] = "cclear", s \notin overlapped, s \in open,
           said'[s] = said[s], base'[s] = base[s], dirty'[s] \subseteq dirty[s],
           \A i \in Index : files'[s][i] \in {files[s][i], None}
    PROVE  Shows(s)'
<1> SUFFICES ASSUME NEW i \in Index PROVE Matches(said[s][i], Shown(s, i)')
  BY Zenon DEF Shows
<1>1. pc[h] \in Drained /\ pc[h] \notin Writing
  BY Zenon DEF Drained, Publishing, Writing
<1>2. Matches(said[s][i], Shown(s, i))
  BY <1>1, AloneShows, Zenon DEF Shows
<1>3. base[s] = man[h]
  BY OnlyOne, Zenon DEF Exact, Serves
<1>4. Matches(said[s][i], Content(base[s], chunks)[i])
  BY <1>1, <1>3, DrainedGathers, Zenon
<1>5. Content(base'[s], chunks') = Content(base[s], chunks)
  BY BaseContent, Zenon
<1>6. Shown(s, i)' = Shown(s, i) \/ Shown(s, i)' = Content(base[s], chunks)[i]
  BY <1>5, Zenon DEF Shown
<1> QED BY <1>2, <1>4, <1>6, Zenon

LEMMA CommitClearExact ==
    ASSUME Inv, Exact, Grows, NEW h \in Handlers, CommitClear(h) \/ CommitClearError(h)
    PROVE  Exact'
<1>1. /\ UNCHANGED <<base, said, open, overlapped, home, chunks, manifests, cache, pub>>
      /\ pc[h] = "cclear" /\ Leave(h)
  BY Zenon DEF CommitClear, CommitClearError, store, session, aux
<1>2. PICK s \in SessionIds : s = on[h] /\ home[s] # None
  BY <1>1, AtStep, SentinelsAssumption, Zenon
<1>3. /\ \A t \in SessionIds \ {s} : files'[t] = files[t] /\ dirty'[t] = dirty[t]
      /\ \A i \in Index : files'[s][i] \in {files[s][i], None}
      /\ dirty'[s] \subseteq dirty[s]
  <2>1. CASE CommitClear(h)
    BY <1>2, <2>1, InvTyped, Zenon DEF CommitClear, DiskTypes, SessionTypes, NoChunks
  <2>2. CASE CommitClearError(h)
    BY <1>2, <2>2, OverlayFiles, Zenon DEF CommitClearError, session
  <2> QED BY <2>1, <2>2, Zenon
<1>4. \A t \in SessionIds \ {s} : Same(t)
  BY <1>1, <1>3, Zenon DEF Same
<1>5. \A g \in Handlers \ {h} : on[g] # s => fd'[g] = fd[g]
  BY <1>2, UnlinkOthers, Zenon DEF CommitClear, CommitClearError
<1>6. s \notin overlapped /\ s \in open' => Shows(s)'
  BY <1>1, <1>2, <1>3, ClearedShows, Zenon
<1>7. Orderly'
  BY <1>1, <1>2, <1>4, <1>5, <1>6, OrderlyLeave, Zenon
<1> QED BY <1>1, <1>7, AddressedKept, PublishedKept, Zenon DEF Exact

LEMMA CommitErrorExact ==
    ASSUME Inv, Exact, Grows, NEW h \in Handlers, CommitError(h)
    PROVE  Exact'
<1>1. UNCHANGED <<files, dirty, open, home>> /\ Reply(h)
  BY Zenon DEF CommitError, disk
<1>2. UNCHANGED <<base, said, overlapped>>
  BY Zenon DEF CommitError, UploadChunk, saveManifest, CreateSnapshot, UpdateLatestSnapshot, aux
<1>3. pc[h] \in {"cread", "cput", "cmanifest", "crecord", "cpoint"}
  BY Zenon DEF CommitError, UploadChunk, saveManifest, CreateSnapshot, UpdateLatestSnapshot
<1>4. on[h] \in SessionIds /\ home[on[h]] \in Nodes
  BY <1>3, AtStep, Zenon
<1>5. Orderly'
  <2>1. pc[h] \notin Writing \cup {"idle"}
    BY <1>3, Zenon DEF Writing
  <2> QED BY <1>1, <1>2, <2>1, OrderlyQuit, Zenon
<1>6. CASE UNCHANGED <<chunks, manifests, cache, pub>>
  BY <1>5, <1>6, AddressedKept, PublishedKept, Zenon DEF Exact
<1>7. ASSUME NEW i \in Pending(h), i = Min(Pending(h)), UploadChunk(h, buf[h][i])
      PROVE  Exact'
  <2>1. buf[h][i] \in Chunk /\ UNCHANGED <<manifests, pub>>
    BY <1>7, AtStep, Zenon DEF UploadChunk, aux
  <2>2. Addressed'
    BY <1>4, <1>7, <2>1, UploadAddressed, Zenon
  <2> QED BY <1>5, <2>1, <2>2, PublishedKept, Zenon DEF Exact
<1>8. ASSUME NEW p \in SnapshotIds, saveManifest(h, p) PROVE Exact'
  <2>1. UNCHANGED <<chunks, cache>>
    BY <1>8, Zenon DEF saveManifest
  <2> QED BY <1>4, <1>5, <1>8, <2>1, SavePublished, AddressedKept, Zenon DEF Exact
<1> QED BY <1>6, <1>7, <1>8, Zenon
        DEF CommitError, CreateSnapshot, UpdateLatestSnapshot, store, aux

-----------------------------------------------------------------------------
(* Theorems.                                                               *)

LEMMA InitExact == Init => Exact
<1> SUFFICES ASSUME Init PROVE Exact
  BY Zenon
<1>1. (\A h \in Handlers : Tidy(h)) /\ Solo /\ \A s \in SessionIds : Unused(s)
  BY Zenon DEF Init, Tidy, Solo, Unused, NoChunks
<1>2. \A s \in SessionIds : Good(s)
  BY SentinelsAssumption, Zenon DEF Init, Good
<1>3. Addressed /\ Published
  BY Zenon DEF Init, Addressed, Published
<1> QED BY <1>1, <1>2, <1>3, Zenon DEF Exact, Orderly

LEMMA ExactStep == Inv /\ Exact /\ [Next]_vars => Exact'
<1>1. ASSUME Inv, Exact, UNCHANGED vars PROVE Exact'
  <2>1. Grows
    BY <1>1, RestStep, Zenon
  <2>2. Frozen /\ UNCHANGED <<chunks, cache>>
    BY <1>1, Zenon DEF vars, Frozen, store, disk, session, locals, aux
  <2> QED BY <1>1, <2>1, <2>2, FrozenKeeps, AddressedKept, Zenon DEF Exact
<1>2. ASSUME Inv, Exact, Grows, Step PROVE Exact'
  BY <1>2, CreateVolumeExact, StopExact, ReadExact, StartSessionExact, WriteExact, CommitExact,
     StartLoadExact, StartErrorExact, WriteResolveExact, WriteOpenExact, WriteDataExact,
     WriteErrorExact, WriteTornExact, CommitReadExact, CommitPutExact, CommitManifestExact,
     CommitRecordExact, CommitPointExact, CommitClearExact, CommitErrorExact,
     CrashExact, Zenon DEF Step
<1> QED BY <1>1, <1>2, NextSteps, RestStep, Zenon

LEMMA ExactAlways == Safe => [](Inv /\ Exact)
BY InitInv, InvStep, InitExact, ExactStep, PTL DEF Safe

\* CommitWithOptions copies the base manifest and replaces the entries of the
\* chunks it uploaded; whatever fails, is retried or runs beside it, the
\* snapshot it records has, in every byte, what its session had acknowledged,
\* and keeps it.
THEOREM SnapshotExactHolds == Safe => []SnapshotExact
<1>1. Inv /\ Exact => SnapshotExact
  <2> SUFFICES ASSUME Inv, Exact PROVE SnapshotExact
    BY Zenon
  <2>1. \A p \in SnapshotIds : rows[p] # None => manifests[p] # None
    BY Zenon DEF Inv, Durable
  <2>2. \A p \in SnapshotIds : Image(manifests[p]) = Content(manifests[p], chunks)
    BY Zenon DEF Image, Content
  <2> QED BY <2>1, <2>2, Zenon DEF Exact, Published, SnapshotExact
<1> QED BY <1>1, ExactAlways, PTL

\* Read, after Write, failed writes, Commit, failed commits and clears, and on
\* any node that starts from the snapshot: every acknowledged byte is there
\* when the requests of the session did not overlap.
THEOREM AckedWritesVisibleHolds == Safe => []AckedWritesVisible
<1>1. Inv /\ Exact => AckedWritesVisible
  <2> SUFFICES ASSUME Inv, Exact, NEW s \in open, ~Busy(s), s \notin overlapped,
                      NEW i \in Index, NEW chunk \in Visible(s, i)
               PROVE  Matches(said[s][i], chunk)
    BY Zenon DEF AckedWritesVisible, Acknowledged
  <2>1. s \in SessionIds /\ home[s] \in Nodes
    BY InvTyped, Zenon DEF SessionTypes, Inv, Homed
  <2>2. Shows(s)
    BY <2>1, Zenon DEF Busy, Exact, Orderly, Good
  <2>3. BaseChunk(s, i) = {Content(base[s], chunks)[i]}
    BY <2>1, BaseShown, Zenon DEF Exact
  <2>4. chunk = Shown(s, i)
    <3>1. CASE i \in dirty[s]
      BY <2>3, <3>1, Zenon DEF Visible, resolveChunk, Shown
    <3>2. CASE i \notin dirty[s]
      BY <2>3, <3>2, Zenon DEF Visible, resolveChunk, Shown
    <3> QED BY <3>1, <3>2, Zenon
  <2> QED BY <2>2, <2>4, Zenon DEF Shows
<1> QED BY <1>1, ExactAlways, PTL

=============================================================================

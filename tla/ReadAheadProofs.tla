-------------------------- MODULE ReadAheadProofs --------------------------
(* Reads through the read-ahead window, for any device and any number of   *)
(* connections.                                                            *)
EXTENDS ReadAhead, TLAPS

\* What a read has in hand at each of its steps.
Held(c) ==
    /\ pc[c] = "plan" => req[c].len > 0
    /\ pc[c] = "fetch" /\ ~keep[c] => fetch[c] = req[c].len
    /\ pc[c] = "store" => keep[c] /\ DOMAIN got[c] = At(req[c].off, fetch[c])
    /\ pc[c] = "reply" => DOMAIN got[c] = At(req[c].off, req[c].len)
    /\ c \in Reading => \A p \in At(req[c].off, req[c].len) : content[p] \in seen[c][p]

\* Unless it is exposed, the window and the bytes about to become the window
\* are the engine's, and no write is under way while there are any.
Current ==
    /\ \A p \in DOMAIN window : window[p] = content[p]
    /\ \A c \in Conns : pc[c] = "store" => \A p \in DOMAIN got[c] : got[c][p] = content[p]
    /\ window # Nil \/ Storing # {} => Writing = {}
    /\ \A c \in Conns : pc[c] = "reply" => \A p \in DOMAIN got[c] : got[c][p] \in seen[c][p]

Inv ==
    /\ TypeOK /\ FetchFits
    /\ \A c \in Conns : Held(c)
    /\ exposed \/ Current

-----------------------------------------------------------------------------
(* Buffers and ranges. *)

\* A range of a request lies in the device.
LEMMA AtPos == \A off, len : At(off, len) \subseteq Pos
BY Zenon DEF At

\* The empty window is a buffer.
LEMMA NilBuffer == Nil \in Buffers /\ DOMAIN Nil = {}
<1>1. Nil \in [{} -> Values] BY Zenon DEF Nil
<1>2. {} \in SUBSET Pos BY Zenon
<1> QED BY <1>1, <1>2, Zenon DEF Buffers, Nil

\* A buffer is a function on some positions.
LEMMA BufferShape ==
    ASSUME NEW b \in Buffers
    PROVE  /\ DOMAIN b \subseteq Pos
           /\ \A p \in DOMAIN b : b[p] \in Values
BY Zenon DEF Buffers

\* The slice ReadAt and readAheadHit copy out of a buffer.
LEMMA Slice ==
    ASSUME NEW b \in Buffers, NEW S, S \subseteq DOMAIN b
    PROVE  /\ Restrict(b, S) \in Buffers
           /\ DOMAIN Restrict(b, S) = S
           /\ \A p \in S : Restrict(b, S)[p] = b[p]
<1>1. S \in SUBSET Pos BY BufferShape, Zenon
<1>2. Restrict(b, S) = [p \in S |-> b[p]] BY Zenon DEF Restrict
<1>3. \A p \in S : b[p] \in Values BY BufferShape, Zenon
<1>4. Restrict(b, S) \in [S -> Values] BY <1>2, <1>3, Zenon
<1> QED BY <1>1, <1>2, <1>4, Zenon DEF Buffers

\* The engine's content is a buffer too.
LEMMA ContentBuffer ==
    ASSUME content \in [Pos -> Values]
    PROVE  content \in Buffers /\ DOMAIN content = Pos
BY Zenon DEF Buffers

\* planReadAhead never plans less than the request, nor past the device.
LEMMA PlanFits ==
    ASSUME NEW r \in Requests, r.len > 0
    PROVE  /\ fetchLength(r) \in 0 .. Size
           /\ fetchLength(r) >= r.len
           /\ r.off + fetchLength(r) <= Size
BY SizesAssumption DEF Requests, fetchLength

\* A longer range from the same offset contains the shorter one.
LEMMA AtGrows ==
    ASSUME NEW off \in Nat, NEW m \in Nat, NEW n \in Nat, m <= n
    PROVE  At(off, m) \subseteq At(off, n)
BY SizesAssumption DEF At, Pos

-----------------------------------------------------------------------------
(* Every step keeps the types and the bounds of the fetches. *)

\* The three requests that start a read: the range and the first bytes seen.
LEMMA BeginTypes ==
    ASSUME TypeOK, NEW c \in Conns, NEW r \in Requests, Begin(c, r)
    PROVE  req' \in [Conns -> Requests] /\ seen' \in [Conns -> [Pos -> SUBSET Values]]
<1>1. [p \in Pos |-> IF p \in At(r.off, r.len) THEN {content[p]} ELSE {}]
        \in [Pos -> SUBSET Values]
  BY DEF TypeOK
<1> QED BY <1>1, Zenon DEF TypeOK, Begin

\* A recorded read keeps the types of the last read and the streak.
LEMMA RecordTypes ==
    ASSUME TypeOK, NEW r \in Requests, recordRead(r)
    PROVE  /\ last' \in [have : BOOLEAN, off : 0 .. Size, len : 0 .. MaxLength]
           /\ streak' \in Nat
BY DEF TypeOK, recordRead, Requests

\* An answered request leaves empty locals.
LEMMA DoneTypes ==
    ASSUME TypeOK, NEW c \in Conns, Done(c)
    PROVE  /\ pc' \in [Conns -> {"idle", "plan", "fetch", "store", "reply", "write"}]
           /\ req' \in [Conns -> Requests]
           /\ fetch' \in [Conns -> 0 .. Size]
           /\ keep' \in [Conns -> BOOLEAN]
           /\ got' \in [Conns -> Buffers]
<1>1. NoReq \in Requests BY SizesAssumption DEF NoReq, Requests
<1>2. 0 \in 0 .. Size BY SizesAssumption
<1> QED BY <1>1, <1>2, NilBuffer, Zenon DEF TypeOK, Done

\* Bytes the engine takes are seen by the reads that run.
LEMMA ChangeTypes ==
    ASSUME TypeOK, NEW new \in [Pos -> Values], Change(new)
    PROVE  content' \in [Pos -> Values] /\ seen' \in [Conns -> [Pos -> SUBSET Values]]
BY DEF TypeOK, Change

\* A patched content is a content.
LEMMA PatchedContent ==
    ASSUME TypeOK, NEW r, NEW v \in Values
    PROVE  Patched(r, v) \in [Pos -> Values]
BY Zenon DEF TypeOK, Patched

\* The window only ever holds bytes of the device; every variable keeps its type.
LEMMA TypeStep == Inv /\ [Next]_vars => TypeOK'
<1> SUFFICES ASSUME Inv, [Next]_vars PROVE TypeOK'
  BY Zenon
<1> TypeOK BY Zenon DEF Inv
<1>1. ASSUME NEW c \in Conns, NEW r \in Requests, ReadDirect(c, r) PROVE TypeOK'
  <2>1. r.len \in 0 .. Size BY SizesAssumption DEF ReadDirect, Requests
  <2> QED BY <1>1, <2>1, BeginTypes, Zenon DEF ReadDirect, TypeOK, device
<1>2. ASSUME NEW c \in Conns, NEW r \in Requests, ReadHit(c, r) PROVE TypeOK'
  <2>1. Restrict(window, At(r.off, r.len)) \in Buffers
    BY <1>2, Slice, Zenon DEF ReadHit, TypeOK
  <2>2. Begin(c, r) /\ recordRead(r) BY <1>2, Zenon DEF ReadHit
  <2> QED BY <1>2, <2>1, <2>2, BeginTypes, RecordTypes, Zenon DEF ReadHit, TypeOK
<1>3. ASSUME NEW c \in Conns, NEW r \in Requests, ReadMiss(c, r) PROVE TypeOK'
  BY <1>3, BeginTypes, Zenon DEF ReadMiss, TypeOK, device
<1>4. ASSUME NEW c \in Conns, NEW r \in Requests, WriteAt(c, r) PROVE TypeOK'
  <2>1. NoRead \in [have : BOOLEAN, off : 0 .. Size, len : 0 .. MaxLength]
    BY SizesAssumption DEF NoRead
  <2> QED BY <1>4, <2>1, NilBuffer, Zenon DEF WriteAt, TypeOK
<1>5. ASSUME NEW c \in Conns, planReadAhead(c) PROVE TypeOK'
  <2>1. req[c] \in Requests /\ req[c].len > 0 BY <1>5, Zenon DEF planReadAhead, TypeOK, Inv, Held
  <2>2. fetchLength(req[c]) \in 0 .. Size BY <2>1, PlanFits, Zenon
  <2>3. recordRead(req[c]) BY <1>5, Zenon DEF planReadAhead
  <2> QED BY <1>5, <2>1, <2>2, <2>3, RecordTypes DEF planReadAhead, TypeOK
<1>6. ASSUME NEW c \in Conns, BackendRead(c) PROVE TypeOK'
  <2>1. Restrict(content, At(req[c].off, fetch[c])) \in Buffers
    BY Slice, ContentBuffer, AtPos, Zenon DEF TypeOK
  <2> QED BY <1>6, <2>1, Zenon DEF BackendRead, TypeOK, device
<1>7. ASSUME NEW c \in Conns, ReadError(c) \/ Reply(c) PROVE TypeOK'
  <2>1. Unseen \in [Pos -> SUBSET Values] BY Zenon DEF Unseen
  <2>2. Done(c) /\ seen' = [seen EXCEPT ![c] = Unseen] /\ UNCHANGED <<content, device, exposed>>
    BY <1>7, Zenon DEF ReadError, Reply
  <2> QED BY <2>1, <2>2, DoneTypes, Zenon DEF TypeOK, device
<1>8. ASSUME NEW c \in Conns, storeReadAheadWindow(c) PROVE TypeOK'
  <2>1. /\ req[c] \in Requests /\ fetch[c] \in Nat /\ req[c].len <= fetch[c]
        /\ DOMAIN got[c] = At(req[c].off, fetch[c]) /\ got[c] \in Buffers
    BY <1>8, SizesAssumption DEF storeReadAheadWindow, TypeOK, Inv, FetchFits, Held, Requests
  <2>2. At(req[c].off, req[c].len) \subseteq DOMAIN got[c]
    BY <2>1, AtGrows DEF Requests
  <2>3. Restrict(got[c], At(req[c].off, req[c].len)) \in Buffers
    BY <2>1, <2>2, Slice, Zenon
  <2> QED BY <1>8, <2>1, <2>3, Zenon DEF storeReadAheadWindow, TypeOK
<1>9. ASSUME NEW c \in Conns, BackendWrite(c) PROVE TypeOK'
  BY <1>9, DoneTypes, ChangeTypes, PatchedContent, Zenon DEF BackendWrite, TypeOK, device
<1>10. ASSUME NEW c \in Conns, WriteError(c) PROVE TypeOK'
  BY <1>10, DoneTypes, ChangeTypes, Zenon DEF WriteError, TypeOK, device
<1>11. ASSUME NEW r \in Requests, HttpWrite(r) PROVE TypeOK'
  BY <1>11, ChangeTypes, PatchedContent, Zenon DEF HttpWrite, TypeOK, device, locals
<1>12. CASE UNCHANGED vars
  BY <1>12, Zenon DEF vars, device, locals, TypeOK
<1> QED
  BY <1>1, <1>2, <1>3, <1>4, <1>5, <1>6, <1>7, <1>8, <1>9, <1>10, <1>11, <1>12, Zenon DEF Next

-----------------------------------------------------------------------------
(* What reads hold. *)

\* A fetch and what a read holds concern its own connection's locals only.
LEMMA HeldOther ==
    ASSUME Inv, NEW c \in Conns, NEW d \in Conns, c # d,
           pc'[d] = pc[d], req'[d] = req[d], fetch'[d] = fetch[d],
           keep'[d] = keep[d], got'[d] = got[d], seen'[d] = seen[d], content' = content
    PROVE  Held(d)'
BY Zenon DEF Inv, Held, Reading

\* An engine write is added to what every running read may return.
LEMMA HeldChange ==
    ASSUME Inv, NEW new \in [Pos -> Values], Change(new), NEW d \in Conns,
           pc'[d] = pc[d], req'[d] = req[d], fetch'[d] = fetch[d],
           keep'[d] = keep[d], got'[d] = got[d]
    PROVE  Held(d)'
<1>1. Held(d) BY Zenon DEF Inv
<1>2. d \in Reading' => d \in Reading BY Zenon DEF Reading
<1>3. ASSUME d \in Reading, NEW p \in At(req[d].off, req[d].len)
      PROVE  content'[p] \in seen'[d][p]
  <2>1. p \in Pos BY AtPos, Zenon
  <2>2. seen'[d][p] = seen[d][p] \cup {new[p]} BY <1>3, <2>1, Zenon DEF Change
  <2> QED BY <2>2, Zenon DEF Change
<1> QED BY <1>1, <1>2, <1>3, Zenon DEF Held

\* A request that is over holds nothing.
LEMMA HeldDone ==
    ASSUME TypeOK, NEW c \in Conns, Done(c)
    PROVE  Held(c)'
<1>1. pc'[c] = "idle" BY Zenon DEF Done, TypeOK
<1> QED BY <1>1, Zenon DEF Held, Reading

\* The first bytes a read may return are those of the moment of its call.
LEMMA BeginSeen ==
    ASSUME TypeOK, NEW c \in Conns, NEW r \in Requests, Begin(c, r)
    PROVE  /\ req'[c] = r
           /\ \A p \in At(r.off, r.len) : seen'[c][p] = {content[p]}
           /\ \A d \in Conns \ {c} : req'[d] = req[d] /\ seen'[d] = seen[d]
BY AtPos, Zenon DEF Begin, TypeOK

\* Every step keeps what the reads hold.
LEMMA HeldStep == Inv /\ [Next]_vars => \A d \in Conns : Held(d)'
<1> SUFFICES ASSUME Inv, [Next]_vars, NEW d \in Conns PROVE Held(d)'
  BY Zenon
<1> TypeOK /\ Held(d) BY Zenon DEF Inv
<1>1. ASSUME NEW c \in Conns, NEW r \in Requests, ReadDirect(c, r) PROVE Held(d)'
  <2>1. Begin(c, r) BY <1>1, Zenon DEF ReadDirect
  <2>2. CASE d = c
    <3>1. pc'[c] = "fetch" /\ fetch'[c] = r.len /\ content' = content
      BY <1>1, Zenon DEF ReadDirect, TypeOK
    <3> QED BY <2>1, <2>2, <3>1, BeginSeen DEF Held
  <2>3. CASE d # c
    BY <1>1, <2>1, <2>3, BeginSeen, HeldOther, Zenon DEF ReadDirect, TypeOK
  <2> QED BY <2>2, <2>3, Zenon
<1>2. ASSUME NEW c \in Conns, NEW r \in Requests, ReadHit(c, r) PROVE Held(d)'
  <2>1. Begin(c, r) BY <1>2, Zenon DEF ReadHit
  <2>2. CASE d = c
    <3>1. pc'[c] = "reply" /\ content' = content
          /\ got'[c] = Restrict(window, At(r.off, r.len))
      BY <1>2, Zenon DEF ReadHit, TypeOK
    <3>2. DOMAIN got'[c] = At(r.off, r.len)
      BY <1>2, <3>1, Slice, Zenon DEF ReadHit, TypeOK
    <3> QED BY <2>1, <2>2, <3>1, <3>2, BeginSeen DEF Held
  <2>3. CASE d # c
    BY <1>2, <2>1, <2>3, BeginSeen, HeldOther DEF ReadHit, TypeOK
  <2> QED BY <2>2, <2>3, Zenon
<1>3. ASSUME NEW c \in Conns, NEW r \in Requests, ReadMiss(c, r) PROVE Held(d)'
  <2>1. Begin(c, r) BY <1>3, Zenon DEF ReadMiss
  <2>2. CASE d = c
    <3>1. pc'[c] = "plan" /\ content' = content /\ r.len > 0
      BY <1>3, Zenon DEF ReadMiss, TypeOK
    <3> QED BY <2>1, <2>2, <3>1, BeginSeen DEF Held
  <2>3. CASE d # c
    BY <1>3, <2>1, <2>3, BeginSeen, HeldOther DEF ReadMiss, TypeOK
  <2> QED BY <2>2, <2>3, Zenon
<1>4. ASSUME NEW c \in Conns, NEW r \in Requests, WriteAt(c, r) PROVE Held(d)'
  <2>1. CASE d = c
    <3>1. pc'[c] = "write" BY <1>4, Zenon DEF WriteAt, TypeOK
    <3> QED BY <2>1, <3>1, Zenon DEF Held, Reading
  <2>2. CASE d # c BY <1>4, <2>2, HeldOther, Zenon DEF WriteAt, TypeOK
  <2> QED BY <2>1, <2>2, Zenon
<1>5. ASSUME NEW c \in Conns, planReadAhead(c) PROVE Held(d)'
  <2>1. CASE d = c
    <3>1. /\ pc[c] = "plan" /\ pc'[c] = "fetch"
          /\ fetch'[c] = fetchLength(req[c])
          /\ keep'[c] = (fetchLength(req[c]) > req[c].len)
          /\ UNCHANGED <<content, req, seen>>
      BY <1>5, Zenon DEF planReadAhead, TypeOK
    <3>2. req[c] \in Requests /\ req[c].len > 0 BY <2>1, <3>1, Zenon DEF TypeOK, Held
    <3>3. ~keep'[c] => fetch'[c] = req[c].len
      <4>1. ~(fetchLength(req[c]) > req[c].len) => fetchLength(req[c]) = req[c].len
        BY <3>2, PlanFits, SizesAssumption DEF Requests
      <4> QED BY <3>1, <4>1, Zenon
    <3> QED BY <2>1, <3>1, <3>3, Zenon DEF Held, Reading
  <2>2. CASE d # c BY <1>5, <2>2, HeldOther, Zenon DEF planReadAhead, TypeOK
  <2> QED BY <2>1, <2>2, Zenon
<1>6. ASSUME NEW c \in Conns, BackendRead(c) PROVE Held(d)'
  <2>1. CASE d = c
    <3>1. /\ pc[c] = "fetch" /\ pc'[c] = IF keep[c] THEN "store" ELSE "reply"
          /\ got'[c] = Restrict(content, At(req[c].off, fetch[c]))
          /\ UNCHANGED <<content, req, fetch, keep, seen>>
      BY <1>6, Zenon DEF BackendRead, TypeOK
    <3>2. DOMAIN got'[c] = At(req[c].off, fetch[c])
      BY <3>1, Slice, ContentBuffer, AtPos DEF TypeOK
    <3> QED BY <2>1, <3>1, <3>2, Zenon DEF Held, Reading
  <2>2. CASE d # c BY <1>6, <2>2, HeldOther, Zenon DEF BackendRead, TypeOK
  <2> QED BY <2>1, <2>2, Zenon
<1>7. ASSUME NEW c \in Conns, ReadError(c) \/ Reply(c) PROVE Held(d)'
  <2>1. Done(c) /\ seen' = [seen EXCEPT ![c] = Unseen] /\ content' = content
    BY <1>7, Zenon DEF ReadError, Reply
  <2>2. CASE d = c BY <2>1, <2>2, HeldDone, Zenon
  <2>3. CASE d # c BY <2>1, <2>3, HeldOther, Zenon DEF Done, TypeOK
  <2> QED BY <2>2, <2>3, Zenon
<1>8. ASSUME NEW c \in Conns, storeReadAheadWindow(c) PROVE Held(d)'
  <2>1. CASE d = c
    <3>1. /\ pc[c] = "store" /\ pc'[c] = "reply"
          /\ got'[c] = Restrict(got[c], At(req[c].off, req[c].len))
          /\ UNCHANGED <<content, req, seen>>
      BY <1>8, Zenon DEF storeReadAheadWindow, TypeOK
    <3>2. DOMAIN got'[c] = At(req[c].off, req[c].len)
      BY <3>1, Zenon DEF Restrict
    <3> QED BY <2>1, <3>1, <3>2, Zenon DEF Held, Reading
  <2>2. CASE d # c BY <1>8, <2>2, HeldOther, Zenon DEF storeReadAheadWindow, TypeOK
  <2> QED BY <2>1, <2>2, Zenon
<1>9. ASSUME NEW c \in Conns, BackendWrite(c) \/ WriteError(c) PROVE Held(d)'
  <2>1. Done(c) BY <1>9, Zenon DEF BackendWrite, WriteError
  <2>2. CASE d = c BY <2>1, <2>2, HeldDone, Zenon
  <2>3. CASE d # c
    <3>1. PICK new \in [Pos -> Values] : Change(new)
      BY <1>9, PatchedContent, Zenon DEF BackendWrite, WriteError
    <3> QED BY <2>1, <2>3, <3>1, HeldChange, Zenon DEF Done, TypeOK
  <2> QED BY <2>2, <2>3, Zenon
<1>10. ASSUME NEW r \in Requests, HttpWrite(r) PROVE Held(d)'
  <2>1. PICK new \in [Pos -> Values] : Change(new)
    BY <1>10, PatchedContent, Zenon DEF HttpWrite
  <2> QED BY <1>10, <2>1, HeldChange, Zenon DEF HttpWrite, locals
<1>11. CASE UNCHANGED vars
  BY <1>11, Zenon DEF vars, locals, Held, Reading
<1> QED
  BY <1>1, <1>2, <1>3, <1>4, <1>5, <1>6, <1>7, <1>8, <1>9, <1>10, <1>11, Zenon DEF Next

\* Every step keeps fetches within the device.
LEMMA FitsStep == Inv /\ [Next]_vars => FetchFits'
<1> SUFFICES ASSUME Inv, [Next]_vars, NEW d \in Conns, pc'[d] \in {"fetch", "store"}
             PROVE  fetch'[d] >= req'[d].len /\ req'[d].off + fetch'[d] <= Size
  BY Zenon DEF FetchFits
<1> TypeOK /\ FetchFits /\ Held(d) BY Zenon DEF Inv
<1>1. ASSUME NEW c \in Conns, NEW r \in Requests, ReadDirect(c, r)
      PROVE  fetch'[d] >= req'[d].len /\ req'[d].off + fetch'[d] <= Size
  <2>1. CASE d = c
    <3>1. req'[c] = r /\ fetch'[c] = r.len BY <1>1, Zenon DEF ReadDirect, Begin, TypeOK
    <3> QED BY <2>1, <3>1, SizesAssumption DEF Requests
  <2>2. CASE d # c BY <1>1, <2>2, Zenon DEF ReadDirect, Begin, TypeOK, FetchFits
  <2> QED BY <2>1, <2>2, Zenon
<1>2. ASSUME NEW c \in Conns, planReadAhead(c)
      PROVE  fetch'[d] >= req'[d].len /\ req'[d].off + fetch'[d] <= Size
  <2>1. CASE d = c
    <3>1. pc[c] = "plan" /\ req' = req /\ fetch'[c] = fetchLength(req[c])
      BY <1>2, Zenon DEF planReadAhead, TypeOK
    <3>2. req[c] \in Requests /\ req[c].len > 0 BY <2>1, <3>1, Zenon DEF TypeOK, Held
    <3> QED BY <2>1, <3>1, <3>2, PlanFits, Zenon
  <2>2. CASE d # c BY <1>2, <2>2, Zenon DEF planReadAhead, TypeOK, FetchFits
  <2> QED BY <2>1, <2>2, Zenon
<1>3. ASSUME NEW c \in Conns, NEW r \in Requests,
             ReadHit(c, r) \/ ReadMiss(c, r) \/ WriteAt(c, r)
      PROVE  fetch'[d] >= req'[d].len /\ req'[d].off + fetch'[d] <= Size
  <2>1. d # c BY <1>3, Zenon DEF ReadHit, ReadMiss, WriteAt, TypeOK
  <2> QED BY <1>3, <2>1, Zenon DEF ReadHit, ReadMiss, WriteAt, Begin, TypeOK, FetchFits
<1>4. ASSUME NEW c \in Conns,
             ReadError(c) \/ Reply(c) \/ BackendWrite(c) \/ WriteError(c)
      PROVE  fetch'[d] >= req'[d].len /\ req'[d].off + fetch'[d] <= Size
  <2>1. Done(c) BY <1>4, Zenon DEF ReadError, Reply, BackendWrite, WriteError
  <2>2. d # c BY <2>1, Zenon DEF Done, TypeOK
  <2> QED BY <2>1, <2>2, Zenon DEF Done, TypeOK, FetchFits
<1>5. ASSUME NEW c \in Conns, BackendRead(c) \/ storeReadAheadWindow(c)
      PROVE  fetch'[d] >= req'[d].len /\ req'[d].off + fetch'[d] <= Size
  BY <1>5, Zenon DEF BackendRead, storeReadAheadWindow, TypeOK, FetchFits
<1>6. ASSUME NEW r \in Requests, HttpWrite(r)
      PROVE  fetch'[d] >= req'[d].len /\ req'[d].off + fetch'[d] <= Size
  BY <1>6, Zenon DEF HttpWrite, locals, FetchFits
<1>7. CASE UNCHANGED vars
  BY <1>7, Zenon DEF vars, locals, FetchFits
<1> QED BY <1>1, <1>2, <1>3, <1>4, <1>5, <1>6, <1>7, Zenon DEF Next

-----------------------------------------------------------------------------
(* The window is current unless exposed. *)

\* A change of the content by a write while no window, and none to come, exists.
LEMMA CurrentChange ==
    ASSUME Inv, Current, NEW new \in [Pos -> Values], Change(new),
           window = Nil, Storing = {}, window' = window,
           \A d \in Conns : /\ pc'[d] # pc[d] => pc'[d] = "idle"
                            /\ pc'[d] = pc[d] => got'[d] = got[d] /\ keep'[d] = keep[d]
    PROVE  Current'
<1> TypeOK BY Zenon DEF Inv
<1>1. \A d \in Conns : pc'[d] # "store"
  BY Zenon DEF Storing, Inv, Held
<1>2. Storing' = {} BY Zenon DEF Storing
<1>3. ASSUME NEW d \in Conns, pc'[d] = "reply", NEW p \in DOMAIN got'[d]
      PROVE  got'[d][p] \in seen'[d][p]
  <2>1. pc[d] = "reply" /\ got'[d] = got[d] BY <1>3, Zenon
  <2>2. p \in Pos /\ got[d][p] \in seen[d][p]
    BY <1>3, <2>1, BufferShape, Zenon DEF Current, TypeOK
  <2>3. seen[d][p] \subseteq seen'[d][p] BY <2>2, Zenon DEF Change
  <2> QED BY <2>1, <2>2, <2>3, Zenon
<1> QED BY <1>1, <1>2, <1>3, NilBuffer, Zenon DEF Current

\* Every step either exposes the window or keeps it current.
LEMMA CurrentStep == Inv /\ [Next]_vars => exposed' \/ Current'
<1> SUFFICES ASSUME Inv, [Next]_vars, ~exposed' PROVE Current'
  BY Zenon
<1> TypeOK /\ FetchFits /\ (\A d \in Conns : Held(d)) /\ (exposed \/ Current) BY Zenon DEF Inv
<1>1. ASSUME NEW c \in Conns, NEW r \in Requests, ReadDirect(c, r) \/ ReadMiss(c, r)
      PROVE  Current'
  <2>1. /\ Current /\ Begin(c, r) /\ UNCHANGED <<content, window, got>>
        /\ pc[c] = "idle" /\ pc'[c] \in {"fetch", "plan"} /\ (pc'[c] = "fetch" => ~keep'[c])
        /\ \A d \in Conns \ {c} : pc'[d] = pc[d] /\ keep'[d] = keep[d]
    BY <1>1, Zenon DEF ReadDirect, ReadMiss, Begin, TypeOK, device
  <2>2. Storing' = Storing /\ Writing' = Writing BY <2>1, Zenon DEF Storing, Writing
  <2> QED BY <2>1, <2>2, BeginSeen DEF Current
<1>2. ASSUME NEW c \in Conns, NEW r \in Requests, ReadHit(c, r) PROVE Current'
  <2>1. /\ Current /\ Begin(c, r) /\ UNCHANGED <<content, window, keep>>
        /\ pc[c] = "idle" /\ pc'[c] = "reply"
        /\ got'[c] = Restrict(window, At(r.off, r.len))
        /\ \A d \in Conns \ {c} : pc'[d] = pc[d] /\ got'[d] = got[d]
    BY <1>2, Zenon DEF ReadHit, Begin, TypeOK
  <2>2. Storing' = Storing /\ Writing' = Writing BY <2>1, Zenon DEF Storing, Writing
  <2>3. /\ DOMAIN got'[c] = At(r.off, r.len)
        /\ \A p \in At(r.off, r.len) : got'[c][p] = content[p]
    <3>1. At(r.off, r.len) \subseteq DOMAIN window BY <1>2, Zenon DEF ReadHit
    <3> QED BY <2>1, <3>1, Slice DEF Current, TypeOK
  <2>4. \A p \in DOMAIN got'[c] : got'[c][p] \in seen'[c][p]
    BY <2>1, <2>3, BeginSeen
  <2> QED BY <2>1, <2>2, <2>4, BeginSeen DEF Current
<1>3. ASSUME NEW c \in Conns, NEW r \in Requests, WriteAt(c, r) PROVE Current'
  <2>1. /\ Storing = {} /\ (exposed => Reading = {})
        /\ window' = Nil /\ UNCHANGED <<content, keep, got, seen>>
        /\ pc'[c] = "write" /\ \A d \in Conns \ {c} : pc'[d] = pc[d]
    BY <1>3, Zenon DEF WriteAt, TypeOK
  <2>2. Storing' = {} BY <2>1, Zenon DEF Storing
  <2>3. \A d \in Conns : pc'[d] # "store" BY <2>1, Zenon DEF Storing, Held
  <2>4. ASSUME NEW d \in Conns, pc'[d] = "reply" PROVE ~exposed /\ pc[d] = "reply"
    BY <2>1, <2>4, Zenon DEF Reading
  <2> QED BY <2>1, <2>2, <2>3, <2>4, NilBuffer, Zenon DEF Current
<1>4. ASSUME NEW c \in Conns, planReadAhead(c) PROVE Current'
  <2>1. /\ Current /\ UNCHANGED <<content, window, got, seen>>
        /\ pc[c] = "plan" /\ pc'[c] = "fetch"
        /\ keep'[c] = (fetchLength(req[c]) > req[c].len)
        /\ (fetchLength(req[c]) > req[c].len) => Writing = {}
        /\ \A d \in Conns \ {c} : pc'[d] = pc[d] /\ keep'[d] = keep[d]
    BY <1>4, Zenon DEF planReadAhead, TypeOK
  <2>2. Writing' = Writing BY <2>1, Zenon DEF Writing
  <2>3. Storing' \subseteq Storing \cup {c} BY <2>1, Zenon DEF Storing
  <2>4. c \in Storing' => Writing = {} BY <2>1, Zenon DEF Storing
  <2> QED BY <2>1, <2>2, <2>3, <2>4, Zenon DEF Current
<1>5. ASSUME NEW c \in Conns, BackendRead(c) PROVE Current'
  <2>1. /\ Current /\ UNCHANGED <<content, window, req, keep, seen>>
        /\ pc[c] = "fetch" /\ pc'[c] = IF keep[c] THEN "store" ELSE "reply"
        /\ got'[c] = Restrict(content, At(req[c].off, fetch[c]))
        /\ \A d \in Conns \ {c} : pc'[d] = pc[d] /\ got'[d] = got[d]
    BY <1>5, Zenon DEF BackendRead, TypeOK, device
  <2>2. Writing' = Writing /\ Storing' = Storing BY <2>1, Zenon DEF Writing, Storing
  <2>3. /\ DOMAIN got'[c] = At(req[c].off, fetch[c])
        /\ \A p \in DOMAIN got'[c] : got'[c][p] = content[p]
    BY <2>1, Slice, ContentBuffer, AtPos DEF TypeOK
  <2>4. pc'[c] = "reply" => \A p \in DOMAIN got'[c] : got'[c][p] \in seen[c][p]
    BY <2>1, <2>3, Zenon DEF Held, Reading
  <2> QED BY <2>1, <2>2, <2>3, <2>4 DEF Current
<1>6. ASSUME NEW c \in Conns, ReadError(c) \/ Reply(c) PROVE Current'
  <2>1. /\ Current /\ UNCHANGED <<content, window>>
        /\ pc[c] \in {"fetch", "reply"} /\ pc'[c] = "idle"
        /\ \A d \in Conns \ {c} : /\ pc'[d] = pc[d] /\ got'[d] = got[d]
                                  /\ keep'[d] = keep[d] /\ seen'[d] = seen[d]
    BY <1>6, Zenon DEF ReadError, Reply, Done, TypeOK, device
  <2>2. Writing' = Writing /\ Storing' \subseteq Storing BY <2>1, Zenon DEF Writing, Storing
  <2> QED BY <2>1, <2>2 DEF Current
<1>7. ASSUME NEW c \in Conns, storeReadAheadWindow(c) PROVE Current'
  <2>1. /\ Current /\ UNCHANGED <<content, req, keep, seen>>
        /\ pc[c] = "store" /\ pc'[c] = "reply" /\ window' = got[c]
        /\ got'[c] = Restrict(got[c], At(req[c].off, req[c].len))
        /\ \A d \in Conns \ {c} : pc'[d] = pc[d] /\ got'[d] = got[d]
    BY <1>7, Zenon DEF storeReadAheadWindow, TypeOK
  <2>2. Writing' = Writing /\ Writing = {} BY <2>1, Zenon DEF Writing, Storing, Current, Held
  <2>3. /\ got[c] \in Buffers
        /\ DOMAIN got[c] = At(req[c].off, fetch[c])
        /\ req[c].off \in Nat /\ req[c].len \in Nat /\ fetch[c] \in Nat
        /\ req[c].len <= fetch[c]
    BY <2>1, SizesAssumption DEF TypeOK, Held, FetchFits, Requests
  <2>4. At(req[c].off, req[c].len) \subseteq DOMAIN got[c] BY <2>3, AtGrows, Zenon
  <2>5. \A p \in DOMAIN got'[c] : got'[c][p] \in seen[c][p]
    BY <2>1, <2>3, <2>4, Slice DEF Current, Held, Reading
  <2> QED BY <2>1, <2>2, <2>5 DEF Current
<1>8. ASSUME NEW c \in Conns, BackendWrite(c) \/ WriteError(c) PROVE Current'
  <2>1. /\ Current /\ Done(c) /\ window' = window /\ c \in Writing
    BY <1>8, Zenon DEF BackendWrite, WriteError, Writing, device
  <2>2. window = Nil /\ Storing = {} BY <2>1, Zenon DEF Current
  <2>3. PICK new \in [Pos -> Values] : Change(new)
    BY <1>8, PatchedContent, Zenon DEF BackendWrite, WriteError
  <2>4. \A d \in Conns : /\ pc'[d] # pc[d] => pc'[d] = "idle"
                         /\ pc'[d] = pc[d] => got'[d] = got[d] /\ keep'[d] = keep[d]
    BY <2>1, Zenon DEF Done, TypeOK, Writing
  <2> QED BY <2>1, <2>2, <2>3, <2>4, CurrentChange, Zenon
<1>9. ASSUME NEW r \in Requests, HttpWrite(r) PROVE Current'
  <2>1. /\ Current /\ window = Nil /\ Storing = {} /\ UNCHANGED <<window, pc, got, keep>>
    BY <1>9, Zenon DEF HttpWrite, device, locals
  <2>2. PICK new \in [Pos -> Values] : Change(new)
    BY <1>9, PatchedContent, Zenon DEF HttpWrite
  <2> QED BY <2>1, <2>2, CurrentChange, Zenon
<1>10. CASE UNCHANGED vars
  BY <1>10, Zenon DEF vars, device, locals, Current, Storing, Writing
<1> QED
  BY <1>1, <1>2, <1>3, <1>4, <1>5, <1>6, <1>7, <1>8, <1>9, <1>10, Zenon DEF Next

-----------------------------------------------------------------------------
\* The invariant holds at the start: nothing was read, nothing is kept.
LEMMA InitInv == Init => Inv
<1> SUFFICES ASSUME Init PROVE Inv
  BY Zenon
<1>1. TypeOK
  <2>1. NoReq \in Requests /\ 0 \in 0 .. Size BY SizesAssumption DEF NoReq, Requests
  <2>2. NoRead \in [have : BOOLEAN, off : 0 .. Size, len : 0 .. MaxLength]
    BY SizesAssumption DEF NoRead
  <2>3. Unseen \in [Pos -> SUBSET Values] BY Zenon DEF Unseen
  <2> QED BY <2>1, <2>2, <2>3, NilBuffer, Zenon DEF Init, TypeOK
<1>2. FetchFits /\ (\A c \in Conns : Held(c)) BY Zenon DEF Init, FetchFits, Held, Reading
<1>3. Current BY NilBuffer, Zenon DEF Init, Current, Storing, Writing
<1> QED BY <1>1, <1>2, <1>3, Zenon DEF Inv

\* The invariant is inductive.
LEMMA InvAlways == Spec => []Inv
<1>1. Inv /\ [Next]_vars => Inv'
  BY TypeStep, FitsStep, HeldStep, CurrentStep, Zenon DEF Inv
<1> QED BY <1>1, InitInv, PTL DEF Spec

\* The invariant gives what clients of ReadAt rely on.
LEMMA InvRegular == Inv => ReadsRegularUnlessExposed
BY Zenon DEF Inv, Held, Current, ReadsRegularUnlessExposed, ReadsRegular

\* Every variable of StorageDevice and of its callers keeps its type.
THEOREM TypeCorrect == Spec => []TypeOK
<1>1. Inv => TypeOK BY Zenon DEF Inv
<1> QED BY <1>1, InvAlways, PTL

\* planReadAhead never asks the engine for less than the request nor for more
\* than the device has, for any size, read-ahead and history of reads.
THEOREM FetchFitsHolds == Spec => []FetchFits
<1>1. Inv => FetchFits BY Zenon DEF Inv
<1> QED BY <1>1, InvAlways, PTL

\* Unless a write ran while a read was filling the window, or went around the
\* device, ReadAt returns bytes the device had during the call, for any number
\* of connections, through failed reads and writes.
THEOREM ReadsRegularHolds == Spec => []ReadsRegularUnlessExposed
BY InvAlways, InvRegular, PTL

=============================================================================

----------------------------- MODULE LocalCache ------------------------------
(***************************************************************************)
(* The chunk cache of a node (pkg/storage/cache.go): files in a directory, *)
(* evicted in the order of their modification times, and in front of them  *)
(* an LRU list in memory.  One mutex guards both, but Get and GetRange     *)
(* read the file without it.  Several requests use the cache at once.      *)
(*                                                                         *)
(* Modification times are abstracted to the order they give, "disk": the   *)
(* files of the directory, oldest first, the temporary ones included.  Of  *)
(* the data a file or the list holds the model keeps the length and        *)
(* whether it is what was put.                                             *)
(***************************************************************************)
EXTENDS Integers, Sequences

CONSTANTS Callers,     \* requests that use the cache
          Chunks,      \* chunk identifiers (content hashes)
          Size,        \* bytes of each chunk
          MaxSize,     \* maxSize
          MemoryMax,   \* memoryMax, 0 without a memory cache
          MaxCrashes   \* restarts of the node (bound)

Nobody == "nobody"
None == "none"

ASSUME CacheAssumption ==
  /\ Size \in [Chunks -> Nat \ {0}] /\ Nobody \notin Callers
  /\ MaxSize \in Nat \ {0} /\ MemoryMax \in Nat /\ MaxCrashes \in Nat

VARIABLES
  disk,         \* [id, temp, whole, size]: the directory, oldest file first
  memory,       \* [id, whole, size]: memoryList, least recent first
  memoryBytes,  \* memoryBytes
  mu,           \* who holds the mutex, or Nobody
  pc, arg,      \* of each caller: step, and [id, whole, size] of the chunk at hand
  ret,          \* of each caller: what its call returned
  settled,      \* the last Put finished its eviction (history)
  torn,         \* the machine lost power (history)
  crashes

vars == <<disk, memory, memoryBytes, mu, pc, arg, ret, settled, torn, crashes>>

File(c) == [id |-> c, temp |-> FALSE, whole |-> TRUE, size |-> Size[c]]
Temp(c, n) == [id |-> c, temp |-> TRUE, whole |-> TRUE, size |-> n]
Chunk(c, n) == [id |-> c, whole |-> TRUE, size |-> n]
Nothing == Chunk(None, 0)

Hit(item) == IF item.whole THEN "whole" ELSE "broken"

\* Where a chunk is in the directory and in the list: at one place at most.
Files(files, c) == {i \in 1..Len(files) : files[i].id = c /\ ~files[i].temp}
Listed(c) == {i \in 1..Len(memory) : memory[i].id = c}

\* (As in SequencesExt, which the proofs would have to carry as a whole.)
Front(s) == SubSeq(s, 1, Len(s) - 1)
RemoveAt(s, i) == SubSeq(s, 1, i - 1) \o SubSeq(s, i + 1, Len(s))

ToBack(items, i) == Append(RemoveAt(items, i), items[i])

\* The sum of a sequence of numbers.
Sums(w) == LET sum[i \in 0..Len(w)] == IF i = 0 THEN 0 ELSE sum[i - 1] + w[i] IN sum
Total(w) == Sums(w)[Len(w)]

\* currentSizeLocked, and what memoryBytes should be.
Bytes(items) == Total([i \in 1..Len(items) |-> items[i].size])

At(p, from, to) == pc[p] = from /\ pc' = [pc EXCEPT ![p] = to]
Done(p) == pc' = [pc EXCEPT ![p] = "idle"] /\ arg' = [arg EXCEPT ![p] = Nothing]
Return(p, r) == ret' = [ret EXCEPT ![p] = r]

----------------------------------------------------------------------------
(* The memory list *)

\* The least recent chunks go, as many as it takes.
evictMemoryLocked(items, n) ==
  \E k \in 0..Len(items) :
    LET left(j) == n - Bytes(SubSeq(items, 1, j)) IN
    /\ \A j \in 0..(k - 1) : left(j) > MemoryMax
    /\ left(k) <= MemoryMax \/ k = Len(items)
    /\ memory' = SubSeq(items, k + 1, Len(items)) /\ memoryBytes' = left(k)

\* (Mutant: a chunk that is there already is counted again.)
putMemoryLockedTwice(chunk) ==
  IF MemoryMax = 0 \/ chunk.size > MemoryMax
  THEN UNCHANGED <<memory, memoryBytes>>
  ELSE \/ /\ Listed(chunk.id) = {}
          /\ evictMemoryLocked(Append(memory, chunk), memoryBytes + chunk.size)
       \/ \E i \in Listed(chunk.id) :
            evictMemoryLocked(Append(RemoveAt(memory, i), chunk), memoryBytes + chunk.size)

\* Data larger than the whole list is not kept; a chunk that is there already
\* gets the new data.
putMemoryLocked(chunk) ==
  IF MemoryMax = 0 \/ chunk.size > MemoryMax
  THEN UNCHANGED <<memory, memoryBytes>>
  ELSE \/ /\ Listed(chunk.id) = {}
          /\ evictMemoryLocked(Append(memory, chunk), memoryBytes + chunk.size)
       \/ \E i \in Listed(chunk.id) :
            evictMemoryLocked(Append(RemoveAt(memory, i), chunk),
                              memoryBytes - memory[i].size + chunk.size)

----------------------------------------------------------------------------
(* Get and GetRange *)

\* getMemory, getMemoryRange.
getMemory(p) ==
  \E op \in {"Get", "GetRange"}, c \in Chunks :
    /\ pc[p] = "idle" /\ mu = Nobody
    /\ \/ \E i \in Listed(c) :
            memory' = ToBack(memory, i) /\ Return(p, Hit(memory[i])) /\ UNCHANGED <<pc, arg>>
       \/ /\ Listed(c) = {} /\ Return(p, None) /\ UNCHANGED memory
          /\ pc' = [pc EXCEPT ![p] = op] /\ arg' = [arg EXCEPT ![p] = Chunk(c, 0)]
    /\ UNCHANGED <<disk, memoryBytes, mu, settled, torn, crashes>>

\* os.ReadFile, or open and ReadAt, without the mutex: an eviction in between
\* does not disturb an open file.  GetRange fills up what the file lacks with
\* zeroes.
ReadFile(p) ==
  /\ pc[p] \in {"Get", "GetRange"}
  /\ \/ \E i \in Files(disk, arg[p].id) :
          /\ Return(p, Hit(disk[i]))
          /\ \/ /\ At(p, "Get", "touchPut")
                /\ arg' = [arg EXCEPT ![p] = [id |-> arg[p].id, whole |-> disk[i].whole, size |-> disk[i].size]]
             \/ At(p, "GetRange", "touch") /\ UNCHANGED arg
     \/ Files(disk, arg[p].id) = {} /\ Done(p) /\ Return(p, "miss")
     \/ Done(p) /\ Return(p, "error")
  /\ UNCHANGED <<disk, memory, memoryBytes, mu, settled, torn, crashes>>

\* os.Chtimes: nothing happens when the file is gone.
touch(p) ==
  /\ pc[p] \in {"touch", "touchPut"} /\ mu = Nobody
  /\ IF pc[p] = "touch" THEN Done(p)
     ELSE pc' = [pc EXCEPT ![p] = "putMemory"] /\ UNCHANGED arg
  /\ \/ \E i \in Files(disk, arg[p].id) : disk' = ToBack(disk, i)
     \/ Files(disk, arg[p].id) = {} /\ UNCHANGED disk
  /\ UNCHANGED <<memory, memoryBytes, mu, ret, settled, torn, crashes>>

\* What was read goes into the list, under the mutex again.
putMemory(p) ==
  /\ pc[p] = "putMemory" /\ Done(p) /\ mu = Nobody
  /\ putMemoryLocked(arg[p])
  /\ UNCHANGED <<disk, mu, ret, settled, torn, crashes>>

----------------------------------------------------------------------------
(* Put, under the mutex *)

\* A temporary file, which nobody but its Put looks at while that holds the mutex.
CreateTemp(p) ==
  \E c \in Chunks :
    /\ At(p, "idle", "write") /\ mu = Nobody /\ mu' = p
    /\ arg' = [arg EXCEPT ![p] = Chunk(c, Size[c])] /\ Return(p, None)
    /\ disk' = Append(disk, Temp(c, 0))
    /\ UNCHANGED <<memory, memoryBytes, settled, torn, crashes>>

\* Write, Close, Chmod or Rename fails: the temporary file is removed.
WriteFails(p) ==
  /\ pc[p] = "write" /\ Done(p) /\ mu' = Nobody
  /\ disk' = Front(disk) /\ Return(p, "error")
  /\ UNCHANGED <<memory, memoryBytes, settled, torn, crashes>>

\* Removes the file with the chunk's name, if there is one.
Without(files, c) ==
  IF Files(files, c) = {} THEN files ELSE RemoveAt(files, CHOOSE i \in Files(files, c) : TRUE)

\* (Mutant: the chunk is written under its own name.)
WriteInPlace(p) ==
  /\ At(p, "write", "evict")
  /\ \E w \in BOOLEAN :
       disk' = Append(Without(Front(disk), arg[p].id), [File(arg[p].id) EXCEPT !.whole = w])
  /\ putMemoryLocked(arg[p]) /\ settled' = FALSE
  /\ UNCHANGED <<mu, arg, ret, torn, crashes>>

\* The data is written, renamed over the chunk's name, dated, and kept in
\* memory; nothing is synced.
Rename(p) ==
  /\ At(p, "write", "evict")
  /\ disk' = Append(Without(Front(disk), arg[p].id), File(arg[p].id))
  /\ putMemoryLocked(arg[p]) /\ settled' = FALSE
  /\ UNCHANGED <<mu, arg, ret, torn, crashes>>

\* (Mutant: one file is removed, however much room is needed.)
evictLockedOnce(p) ==
  /\ pc[p] = "evict" /\ Done(p) /\ mu' = Nobody
  /\ disk' = IF Bytes(disk) > MaxSize THEN Tail(disk) ELSE disk
  /\ Return(p, "ok") /\ settled' = TRUE
  /\ UNCHANGED <<memory, memoryBytes, torn, crashes>>

\* (Mutant: temporary files are passed over.)
evictLockedNoTemp(p) ==
  /\ pc[p] = "evict"
  /\ IF Bytes(disk) > MaxSize
     THEN /\ disk' = IF Head(disk).temp THEN disk ELSE Tail(disk)
          /\ UNCHANGED <<pc, arg, mu, ret, settled>>
     ELSE /\ Done(p) /\ mu' = Nobody
          /\ Return(p, "ok") /\ settled' = TRUE /\ UNCHANGED disk
  /\ UNCHANGED <<memory, memoryBytes, torn, crashes>>

\* The oldest files go, whatever they are, until the rest fits; the memory
\* list is left alone.
evictLocked(p) ==
  /\ pc[p] = "evict"
  /\ IF Bytes(disk) > MaxSize
     THEN disk' = Tail(disk) /\ UNCHANGED <<pc, arg, mu, ret, settled>>
     ELSE /\ Done(p) /\ mu' = Nobody
          /\ Return(p, "ok") /\ settled' = TRUE /\ UNCHANGED disk
  /\ UNCHANGED <<memory, memoryBytes, torn, crashes>>

\* ReadDir, Info or Remove fails: Put returns the error, the chunk is kept.
EvictFails(p) ==
  /\ pc[p] = "evict" /\ Done(p) /\ mu' = Nobody /\ Return(p, "error")
  /\ UNCHANGED <<disk, memory, memoryBytes, settled, torn, crashes>>

----------------------------------------------------------------------------
(* The node stops: the directory stays, with a temporary file if a Put was
   under way.  After a power failure files that nobody synced may be cut. *)

\* What the directory holds when the node stops: n bytes of the file that a
\* Put is writing.
Left(n) ==
  [i \in 1..Len(disk) |->
     IF mu # Nobody /\ pc[mu] = "write" /\ i = Len(disk) THEN Temp(arg[mu].id, n) ELSE disk[i]]
Written == IF mu # Nobody /\ pc[mu] = "write" THEN 0..arg[mu].size ELSE {0}

Restart(files) ==
  /\ crashes < MaxCrashes /\ crashes' = crashes + 1
  /\ disk' = files /\ memory' = <<>> /\ memoryBytes' = 0 /\ mu' = Nobody
  /\ pc' = [p \in Callers |-> "idle"] /\ arg' = [p \in Callers |-> Nothing]
  /\ ret' = [p \in Callers |-> None]
  /\ settled' = (settled /\ mu = Nobody)

Crash == (\E n \in Written : Restart(Left(n))) /\ UNCHANGED torn

\* The data of some files is lost; they keep their length or lose that as well,
\* and of a file that a Put is writing nothing is left.
PowerLoss ==
  /\ \E lost, cut \in SUBSET (1..Len(disk)) :
       /\ cut \subseteq lost
       /\ Restart([i \in 1..Len(disk) |->
                     [id |-> disk[i].id, temp |-> disk[i].temp,
                      whole |-> disk[i].whole /\ i \notin lost,
                      size |-> IF i \in cut THEN 0 ELSE disk[i].size]])
  /\ torn' = TRUE

Init ==
  /\ disk = <<>> /\ memory = <<>> /\ memoryBytes = 0 /\ mu = Nobody
  /\ pc = [p \in Callers |-> "idle"] /\ arg = [p \in Callers |-> Nothing]
  /\ ret = [p \in Callers |-> None]
  /\ settled = TRUE /\ torn = FALSE /\ crashes = 0

Step(p) ==
  ReadFile(p) \/ touch(p) \/ putMemory(p) \/ Rename(p) \/ evictLocked(p)

Next ==
  \/ \E p \in Callers : getMemory(p) \/ CreateTemp(p) \/ Step(p) \/ WriteFails(p) \/ EvictFails(p)
  \/ Crash \/ PowerLoss

\* A call that has begun goes on; sync.Mutex is fair to those who wait.
Spec ==
  /\ Init /\ [][Next]_vars
  /\ \A p \in Callers : SF_vars(Step(p))

----------------------------------------------------------------------------
(* Properties *)

\* memoryBytes is the sum of what the list holds, nothing is listed twice and
\* the list never exceeds memoryMax, whatever putMemory, Put and the evictions
\* of other calls do to it in between, and although a cut chunk that is read
\* back changes the length of an entry.
MemoryConsistent ==
  /\ memoryBytes = Bytes(memory) /\ memoryBytes <= MemoryMax
  /\ \A i, j \in 1..Len(memory) : memory[i].id = memory[j].id => i = j

\* Between Puts the directory holds at most maxSize bytes, temporary files of
\* crashed Puts included; it may hold more only after a Put that failed or was
\* cut short, and until the next one.
DiskBounded == (mu = Nobody /\ settled) => Bytes(disk) <= MaxSize

\* A hit returns the whole chunk although Get reads without the mutex while
\* Puts rename and evict: only a power failure can cut a chunk (Put does not
\* sync), and then the cache serves it.
HitsAreWhole == \A p \in Callers : ret[p] = "broken" => torn

\* Every call returns.
CallsReturn == \A p \in Callers : pc[p] # "idle" ~> pc[p] = "idle"

=============================================================================

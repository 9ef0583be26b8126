------------------------------ MODULE MCBackend ------------------------------
(* Instances of Backend for TLC. *)
EXTENDS Backend, TLC

VolumeBytes == NumChunks * ChunkSize

\* One-byte writes of every value, and the write that fills the volume.
AllWrites == [off : 0 .. VolumeBytes - 1, len : {1}, byte : Bytes]
               \cup [off : {0}, len : {VolumeBytes}, byte : Bytes]

\* The same with one value only: a volume's bytes go from 0 to 1.
OnesOnly == {r \in AllWrites : r.byte = 1}

\* A byte of the first chunk and the write that fills the volume: they overlap
\* in one chunk, where each may take the other's bytes for its own.
Overlapping == {r \in OnesOnly : r.off = 0}

\* Ids are interchangeable: nothing orders or inspects them.
Permute == UNION {Permutations(Ids) :
                    Ids \in {Nodes, Volumes, SessionIds, SnapshotIds, Handlers}}

=============================================================================

---------------------------- MODULE SnapshotStore ----------------------------
(***************************************************************************)
(* What pkg/storage promises its callers about snapshots: a snapshot is    *)
(* recorded in one step, complete and for ever, as the snapshot of one     *)
(* volume; a volume is created without content or at a recorded snapshot,  *)
(* and from then on moves only to recorded snapshots of its own.           *)
(***************************************************************************)
CONSTANTS Volumes, SnapshotIds, Images, None, Absent

VARIABLES
    snapshots,      \* None, or the volume and the image of a snapshot
    latest          \* Absent, None, or the snapshot a volume points to

Init ==
    /\ snapshots = [p \in SnapshotIds |-> None]
    /\ latest = [v \in Volumes |-> Absent]

CreateVolume(v, p) ==
    /\ latest[v] = Absent
    /\ p # None => snapshots[p] # None
    /\ latest' = [latest EXCEPT ![v] = p]
    /\ UNCHANGED snapshots

CreateSnapshot(p, v, image) ==
    /\ snapshots[p] = None
    /\ latest[v] # Absent
    /\ snapshots' = [snapshots EXCEPT ![p] = [volume |-> v, image |-> image]]
    /\ UNCHANGED latest

UpdateLatestSnapshot(v, p) ==
    /\ latest[v] # Absent
    /\ snapshots[p] # None
    /\ snapshots[p].volume = v
    /\ latest' = [latest EXCEPT ![v] = p]
    /\ UNCHANGED snapshots

Next ==
    \/ \E v \in Volumes, p \in SnapshotIds \cup {None} : CreateVolume(v, p)
    \/ \E v \in Volumes, p \in SnapshotIds, image \in Images : CreateSnapshot(p, v, image)
    \/ \E v \in Volumes, p \in SnapshotIds : UpdateLatestSnapshot(v, p)

vars == <<snapshots, latest>>

Spec == Init /\ [][Next]_vars

=============================================================================

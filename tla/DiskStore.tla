----------------------------- MODULE DiskStore -----------------------------
(***************************************************************************)
(* What ide_read and ide_write of device/ide.c promise: however many       *)
(* threads use the disks and however a request is cut into commands, each  *)
(* request takes effect as a whole, at one moment between call and return. *)
(***************************************************************************)
EXTENDS SectorRuns

CONSTANTS
    Thread,
    Disk,
    Sector,   \* the sectors of a disk, numbered from 0
    Datum,    \* what a sector holds
    Request,  \* the calls: [op, disk, lba, cnt, data]
    none

VARIABLES
    store,  \* store[d][s]: what sector s of disk d holds
    io,     \* io[t]: the call that t is in, or none
    answer  \* answer[t]: none, <<>> for a finished write, or what was read

disks == <<store, io, answer>>

DiskStoreInit ==
    /\ store \in [Disk -> [Sector -> Datum]]
    /\ io = [t \in Thread |-> none]
    /\ answer = [t \in Thread |-> none]

Call(t, r) ==
    /\ io[t] = none
    /\ io' = [io EXCEPT ![t] = r]
    /\ UNCHANGED <<store, answer>>

Read(t) ==
    /\ io[t] # none
    /\ io[t].op = "read"
    /\ answer[t] = none
    /\ answer' = [answer EXCEPT ![t] = Slice(store[io[t].disk], io[t].lba, io[t].cnt)]
    /\ UNCHANGED <<store, io>>

Write(t) ==
    /\ io[t] # none
    /\ io[t].op = "write"
    /\ answer[t] = none
    /\ store' = [store EXCEPT ![io[t].disk] = Overwrite(@, io[t].lba, io[t].data)]
    /\ answer' = [answer EXCEPT ![t] = <<>>]
    /\ UNCHANGED io

Return(t) ==
    /\ answer[t] # none
    /\ io' = [io EXCEPT ![t] = none]
    /\ answer' = [answer EXCEPT ![t] = none]
    /\ UNCHANGED store

DiskStoreNext ==
    \E t \in Thread :
        \/ \E r \in Request : Call(t, r)
        \/ Read(t)
        \/ Write(t)
        \/ Return(t)

DiskStoreSpec == DiskStoreInit /\ [][DiskStoreNext]_disks
=============================================================================

----------------------------- MODULE SectorRuns -----------------------------
(***************************************************************************)
(* Reading and writing consecutive sectors of a disk whose content is a    *)
(* function of the sector's number.                                        *)
(***************************************************************************)
EXTENDS Naturals, Sequences

Slice(content, lba, cnt) == [i \in 1 .. cnt |-> content[lba + i - 1]]

Overwrite(content, lba, data) ==
    [ s \in DOMAIN content |->
        IF s \in lba .. lba + Len(data) - 1 THEN data[s - lba + 1] ELSE content[s] ]
=============================================================================

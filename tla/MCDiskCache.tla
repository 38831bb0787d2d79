----------------------------- MODULE MCDiskCache -----------------------------
(***************************************************************************)
(* DiskCache for TLC.  States are one when they differ in nothing but what *)
(* no step and no property looks at: what an inode is called, and what one *)
(* holds that no name and no open file leads to; what the last get has     *)
(* returned, once it is over (the contract is about the step that finds    *)
(* it); whether a set that is over has overlapped another.                 *)
(***************************************************************************)
EXTENDS DiskCache

Handles == {<<"file", k>> : k \in Keys} \union {<<"tmp", k>> : k \in Keys}
               \union {<<"ino", p>> : p \in Procs}

InodeOf(h) == CASE h[1] = "file" -> file[h[2]] [] h[1] = "tmp" -> tmp[h[2]] [] OTHER -> ino[h[2]]

Directory ==
    [h \in Handles |->
        IF InodeOf(h) = NoFile THEN <<NoFile>>
        ELSE <<data[InodeOf(h)], {g \in Handles : InodeOf(g) = InodeOf(h)}>>]

Crossing == {p \in crossed : pc[p] \in {"write", "replace"}}
Doubting == {p \in doubtful : pc[p] = "load"}

DirectoryView == <<Directory, pc, key, entry, listed, now, last, suspect, Crossing, Doubting>>
=============================================================================

------------------------------ MODULE DiskCache ------------------------------
(***************************************************************************)
(* DiskCache (runtime/cache.py) in one directory that several processes    *)
(* use: <key>.json holds an entry, a set writes <key>.json.tmp and renames *)
(* it over.  Each process has its own DiskCache and its own lock, so its   *)
(* operations run one at a time, but every file operation of one process   *)
(* interleaves with those of the others, and a process may crash between   *)
(* any two.  A name leads to an inode; a file that is open stays readable  *)
(* and writable when its name goes.                                        *)
(***************************************************************************)
EXTENDS Integers, Functions

CONSTANTS
    Procs,      \* the processes, each with one DiskCache
    Keys,
    Values,     \* payloads of an entry
    Ttls,       \* ttl_seconds that callers pass
    NoTtl,      \* no expires_at
    NoEntry,    \* get() is None
    Inodes,
    NoFile,     \* no such name in the directory, no file open
    Empty,      \* content of a file nobody has written since it was emptied
    Torn,       \* any other content that json.load or from_dict rejects
    MaxTime     \* bound on the clock, for TLC

ASSUME DiskCacheAssumption ==
    /\ Ttls \subseteq Nat
    /\ NoTtl \notin Nat
    /\ NoFile \notin Inodes
    /\ Injection(Keys, Inodes) # {}
    /\ MaxTime \in Nat

Deadlines == Nat \union {NoTtl}

\* What CacheEntry.to_dict and expires_at hold.
Entries == [val : Values, until : Deadlines]

Broken == {Empty, Torn}

ASSUME ContentAssumption == NoEntry \notin Entries /\ Broken \intersect Entries = {}

VARIABLES
    file,       \* key -> the inode of <key>.json
    tmp,        \* key -> the inode of <key>.json.tmp
    data,       \* inode -> its content
    pc,         \* process -> where its operation is
    key,        \* process -> the key it works on
    ino,        \* process -> the file it has open
    entry,      \* process -> the entry it writes
    listed,     \* process -> the keys its clear has yet to remove
    now,        \* time.time()
    view,       \* process -> what its last get returned
    last,       \* history: key -> the entry last installed and not cleared
    crossed,    \* history: processes whose set overlaps another of its key
    suspect,    \* history: keys whose file a power loss, or sets that overlapped, may have spoilt
    doubtful    \* history: processes whose last get has opened a suspect key's file

local == <<key, ino, entry, listed>>
hist  == <<last, crossed, suspect, doubtful>>
vars  == <<file, tmp, data, pc, local, now, view, hist>>

\* The directory outlives the processes: nothing is synced before os.replace, so
\* a power loss may have left files that hold no entry.
Init ==
    /\ suspect \in SUBSET Keys
    /\ crossed = {} /\ doubtful = {}
    /\ LET f == CHOOSE f \in Injection(Keys, Inodes) : TRUE
       IN  file = [k \in Keys |-> IF k \in suspect THEN f[k] ELSE NoFile]
    /\ tmp    = [k \in Keys |-> NoFile]
    /\ data   = [i \in Inodes |-> Torn]
    /\ pc     = [p \in Procs |-> "idle"]
    /\ key    \in [Procs -> Keys]
    /\ ino    = [p \in Procs |-> NoFile]
    /\ entry  = [p \in Procs |-> NoEntry]
    /\ listed = [p \in Procs |-> {}]
    /\ now    = 0
    /\ view   = [p \in Procs |-> NoEntry]
    /\ last   = [k \in Keys |-> NoEntry]

Move(p, from, to) == pc[p] = from /\ pc' = [pc EXCEPT ![p] = to]

-----------------------------------------------------------------------------
\* get

\* os.path.exists(path)
GetMiss(p, k) ==
    /\ Move(p, "idle", "idle")
    /\ file[k] = NoFile
    /\ view' = [view EXCEPT ![p] = NoEntry]
    /\ UNCHANGED <<file, tmp, data, local, now, hist>>

GetFound(p, k) ==
    /\ Move(p, "idle", "open")
    /\ file[k] # NoFile
    /\ key' = [key EXCEPT ![p] = k]
    /\ UNCHANGED <<file, tmp, data, ino, entry, listed, now, view, hist>>

OpenEntry(p) ==
    /\ file[key[p]] # NoFile
    /\ Move(p, "open", "load")
    /\ ino' = [ino EXCEPT ![p] = file[key[p]]]
    /\ doubtful' = IF key[p] \in suspect THEN doubtful \union {p} ELSE doubtful \ {p}
    /\ UNCHANGED <<file, tmp, data, key, entry, listed, now, view, last, crossed, suspect>>

\* The file has gone since os.path.exists: CacheError.
OpenFails(p) ==
    /\ file[key[p]] = NoFile
    /\ Move(p, "open", "idle")
    /\ UNCHANGED <<file, tmp, data, local, now, view, hist>>

Close(p) == ino' = [ino EXCEPT ![p] = NoFile]

Loaded(p) == data[ino[p]]

Writes(q, i) == pc[q] = "write" /\ ino[q] = i

\* JSONDecodeError or KeyError: CacheError.
LoadFails(p) ==
    /\ Move(p, "load", "idle")
    /\ Loaded(p) \in Broken \/ \E q \in Procs : Writes(q, ino[p])
    /\ Close(p)
    /\ UNCHANGED <<file, tmp, data, key, entry, listed, now, view, hist>>

Expired(e) == e.until # NoTtl /\ e.until < now

LoadFresh(p) ==
    /\ Move(p, "load", "idle")
    /\ Loaded(p) \notin Broken
    /\ ~Expired(Loaded(p))
    /\ Close(p)
    /\ view' = [view EXCEPT ![p] = Loaded(p)]
    /\ UNCHANGED <<file, tmp, data, key, entry, listed, now, hist>>

LoadExpired(p) ==
    /\ Move(p, "load", "expire")
    /\ Loaded(p) \notin Broken
    /\ Expired(Loaded(p))
    /\ UNCHANGED <<file, tmp, data, local, now, view, hist>>

\* os.remove(path), whatever file the path leads to by now.
RemoveExpired(p) ==
    /\ Move(p, "expire", "idle")
    /\ Close(p)
    /\ file' = [file EXCEPT ![key[p]] = NoFile]
    /\ view' = [view EXCEPT ![p] = NoEntry]
    /\ UNCHANGED <<tmp, data, key, entry, listed, now, hist>>

-----------------------------------------------------------------------------
\* set

Setting(q, k) == pc[q] \in {"write", "replace"} /\ key[q] = k

Unused ==
    Inodes \ ({file[k] : k \in Keys} \union {tmp[k] : k \in Keys} \union {ino[p] : p \in Procs})

\* Mutant: the entry is written in place.
TmpInodeInPlace(k) ==
    IF file[k] # NoFile THEN file[k]
    ELSE IF tmp[k] # NoFile THEN tmp[k] ELSE CHOOSE i \in Unused : TRUE

\* open(tmp_path, "w") takes the file that is there, or makes one.
TmpInode(k) == IF tmp[k] # NoFile THEN tmp[k] ELSE CHOOSE i \in Unused : TRUE

\* Mutant: the deadline lies as far behind as it should lie ahead.
DeadlineBehind(ttl) == IF ttl = NoTtl THEN NoTtl ELSE now - ttl

Deadline(ttl) == IF ttl = NoTtl THEN NoTtl ELSE now + ttl

\* open(tmp_path, "w") empties the file, whoever else writes it: the lock keeps
\* apart the sets of one instance only.
OpenTmp(p, k, v, ttl) ==
    /\ tmp[k] # NoFile \/ Unused # {}
    /\ Move(p, "idle", "write")
    /\ key' = [key EXCEPT ![p] = k]
    /\ ino' = [ino EXCEPT ![p] = TmpInode(k)]
    /\ entry' = [entry EXCEPT ![p] = [val |-> v, until |-> Deadline(ttl)]]
    /\ tmp' = [tmp EXCEPT ![k] = TmpInode(k)]
    /\ data' = [data EXCEPT ![TmpInode(k)] = Empty]
    /\ LET others == {q \in Procs \ {p} : Setting(q, k)}
       IN  crossed' = IF others = {} THEN crossed \ {p} ELSE crossed \union others \union {p}
    /\ UNCHANGED <<file, listed, now, view, last, suspect, doubtful>>

\* Somebody else writes, or has written since it was emptied, the file p writes.
Shared(p) ==
    \/ data[ino[p]] # Empty
    \/ \E q \in Procs \ {p} : Writes(q, ino[p])

\* json.dump and close.  Two writers of one file leave either entry or a mixture.
Write(p) ==
    /\ Move(p, "write", "replace")
    /\ Close(p)
    /\ \E content \in {entry[p]} \union (IF Shared(p) THEN {Torn} ELSE {}) :
         data' = [data EXCEPT ![ino[p]] = content]
    /\ UNCHANGED <<file, tmp, key, entry, listed, now, view, hist>>

\* A write that does not end has written nothing, or a part.
Unfinished(p) ==
    \/ UNCHANGED data
    \/ pc[p] = "write" /\ data' = [data EXCEPT ![ino[p]] = Torn]

\* OSError in the write or in os.replace: CacheError, and <key>.json.tmp stays.
WriteFails(p) ==
    /\ \E from \in {"write", "replace"} : Move(p, from, "idle")
    /\ Unfinished(p)
    /\ Close(p)
    /\ entry' = [entry EXCEPT ![p] = NoEntry]
    /\ UNCHANGED <<file, tmp, key, listed, now, view, hist>>

\* Mutant: a file that is there is not replaced.
ReplaceUnlessThere(p) ==
    LET k == key[p] IN
    /\ tmp[k] # NoFile
    /\ Move(p, "replace", "idle")
    /\ file' = IF file[k] = NoFile THEN [file EXCEPT ![k] = tmp[k]] ELSE file
    /\ tmp' = [tmp EXCEPT ![k] = NoFile]
    /\ last' = [last EXCEPT ![k] = entry[p]]
    /\ suspect' = IF p \in crossed THEN suspect \union {k} ELSE suspect \ {k}
    /\ entry' = [entry EXCEPT ![p] = NoEntry]
    /\ UNCHANGED <<data, key, ino, listed, now, view, crossed, doubtful>>

\* os.replace(tmp_path, path)
Replace(p) ==
    LET k == key[p] IN
    /\ tmp[k] # NoFile
    /\ Move(p, "replace", "idle")
    /\ file' = [file EXCEPT ![k] = tmp[k]]
    /\ tmp' = [tmp EXCEPT ![k] = NoFile]
    /\ last' = [last EXCEPT ![k] = entry[p]]
    /\ suspect' = IF p \in crossed THEN suspect \union {k} ELSE suspect \ {k}
    /\ entry' = [entry EXCEPT ![p] = NoEntry]
    /\ UNCHANGED <<data, key, ino, listed, now, view, crossed, doubtful>>

-----------------------------------------------------------------------------
\* clear

\* os.listdir; names that end in ".json.tmp" stay.
ListDir(p) ==
    /\ Move(p, "idle", "clear")
    /\ listed' = [listed EXCEPT ![p] = {k \in Keys : file[k] # NoFile}]
    /\ UNCHANGED <<file, tmp, data, key, ino, entry, now, view, hist>>

RemoveListed(p) ==
    \E k \in listed[p] :
      /\ Move(p, "clear", "clear")
      /\ listed' = [listed EXCEPT ![p] = @ \ {k}]
      /\ file' = [file EXCEPT ![k] = NoFile]
      /\ last' = [last EXCEPT ![k] = NoEntry]
      /\ UNCHANGED <<tmp, data, key, ino, entry, now, view, crossed, suspect, doubtful>>

ClearEnds(p) ==
    /\ listed[p] = {}
    /\ Move(p, "clear", "idle")
    /\ UNCHANGED <<file, tmp, data, local, now, view, hist>>

-----------------------------------------------------------------------------
\* The process dies and a new one takes its place.  The directory is as it was.
Crash(p) ==
    /\ pc[p] # "idle"
    /\ Unfinished(p)
    /\ pc' = [pc EXCEPT ![p] = "idle"]
    /\ Close(p)
    /\ entry' = [entry EXCEPT ![p] = NoEntry]
    /\ listed' = [listed EXCEPT ![p] = {}]
    /\ view' = [view EXCEPT ![p] = NoEntry]
    /\ UNCHANGED <<file, tmp, key, now, hist>>

Tick ==
    /\ now < MaxTime
    /\ now' = now + 1
    /\ UNCHANGED <<file, tmp, data, pc, local, view, hist>>

Next ==
    \/ \E p \in Procs :
         \/ \E k \in Keys : GetMiss(p, k) \/ GetFound(p, k)
         \/ OpenEntry(p) \/ OpenFails(p)
         \/ LoadFails(p) \/ LoadFresh(p) \/ LoadExpired(p) \/ RemoveExpired(p)
         \/ \E k \in Keys, v \in Values, ttl \in Ttls \union {NoTtl} : OpenTmp(p, k, v, ttl)
         \/ Write(p) \/ WriteFails(p) \/ Replace(p)
         \/ ListDir(p) \/ RemoveListed(p) \/ ClearEnds(p)
         \/ Crash(p)
    \/ Tick

Spec == Init /\ [][Next]_vars

-----------------------------------------------------------------------------
Labels == {"idle", "open", "load", "expire", "write", "replace", "clear"}

\* Every variable keeps its type.
TypeOK ==
    /\ file    \in [Keys -> Inodes \union {NoFile}]
    /\ tmp     \in [Keys -> Inodes \union {NoFile}]
    /\ data    \in [Inodes -> Entries \union Broken]
    /\ pc      \in [Procs -> Labels]
    /\ key     \in [Procs -> Keys]
    /\ ino     \in [Procs -> Inodes \union {NoFile}]
    /\ entry   \in [Procs -> Entries \union {NoEntry}]
    /\ listed  \in [Procs -> SUBSET Keys]
    /\ now     \in Nat
    /\ view    \in [Procs -> Entries \union {NoEntry}]
    /\ last    \in [Keys -> Entries \union {NoEntry}]
    /\ suspect \in SUBSET Keys
    /\ crossed \in SUBSET Procs
    /\ doubtful \in SUBSET Procs

\* A reader never meets half an entry: whatever crashes, fails to write or leaves
\* its temporary file behind, <key>.json holds a whole entry, and the first set
\* repairs a file that was spoilt before (cache.py:156-188).  Exempt is the file of
\* sets of one key that overlapped: processes have no lock in common, their sets
\* share <key>.json.tmp, and concurrent access is not what the class is for
\* (cache.py:144-145).  The next set that overlaps no other repairs it too.
NeverTorn == \A k \in Keys \ suspect : file[k] # NoFile => data[file[k]] \notin Broken

\* What a get has found: it looks at the key once, when it opens the file.  A get
\* that opens a suspect key's file counts as a miss, whatever it returns.
viewBar ==
    [p \in Procs |-> IF p \in doubtful \/ pc[p] = "expire" THEN NoEntry
                     ELSE IF pc[p] = "load" THEN Loaded(p) ELSE view[p]]

Contract == INSTANCE CacheContract WITH Clients <- Procs, view <- viewBar

\* A get answers with the entry last installed for its key, or misses, or raises,
\* also while other processes set, expire and clear and after any crash; the file
\* that overlapping sets of its key or a power loss have left is exempt.
DiskImplementsContract == Contract!CSpec
=============================================================================

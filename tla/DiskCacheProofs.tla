--------------------------- MODULE DiskCacheProofs ---------------------------
(***************************************************************************)
(* Proofs about DiskCache, for any processes, keys, values, ttls and       *)
(* inodes, whatever crashes and whatever files were spoilt before: outside *)
(* the files that sets which overlapped have left, no entry is ever torn,  *)
(* and the cache implements CacheContract.                                 *)
(*                                                                         *)
(* Neither is inductive.  What makes them hold is who may write which      *)
(* inode: that of a temporary file is no entry's, no other key's and no    *)
(* open reader's, an entry's that is not suspect has no writer left, and a *)
(* set that overlaps no other has its temporary file to itself.            *)
(***************************************************************************)
EXTENDS DiskCache, TLAPS

Writing == {"write", "replace"}
Reading == {"load", "expire"}

\* An entry's file that is not suspect holds what was last installed, and nobody
\* has it open for writing.
FilesHold ==
    \A k \in Keys \ suspect : file[k] # NoFile =>
        /\ last[k] \in Entries /\ data[file[k]] = last[k]
        /\ \A q \in Procs : ~Writes(q, file[k])

\* A temporary file is neither an entry's file nor another key's temporary file.
TmpApart ==
    \A k, j \in Keys : tmp[k] # NoFile =>
        tmp[k] # file[j] /\ (j # k => tmp[k] # tmp[j])

\* An open reader reads no temporary file, and unless the key was suspect, a whole
\* entry that nobody has open for writing.
ReadersHold ==
    \A p \in Procs : pc[p] \in Reading =>
        /\ ino[p] \in Inodes /\ \A k \in Keys : ino[p] # tmp[k]
        /\ p \notin doubtful =>
             data[ino[p]] \in Entries /\ \A q \in Procs : ~Writes(q, ino[p])

\* A writer has a whole entry to write, and no file of another key open.
WritersHold ==
    \A p \in Procs :
      /\ pc[p] \in Writing => entry[p] \in Entries
      /\ pc[p] = "write" =>
           ino[p] \in Inodes /\ \A k \in Keys \ {key[p]} : ino[p] # tmp[k] /\ ino[p] # file[k]

\* A set that overlaps no other has the temporary file of its key: empty before
\* the write, whole after.
LoneSetsHold ==
    \A p \in Procs \ crossed :
      /\ pc[p] \in Writing =>
           /\ tmp[key[p]] \in Inodes
           /\ \A q \in Procs \ {p} : pc[q] \in Writing => key[q] # key[p]
      /\ pc[p] = "write" => ino[p] = tmp[key[p]] /\ data[tmp[key[p]]] = Empty
      /\ pc[p] = "replace" => data[tmp[key[p]]] = entry[p]

DirectoryInv == FilesHold /\ TmpApart /\ ReadersHold /\ WritersHold /\ LoneSetsHold

-----------------------------------------------------------------------------
\* Types.

LEMMA InitFile ==
    ASSUME Init
    PROVE  file \in [Keys -> Inodes \union {NoFile}]
<1> DEFINE f == CHOOSE f \in Injection(Keys, Inodes) : TRUE
<1>1. f \in Injection(Keys, Inodes)
  BY DiskCacheAssumption
<1>2. f \in [Keys -> Inodes]
  BY <1>1 DEF Injection, IsInjective
<1>3. file = [k \in Keys |-> IF k \in suspect THEN f[k] ELSE NoFile]
  BY DEF Init
<1> HIDE DEF f
<1> QED
  BY <1>2, <1>3

LEMMA InitType == Init => TypeOK
<1> SUFFICES ASSUME Init PROVE TypeOK
  OBVIOUS
<1>1. file \in [Keys -> Inodes \union {NoFile}]
  BY InitFile
<1> QED
  BY <1>1 DEF Init, TypeOK, Labels, Broken

\* open(tmp_path, "w") takes the key's temporary file or an inode nothing refers to.
LEMMA TmpInodeFacts ==
    ASSUME TypeOK, NEW k \in Keys, tmp[k] # NoFile \/ Unused # {}
    PROVE  /\ TmpInode(k) \in Inodes
           /\ TmpInode(k) = tmp[k] \/ TmpInode(k) \in Unused
<1>1. CASE tmp[k] # NoFile
  BY <1>1 DEF TypeOK, TmpInode
<1>2. CASE tmp[k] = NoFile
  <2>1. TmpInode(k) \in Unused
    BY <1>2 DEF TmpInode
  <2> QED
    BY <2>1 DEF Unused
<1> QED
  BY <1>1, <1>2

LEMMA DeadlineType ==
    ASSUME TypeOK, NEW ttl \in Ttls \union {NoTtl}
    PROVE  Deadline(ttl) \in Deadlines
BY DiskCacheAssumption DEF TypeOK, Deadline, Deadlines

\* The file operations of one process.
ProcStep(p) ==
    \/ \E k \in Keys : GetMiss(p, k) \/ GetFound(p, k)
    \/ OpenEntry(p) \/ OpenFails(p)
    \/ LoadFails(p) \/ LoadFresh(p) \/ LoadExpired(p) \/ RemoveExpired(p)
    \/ \E k \in Keys, v \in Values, ttl \in Ttls \union {NoTtl} : OpenTmp(p, k, v, ttl)
    \/ Write(p) \/ WriteFails(p) \/ Replace(p)
    \/ ListDir(p) \/ RemoveListed(p) \/ ClearEnds(p)
    \/ Crash(p)

LEMMA ProcStepType ==
    ASSUME TypeOK, DirectoryInv, NEW p \in Procs, ProcStep(p)
    PROVE  TypeOK'
<1> USE DEF TypeOK, Labels, Move, Close, hist
<1>1. ASSUME NEW k \in Keys, GetMiss(p, k) \/ GetFound(p, k)
      PROVE  TypeOK'
  BY <1>1 DEF GetMiss, GetFound, local
<1>2. CASE OpenEntry(p) \/ OpenFails(p)
  BY <1>2 DEF OpenEntry, OpenFails, local
<1>3. CASE LoadFails(p) \/ LoadExpired(p) \/ RemoveExpired(p)
  BY <1>3 DEF LoadFails, LoadExpired, RemoveExpired, local
<1>4. CASE LoadFresh(p)
  <2>1. Loaded(p) \in Entries
    BY <1>4 DEF LoadFresh, Loaded, DirectoryInv, ReadersHold, Reading
  <2> QED
    BY <1>4, <2>1 DEF LoadFresh
<1>5. ASSUME NEW k \in Keys, NEW v \in Values, NEW ttl \in Ttls \union {NoTtl},
             OpenTmp(p, k, v, ttl)
      PROVE  TypeOK'
  <2>1. TmpInode(k) \in Inodes
    BY <1>5, TmpInodeFacts DEF OpenTmp
  <2>2. [val |-> v, until |-> Deadline(ttl)] \in Entries
    BY DeadlineType DEF Entries
  <2> QED
    BY <1>5, <2>1, <2>2 DEF OpenTmp, Broken
<1>6. CASE Write(p)
  BY <1>6 DEF Write, DirectoryInv, WritersHold, Writing, Broken
<1>7. CASE ListDir(p) \/ RemoveListed(p) \/ ClearEnds(p)
  BY <1>7 DEF ListDir, RemoveListed, ClearEnds, local
<1>8. CASE Replace(p)
  BY <1>8 DEF Replace
<1>9. CASE WriteFails(p) \/ Crash(p)
  <2>1. data' \in [Inodes -> Entries \union Broken]
    BY <1>9 DEF WriteFails, Crash, Unfinished, Broken
  <2> QED
    BY <1>9, <2>1 DEF WriteFails, Crash, local
<1> QED
  BY <1>1, <1>2, <1>3, <1>4, <1>5, <1>6, <1>7, <1>8, <1>9 DEF ProcStep

LEMMA NextType == TypeOK /\ DirectoryInv /\ [Next]_vars => TypeOK'
<1> SUFFICES ASSUME TypeOK, DirectoryInv, [Next]_vars PROVE TypeOK'
  OBVIOUS
<1>1. ASSUME NEW p \in Procs, ProcStep(p) PROVE TypeOK'
  BY <1>1, ProcStepType
<1>2. CASE Tick
  BY <1>2 DEF Tick, TypeOK, local, hist
<1>3. CASE UNCHANGED vars
  BY <1>3 DEF vars, TypeOK, local, hist
<1> QED
  BY <1>1, <1>2, <1>3 DEF Next, ProcStep

-----------------------------------------------------------------------------
\* The directory.

LEMMA InitDirectory == Init => DirectoryInv
<1> SUFFICES ASSUME Init PROVE DirectoryInv
  OBVIOUS
<1>1. TypeOK
  BY InitType
<1>2. FilesHold
  BY <1>1 DEF Init, FilesHold, TypeOK
<1> QED
  BY <1>2 DEF Init, DirectoryInv, TmpApart, ReadersHold, WritersHold, LoneSetsHold,
              Reading, Writing

\* Process q neither reads nor writes after the step, or goes on as it did.
Rests(q) == pc'[q] \notin Reading \union Writing

GoesOn(q) ==
    /\ pc[q] \in Reading \union Writing
    /\ pc'[q] = pc[q] \/ (pc[q] = "load" /\ pc'[q] = "expire")
    /\ key'[q] = key[q] /\ ino'[q] = ino[q] /\ entry'[q] = entry[q]

\* A process that takes no step stays where it is.
LEMMA OthersStay ==
    ASSUME TypeOK, NEW p \in Procs, ProcStep(p), NEW q \in Procs, q # p
    PROVE  /\ pc'[q] = pc[q] /\ key'[q] = key[q] /\ ino'[q] = ino[q]
           /\ entry'[q] = entry[q] /\ view'[q] = view[q]
<1> USE DEF TypeOK, Move, Close
<1>1. ASSUME NEW k \in Keys, GetMiss(p, k) \/ GetFound(p, k)
      PROVE  /\ pc'[q] = pc[q] /\ key'[q] = key[q] /\ ino'[q] = ino[q]
             /\ entry'[q] = entry[q] /\ view'[q] = view[q]
  BY <1>1 DEF GetMiss, GetFound, local
<1>2. CASE OpenEntry(p) \/ OpenFails(p) \/ LoadFails(p) \/ LoadFresh(p) \/ LoadExpired(p)
           \/ RemoveExpired(p)
  BY <1>2 DEF OpenEntry, OpenFails, LoadFails, LoadFresh, LoadExpired, RemoveExpired, local
<1>3. ASSUME NEW k \in Keys, NEW v \in Values, NEW ttl \in Ttls \union {NoTtl},
             OpenTmp(p, k, v, ttl)
      PROVE  /\ pc'[q] = pc[q] /\ key'[q] = key[q] /\ ino'[q] = ino[q]
             /\ entry'[q] = entry[q] /\ view'[q] = view[q]
  BY <1>3 DEF OpenTmp
<1>4. CASE Write(p) \/ WriteFails(p) \/ Replace(p) \/ ListDir(p) \/ RemoveListed(p)
           \/ ClearEnds(p) \/ Crash(p)
  BY <1>4 DEF Write, WriteFails, Replace, ListDir, RemoveListed, ClearEnds, Crash, local
<1> QED
  BY <1>1, <1>2, <1>3, <1>4 DEF ProcStep

\* What p writes disturbs no file that is not suspect, no reader of such a file and
\* no set that overlaps no other.
Undisturbed(p) ==
    /\ \A k \in Keys \ suspect : file[k] # NoFile => data'[file[k]] = data[file[k]]
    /\ \A q \in Procs \ doubtful : pc[q] \in Reading => data'[ino[q]] = data[ino[q]]
    /\ \A q \in Procs \ (crossed \union {p}) :
         pc[q] \in Writing => data'[tmp[key[q]]] = data[tmp[key[q]]]

LEMMA WriterDisturbsNone ==
    ASSUME TypeOK, DirectoryInv, NEW p \in Procs, pc[p] = "write",
           NEW c, data' = [data EXCEPT ![ino[p]] = c]
    PROVE  Undisturbed(p)
<1>1. \A k \in Keys \ suspect : file[k] # NoFile => file[k] # ino[p]
  BY DEF DirectoryInv, FilesHold, Writes
<1>2. \A q \in Procs \ doubtful : pc[q] \in Reading => ino[q] # ino[p]
  BY DEF DirectoryInv, ReadersHold, Writes
<1>3. \A q \in Procs \ (crossed \union {p}) : pc[q] \in Writing => tmp[key[q]] # ino[p]
  BY DEF DirectoryInv, LoneSetsHold, WritersHold, Writing, TypeOK
<1>4. \A i \in Inodes : i # ino[p] => data'[i] = data[i]
  BY DEF TypeOK
<1> QED
  BY <1>1, <1>2, <1>3, <1>4
     DEF Undisturbed, DirectoryInv, ReadersHold, LoneSetsHold, Writing, TypeOK

\* Steps that name no file, open none for writing and at most remove an entry.
LEMMA RemovalKeeps ==
    ASSUME TypeOK, DirectoryInv, NEW p \in Procs, Undisturbed(p),
           UNCHANGED <<tmp, crossed, suspect, doubtful>>,
           \A k \in Keys : file'[k] = NoFile \/ (file'[k] = file[k] /\ last'[k] = last[k]),
           Rests(p) \/ (UNCHANGED data /\ GoesOn(p)),
           \A q \in Procs \ {p} : Rests(q) \/ GoesOn(q)
    PROVE  DirectoryInv'
<1>0. \A q \in Procs : Rests(q) \/ GoesOn(q)
  OBVIOUS
<1>1. \A q \in Procs, i \in Inodes : Writes(q, i)' => Writes(q, i)
  BY <1>0 DEF Writes, Rests, GoesOn, Reading, Writing
<1>2. FilesHold'
  BY <1>1 DEF DirectoryInv, FilesHold, Undisturbed, TypeOK
<1>3. TmpApart'
  BY DiskCacheAssumption DEF DirectoryInv, TmpApart, TypeOK
<1>4. ReadersHold'
  <2>1. ASSUME NEW q \in Procs, pc'[q] \in Reading
        PROVE  /\ pc[q] \in Reading /\ ino'[q] = ino[q] /\ ino[q] \in Inodes
               /\ \A k \in Keys : ino[q] # tmp[k]
    BY <1>0, <2>1 DEF Rests, GoesOn, Reading, Writing, DirectoryInv, ReadersHold
  <2>2. ASSUME NEW q \in Procs \ doubtful, pc'[q] \in Reading
        PROVE  data'[ino[q]] \in Entries /\ \A r \in Procs : ~Writes(r, ino[q])'
    BY <1>1, <2>1, <2>2 DEF Undisturbed, DirectoryInv, ReadersHold, Writes
  <2> QED
    BY <2>1, <2>2 DEF ReadersHold, Writes
<1>5. WritersHold'
  <2>1. ASSUME NEW q \in Procs, pc'[q] \in Writing
        PROVE  /\ pc[q] = pc'[q] /\ ino'[q] = ino[q] /\ entry'[q] = entry[q] /\ key'[q] = key[q]
    BY <1>0, <2>1 DEF Rests, GoesOn, Reading, Writing
  <2> QED
    BY <2>1, DiskCacheAssumption DEF DirectoryInv, WritersHold, Writing, TypeOK
<1>6. LoneSetsHold'
  <2>1. ASSUME NEW q \in Procs, pc'[q] \in Writing
        PROVE  /\ pc[q] = pc'[q] /\ ino'[q] = ino[q] /\ entry'[q] = entry[q] /\ key'[q] = key[q]
    BY <1>0, <2>1 DEF Rests, GoesOn, Reading, Writing
  <2>2. ASSUME NEW q \in Procs \ crossed, pc'[q] \in Writing
        PROVE  data'[tmp[key[q]]] = data[tmp[key[q]]]
    BY <2>1, <2>2 DEF Undisturbed, Rests
  <2> QED
    BY <2>1, <2>2 DEF DirectoryInv, LoneSetsHold, Writing
<1> QED
  BY <1>2, <1>3, <1>4, <1>5, <1>6 DEF DirectoryInv

\* open(tmp_path, "w")
LEMMA OpenTmpKeeps ==
    ASSUME TypeOK, DirectoryInv, NEW p \in Procs, NEW k \in Keys, NEW v \in Values,
           NEW ttl \in Ttls \union {NoTtl}, OpenTmp(p, k, v, ttl),
           \A q \in Procs \ {p} : pc'[q] = pc[q] /\ key'[q] = key[q]
                                   /\ ino'[q] = ino[q] /\ entry'[q] = entry[q]
    PROVE  DirectoryInv'
<1> DEFINE t == TmpInode(k)
           others == {q \in Procs \ {p} : Setting(q, k)}
<1>1. /\ t \in Inodes
      /\ t = tmp[k] \/ t \in Unused
  BY TmpInodeFacts DEF OpenTmp
<1>2. /\ tmp' = [tmp EXCEPT ![k] = t] /\ data' = [data EXCEPT ![t] = Empty]
      /\ UNCHANGED <<file, last, suspect, doubtful>>
      /\ pc'[p] = "write" /\ key'[p] = k /\ ino'[p] = t
      /\ entry'[p] = [val |-> v, until |-> Deadline(ttl)]
      /\ crossed' = IF others = {} THEN crossed \ {p} ELSE crossed \union others \union {p}
  BY DEF OpenTmp, Move, TypeOK
<1>3. entry'[p] \in Entries
  BY <1>2, DeadlineType DEF Entries
<1>4. /\ \A j \in Keys : file[j] # t
      /\ \A j \in Keys \ {k} : tmp[j] # t
      /\ \A q \in Procs : pc[q] \in Reading => ino[q] # t
      /\ \A q \in Procs : pc[q] = "write" /\ key[q] # k => ino[q] # t
  <2>1. CASE t \in Unused
    BY <2>1 DEF Unused
  <2>2. CASE t = tmp[k]
    BY <1>1, <2>2, DiskCacheAssumption DEF DirectoryInv, TmpApart, ReadersHold, WritersHold
  <2> QED
    BY <1>1, <2>1, <2>2
<1>5. /\ tmp'[k] = t /\ data'[t] = Empty
      /\ \A j \in Keys \ {k} : tmp'[j] = tmp[j]
      /\ \A i \in Inodes \ {t} : data'[i] = data[i]
  BY <1>1, <1>2 DEF TypeOK
<1>6. /\ \A q \in Procs \ crossed' : q = p \/ q \notin crossed
      /\ \A q \in Procs \ crossed' : q # p /\ pc[q] \in Writing => key[q] # k
      /\ p \notin crossed' => \A q \in Procs \ {p} : pc[q] \in Writing => key[q] # k
  BY <1>2 DEF Setting, Writing
<1> HIDE DEF t, others
<1>7. FilesHold'
  <2>1. ASSUME NEW j \in Keys \ suspect, file[j] # NoFile
        PROVE  data'[file[j]] = data[file[j]] /\ \A q \in Procs : ~Writes(q, file[j])'
    <3>1. file[j] \in Inodes \ {t}
      BY <1>4, <2>1 DEF TypeOK
    <3>2. \A q \in Procs : ~Writes(q, file[j])
      BY <2>1 DEF DirectoryInv, FilesHold
    <3>3. ASSUME NEW q \in Procs PROVE ~(pc'[q] = "write" /\ ino'[q] = file[j])
      BY <1>2, <3>1, <3>2 DEF Writes
    <3> QED
      BY <1>2, <1>5, <3>1, <3>3 DEF Writes
  <2> QED
    BY <1>2, <2>1 DEF DirectoryInv, FilesHold, Writes
<1>8. TmpApart'
  BY <1>1, <1>2, <1>4 DEF DirectoryInv, TmpApart, TypeOK
<1>9. ReadersHold'
  <2>1. ASSUME NEW q \in Procs, pc'[q] \in Reading
        PROVE  /\ q # p /\ pc[q] \in Reading /\ ino'[q] = ino[q]
               /\ ino[q] \in Inodes \ {t} /\ \A j \in Keys : ino[q] # tmp[j]
    BY <1>2, <1>4, <2>1 DEF Reading, DirectoryInv, ReadersHold
  <2>2. ASSUME NEW q \in Procs \ doubtful, pc'[q] \in Reading
        PROVE  data'[ino[q]] \in Entries /\ \A r \in Procs : ~(pc'[r] = "write" /\ ino'[r] = ino[q])
    BY <1>2, <1>5, <2>1, <2>2 DEF DirectoryInv, ReadersHold, Writes
  <2>3. ASSUME NEW q \in Procs, pc'[q] \in Reading, NEW j \in Keys
        PROVE  ino[q] # tmp'[j]
    BY <1>5, <2>1, <2>3
  <2> QED
    BY <1>2, <2>1, <2>2, <2>3 DEF ReadersHold, Writes
<1>10. WritersHold'
  <2>1. ASSUME NEW q \in Procs, q # p, pc'[q] = "write", NEW j \in Keys \ {key'[q]}
        PROVE  ino'[q] # tmp'[j] /\ ino'[q] # file'[j]
    BY <1>2, <1>4, <1>5, <2>1 DEF DirectoryInv, WritersHold
  <2>2. ASSUME NEW j \in Keys \ {k}
        PROVE  t # tmp'[j] /\ t # file'[j]
    BY <1>2, <1>4, <1>5
  <2> QED
    BY <1>1, <1>2, <1>3, <2>1, <2>2 DEF DirectoryInv, WritersHold, Writing
<1>11. LoneSetsHold'
  <2>1. ASSUME NEW q \in Procs \ crossed', q # p, pc'[q] \in Writing
        PROVE  /\ q \notin crossed /\ pc[q] = pc'[q] /\ key[q] \in Keys \ {k}
               /\ tmp'[key[q]] = tmp[key[q]] /\ tmp[key[q]] \in Inodes
               /\ data'[tmp[key[q]]] = data[tmp[key[q]]]
    BY <1>4, <1>5, <1>6, <2>1 DEF DirectoryInv, LoneSetsHold, TypeOK
  <2>2. ASSUME NEW q \in Procs \ crossed', q # p, pc'[q] \in Writing,
               NEW r \in Procs \ {q}, pc'[r] \in Writing
        PROVE  key'[r] # key'[q]
    BY <1>2, <2>1, <2>2 DEF DirectoryInv, LoneSetsHold
  <2>3. ASSUME p \notin crossed', NEW r \in Procs \ {p}, pc'[r] \in Writing
        PROVE  key'[r] # k
    BY <1>6, <2>3
  <2>4. ASSUME NEW q \in Procs \ crossed', q # p
        PROVE  /\ pc'[q] = "write" =>
                    ino'[q] = tmp'[key'[q]] /\ data'[tmp'[key'[q]]] = Empty
               /\ pc'[q] = "replace" => data'[tmp'[key'[q]]] = entry'[q]
    BY <2>1, <2>4 DEF DirectoryInv, LoneSetsHold, Writing
  <2> QED
    BY <1>1, <1>2, <1>5, <2>1, <2>2, <2>3, <2>4 DEF LoneSetsHold, Writing
<1> QED
  BY <1>7, <1>8, <1>9, <1>10, <1>11 DEF DirectoryInv

\* json.dump: p, when its set overlaps no other, writes its whole entry.
LEMMA WriteKeeps ==
    ASSUME TypeOK, DirectoryInv, NEW p \in Procs, Write(p),
           \A q \in Procs \ {p} : pc'[q] = pc[q] /\ key'[q] = key[q]
                                   /\ ino'[q] = ino[q] /\ entry'[q] = entry[q]
    PROVE  DirectoryInv'
<1>1. /\ pc[p] = "write" /\ pc'[p] = "replace" /\ key'[p] = key[p] /\ entry'[p] = entry[p]
      /\ UNCHANGED <<file, tmp, last, crossed, suspect, doubtful>>
      /\ ino[p] \in Inodes /\ entry[p] \in Entries
  BY DEF Write, Move, DirectoryInv, WritersHold, Writing, TypeOK, hist
<1>2. PICK c \in {entry[p]} \union (IF Shared(p) THEN {Torn} ELSE {}) :
        data' = [data EXCEPT ![ino[p]] = c]
  BY DEF Write
<1>3. Undisturbed(p)
  BY <1>1, <1>2, WriterDisturbsNone
<1>4. p \notin crossed => data'[tmp[key[p]]] = entry[p]
  <2> SUFFICES ASSUME p \notin crossed PROVE data'[tmp[key[p]]] = entry[p]
    OBVIOUS
  <2>1. /\ ino[p] = tmp[key[p]] /\ data[ino[p]] = Empty
        /\ \A q \in Procs \ {p} : pc[q] \in Writing => key[q] # key[p]
    BY <1>1 DEF DirectoryInv, LoneSetsHold, Writing
  <2>2. \A q \in Procs \ {p} : ~Writes(q, ino[p])
    BY <1>1, <2>1 DEF Writes, DirectoryInv, WritersHold, Writing, TypeOK
  <2>3. ~Shared(p)
    BY <2>1, <2>2 DEF Shared
  <2> QED
    BY <1>1, <1>2, <2>1, <2>3 DEF TypeOK
<1>5. \A q \in Procs, i \in Inodes : Writes(q, i)' => Writes(q, i)
  BY <1>1 DEF Writes
<1>6. FilesHold'
  BY <1>1, <1>3, <1>5 DEF DirectoryInv, FilesHold, Undisturbed, TypeOK
<1>7. TmpApart'
  BY <1>1 DEF DirectoryInv, TmpApart
<1>8. ReadersHold'
  <2>1. ASSUME NEW q \in Procs, pc'[q] \in Reading
        PROVE  /\ pc[q] \in Reading /\ ino'[q] = ino[q] /\ ino[q] \in Inodes
               /\ \A k \in Keys : ino[q] # tmp[k]
    BY <1>1, <2>1 DEF Reading, DirectoryInv, ReadersHold
  <2>2. ASSUME NEW q \in Procs \ doubtful, pc'[q] \in Reading
        PROVE  data'[ino[q]] \in Entries /\ \A r \in Procs : ~Writes(r, ino[q])'
    BY <1>3, <1>5, <2>1, <2>2 DEF Undisturbed, DirectoryInv, ReadersHold, Writes
  <2> QED
    BY <1>1, <2>1, <2>2 DEF ReadersHold, Writes
<1>9. WritersHold'
  BY <1>1 DEF DirectoryInv, WritersHold, Writing
<1>10. LoneSetsHold'
  <2>1. ASSUME NEW q \in Procs \ crossed, q # p, pc[q] \in Writing
        PROVE  data'[tmp[key[q]]] = data[tmp[key[q]]]
    BY <1>3, <2>1 DEF Undisturbed
  <2> QED
    BY <1>1, <1>4, <2>1 DEF DirectoryInv, LoneSetsHold, Writing
<1> QED
  BY <1>6, <1>7, <1>8, <1>9, <1>10 DEF DirectoryInv

\* os.replace: the temporary file becomes the entry's, whole as it is when the
\* set has overlapped no other.
LEMMA ReplaceKeeps ==
    ASSUME TypeOK, DirectoryInv, NEW p \in Procs, Replace(p),
           \A q \in Procs \ {p} : pc'[q] = pc[q] /\ key'[q] = key[q]
                                   /\ ino'[q] = ino[q] /\ entry'[q] = entry[q]
    PROVE  DirectoryInv'
<1> DEFINE k == key[p]
           t == tmp[k]
<1>1. k \in Keys /\ t \in Inodes /\ t # NoFile /\ entry[p] \in Entries
  BY DEF Replace, Move, DirectoryInv, WritersHold, Writing, TypeOK
<1>2. /\ file' = [file EXCEPT ![k] = t] /\ tmp' = [tmp EXCEPT ![k] = NoFile]
      /\ last' = [last EXCEPT ![k] = entry[p]]
      /\ suspect' = IF p \in crossed THEN suspect \union {k} ELSE suspect \ {k}
      /\ UNCHANGED <<data, crossed, doubtful>> /\ pc'[p] = "idle"
  BY DEF Replace, Move, TypeOK
<1>3. p \notin crossed =>
        /\ data[t] = entry[p]
        /\ \A q \in Procs \ {p} : pc[q] \in Writing => key[q] # k
  BY DEF Replace, Move, DirectoryInv, LoneSetsHold, Writing
<1>4. \A j \in Keys \ {k} : tmp[j] # t
  BY <1>1 DEF DirectoryInv, TmpApart
<1>5. /\ file'[k] = t /\ tmp'[k] = NoFile /\ last'[k] = entry[p]
      /\ \A j \in Keys \ {k} : file'[j] = file[j] /\ tmp'[j] = tmp[j] /\ last'[j] = last[j]
  BY <1>1, <1>2 DEF TypeOK
<1>6. \A q \in Procs : pc'[q] = "write" =>
        q # p /\ pc[q] = "write" /\ ino'[q] = ino[q] /\ key'[q] = key[q]
  BY <1>2
<1> HIDE DEF k, t
<1>7. FilesHold'
  <2>1. ASSUME NEW j \in Keys \ suspect', j # k, file'[j] # NoFile
        PROVE  /\ last'[j] \in Entries /\ data'[file'[j]] = last'[j]
               /\ \A q \in Procs : ~(pc'[q] = "write" /\ ino'[q] = file'[j])
    BY <1>2, <1>5, <1>6, <2>1 DEF DirectoryInv, FilesHold, Writes
  <2>2. ASSUME k \notin suspect'
        PROVE  /\ last'[k] \in Entries /\ data'[file'[k]] = last'[k]
               /\ \A q \in Procs : ~(pc'[q] = "write" /\ ino'[q] = file'[k])
    <3>1. p \notin crossed
      BY <1>2, <2>2
    <3>2. \A q \in Procs : pc'[q] = "write" => ino[q] # t
      BY <1>1, <1>3, <1>6, <3>1 DEF DirectoryInv, WritersHold, Writing, k, t
    <3> QED
      BY <1>1, <1>2, <1>3, <1>5, <1>6, <3>1, <3>2
  <2> QED
    BY <2>1, <2>2 DEF FilesHold, Writes
<1>8. TmpApart'
  BY <1>1, <1>4, <1>5, DiskCacheAssumption DEF DirectoryInv, TmpApart, TypeOK
<1>9. ReadersHold'
  <2>1. ASSUME NEW q \in Procs, pc'[q] \in Reading
        PROVE  /\ pc[q] \in Reading /\ ino'[q] = ino[q] /\ ino[q] \in Inodes
               /\ \A j \in Keys : ino[q] # tmp'[j]
    BY <1>2, <1>5, <2>1, DiskCacheAssumption DEF Reading, DirectoryInv, ReadersHold
  <2>2. ASSUME NEW q \in Procs \ doubtful, pc'[q] \in Reading
        PROVE  data'[ino[q]] \in Entries /\ \A r \in Procs : ~(pc'[r] = "write" /\ ino'[r] = ino[q])
    BY <1>2, <1>6, <2>1, <2>2 DEF DirectoryInv, ReadersHold, Writes
  <2> QED
    BY <1>2, <2>1, <2>2 DEF ReadersHold, Writes
<1>10. WritersHold'
  <2>1. ASSUME NEW q \in Procs, pc'[q] = "write", NEW j \in Keys \ {key[q]}
        PROVE  ino[q] # tmp'[j] /\ ino[q] # file'[j]
    BY <1>1, <1>5, <1>6, <2>1, DiskCacheAssumption DEF DirectoryInv, WritersHold, k, t
  <2>2. ASSUME NEW q \in Procs, pc'[q] \in Writing
        PROVE  q # p /\ pc[q] \in Writing /\ entry'[q] = entry[q]
    BY <1>2, <2>2 DEF Writing
  <2> QED
    BY <1>6, <2>1, <2>2 DEF DirectoryInv, WritersHold, Writing
<1>11. LoneSetsHold'
  <2>1. ASSUME NEW q \in Procs \ crossed, pc'[q] \in Writing
        PROVE  /\ q # p /\ pc[q] = pc'[q] /\ key[q] \in Keys \ {k}
               /\ tmp'[key[q]] = tmp[key[q]]
    <3>1. q # p /\ pc[q] = pc'[q]
      BY <1>2, <2>1 DEF Writing
    <3>2. key[q] # key[p]
      BY <2>1, <3>1 DEF DirectoryInv, LoneSetsHold, Replace, Move, Writing
    <3> QED
      BY <1>5, <3>1, <3>2 DEF TypeOK, k
  <2>2. ASSUME NEW q \in Procs, pc'[q] \in Writing PROVE q # p /\ pc[q] = pc'[q]
    BY <1>2, <2>2 DEF Writing
  <2> QED
    BY <1>2, <2>1, <2>2 DEF DirectoryInv, LoneSetsHold, Writing
<1> QED
  BY <1>7, <1>8, <1>9, <1>10, <1>11 DEF DirectoryInv

\* open(path): the file that is open from here on is an entry's, so no temporary
\* one, and whole unless the key is suspect.
LEMMA OpenEntryKeeps ==
    ASSUME TypeOK, DirectoryInv, NEW p \in Procs, OpenEntry(p),
           \A q \in Procs \ {p} : pc'[q] = pc[q] /\ key'[q] = key[q]
                                   /\ ino'[q] = ino[q] /\ entry'[q] = entry[q]
    PROVE  DirectoryInv'
<1>1. /\ UNCHANGED <<file, tmp, data, last, crossed, suspect>>
      /\ doubtful' = IF key[p] \in suspect THEN doubtful \union {p} ELSE doubtful \ {p}
      /\ pc'[p] = "load" /\ ino'[p] = file[key[p]] /\ ino'[p] \in Inodes /\ key[p] \in Keys
      /\ file[key[p]] # NoFile
  BY DEF OpenEntry, Move, TypeOK
<1>2. \A k \in Keys : ino'[p] # tmp[k]
  BY <1>1, DiskCacheAssumption DEF DirectoryInv, TmpApart
<1>3. \A q \in Procs, i \in Inodes : Writes(q, i)' => Writes(q, i)
  BY <1>1 DEF Writes
<1>4. FilesHold'
  BY <1>1, <1>3 DEF DirectoryInv, FilesHold, TypeOK
<1>5. ReadersHold'
  <2>1. ASSUME NEW q \in Procs \ doubtful', pc'[q] \in Reading
        PROVE  data[ino'[q]] \in Entries /\ \A r \in Procs : ~Writes(r, ino'[q])
    <3>1. CASE q = p
      BY <1>1, <2>1, <3>1 DEF DirectoryInv, FilesHold
    <3>2. CASE q # p
      BY <1>1, <2>1, <3>2 DEF DirectoryInv, ReadersHold
    <3> QED
      BY <3>1, <3>2
  <2>2. ASSUME NEW q \in Procs \ doubtful', pc'[q] \in Reading, NEW r \in Procs
        PROVE  ~(pc'[r] = "write" /\ ino'[r] = ino'[q])
    BY <1>1, <2>1, <2>2 DEF Writes
  <2> QED
    BY <1>1, <1>2, <2>1, <2>2 DEF DirectoryInv, ReadersHold, Reading, Writes
<1>6. WritersHold' /\ LoneSetsHold' /\ TmpApart'
  BY <1>1 DEF DirectoryInv, WritersHold, LoneSetsHold, TmpApart, Writing
<1> QED
  BY <1>4, <1>5, <1>6 DEF DirectoryInv

\* Every step keeps the directory as it should be.
LEMMA ProcStepDirectory ==
    ASSUME TypeOK, DirectoryInv, NEW p \in Procs, ProcStep(p)
    PROVE  DirectoryInv'
<1>1. \A q \in Procs \ {p} : pc'[q] = pc[q] /\ key'[q] = key[q]
                              /\ ino'[q] = ino[q] /\ entry'[q] = entry[q]
  BY OthersStay
<1>2. \A q \in Procs \ {p} : Rests(q) \/ GoesOn(q)
  BY <1>1 DEF Rests, GoesOn
<1>3. UNCHANGED data => Undisturbed(p)
  BY DEF Undisturbed
<1> USE DEF Move, Rests, hist
<1>4. ASSUME NEW k \in Keys, GetMiss(p, k) \/ GetFound(p, k)
      PROVE  DirectoryInv'
  <2>1. UNCHANGED <<file, tmp, data, last, crossed, suspect, doubtful>> /\ Rests(p)
    BY <1>4 DEF GetMiss, GetFound, Reading, Writing, TypeOK
  <2> QED
    BY <1>2, <1>3, <2>1, RemovalKeeps
<1>5. CASE \/ OpenFails(p) \/ LoadFails(p) \/ LoadFresh(p) \/ ListDir(p) \/ ClearEnds(p)
  <2>1. UNCHANGED <<file, tmp, data, last, crossed, suspect, doubtful>> /\ Rests(p)
    BY <1>5 DEF OpenFails, LoadFails, LoadFresh, ListDir, ClearEnds, Reading, Writing, TypeOK
  <2> QED
    BY <1>2, <1>3, <2>1, RemovalKeeps
<1>6. CASE WriteFails(p) \/ Crash(p)
  <2>1. UNCHANGED <<file, tmp, last, crossed, suspect, doubtful>> /\ Rests(p) /\ Unfinished(p)
    BY <1>6 DEF WriteFails, Crash, Reading, Writing, TypeOK
  <2>2. Undisturbed(p)
    BY <1>3, <2>1, WriterDisturbsNone DEF Unfinished
  <2> QED
    BY <1>2, <2>1, <2>2, RemovalKeeps
<1>7. CASE LoadExpired(p)
  <2>1. UNCHANGED <<file, tmp, data, last, crossed, suspect, doubtful>> /\ GoesOn(p)
    BY <1>7 DEF LoadExpired, GoesOn, Reading, Writing, TypeOK, local
  <2> QED
    BY <1>2, <1>3, <2>1, RemovalKeeps
<1>8. CASE RemoveExpired(p) \/ RemoveListed(p)
  <2>1. PICK k \in Keys :
          /\ file' = [file EXCEPT ![k] = NoFile]
          /\ last' = last \/ last' = [last EXCEPT ![k] = NoEntry]
    BY <1>8 DEF RemoveExpired, RemoveListed, TypeOK
  <2>2. UNCHANGED <<tmp, data, crossed, suspect, doubtful>> /\ Rests(p)
    BY <1>8 DEF RemoveExpired, RemoveListed, Reading, Writing, TypeOK
  <2>3. \A j \in Keys : file'[j] = NoFile \/ (file'[j] = file[j] /\ last'[j] = last[j])
    BY <2>1 DEF TypeOK
  <2> QED
    BY <1>2, <1>3, <2>2, <2>3, RemovalKeeps
<1>9. ASSUME NEW k \in Keys, NEW v \in Values, NEW ttl \in Ttls \union {NoTtl},
             OpenTmp(p, k, v, ttl)
      PROVE  DirectoryInv'
  BY <1>1, <1>9, OpenTmpKeeps
<1>10. CASE OpenEntry(p) \/ Write(p) \/ Replace(p)
  BY <1>1, <1>10, OpenEntryKeeps, WriteKeeps, ReplaceKeeps
<1> QED
  BY <1>4, <1>5, <1>6, <1>7, <1>8, <1>9, <1>10 DEF ProcStep

LEMMA NextDirectory == TypeOK /\ DirectoryInv /\ [Next]_vars => DirectoryInv'
<1> SUFFICES ASSUME TypeOK, DirectoryInv, [Next]_vars PROVE DirectoryInv'
  OBVIOUS
<1>1. ASSUME NEW p \in Procs, ProcStep(p) PROVE DirectoryInv'
  BY <1>1, ProcStepDirectory
<1>2. ASSUME UNCHANGED <<file, tmp, data, pc, local, hist>>
      PROVE  DirectoryInv'
  BY <1>2 DEF local, hist, DirectoryInv, FilesHold, TmpApart, ReadersHold, WritersHold,
              LoneSetsHold, Reading, Writing, Writes
<1> QED
  BY <1>1, <1>2 DEF Next, ProcStep, Tick, vars

LEMMA DirectoryInvariant == Spec => [](TypeOK /\ DirectoryInv)
<1>1. Init => TypeOK /\ DirectoryInv
  BY InitType, InitDirectory
<1>2. TypeOK /\ DirectoryInv /\ [Next]_vars => (TypeOK /\ DirectoryInv)'
  BY NextType, NextDirectory
<1> QED
  BY <1>1, <1>2, PTL DEF Spec

\* Every variable of the disk cache keeps its type.
THEOREM DiskTypeHolds == Spec => []TypeOK
BY DirectoryInvariant, PTL

\* However the processes' file operations interleave and whatever crashes, no entry
\* is half written but in a file that an earlier power loss, or sets of the key that
\* overlapped, have spoilt; the next set that overlaps no other repairs that one.
THEOREM NeverTornHolds == Spec => []NeverTorn
<1>1. DirectoryInv => NeverTorn
  BY ContentAssumption DEF DirectoryInv, FilesHold, NeverTorn
<1> QED
  BY <1>1, DirectoryInvariant, PTL

-----------------------------------------------------------------------------
\* The refinement.

\* What the last get of process q has found.
ViewOf(q) ==
    IF q \in doubtful \/ pc[q] = "expire" THEN NoEntry
    ELSE IF pc[q] = "load" THEN data[ino[q]] ELSE view[q]

\* No step of p changes what another reads, unless the file is a suspect key's.
LEMMA ReadersUndisturbed ==
    ASSUME TypeOK, DirectoryInv, NEW p \in Procs, ProcStep(p),
           NEW q \in Procs \ doubtful, pc[q] \in Reading
    PROVE  data'[ino[q]] = data[ino[q]]
<1>1. ino[q] \in Inodes /\ \A k \in Keys : ino[q] # tmp[k]
  BY DEF DirectoryInv, ReadersHold
<1>2. ASSUME NEW k \in Keys, NEW v \in Values, NEW ttl \in Ttls \union {NoTtl},
             OpenTmp(p, k, v, ttl)
      PROVE  data'[ino[q]] = data[ino[q]]
  <2>1. TmpInode(k) = tmp[k] \/ TmpInode(k) \in Unused
    BY <1>2, TmpInodeFacts DEF OpenTmp
  <2>2. TmpInode(k) # ino[q]
    BY <1>1, <2>1 DEF Unused
  <2> QED
    BY <1>1, <1>2, <2>2 DEF OpenTmp, TypeOK
<1>3. CASE Write(p) \/ WriteFails(p) \/ Crash(p)
  <2>1. UNCHANGED data \/ Undisturbed(p)
    BY <1>3, WriterDisturbsNone DEF Write, WriteFails, Crash, Unfinished, Move
  <2> QED
    BY <2>1 DEF Undisturbed
<1>4. ASSUME NEW k \in Keys, GetMiss(p, k) \/ GetFound(p, k)
      PROVE  data'[ino[q]] = data[ino[q]]
  BY <1>4 DEF GetMiss, GetFound
<1>5. CASE \/ OpenEntry(p) \/ OpenFails(p) \/ LoadFails(p) \/ LoadFresh(p) \/ LoadExpired(p)
           \/ RemoveExpired(p) \/ Replace(p) \/ ListDir(p) \/ RemoveListed(p) \/ ClearEnds(p)
  BY <1>5 DEF OpenEntry, OpenFails, LoadFails, LoadFresh, LoadExpired, RemoveExpired,
              Replace, ListDir, RemoveListed, ClearEnds
<1> QED
  BY <1>2, <1>3, <1>4, <1>5 DEF ProcStep

\* Only the open of a get changes whether it is in doubt.
LEMMA DoubtsStay ==
    ASSUME TypeOK, NEW p \in Procs, ProcStep(p), NEW q \in Procs, q # p \/ ~OpenEntry(p)
    PROVE  q \in doubtful' <=> q \in doubtful
<1> USE DEF hist
<1>1. ASSUME NEW k \in Keys, GetMiss(p, k) \/ GetFound(p, k)
      PROVE  q \in doubtful' <=> q \in doubtful
  BY <1>1 DEF GetMiss, GetFound
<1>2. ASSUME NEW k \in Keys, NEW v \in Values, NEW ttl \in Ttls \union {NoTtl},
             OpenTmp(p, k, v, ttl)
      PROVE  q \in doubtful' <=> q \in doubtful
  BY <1>2 DEF OpenTmp
<1>3. CASE OpenEntry(p)
  BY <1>3 DEF OpenEntry
<1>4. CASE \/ OpenFails(p) \/ LoadFails(p) \/ LoadFresh(p) \/ LoadExpired(p)
           \/ RemoveExpired(p) \/ Write(p) \/ WriteFails(p) \/ Replace(p) \/ ListDir(p)
           \/ RemoveListed(p) \/ ClearEnds(p) \/ Crash(p)
  BY <1>4 DEF OpenFails, LoadFails, LoadFresh, LoadExpired, RemoveExpired, Write, WriteFails,
              Replace, ListDir, RemoveListed, ClearEnds, Crash
<1> QED
  BY <1>1, <1>2, <1>3, <1>4 DEF ProcStep

\* So a step of p changes what p has found, if anything.
LEMMA ViewOfOthers ==
    ASSUME TypeOK, DirectoryInv, NEW p \in Procs, ProcStep(p)
    PROVE  viewBar' = [viewBar EXCEPT ![p] = ViewOf(p)']
<1>1. ASSUME NEW q \in Procs, q # p
      PROVE  ViewOf(q)' = ViewOf(q)
  <2>1. pc'[q] = pc[q] /\ ino'[q] = ino[q] /\ view'[q] = view[q]
    BY <1>1, OthersStay
  <2>2. pc[q] = "load" /\ q \notin doubtful => data'[ino[q]] = data[ino[q]]
    BY ReadersUndisturbed DEF Reading
  <2>3. q \in doubtful' <=> q \in doubtful
    BY <1>1, DoubtsStay
  <2> QED
    BY <2>1, <2>2, <2>3 DEF ViewOf
<1>2. viewBar = [q \in Procs |-> ViewOf(q)] /\ viewBar' = [q \in Procs |-> ViewOf(q)']
  BY DEF viewBar, ViewOf, Loaded
<1> QED
  BY <1>1, <1>2

\* A get looks at its key when it opens the file; every other step of it finds
\* nothing new, or a miss.
LEMMA ViewOfActor ==
    ASSUME TypeOK, DirectoryInv, NEW p \in Procs, ProcStep(p)
    PROVE  \/ ViewOf(p)' = ViewOf(p)
           \/ UNCHANGED last /\ ViewOf(p)' = NoEntry
           \/ UNCHANGED last /\ \E k \in Keys : ViewOf(p)' = last[k]
<1> USE DEF Move, TypeOK, ViewOf, hist
<1>1. ASSUME NEW k \in Keys, GetMiss(p, k)
      PROVE  UNCHANGED last /\ ViewOf(p)' = NoEntry
  BY <1>1 DEF GetMiss
<1>2. ASSUME NEW k \in Keys, GetFound(p, k)
      PROVE  ViewOf(p)' = ViewOf(p)
  BY <1>2 DEF GetFound
<1>3. CASE OpenEntry(p)
  <2>1. /\ UNCHANGED <<data, last, view>> /\ pc[p] = "open" /\ pc'[p] = "load"
        /\ ino'[p] = file[key[p]] /\ file[key[p]] # NoFile /\ key[p] \in Keys
        /\ p \in doubtful' <=> key[p] \in suspect
    BY <1>3 DEF OpenEntry
  <2>2. key[p] \notin suspect => data[file[key[p]]] = last[key[p]]
    BY <2>1 DEF DirectoryInv, FilesHold
  <2> QED
    BY <2>1, <2>2
<1>4. CASE OpenFails(p)
  BY <1>4 DEF OpenFails
<1>11. CASE LoadFails(p)
  <2>1. p \in doubtful
    BY <1>11, ContentAssumption DEF LoadFails, Loaded, DirectoryInv, ReadersHold, Reading
  <2> QED
    BY <1>11, <2>1 DEF LoadFails
<1>5. CASE LoadFresh(p)
  BY <1>5 DEF LoadFresh, Loaded
<1>6. CASE LoadExpired(p) \/ RemoveExpired(p)
  BY <1>6 DEF LoadExpired, RemoveExpired
<1>7. ASSUME NEW k \in Keys, NEW v \in Values, NEW ttl \in Ttls \union {NoTtl},
             OpenTmp(p, k, v, ttl)
      PROVE  ViewOf(p)' = ViewOf(p)
  BY <1>7 DEF OpenTmp
<1>8. CASE Write(p) \/ WriteFails(p) \/ Replace(p)
  BY <1>8 DEF Write, WriteFails, Replace
<1>9. CASE ListDir(p) \/ RemoveListed(p) \/ ClearEnds(p)
  BY <1>9 DEF ListDir, RemoveListed, ClearEnds
<1>10. CASE Crash(p)
  BY <1>10 DEF Crash
<1> QED
  BY <1>1, <1>2, <1>3, <1>4, <1>11, <1>5, <1>6, <1>7, <1>8, <1>9, <1>10 DEF ProcStep

\* What installs an entry, or takes one away, is a set or a clear of one key.
LEMMA LastOfStep ==
    ASSUME TypeOK, DirectoryInv, NEW p \in Procs, ProcStep(p)
    PROVE  \/ UNCHANGED last
           \/ /\ ViewOf(p)' = ViewOf(p)
              /\ \E k \in Keys : last' = [last EXCEPT ![k] = NoEntry]
           \/ /\ ViewOf(p)' = ViewOf(p)
              /\ \E k \in Keys : last' = [last EXCEPT ![k] = entry[p]] /\ entry[p] \in Entries
<1> USE DEF hist
<1>1. CASE RemoveListed(p)
  BY <1>1 DEF RemoveListed, Move, TypeOK, ViewOf
<1>2. CASE Replace(p)
  <2>1. /\ last' = [last EXCEPT ![key[p]] = entry[p]] /\ key[p] \in Keys
        /\ pc[p] = "replace" /\ pc'[p] = "idle" /\ UNCHANGED <<view, doubtful>>
    BY <1>2 DEF Replace, Move, TypeOK
  <2>2. entry[p] \in Entries
    BY <2>1 DEF DirectoryInv, WritersHold, Writing
  <2> QED
    BY <2>1, <2>2 DEF ViewOf
<1>3. ASSUME NEW k \in Keys, GetMiss(p, k) \/ GetFound(p, k)
      PROVE  UNCHANGED last
  BY <1>3 DEF GetMiss, GetFound
<1>4. ASSUME NEW k \in Keys, NEW v \in Values, NEW ttl \in Ttls \union {NoTtl},
             OpenTmp(p, k, v, ttl)
      PROVE  UNCHANGED last
  BY <1>4 DEF OpenTmp
<1>5. CASE \/ OpenEntry(p) \/ OpenFails(p) \/ LoadFails(p) \/ LoadFresh(p) \/ LoadExpired(p)
           \/ RemoveExpired(p) \/ Write(p) \/ WriteFails(p) \/ ListDir(p) \/ ClearEnds(p)
           \/ Crash(p)
  BY <1>5 DEF OpenEntry, OpenFails, LoadFails, LoadFresh, LoadExpired, RemoveExpired,
              Write, WriteFails, ListDir, ClearEnds, Crash
<1> QED
  BY <1>1, <1>2, <1>3, <1>4, <1>5 DEF ProcStep

\* A step of the directory is one of the contract, or one it does not see.
LEMMA ProcStepImplements ==
    ASSUME TypeOK, DirectoryInv, NEW p \in Procs, ProcStep(p)
    PROVE  Contract!CNext \/ UNCHANGED Contract!cvars
<1>1. viewBar' = [viewBar EXCEPT ![p] = ViewOf(p)']
  BY ViewOfOthers
<1>2. ASSUME ViewOf(p)' = ViewOf(p) PROVE viewBar' = viewBar
  BY <1>1, <1>2 DEF viewBar, ViewOf, Loaded
<1>3. CASE UNCHANGED last /\ ViewOf(p)' = ViewOf(p)
  BY <1>2, <1>3 DEF Contract!cvars
<1>4. CASE UNCHANGED last /\ ViewOf(p)' = NoEntry
  <2>1. key[p] \in Keys
    BY DEF TypeOK
  <2>2. Contract!CGet(p, key[p])
    BY <1>1, <1>4 DEF Contract!CGet
  <2> QED
    BY <2>1, <2>2 DEF Contract!CNext
<1>5. ASSUME NEW k \in Keys, UNCHANGED last, ViewOf(p)' = last[k]
      PROVE  Contract!CNext
  <2>1. Contract!CGet(p, k)
    BY <1>1, <1>5 DEF Contract!CGet
  <2> QED
    BY <2>1 DEF Contract!CNext
<1>6. ASSUME NEW k \in Keys, last' = [last EXCEPT ![k] = NoEntry], ViewOf(p)' = ViewOf(p)
      PROVE  Contract!CNext
  <2>1. last' = [j \in Keys |-> IF j \in {k} THEN NoEntry ELSE last[j]]
    BY <1>6 DEF TypeOK
  <2>2. Contract!CClear({k})
    BY <1>2, <1>6, <2>1 DEF Contract!CClear
  <2> QED
    BY <2>2 DEF Contract!CNext
<1>7. ASSUME NEW k \in Keys, last' = [last EXCEPT ![k] = entry[p]], entry[p] \in Entries,
             ViewOf(p)' = ViewOf(p)
      PROVE  Contract!CNext
  <2>1. last'[k] = entry[p]
    BY <1>7 DEF TypeOK
  <2>2. Contract!CSet(k)
    BY <1>2, <1>7, <2>1 DEF Contract!CSet
  <2> QED
    BY <2>2 DEF Contract!CNext
<1> QED
  BY <1>3, <1>4, <1>5, <1>6, <1>7, ViewOfActor, LastOfStep

\* Whatever the processes and crashes, a get that opens no suspect key's file answers
\* with the entry last installed for its key, or misses.
THEOREM DiskImplementation == Spec => DiskImplementsContract
<1>1. Init => Contract!CInit
  BY DEF Init, Contract!CInit, viewBar
<1>2. TypeOK /\ DirectoryInv /\ [Next]_vars => [Contract!CNext]_(Contract!cvars)
  <2> SUFFICES ASSUME TypeOK, DirectoryInv, [Next]_vars
               PROVE  Contract!CNext \/ UNCHANGED Contract!cvars
    OBVIOUS
  <2>1. ASSUME NEW p \in Procs, ProcStep(p)
        PROVE  Contract!CNext \/ UNCHANGED Contract!cvars
    BY <2>1, ProcStepImplements
  <2>2. ASSUME UNCHANGED <<data, pc, ino, last, view, doubtful>>
        PROVE  UNCHANGED Contract!cvars
    BY <2>2 DEF Contract!cvars, viewBar, Loaded
  <2> QED
    BY <2>1, <2>2 DEF Next, ProcStep, Tick, vars, local, hist
<1> QED
  BY <1>1, <1>2, DirectoryInvariant, PTL DEF Spec, DiskImplementsContract, Contract!CSpec
=============================================================================

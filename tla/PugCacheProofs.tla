---------------------------- MODULE PugCacheProofs ----------------------------
(***************************************************************************)
(* Proofs about PugCache, for every finite set of files and of requests.   *)
(***************************************************************************)
EXTENDS PugCache, SequenceTheorems, TLAPS

(***************************************************************************)
(* The steps of the editors move disk, what is written and the watches     *)
(* only, and no file becomes older.                                        *)
(***************************************************************************)
LEMMA EditorStep ==
    ASSUME TypeOK, Editor
    PROVE  /\ disk' \in [Files -> [mtime : Nat, kind : {"none", "empty", "good", "bad"},
                                   inode : Nat]]
           /\ writing' \subseteq Files /\ watched' \subseteq Inodes /\ queue' \in Seq(Inodes)
           /\ \A f \in Files : disk'[f] = disk[f] \/ disk'[f].mtime = disk[f].mtime + 1
           /\ UNCHANGED <<inotify, available, templates, watches, mutex, pc, work,
                          peek, held, todo>>
<1> USE DEF TypeOK
<1>1. UNCHANGED <<inotify, available, templates, watches, mutex, pc, work, peek, held, todo>>
  BY DEF Editor, cacheVars, holdVars
<1>2. ASSUME NEW f \in Files, NEW kind \in {"empty", "good", "bad"}, NEW inode \in Nat,
             Modify(f, kind, inode)
      PROVE  /\ disk' \in [Files -> [mtime : Nat, kind : {"none", "empty", "good", "bad"},
                                     inode : Nat]]
             /\ \A g \in Files : disk'[g] = disk[g] \/ disk'[g].mtime = disk[g].mtime + 1
  BY <1>2 DEF Modify
<1>3. ASSUME NEW f \in Files, CloseWrite(f)
      PROVE  disk' = disk /\ writing' \subseteq Files /\ watched' = watched
             /\ queue' \in Seq(Inodes)
  <2>1. Inode(f) \in Inodes
    BY DEF Inode, Inodes
  <2> QED BY <1>3, <2>1, AppendProperties DEF CloseWrite
<1>4. ASSUME NEW f \in Files, Truncate(f)
      PROVE  /\ \E inode \in Nat : Modify(f, "empty", inode)
             /\ writing' \subseteq Files /\ watched' = watched /\ queue' = queue
  BY <1>4 DEF Truncate, kernelVars
<1>5. ASSUME NEW f \in Files, NEW kind \in {"good", "bad"}, Write(f, kind) \/ Replace(f, kind)
      PROVE  /\ \E inode \in Nat : Modify(f, kind, inode)
             /\ writing' = writing /\ watched' \subseteq Inodes /\ queue' = queue
  BY <1>5 DEF Write, Replace, kernelVars
<1>6. PICK f \in Files :
        \/ Truncate(f) \/ CloseWrite(f)
        \/ \E kind \in {"good", "bad"} : Write(f, kind) \/ Replace(f, kind)
  BY DEF Editor
<1>7. CASE Truncate(f)
  BY <1>1, <1>2, <1>4, <1>7
<1>8. CASE CloseWrite(f)
  BY <1>1, <1>3, <1>8
<1>9. CASE \E kind \in {"good", "bad"} : Write(f, kind) \/ Replace(f, kind)
  BY <1>1, <1>2, <1>5, <1>9
<1> QED BY <1>6, <1>7, <1>8, <1>9

(***************************************************************************)
(* What a thread begins to open is a CacheFile without a content.          *)
(***************************************************************************)
LEMMA NewFileType ==
    ASSUME TypeOK, NEW f \in Files, NEW watch \in Inodes \cup {Nobody}, NEW again \in BOOLEAN
    PROVE  /\ NewFile(f, watch, again) \in CacheFiles
           /\ NewFile(f, watch, again) # Nobody
           /\ NewFile(f, watch, again).file = f
           /\ NewFile(f, watch, again).watch = watch
<1>1. templates[f] # Nobody => templates[f].serial + 1 \in Nat
  BY DEF TypeOK, CacheFiles
<1>2. NewFile(f, watch, again) \in CacheFiles
  BY <1>1 DEF NewFile, CacheFiles
<1> QED BY <1>2, NobodyAssumption DEF NewFile

(***************************************************************************)
(* It stays one as it is read and watched.                                 *)
(***************************************************************************)
LEMMA FileType ==
    ASSUME NEW c \in CacheFiles
    PROVE  /\ c.file \in Files /\ c.mtime \in Nat /\ c.content \in Nat
           /\ c.watch \in Inodes \cup {Nobody}
           /\ \A n \in Nat : [c EXCEPT !.content = n] \in CacheFiles
           /\ \A k \in {"none", "empty", "good", "bad"} : [c EXCEPT !.kind = k] \in CacheFiles
           /\ \A w \in Inodes \cup {Nobody} : [c EXCEPT !.watch = w] \in CacheFiles
           /\ c # Nobody
<1>1. c # Nobody
  BY NobodyAssumption
<1> QED BY <1>1 DEF CacheFiles

(***************************************************************************)
(* What the time and the size make of the file that is opened.             *)
(***************************************************************************)
LEMMA StatWork ==
    ASSUME TypeOK, NEW t \in Threads, work[t] \in CacheFiles, Stat(t)
    PROVE  \E c \in CacheFiles :
             /\ work' = [work EXCEPT ![t] = c]
             /\ c.file = work[t].file /\ c.mtime = disk[c.file].mtime /\ c.watch = work[t].watch
             /\ c.kind = disk[c.file].kind
<1> DEFINE w == work[t]
           now == disk[w.file]
           c == [w EXCEPT !.mtime = now.mtime, !.kind = now.kind]
<1>1. w.file \in Files /\ now.mtime \in Nat /\ now.kind \in {"none", "empty", "good", "bad"}
  BY FileType DEF TypeOK
<1>2. /\ c \in CacheFiles /\ c.file = w.file /\ c.mtime = now.mtime
      /\ c.watch = w.watch /\ c.kind = now.kind
  BY <1>1 DEF CacheFiles
<1>3. work' = [work EXCEPT ![t] = c]
  BY DEF Stat
<1> QED BY <1>2, <1>3

(***************************************************************************)
(* What reading makes of the file that is opened.                          *)
(***************************************************************************)
LEMMA ReadWork ==
    ASSUME TypeOK, NEW t \in Threads, work[t] \in CacheFiles, Read(t)
    PROVE  \E c \in CacheFiles :
             /\ work' = [work EXCEPT ![t] = c]
             /\ c.file = work[t].file /\ c.mtime = work[t].mtime /\ c.watch = work[t].watch
             /\ disk[work[t].file].mtime = work[t].mtime => c.content = work[t].mtime
<1> DEFINE w == work[t]
<1>1. CASE disk[w.file].mtime = w.mtime
  <2> DEFINE c == [w EXCEPT !.content = w.mtime]
  <2>1. work' = [work EXCEPT ![t] = c]
    BY <1>1 DEF Read
  <2>2. c \in CacheFiles
    BY FileType
  <2>3. c.file = w.file /\ c.mtime = w.mtime /\ c.watch = w.watch /\ c.content = w.mtime
    BY DEF CacheFiles
  <2> QED BY <2>1, <2>2, <2>3
<1>2. CASE disk[w.file].mtime # w.mtime
  <2>1. PICK kind \in {"good", "bad"} :
          work' = [work EXCEPT ![t].kind = IF @ = "empty" THEN @ ELSE kind]
    BY <1>2 DEF Read
  <2> DEFINE k == IF w.kind = "empty" THEN w.kind ELSE kind
             c == [w EXCEPT !.kind = k]
  <2>2. work' = [work EXCEPT ![t] = c]
    BY <2>1
  <2>3. k \in {"none", "empty", "good", "bad"}
    OBVIOUS
  <2>4. c \in CacheFiles
    BY <2>3, FileType
  <2>5. c.file = w.file /\ c.mtime = w.mtime /\ c.watch = w.watch
    BY DEF CacheFiles
  <2> QED BY <1>2, <2>2, <2>4, <2>5
<1> QED BY <1>1, <1>2

(***************************************************************************)
(* What watching makes of it.                                              *)
(***************************************************************************)
LEMMA AddWatchWork ==
    ASSUME TypeOK, NEW t \in Threads, work[t] \in CacheFiles, AddWatch(t)
    PROVE  /\ watched' \subseteq Inodes
           /\ \E c \in CacheFiles :
                /\ work' = [work EXCEPT ![t] = c]
                /\ c.file = work[t].file /\ c.mtime = work[t].mtime
                /\ c.content = work[t].content /\ c.kind = work[t].kind
                /\ c.watch = work[t].watch \/ c.watch = Inode(work[t].file)
<1> DEFINE w == work[t]
           i == Inode(w.file)
<1>1. i \in Inodes
  BY FileType DEF Inode, Inodes, TypeOK
<1>2. CASE watched' = watched \cup {i} /\ work' = [work EXCEPT ![t].watch = i]
  <2> DEFINE c == [w EXCEPT !.watch = i]
  <2>1. c \in CacheFiles
    BY <1>1, FileType
  <2>2. /\ c.file = w.file /\ c.mtime = w.mtime /\ c.content = w.content
        /\ c.kind = w.kind /\ c.watch = i
    BY DEF CacheFiles
  <2>3. work' = [work EXCEPT ![t] = c]
    BY <1>2
  <2>4. watched' \subseteq Inodes
    BY <1>1, <1>2 DEF TypeOK
  <2> QED BY <2>1, <2>2, <2>3, <2>4
<1>3. CASE UNCHANGED <<watched, work>>
  <2>1. work' = [work EXCEPT ![t] = w]
    BY <1>3 DEF TypeOK
  <2> QED BY <1>3, <2>1 DEF TypeOK
<1> QED BY <1>2, <1>3 DEF AddWatch

(***************************************************************************)
(* Every variable stays in its set: a thread has a CacheFile to work on    *)
(* when it needs one, and what a watch leads to is in the cache.           *)
(***************************************************************************)
LEMMA TypeStep ==
    ASSUME TypeOK, Carrying, Placed, [Next]_vars
    PROVE  TypeOK'
<1> USE DEF TypeOK, Goto, diskVars, kernelVars, cacheVars, holdVars
<1> DEFINE Pcs == {"idle", "copy", "run", "acquire", "stat", "read",
                   "watch", "install", "walk", "update"}
<1>1. CASE Editor
  BY <1>1, EditorStep
<1>2. ASSUME NEW t \in Threads, Stat(t)
      PROVE  TypeOK'
  <2>1. work[t] \in CacheFiles
    BY <1>2 DEF Stat, Opening, Carrying, Opens
  <2>2. work' \in [Threads -> CacheFiles \cup {Nobody}]
    BY <1>2, <2>1, StatWork
  <2> QED BY <1>2, <2>2 DEF Stat, Opening
<1>3. ASSUME NEW t \in Threads, Read(t)
      PROVE  TypeOK'
  <2>1. work[t] \in CacheFiles
    BY <1>3 DEF Read, Opening, Carrying, Opens
  <2>2. work' \in [Threads -> CacheFiles \cup {Nobody}]
    BY <1>3, <2>1, ReadWork
  <2> QED BY <1>3, <2>2 DEF Read, Opening
<1>4. ASSUME NEW t \in Threads, AddWatch(t)
      PROVE  TypeOK'
  <2>1. work[t] \in CacheFiles
    BY <1>4 DEF AddWatch, Opening, Carrying, Opens
  <2>2. work' \in [Threads -> CacheFiles \cup {Nobody}] /\ watched' \subseteq Inodes
    BY <1>4, <2>1, AddWatchWork
  <2> QED BY <1>4, <2>2 DEF AddWatch, Opening
<1>5. ASSUME NEW r \in Requests, NEW f \in Files, RunTemplate(r, f)
      PROVE  TypeOK'
  <2>1. NewFile(f, Nobody, FALSE) \in CacheFiles
    BY NewFileType
  <2> QED BY <1>5, <2>1 DEF RunTemplate, Found, Threads
<1>6. ASSUME NEW r \in Requests, Acquire(r)
      PROVE  TypeOK'
  <2>1. work[r] \in CacheFiles /\ work[r].file \in Files
    BY <1>6 DEF Acquire, Carrying, Threads, CacheFiles
  <2>2. NewFile(work[r].file, Nobody, FALSE) \in CacheFiles
    BY <2>1, NewFileType
  <2> QED BY <1>6, <2>1, <2>2 DEF Acquire, Found, BeginOpen, Threads
<1>7. ASSUME NEW r \in Requests, Copy(r)
      PROVE  TypeOK'
  <2>1. peek[r] \in CacheFiles
    BY <1>7 DEF Copy, Carrying
  <2>2. Append(held[r], peek[r]) \in Seq(CacheFiles)
    BY <2>1, AppendProperties
  <2> QED BY <1>7, <2>2 DEF Copy, Threads
<1>8. ASSUME NEW r \in Requests, Emplace(r)
      PROVE  TypeOK'
  <2>1. work[r] \in CacheFiles /\ work[r].file \in Files /\ work[r].watch \in Inodes \cup {Nobody}
    BY <1>8 DEF Emplace, Carrying, Opens, Threads, CacheFiles
  <2>2. Append(held[r], work[r]) \in Seq(CacheFiles)
    BY <2>1, AppendProperties
  <2>3. watches' \subseteq Inodes /\ templates' \in [Files -> CacheFiles \cup {Nobody}]
    BY <1>8, <2>1 DEF Emplace
  <2>4. held' \in [Requests -> Seq(CacheFiles)]
    BY <1>8, <2>2 DEF Emplace
  <2> QED BY <1>8, <2>3, <2>4 DEF Emplace, Threads
<1>9. ASSUME NEW r \in Requests, EndRun(r)
      PROVE  TypeOK'
  <2>1. held[r] # <<>> /\ held[r] \in Seq(CacheFiles)
    BY <1>9 DEF EndRun, Carrying
  <2>2. Front(held[r]) \in Seq(CacheFiles)
    BY <2>1 DEF Front
  <2> QED BY <1>9, <2>2 DEF EndRun, Threads
<1>10. CASE BeginUpdate
  BY <1>10 DEF BeginUpdate, Threads
<1>11. CASE CompareTime
  <2>1. PICK f \in todo :
          /\ todo' = todo \ {f}
          /\ BeginOpen(Beat, f, Nobody, FALSE) \/ UNCHANGED <<pc, work>>
    BY <1>11 DEF CompareTime
  <2>2. NewFile(f, Nobody, FALSE) \in CacheFiles
    BY <2>1, NewFileType
  <2>3. CASE BeginOpen(Beat, f, Nobody, FALSE)
    BY <1>11, <2>1, <2>2, <2>3 DEF CompareTime, BeginOpen, Threads
  <2>4. CASE UNCHANGED <<pc, work>>
    BY <1>11, <2>1, <2>4 DEF CompareTime
  <2> QED BY <2>1, <2>3, <2>4
<1>12. CASE Renew
  <2>1. work[Beat] \in CacheFiles
    BY <1>12 DEF Renew, Carrying, Opens, Threads
  <2> QED BY <1>12, <2>1 DEF Renew, Threads
<1>13. CASE EndUpdate
  BY <1>13 DEF EndUpdate, Threads
<1>14. CASE Update
  <2> DEFINE f == Head(queue)[1]
  <2>1. queue # <<>> /\ Tail(queue) \in Seq(Inodes) /\ Head(queue) \in Inodes
    BY <1>14, HeadTailProperties DEF Update
  <2>2. f \in Files
    BY <2>1 DEF Inodes
  <2>3. CASE Head(queue) \in watches
    <3>1. templates[f] # Nobody /\ templates[f].watch \in Inodes \cup {Nobody}
      BY <2>2, <2>3 DEF Placed, CacheFiles
    <3>2. PICK regenerate \in BOOLEAN :
            /\ mutex' = Reader
            /\ watches' = IF regenerate THEN watches \ {Head(queue)} ELSE watches
            /\ BeginOpen(Reader, f, IF regenerate THEN Nobody ELSE templates[f].watch, regenerate)
      BY <1>14, <2>3 DEF Update
    <3> DEFINE w == IF regenerate THEN Nobody ELSE templates[f].watch
    <3>3. w \in Inodes \cup {Nobody}
      BY <3>1
    <3> HIDE DEF f, w
    <3>4. NewFile(f, w, regenerate) \in CacheFiles
      BY <2>2, <3>3, NewFileType
    <3>5. work' = [work EXCEPT ![Reader] = NewFile(f, w, regenerate)]
          /\ pc' = [pc EXCEPT ![Reader] = "stat"]
      BY <3>2 DEF BeginOpen, w
    <3> QED BY <1>14, <2>1, <3>2, <3>4, <3>5 DEF Update, Threads
  <2>4. CASE Head(queue) \notin watches
    BY <1>14, <2>1, <2>4 DEF Update
  <2> QED BY <2>3, <2>4
<1>15. CASE Reload
  <2>1. work[Reader] \in CacheFiles /\ work[Reader].watch \in Inodes \cup {Nobody}
    BY <1>15 DEF Reload, Carrying, Opens, Threads, CacheFiles
  <2>2. available' \in BOOLEAN /\ watches' \subseteq Inodes
    BY <1>15, <2>1 DEF Reload
  <2>3. templates' \in [Files -> CacheFiles \cup {Nobody}]
    BY <1>15, <2>1 DEF Reload
  <2> QED BY <1>15, <2>2, <2>3 DEF Reload, Threads
<1>16. CASE UNCHANGED vars
  BY <1>16 DEF vars
<1>17. Requests \subseteq Threads /\ Beat \in Threads /\ Reader \in Threads
  BY DEF Threads
<1> QED
  BY <1>1, <1>2, <1>3, <1>4, <1>5, <1>6, <1>7, <1>8, <1>9, <1>10, <1>11, <1>12, <1>13,
     <1>14, <1>15, <1>16, <1>17, Zenon DEF Next, Request, Heartbeat, Notify

(***************************************************************************)
(* Whoever opens or has found a template has the mutex, but for the        *)
(* heartbeat, and what it opens or has found.                              *)
(***************************************************************************)
LEMMA LockStep ==
    ASSUME TypeOK, Carrying, Locking, Placed, [Next]_vars
    PROVE  Carrying' /\ Locking'
<1> USE DEF Goto, cacheVars, holdVars
<1>0. /\ Requests \subseteq Threads /\ Beat \in Threads /\ Reader \in Threads
      /\ Beat \notin Requests /\ Reader \notin Requests /\ Beat # Reader
      /\ Nobody \notin Threads
      /\ pc \in [Threads -> {"idle", "copy", "run", "acquire", "stat", "read",
                             "watch", "install", "walk", "update"}]
      /\ work \in [Threads -> CacheFiles \cup {Nobody}]
      /\ peek \in [Requests -> CacheFiles \cup {Nobody}]
      /\ held \in [Requests -> Seq(CacheFiles)]
  BY CacheAssumption DEF TypeOK, Threads
<1>1. CASE Editor
  BY <1>1, EditorStep DEF Carrying, Locking, Opens
<1>2. ASSUME NEW t \in Threads, Stat(t) \/ Read(t) \/ AddWatch(t)
      PROVE  Carrying' /\ Locking'
  <2>1. work[t] \in CacheFiles
    BY <1>0, <1>2 DEF Stat, Read, AddWatch, Opening, Carrying, Opens
  <2>2. PICK c \in CacheFiles : work' = [work EXCEPT ![t] = c]
    BY <1>2, <2>1, StatWork, ReadWork, AddWatchWork
  <2>3. c # Nobody
    BY FileType
  <2>4. /\ Opens(t) /\ Opens(t)' /\ pc'[t] # "copy" /\ pc[t] # "copy" /\ pc[t] # "idle"
        /\ pc'[t] # "run" /\ pc'[t] # "acquire"
        /\ \A u \in Threads : u # t => pc'[u] = pc[u] /\ work'[u] = work[u]
        /\ work'[t] # Nobody
        /\ UNCHANGED <<available, mutex, peek, held>>
    BY <1>0, <1>2, <2>2, <2>3 DEF Stat, Read, AddWatch, Opening, Opens
  <2>5. Carrying'
    BY <1>0, <2>4 DEF Carrying, Opens
  <2>6. Locking'
    BY <1>0, <2>4 DEF Locking, Opens
  <2> QED BY <2>5, <2>6
<1>3. ASSUME NEW r \in Requests, NEW f \in Files, RunTemplate(r, f)
      PROVE  Carrying' /\ Locking'
  <2>1. NewFile(f, Nobody, FALSE) # Nobody
    BY NewFileType
  <2>2. Carrying'
    BY <1>0, <1>3, <2>1 DEF RunTemplate, Found, Carrying, Opens
  <2>3. /\ \A u \in Requests \cup {Reader} : pc[u] \notin {"copy", "stat", "read", "watch", "install"}
        /\ UNCHANGED available
    BY <1>0, <1>3 DEF RunTemplate, Locking, Opens
  <2>4. /\ \A u \in Threads : u # r => pc'[u] = pc[u]
        /\ (pc'[r] = "copy" /\ mutex' = r) \/ pc'[r] = "acquire"
    BY <1>0, <1>3 DEF RunTemplate, Found
  <2>5. Locking'
    BY <1>0, <2>3, <2>4 DEF Locking, Opens
  <2> QED BY <2>2, <2>5
<1>4. ASSUME NEW r \in Requests, Acquire(r)
      PROVE  Carrying' /\ Locking'
  <2>1. work[r] \in CacheFiles /\ work[r].file \in Files
    BY <1>0, <1>4, FileType DEF Acquire, Carrying
  <2>2. NewFile(work[r].file, Nobody, FALSE) # Nobody
    BY <2>1, NewFileType
  <2>3. Carrying'
    BY <1>0, <1>4, <2>2 DEF Acquire, Found, BeginOpen, Carrying, Opens
  <2>4. /\ \A u \in Requests \cup {Reader} : pc[u] \notin {"copy", "stat", "read", "watch", "install"}
        /\ UNCHANGED available
    BY <1>0, <1>4 DEF Acquire, Locking, Opens
  <2>5. /\ \A u \in Threads : u # r => pc'[u] = pc[u]
        /\ pc'[r] \in {"copy", "stat"} /\ mutex' = r
    BY <1>0, <1>4 DEF Acquire, Found, BeginOpen
  <2>6. Locking'
    BY <1>0, <2>4, <2>5 DEF Locking, Opens
  <2> QED BY <2>3, <2>6
<1>5. ASSUME NEW r \in Requests, Copy(r)
      PROVE  Carrying' /\ Locking'
  <2>1. Append(held[r], peek[r]) # <<>>
    <3>1. held[r] \in Seq(CacheFiles) /\ peek[r] \in CacheFiles
      BY <1>0, <1>5 DEF Copy, Carrying
    <3> QED BY <3>1, AppendProperties
  <2>2. Carrying'
    BY <1>0, <1>5, <2>1 DEF Copy, Carrying, Opens
  <2>3. Locking'
    BY <1>0, <1>5 DEF Copy, Locking, Opens
  <2> QED BY <2>2, <2>3
<1>6. ASSUME NEW r \in Requests, Emplace(r)
      PROVE  Carrying' /\ Locking'
  <2>1. Append(held[r], work[r]) # <<>>
    BY <1>0
  <2>2. Carrying'
    BY <1>0, <1>6, <2>1 DEF Emplace, Carrying, Opens
  <2>3. Locking'
    BY <1>0, <1>6 DEF Emplace, Locking, Opens
  <2> QED BY <2>2, <2>3
<1>7. ASSUME NEW r \in Requests, EndRun(r)
      PROVE  Carrying' /\ Locking'
  <2>1. held[r] # <<>> /\ held[r] \in Seq(CacheFiles)
    BY <1>0, <1>7 DEF EndRun, Carrying
  <2>2. Len(held[r]) # 1 => Front(held[r]) # <<>>
    <3> SUFFICES ASSUME Len(held[r]) # 1 PROVE Front(held[r]) # <<>>
      OBVIOUS
    <3>0. Len(held[r]) \in Nat \ {0}
      BY <2>1, EmptySeq
    <3>1. Len(held[r]) \in Nat /\ Len(held[r]) >= 2
      <4> DEFINE n == Len(held[r])
      <4>1. n \in Nat \ {0} /\ n # 1
        BY <3>0
      <4> HIDE DEF n
      <4>2. n \in Nat /\ n >= 2
        BY <4>1
      <4> QED BY <4>2 DEF n
    <3>2. Front(held[r]) = SubSeq(held[r], 1, Len(held[r]) - 1)
      BY DEF Front
    <3>3. Len(SubSeq(held[r], 1, Len(held[r]) - 1)) = Len(held[r]) - 1
      BY <2>1, <3>1
    <3>4. Len(Front(held[r])) # 0
      BY <3>1, <3>2, <3>3
    <3> QED BY <3>4, EmptySeq
  <2>3. Carrying'
    BY <1>0, <1>7, <2>2 DEF EndRun, Carrying, Opens
  <2>4. Locking'
    BY <1>0, <1>7 DEF EndRun, Locking, Opens
  <2> QED BY <2>3, <2>4
<1>8. CASE BeginUpdate \/ EndUpdate
  <2>1. Carrying'
    BY <1>0, <1>8 DEF BeginUpdate, EndUpdate, Carrying, Opens
  <2>2. Locking'
    BY <1>0, <1>8 DEF BeginUpdate, EndUpdate, Locking, Opens
  <2> QED BY <2>1, <2>2
<1>9. CASE CompareTime
  <2>1. PICK f \in todo : BeginOpen(Beat, f, Nobody, FALSE) \/ UNCHANGED <<pc, work>>
    BY <1>9 DEF CompareTime
  <2>2. NewFile(f, Nobody, FALSE) # Nobody
    BY <2>1, NewFileType DEF TypeOK
  <2>3. UNCHANGED <<available, mutex, peek, held>> /\ pc[Beat] = "walk"
    BY <1>9 DEF CompareTime
  <2>4. Carrying'
    BY <1>0, <2>1, <2>2, <2>3 DEF BeginOpen, Carrying, Opens
  <2>5. Locking'
    BY <1>0, <2>1, <2>3, ZenonT(40) DEF BeginOpen, Locking, Opens
  <2> QED BY <2>4, <2>5
<1>10. CASE Renew
  <2>1. Carrying'
    BY <1>0, <1>10 DEF Renew, Carrying, Opens
  <2>2. Locking'
    BY <1>0, <1>10 DEF Renew, Locking, Opens
  <2> QED BY <2>1, <2>2
<1>11. CASE Update
  <2> DEFINE f == Head(queue)[1]
  <2>1. f \in Files /\ pc[Reader] = "idle" /\ mutex = Nobody
    BY <1>11 DEF Update, Inodes, TypeOK
  <2>2. UNCHANGED <<available, peek, held>>
    BY <1>11 DEF Update
  <2>3. CASE UNCHANGED <<mutex, pc, work>>
    BY <1>0, <2>2, <2>3 DEF Carrying, Locking, Opens
  <2>4. ASSUME NEW w \in Inodes \cup {Nobody}, NEW again \in BOOLEAN, mutex' = Reader,
               BeginOpen(Reader, f, w, again)
        PROVE  Carrying' /\ Locking'
    <3>1. NewFile(f, w, again) # Nobody
      BY <2>1, NewFileType
    <3>2. Carrying'
      BY <1>0, <2>1, <2>2, <2>4, <3>1 DEF BeginOpen, Carrying, Opens
    <3>3. Locking'
      BY <1>0, <2>1, <2>2, <2>4 DEF BeginOpen, Locking, Opens
    <3> QED BY <3>2, <3>3
  <2>5. Head(queue) \in watches => templates[f].watch \in Inodes \cup {Nobody}
    BY <2>1, FileType DEF Placed, TypeOK
  <2> HIDE DEF f
  <2>6. \/ UNCHANGED <<mutex, pc, work>>
        \/ \E w \in Inodes \cup {Nobody}, again \in BOOLEAN :
              mutex' = Reader /\ BeginOpen(Reader, f, w, again)
    BY <1>11, <2>5 DEF Update, f
  <2> QED BY <2>3, <2>4, <2>6
<1>12. CASE Reload
  <2>1. Carrying'
    BY <1>0, <1>12 DEF Reload, Carrying, Opens
  <2>2. Locking'
    BY <1>0, <1>12 DEF Reload, Locking, Opens
  <2> QED BY <2>1, <2>2
<1>13. CASE UNCHANGED vars
  BY <1>13 DEF vars, Carrying, Locking, Opens
<1> QED
  BY <1>0, <1>1, <1>2, <1>3, <1>4, <1>5, <1>6, <1>7, <1>8, <1>9, <1>10, <1>11, <1>12,
     <1>13, Zenon DEF Next, Request, Heartbeat, Notify

(***************************************************************************)
(* Where a template may come from, and what may happen to what a thread    *)
(* opens, in a step that is not an editor's.                               *)
(***************************************************************************)
From(t, f) == pc[t] = "install" /\ IsValid(work[t]) /\ work[t].file = f /\ templates'[f] = work[t]

Moved(t) ==
    \/ Stat(t) \/ Read(t) \/ AddWatch(t)
    \/ /\ work'[t] = work[t]
       /\ pc'[t] = pc[t] \/ pc'[t] \notin {"read", "watch", "install"}
    \/ /\ work'[t] = Nobody \/ OfFile(work'[t])
       /\ pc'[t] \notin {"read", "watch", "install"}

\* A thread begins to open a file, goes on without one, or has opened it.
Begins(t) ==
    /\ UNCHANGED <<disk, templates>> /\ watches' \subseteq watches
    /\ Goto(t, "stat") \/ Goto(t, "acquire")
    /\ \E f \in Files, watch \in Inodes \cup {Nobody}, again \in BOOLEAN :
        /\ work' = [work EXCEPT ![t] = NewFile(f, watch, again)]
        /\ watch # Nobody => watch[1] = f

Rests(t) ==
    /\ UNCHANGED <<disk, templates>> /\ watches' \subseteq watches
    /\ \/ UNCHANGED <<pc, work>>
       \/ /\ work' = work \/ work' = [work EXCEPT ![t] = Nobody]
          /\ Goto(t, "idle") \/ Goto(t, "copy") \/ Goto(t, "run") \/ Goto(t, "walk")

Installs(t) ==
    /\ pc[t] = "install" /\ disk' = disk /\ work' = [work EXCEPT ![t] = Nobody]
    /\ Goto(t, "idle") \/ Goto(t, "run") \/ Goto(t, "walk")
    /\ \/ UNCHANGED templates /\ watches' \subseteq watches
       \/ /\ IsValid(work[t])
          /\ templates' = [templates EXCEPT ![work[t].file] = work[t]]
          /\ watches' \subseteq watches \cup ({work[t].watch} \ {Nobody})

Effect ==
    /\ disk' = disk
    /\ \A f \in Files : templates'[f] = templates[f] \/ \E t \in Threads : From(t, f)
    /\ \A w \in watches' : w \in watches \/ templates'[w[1]] # Nobody
    /\ \A t \in Threads : Moved(t)

LEMMA ThreadStep ==
    ASSUME TypeOK, Carrying, Placed, [Next]_vars, ~Editor
    PROVE  Effect
<1> USE DEF Goto, diskVars, cacheVars, holdVars
<1>0. /\ Requests \subseteq Threads /\ Beat \in Threads /\ Reader \in Threads
      /\ pc \in [Threads -> {"idle", "copy", "run", "acquire", "stat", "read",
                             "watch", "install", "walk", "update"}]
      /\ work \in [Threads -> CacheFiles \cup {Nobody}]
      /\ templates \in [Files -> CacheFiles \cup {Nobody}]
  BY DEF TypeOK, Threads
<1>1. ASSUME NEW t \in Threads, Stat(t) \/ Read(t) \/ AddWatch(t)
      PROVE  Effect
  <2>1. UNCHANGED <<disk, templates, watches>>
    BY <1>1 DEF Stat, Read, AddWatch, Opening
  <2>2. \A u \in Threads : u # t => work'[u] = work[u] /\ pc'[u] = pc[u]
    BY <1>0, <1>1 DEF Stat, Read, AddWatch
  <2> QED BY <1>1, <2>1, <2>2 DEF Moved, Effect
<1>2. ASSUME NEW t \in Threads, Begins(t)
      PROVE  Effect
  <2>1. PICK f \in Files, watch \in Inodes \cup {Nobody}, again \in BOOLEAN :
          /\ work' = [work EXCEPT ![t] = NewFile(f, watch, again)]
          /\ watch # Nobody => watch[1] = f
    BY <1>2 DEF Begins
  <2>2. OfFile(NewFile(f, watch, again))
    BY <2>1, NewFileType DEF OfFile
  <2>3. \A u \in Threads : u # t => work'[u] = work[u] /\ pc'[u] = pc[u]
    BY <1>0, <1>2, <2>1 DEF Begins
  <2>4. work'[t] = NewFile(f, watch, again) /\ pc'[t] \notin {"read", "watch", "install"}
    BY <1>0, <1>2, <2>1 DEF Begins
  <2> QED BY <1>2, <2>2, <2>3, <2>4 DEF Begins, Moved, Effect
<1>3. ASSUME NEW t \in Threads, Rests(t)
      PROVE  Effect
  <2>1. UNCHANGED <<disk, templates>> /\ watches' \subseteq watches
    BY <1>3 DEF Rests
  <2>2. CASE UNCHANGED <<pc, work>>
    BY <2>1, <2>2 DEF Moved, Effect
  <2>3. CASE /\ work' = work \/ work' = [work EXCEPT ![t] = Nobody]
             /\ Goto(t, "idle") \/ Goto(t, "copy") \/ Goto(t, "run") \/ Goto(t, "walk")
    <3>1. pc'[t] \notin {"read", "watch", "install"} /\ (work'[t] = work[t] \/ work'[t] = Nobody)
      BY <1>0, <2>3
    <3>2. \A u \in Threads : u # t => work'[u] = work[u] /\ pc'[u] = pc[u]
      BY <1>0, <2>3
    <3> QED BY <2>1, <3>1, <3>2 DEF Moved, Effect
  <2> QED BY <1>3, <2>2, <2>3 DEF Rests
<1>4. ASSUME NEW t \in Threads, Installs(t)
      PROVE  Effect
  <2>1. \A u \in Threads : Moved(u)
    <3>1. pc'[t] \notin {"read", "watch", "install"} /\ work'[t] = Nobody
      BY <1>0, <1>4 DEF Installs
    <3>2. \A u \in Threads : u # t => work'[u] = work[u] /\ pc'[u] = pc[u]
      BY <1>0, <1>4 DEF Installs
    <3> QED BY <3>1, <3>2 DEF Moved
  <2>2. CASE UNCHANGED templates /\ watches' \subseteq watches
    BY <1>4, <2>1, <2>2 DEF Installs, Effect
  <2>3. CASE /\ IsValid(work[t])
             /\ templates' = [templates EXCEPT ![work[t].file] = work[t]]
             /\ watches' \subseteq watches \cup ({work[t].watch} \ {Nobody})
    <3>1. pc[t] = "install" /\ work[t] \in CacheFiles
      BY <1>4 DEF Installs, Carrying, Opens, TypeOK
    <3>2. work[t] # Nobody /\ work[t].file \in Files
      BY <3>1, FileType
    <3>3. \A f \in Files : templates'[f] = templates[f] \/ From(t, f)
      BY <1>0, <2>3, <3>1, <3>2 DEF From
    <3>4. templates'[work[t].file] # Nobody
      BY <1>0, <2>3, <3>2
    <3>5. work[t].watch # Nobody => work[t].watch[1] = work[t].file
      BY <3>2 DEF Placed, OfFile
    <3>6. \A w \in watches' : w \in watches \/ templates'[w[1]] # Nobody
      BY <2>3, <3>4, <3>5
    <3> QED BY <1>4, <2>1, <3>3, <3>6 DEF Installs, Effect
  <2> QED BY <1>4, <2>2, <2>3 DEF Installs
<1>5. ASSUME NEW r \in Requests, NEW f \in Files, RunTemplate(r, f)
      PROVE  Effect
  <2>1. Begins(r) \/ Rests(r)
    BY <1>5 DEF RunTemplate, Found, Begins, Rests
  <2> QED BY <1>0, <1>2, <1>3, <2>1
<1>6. ASSUME NEW r \in Requests, Acquire(r)
      PROVE  Effect
  <2>1. work[r].file \in Files
    BY <1>0, <1>6, FileType DEF Acquire, Carrying
  <2>2. Begins(r) \/ Rests(r)
    BY <1>6, <2>1 DEF Acquire, Found, BeginOpen, Begins, Rests
  <2> QED BY <1>0, <1>2, <1>3, <2>2
<1>7. ASSUME NEW r \in Requests, Copy(r) \/ EndRun(r)
      PROVE  Effect
  <2>1. Rests(r)
    BY <1>7 DEF Copy, EndRun, Rests
  <2> QED BY <1>0, <1>3, <2>1
<1>8. ASSUME NEW r \in Requests, Emplace(r)
      PROVE  Effect
  <2>1. Installs(r)
    BY <1>8 DEF Emplace, Installs
  <2> QED BY <1>0, <1>4, <2>1
<1>9. CASE BeginUpdate \/ EndUpdate
  <2>1. Rests(Beat)
    BY <1>9 DEF BeginUpdate, EndUpdate, Rests
  <2> QED BY <1>0, <1>3, <2>1
<1>10. CASE CompareTime
  <2>1. PICK f \in todo : BeginOpen(Beat, f, Nobody, FALSE) \/ UNCHANGED <<pc, work>>
    BY <1>10 DEF CompareTime
  <2>2. f \in Files /\ UNCHANGED <<disk, templates, watches>>
    BY <1>10 DEF CompareTime, TypeOK
  <2>3. Begins(Beat) \/ Rests(Beat)
    BY <2>1, <2>2 DEF BeginOpen, Begins, Rests
  <2> QED BY <1>0, <1>2, <1>3, <2>3
<1>11. CASE Renew
  <2>1. Installs(Beat)
    BY <1>11 DEF Renew, Installs
  <2> QED BY <1>0, <1>4, <2>1
<1>12. CASE Update
  <2> DEFINE f == Head(queue)[1]
  <2>1. f \in Files /\ UNCHANGED <<disk, templates>> /\ watches' \subseteq watches
    BY <1>12 DEF Update, Inodes, TypeOK
  <2>2. Head(queue) \in watches =>
            /\ templates[f].watch \in Inodes \cup {Nobody}
            /\ templates[f].watch # Nobody => templates[f].watch[1] = f
    BY <1>0, <2>1, FileType, ZenonT(40) DEF Placed, OfFile
  <2> HIDE DEF f
  <2>3. \/ UNCHANGED <<pc, work>>
        \/ \E w \in Inodes \cup {Nobody}, again \in BOOLEAN :
              (w # Nobody => w[1] = f) /\ BeginOpen(Reader, f, w, again)
    BY <1>12, <2>2 DEF Update, f
  <2>4. Begins(Reader) \/ Rests(Reader)
    BY <2>1, <2>3 DEF BeginOpen, Begins, Rests
  <2> QED BY <1>0, <1>2, <1>3, <2>4
<1>13. CASE Reload
  <2> DEFINE file == work[Reader]
  <2>1. /\ pc[Reader] = "install" /\ disk' = disk /\ work' = [work EXCEPT ![Reader] = Nobody]
        /\ Goto(Reader, "idle")
    BY <1>13 DEF Reload
  <2>2. ASSUME ~IsValid(file) PROVE Installs(Reader)
    BY <1>13, <2>1, <2>2 DEF Reload, Installs
  <2>3. ASSUME IsValid(file) PROVE Installs(Reader)
    <3>1. templates' = [templates EXCEPT ![file.file] = file]
      BY <1>13, <2>3 DEF Reload
    <3>2. \/ watches' = watches
          \/ file.watch # Nobody /\ watches' = watches \cup {file.watch}
      BY <1>13, <2>3 DEF Reload
    <3> QED BY <2>1, <2>3, <3>1, <3>2 DEF Installs
  <2>4. Installs(Reader)
    BY <2>2, <2>3
  <2> QED BY <1>0, <1>4, <2>4
<1>14. CASE UNCHANGED vars
  <2>1. Rests(Beat)
    BY <1>14 DEF vars, Rests
  <2> QED BY <1>0, <1>3, <2>1
<1> QED
  BY <1>0, <1>1, <1>5, <1>6, <1>7, <1>8, <1>9, <1>10, <1>11, <1>12, <1>13, <1>14, Zenon
     DEF Next, Request, Heartbeat, Notify

(***************************************************************************)
(* A template stays under the name of its file, and what watches leads to  *)
(* stays in the cache.                                                     *)
(***************************************************************************)
LEMMA PlacedStep ==
    ASSUME TypeOK, Carrying, Placed, [Next]_vars
    PROVE  Placed'
<1>1. CASE Editor
  BY <1>1, EditorStep DEF Placed, OfFile
<1>2. CASE ~Editor
  <2>1. Effect
    BY <1>2, ThreadStep
  <2>2. ASSUME NEW f \in Files, templates'[f] # Nobody
        PROVE  templates'[f].file = f /\ OfFile(templates'[f])
    <3>1. CASE templates'[f] = templates[f]
      BY <2>2, <3>1 DEF Placed
    <3>2. ASSUME NEW t \in Threads, From(t, f)
          PROVE  templates'[f].file = f /\ OfFile(templates'[f])
      <4>1. work[t] # Nobody
        BY <2>2, <3>2 DEF From
      <4> QED BY <3>2, <4>1 DEF From, Placed
    <3> QED BY <2>1, <3>1, <3>2 DEF Effect
  <2>3. ASSUME NEW t \in Threads, work'[t] # Nobody
        PROVE  OfFile(work'[t])
    <3>1. CASE work'[t] = work[t]
      BY <2>3, <3>1 DEF Placed
    <3>2. CASE Stat(t) \/ Read(t) \/ AddWatch(t)
      <4>1. work[t] \in CacheFiles /\ work[t] # Nobody
        BY <3>2 DEF Stat, Read, AddWatch, Opening, Carrying, Opens, TypeOK
      <4>2. PICK c \in CacheFiles :
              /\ work' = [work EXCEPT ![t] = c] /\ c.file = work[t].file
              /\ c.watch = work[t].watch \/ c.watch = Inode(work[t].file)
        BY <3>2, <4>1, StatWork, ReadWork, AddWatchWork
      <4>3. work'[t] = c
        BY <4>2 DEF TypeOK
      <4> QED BY <4>1, <4>2, <4>3 DEF Placed, OfFile, Inode
    <3> QED BY <2>1, <2>3, <3>1, <3>2 DEF Effect, Moved
  <2>4. ASSUME NEW w \in watches'
        PROVE  templates'[w[1]] # Nobody
    <3>1. CASE w \in watches
      <4>1. templates[w[1]] # Nobody /\ w[1] \in Files
        BY <3>1 DEF Placed, TypeOK, Inodes
      <4>2. ASSUME NEW t \in Threads, From(t, w[1]) PROVE templates'[w[1]] # Nobody
        <5>1. work[t] # Nobody
          BY <4>2 DEF From, Carrying, Opens
        <5> QED BY <4>2, <5>1 DEF From
      <4> QED BY <2>1, <4>1, <4>2 DEF Effect
    <3> QED BY <2>1, <3>1 DEF Effect
  <2> QED BY <2>2, <2>3, <2>4 DEF Placed, OfFile
<1> QED BY <1>1, <1>2

(***************************************************************************)
(* What is as new as its file or older, and has the file's content if it   *)
(* is as new, stays so when an editor goes on.                             *)
(***************************************************************************)
LEMMA HonestStays ==
    ASSUME TypeOK, Editor, NEW c \in CacheFiles
    PROVE  /\ c.mtime <= disk[c.file].mtime => c.mtime <= disk'[c.file].mtime
           /\ Honest(c) => /\ c.mtime <= disk'[c.file].mtime
                           /\ c.mtime = disk'[c.file].mtime => c.content = c.mtime
<1> DEFINE m == disk[c.file].mtime
           n == disk'[c.file].mtime
<1>1. c.file \in Files /\ c.mtime \in Nat /\ m \in Nat
  BY FileType DEF TypeOK
<1>2. n = m \/ n = m + 1
  BY <1>1, EditorStep
<1>3. Honest(c) <=> c.mtime <= m /\ (c.mtime = m => c.content = c.mtime)
  BY DEF Honest
<1> HIDE DEF m, n
<1>4. /\ c.mtime <= m => c.mtime <= n
      /\ c.mtime <= m /\ (c.mtime = m => c.content = c.mtime) =>
            c.mtime <= n /\ (c.mtime = n => c.content = c.mtime)
  BY <1>1, <1>2
<1> QED BY <1>3, <1>4 DEF n, m

(***************************************************************************)
(* The time is taken before the content is read, so no template has a time *)
(* of its file and not the content of that time.                           *)
(***************************************************************************)
LEMMA DatedStep ==
    ASSUME TypeOK, Carrying, Placed, Dated, [Next]_vars
    PROVE  Dated'
<1>0. templates \in [Files -> CacheFiles \cup {Nobody}] /\ work \in [Threads -> CacheFiles \cup {Nobody}]
  BY DEF TypeOK
<1>1. CASE Editor
  <2>1. UNCHANGED <<templates, work, pc>>
    BY <1>1, EditorStep
  <2>2. ASSUME NEW f \in Files, templates[f] # Nobody PROVE Honest(templates[f])'
    <3>1. templates[f] \in CacheFiles /\ Honest(templates[f])
      BY <1>0, <2>2 DEF Dated
    <3> QED BY <1>1, <2>1, <3>1, HonestStays DEF Honest
  <2>3. ASSUME NEW t \in Threads
        PROVE  /\ pc[t] = "read" => work[t].mtime <= disk'[work[t].file].mtime
               /\ pc[t] = "watch" => Honest(work[t])'
               /\ pc[t] = "install" /\ IsValid(work[t]) => Honest(work[t])'
    <3>1. pc[t] \in {"read", "watch", "install"} => work[t] \in CacheFiles
      BY <1>0 DEF Carrying, Opens
    <3> QED BY <1>1, <2>1, <3>1, HonestStays DEF Dated, Honest
  <2> QED BY <2>1, <2>2, <2>3 DEF Dated, IsValid
<1>2. CASE ~Editor
  <2>1. Effect /\ disk' = disk
    BY <1>2, ThreadStep DEF Effect
  <2>2. ASSUME NEW f \in Files, templates'[f] # Nobody
        PROVE  Honest(templates'[f])
    <3>1. CASE templates'[f] = templates[f]
      BY <2>2, <3>1 DEF Dated
    <3>2. ASSUME NEW t \in Threads, From(t, f) PROVE Honest(templates'[f])
      BY <3>2 DEF From, Dated
    <3> QED BY <2>1, <3>1, <3>2 DEF Effect
  <2>3. ASSUME NEW t \in Threads
        PROVE  /\ pc'[t] = "read" => work'[t].mtime <= disk[work'[t].file].mtime
               /\ pc'[t] = "watch" => Honest(work'[t])
               /\ pc'[t] = "install" /\ work'[t].kind = "good" => Honest(work'[t])
    <3> DEFINE Goal == /\ pc'[t] = "read" => work'[t].mtime <= disk[work'[t].file].mtime
                       /\ pc'[t] = "watch" => Honest(work'[t])
                       /\ pc'[t] = "install" /\ work'[t].kind = "good" => Honest(work'[t])
    <3>1. CASE work'[t] = work[t] /\ (pc'[t] = pc[t] \/ pc'[t] \notin {"read", "watch", "install"})
      BY <3>1 DEF Dated, IsValid
    <3>2. CASE pc'[t] \notin {"read", "watch", "install"}
      BY <3>2
    <3>3. CASE Stat(t)
      <4>1. work[t] \in CacheFiles
        BY <1>0, <3>3 DEF Stat, Opening, Carrying, Opens
      <4>2. PICK c \in CacheFiles :
              /\ work' = [work EXCEPT ![t] = c]
              /\ c.file = work[t].file /\ c.mtime = disk[c.file].mtime /\ c.kind = disk[c.file].kind
        BY <3>3, <4>1, StatWork
      <4>3. work'[t] = c /\ c.mtime \in Nat
        BY <1>0, <4>2, FileType
      <4>4. pc'[t] = IF c.kind = "none" THEN "install" ELSE "read"
        BY <3>3, <4>2 DEF Stat, Goto, TypeOK
      <4> QED BY <4>2, <4>3, <4>4
    <3>4. CASE Read(t)
      <4>1. work[t] \in CacheFiles /\ pc[t] = "read"
        BY <1>0, <3>4 DEF Read, Opening, Carrying, Opens
      <4>2. PICK c \in CacheFiles :
              /\ work' = [work EXCEPT ![t] = c]
              /\ c.file = work[t].file /\ c.mtime = work[t].mtime
              /\ disk[work[t].file].mtime = work[t].mtime => c.content = work[t].mtime
        BY <3>4, <4>1, ReadWork
      <4>3. work'[t] = c /\ pc'[t] = "watch"
        BY <1>0, <3>4, <4>2 DEF Read, Goto, TypeOK
      <4>4. Honest(c)
        BY <4>1, <4>2 DEF Dated, Honest
      <4> QED BY <4>3, <4>4
    <3>5. CASE AddWatch(t)
      <4>1. work[t] \in CacheFiles /\ pc[t] = "watch"
        BY <1>0, <3>5 DEF AddWatch, Opening, Carrying, Opens
      <4>2. PICK c \in CacheFiles :
              /\ work' = [work EXCEPT ![t] = c]
              /\ c.file = work[t].file /\ c.mtime = work[t].mtime /\ c.content = work[t].content
        BY <3>5, <4>1, AddWatchWork
      <4>3. work'[t] = c /\ pc'[t] = "install"
        BY <1>0, <3>5, <4>2 DEF AddWatch, Goto, TypeOK
      <4>4. Honest(c)
        BY <4>1, <4>2 DEF Dated, Honest
      <4> QED BY <4>3, <4>4
    <3> QED BY <2>1, <3>1, <3>2, <3>3, <3>4, <3>5 DEF Effect, Moved
  <2> QED BY <2>1, <2>2, <2>3 DEF Dated, Honest, IsValid
<1> QED BY <1>1, <1>2

(***************************************************************************)
(* inotify is given up, and never taken up again.                          *)
(***************************************************************************)
LEMMA AvailableLost ==
    ASSUME [Next]_vars, available'
    PROVE  available
<1>1. CASE Editor
  BY <1>1 DEF Editor, cacheVars
<1>2. ASSUME NEW r \in Requests, Request(r) PROVE available
  <2>1. CASE \E f \in Files : RunTemplate(r, f)
    BY <2>1 DEF RunTemplate, cacheVars
  <2>2. CASE Acquire(r) \/ Copy(r) \/ EndRun(r)
    BY <2>2 DEF Acquire, Copy, EndRun, cacheVars
  <2>3. CASE Stat(r) \/ Read(r) \/ AddWatch(r)
    BY <2>3 DEF Stat, Read, AddWatch, Opening, cacheVars
  <2>4. CASE Emplace(r)
    BY <2>4 DEF Emplace
  <2> QED BY <1>2, <2>1, <2>2, <2>3, <2>4 DEF Request
<1>3. CASE Heartbeat
  <2>1. CASE BeginUpdate \/ CompareTime \/ EndUpdate
    BY <2>1 DEF BeginUpdate, CompareTime, EndUpdate, cacheVars
  <2>2. CASE Renew
    BY <2>2 DEF Renew
  <2>3. CASE Stat(Beat) \/ Read(Beat) \/ AddWatch(Beat)
    BY <2>3 DEF Stat, Read, AddWatch, Opening, cacheVars
  <2> QED BY <1>3, <2>1, <2>2, <2>3 DEF Heartbeat
<1>4. CASE Notify
  <2>1. CASE Update
    BY <2>1 DEF Update
  <2>2. CASE Reload
    BY <2>2 DEF Reload, cacheVars
  <2>3. CASE Stat(Reader) \/ Read(Reader) \/ AddWatch(Reader)
    BY <2>3 DEF Stat, Read, AddWatch, Opening, cacheVars
  <2> QED BY <1>4, <2>1, <2>2, <2>3 DEF Notify
<1>5. CASE UNCHANGED vars
  BY <1>5 DEF vars, cacheVars
<1> QED BY <1>1, <1>2, <1>3, <1>4, <1>5 DEF Next

(***************************************************************************)
(* While a request has the mutex and a template it has found, only the     *)
(* heartbeat could replace it, which rests while there is inotify.         *)
(***************************************************************************)
LEMMA LiveStep ==
    ASSUME TypeOK, Carrying, Locking, Placed, FoundIsLive, [Next]_vars, Carrying'
    PROVE  FoundIsLive'
<1>0. /\ Requests \subseteq Threads /\ Beat \in Threads /\ Reader \in Threads
      /\ Beat \notin Requests /\ Nobody \notin Threads
      /\ Threads = Requests \cup {Beat, Reader}
  BY CacheAssumption DEF Threads
<1>1. SUFFICES ASSUME NEW r \in Requests, available', peek'[r] # Nobody
               PROVE  templates'[peek'[r].file] = peek'[r]
  BY DEF FoundIsLive
<1>2. CASE Editor
  BY <1>1, <1>2, EditorStep DEF FoundIsLive
<1>3. available
  BY <1>1, AvailableLost
<1>4. CASE peek'[r] = peek[r] /\ ~Editor
  <2>1. peek[r] # Nobody /\ templates[peek[r].file] = peek[r] /\ mutex = r
    BY <1>1, <1>3, <1>4 DEF FoundIsLive, Carrying, Locking
  <2>2. peek[r].file \in Files
    BY <2>1, FileType DEF TypeOK
  <2>3. ASSUME NEW t \in Threads, From(t, peek[r].file)
        PROVE  FALSE
    <3>1. pc[t] = "install"
      BY <2>3 DEF From
    <3>2. t # Beat
      BY <1>3, <3>1 DEF Locking
    <3>3. mutex = t
      BY <1>0, <3>1, <3>2 DEF Locking, Opens
    <3>4. pc[r] = "copy"
      BY <2>1 DEF Carrying
    <3> QED BY <2>1, <3>1, <3>3, <3>4
  <2>4. templates'[peek[r].file] = templates[peek[r].file]
    BY <1>4, <2>2, <2>3, ThreadStep DEF Effect
  <2> QED BY <1>4, <2>1, <2>4
<1>5. CASE peek'[r] # peek[r]
  <2>1. PICK q \in Requests : (\E f \in Files : RunTemplate(q, f)) \/ Acquire(q) \/ Copy(q)
    BY <1>5 DEF Next, Editor, Request, Heartbeat, Notify, RunTemplate, Acquire, Copy, Emplace,
                EndRun, Stat, Read, AddWatch, Opening, BeginUpdate, CompareTime, Renew,
                EndUpdate, Update, Reload, holdVars, vars
  <2>2. q = r /\ ~Copy(q)
    BY <1>1, <1>5, <2>1 DEF RunTemplate, Acquire, Found, Copy, TypeOK
  <2>3. PICK f \in Files : Found(r, f) /\ templates[f] # Nobody
    <3>1. Acquire(r) => work[r].file \in Files
      BY <1>0, FileType DEF Acquire, Carrying, TypeOK
    <3> QED BY <1>5, <2>1, <2>2, <3>1 DEF RunTemplate, Acquire
  <2>4. peek'[r] = templates[f] /\ templates' = templates
    BY <2>1, <2>2, <2>3 DEF Found, RunTemplate, Acquire, cacheVars, TypeOK
  <2>5. templates[f].file = f
    BY <2>3 DEF Placed
  <2> QED BY <2>4, <2>5
<1> QED BY <1>2, <1>4, <1>5

(***************************************************************************)
(* A new cache is empty.                                                   *)
(***************************************************************************)
LEMMA InitInv == Init => CacheInv
<1> SUFFICES ASSUME Init PROVE CacheInv
  OBVIOUS
<1>1. TypeOK
  <2>1. disk \in [Files -> [mtime : Nat, kind : {"none", "empty", "good", "bad"}, inode : Nat]]
    BY DEF Init
  <2> QED BY <2>1 DEF Init, TypeOK
<1>2. Carrying
  BY DEF Init, Carrying, Opens, Threads
<1>3. Locking
  BY CacheAssumption DEF Init, Locking, Opens, Threads
<1>4. Placed
  BY DEF Init, Placed
<1>5. Dated
  BY DEF Init, Dated
<1>6. FoundIsLive
  BY DEF Init, FoundIsLive
<1> QED BY <1>1, <1>2, <1>3, <1>4, <1>5, <1>6 DEF CacheInv

(***************************************************************************)
(* Every step keeps the invariant.                                         *)
(***************************************************************************)
LEMMA NextInv == CacheInv /\ [Next]_vars => CacheInv'
<1> SUFFICES ASSUME CacheInv, [Next]_vars PROVE CacheInv'
  OBVIOUS
<1>1. TypeOK /\ Carrying /\ Locking /\ Placed /\ Dated /\ FoundIsLive
  BY DEF CacheInv
<1>2. TypeOK' /\ Carrying' /\ Locking' /\ Placed' /\ Dated'
  BY <1>1, TypeStep, LockStep, PlacedStep, DatedStep
<1>3. FoundIsLive'
  BY <1>1, <1>2, LiveStep
<1> QED BY <1>2, <1>3 DEF CacheInv

(***************************************************************************)
(* The invariant, and every variable in its set.                           *)
(***************************************************************************)
THEOREM CacheInvariance == Spec => []CacheInv
BY InitInv, NextInv, PTL DEF Spec

(***************************************************************************)
(* Every variable of the cache stays in its set.                           *)
(***************************************************************************)
THEOREM CacheTypeCorrect == Spec => []TypeOK
<1>1. CacheInv => TypeOK
  BY DEF CacheInv
<1> QED BY <1>1, CacheInvariance, PTL

(***************************************************************************)
(* A template in the cache that has the time of its file has the content   *)
(* the file has since that time, however the editors' steps fall between   *)
(* those of the thread that read it.                                       *)
(***************************************************************************)
THEOREM TimesAreHonest == Spec => []TimeIsHonest
<1>1. CacheInv => TimeIsHonest
  <2> SUFFICES ASSUME CacheInv, NEW f \in Files, templates[f] # Nobody,
                      templates[f].mtime = disk[f].mtime
               PROVE  Current(f)
    BY DEF TimeIsHonest
  <2>1. templates[f].file = f /\ Honest(templates[f])
    BY DEF CacheInv, Placed, Dated
  <2> QED BY <2>1 DEF Honest, Current
<1> QED BY <1>1, CacheInvariance, PTL

(***************************************************************************)
(* While inotify is used the cache owns a template from when a request     *)
(* finds it until the request has retained it.                             *)
(***************************************************************************)
THEOREM FoundStaysLive == Spec => []FoundIsLive
<1>1. CacheInv => FoundIsLive
  BY DEF CacheInv
<1> QED BY <1>1, CacheInvariance, PTL
=============================================================================

------------------------------- MODULE PugCache -------------------------------
(***************************************************************************)
(* stappler::pug::Cache: the templates a host has read from files, which   *)
(* the threads that serve requests share, with what keeps them up to date: *)
(* the heartbeat, which compares times of modification when there is no    *)
(* inotify, and update(watch), for whoever reads the inotify descriptor    *)
(* (in the repository only a test does).                                   *)
(*                                                                         *)
(*   idle --> copy --> run                  acquireTemplate, runTemplate   *)
(*     `--> acquire --> copy                                               *)
(*             `--> stat --> read --> watch --> install     openTemplate   *)
(*                                                                         *)
(* The n-th modification of a file gives it the time n; that two have the  *)
(* same time is left out.  A file is created once and not removed.         *)
(***************************************************************************)
EXTENDS Naturals, FiniteSets, SequencesExt

CONSTANTS
    Files,          \* absolute paths of templates
    Requests,       \* threads that run templates
    Beat,           \* the thread of the heartbeat
    Reader,         \* who reads the inotify descriptor
    Nobody,         \* no owner of _mutex, no template, no watch
    MaxChanges,     \* how often files may be made or modified
    Depth           \* how far templates include each other

ASSUME CacheAssumption ==
    /\ IsFiniteSet(Files) /\ IsFiniteSet(Requests)
    /\ Beat # Reader /\ {Beat, Reader} \cap Requests = {}
    /\ Nobody \notin Requests \cup {Beat, Reader}
    /\ MaxChanges \in Nat /\ Depth \in Nat \ {0}

VARIABLES
    disk,           \* for each file its time, what is in it, and its inode
    writing,        \* the files an editor has open
    watched,        \* the inodes inotify watches
    queue,          \* inotify's events
    inotify,        \* whether _inotify is a descriptor
    available,      \* _inotifyAvailable
    templates,      \* _templates
    watches,        \* _watches, whose keys are inodes of the path they lead to
    mutex,          \* the owner of _mutex
    pc,             \* where each thread is
    work,           \* the file each thread opens, and what it has of it
    peek,           \* what a request has found and not retained yet
    held,           \* the templates each request runs, the innermost last
    todo            \* the files update() has before it

diskVars == <<disk, writing>>
kernelVars == <<watched, queue>>
cacheVars == <<available, templates, watches>>
holdVars == <<peek, held>>
vars == <<diskVars, kernelVars, inotify, cacheVars, mutex, pc, work, holdVars, todo>>

Threads == Requests \cup {Beat, Reader}
Inodes == Files \X Nat

\* A CacheFile: its file's time when it was read, the modification its content
\* is of (0 if it is of several) and what that is, its watch, and its number
\* among those of the file.  With again it is read by update(watch, true).
CacheFiles ==
    [file : Files, mtime : Nat, content : Nat, kind : {"none", "empty", "good", "bad"},
     watch : Inodes \cup {Nobody}, serial : Nat, again : BOOLEAN]

ASSUME NobodyAssumption == Nobody \notin CacheFiles

TypeOK ==
    /\ disk \in [Files -> [mtime : Nat, kind : {"none", "empty", "good", "bad"},
                           inode : Nat]]
    /\ writing \subseteq Files /\ watched \subseteq Inodes /\ queue \in Seq(Inodes)
    /\ inotify \in BOOLEAN /\ available \in BOOLEAN
    /\ templates \in [Files -> CacheFiles \cup {Nobody}]
    /\ watches \subseteq Inodes
    /\ mutex \in Threads \cup {Nobody}
    /\ pc \in [Threads -> {"idle", "copy", "run", "acquire", "stat", "read",
                           "watch", "install", "walk", "update"}]
    /\ work \in [Threads -> CacheFiles \cup {Nobody}]
    /\ peek \in [Requests -> CacheFiles \cup {Nobody}]
    /\ held \in [Requests -> Seq(CacheFiles)]
    /\ todo \subseteq Files

Init ==
    /\ disk \in [Files -> {[mtime |-> 0, kind |-> "none", inode |-> 0],
                           [mtime |-> 1, kind |-> "good", inode |-> 1]}]
    /\ writing = {} /\ watched = {} /\ queue = <<>>
    /\ inotify \in BOOLEAN /\ available = inotify
    /\ templates = [f \in Files |-> Nobody] /\ watches = {}
    /\ mutex = Nobody /\ pc = [t \in Threads |-> "idle"]
    /\ work = [t \in Threads |-> Nobody]
    /\ peek = [r \in Requests |-> Nobody] /\ held = [r \in Requests |-> <<>>]
    /\ todo = {}

Goto(t, there) == pc' = [pc EXCEPT ![t] = there]

-----------------------------------------------------------------------------
(* Editors, and the kernel.                                                *)

Inode(f) == <<f, disk[f].inode>>

Modify(f, kind, inode) ==
    /\ SumFunction([g \in Files |-> disk[g].mtime]) < MaxChanges
    /\ disk' = [disk EXCEPT ![f] = [mtime |-> @.mtime + 1, kind |-> kind, inode |-> inode]]

\* A file is opened to be written anew, or made.
Truncate(f) ==
    /\ f \notin writing
    /\ Modify(f, "empty", IF disk[f].inode = 0 THEN 1 ELSE disk[f].inode)
    /\ writing' = writing \cup {f}
    /\ UNCHANGED kernelVars

Write(f, kind) ==
    /\ f \in writing
    /\ Modify(f, kind, disk[f].inode)
    /\ UNCHANGED <<writing, kernelVars>>

\* IN_CLOSE_WRITE.
CloseWrite(f) ==
    /\ f \in writing
    /\ writing' = writing \ {f}
    /\ queue' = IF Inode(f) \in watched THEN Append(queue, Inode(f)) ELSE queue
    /\ UNCHANGED <<disk, watched>>

\* Another file takes its name: the watch of the old one is gone.
Replace(f, kind) ==
    /\ f \notin writing /\ disk[f].inode # 0
    /\ Modify(f, kind, disk[f].inode + 1)
    /\ watched' = watched \ {Inode(f)}
    /\ UNCHANGED <<writing, queue>>

Editor ==
    /\ \E f \in Files :
        \/ Truncate(f) \/ CloseWrite(f)
        \/ \E kind \in {"good", "bad"} : Write(f, kind) \/ Replace(f, kind)
    /\ UNCHANGED <<inotify, cacheVars, mutex, pc, work, holdVars, todo>>

-----------------------------------------------------------------------------
(* openTemplate and CacheFile.                                             *)

NewFile(f, watch, again) ==
    [file |-> f, mtime |-> 0, content |-> 0, kind |-> "none", watch |-> watch, again |-> again,
     serial |-> IF templates[f] = Nobody THEN 0 ELSE templates[f].serial + 1]

BeginOpen(t, f, watch, again) ==
    /\ work' = [work EXCEPT ![t] = NewFile(f, watch, again)]
    /\ Goto(t, "stat")

Opening(t, step) == pc[t] = step /\ UNCHANGED <<diskVars, queue, inotify, cacheVars, mutex, holdVars, todo>>

\* The time and the size; a file that is not there is not opened.
Stat(t) ==
    /\ Opening(t, "stat")
    /\ LET now == disk[work[t].file]
       IN  /\ work' = [work EXCEPT ![t].mtime = now.mtime, ![t].kind = now.kind]
           /\ Goto(t, IF now.kind = "none" THEN "install" ELSE "read")
    /\ UNCHANGED watched

\* As many bytes as it had then: of a file that was modified since it may be
\* all or some, with anything for the parser.
Read(t) ==
    /\ Opening(t, "read")
    /\ LET now == disk[work[t].file]
       IN  IF now.mtime = work[t].mtime
           THEN work' = [work EXCEPT ![t].content = now.mtime]
           ELSE \E kind \in {"good", "bad"} :
                    work' = [work EXCEPT ![t].kind = IF @ = "empty" THEN @ ELSE kind]
    /\ Goto(t, "watch")
    /\ UNCHANGED watched

\* Mutant of AddWatch: the time is taken last.
AddWatchStat(t) ==
    /\ Opening(t, "watch")
    /\ work' = [work EXCEPT ![t].mtime = disk[work[t].file].mtime]
    /\ Goto(t, "install")
    /\ UNCHANGED watched

\* A file that is not empty is watched, unless it is known to be.  Other programs
\* have watches too, and there may be no room for one more.
AddWatch(t) ==
    LET inode == Inode(work[t].file)
    IN  /\ Opening(t, "watch")
        /\ \/ /\ inotify /\ work[t].kind # "empty" /\ work[t].watch = Nobody
              /\ watched' = watched \cup {inode}
              /\ work' = [work EXCEPT ![t].watch = inode]
           \/ /\ \/ ~inotify \/ work[t].kind = "empty" \/ work[t].watch # Nobody
                 \/ inode \notin watched
              /\ UNCHANGED <<watched, work>>
        /\ Goto(t, "install")

IsValid(file) == file.kind = "good"

-----------------------------------------------------------------------------
(* A request.                                                              *)

\* The template is in the cache.
Found(r, f) ==
    /\ mutex' = r
    /\ peek' = [peek EXCEPT ![r] = templates[f]]
    /\ Goto(r, "copy")

\* runTemplate, and from a template that runs the callback for includes:
\* acquireTemplate(path, true), ...
RunTemplate(r, f) ==
    /\ pc[r] \in {"idle", "run"} /\ Len(held[r]) < Depth /\ mutex = Nobody
    /\ IF templates[f] # Nobody THEN Found(r, f) /\ UNCHANGED work
       ELSE /\ work' = [work EXCEPT ![r] = NewFile(f, Nobody, FALSE)]
            /\ Goto(r, "acquire")
            /\ UNCHANGED <<mutex, peek>>
    /\ UNCHANGED <<diskVars, kernelVars, inotify, cacheVars, held, todo>>

\* ... and acquireTemplate(path, false), when somebody may have been faster.
Acquire(r) ==
    /\ pc[r] = "acquire" /\ mutex = Nobody
    /\ LET f == work[r].file
       IN  IF templates[f] # Nobody
           THEN Found(r, f) /\ work' = [work EXCEPT ![r] = Nobody]
           ELSE /\ mutex' = r
                /\ BeginOpen(r, f, Nobody, FALSE)
                /\ UNCHANGED peek
    /\ UNCHANGED <<diskVars, kernelVars, inotify, cacheVars, held, todo>>

\* The Rc that is returned retains it; then the mutex is released.
Copy(r) ==
    /\ pc[r] = "copy"
    /\ held' = [held EXCEPT ![r] = Append(@, peek[r])]
    /\ peek' = [peek EXCEPT ![r] = Nobody]
    /\ mutex' = Nobody
    /\ Goto(r, "run")
    /\ UNCHANGED <<diskVars, kernelVars, inotify, cacheVars, work, todo>>

\* What was opened goes to the cache; without a template the run fails (in the
\* runTemplate that is given options; the other one reads a null pointer, which
\* ends the server), or goes on without what it was to include.
Emplace(r) ==
    /\ pc[r] = "install" /\ r \in Requests
    /\ IF IsValid(work[r])
       THEN /\ templates' = [templates EXCEPT ![work[r].file] = work[r]]
            /\ watches' = watches \cup ({work[r].watch} \ {Nobody})
            /\ held' = [held EXCEPT ![r] = Append(@, work[r])]
            /\ Goto(r, "run")
       ELSE /\ Goto(r, IF held[r] = <<>> THEN "idle" ELSE "run")
            /\ UNCHANGED <<templates, watches, held>>
    /\ work' = [work EXCEPT ![r] = Nobody]
    /\ mutex' = Nobody
    /\ UNCHANGED <<diskVars, kernelVars, inotify, available, peek, todo>>

\* The innermost template has run.
EndRun(r) ==
    /\ pc[r] = "run"
    /\ held' = [held EXCEPT ![r] = Front(@)]
    /\ Goto(r, IF Len(held[r]) = 1 THEN "idle" ELSE "run")
    /\ UNCHANGED <<diskVars, kernelVars, inotify, cacheVars, mutex, work, peek, todo>>

Request(r) ==
    \/ \E f \in Files : RunTemplate(r, f)
    \/ Acquire(r) \/ Copy(r)
    \/ Stat(r) \/ Read(r) \/ AddWatch(r) \/ Emplace(r)
    \/ EndRun(r)

-----------------------------------------------------------------------------
(* The heartbeat: update(pool), without the mutex but for the question     *)
(* whether there is inotify.                                               *)

BeginUpdate ==
    /\ pc[Beat] = "idle" /\ mutex = Nobody /\ ~available
    /\ todo' = {f \in Files : templates[f] # Nobody}
    /\ Goto(Beat, "walk")
    /\ UNCHANGED <<diskVars, kernelVars, inotify, cacheVars, mutex, work, holdVars>>

\* Mutant of CompareTime: the walk ends at a file that was not modified.
CompareTimeBreak ==
    /\ pc[Beat] = "walk"
    /\ \E f \in todo :
        IF disk[f].mtime # templates[f].mtime
        THEN todo' = todo \ {f} /\ BeginOpen(Beat, f, Nobody, FALSE)
        ELSE todo' = {} /\ UNCHANGED <<pc, work>>
    /\ UNCHANGED <<diskVars, kernelVars, inotify, cacheVars, mutex, holdVars>>

CompareTime ==
    /\ pc[Beat] = "walk"
    /\ \E f \in todo :
        /\ todo' = todo \ {f}
        /\ IF disk[f].mtime # templates[f].mtime
           THEN BeginOpen(Beat, f, Nobody, FALSE)
           ELSE UNCHANGED <<pc, work>>
    /\ UNCHANGED <<diskVars, kernelVars, inotify, cacheVars, mutex, holdVars>>

\* The new template takes the place of the old; _watches is left alone.
Renew ==
    /\ pc[Beat] = "install"
    /\ templates' = IF IsValid(work[Beat])
                    THEN [templates EXCEPT ![work[Beat].file] = work[Beat]] ELSE templates
    /\ work' = [work EXCEPT ![Beat] = Nobody]
    /\ Goto(Beat, "walk")
    /\ UNCHANGED <<diskVars, kernelVars, inotify, available, watches, mutex, holdVars, todo>>

EndUpdate ==
    /\ pc[Beat] = "walk" /\ todo = {}
    /\ Goto(Beat, "idle")
    /\ UNCHANGED <<diskVars, kernelVars, inotify, cacheVars, mutex, work, holdVars, todo>>

Heartbeat ==
    \/ BeginUpdate \/ CompareTime \/ Renew \/ EndUpdate
    \/ Stat(Beat) \/ Read(Beat) \/ AddWatch(Beat)

-----------------------------------------------------------------------------
(* The reader of the inotify descriptor: update(watch, regenerate).        *)

\* Mutant of Update: without the mutex.
UpdateUnlocked ==
    /\ pc[Reader] = "idle" /\ queue # <<>>
    /\ queue' = Tail(queue)
    /\ LET f == Head(queue)[1]
       IN  IF Head(queue) \in watches
           THEN \E regenerate \in BOOLEAN :
                  /\ watches' = IF regenerate THEN watches \ {Head(queue)} ELSE watches
                  /\ BeginOpen(Reader, f,
                               IF regenerate THEN Nobody ELSE templates[f].watch, regenerate)
           ELSE UNCHANGED <<watches, pc, work>>
    /\ UNCHANGED <<diskVars, watched, inotify, available, templates, mutex, holdVars, todo>>

\* With regenerate the watch is forgotten before the file is read.
Update ==
    /\ pc[Reader] = "idle" /\ queue # <<>> /\ mutex = Nobody
    /\ queue' = Tail(queue)
    /\ LET f == Head(queue)[1]
       IN  IF Head(queue) \in watches
           THEN \E regenerate \in BOOLEAN :
                  /\ mutex' = Reader
                  /\ watches' = IF regenerate THEN watches \ {Head(queue)} ELSE watches
                  /\ BeginOpen(Reader, f,
                               IF regenerate THEN Nobody ELSE templates[f].watch, regenerate)
           ELSE UNCHANGED <<mutex, watches, pc, work>>
    /\ UNCHANGED <<diskVars, watched, inotify, available, templates, holdVars, todo>>

Reload ==
    LET file == work[Reader]
    IN  /\ pc[Reader] = "install"
        /\ IF IsValid(file)
           THEN /\ templates' = [templates EXCEPT ![file.file] = file]
                /\ IF file.again /\ file.watch = Nobody
                   THEN available' = FALSE /\ UNCHANGED watches
                   ELSE /\ watches' = IF file.again THEN watches \cup {file.watch} ELSE watches
                        /\ UNCHANGED available
           ELSE UNCHANGED cacheVars
        /\ work' = [work EXCEPT ![Reader] = Nobody]
        /\ mutex' = Nobody
        /\ Goto(Reader, "idle")
        /\ UNCHANGED <<diskVars, kernelVars, inotify, holdVars, todo>>

Notify == Update \/ Stat(Reader) \/ Read(Reader) \/ AddWatch(Reader) \/ Reload

-----------------------------------------------------------------------------
Next == Editor \/ (\E r \in Requests : Request(r)) \/ Heartbeat \/ Notify

\* The heartbeat goes on, and so does who has the mutex, which the heartbeat gets
\* at last.  Nobody has to read the inotify descriptor.
Fairness ==
    /\ WF_vars(Heartbeat) /\ SF_vars(BeginUpdate)
    /\ \A r \in Requests : WF_vars(mutex = r /\ Request(r))
    /\ WF_vars(mutex = Reader /\ Notify)

Spec == Init /\ [][Next]_vars /\ Fairness

-----------------------------------------------------------------------------
Current(f) == templates[f] # Nobody /\ templates[f].content = disk[f].mtime

\* A template that has the time of its file has its content: what was modified
\* while it was read is found to be older at the next comparison, however the
\* editor's steps fall between those of the thread that opens it (CacheFile).
TimeIsHonest ==
    \A f \in Files :
        templates[f] # Nobody /\ templates[f].mtime = disk[f].mtime => Current(f)

\* Without inotify every file in the cache that is modified is read again, and
\* a version that does not parse does not keep the next one out (update).
Refreshed ==
    \A f \in Files :
        templates[f] # Nobody /\ ~available ~> Current(f) \/ disk[f].kind # "good"

\* With inotify, what a request has found is in the cache, which owns it, until
\* the request retains it: whoever replaces it does so under the mutex.
FoundIsLive ==
    \A r \in Requests : available /\ peek[r] # Nobody => templates[peek[r].file] = peek[r]

(* What makes them inductive.                                              *)
Opens(t) == pc[t] \in {"stat", "read", "watch", "install"}

\* A thread that opens a file knows which, one that has found a template has it,
\* and a request between the two runs of a template runs another one.
Carrying ==
    /\ \A t \in Threads : Opens(t) \/ pc[t] = "acquire" => work[t] # Nobody
    /\ \A r \in Requests : pc[r] = "copy" <=> peek[r] # Nobody
    /\ \A r \in Requests : pc[r] = "run" => held[r] # <<>>

\* Whoever opens or has found a template has the mutex, but for the heartbeat,
\* which is under way only without inotify.
Locking ==
    /\ \A t \in Requests \cup {Reader} : Opens(t) \/ pc[t] = "copy" => mutex = t
    /\ pc[Beat] # "idle" => ~available
    /\ pc[Reader] # "copy"

\* Templates, and what is opened, are of the file they are said to be of.
OfFile(c) == c.watch # Nobody => c.watch[1] = c.file
Placed ==
    /\ \A f \in Files : templates[f] # Nobody => templates[f].file = f /\ OfFile(templates[f])
    /\ \A t \in Threads : work[t] # Nobody => OfFile(work[t])
    /\ \A w \in watches : templates[w[1]] # Nobody

\* No file is older than when it was read.
Honest(c) ==
    /\ c.mtime <= disk[c.file].mtime
    /\ c.mtime = disk[c.file].mtime => c.content = c.mtime
Dated ==
    /\ \A f \in Files : templates[f] # Nobody => Honest(templates[f])
    /\ \A t \in Threads :
        /\ pc[t] = "read" => work[t].mtime <= disk[work[t].file].mtime
        /\ pc[t] = "watch" => Honest(work[t])
        /\ pc[t] = "install" /\ IsValid(work[t]) => Honest(work[t])

CacheInv == TypeOK /\ Carrying /\ Locking /\ Placed /\ Dated /\ FoundIsLive
=============================================================================

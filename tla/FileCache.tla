------------------------------ MODULE FileCache ------------------------------
(***************************************************************************)
(* The file cache: objects as files of a directory, hot ones in memory as    *)
(* well, the bytes on disk tracked in a counter that a budget is kept by.    *)
(*   pingap-cache/src/file.rs, http_cache.rs; PURGE in pingap-plugin/cache.rs *)
(* Requests get, put, refresh and purge beside the hourly clear; a step ends  *)
(* where the code awaits the file system.  An object is the write it comes    *)
(* from and its length; cut says where a file that is not whole ends.  Access *)
(* times are as the file system keeps them: any file may be the oldest or     *)
(* inactive.                                                                  *)
(***************************************************************************)
EXTENDS Integers, FiniteSets

CONSTANTS
    CacheKeys,      \* the keys of one namespace
    Tasks,          \* requests and the clear service
    Lengths,        \* lengths an object may have
    HotLength,      \* up to this length an object is put into memory
    MaxSize,        \* the budget on disk, 0 for none
    ReadingMax,     \* files read at a time, 0 for any
    WritingMax,     \* files written at a time, 0 for any
    MaxEvict,       \* files one put may evict
    Width,          \* current_size counts modulo this
    MaxPuts,        \* bound: objects written
    MaxLeft         \* bound: temporary files left behind

NoKey == "none"
NoObject == [v |-> 0, len |-> 0, cut |-> "no"]
Cuts == {"no", "head", "body"}

ASSUME CacheAssumption ==
    /\ IsFiniteSet(CacheKeys) /\ IsFiniteSet(Tasks) /\ IsFiniteSet(Lengths)
    /\ Lengths \subseteq Nat \ {0} /\ NoKey \notin CacheKeys
    /\ {HotLength, MaxSize, ReadingMax, WritingMax, MaxEvict, MaxLeft} \subseteq Nat
    /\ MaxPuts \in Nat \ {0}
    /\ Width \in Nat \ {0} /\ \A n \in Lengths : (Cardinality(CacheKeys) + MaxLeft) * n < Width

VARIABLES
    files,      \* the file of each key, NoObject where there is none
    left,       \* temporary files nobody writes any more, by length
    hot,        \* the objects in memory (TinyUfo)
    size,       \* current_size
    task,       \* what each task is doing
    puts,       \* bound: objects written so far
    gone        \* history: the last write of each key that a purge came after

cacheVars == <<files, left, hot, size, task, puts, gone>>

IdleTask == [at |-> "idle", key |-> NoKey, obj |-> NoObject, old |-> 0, evicts |-> 0,
             victim |-> NoKey, refresh |-> FALSE, todo |-> {}, alone |-> FALSE]

Stored(k) == files[k] # NoObject

\* the bytes of the keys' files, the files left behind, and their bytes
OnDisk(f) == Cardinality(UNION {{k} \X (1 .. f[k].len) : k \in CacheKeys})
LeftFiles(l) == UNION {{n} \X (1 .. l[n]) : n \in Lengths}
Leftover(l) == Cardinality(UNION {{file} \X (1 .. file[1]) : file \in LeftFiles(l)})

Wrapped(n) == n % Width
Saturating(n) == IF n < 0 THEN 0 ELSE IF n >= Width THEN Width - 1 ELSE n

\* CacheObject::try_from: nothing says how long the body should be
Parses(obj) == obj.cut # "head"

Busy(places) == Cardinality({t \in Tasks : task[t].at \in places})
Reading == {"read", "admit", "stat_corrupt", "rm_corrupt"}
Writing == {"stat", "space", "evict", "write", "rename", "account"}

\* FileCache::new: what an earlier process and its power failure left
CacheInit ==
    /\ files \in [CacheKeys -> {NoObject} \cup [v : {1}, len : Lengths, cut : Cuts]]
    /\ left = [n \in Lengths |-> 0]
    /\ hot = [k \in CacheKeys |-> NoObject]
    /\ size = OnDisk(files)
    /\ task = [t \in Tasks |-> IdleTask]
    /\ puts = 1
    /\ gone = [k \in CacheKeys |-> 0]

\* t begins to do something with k: whatever purges k is no longer alone with it
Begins(t, k, doing) ==
    task' = [u \in Tasks |->
               IF u = t THEN doing
               ELSE IF task[u].key = k THEN [task[u] EXCEPT !.alone = FALSE] ELSE task[u]]
Goes(t, place) == task' = [task EXCEPT ![t].at = place]
Ends(t) == task' = [task EXCEPT ![t] = IdleTask]

-----------------------------------------------------------------------------
(* get, and update_meta, which puts what it got.  A hit in memory and a read   *)
(* over quota change nothing.                                                  *)

Get(t, k) ==
    /\ task[t].at = "idle"
    /\ hot[k] = NoObject
    /\ ReadingMax = 0 \/ Busy(Reading) < ReadingMax
    /\ \E refresh \in BOOLEAN :
         Begins(t, k, [IdleTask EXCEPT !.at = "read", !.key = k, !.refresh = refresh])
    /\ UNCHANGED <<files, left, hot, size, puts, gone>>

ReadFile(t) ==
    LET k == task[t].key IN
    /\ task[t].at = "read"
    /\ \/ /\ Stored(k) /\ Parses(files[k])
          /\ task' = [task EXCEPT ![t].at = "admit", ![t].obj = files[k]]
       \/ Stored(k) /\ ~Parses(files[k]) /\ Goes(t, "stat_corrupt")
       \/ Ends(t)
    /\ UNCHANGED <<files, left, hot, size, puts, gone>>

\* put from its first line to the first await
Puts(t, k, obj) ==
    IF WritingMax = 0 \/ Busy(Writing) < WritingMax
    THEN Begins(t, k, [IdleTask EXCEPT !.at = "stat", !.key = k, !.obj = obj])
    ELSE Begins(t, k, IdleTask)

Admit(t) ==
    LET k == task[t].key IN
    /\ task[t].at = "admit"
    /\ hot' = [hot EXCEPT ![k] = task[t].obj]
    /\ IF task[t].refresh THEN Puts(t, k, task[t].obj) ELSE Ends(t)
    /\ UNCHANGED <<files, left, size, puts, gone>>

RefreshHot(t, k) ==
    /\ task[t].at = "idle" /\ hot[k] # NoObject
    /\ Puts(t, k, hot[k])
    /\ UNCHANGED <<files, left, hot, size, puts, gone>>

StatCorrupt(t) ==
    /\ task[t].at = "stat_corrupt"
    /\ task' = [task EXCEPT ![t].at = "rm_corrupt", ![t].old = files[task[t].key].len]
    /\ UNCHANGED <<files, left, hot, size, puts, gone>>

-----------------------------------------------------------------------------
(* put: the object becomes the key's file by a rename.                         *)

PutObject(t, k) ==
    /\ task[t].at = "idle" /\ puts < MaxPuts
    /\ puts' = puts + 1
    /\ \E n \in Lengths :
         LET obj == [v |-> puts + 1, len |-> n, cut |-> "no"] IN
         /\ hot' = IF n <= HotLength THEN [hot EXCEPT ![k] = obj] ELSE hot
         /\ Puts(t, k, obj)
    /\ UNCHANGED <<files, left, size, gone>>

Stat(t) ==
    /\ task[t].at = "stat"
    /\ task' = [task EXCEPT ![t].at = "space", ![t].old = files[task[t].key].len,
                            ![t].evicts = MaxEvict]
    /\ UNCHANGED <<files, left, hot, size, puts, gone>>

Fits(t) ==
    MaxSize = 0 \/ size + Saturating(task[t].obj.len - task[t].old) <= MaxSize

\* ensure_disk_space: the walk for the oldest file, unless there is room
Walk(t) ==
    /\ task[t].at = "space"
    /\ IF Fits(t) \/ task[t].evicts = 0 \/ \A k \in CacheKeys : ~Stored(k)
       THEN Goes(t, "write")
       ELSE \E k \in {x \in CacheKeys : Stored(x)} :
              task' = [task EXCEPT ![t].at = "evict", ![t].victim = k,
                                   ![t].todo = {files[k].len}]
    /\ UNCHANGED <<files, left, hot, size, puts, gone>>

\* the length is the one the walk saw, and a file already gone counts as freed
EvictOldest(t) ==
    /\ task[t].at = "evict"
    /\ \/ /\ files' = [files EXCEPT ![task[t].victim] = NoObject]
          /\ \E n \in task[t].todo : size' = Wrapped(size - n)
          /\ task' = [task EXCEPT ![t].at = "space", ![t].evicts = @ - 1, ![t].todo = {}]
       \/ /\ task' = [task EXCEPT ![t].at = "write", ![t].todo = {}]
          /\ UNCHANGED <<files, size>>
    /\ UNCHANGED <<left, hot, puts, gone>>

\* Mutant: the object is written to its own path.
WriteTempInPlace(t) ==
    /\ task[t].at = "write"
    /\ files' = [files EXCEPT ![task[t].key] = [task[t].obj EXCEPT !.cut = "body"]]
    /\ Goes(t, "rename")
    /\ UNCHANGED <<left, hot, size, puts, gone>>

WriteTemp(t) ==
    /\ task[t].at = "write"
    /\ Goes(t, "rename")
    /\ UNCHANGED <<files, left, hot, size, puts, gone>>

\* the disk is full: the error is returned with the temporary file in place
WriteFails(t) ==
    /\ task[t].at = "write" /\ Cardinality(LeftFiles(left)) < MaxLeft
    /\ left' = [left EXCEPT ![task[t].obj.len] = @ + 1]
    /\ Ends(t)
    /\ UNCHANGED <<files, hot, size, puts, gone>>

Rename(t) ==
    /\ task[t].at = "rename"
    /\ \/ files' = [files EXCEPT ![task[t].key] = task[t].obj] /\ Goes(t, "account")
       \/ UNCHANGED files /\ Ends(t)
    /\ UNCHANGED <<left, hot, size, puts, gone>>

Account(t) ==
    /\ task[t].at = "account"
    /\ size' = Saturating(Saturating(size - task[t].old) + task[t].obj.len)
    /\ Ends(t)
    /\ UNCHANGED <<files, left, hot, puts, gone>>

-----------------------------------------------------------------------------
(* remove, for PURGE of a uri; purge_namespace, for PURGE of everything; clear. *)

RemoveObject(t, k) ==
    /\ task[t].at = "idle"
    /\ hot' = [hot EXCEPT ![k] = NoObject]
    /\ Begins(t, k, [IdleTask EXCEPT !.at = "stat_rm", !.key = k,
                    !.alone = \A u \in Tasks : task[u].at # "idle" => task[u].key # k])
    /\ UNCHANGED <<files, left, size, puts, gone>>

StatRemove(t) ==
    /\ task[t].at = "stat_rm"
    /\ task' = [task EXCEPT ![t].at = "rm", ![t].old = files[task[t].key].len]
    /\ UNCHANGED <<files, left, hot, size, puts, gone>>

\* also the end of a get that found its file cut short
RemoveFile(t) ==
    LET k == task[t].key IN
    /\ task[t].at \in {"rm", "rm_corrupt"}
    /\ \/ /\ Stored(k)
          /\ files' = [files EXCEPT ![k] = NoObject]
          /\ size' = Wrapped(size - task[t].old)
       \/ UNCHANGED <<files, size>>
    /\ gone' = IF task[t].alone /\ files'[k] = NoObject THEN [gone EXCEPT ![k] = puts] ELSE gone
    /\ Ends(t)
    /\ UNCHANGED <<left, hot, puts>>

PurgeNamespace(t) ==
    /\ task[t].at = "idle"
    /\ \E k \in CacheKeys : Stored(k)
    /\ task' = [task EXCEPT ![t] = [IdleTask EXCEPT !.at = "purge",
                                      !.todo = {k \in CacheKeys : Stored(k)}]]
    /\ UNCHANGED <<files, left, hot, size, puts, gone>>

\* a file's length is read just before its removal, and is that of an earlier
\* object when a put comes between
PurgeFile(t) ==
    /\ task[t].at = "purge"
    /\ \E k \in task[t].todo, n \in Lengths :
         /\ IF Stored(k)
            THEN /\ files' = [files EXCEPT ![k] = NoObject]
                 /\ size' = Wrapped(size - n)
                 /\ hot' = [hot EXCEPT ![k] = NoObject]
            ELSE UNCHANGED <<files, size, hot>>
         /\ IF task[t].todo = {k} THEN Ends(t)
            ELSE task' = [task EXCEPT ![t].todo = @ \ {k}]
    /\ UNCHANGED <<left, puts, gone>>

\* one inactive file, or one temporary file nobody has touched for as long
ClearFile(t) ==
    /\ task[t].at = "idle"
    /\ \/ \E k \in CacheKeys, n \in Lengths :
            /\ Stored(k)
            /\ files' = [files EXCEPT ![k] = NoObject]
            /\ size' = Wrapped(size - n)
            /\ UNCHANGED left
       \/ \E n \in Lengths :
            /\ left[n] > 0
            /\ left' = [left EXCEPT ![n] = @ - 1]
            /\ size' = Wrapped(size - n)
            /\ UNCHANGED files
    /\ UNCHANGED <<hot, task, puts, gone>>

-----------------------------------------------------------------------------
\* TinyUfo makes room
EvictHot(k) ==
    /\ hot[k] # NoObject
    /\ hot' = [hot EXCEPT ![k] = NoObject]
    /\ UNCHANGED <<files, left, size, task, puts, gone>>

\* the process ends and another one measures the directory
Reopen ==
    LET cut == [n \in Lengths |-> Cardinality({t \in Tasks : task[t].at = "rename"
                                                              /\ task[t].obj.len = n})] IN
    /\ left' = [n \in Lengths |-> left[n] + cut[n]]
    /\ Cardinality(LeftFiles(left')) <= MaxLeft
    /\ hot' = [k \in CacheKeys |-> NoObject]
    /\ task' = [t \in Tasks |-> IdleTask]
    /\ size' = OnDisk(files) + Leftover(left')
    /\ UNCHANGED <<files, puts, gone>>

CacheNext ==
    \/ \E t \in Tasks :
         \/ \E k \in CacheKeys : Get(t, k) \/ RefreshHot(t, k) \/ PutObject(t, k) \/ RemoveObject(t, k)
         \/ ReadFile(t) \/ Admit(t) \/ StatCorrupt(t)
         \/ Stat(t) \/ Walk(t) \/ EvictOldest(t)
         \/ WriteTemp(t) \/ WriteFails(t) \/ Rename(t) \/ Account(t)
         \/ StatRemove(t) \/ RemoveFile(t)
         \/ PurgeNamespace(t) \/ PurgeFile(t) \/ ClearFile(t)
    \/ \E k \in CacheKeys : EvictHot(k)
    \/ Reopen

CacheSpec == CacheInit /\ [][CacheNext]_cacheVars

-----------------------------------------------------------------------------
Objects == {NoObject} \cup [v : 1 .. MaxPuts, len : Lengths, cut : Cuts]

CacheTypeOK ==
    /\ {files[k] : k \in CacheKeys} \cup {hot[k] : k \in CacheKeys} \subseteq Objects
    /\ size \in 0 .. Width - 1
    /\ puts \in 1 .. MaxPuts

\* What memory serves is a whole object, although its file may be replaced or
\* removed while it is read, or the disk fill up while it is written.  Only a
\* file that an earlier process left cut in its body is taken for whole.
ServedWhole ==
    \A k \in CacheKeys : hot[k].cut # "no" => hot[k].cut = "body" /\ hot[k].v = 1

\* A uri that was purged while nobody else was at it is served neither from disk
\* nor from memory, unless it is written again.
PurgedForGood ==
    \A k \in CacheKeys : \A obj \in {files[k], hot[k]} : obj # NoObject => obj.v > gone[k]

\* The cache (FileCache::get, put, remove, purge_namespace, clear) serves whole
\* objects, and none that was purged.
CacheServes == CacheTypeOK /\ ServedWhole /\ PurgedForGood
=============================================================================

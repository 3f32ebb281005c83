----------------------------- MODULE StaticFiles -----------------------------
(***************************************************************************)
(* StaticFileController of QtWebApp: the threads of the connections answer *)
(* with files, and share a cache of the small ones.  The cache is a QCache *)
(* under a mutex; files are read, and answers written, without it, while   *)
(* somebody else replaces and deletes files.                               *)
(*                                                                         *)
(* The contents of a file are numbered by version.  A file is read as one  *)
(* block: only files up to maxCachedFileSize are cached, and a block is as *)
(* large.                                                                  *)
(***************************************************************************)
EXTENDS Integers, Sequences, SequencesExt

CONSTANTS
    Reader,             \* the threads
    Path,               \* the files that are asked for
    Size,               \* Size[v]: the size of version v
    MaxVersion,         \* bound: the versions of a file
    MaxTime,            \* bound: the clock
    CacheTimeout,       \* the setting cacheTime; 0 is for ever
    MaxCost,            \* the setting cacheSize
    MaxCachedFileSize   \* the setting maxCachedFileSize

ASSUME FileAssumption ==
    /\ MaxVersion \in Nat \ {0}
    /\ {MaxTime, CacheTimeout, MaxCost, MaxCachedFileSize} \subseteq Nat
    /\ Size \in [1..MaxVersion -> Nat]

VARIABLES
    clock,      \* currentMSecsSinceEpoch
    file,       \* the last version of each file
    missing,    \* the files that have been deleted
    replaced,   \* replaced[p][v]: when version v of p stopped being current; nothing reads it
    cache,      \* the entries, the one used last first
    reader      \* what each thread is at

fileVars == <<clock, file, missing, replaced, cache, reader>>

Never == MaxTime + 1
Unasked == [at |-> "idle"]

FileInit ==
    /\ clock = 0
    /\ file = [p \in Path |-> 1]
    /\ replaced = [p \in Path |-> [v \in 1..MaxVersion |-> Never]]
    /\ missing = {}
    /\ cache = <<>>
    /\ reader = [t \in Reader |-> Unasked]

-----------------------------------------------------------------------------
(* QCache (external): it holds entries of a total cost, drops those that   *)
(* have not been used for the longest time, and refuses one too large.     *)

Entries(p) == {i \in DOMAIN cache : cache[i].path = p}
Without(p) == IF Entries(p) = {} THEN cache ELSE RemoveAt(cache, CHOOSE i \in Entries(p) : TRUE)
Cost(entries) == FoldLeft(LAMBDA sum, e : sum + Size[e.version], 0, entries)

\* The longest beginning that fits; none at all does.
Trimmed(entries) ==
    LET fitting == {0} \cup {n \in 1..Len(entries) : Cost(SubSeq(entries, 1, n)) <= MaxCost}
    IN  SubSeq(entries, 1, CHOOSE n \in fitting : \A k \in fitting : k <= n)

InsertEntry(e) == IF Size[e.version] > MaxCost THEN Without(e.path) ELSE Trimmed(<<e>> \o Without(e.path))

-----------------------------------------------------------------------------
\* A thread is asked for a file and looks at the clock.
Service(t, p) ==
    /\ reader[t].at = "idle"
    /\ reader' = [reader EXCEPT ![t] = [at |-> "lookup", path |-> p, now |-> clock]]
    /\ UNCHANGED <<clock, file, missing, replaced, cache>>

\* Looking an entry up makes it the one used last, be it too old or not.
CachedEntry(t) == cache[CHOOSE i \in Entries(reader[t].path) : TRUE]
IsFresh(t) ==
    /\ Entries(reader[t].path) # {}
    /\ CacheTimeout = 0 \/ CachedEntry(t).created > reader[t].now - CacheTimeout

\* Under the mutex: the document is copied, since the entry may be dropped right after.
Lookup(t) ==
    /\ reader[t].at = "lookup"
    /\ cache' = IF Entries(reader[t].path) = {} THEN cache ELSE <<CachedEntry(t)>> \o Without(reader[t].path)
    /\ reader' = [reader EXCEPT ![t] =
            IF IsFresh(t)
            THEN [at |-> "answered", path |-> @.path, now |-> @.now, version |-> CachedEntry(t).version]
            ELSE [@ EXCEPT !.at = "open"]]
    /\ UNCHANGED <<clock, file, missing, replaced>>

\* The file is opened, or found missing (404); its size decides on caching.
OpenFile(t) ==
    /\ reader[t].at = "open"
    /\ LET p == reader[t].path
       IN  reader' = [reader EXCEPT ![t] =
                IF p \in missing THEN Unasked
                ELSE [@ EXCEPT !.at = IF Size[file[p]] <= MaxCachedFileSize THEN "readSmall" ELSE "readLarge"]]
    /\ UNCHANGED <<clock, file, missing, replaced, cache>>

\* What is read is the file as it is by now; a deleted one can still be read
\* by those who have opened it.
ReadSmall(t) ==
    /\ reader[t].at = "readSmall"
    /\ reader' = [reader EXCEPT ![t] = [at |-> "insert", path |-> @.path, now |-> @.now,
                                        version |-> file[@.path]]]
    /\ UNCHANGED <<clock, file, missing, replaced, cache>>

ReadLarge(t) ==
    /\ reader[t].at = "readLarge"
    /\ reader' = [reader EXCEPT ![t] = [at |-> "answered", path |-> @.path, now |-> @.now,
                                        version |-> file[@.path]]]
    /\ UNCHANGED <<clock, file, missing, replaced, cache>>

\* Mutant: the entry is dated when it is stored.
InsertDatedLate(t) ==
    /\ reader[t].at = "insert"
    /\ cache' = InsertEntry([path |-> reader[t].path, version |-> reader[t].version, created |-> clock])
    /\ reader' = [reader EXCEPT ![t].at = "answered"]
    /\ UNCHANGED <<clock, file, missing, replaced>>

\* Under the mutex again: the entry is dated with the time the request came.
Insert(t) ==
    /\ reader[t].at = "insert"
    /\ cache' = InsertEntry([path |-> reader[t].path, version |-> reader[t].version,
                             created |-> reader[t].now])
    /\ reader' = [reader EXCEPT ![t].at = "answered"]
    /\ UNCHANGED <<clock, file, missing, replaced>>

Return(t) ==
    /\ reader[t].at = "answered"
    /\ reader' = [reader EXCEPT ![t] = Unasked]
    /\ UNCHANGED <<clock, file, missing, replaced, cache>>

-----------------------------------------------------------------------------
(* The world outside (external).                                           *)

\* A file is replaced by a new version, or created again after it was deleted.
Replace(p) ==
    /\ file[p] < MaxVersion
    /\ file' = [file EXCEPT ![p] = @ + 1]
    /\ missing' = missing \ {p}
    /\ replaced' = IF p \in missing THEN replaced ELSE [replaced EXCEPT ![p][file[p]] = clock]
    /\ UNCHANGED <<clock, cache, reader>>

DeleteFile(p) ==
    /\ p \notin missing
    /\ missing' = missing \cup {p}
    /\ replaced' = [replaced EXCEPT ![p][file[p]] = clock]
    /\ UNCHANGED <<clock, file, cache, reader>>

FileTick ==
    /\ clock < MaxTime
    /\ clock' = clock + 1
    /\ UNCHANGED <<file, missing, replaced, cache, reader>>

FileNext ==
    \/ \E t \in Reader :
        \/ \E p \in Path : Service(t, p)
        \/ Lookup(t) \/ OpenFile(t) \/ ReadSmall(t) \/ ReadLarge(t) \/ Insert(t) \/ Return(t)
    \/ \E p \in Path : Replace(p) \/ DeleteFile(p)
    \/ FileTick

FileSpec == FileInit /\ [][FileNext]_fileVars

-----------------------------------------------------------------------------
(* Properties                                                              *)

FileTypeOK ==
    /\ clock \in 0..MaxTime
    /\ file \in [Path -> 1..MaxVersion]
    /\ Cost(cache) <= MaxCost
    /\ \A i, j \in DOMAIN cache : i # j => cache[i].path # cache[j].path

\* A request is never answered from the cache with a version of the file that had been
\* replaced for the whole of the cache time before the request came: not even
\* when a slow thread stores what it read long ago over a newer entry.
NotStalerThanTimeout ==
    CacheTimeout > 0 => \A t \in Reader : reader[t].at = "answered" =>
        LET gone == replaced[reader[t].path][reader[t].version]
        IN  gone = Never \/ gone > reader[t].now - CacheTimeout

-----------------------------------------------------------------------------
(* What it rests on: what has been replaced since.                         *)

Times == 0..MaxTime
Asking == [at : {"lookup", "open", "readSmall", "readLarge"}, path : Path, now : Times]
Holding == [at : {"insert", "answered"}, path : Path, now : Times, version : 1..MaxVersion]

\* The entries that were up to date when they are dated.
Dated ==
    {e \in [path : Path, version : 1..MaxVersion, created : Times] :
        e.created <= clock /\ replaced[e.path][e.version] >= e.created}

\* A version to come, and the last one of a file that is there, is not replaced.
LastIsCurrent ==
    \A p \in Path, v \in 1..MaxVersion :
        v > file[p] \/ (v = file[p] /\ p \notin missing) => replaced[p][v] = Never

\* What a thread holds was up to date when the request came, or as fresh as the
\* cache allows; what it has opened was there then.
ReadersAreFresh ==
    \A t \in Reader :
        /\ reader[t].at # "idle" => reader[t].now <= clock
        /\ reader[t].at \in {"readSmall", "readLarge"} =>
            replaced[reader[t].path][file[reader[t].path]] >= reader[t].now
        /\ reader[t].at = "insert" =>
            replaced[reader[t].path][reader[t].version] >= reader[t].now
        /\ CacheTimeout > 0 /\ reader[t].at = "answered" =>
            replaced[reader[t].path][reader[t].version] > reader[t].now - CacheTimeout

FileInv ==
    /\ clock \in Times /\ file \in [Path -> 1..MaxVersion] /\ missing \subseteq Path
    /\ replaced \in [Path -> [1..MaxVersion -> 0..Never]]
    /\ reader \in [Reader -> {Unasked} \cup Asking \cup Holding]
    /\ cache \in Seq(Dated)
    /\ LastIsCurrent /\ ReadersAreFresh
=============================================================================

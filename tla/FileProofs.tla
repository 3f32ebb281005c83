---------------------------- MODULE FileProofs ----------------------------
(* Proofs about StaticFiles and FileLogger: whatever a cache of any size has *)
(* dropped, and however slowly a thread reads, no answer is staler than the  *)
(* cache time; and whatever is rotated, changed or lost, a log has no holes. *)
EXTENDS StaticFiles, FileLogger, SequenceTheorems, WellFoundedInduction, TLAPS

-----------------------------------------------------------------------------
(* StaticFiles: the cache.                                                 *)

LEMMA Bounds ==
    /\ MaxVersion \in Nat \ {0} /\ MaxTime \in Nat /\ CacheTimeout \in Nat
    /\ MaxCost \in Nat /\ Never = MaxTime + 1
BY FileAssumption DEF Never

LEMMA Greatest ==
    ASSUME NEW n \in Nat, NEW K \in SUBSET (0..n), K # {}
    PROVE  \E m \in K : \A k \in K : k <= m
<1> DEFINE rest == {n - k : k \in K}
<1>1. rest \subseteq Nat /\ rest # {}
    <2>1. \A k \in K : n - k \in Nat
        OBVIOUS
    <2>2. PICK k \in K : TRUE
        OBVIOUS
    <2>3. n - k \in rest
        OBVIOUS
    <2> QED BY <2>1, <2>3
<1>2. PICK x \in rest : \A y \in rest : <<y, x>> \notin OpToRel(<, Nat)
    BY <1>1, NatLessThanWellFounded, WFMin
<1>3. PICK m \in K : x = n - m
    OBVIOUS
<1>4. \A y \in rest : ~(y < x)
    BY <1>1, <1>2, Zenon DEF OpToRel
<1>5. ASSUME NEW k \in K PROVE k <= m
    <2>1. ~(n - k < n - m)
        BY <1>3, <1>4
    <2> QED BY <2>1
<1> QED BY <1>5

\* Taking an entry away, or the last ones, leaves the others as they are.
LEMMA FewerEntries ==
    ASSUME NEW S, cache \in Seq(S), NEW p
    PROVE  Without(p) \in Seq(S)
<1>1. CASE Entries(p) = {}
    BY <1>1 DEF Without
<1>2. CASE Entries(p) # {}
    <2> DEFINE k == CHOOSE i \in Entries(p) : TRUE
    <2>1. /\ Len(cache) \in Nat /\ DOMAIN cache = 1..Len(cache)
          /\ \A i \in 1..Len(cache) : cache[i] \in S
        BY LenProperties, ElementOfSeq
    <2>2. k \in 1..Len(cache)
        BY <1>2, <2>1 DEF Entries
    <2> HIDE DEF k
    <2>3. SubSeq(cache, 1, k - 1) \in Seq(S)
        BY <2>1, <2>2, SubSeqProperties
    <2>4. SubSeq(cache, k + 1, Len(cache)) \in Seq(S)
        <3>1. \A i \in (k + 1)..Len(cache) : cache[i] \in S
            BY <2>1, <2>2
        <3> QED BY <2>1, <2>2, <3>1, SubSeqProperties
    <2>5. RemoveAt(cache, k) \in Seq(S)
        BY <2>3, <2>4, ConcatProperties DEF RemoveAt
    <2> QED BY <1>2, <2>5 DEF Without, k
<1> QED BY <1>1, <1>2

LEMMA BeginningFits ==
    ASSUME NEW S, NEW entries \in Seq(S)
    PROVE  Trimmed(entries) \in Seq(S)
<1> DEFINE fitting == {0} \cup {n \in 1..Len(entries) : Cost(SubSeq(entries, 1, n)) <= MaxCost}
           m == CHOOSE n \in fitting : \A k \in fitting : k <= n
<1>1. /\ Len(entries) \in Nat /\ \A i \in 1..Len(entries) : entries[i] \in S
      /\ fitting \subseteq 0..Len(entries) /\ 0 \in fitting
    BY LenProperties, ElementOfSeq
<1> HIDE DEF fitting
<1>2. \E n \in fitting : \A k \in fitting : k <= n
    BY <1>1, Greatest
<1>3. m \in 0..Len(entries)
    BY <1>1, <1>2
<1> HIDE DEF m
<1>4. \A i \in 1..m : entries[i] \in S
    BY <1>1, <1>3
<1>5. SubSeq(entries, 1, m) \in Seq(S)
    BY <1>3, <1>4, SubSeqProperties
<1> QED BY <1>5 DEF Trimmed, m, fitting

LEMMA EntryInserted ==
    ASSUME NEW S, cache \in Seq(S), NEW e \in S
    PROVE  InsertEntry(e) \in Seq(S)
<1>1. Without(e.path) \in Seq(S) /\ <<e>> \in Seq(S)
    BY FewerEntries
<1>2. <<e>> \o Without(e.path) \in Seq(S)
    BY <1>1, ConcatProperties
<1> QED BY <1>1, <1>2, BeginningFits DEF InsertEntry

\* An entry that is found is one of the cache.
LEMMA EntryFound ==
    ASSUME NEW S, cache \in Seq(S), NEW t, Entries(reader[t].path) # {}
    PROVE  CachedEntry(t) \in S /\ CachedEntry(t).path = reader[t].path
<1> DEFINE k == CHOOSE i \in Entries(reader[t].path) : TRUE
<1>1. k \in Entries(reader[t].path)
    OBVIOUS
<1>2. k \in 1..Len(cache) /\ cache[k].path = reader[t].path
    BY <1>1, LenProperties DEF Entries
<1> HIDE DEF k
<1> QED BY <1>2, ElementOfSeq DEF CachedEntry, k

-----------------------------------------------------------------------------
(* Time goes on and versions are replaced; nothing that was replaced is    *)
(* replaced any later.                                                     *)

Later ==
    /\ clock' \in Times /\ clock' >= clock
    /\ file' \in [Path -> 1..MaxVersion] /\ missing' \subseteq Path
    /\ replaced' \in [Path -> [1..MaxVersion -> 0..Never]]
    /\ \A p \in Path, v \in 1..MaxVersion : \A time \in Times :
        replaced[p][v] >= time /\ time <= clock => replaced'[p][v] >= time
    /\ LastIsCurrent' /\ \A p \in Path : file'[p] = file[p] \/ p \notin missing'

LEMMA DatedStays ==
    ASSUME FileInv, Later
    PROVE  Dated \subseteq Dated'
<1> SUFFICES ASSUME NEW e \in Dated
             PROVE  e \in Dated'
    OBVIOUS
<1>1. /\ e \in [path : Path, version : 1..MaxVersion, created : Times]
      /\ e.created <= clock /\ replaced[e.path][e.version] >= e.created
    BY DEF Dated
<1>2. e.path \in Path /\ e.version \in 1..MaxVersion /\ e.created \in Times
    BY <1>1
<1>3. replaced'[e.path][e.version] >= e.created
    BY <1>1, <1>2 DEF Later
<1>4. e.created <= clock'
    <2>1. clock \in Int /\ clock' \in Int /\ e.created \in Int /\ clock' >= clock
        BY <1>2, Bounds DEF FileInv, Later, Times
    <2> QED BY <1>1, <2>1
<1> QED BY <1>1, <1>3, <1>4 DEF Dated

LEMMA ReaderTypes ==
    ASSUME FileInv, NEW t \in Reader, reader[t].at # "idle"
    PROVE  /\ reader[t].path \in Path /\ reader[t].now \in Times
           /\ reader[t].at \in {"insert", "answered"} =>
                reader[t] \in Holding /\ reader[t].version \in 1..MaxVersion
           /\ reader[t].at \notin {"insert", "answered"} => reader[t] \in Asking
BY DEF FileInv, Unasked, Asking, Holding

\* Readers that do nothing meanwhile stay as fresh as they are.
LEMMA ReadersStay ==
    ASSUME FileInv, Later, reader' = reader
    PROVE  ReadersAreFresh'
<1> SUFFICES ASSUME NEW t \in Reader, reader[t].at # "idle"
             PROVE  /\ reader[t].now <= clock'
                    /\ reader[t].at \in {"readSmall", "readLarge"} =>
                        replaced'[reader[t].path][file'[reader[t].path]] >= reader[t].now
                    /\ reader[t].at = "insert" =>
                        replaced'[reader[t].path][reader[t].version] >= reader[t].now
                    /\ CacheTimeout > 0 /\ reader[t].at = "answered" =>
                        replaced'[reader[t].path][reader[t].version] > reader[t].now - CacheTimeout
    BY DEF ReadersAreFresh
<1> DEFINE p == reader[t].path
           now == reader[t].now
           v == reader[t].version
<1>1. /\ p \in Path /\ now \in Times /\ now <= clock
      /\ reader[t].at \in {"insert", "answered"} => v \in 1..MaxVersion
      /\ reader[t].at \in {"readSmall", "readLarge"} => replaced[p][file[p]] >= now
      /\ reader[t].at = "insert" => replaced[p][v] >= now
      /\ CacheTimeout > 0 /\ reader[t].at = "answered" => replaced[p][v] > now - CacheTimeout
    <2>1. ReadersAreFresh
        BY DEF FileInv
    <2> QED BY <2>1, ReaderTypes DEF ReadersAreFresh
<1> HIDE DEF p, now, v
<1>2. /\ file[p] \in 1..MaxVersion /\ file'[p] \in 1..MaxVersion
      /\ clock \in Int /\ clock' \in Int /\ clock' >= clock
      /\ now \in Int /\ CacheTimeout \in Nat /\ MaxTime \in Nat /\ Never = MaxTime + 1
    BY <1>1, Bounds DEF FileInv, Later, Times
<1>3. \A w \in 1..MaxVersion : \A time \in Times :
        replaced[p][w] >= time /\ time <= clock => replaced'[p][w] >= time
    BY <1>1, <1>2 DEF Later
<1>4. now <= clock'
    BY <1>1, <1>2
<1>5. ASSUME reader[t].at \in {"readSmall", "readLarge"}
      PROVE  replaced'[p][file'[p]] >= now
    <2>1. CASE file'[p] = file[p]
        BY <1>1, <1>2, <1>3, <1>5, <2>1
    <2>2. CASE p \notin missing'
        <3>1. replaced'[p][file'[p]] = Never
            BY <1>1, <1>2, <2>2 DEF Later, LastIsCurrent
        <3> QED BY <1>1, <1>2, <3>1 DEF Times
    <2> QED BY <1>1, <1>2, <2>1, <2>2 DEF Later
<1>6. ASSUME reader[t].at = "insert"
      PROVE  replaced'[p][v] >= now
    BY <1>1, <1>2, <1>3, <1>6
<1>7. ASSUME CacheTimeout > 0, reader[t].at = "answered"
      PROVE  replaced'[p][v] > now - CacheTimeout
    <2>1. replaced'[p][v] \in 0..Never /\ replaced[p][v] \in 0..Never /\ replaced[p][v] > now - CacheTimeout
        BY <1>1, <1>2, <1>7, ZenonT(60) DEF Later, FileInv
    <2>2. CASE now - CacheTimeout + 1 \in Times
        <3>1. now - CacheTimeout + 1 <= clock
            BY <1>1, <1>2, <1>7
        <3>2. replaced'[p][v] >= now - CacheTimeout + 1
            BY <1>1, <1>2, <1>3, <1>7, <2>1, <2>2, <3>1
        <3> QED BY <1>1, <1>2, <2>1, <3>2
    <2>3. CASE now - CacheTimeout + 1 \notin Times
        <3>1. now - CacheTimeout + 1 < 0
            BY <1>1, <1>2, <1>7, <2>3 DEF Times
        <3> QED BY <1>1, <1>2, <2>1, <3>1
    <2> QED BY <2>2, <2>3
<1> QED BY <1>4, <1>5, <1>6, <1>7 DEF p, now, v

LEMMA WorldMoves ==
    ASSUME FileInv, Later, UNCHANGED <<cache, reader>>
    PROVE  FileInv'
<1>1. cache \in Seq(Dated)'
    BY DatedStays, SeqMonotonic DEF FileInv
<1> QED BY <1>1, ReadersStay DEF FileInv, Later

-----------------------------------------------------------------------------
(* The steps of the world outside.                                         *)

LEMMA Replacing ==
    ASSUME FileInv, NEW p \in Path, Replace(p)
    PROVE  FileInv'
<1>1. /\ file \in [Path -> 1..MaxVersion] /\ file[p] \in 1..MaxVersion /\ file[p] < MaxVersion
      /\ file' = [file EXCEPT ![p] = @ + 1] /\ missing' = missing \ {p}
      /\ replaced' = IF p \in missing THEN replaced ELSE [replaced EXCEPT ![p][file[p]] = clock]
      /\ replaced \in [Path -> [1..MaxVersion -> 0..Never]]
      /\ clock' = clock /\ clock \in Times /\ clock \in 0..Never /\ missing \subseteq Path
      /\ UNCHANGED <<cache, reader>> /\ MaxVersion \in Nat \ {0}
    BY Bounds DEF FileInv, Replace, Times
<1>2. /\ file' \in [Path -> 1..MaxVersion] /\ file'[p] = file[p] + 1
      /\ \A q \in Path : q # p => file'[q] = file[q]
    BY <1>1
<1>3. /\ replaced' \in [Path -> [1..MaxVersion -> 0..Never]]
      /\ \A q \in Path, v \in 1..MaxVersion :
            \/ replaced'[q][v] = replaced[q][v]
            \/ q = p /\ v = file[p] /\ replaced'[q][v] = clock
    BY <1>1
<1>4. LastIsCurrent'
    <2> SUFFICES ASSUME NEW q \in Path, NEW v \in 1..MaxVersion,
                        v > file'[q] \/ (v = file'[q] /\ q \notin missing')
                 PROVE  replaced'[q][v] = Never
        BY DEF LastIsCurrent
    <2>1. LastIsCurrent
        BY DEF FileInv
    <2>2. CASE q = p
        <3>1. v > file[p]
            BY <1>1, <1>2, <2>2
        <3>2. replaced[p][v] = Never
            BY <2>1, <3>1 DEF LastIsCurrent
        <3> QED BY <1>1, <1>3, <2>2, <3>1, <3>2
    <2>3. CASE q # p
        BY <1>1, <1>2, <1>3, <2>1, <2>3 DEF LastIsCurrent
    <2> QED BY <2>2, <2>3
<1>5. \A q \in Path, v \in 1..MaxVersion : \A time \in Times :
        replaced[q][v] >= time /\ time <= clock => replaced'[q][v] >= time
    <2>1. \A time \in Times : time \in Int /\ clock \in Int
        BY <1>1 DEF Times
    <2> QED BY <1>3, <2>1
<1>6. Later
    <2>1. clock' >= clock
        BY <1>1 DEF Times
    <2> QED BY <1>1, <1>2, <1>3, <1>4, <1>5, <2>1 DEF Later
<1> QED BY <1>1, <1>6, WorldMoves

LEMMA Deleting ==
    ASSUME FileInv, NEW p \in Path, DeleteFile(p)
    PROVE  FileInv'
<1>1. /\ file \in [Path -> 1..MaxVersion] /\ file[p] \in 1..MaxVersion
      /\ file' = file /\ missing' = missing \cup {p} /\ missing \subseteq Path
      /\ replaced' = [replaced EXCEPT ![p][file[p]] = clock]
      /\ replaced \in [Path -> [1..MaxVersion -> 0..Never]]
      /\ clock' = clock /\ clock \in Times /\ clock \in 0..Never
      /\ UNCHANGED <<cache, reader>> /\ LastIsCurrent
    BY Bounds DEF FileInv, DeleteFile, Times
<1>2. /\ replaced' \in [Path -> [1..MaxVersion -> 0..Never]]
      /\ \A q \in Path, v \in 1..MaxVersion :
            \/ replaced'[q][v] = replaced[q][v]
            \/ q = p /\ v = file[p] /\ replaced'[q][v] = clock
    BY <1>1
<1>3. LastIsCurrent'
    BY <1>1, <1>2 DEF LastIsCurrent
<1>4. \A q \in Path, v \in 1..MaxVersion : \A time \in Times :
        replaced[q][v] >= time /\ time <= clock => replaced'[q][v] >= time
    <2>1. \A time \in Times : time \in Int /\ clock \in Int
        BY <1>1 DEF Times
    <2> QED BY <1>2, <2>1
<1>5. Later
    <2>1. clock' >= clock
        BY <1>1 DEF Times
    <2> QED BY <1>1, <1>2, <1>3, <1>4, <2>1 DEF Later
<1> QED BY <1>1, <1>5, WorldMoves

LEMMA Ticking ==
    ASSUME FileInv, FileTick
    PROVE  FileInv'
<1>1. /\ clock \in Times /\ clock' = clock + 1 /\ clock < MaxTime /\ MaxTime \in Nat
      /\ UNCHANGED <<file, missing, replaced, cache, reader>>
    BY Bounds DEF FileInv, FileTick
<1>2. clock' \in Times /\ clock' >= clock
    BY <1>1 DEF Times
<1>3. LastIsCurrent'
    BY <1>1 DEF FileInv, LastIsCurrent
<1>4. Later
    BY <1>1, <1>2, <1>3 DEF Later, FileInv
<1> QED BY <1>1, <1>4, WorldMoves

-----------------------------------------------------------------------------
(* The steps of the readers.                                               *)

FreshRecord(r) ==
    /\ r.at # "idle" => r.now <= clock
    /\ r.at \in {"readSmall", "readLarge"} => replaced[r.path][file[r.path]] >= r.now
    /\ r.at = "insert" => replaced[r.path][r.version] >= r.now
    /\ CacheTimeout > 0 /\ r.at = "answered" => replaced[r.path][r.version] > r.now - CacheTimeout

LEMMA ReaderMoves ==
    ASSUME FileInv, NEW t \in Reader, NEW r \in {Unasked} \cup Asking \cup Holding, FreshRecord(r),
           UNCHANGED <<clock, file, missing, replaced>>, cache' \in Seq(Dated),
           reader' = [reader EXCEPT ![t] = r]
    PROVE  FileInv'
<1>1. /\ reader' \in [Reader -> {Unasked} \cup Asking \cup Holding] /\ reader'[t] = r
      /\ \A u \in Reader : u # t => reader'[u] = reader[u]
    BY DEF FileInv
<1>2. Dated' = Dated
    BY DEF Dated
<1>3. \A u \in Reader : FreshRecord(reader'[u])
    <2>1. \A u \in Reader : FreshRecord(reader[u])
        BY DEF FileInv, ReadersAreFresh, FreshRecord
    <2> QED BY <1>1, <2>1
<1>4. ReadersAreFresh'
    BY <1>3 DEF ReadersAreFresh, FreshRecord
<1>5. LastIsCurrent'
    BY DEF FileInv, LastIsCurrent
<1> QED BY <1>1, <1>2, <1>4, <1>5 DEF FileInv

\* What the file is by now has not been replaced before the request came.
LEMMA ReadIsFresh ==
    ASSUME FileInv, NEW t \in Reader, reader[t].at \in {"readSmall", "readLarge"}
    PROVE  /\ file[reader[t].path] \in 1..MaxVersion
           /\ replaced[reader[t].path][file[reader[t].path]] >= reader[t].now
           /\ CacheTimeout > 0 =>
                replaced[reader[t].path][file[reader[t].path]] > reader[t].now - CacheTimeout
<1> DEFINE p == reader[t].path
           gone == replaced[p][file[p]]
           now == reader[t].now
<1>1. p \in Path /\ now \in Times
    BY ReaderTypes
<1>2. gone >= now
    BY DEF FileInv, ReadersAreFresh
<1>3. file[p] \in 1..MaxVersion /\ gone \in 0..Never
    BY <1>1 DEF FileInv
<1> HIDE DEF p, gone, now
<1>4. CacheTimeout > 0 => gone > now - CacheTimeout
    BY <1>1, <1>2, <1>3, Bounds DEF Times
<1> QED BY <1>2, <1>3, <1>4 DEF p, gone, now

LEMMA Asked ==
    ASSUME FileInv, NEW t \in Reader, NEW p \in Path, Service(t, p)
    PROVE  FileInv'
<1> DEFINE r == [at |-> "lookup", path |-> p, now |-> clock]
<1>1. r \in Asking /\ FreshRecord(r)
    BY Bounds DEF FileInv, Asking, FreshRecord, Times
<1> QED BY <1>1, ReaderMoves DEF Service, FileInv

LEMMA LookingUp ==
    ASSUME FileInv, NEW t \in Reader, Lookup(t)
    PROVE  FileInv'
<1> DEFINE p == reader[t].path
           e == CachedEntry(t)
           found == [at |-> "answered", path |-> p, now |-> reader[t].now, version |-> e.version]
           missed == [reader[t] EXCEPT !.at = "open"]
<1>1. /\ reader[t].at = "lookup" /\ cache \in Seq(Dated)
      /\ cache' = IF Entries(p) = {} THEN cache ELSE <<e>> \o Without(p)
      /\ reader' = [reader EXCEPT ![t] = IF IsFresh(t) THEN found ELSE missed]
      /\ UNCHANGED <<clock, file, missing, replaced>>
    BY DEF FileInv, Lookup
<1>2. p \in Path /\ reader[t].now \in Times /\ reader[t] \in Asking /\ reader[t].now <= clock
    BY <1>1, ReaderTypes DEF FileInv, ReadersAreFresh
<1>3. Entries(p) # {} => e \in Dated /\ e.path = p
    BY <1>1, EntryFound
<1>4. cache' \in Seq(Dated)
    <2>1. CASE Entries(p) = {}
        BY <1>1, <2>1
    <2>2. CASE Entries(p) # {}
        <3>1. <<e>> \in Seq(Dated) /\ Without(p) \in Seq(Dated)
            BY <1>1, <1>3, <2>2, FewerEntries
        <3> HIDE DEF e
        <3>2. <<e>> \o Without(p) \in Seq(Dated)
            BY <3>1, ConcatProperties
        <3> QED BY <1>1, <2>2, <3>2
    <2> QED BY <2>1, <2>2
<1>5. CASE IsFresh(t)
    <2>1. Entries(p) # {} /\ (CacheTimeout = 0 \/ e.created > reader[t].now - CacheTimeout)
        BY <1>5 DEF IsFresh
    <2>2. /\ e.path = p /\ e.version \in 1..MaxVersion /\ e.created \in Times
          /\ replaced[p][e.version] >= e.created
        BY <1>3, <2>1 DEF Dated
    <2>3. replaced[p][e.version] \in 0..Never
        BY <1>2, <2>2 DEF FileInv
    <2> HIDE DEF p, e
    <2>4. CacheTimeout > 0 => replaced[p][e.version] > reader[t].now - CacheTimeout
        BY <1>2, <2>1, <2>2, <2>3, Bounds DEF Times
    <2>5. found \in Holding /\ FreshRecord(found)
        BY <1>2, <2>2, <2>4 DEF Holding, FreshRecord
    <2> HIDE DEF found
    <2> QED BY <1>1, <1>4, <1>5, <2>5, ReaderMoves
<1>6. CASE ~IsFresh(t)
    <2>1. missed \in Asking /\ FreshRecord(missed)
        BY <1>2 DEF Asking, FreshRecord
    <2> HIDE DEF missed
    <2> QED BY <1>1, <1>4, <1>6, <2>1, ReaderMoves
<1> QED BY <1>5, <1>6

LEMMA Opening ==
    ASSUME FileInv, NEW t \in Reader, OpenFile(t)
    PROVE  FileInv'
<1> DEFINE p == reader[t].path
           next == IF Size[file[p]] <= MaxCachedFileSize THEN "readSmall" ELSE "readLarge"
           r == [reader[t] EXCEPT !.at = next]
<1>1. /\ reader[t].at = "open"
      /\ reader' = [reader EXCEPT ![t] = IF p \in missing THEN Unasked ELSE r]
      /\ UNCHANGED <<clock, file, missing, replaced, cache>>
    BY DEF OpenFile
<1>2. p \in Path /\ reader[t].now \in Times /\ reader[t] \in Asking /\ reader[t].now <= clock
    BY <1>1, ReaderTypes DEF FileInv, ReadersAreFresh
<1>3. cache' \in Seq(Dated)
    BY <1>1 DEF FileInv
<1>4. CASE p \in missing
    <2>1. FreshRecord(Unasked)
        BY DEF FreshRecord, Unasked
    <2> QED BY <1>1, <1>3, <1>4, <2>1, ReaderMoves
<1>5. CASE p \notin missing
    <2>1. replaced[p][file[p]] = Never
        BY <1>2, <1>5 DEF FileInv, LastIsCurrent
    <2>2. replaced[p][file[p]] >= reader[t].now
        BY <1>2, <2>1, Bounds DEF Times
    <2>3. next \in {"readSmall", "readLarge"}
        OBVIOUS
    <2> HIDE DEF next
    <2>4. r \in Asking /\ FreshRecord(r)
        BY <1>2, <2>2, <2>3 DEF Asking, FreshRecord
    <2> HIDE DEF r
    <2> QED BY <1>1, <1>3, <1>5, <2>4, ReaderMoves
<1> QED BY <1>4, <1>5

LEMMA ReadingFile ==
    ASSUME FileInv, NEW t \in Reader, ReadSmall(t) \/ ReadLarge(t)
    PROVE  FileInv'
<1> DEFINE p == reader[t].path
           r(at) == [at |-> at, path |-> p, now |-> reader[t].now, version |-> file[p]]
<1>1. PICK at \in {"insert", "answered"} : reader' = [reader EXCEPT ![t] = r(at)]
    BY DEF ReadSmall, ReadLarge
<1>2. /\ reader[t].at \in {"readSmall", "readLarge"}
      /\ UNCHANGED <<clock, file, missing, replaced, cache>>
    BY DEF ReadSmall, ReadLarge
<1>3. p \in Path /\ reader[t].now \in Times /\ reader[t].now <= clock
    BY <1>2, ReaderTypes DEF FileInv, ReadersAreFresh
<1>4. r(at) \in Holding /\ FreshRecord(r(at))
    BY <1>2, <1>3, ReadIsFresh DEF Holding, FreshRecord
<1>5. cache' \in Seq(Dated)
    BY <1>2 DEF FileInv
<1> HIDE DEF r
<1> QED BY <1>1, <1>2, <1>4, <1>5, ReaderMoves

LEMMA Inserting ==
    ASSUME FileInv, NEW t \in Reader, Insert(t)
    PROVE  FileInv'
<1> DEFINE e == [path |-> reader[t].path, version |-> reader[t].version, created |-> reader[t].now]
           r == [reader[t] EXCEPT !.at = "answered"]
<1>1. /\ reader[t].at = "insert" /\ cache' = InsertEntry(e)
      /\ reader' = [reader EXCEPT ![t].at = "answered"]
      /\ UNCHANGED <<clock, file, missing, replaced>>
    BY DEF Insert
<1>2. /\ reader[t].path \in Path /\ reader[t].now \in Times /\ reader[t].now <= clock
      /\ reader[t] \in Holding /\ reader[t].version \in 1..MaxVersion
      /\ replaced[reader[t].path][reader[t].version] >= reader[t].now
    BY <1>1, ReaderTypes DEF FileInv, ReadersAreFresh
<1>3. replaced[reader[t].path][reader[t].version] \in 0..Never
    BY <1>2 DEF FileInv
<1>4. e \in Dated
    BY <1>2 DEF Dated
<1>5. cache' \in Seq(Dated)
    BY <1>1, <1>4, EntryInserted DEF FileInv
<1>6. CacheTimeout > 0 =>
        replaced[reader[t].path][reader[t].version] > reader[t].now - CacheTimeout
    BY <1>2, <1>3, Bounds DEF Times
<1>7. r \in Holding /\ FreshRecord(r)
    BY <1>2, <1>6 DEF Holding, FreshRecord
<1>8. reader' = [reader EXCEPT ![t] = r]
    BY <1>1, <1>2 DEF Holding, FileInv
<1> HIDE DEF r
<1> QED BY <1>1, <1>5, <1>7, <1>8, ReaderMoves

LEMMA Returning ==
    ASSUME FileInv, NEW t \in Reader, Return(t)
    PROVE  FileInv'
<1>1. FreshRecord(Unasked) /\ cache \in Seq(Dated)
    BY DEF FreshRecord, Unasked, FileInv
<1> QED BY <1>1, ReaderMoves DEF Return

-----------------------------------------------------------------------------
(* The property.                                                           *)

LEMMA FirstFiles == FileInit => FileInv
<1> SUFFICES ASSUME FileInit
             PROVE  FileInv
    OBVIOUS
<1>1. /\ clock \in Times /\ file \in [Path -> 1..MaxVersion] /\ missing \subseteq Path
      /\ replaced \in [Path -> [1..MaxVersion -> 0..Never]]
    BY Bounds DEF FileInit, Times
<1>2. cache \in Seq(Dated)
    BY EmptySeq DEF FileInit
<1> QED BY <1>1, <1>2 DEF FileInit, FileInv, LastIsCurrent, ReadersAreFresh, Unasked

\* What the threads and the cache hold is as fresh as FileInv says, in every state.
THEOREM FilesInductive == FileSpec => []FileInv
<1>1. ASSUME FileInv, [FileNext]_fileVars
      PROVE  FileInv'
    <2>1. ASSUME NEW t \in Reader, NEW p \in Path, Service(t, p)
          PROVE  FileInv'
        BY <1>1, <2>1, Asked
    <2>2. ASSUME NEW t \in Reader, Lookup(t)
          PROVE  FileInv'
        BY <1>1, <2>2, LookingUp
    <2>3. ASSUME NEW t \in Reader, OpenFile(t)
          PROVE  FileInv'
        BY <1>1, <2>3, Opening
    <2>4. ASSUME NEW t \in Reader, ReadSmall(t) \/ ReadLarge(t)
          PROVE  FileInv'
        BY <1>1, <2>4, ReadingFile
    <2>5. ASSUME NEW t \in Reader, Insert(t)
          PROVE  FileInv'
        BY <1>1, <2>5, Inserting
    <2>6. ASSUME NEW t \in Reader, Return(t)
          PROVE  FileInv'
        BY <1>1, <2>6, Returning
    <2>7. ASSUME NEW p \in Path, Replace(p)
          PROVE  FileInv'
        BY <1>1, <2>7, Replacing
    <2>8. ASSUME NEW p \in Path, DeleteFile(p)
          PROVE  FileInv'
        BY <1>1, <2>8, Deleting
    <2>9. CASE FileTick
        BY <1>1, <2>9, Ticking
    <2>10. CASE UNCHANGED fileVars
        <3>1. FileInv /\ UNCHANGED <<clock, file, missing, replaced, cache, reader>>
            BY <1>1, <2>10 DEF fileVars
        <3>2. Dated' = Dated
            BY <3>1 DEF Dated
        <3> QED BY <3>1, <3>2 DEF FileInv, LastIsCurrent, ReadersAreFresh
    <2> QED BY <1>1, <2>1, <2>2, <2>3, <2>4, <2>5, <2>6, <2>7, <2>8, <2>9, <2>10 DEF FileNext
<1> QED BY FirstFiles, <1>1, PTL DEF FileSpec

\* An answer is never staler than the cache time, with any number of threads,
\* files and versions, and whatever the cache has dropped.
THEOREM AnswersAreFresh == FileSpec => []NotStalerThanTimeout
<1>1. FileInv => NotStalerThanTimeout
    BY DEF FileInv, ReadersAreFresh, NotStalerThanTimeout
<1> QED BY <1>1, FilesInductive, PTL

-----------------------------------------------------------------------------
(* FileLogger: sequences of messages.                                      *)

LEMMA Places ==
    ASSUME NEW S, NEW s \in Seq(S)
    PROVE  /\ Len(s) \in Nat /\ DOMAIN s = 1..Len(s)
           /\ \A i \in 1..Len(s) : s[i] \in S
BY LenProperties, ElementOfSeq

\* The first k messages.
LEMMA Beginning ==
    ASSUME NEW S, NEW s \in Seq(S), NEW k \in 0..Len(s)
    PROVE  LET t == SubSeq(s, 1, k)
           IN  /\ t \in Seq(S) /\ Len(t) = k /\ DOMAIN t = 1..k
               /\ \A i \in 1..k : t[i] = s[i]
<1> DEFINE t == SubSeq(s, 1, k)
<1>1. /\ Len(s) \in Nat /\ \A i \in 1..k : s[i] \in S
    BY Places
<1>2. /\ t \in Seq(S) /\ Len(t) = IF 1 <= k THEN k - 1 + 1 ELSE 0
      /\ \A i \in 1..(k - 1 + 1) : t[i] = s[1 + i - 1]
    BY <1>1, SubSeqProperties
<1> HIDE DEF t
<1>3. Len(t) = k /\ \A i \in 1..k : t[i] = s[i]
    BY <1>1, <1>2
<1> QED BY <1>2, <1>3, Places DEF t

\* What comes after them.
LEMMA Remainder ==
    ASSUME NEW S, NEW s \in Seq(S), NEW k \in 0..Len(s)
    PROVE  LET t == SubSeq(s, k + 1, Len(s))
           IN  /\ t \in Seq(S) /\ SubSeq(s, 1, k) \o t = s
<1> DEFINE t == SubSeq(s, k + 1, Len(s))
<1>1. /\ Len(s) \in Nat /\ \A i \in (k + 1)..Len(s) : s[i] \in S
    BY Places
<1>2. t \in Seq(S)
    BY <1>1, SubSeqProperties
<1>3. SubSeq(s, 1, k) \o t = SubSeq(s, 1, Len(s))
    <2>1. 1 \in 1..(Len(s) + 1) /\ k \in (1 - 1)..Len(s) /\ Len(s) \in k..Len(s)
        BY <1>1
    <2> QED BY <2>1, ConcatAdjacentSubSeq
<1> QED BY <1>2, <1>3, SubSeqFull

LEMMA Joined ==
    ASSUME NEW S, NEW s \in Seq(S), NEW t \in Seq(S)
    PROVE  /\ s \o t \in Seq(S) /\ Len(s \o t) = Len(s) + Len(t)
           /\ DOMAIN (s \o t) = 1..(Len(s) + Len(t))
           /\ \A i \in 1..Len(s) : (s \o t)[i] = s[i]
           /\ \A i \in 1..Len(t) : (s \o t)[Len(s) + i] = t[i]
<1>1. /\ s \o t \in Seq(S) /\ Len(s \o t) = Len(s) + Len(t)
      /\ \A i \in 1..(Len(s) + Len(t)) : (s \o t)[i] = IF i <= Len(s) THEN s[i] ELSE t[i - Len(s)]
    BY ConcatProperties
<1>2. /\ Len(s) \in Nat /\ Len(t) \in Nat
      /\ DOMAIN (s \o t) = 1..(Len(s) + Len(t))
    BY <1>1, Places
<1>3. ASSUME NEW i \in 1..Len(s) PROVE (s \o t)[i] = s[i]
    BY <1>1, <1>2
<1>4. ASSUME NEW i \in 1..Len(t) PROVE (s \o t)[Len(s) + i] = t[i]
    <2>1. /\ Len(s) + i \in 1..(Len(s) + Len(t)) /\ ~(Len(s) + i <= Len(s))
          /\ Len(s) + i - Len(s) = i
        BY <1>2
    <2> QED BY <1>1, <2>1
<1> QED BY <1>1, <1>2, <1>3, <1>4

LEMMA Numbers ==
    ASSUME NEW n \in Nat, NEW f \in [0..n -> Nat]
    PROVE  0 \in 0..n /\ \A i \in 0..n : f[i] \in Nat
OBVIOUS

-----------------------------------------------------------------------------
(* The end of what was written.                                            *)

LEMMA FurtherOn ==
    \A a, b, c, n \in Nat : \A j \in 1..n : a + b = c => a + (b + j) = c + j
OBVIOUS

\* What the places of the log and its backups are.
LEMMA PlacesInText ==
    ASSUME NEW backups \in Seq(Text), NEW log \in Seq(Message), NEW text \in Seq(Message)
    PROVE  AreTheEnd(backups, log, text) =>
           \E start, cut :
            /\ start \in Nat /\ cut \in [0..Len(backups) -> Nat]
            /\ cut[0] = start /\ \A i \in 0..Len(backups) : cut[i] <= start
            /\ start + Len(log) = Len(text)
            /\ \A k \in 1..Len(log) : log[k] = text[start + k]
            /\ \A i \in 1..Len(backups) : /\ Stands(backups[i], text, cut[i])
                                        /\ cut[i] + Len(backups[i]) = cut[i - 1]
<1>0. HAVE AreTheEnd(backups, log, text)
<1>1. /\ Len(log) \in Nat /\ Len(text) \in Nat /\ Len(backups) \in Nat
      /\ DOMAIN log = 1..Len(log) /\ DOMAIN backups = 1..Len(backups)
    BY Places
<1>2. PICK cut :
        /\ cut \in [0..Len(backups) -> 0..(Len(text) - Len(log))]
        /\ Stands(log, text, cut[0]) /\ cut[0] + Len(log) = Len(text)
        /\ \A i \in DOMAIN backups :
            Stands(backups[i], text, cut[i]) /\ cut[i] + Len(backups[i]) = cut[i - 1]
    BY <1>0 DEF AreTheEnd
<1> DEFINE start == cut[0]
<1>3. \A i \in 0..Len(backups) : cut[i] \in 0..(Len(text) - Len(log))
    BY <1>2
<1>4. 0 \in 0..Len(backups)
    BY <1>1
<1>5. cut \in [0..Len(backups) -> Nat] /\ start \in Nat
    BY <1>1, <1>2, <1>3, <1>4
<1> HIDE DEF start
<1>6. start + Len(log) = Len(text)
    BY <1>2 DEF start
<1>7. Len(text) - Len(log) = start
    BY <1>1, <1>5, <1>6
<1>8. \A i \in 0..Len(backups) : cut[i] <= start
    BY <1>3, <1>5, <1>7
<1>9. \A k \in 1..Len(log) : log[k] = text[start + k]
    BY <1>1, <1>2 DEF Stands, start
<1>10. cut[0] = start
    BY DEF start
<1>11. \A i \in 1..Len(backups) : /\ Stands(backups[i], text, cut[i])
                                  /\ cut[i] + Len(backups[i]) = cut[i - 1]
    BY <1>1, <1>2
<1>12. /\ start \in Nat /\ cut \in [0..Len(backups) -> Nat]
       /\ cut[0] = start /\ \A i \in 0..Len(backups) : cut[i] <= start
       /\ start + Len(log) = Len(text)
       /\ \A k \in 1..Len(log) : log[k] = text[start + k]
       /\ \A i \in 1..Len(backups) : /\ Stands(backups[i], text, cut[i])
                                   /\ cut[i] + Len(backups[i]) = cut[i - 1]
    BY <1>5, <1>6, <1>8, <1>9, <1>10, <1>11, Zenon
<1> QED BY <1>12, ZenonT(60)

LEMMA TheyAreTheEnd ==
    ASSUME NEW backups \in Seq(Text), NEW log \in Seq(Message), NEW text \in Seq(Message),
           NEW start, NEW cut
    PROVE  /\ start \in Nat /\ cut \in [0..Len(backups) -> Nat]
           /\ cut[0] = start /\ \A i \in 0..Len(backups) : cut[i] <= start
           /\ start + Len(log) = Len(text)
           /\ \A k \in 1..Len(log) : log[k] = text[start + k]
           /\ \A i \in 1..Len(backups) : /\ Stands(backups[i], text, cut[i])
                                       /\ cut[i] + Len(backups[i]) = cut[i - 1]
           => AreTheEnd(backups, log, text)
<1>1. /\ Len(log) \in Nat /\ Len(text) \in Nat /\ Len(backups) \in Nat
      /\ DOMAIN log = 1..Len(log) /\ DOMAIN backups = 1..Len(backups)
    BY Places
<1>2. HAVE /\ start \in Nat /\ cut \in [0..Len(backups) -> Nat]
           /\ cut[0] = start /\ \A i \in 0..Len(backups) : cut[i] <= start
           /\ start + Len(log) = Len(text)
           /\ \A k \in 1..Len(log) : log[k] = text[start + k]
           /\ \A i \in 1..Len(backups) : /\ Stands(backups[i], text, cut[i])
                                       /\ cut[i] + Len(backups[i]) = cut[i - 1]
<1>3. Len(text) - Len(log) = start /\ start + Len(log) = Len(text)
    <2>1. start \in Nat /\ start + Len(log) = Len(text)
        BY <1>2
    <2> QED BY <1>1, <2>1
<1>4. \A i \in 0..Len(backups) : cut[i] \in Nat /\ cut[i] <= start
    BY <1>1, <1>2, Numbers
<1>5. cut \in [0..Len(backups) -> 0..start]
    BY <1>2, <1>4
<1>6. start + Len(log) <= Len(text)
    BY <1>1, <1>3
<1>7. Stands(log, text, start)
    BY <1>1, <1>2, <1>6 DEF Stands
<1> QED BY <1>1, <1>2, <1>3, <1>5, <1>7 DEF AreTheEnd

\* A backup stands where it stood as long as the text is the same up to there.
LEMMA BackupStands ==
    ASSUME NEW piece \in Seq(Message), NEW text \in Seq(Message), NEW other \in Seq(Message),
           NEW after \in Nat, Stands(piece, text, after), after + Len(piece) <= Len(other),
           \A i \in 1..(after + Len(piece)) : other[i] = text[i]
    PROVE  Stands(piece, other, after)
<1>1. Len(piece) \in Nat /\ DOMAIN piece = 1..Len(piece)
    BY Places
<1>2. ASSUME NEW k \in 1..Len(piece) PROVE piece[k] = other[after + k]
    <2>1. after + k \in 1..(after + Len(piece))
        BY <1>1
    <2> QED BY <1>1, <2>1 DEF Stands
<1> QED BY <1>1, <1>2 DEF Stands

\* More is written to the log.
LEMMA MoreIsWritten ==
    ASSUME NEW backups \in Seq(Text), NEW log \in Seq(Message), NEW text \in Seq(Message),
           NEW more \in Seq(Message)
    PROVE  AreTheEnd(backups, log, text) => AreTheEnd(backups, log \o more, text \o more)
<1>0. HAVE AreTheEnd(backups, log, text)
<1> DEFINE log2 == log \o more
           text2 == text \o more
<1>1. Len(log) \in Nat /\ Len(text) \in Nat /\ Len(more) \in Nat /\ Len(backups) \in Nat
    BY Places
<1>2. PICK start, cut :
        /\ start \in Nat /\ cut \in [0..Len(backups) -> Nat]
        /\ cut[0] = start /\ \A i \in 0..Len(backups) : cut[i] <= start
        /\ start + Len(log) = Len(text)
        /\ \A k \in 1..Len(log) : log[k] = text[start + k]
        /\ \A i \in 1..Len(backups) : /\ Stands(backups[i], text, cut[i])
                                    /\ cut[i] + Len(backups[i]) = cut[i - 1]
    BY <1>0, PlacesInText
<1>3. /\ log2 \in Seq(Message) /\ Len(log2) = Len(log) + Len(more)
      /\ \A i \in 1..Len(log) : log2[i] = log[i]
      /\ \A i \in 1..Len(more) : log2[Len(log) + i] = more[i]
    BY Joined
<1>4. /\ text2 \in Seq(Message) /\ Len(text2) = Len(text) + Len(more)
      /\ \A i \in 1..Len(text) : text2[i] = text[i]
      /\ \A i \in 1..Len(more) : text2[Len(text) + i] = more[i]
    BY Joined
<1> HIDE DEF log2, text2
<1>5. \A i \in 0..Len(backups) : cut[i] \in Nat
    BY <1>2
<1>6. start + Len(log) = Len(text) /\ start \in Nat
    BY <1>2
<1>7. start + Len(log2) = Len(text2)
    <2>1. Len(log2) = Len(log) + Len(more) /\ Len(text2) = Len(text) + Len(more)
        BY <1>3, <1>4
    <2> QED BY <1>1, <1>6, <2>1
<1>8. ASSUME NEW k \in 1..Len(log2) PROVE log2[k] = text2[start + k]
    <2>1. CASE k \in 1..Len(log)
        <3>1. start + k \in 1..Len(text)
            BY <1>1, <1>5, <1>6, <2>1
        <3>2. log[k] = text[start + k]
            BY <1>2, <2>1
        <3>3. log2[k] = log[k] /\ text2[start + k] = text[start + k]
            BY <1>3, <1>4, <2>1, <3>1
        <3> QED BY <3>2, <3>3
    <2>2. CASE k \notin 1..Len(log)
        <3> DEFINE j == k - Len(log)
        <3>1. Len(log2) = Len(log) + Len(more)
            BY <1>3
        <3>2. j \in 1..Len(more) /\ k = Len(log) + j
            BY <1>1, <2>2, <3>1
        <3> HIDE DEF j
        <3>3. start + k = Len(text) + j
            <4>1. start \in Nat /\ Len(log) \in Nat /\ Len(text) \in Nat /\ Len(more) \in Nat
                BY <1>1, <1>6, Zenon
            <4>2. start + (Len(log) + j) = Len(text) + j
                BY <1>6, <3>2, <4>1, FurtherOn, SMTT(20)
            <4> QED BY <3>2, <4>2, Zenon
        <3>4. log2[Len(log) + j] = more[j] /\ text2[Len(text) + j] = more[j]
            BY <1>3, <1>4, <3>2
        <3> QED BY <3>2, <3>3, <3>4
    <2> QED BY <2>1, <2>2
<1>9. ASSUME NEW i \in 1..Len(backups)
      PROVE  Stands(backups[i], text2, cut[i]) /\ cut[i] + Len(backups[i]) = cut[i - 1]
    <2>1. i \in 0..Len(backups) /\ i - 1 \in 0..Len(backups)
        BY <1>1
    <2>2. /\ cut[i] \in Nat /\ cut[i - 1] \in Nat /\ cut[i - 1] <= start
          /\ Stands(backups[i], text, cut[i]) /\ cut[i] + Len(backups[i]) = cut[i - 1]
        BY <1>2, <1>5, <2>1
    <2>3. backups[i] \in Seq(Message) /\ Len(backups[i]) \in Nat
        BY Places DEF Text
    <2>4. cut[i] + Len(backups[i]) <= Len(text2) /\ cut[i] + Len(backups[i]) <= Len(text)
        <3>1. Len(text2) = Len(text) + Len(more)
            BY <1>4
        <3> QED BY <1>1, <1>5, <1>6, <2>2, <2>3, <3>1
    <2>5. \A j \in 1..(cut[i] + Len(backups[i])) : j \in 1..Len(text)
        BY <1>1, <2>2, <2>3, <2>4
    <2>6. \A j \in 1..(cut[i] + Len(backups[i])) : text2[j] = text[j]
        BY <1>4, <2>5
    <2> QED BY <1>4, <2>2, <2>3, <2>4, <2>6, BackupStands
<1> QED BY <1>2, <1>3, <1>4, <1>7, <1>8, <1>9, TheyAreTheEnd DEF log2, text2

\* The end of the log is lost, and with it the end of what counts as written.
LEMMA EndIsLost ==
    ASSUME NEW backups \in Seq(Text), NEW log \in Seq(Message), NEW text \in Seq(Message),
           NEW k \in 0..Len(log)
    PROVE  AreTheEnd(backups, log, text) =>
           /\ Len(text) - Len(log) + k \in 0..Len(text)
           /\ AreTheEnd(backups, SubSeq(log, 1, k), SubSeq(text, 1, Len(text) - Len(log) + k))
<1>0. HAVE AreTheEnd(backups, log, text)
<1> DEFINE left == Len(text) - Len(log) + k
           log2 == SubSeq(log, 1, k)
           text2 == SubSeq(text, 1, left)
<1>1. Len(log) \in Nat /\ Len(text) \in Nat /\ Len(backups) \in Nat
    BY Places
<1>2. PICK start, cut :
        /\ start \in Nat /\ cut \in [0..Len(backups) -> Nat]
        /\ cut[0] = start /\ \A i \in 0..Len(backups) : cut[i] <= start
        /\ start + Len(log) = Len(text)
        /\ \A j \in 1..Len(log) : log[j] = text[start + j]
        /\ \A i \in 1..Len(backups) : /\ Stands(backups[i], text, cut[i])
                                    /\ cut[i] + Len(backups[i]) = cut[i - 1]
    BY <1>0, PlacesInText
<1>3. \A i \in 0..Len(backups) : cut[i] \in Nat
    BY <1>2
<1>4. start + Len(log) = Len(text) /\ start \in Nat
    BY <1>2
<1>5. left = start + k /\ left \in 0..Len(text)
    BY <1>1, <1>4
<1> HIDE DEF left
<1>6. log2 \in Seq(Message) /\ Len(log2) = k /\ \A i \in 1..k : log2[i] = log[i]
    BY Beginning
<1>7. text2 \in Seq(Message) /\ Len(text2) = left /\ \A i \in 1..left : text2[i] = text[i]
    BY <1>5, Beginning
<1> HIDE DEF log2, text2
<1>8. ASSUME NEW j \in 1..k PROVE log2[j] = text2[start + j]
    <2>1. j \in 1..Len(log) /\ start + j \in 1..left
        BY <1>1, <1>4, <1>5
    <2> QED BY <1>2, <1>6, <1>7, <2>1
<1>9. ASSUME NEW i \in 1..Len(backups)
      PROVE  Stands(backups[i], text2, cut[i]) /\ cut[i] + Len(backups[i]) = cut[i - 1]
    <2>1. i \in 0..Len(backups) /\ i - 1 \in 0..Len(backups)
        BY <1>1
    <2>2. /\ cut[i] \in Nat /\ cut[i - 1] \in Nat /\ cut[i - 1] <= start
          /\ Stands(backups[i], text, cut[i]) /\ cut[i] + Len(backups[i]) = cut[i - 1]
        BY <1>2, <1>3, <2>1
    <2>3. backups[i] \in Seq(Message) /\ Len(backups[i]) \in Nat
        BY Places DEF Text
    <2>4. cut[i] + Len(backups[i]) <= left
        BY <1>4, <1>5, <2>2, <2>3
    <2>5. \A j \in 1..(cut[i] + Len(backups[i])) : j \in 1..left
        BY <1>1, <1>5, <2>2, <2>3, <2>4
    <2>6. \A j \in 1..(cut[i] + Len(backups[i])) : text2[j] = text[j]
        BY <1>7, <2>5
    <2> QED BY <1>7, <2>2, <2>3, <2>4, <2>6, BackupStands
<1>10. start + Len(log2) = Len(text2)
    BY <1>5, <1>6, <1>7
<1>11. AreTheEnd(backups, log2, text2)
    BY <1>2, <1>6, <1>7, <1>8, <1>9, <1>10, TheyAreTheEnd
<1> QED BY <1>5, <1>11 DEF log2, text2, left

\* The log becomes the newest backup, and the oldest ones may go.
LEMMA LogIsRotated ==
    ASSUME NEW backups \in Seq(Text), NEW log \in Seq(Message), NEW text \in Seq(Message),
           NEW k \in 0..Len(backups)
    PROVE  AreTheEnd(backups, log, text) =>
           /\ <<log>> \o SubSeq(backups, 1, k) \in Seq(Text)
           /\ AreTheEnd(<<log>> \o SubSeq(backups, 1, k), <<>>, text)
<1>0. HAVE AreTheEnd(backups, log, text)
<1> DEFINE one == <<log>>
           kept == SubSeq(backups, 1, k)
           all == one \o kept
           none == <<>>
<1>1. /\ Len(log) \in Nat /\ Len(text) \in Nat /\ Len(backups) \in Nat /\ DOMAIN log = 1..Len(log)
      /\ k \in Nat /\ k <= Len(backups)
    BY Places
<1>2. kept \in Seq(Text) /\ Len(kept) = k /\ \A i \in 1..k : kept[i] = backups[i]
    BY Beginning
<1>3. none \in Seq(Message) /\ Len(none) = 0
    BY EmptySeq
<1>4. one \in Seq(Text) /\ Len(one) = 1 /\ one[1] = log
    BY DEF Text
<1> HIDE DEF kept, none, one
<1>5. /\ all \in Seq(Text) /\ Len(all) = Len(one) + Len(kept)
      /\ \A i \in 1..Len(one) : all[i] = one[i]
      /\ \A i \in 1..Len(kept) : all[Len(one) + i] = kept[i]
    <2>1. one \in Seq(Text) /\ kept \in Seq(Text)
        BY <1>2, <1>4
    <2> QED BY <2>1, Joined
<1> HIDE DEF all
<1>6. Len(all) = k + 1
    BY <1>1, <1>2, <1>4, <1>5
<1>7. all[1] = log /\ \A i \in 1..k : all[1 + i] = backups[i]
    BY <1>2, <1>4, <1>5
<1>8. PICK start, cut :
        /\ start \in Nat /\ cut \in [0..Len(backups) -> Nat]
        /\ cut[0] = start /\ \A i \in 0..Len(backups) : cut[i] <= start
        /\ start + Len(log) = Len(text)
        /\ \A j \in 1..Len(log) : log[j] = text[start + j]
        /\ \A i \in 1..Len(backups) : /\ Stands(backups[i], text, cut[i])
                                    /\ cut[i] + Len(backups[i]) = cut[i - 1]
    BY <1>0, PlacesInText
<1>9. \A i \in 0..Len(backups) : cut[i] \in Nat
    BY <1>8
<1>10. start + Len(log) = Len(text) /\ start \in Nat
    BY <1>8
<1> DEFINE cut2 == [i \in 0..(k + 1) |-> IF i = 0 THEN Len(text) ELSE cut[i - 1]]
<1>11. cut2[0] = Len(text)
    BY <1>1
<1>12. ASSUME NEW i \in 1..(k + 1)
       PROVE  /\ cut2[i] = cut[i - 1] /\ cut[i - 1] \in Nat /\ cut[i - 1] <= Len(text)
    <2>1. i - 1 \in 0..Len(backups) /\ i \in 0..(k + 1) /\ i # 0
        BY <1>1
    <2>2. cut[i - 1] \in Nat /\ cut[i - 1] <= start
        BY <1>8, <1>9, <2>1
    <2>3. cut[i - 1] <= Len(text)
        BY <1>1, <1>9, <1>10, <2>2
    <2> QED BY <2>1, <2>2, <2>3
<1>13. ASSUME NEW i \in 0..(k + 1) PROVE cut2[i] \in Nat /\ cut2[i] <= cut2[0]
    <2>1. i = 0 \/ i \in 1..(k + 1)
        BY <1>1
    <2>2. CASE i = 0
        BY <1>1, <1>11, <2>2
    <2>3. CASE i \in 1..(k + 1)
        BY <1>11, <1>12, <2>3
    <2> QED BY <2>1, <2>2, <2>3
<1>14. cut2 \in [0..Len(all) -> Nat]
    BY <1>6, <1>13
<1> HIDE DEF cut2
<1>15. cut2[0] + Len(none) = Len(text) /\ \A j \in 1..Len(none) : none[j] = text[cut2[0] + j]
    BY <1>1, <1>3, <1>11
<1>16. ASSUME NEW i \in 1..(k + 1)
       PROVE  Stands(all[i], text, cut2[i]) /\ cut2[i] + Len(all[i]) = cut2[i - 1]
    <2>1. CASE i = 1
        <3>1. 1 \in 1..(k + 1) /\ i - 1 = 0 /\ 1 - 1 = 0
            BY <1>1, <2>1
        <3>2. cut2[1] = start
            BY <1>8, <1>12, <3>1
        <3>3. Stands(log, text, start)
            BY <1>1, <1>8, <1>9, <1>10 DEF Stands
        <3> QED BY <1>7, <1>10, <1>11, <2>1, <3>1, <3>2, <3>3
    <2>2. CASE i # 1
        <3> DEFINE j == i - 1
        <3>1. j \in 1..k /\ j \in 1..Len(backups) /\ j \in 1..(k + 1) /\ i = 1 + j
            BY <1>1, <2>2
        <3>2. cut2[i] = cut[j] /\ cut2[j] = cut[j - 1]
            BY <1>12, <3>1
        <3> HIDE DEF j
        <3>3. all[i] = backups[j]
            BY <1>7, <3>1
        <3>4. Stands(backups[j], text, cut[j]) /\ cut[j] + Len(backups[j]) = cut[j - 1]
            BY <1>8, <3>1
        <3> QED BY <3>2, <3>3, <3>4 DEF j
    <2> QED BY <2>1, <2>2
<1>17. AreTheEnd(all, none, text)
    <2>1. all \in Seq(Text) /\ Len(text) \in Nat /\ none \in Seq(Message)
        BY <1>1, <1>3, <1>5
    <2>2. \A i \in 0..Len(all) : cut2[i] <= Len(text)
        BY <1>6, <1>11, <1>13
    <2>3. \A i \in 1..Len(all) : /\ Stands(all[i], text, cut2[i])
                                 /\ cut2[i] + Len(all[i]) = cut2[i - 1]
        BY <1>6, <1>16
    <2> QED BY <1>11, <1>14, <1>15, <2>1, <2>2, <2>3, TheyAreTheEnd
<1> QED BY <1>5, <1>17 DEF all, one, kept, none

-----------------------------------------------------------------------------
(* Every message once.                                                     *)

LEMMA EmptyText ==
    ASSUME NEW text, NEW last
    PROVE  LET none == <<>>
           IN  /\ none \in Seq(Message) /\ NoTwice(none) /\ UpTo(none, last)
               /\ Apart(none, text) /\ Apart(text, none)
<1> DEFINE none == <<>>
<1>1. none \in Seq(Message) /\ DOMAIN none = {}
    OBVIOUS
<1> HIDE DEF none
<1>2. NoTwice(none) /\ UpTo(none, last) /\ Apart(none, text) /\ Apart(text, none)
    BY <1>1 DEF NoTwice, UpTo, Apart
<1> QED BY <1>1, <1>2 DEF none

\* A text each of whose messages is one of another text.
LEMMA PartOfText ==
    ASSUME NEW text \in Seq(Message), NEW part \in Seq(Message), NEW d \in Nat,
           \A i \in 1..Len(part) : d + i \in 1..Len(text) /\ part[i] = text[d + i]
    PROVE  /\ NoTwice(text) => NoTwice(part)
           /\ \A last : UpTo(text, last) => UpTo(part, last)
           /\ \A other : /\ Apart(other, text) => Apart(other, part)
                         /\ Apart(text, other) => Apart(part, other)
<1>1. DOMAIN text = 1..Len(text) /\ DOMAIN part = 1..Len(part) /\ Len(part) \in Nat
    BY Places
<1>2. ASSUME NoTwice(text) PROVE NoTwice(part)
    <2>1. ASSUME NEW i \in 1..Len(part), NEW j \in 1..Len(part), part[i].n = part[j].n
          PROVE  i = j
        <3>1. d + i = d + j
            BY <1>1, <1>2, <2>1, ZenonT(60) DEF NoTwice
        <3> QED BY <1>1, <3>1
    <2> QED BY <1>1, <2>1 DEF NoTwice
<1>3. ASSUME NEW last, UpTo(text, last) PROVE UpTo(part, last)
    BY <1>1, <1>3 DEF UpTo
<1>4. ASSUME NEW other PROVE Apart(other, text) => Apart(other, part)
    BY <1>1 DEF Apart
<1>5. ASSUME NEW other PROVE Apart(text, other) => Apart(part, other)
    BY <1>1 DEF Apart
<1> QED BY <1>2, <1>3, <1>4, <1>5

LEMMA FirstMessages ==
    ASSUME NEW text \in Seq(Message), NEW k \in 0..Len(text)
    PROVE  LET part == SubSeq(text, 1, k)
           IN  /\ part \in Seq(Message)
               /\ NoTwice(text) => NoTwice(part)
               /\ \A last : UpTo(text, last) => UpTo(part, last)
               /\ \A other : /\ Apart(other, text) => Apart(other, part)
                             /\ Apart(text, other) => Apart(part, other)
<1> DEFINE part == SubSeq(text, 1, k)
<1>1. /\ part \in Seq(Message) /\ Len(part) = k /\ \A i \in 1..k : part[i] = text[i]
      /\ Len(text) \in Nat
    BY Beginning, Places
<1> HIDE DEF part
<1>2. 0 \in Nat /\ \A i \in 1..Len(part) : 0 + i \in 1..Len(text) /\ part[i] = text[0 + i]
    BY <1>1
<1>3. /\ NoTwice(text) => NoTwice(part)
      /\ \A last : UpTo(text, last) => UpTo(part, last)
      /\ \A other : /\ Apart(other, text) => Apart(other, part)
                    /\ Apart(text, other) => Apart(part, other)
    BY <1>1, <1>2, PartOfText
<1> QED BY <1>1, <1>3 DEF part

LEMMA TwoTexts ==
    ASSUME NEW s \in Seq(Message), NEW t \in Seq(Message)
    PROVE  /\ s \o t \in Seq(Message)
           /\ NoTwice(s) /\ NoTwice(t) /\ Apart(s, t) => NoTwice(s \o t)
           /\ \A last : UpTo(s, last) /\ UpTo(t, last) => UpTo(s \o t, last)
           /\ \A other : Apart(other, s) /\ Apart(other, t) => Apart(other, s \o t)
<1> DEFINE both == s \o t
<1>1. /\ both \in Seq(Message) /\ DOMAIN both = 1..(Len(s) + Len(t))
      /\ \A i \in 1..Len(s) : both[i] = s[i]
      /\ \A i \in 1..Len(t) : both[Len(s) + i] = t[i]
    BY Joined
<1>2. /\ Len(s) \in Nat /\ Len(t) \in Nat /\ DOMAIN s = 1..Len(s) /\ DOMAIN t = 1..Len(t)
    BY Places
<1> HIDE DEF both
<1>3. ASSUME NEW i \in DOMAIN both
      PROVE  \/ i \in 1..Len(s) /\ both[i] = s[i]
             \/ \E j \in 1..Len(t) : i = Len(s) + j /\ both[i] = t[j]
    <2>1. CASE i \in 1..Len(s)
        BY <1>1, <2>1
    <2>2. CASE i \notin 1..Len(s)
        <3>1. i \in 1..(Len(s) + Len(t))
            BY <1>1
        <3>2. i - Len(s) \in 1..Len(t) /\ i = Len(s) + (i - Len(s))
            BY <1>2, <2>2, <3>1
        <3> QED BY <1>1, <3>2
    <2> QED BY <2>1, <2>2
<1>4. ASSUME NoTwice(s), NoTwice(t), Apart(s, t) PROVE NoTwice(both)
    <2>1. ASSUME NEW i \in DOMAIN both, NEW j \in DOMAIN both, both[i].n = both[j].n
          PROVE  i = j
        <3>1. CASE i \in 1..Len(s) /\ both[i] = s[i] /\ j \in 1..Len(s) /\ both[j] = s[j]
            BY <1>2, <1>4, <2>1, <3>1 DEF NoTwice
        <3>2. ASSUME NEW k \in 1..Len(t), i = Len(s) + k, both[i] = t[k],
                     NEW l \in 1..Len(t), j = Len(s) + l, both[j] = t[l]
              PROVE  i = j
            BY <1>2, <1>4, <2>1, <3>2 DEF NoTwice
        <3>3. ASSUME i \in 1..Len(s), both[i] = s[i], NEW l \in 1..Len(t), both[j] = t[l]
              PROVE  FALSE
            BY <1>2, <1>4, <2>1, <3>3 DEF Apart
        <3>4. ASSUME j \in 1..Len(s), both[j] = s[j], NEW l \in 1..Len(t), both[i] = t[l]
              PROVE  FALSE
            BY <1>2, <1>4, <2>1, <3>4 DEF Apart
        <3> QED BY <1>3, <3>1, <3>2, <3>3, <3>4
    <2> QED BY <2>1 DEF NoTwice
<1>5. ASSUME NEW last, UpTo(s, last), UpTo(t, last) PROVE UpTo(both, last)
    BY <1>2, <1>3, <1>5 DEF UpTo
<1>6. ASSUME NEW other, Apart(other, s), Apart(other, t) PROVE Apart(other, both)
    BY <1>2, <1>3, <1>6 DEF Apart
<1> QED BY <1>1, <1>4, <1>5, <1>6 DEF both

LEMMA ApartBothWays ==
    ASSUME NEW s, NEW t
    PROVE  Apart(s, t) => Apart(t, s)
BY DEF Apart

LEMMA HasNumbers ==
    ASSUME NEW text \in Seq(Message)
    PROVE  \A i \in DOMAIN text : text[i].n \in Nat
<1>1. \A i \in DOMAIN text : text[i] \in Message
    BY Places
<1> QED BY <1>1 DEF Message

LEMMA UpToMore ==
    ASSUME NEW text \in Seq(Message), NEW last \in Nat, UpTo(text, last)
    PROVE  UpTo(text, last + 1)
BY HasNumbers DEF UpTo

\* A message with the next number is apart from all there are.
LEMMA NextMessage ==
    ASSUME NEW last \in Nat, NEW type \in MessageTypes
    PROVE  LET one == <<[n |-> last + 1, type |-> type]>>
           IN  /\ one \in Seq(Message) /\ NoTwice(one) /\ UpTo(one, last + 1)
               /\ \A text \in Seq(Message) : UpTo(text, last) => Apart(text, one)
<1> DEFINE message == [n |-> last + 1, type |-> type]
           one == <<message>>
<1>1. message \in Message /\ message.n = last + 1
    BY DEF Message
<1> HIDE DEF message
<1>2. one \in Seq(Message) /\ DOMAIN one = {1} /\ one[1] = message
    BY <1>1
<1> HIDE DEF one
<1>3. NoTwice(one) /\ UpTo(one, last + 1)
    BY <1>1, <1>2 DEF NoTwice, UpTo
<1>4. ASSUME NEW text \in Seq(Message), UpTo(text, last) PROVE Apart(text, one)
    <2>1. \A i \in DOMAIN text : text[i].n \in Nat /\ text[i].n <= last
        BY <1>4, HasNumbers DEF UpTo
    <2>2. \A i \in DOMAIN text : text[i].n # last + 1
        BY <2>1
    <2> QED BY <1>1, <1>2, <2>2 DEF Apart
<1> QED BY <1>2, <1>3, <1>4 DEF one, message

\* What a thread's buffer holds with a new message.
LEMMA BufferedOnce ==
    ASSUME NEW t \in Writer, NEW type \in MessageTypes, number \in Nat, settings \in Settings,
           buffers[t] \in Seq(Message), NoTwice(buffers[t]), UpTo(buffers[t], number)
    PROVE  LET more == Buffered(t, [n |-> number + 1, type |-> type])
           IN  /\ more \in Seq(Message) /\ NoTwice(more) /\ UpTo(more, number + 1)
               /\ \A text \in Seq(Message) :
                    UpTo(text, number) /\ Apart(text, buffers[t]) => Apart(text, more)
<1> DEFINE message == [n |-> number + 1, type |-> type]
           one == <<message>>
           buffer == Append(buffers[t], message)
           more == Buffered(t, message)
<1>1. message \in Message
    BY DEF Message
<1>2. /\ one \in Seq(Message) /\ NoTwice(one) /\ UpTo(one, number + 1)
      /\ \A text \in Seq(Message) : UpTo(text, number) => Apart(text, one)
    BY NextMessage
<1>3. buffer = buffers[t] \o one
    BY <1>1, AppendIsConcat
<1>4. buffer \in Seq(Message) /\ buffer # <<>>
    BY <1>1, AppendProperties
<1> HIDE DEF one
<1>5. UpTo(buffers[t], number + 1) /\ Apart(buffers[t], one)
    BY <1>2, UpToMore
<1>6. /\ NoTwice(buffer) /\ UpTo(buffer, number + 1)
      /\ \A text \in Seq(Message) :
            UpTo(text, number) /\ Apart(text, buffers[t]) => Apart(text, buffer)
    BY <1>2, <1>3, <1>5, TwoTexts
<1>7. more = IF Len(buffer) > settings.bufferSize THEN Tail(buffer) ELSE buffer
    BY DEF Buffered
<1> HIDE DEF buffer, more, message
<1>8. CASE more = buffer
    BY <1>4, <1>6, <1>8 DEF more, message
<1>9. CASE more = Tail(buffer)
    <2>1. /\ more \in Seq(Message) /\ Len(more) = Len(buffer) - 1 /\ Len(buffer) \in Nat
          /\ \A i \in 1..Len(more) : more[i] = buffer[i + 1]
        BY <1>4, <1>9, HeadTailProperties, LenProperties
    <2> DEFINE d == 1
    <2>2. d \in Nat /\ \A i \in 1..Len(more) : d + i \in 1..Len(buffer) /\ more[i] = buffer[d + i]
        BY <2>1
    <2> HIDE DEF d
    <2>3. /\ NoTwice(buffer) => NoTwice(more)
          /\ \A last : UpTo(buffer, last) => UpTo(more, last)
          /\ \A other : /\ Apart(other, buffer) => Apart(other, more)
                        /\ Apart(buffer, other) => Apart(more, other)
        <3>1. buffer \in Seq(Message) /\ more \in Seq(Message)
            BY <1>4, <2>1
        <3> QED BY <2>2, <3>1, PartOfText, ZenonT(60)
    <2> QED BY <1>6, <2>1, <2>3 DEF more, message
<1> QED BY <1>7, <1>8, <1>9

\* What Logger::log writes, and what it leaves in the buffer.
LEMMA LogsOnce ==
    ASSUME LogInv, NEW t \in Writer, NEW type \in MessageTypes
    PROVE  LET message == [n |-> number + 1, type |-> type]
               out == Out(t, message)
               left == Left(t, message)
           IN  /\ out \in Seq(Message) /\ NoTwice(out) /\ UpTo(out, number + 1)
               /\ left \in Seq(Message) /\ NoTwice(left) /\ UpTo(left, number + 1)
               /\ type >= settings.minLevel => Apart(left, out)
               /\ \A text \in Seq(Message) : UpTo(text, number) /\ Apart(text, buffers[t]) =>
                    Apart(text, out) /\ Apart(text, left)
<1> DEFINE message == [n |-> number + 1, type |-> type]
           more == Buffered(t, message)
           one == <<message>>
           none == <<>>
<1>1. /\ number \in Nat /\ settings \in Settings /\ buffers[t] \in Seq(Message)
      /\ NoTwice(buffers[t]) /\ UpTo(buffers[t], number)
    BY DEF LogInv, EachOnce
<1>2. /\ more \in Seq(Message) /\ NoTwice(more) /\ UpTo(more, number + 1)
      /\ \A text \in Seq(Message) : UpTo(text, number) /\ Apart(text, buffers[t]) => Apart(text, more)
    BY <1>1, BufferedOnce
<1>3. /\ one \in Seq(Message) /\ NoTwice(one) /\ UpTo(one, number + 1)
      /\ \A text \in Seq(Message) : UpTo(text, number) => Apart(text, one)
    BY <1>1, NextMessage
<1>4. /\ none \in Seq(Message) /\ NoTwice(none) /\ UpTo(none, number + 1)
      /\ \A text : Apart(none, text) /\ Apart(text, none)
    BY EmptyText
<1>5. message.type = type
    OBVIOUS
<1> HIDE DEF one, more, none, message
<1>6. settings.bufferSize \in Nat
    BY <1>1, LoggerAssumption
<1>7. CASE settings.bufferSize = 0
    <2>1. Out(t, message) = one /\ Left(t, message) = buffers[t]
        BY <1>7 DEF Out, Left, one
    <2>2. UpTo(buffers[t], number + 1) /\ Apart(buffers[t], one)
        BY <1>1, <1>3, UpToMore
    <2> QED BY <1>1, <1>3, <2>1, <2>2 DEF message
<1>8. CASE settings.bufferSize > 0
    <2>1. /\ Out(t, message) = more
          /\ Left(t, message) = IF type >= settings.minLevel THEN none ELSE more
        BY <1>5, <1>6, <1>8 DEF Out, Left, more, none
    <2>2. CASE type >= settings.minLevel
        BY <1>2, <1>4, <2>1, <2>2 DEF message
    <2>3. CASE ~(type >= settings.minLevel)
        BY <1>2, <2>1, <2>3 DEF message
    <2> QED BY <2>2, <2>3
<1> QED BY <1>6, <1>7, <1>8

\* One buffer and one file change, and every message is still in one place.
LEMMA StillOnce ==
    ASSUME LogInv, NEW t \in Writer, NEW name \in Names, NEW last \in Nat, last >= number,
           NEW left \in Seq(Message), NoTwice(left), UpTo(left, last),
           NEW text \in Seq(Message), NoTwice(text), UpTo(text, last), Apart(left, text),
           \A u \in Writer \ {t} : Apart(buffers[u], left) /\ Apart(buffers[u], text),
           \A other \in Names \ {name} : Apart(left, written[other]),
           buffers' = [buffers EXCEPT ![t] = left],
           written' = [written EXCEPT ![name] = text], number' = last
    PROVE  EachOnce' /\ number' \in Nat /\ buffers' \in [Writer -> Seq(Message)]
                     /\ written' \in [Names -> Seq(Message)]
<1>1. /\ buffers \in [Writer -> Seq(Message)] /\ written \in [Names -> Seq(Message)]
      /\ number \in Nat /\ EachOnce
    BY DEF LogInv
<1>2. /\ buffers' \in [Writer -> Seq(Message)] /\ buffers'[t] = left
      /\ \A u \in Writer \ {t} : buffers'[u] = buffers[u]
    BY <1>1
<1>3. /\ written' \in [Names -> Seq(Message)] /\ written'[name] = text
      /\ \A other \in Names \ {name} : written'[other] = written[other]
    BY <1>1
<1>4. ASSUME NEW old \in Seq(Message), UpTo(old, number) PROVE UpTo(old, last)
    <2>1. \A i \in DOMAIN old : old[i].n \in Nat
        BY HasNumbers
    <2> QED BY <1>1, <1>4, <2>1 DEF UpTo
<1>5. ASSUME NEW u \in Writer
      PROVE  /\ UpTo(buffers'[u], last) /\ NoTwice(buffers'[u])
             /\ \A v \in Writer : v # u => Apart(buffers'[u], buffers'[v])
    <2>1. CASE u = t
        <3>1. \A v \in Writer : v # t => Apart(left, buffers[v])
            BY ApartBothWays
        <3> QED BY <1>2, <2>1, <3>1
    <2>2. CASE u # t
        <3>1. UpTo(buffers[u], last)
            BY <1>1, <1>4 DEF EachOnce
        <3>2. NoTwice(buffers[u]) /\ \A v \in Writer : v # u => Apart(buffers[u], buffers[v])
            BY <1>1 DEF EachOnce
        <3> QED BY <1>2, <2>2, <3>1, <3>2
    <2> QED BY <2>1, <2>2
<1>6. ASSUME NEW other \in Names
      PROVE  /\ UpTo(written'[other], last) /\ NoTwice(written'[other])
             /\ \A u \in Writer : Apart(buffers'[u], written'[other])
    <2>1. CASE other = name
        BY <1>2, <1>3, <2>1
    <2>2. CASE other # name
        <3>1. UpTo(written[other], last)
            BY <1>1, <1>4 DEF EachOnce
        <3>2. NoTwice(written[other]) /\ \A u \in Writer : Apart(buffers[u], written[other])
            BY <1>1 DEF EachOnce
        <3> QED BY <1>2, <1>3, <2>2, <3>1, <3>2
    <2> QED BY <2>1, <2>2
<1> QED BY <1>2, <1>3, <1>5, <1>6 DEF EachOnce

-----------------------------------------------------------------------------
(* What the steps do to the files.                                         *)

LEMMA LogFacts ==
    ASSUME LogInv
    PROVE  /\ settings \in Settings /\ settings.fileName \in Names
           /\ unflushed \in Seq(Message) /\ number \in Nat
           /\ \A name \in Names :
                /\ disk[name].log \in Seq(Message) /\ disk[name].backups \in Seq(Text)
                /\ written[name] \in Seq(Message) /\ TheLog(name) \in Seq(Message)
                /\ AreTheEnd(disk[name].backups, TheLog(name), written[name])
                /\ name # settings.fileName => TheLog(name) = disk[name].log
           /\ TheLog(settings.fileName) = disk[settings.fileName].log \o unflushed
<1>1. /\ settings \in Settings /\ settings.fileName \in Names
      /\ unflushed \in Seq(Message) /\ number \in Nat
    BY DEF LogInv, Names
<1>2. ASSUME NEW name \in Names
      PROVE  /\ disk[name].log \in Seq(Message) /\ disk[name].backups \in Seq(Text)
             /\ written[name] \in Seq(Message)
             /\ AreTheEnd(disk[name].backups, TheLog(name), written[name])
    BY DEF LogInv
<1>3. ASSUME NEW name \in Names, name # settings.fileName PROVE TheLog(name) = disk[name].log
    <2>1. TheLog(name) = disk[name].log \o <<>>
        BY <1>3 DEF TheLog
    <2> QED BY <1>2, <2>1, ConcatEmptySeq
<1>4. TheLog(settings.fileName) = disk[settings.fileName].log \o unflushed
    BY DEF TheLog
<1>5. TheLog(settings.fileName) \in Seq(Message)
    BY <1>1, <1>2, <1>4, Joined
<1> QED BY <1>1, <1>2, <1>3, <1>4, <1>5

\* An assignment to the log of a file, spelled out.
LEMMA NewLog ==
    ASSUME disk \in [Names -> [log : Seq(Message), backups : Seq(Text)]], NEW name \in Names, NEW log
    PROVE  [disk EXCEPT ![name].log = log]
           = [disk EXCEPT ![name] = [log |-> log, backups |-> disk[name].backups]]
<1>1. [disk[name] EXCEPT !.log = log] = [log |-> log, backups |-> disk[name].backups]
    OBVIOUS
<1> QED BY <1>1

LEMMA SameLog ==
    ASSUME disk \in [Names -> [log : Seq(Message), backups : Seq(Text)]], NEW name \in Names
    PROVE  disk = [disk EXCEPT ![name] = [log |-> disk[name].log, backups |-> disk[name].backups]]
<1>1. disk[name] = [log |-> disk[name].log, backups |-> disk[name].backups]
    OBVIOUS
<1> QED BY <1>1

\* The file of the settings changes, and what is in memory is for the file of the new ones.
LEMMA FileChanges ==
    ASSUME LogInv, NEW s \in Settings, NEW log \in Seq(Message), NEW backups \in Seq(Text),
           NEW memory \in Seq(Message), NEW text \in Seq(Message),
           s.fileName # settings.fileName => memory = <<>>,
           settings' = s, unflushed' = memory,
           disk' = [disk EXCEPT ![settings.fileName] = [log |-> log, backups |-> backups]],
           written' = [written EXCEPT ![settings.fileName] = text]
    PROVE  AreTheEnd(backups, log \o memory, text) =>
           /\ disk' \in [Names -> [log : Seq(Message), backups : Seq(Text)]]
           /\ \A name \in Names : (AreTheEnd(disk[name].backups, TheLog(name), written[name]))'
<1>1. HAVE AreTheEnd(backups, log \o memory, text)
<1> DEFINE here == settings.fileName
           changed == [log |-> log, backups |-> backups]
<1>2. disk \in [Names -> [log : Seq(Message), backups : Seq(Text)]] /\ written \in [Names -> Seq(Message)]
    BY DEF LogInv
<1>3. changed \in [log : Seq(Message), backups : Seq(Text)] /\ changed.log = log /\ changed.backups = backups
    OBVIOUS
<1>4. here \in Names
    BY LogFacts
<1> HIDE DEF changed, here
<1>5. disk' = [disk EXCEPT ![here] = changed] /\ written' = [written EXCEPT ![here] = text]
    BY DEF here, changed
<1>6. /\ disk' \in [Names -> [log : Seq(Message), backups : Seq(Text)]]
      /\ disk'[here] = changed /\ written'[here] = text
    BY <1>2, <1>3, <1>4, <1>5, ZenonT(60)
<1>7. \A name \in Names \ {here} : disk'[name] = disk[name] /\ written'[name] = written[name]
    BY <1>2, <1>5
<1>8. ASSUME NEW name \in Names
      PROVE  AreTheEnd(disk'[name].backups, disk'[name].log \o (IF name = s.fileName THEN memory ELSE <<>>),
                       written'[name])
    <2>1. CASE name = here
        <3>1. memory = IF name = s.fileName THEN memory ELSE <<>>
            BY <2>1 DEF here
        <3> QED BY <1>1, <1>3, <1>6, <2>1, <3>1
    <2>2. CASE name # here
        <3>1. (IF name = s.fileName THEN memory ELSE <<>>) = <<>>
            BY <2>2 DEF here
        <3>2. disk[name].log \in Seq(Message) /\ AreTheEnd(disk[name].backups, disk[name].log, written[name])
            BY <2>2, LogFacts DEF here
        <3>3. disk[name].log \o <<>> = disk[name].log
            BY <3>2, ConcatEmptySeq
        <3> QED BY <1>7, <2>2, <3>1, <3>2, <3>3
    <2> QED BY <2>1, <2>2
<1>9. \A name \in Names :
        TheLog(name)' = disk'[name].log \o (IF name = s.fileName THEN memory ELSE <<>>)
    BY DEF TheLog
<1> QED BY <1>6, <1>8, <1>9

LEMMA FilesStand ==
    ASSUME LogInv, UNCHANGED <<disk, unflushed, written>>, settings'.fileName = settings.fileName
    PROVE  /\ unflushed' \in Seq(Message)
           /\ disk' \in [Names -> [log : Seq(Message), backups : Seq(Text)]]
           /\ \A name \in Names : (AreTheEnd(disk[name].backups, TheLog(name), written[name]))'
<1>1. \A name \in Names : TheLog(name)' = TheLog(name)
    BY DEF TheLog
<1>2. /\ unflushed \in Seq(Message) /\ disk \in [Names -> [log : Seq(Message), backups : Seq(Text)]]
      /\ \A name \in Names : AreTheEnd(disk[name].backups, TheLog(name), written[name])
    BY DEF LogInv
<1> QED BY <1>1, <1>2

LEMMA ThreeTexts ==
    ASSUME NEW r \in Seq(Message), NEW s \in Seq(Message), NEW t \in Seq(Message)
    PROVE  (r \o s) \o t = r \o (s \o t)
BY ConcatAssociative

LEMMA LastCriticalIsPlace ==
    ASSUME NEW messages \in Seq(Message)
    PROVE  LastCritical(messages) \in 0..Len(messages)
<1> DEFINE critical == {i \in DOMAIN messages : messages[i].type >= QtCriticalMsg}
           last == CHOOSE i \in critical : \A j \in critical : j <= i
<1>1. Len(messages) \in Nat /\ DOMAIN messages = 1..Len(messages)
    BY Places
<1>2. critical \subseteq 1..Len(messages) /\ critical \subseteq 0..Len(messages)
    BY <1>1
<1>3. LastCritical(messages) = IF critical = {} THEN 0 ELSE last
    BY DEF LastCritical
<1> HIDE DEF critical
<1>4. critical # {} => \E i \in critical : \A j \in critical : j <= i
    BY <1>1, <1>2, Greatest
<1>5. critical # {} => last \in critical
    BY <1>4
<1> HIDE DEF last
<1>6. CASE critical = {}
    BY <1>1, <1>3, <1>6
<1>7. CASE critical # {}
    BY <1>2, <1>3, <1>5, <1>7
<1> QED BY <1>6, <1>7

\* Whatever is written goes to the end of the log, in memory or on the disk.
LEMMA AllWritten ==
    ASSUME LogInv, NEW out \in Seq(Message), WriteAll(out), settings' = settings
    PROVE  /\ unflushed' \in Seq(Message) /\ (logFile \/ unflushed' = <<>>)
           /\ disk' \in [Names -> [log : Seq(Message), backups : Seq(Text)]]
           /\ \A name \in Names : (AreTheEnd(disk[name].backups, TheLog(name), written[name]))'
           /\ logFile => written' = [written EXCEPT ![settings.fileName] = written[settings.fileName] \o out]
           /\ ~logFile => written' = written
<1>1. CASE ~logFile
    <2>1. UNCHANGED <<disk, unflushed, written>> /\ settings'.fileName = settings.fileName
        BY <1>1 DEF WriteAll
    <2>2. unflushed = <<>>
        BY <1>1 DEF LogInv
    <2> QED BY <1>1, <2>1, <2>2, FilesStand
<1>2. CASE logFile
    <2> DEFINE here == settings.fileName
               n == LastCritical(out)
               log == disk[here].log
               backups == disk[here].backups
               first == SubSeq(out, 1, n)
               rest == SubSeq(out, n + 1, Len(out))
               log2 == IF n = 0 THEN log ELSE (log \o unflushed) \o first
               memory == IF n = 0 THEN unflushed \o out ELSE rest
               text == written[here] \o out
    <2>1. /\ settings \in Settings /\ here \in Names /\ unflushed \in Seq(Message)
          /\ log \in Seq(Message) /\ backups \in Seq(Text) /\ written[here] \in Seq(Message)
          /\ AreTheEnd(backups, log \o unflushed, written[here])
        BY LogFacts
    <2>2. n \in 0..Len(out)
        BY LastCriticalIsPlace
    <2>3. first \in Seq(Message) /\ rest \in Seq(Message) /\ first \o rest = out
        BY <2>2, Beginning, Remainder
    <2>4. /\ written' = [written EXCEPT ![here] = text]
          /\ disk' = IF n = 0 THEN disk
                     ELSE [disk EXCEPT ![here].log = (log \o unflushed) \o first]
          /\ unflushed' = memory
        BY <1>2 DEF WriteAll
    <2>5. disk \in [Names -> [log : Seq(Message), backups : Seq(Text)]]
        BY DEF LogInv
    <2>6. disk' = [disk EXCEPT ![here] = [log |-> log2, backups |-> backups]]
        <3>1. CASE n = 0
            BY <2>1, <2>4, <2>5, <3>1, SameLog
        <3>2. CASE n # 0
            BY <2>1, <2>4, <2>5, <3>2, NewLog
        <3> QED BY <3>1, <3>2
    <2> HIDE DEF n, first, rest, log, backups
    <2>7. log \o unflushed \in Seq(Message) /\ unflushed \o out \in Seq(Message)
          /\ text \in Seq(Message) /\ (log \o unflushed) \o first \in Seq(Message)
        <3>1. log \o unflushed \in Seq(Message)
            BY <2>1, Joined
        <3> QED BY <2>1, <2>3, <3>1, Joined
    <2>8. log2 \in Seq(Message) /\ memory \in Seq(Message)
        BY <2>1, <2>3, <2>7
    <2>9. log2 \o memory = (log \o unflushed) \o out
        <3>1. CASE n = 0
            <4>1. (log \o unflushed) \o out = log \o (unflushed \o out)
                BY <2>1, ThreeTexts
            <4> QED BY <3>1, <4>1
        <3>2. CASE n # 0
            <4> DEFINE all == log \o unflushed
            <4>1. all \in Seq(Message) /\ first \in Seq(Message) /\ rest \in Seq(Message)
                BY <2>3, <2>7
            <4> HIDE DEF all
            <4>2. (all \o first) \o rest = all \o (first \o rest)
                BY <4>1, ThreeTexts
            <4> QED BY <2>3, <3>2, <4>2 DEF all
        <3> QED BY <3>1, <3>2
    <2>10. AreTheEnd(backups, (log \o unflushed) \o out, text)
        BY <2>1, <2>7, MoreIsWritten
    <2> HIDE DEF log2, memory, text
    <2>11. AreTheEnd(backups, log2 \o memory, text)
        BY <2>9, <2>10
    <2>12. /\ disk' \in [Names -> [log : Seq(Message), backups : Seq(Text)]]
           /\ \A name \in Names : (AreTheEnd(disk[name].backups, TheLog(name), written[name]))'
        <3>1. settings.fileName # settings.fileName => memory = <<>>
            OBVIOUS
        <3> QED BY <2>1, <2>4, <2>6, <2>7, <2>8, <2>11, <3>1, FileChanges DEF text
    <2> QED BY <1>2, <2>4, <2>8, <2>12 DEF text
<1> QED BY <1>1, <1>2

\* What is in memory is the end of what was written.
LEMMA InMemory ==
    ASSUME LogInv
    PROVE  LET old == written[settings.fileName]
               d == Len(old) - Len(unflushed)
           IN  /\ d \in 0..Len(old) /\ NoTwice(unflushed)
               /\ \A last : UpTo(old, last) => UpTo(unflushed, last)
               /\ \A other : Apart(other, old) => Apart(other, unflushed)
               /\ Apart(SubSeq(old, 1, d), unflushed)
<1> DEFINE here == settings.fileName
           old == written[here]
           d == Len(old) - Len(unflushed)
           log == disk[here].log
           all == log \o unflushed
           first == SubSeq(old, 1, d)
<1>1. /\ here \in Names /\ unflushed \in Seq(Message) /\ log \in Seq(Message) /\ old \in Seq(Message)
      /\ disk[here].backups \in Seq(Text) /\ AreTheEnd(disk[here].backups, all, old)
    BY LogFacts
<1>2. NoTwice(old)
    BY <1>1 DEF LogInv, EachOnce
<1>3. /\ all \in Seq(Message) /\ Len(all) = Len(log) + Len(unflushed)
      /\ \A i \in 1..Len(unflushed) : all[Len(log) + i] = unflushed[i]
    BY <1>1, Joined
<1>4. Len(old) \in Nat /\ Len(unflushed) \in Nat /\ Len(log) \in Nat
    BY <1>1, Places
<1> DEFINE backups == disk[here].backups
<1> HIDE DEF all, old, log, backups
<1>5. PICK start, cut :
        /\ start \in Nat /\ cut \in [0..Len(backups) -> Nat]
        /\ cut[0] = start /\ \A i \in 0..Len(backups) : cut[i] <= start
        /\ start + Len(all) = Len(old)
        /\ \A k \in 1..Len(all) : all[k] = old[start + k]
        /\ \A i \in 1..Len(backups) : Stands(backups[i], old, cut[i])
                                    /\ cut[i] + Len(backups[i]) = cut[i - 1]
    <2>1. backups \in Seq(Text) /\ all \in Seq(Message) /\ old \in Seq(Message)
        BY <1>1, <1>3 DEF backups
    <2>2. AreTheEnd(backups, all, old)
        BY <1>1 DEF backups
    <2> QED BY <2>1, <2>2, PlacesInText
<1>6. start \in Nat /\ start + (Len(log) + Len(unflushed)) = Len(old)
    BY <1>3, <1>5
<1>7. d \in 0..Len(old) /\ d = start + Len(log)
    BY <1>4, <1>6
<1> HIDE DEF d
<1>8. ASSUME NEW i \in 1..Len(unflushed)
      PROVE  d + i \in 1..Len(old) /\ unflushed[i] = old[d + i]
    <2>1. /\ Len(log) + i \in 1..(Len(log) + Len(unflushed)) /\ start + (Len(log) + i) = d + i
          /\ d + i \in 1..Len(old)
        BY <1>4, <1>6, <1>7
    <2>2. all[Len(log) + i] = old[start + (Len(log) + i)]
        BY <1>3, <1>5, <2>1
    <2> QED BY <1>3, <2>1, <2>2
<1>9. /\ NoTwice(unflushed)
      /\ \A last : UpTo(old, last) => UpTo(unflushed, last)
      /\ \A other : Apart(other, old) => Apart(other, unflushed)
    <2>1. d \in Nat
        BY <1>4, <1>7
    <2> QED BY <1>1, <1>2, <1>8, <2>1, PartOfText
<1>10. Apart(first, unflushed)
    <2>1. DOMAIN first = 1..d /\ \A i \in 1..d : first[i] = old[i]
        BY <1>1, <1>7, Beginning
    <2>2. DOMAIN unflushed = 1..Len(unflushed) /\ DOMAIN old = 1..Len(old)
        BY <1>1, Places
    <2>3. ASSUME NEW i \in 1..d, NEW j \in 1..Len(unflushed), old[i].n = old[d + j].n PROVE FALSE
        <3>1. i \in 1..Len(old) /\ d + j \in 1..Len(old) /\ i # d + j
            BY <1>4, <1>7, <1>8
        <3> QED BY <1>2, <2>2, <2>3, <3>1 DEF NoTwice
    <2> HIDE DEF first
    <2> QED BY <1>8, <2>1, <2>2, <2>3 DEF Apart
<1> QED BY <1>7, <1>9, <1>10 DEF d, old, first

\* The message a thread logs is apart from what the others have and what was written.
LEMMA LogsApart ==
    ASSUME LogInv, NEW t \in Writer, NEW type \in MessageTypes
    PROVE  LET message == [n |-> number + 1, type |-> type]
               out == Out(t, message)
               left == Left(t, message)
           IN  /\ \A u \in Writer \ {t} : Apart(buffers[u], left) /\ Apart(buffers[u], out)
               /\ \A name \in Names : Apart(left, written[name]) /\ Apart(written[name], out)
<1> DEFINE message == [n |-> number + 1, type |-> type]
           out == Out(t, message)
           left == Left(t, message)
<1>1. \A text \in Seq(Message) : UpTo(text, number) /\ Apart(text, buffers[t]) =>
        Apart(text, out) /\ Apart(text, left)
    BY LogsOnce
<1> HIDE DEF out, left
<1>2. ASSUME NEW u \in Writer \ {t} PROVE Apart(buffers[u], left) /\ Apart(buffers[u], out)
    <2>1. buffers[u] \in Seq(Message) /\ UpTo(buffers[u], number) /\ Apart(buffers[u], buffers[t])
        BY DEF LogInv, EachOnce
    <2> QED BY <1>1, <2>1
<1>3. ASSUME NEW name \in Names PROVE Apart(left, written[name]) /\ Apart(written[name], out)
    <2>1. written[name] \in Seq(Message) /\ UpTo(written[name], number) /\ Apart(buffers[t], written[name])
        BY DEF LogInv, EachOnce
    <2>2. Apart(written[name], buffers[t])
        BY <2>1, ApartBothWays
    <2>3. Apart(written[name], left) /\ Apart(written[name], out)
        BY <1>1, <2>1, <2>2
    <2> QED BY <2>3, ApartBothWays
<1> QED BY <1>2, <1>3 DEF out, left

-----------------------------------------------------------------------------
(* The steps.                                                              *)

LEMMA LogKeeps ==
    ASSUME LogInv, NEW t \in Writer, NEW type \in MessageTypes, NEW direct, Log(t, type, direct)
    PROVE  LogInv'
<1> DEFINE message == [n |-> number + 1, type |-> type]
           out == Out(t, message)
           left == Left(t, message)
           here == settings.fileName
           old == written[here]
<1>1. /\ out \in Seq(Message) /\ NoTwice(out) /\ UpTo(out, number + 1)
      /\ left \in Seq(Message) /\ NoTwice(left) /\ UpTo(left, number + 1)
      /\ type >= settings.minLevel => Apart(left, out)
    BY LogsOnce
<1>2. /\ \A u \in Writer \ {t} : Apart(buffers[u], left) /\ Apart(buffers[u], out)
      /\ \A name \in Names : Apart(left, written[name]) /\ Apart(written[name], out)
    BY LogsApart
<1>3. /\ here \in Names /\ old \in Seq(Message) /\ settings \in Settings /\ number \in Nat
    BY LogFacts
<1>4. /\ UpTo(old, number) /\ NoTwice(old) /\ \A u \in Writer : Apart(buffers[u], old)
      /\ written \in [Names -> Seq(Message)] /\ (logFile \/ unflushed = <<>>)
    BY <1>3 DEF LogInv, EachOnce
<1>5. /\ number' = number + 1 /\ buffers' = [buffers EXCEPT ![t] = left]
      /\ settings' = settings /\ logFile' = logFile
      /\ IF type >= settings.minLevel THEN WriteAll(out) ELSE UNCHANGED <<disk, unflushed, written>>
    BY DEF Log
<1> HIDE DEF out, left, message
<1>6. number + 1 \in Nat /\ number + 1 >= number /\ UpTo(old, number + 1)
    BY <1>3, <1>4, UpToMore
<1>7. CASE type >= settings.minLevel /\ logFile
    <2> DEFINE text == old \o out
    <2>1. /\ unflushed' \in Seq(Message)
          /\ disk' \in [Names -> [log : Seq(Message), backups : Seq(Text)]]
          /\ \A name \in Names : (AreTheEnd(disk[name].backups, TheLog(name), written[name]))'
          /\ written' = [written EXCEPT ![here] = text]
        BY <1>1, <1>5, <1>7, AllWritten
    <2>2. /\ text \in Seq(Message) /\ NoTwice(text) /\ UpTo(text, number + 1)
          /\ \A other : Apart(other, old) /\ Apart(other, out) => Apart(other, text)
        BY <1>1, <1>2, <1>3, <1>4, <1>6, TwoTexts
    <2>3. Apart(left, text) /\ \A u \in Writer \ {t} : Apart(buffers[u], left) /\ Apart(buffers[u], text)
        BY <1>1, <1>2, <1>3, <1>4, <1>7, <2>2
    <2>4. \A other \in Names \ {here} : Apart(left, written[other])
        BY <1>2
    <2> HIDE DEF text, here
    <2>5. EachOnce' /\ number' \in Nat /\ buffers' \in [Writer -> Seq(Message)]
                    /\ written' \in [Names -> Seq(Message)]
        BY <1>1, <1>3, <1>5, <1>6, <2>1, <2>2, <2>3, <2>4, StillOnce
    <2> QED BY <1>3, <1>5, <1>7, <2>1, <2>5 DEF LogInv
<1>8. CASE ~(type >= settings.minLevel /\ logFile)
    <2>1. /\ unflushed' \in Seq(Message) /\ (logFile \/ unflushed' = <<>>) /\ written' = written
          /\ disk' \in [Names -> [log : Seq(Message), backups : Seq(Text)]]
          /\ \A name \in Names : (AreTheEnd(disk[name].backups, TheLog(name), written[name]))'
        <3>1. CASE type >= settings.minLevel
            BY <1>1, <1>5, <1>8, <3>1, AllWritten
        <3>2. CASE ~(type >= settings.minLevel)
            BY <1>4, <1>5, <3>2, FilesStand
        <3> QED BY <3>1, <3>2
    <2>2. written' = [written EXCEPT ![here] = old]
        BY <1>3, <1>4, <2>1
    <2>3. Apart(left, old) /\ \A u \in Writer \ {t} : Apart(buffers[u], left) /\ Apart(buffers[u], old)
        BY <1>2, <1>3, <1>4
    <2>4. \A other \in Names \ {here} : Apart(left, written[other])
        BY <1>2
    <2> HIDE DEF old, here
    <2>5. EachOnce' /\ number' \in Nat /\ buffers' \in [Writer -> Seq(Message)]
                    /\ written' \in [Names -> Seq(Message)]
        BY <1>1, <1>3, <1>4, <1>5, <1>6, <2>2, <2>3, <2>4, StillOnce
    <2> QED BY <1>3, <1>5, <2>1, <2>5 DEF LogInv
<1> QED BY <1>7, <1>8

LEMMA FirstOfTwo ==
    ASSUME NEW s \in Seq(Message), NEW t \in Seq(Message), NEW k \in 0..Len(t)
    PROVE  /\ Len(s) + k \in 0..Len(s \o t)
           /\ SubSeq(s \o t, 1, Len(s) + k) = s \o SubSeq(t, 1, k)
<1> DEFINE both == s \o t
           l == Len(s) + k
           first == SubSeq(t, 1, k)
           left == SubSeq(both, 1, l)
           right == s \o first
<1>1. /\ both \in Seq(Message) /\ Len(both) = Len(s) + Len(t)
      /\ \A i \in 1..Len(s) : both[i] = s[i]
      /\ \A i \in 1..Len(t) : both[Len(s) + i] = t[i]
    BY Joined
<1>2. first \in Seq(Message) /\ Len(first) = k /\ \A i \in 1..k : first[i] = t[i]
    BY Beginning
<1>3. Len(s) \in Nat /\ Len(t) \in Nat
    BY Places
<1> HIDE DEF both, first
<1>4. l \in 0..Len(both)
    BY <1>1, <1>3
<1>5. left \in Seq(Message) /\ Len(left) = l /\ \A i \in 1..l : left[i] = both[i]
    BY <1>1, <1>4, Beginning
<1>6. /\ right \in Seq(Message) /\ Len(right) = Len(s) + Len(first)
      /\ \A i \in 1..Len(s) : right[i] = s[i]
      /\ \A i \in 1..Len(first) : right[Len(s) + i] = first[i]
    <2>1. first \in Seq(Message)
        BY <1>2
    <2> QED BY <2>1, Joined
<1> HIDE DEF left, right
<1>7. ASSUME NEW i \in 1..l PROVE left[i] = right[i]
    <2>1. CASE i \in 1..Len(s)
        BY <1>1, <1>5, <1>6, <2>1
    <2>2. CASE i \notin 1..Len(s)
        <3> DEFINE j == i - Len(s)
        <3>1. j \in 1..k /\ j \in 1..Len(t) /\ i = Len(s) + j
            BY <1>3, <2>2
        <3> HIDE DEF j
        <3>2. right[Len(s) + j] = first[j] /\ both[Len(s) + j] = t[j] /\ first[j] = t[j]
            BY <1>1, <1>2, <1>6, <3>1
        <3> QED BY <1>5, <3>1, <3>2
    <2> QED BY <2>1, <2>2
<1>8. Len(left) = l /\ Len(right) = l
    BY <1>2, <1>5, <1>6
<1>9. left = right
    BY <1>5, <1>6, <1>7, <1>8, SeqEqual
<1> QED BY <1>4, <1>9 DEF left, right, both, first

LEMMA NothingLogged ==
    ASSUME LogInv, UNCHANGED <<buffers, number, written>>
    PROVE  EachOnce' /\ number' \in Nat /\ buffers' \in [Writer -> Seq(Message)]
                     /\ written' \in [Names -> Seq(Message)]
BY DEF LogInv, EachOnce

LEMMA NothingYet ==
    LET none == <<>> IN none \in Seq(Message) /\ none \in Seq(Text) /\ AreTheEnd(none, none, none)
<1> DEFINE none == <<>>
           cut == [i \in 0..0 |-> 0]
<1>1. none \in Seq(Message) /\ none \in Seq(Text) /\ Len(none) = 0
    OBVIOUS
<1>2. cut \in [0..0 -> Nat] /\ cut[0] = 0 /\ \A i \in 0..0 : cut[i] <= 0
    OBVIOUS
<1> HIDE DEF none, cut
<1>3. 0 \in Nat /\ 0 + Len(none) = Len(none) /\ cut \in [0..Len(none) -> Nat]
      /\ \A i \in 0..Len(none) : cut[i] <= 0
    BY <1>1, <1>2
<1>4. \A i \in 1..Len(none) : FALSE
    BY <1>1
<1>5. AreTheEnd(none, none, none)
    BY <1>1, <1>2, <1>3, <1>4, TheyAreTheEnd
<1> QED BY <1>1, <1>5 DEF none

LEMMA LogFailsKeeps ==
    ASSUME LogInv, NEW t \in Writer, NEW type \in MessageTypes, NEW direct \in BOOLEAN,
           NEW reached \in Nat, LogFails(t, type, direct, reached)
    PROVE  LogInv'
<1> DEFINE message == [n |-> number + 1, type |-> type]
           out == Out(t, message)
           left == Left(t, message)
           here == settings.fileName
           old == written[here]
           log == disk[here].log
           backups == disk[here].backups
           d == Len(old) - Len(unflushed)
           first == SubSeq(old, 1, d)
           lost == unflushed \o out
           part == SubSeq(lost, 1, reached)
           text == first \o part
<1>1. /\ out \in Seq(Message) /\ NoTwice(out) /\ UpTo(out, number + 1)
      /\ left \in Seq(Message) /\ NoTwice(left) /\ UpTo(left, number + 1)
      /\ type >= settings.minLevel => Apart(left, out)
    BY LogsOnce
<1>2. /\ \A u \in Writer \ {t} : Apart(buffers[u], left) /\ Apart(buffers[u], out)
      /\ \A name \in Names : Apart(left, written[name]) /\ Apart(written[name], out)
    BY LogsApart
<1>3. /\ here \in Names /\ old \in Seq(Message) /\ settings \in Settings /\ number \in Nat
      /\ log \in Seq(Message) /\ backups \in Seq(Text) /\ unflushed \in Seq(Message)
      /\ AreTheEnd(backups, log \o unflushed, old)
    BY LogFacts
<1>4. /\ UpTo(old, number) /\ NoTwice(old) /\ \A u \in Writer : Apart(buffers[u], old)
    BY <1>3 DEF LogInv, EachOnce
<1>5. /\ d \in 0..Len(old) /\ NoTwice(unflushed)
      /\ \A last : UpTo(old, last) => UpTo(unflushed, last)
      /\ \A other : Apart(other, old) => Apart(other, unflushed)
      /\ Apart(first, unflushed)
    BY InMemory
<1>6. /\ number' = number + 1 /\ buffers' = [buffers EXCEPT ![t] = left]
      /\ settings' = settings /\ unflushed' = <<>> /\ type >= settings.minLevel
      /\ reached < Len(lost)
      /\ disk' = [disk EXCEPT ![here].log = log \o part]
      /\ written' = [written EXCEPT ![here] = text]
    BY DEF LogFails
<1> HIDE DEF out, left, message, here, old, log, backups
<1>7. number + 1 \in Nat /\ number + 1 >= number /\ UpTo(old, number + 1)
    BY <1>3, <1>4, UpToMore
<1>8. lost \in Seq(Message) /\ reached \in 0..Len(lost)
    <2>1. lost \in Seq(Message)
        BY <1>1, <1>3, Joined
    <2>2. Len(lost) \in Nat
        BY <2>1, Places
    <2> QED BY <1>6, <2>1, <2>2
<1>9. Apart(unflushed, out) /\ Apart(old, out)
    <2>1. Apart(old, out)
        BY <1>2, <1>3 DEF old
    <2> QED BY <1>5, <2>1, ApartBothWays
<1>10. /\ NoTwice(lost) /\ UpTo(lost, number + 1)
       /\ \A other : Apart(other, unflushed) /\ Apart(other, out) => Apart(other, lost)
    BY <1>1, <1>3, <1>5, <1>7, <1>9, TwoTexts
<1>11. /\ first \in Seq(Message) /\ NoTwice(first) /\ UpTo(first, number + 1)
       /\ \A other : /\ Apart(other, old) => Apart(other, first)
                     /\ Apart(old, other) => Apart(first, other)
    BY <1>3, <1>4, <1>5, <1>7, FirstMessages
<1> HIDE DEF lost, first, d
<1>12. /\ part \in Seq(Message) /\ NoTwice(part) /\ UpTo(part, number + 1)
       /\ \A other : Apart(other, lost) => Apart(other, part)
    BY <1>8, <1>10, FirstMessages
<1> HIDE DEF part
<1>13. Apart(first, part)
    BY <1>5, <1>9, <1>10, <1>11, <1>12
<1>14. /\ text \in Seq(Message) /\ NoTwice(text) /\ UpTo(text, number + 1)
       /\ \A other : Apart(other, first) /\ Apart(other, part) => Apart(other, text)
    BY <1>11, <1>12, <1>13, TwoTexts
<1>15. ASSUME NEW other, Apart(other, old), Apart(other, out) PROVE Apart(other, text)
    BY <1>5, <1>10, <1>11, <1>12, <1>14, <1>15
<1>16. Apart(left, text) /\ \A u \in Writer \ {t} : Apart(buffers[u], left) /\ Apart(buffers[u], text)
    <2>1. Apart(left, old)
        BY <1>2, <1>3 DEF old
    <2> QED BY <1>1, <1>2, <1>4, <1>6, <1>15, <2>1
<1>17. AreTheEnd(backups, log \o part, text)
    <2> DEFINE all == log \o unflushed
    <2>1. all \in Seq(Message) /\ Len(all) = Len(log) + Len(unflushed)
        BY <1>3, Joined
    <2>2. Len(log) \in Nat /\ Len(unflushed) \in Nat /\ Len(old) \in Nat
        BY <1>3, Places
    <2>3. Len(log) \in 0..Len(all) /\ SubSeq(all, 1, Len(log)) = log
        <3>1. 0 \in 0..Len(unflushed) /\ Len(log) + 0 = Len(log)
            BY <2>2
        <3>2. SubSeq(unflushed, 1, 0) = <<>> /\ log \o <<>> = log
            BY <1>3, SubSeqEmpty, ConcatEmptySeq
        <3>3. Len(log) + 0 \in 0..Len(all) /\ SubSeq(all, 1, Len(log) + 0) = log \o SubSeq(unflushed, 1, 0)
            BY <1>3, <3>1, FirstOfTwo
        <3> QED BY <3>1, <3>2, <3>3
    <2> HIDE DEF all
    <2>4. AreTheEnd(backups, SubSeq(all, 1, Len(log)), SubSeq(old, 1, Len(old) - Len(all) + Len(log)))
        BY <1>3, <2>1, <2>3, EndIsLost DEF all
    <2>5. Len(old) - Len(all) + Len(log) = d
        BY <2>1, <2>2 DEF d
    <2>6. AreTheEnd(backups, log, first)
        BY <2>3, <2>4, <2>5 DEF first
    <2> QED BY <1>3, <1>11, <1>12, <2>6, MoreIsWritten
<1> HIDE DEF text
<1>18. EachOnce' /\ number' \in Nat /\ buffers' \in [Writer -> Seq(Message)]
                 /\ written' \in [Names -> Seq(Message)]
    <2>1. \A other \in Names \ {here} : Apart(left, written[other])
        BY <1>2
    <2> QED BY <1>1, <1>3, <1>6, <1>7, <1>14, <1>16, <2>1, StillOnce
<1>19. /\ disk' \in [Names -> [log : Seq(Message), backups : Seq(Text)]]
       /\ \A name \in Names : (AreTheEnd(disk[name].backups, TheLog(name), written[name]))'
    <2> DEFINE log2 == log \o part
               none == <<>>
    <2>1. log2 \in Seq(Message) /\ log2 \o none = log2 /\ none \in Seq(Message)
        BY <1>3, <1>12, Joined, ConcatEmptySeq
    <2>2. disk \in [Names -> [log : Seq(Message), backups : Seq(Text)]]
        BY DEF LogInv
    <2>3. disk' = [disk EXCEPT ![here] = [log |-> log2, backups |-> backups]]
        BY <1>3, <1>6, <2>2, NewLog DEF backups
    <2>4. AreTheEnd(backups, log2 \o none, text) /\ unflushed' = none
        BY <1>6, <1>17, <2>1
    <2> HIDE DEF log2, none
    <2>5. settings.fileName # settings.fileName => none = <<>>
        OBVIOUS
    <2> QED BY <1>3, <1>6, <1>14, <2>1, <2>3, <2>4, <2>5, FileChanges DEF here
<1> QED BY <1>3, <1>6, <1>18, <1>19, SMTT(20) DEF LogInv

LEMMA ClearKeeps ==
    ASSUME LogInv, NEW t \in Writer, ClearBuffer(t)
    PROVE  LogInv'
<1> DEFINE none == <<>>
           here == settings.fileName
           text == written[here]
<1>1. /\ none \in Seq(Message) /\ NoTwice(none) /\ UpTo(none, number)
      /\ \A other : Apart(none, other) /\ Apart(other, none)
    BY EmptyText
<1>2. /\ buffers' = [buffers EXCEPT ![t] = none]
      /\ UNCHANGED <<settings, logFile, unflushed, disk, number, written>>
    BY DEF ClearBuffer
<1> HIDE DEF none
<1>3. /\ here \in Names /\ settings \in Settings /\ number \in Nat /\ text \in Seq(Message)
    BY LogFacts
<1>4. /\ UpTo(text, number) /\ NoTwice(text) /\ \A u \in Writer : Apart(buffers[u], text)
      /\ written \in [Names -> Seq(Message)] /\ (logFile \/ unflushed = <<>>)
    BY <1>3 DEF LogInv, EachOnce
<1>5. written' = [written EXCEPT ![here] = text] /\ number' = number /\ number >= number
    BY <1>2, <1>3, <1>4
<1> HIDE DEF text, here
<1>6. EachOnce' /\ number' \in Nat /\ buffers' \in [Writer -> Seq(Message)]
                /\ written' \in [Names -> Seq(Message)]
    BY <1>1, <1>2, <1>3, <1>4, <1>5, StillOnce
<1>7. /\ unflushed' \in Seq(Message) /\ disk' \in [Names -> [log : Seq(Message), backups : Seq(Text)]]
      /\ \A name \in Names : (AreTheEnd(disk[name].backups, TheLog(name), written[name]))'
    BY <1>2, FilesStand
<1> QED BY <1>2, <1>3, <1>4, <1>6, <1>7 DEF LogInv

\* The file is flushed, and nothing else happens to it.
LEMMA FlushKeeps ==
    ASSUME LogInv, NEW s \in Settings, settings' = s, unflushed' = <<>>,
           disk' = [disk EXCEPT ![settings.fileName].log = disk[settings.fileName].log \o unflushed],
           UNCHANGED <<buffers, number, written>>
    PROVE  LogInv'
<1> DEFINE here == settings.fileName
           log == disk[here].log
           backups == disk[here].backups
           all == log \o unflushed
           none == <<>>
           text == written[here]
<1>1. /\ here \in Names /\ text \in Seq(Message) /\ log \in Seq(Message) /\ backups \in Seq(Text)
      /\ unflushed \in Seq(Message) /\ AreTheEnd(backups, all, text)
    BY LogFacts
<1>2. disk \in [Names -> [log : Seq(Message), backups : Seq(Text)]] /\ written \in [Names -> Seq(Message)]
    BY DEF LogInv
<1>3. all \in Seq(Message)
    BY <1>1, Joined
<1>4. none \in Seq(Message) /\ all \o none = all
    BY <1>3, ConcatEmptySeq
<1>5. disk' = [disk EXCEPT ![here] = [log |-> all, backups |-> backups]]
    BY <1>1, <1>2, NewLog
<1>6. written' = [written EXCEPT ![here] = text]
    BY <1>1, <1>2
<1>7. AreTheEnd(backups, all \o none, text) /\ unflushed' = none
    BY <1>1, <1>4
<1>8. s.fileName # settings.fileName => none = <<>>
    OBVIOUS
<1> HIDE DEF all, none, text, log, backups
<1>9. /\ disk' \in [Names -> [log : Seq(Message), backups : Seq(Text)]]
      /\ \A name \in Names : (AreTheEnd(disk[name].backups, TheLog(name), written[name]))'
    BY <1>1, <1>3, <1>4, <1>5, <1>6, <1>7, <1>8, FileChanges
<1>10. EachOnce' /\ number' \in Nat /\ buffers' \in [Writer -> Seq(Message)]
                 /\ written' \in [Names -> Seq(Message)]
    BY NothingLogged
<1>11. unflushed' = <<>> /\ unflushed' \in Seq(Message)
    BY <1>4, <1>7
<1> QED BY <1>9, <1>10, <1>11 DEF LogInv

LEMMA RefreshKeeps ==
    ASSUME LogInv, NEW s \in Settings, NEW ok, RefreshSettings(s, ok)
    PROVE  LogInv'
<1>1. settings' = s /\ UNCHANGED <<buffers, number, written>>
    BY DEF RefreshSettings
<1>2. CASE s.fileName = settings.fileName
    <2>1. UNCHANGED <<logFile, unflushed, disk>>
        BY <1>2 DEF RefreshSettings
    <2>2. /\ unflushed' \in Seq(Message) /\ disk' \in [Names -> [log : Seq(Message), backups : Seq(Text)]]
          /\ \A name \in Names : (AreTheEnd(disk[name].backups, TheLog(name), written[name]))'
        BY <1>1, <1>2, <2>1, FilesStand
    <2>3. EachOnce' /\ number' \in Nat /\ buffers' \in [Writer -> Seq(Message)]
                    /\ written' \in [Names -> Seq(Message)]
        BY <1>1, NothingLogged
    <2>4. logFile \/ unflushed = <<>>
        BY DEF LogInv
    <2> QED BY <1>1, <2>1, <2>2, <2>3, <2>4 DEF LogInv
<1>3. CASE s.fileName # settings.fileName
    <2> DEFINE here == settings.fileName
               log == disk[here].log
    <2>1. unflushed' = <<>> /\ disk' = IF logFile THEN Flushed(disk, here) ELSE disk
        BY <1>3 DEF RefreshSettings
    <2>2. disk' = [disk EXCEPT ![here].log = log \o unflushed]
        <3>1. CASE logFile
            BY <2>1, <3>1 DEF Flushed
        <3>2. CASE ~logFile
            <4>1. unflushed = <<>> /\ disk \in [Names -> [log : Seq(Message), backups : Seq(Text)]]
                BY <3>2 DEF LogInv
            <4>2. here \in Names /\ log \in Seq(Message)
                BY LogFacts
            <4>3. log \o unflushed = log
                BY <4>1, <4>2, ConcatEmptySeq
            <4>4. disk = [disk EXCEPT ![here].log = log]
                BY <4>1, <4>2, SameLog, NewLog
            <4> QED BY <2>1, <3>2, <4>3, <4>4
        <3> QED BY <3>1, <3>2
    <2> QED BY <1>1, <2>1, <2>2, FlushKeeps
<1> QED BY <1>2, <1>3

LEMMA TimerKeeps ==
    ASSUME LogInv, TimerEvent
    PROVE  LogInv'
<1>1. UNCHANGED <<settings, buffers, logFile, unflushed, disk, number, written>>
    BY DEF TimerEvent
<1>2. /\ unflushed' \in Seq(Message) /\ disk' \in [Names -> [log : Seq(Message), backups : Seq(Text)]]
      /\ \A name \in Names : (AreTheEnd(disk[name].backups, TheLog(name), written[name]))'
    BY <1>1, FilesStand
<1>3. EachOnce' /\ number' \in Nat /\ buffers' \in [Writer -> Seq(Message)]
                /\ written' \in [Names -> Seq(Message)]
    BY <1>1, NothingLogged
<1>4. settings \in Settings /\ (logFile \/ unflushed = <<>>)
    BY DEF LogInv
<1> QED BY <1>1, <1>2, <1>3, <1>4 DEF LogInv

\* What is kept of the backups is the newest of them.
LEMMA NewestAreKept ==
    ASSUME NEW backups \in Seq(Text), settings \in Settings
    PROVE  \E k \in 0..Len(backups) : Kept(backups) = SubSeq(backups, 1, k)
<1>1. Len(backups) \in Nat /\ settings.maxBackups \in Nat
    BY Places, LoggerAssumption
<1>2. CASE settings.maxBackups > 0 /\ Len(backups) >= settings.maxBackups
    <2>1. Kept(backups) = SubSeq(backups, 1, settings.maxBackups - 1)
        BY <1>2 DEF Kept
    <2>2. settings.maxBackups - 1 \in 0..Len(backups)
        BY <1>1, <1>2
    <2> QED BY <2>1, <2>2
<1>3. CASE ~(settings.maxBackups > 0 /\ Len(backups) >= settings.maxBackups)
    <2>1. Kept(backups) = backups
        BY <1>3 DEF Kept
    <2>2. SubSeq(backups, 1, Len(backups)) = backups /\ Len(backups) \in 0..Len(backups)
        BY <1>1, SubSeqFull
    <2> QED BY <2>1, <2>2
<1> QED BY <1>2, <1>3

LEMMA RotationKeeps ==
    ASSUME LogInv, NEW ok, FlushAndRotate(ok)
    PROVE  LogInv'
<1> DEFINE here == settings.fileName
           log == disk[here].log
           backups == disk[here].backups
           all == log \o unflushed
           none == <<>>
           text == written[here]
           flushed == Flushed(disk, here)
<1>1. /\ here \in Names /\ text \in Seq(Message) /\ log \in Seq(Message) /\ backups \in Seq(Text)
      /\ unflushed \in Seq(Message) /\ AreTheEnd(backups, all, text) /\ settings \in Settings
    BY LogFacts
<1>2. disk \in [Names -> [log : Seq(Message), backups : Seq(Text)]] /\ written \in [Names -> Seq(Message)]
      /\ (logFile \/ unflushed = <<>>)
    BY DEF LogInv
<1>3. settings' = settings /\ UNCHANGED <<buffers, number, written>>
    BY DEF FlushAndRotate
<1>4. CASE ~logFile
    <2>1. UNCHANGED <<logFile, disk, unflushed>>
        BY <1>4 DEF FlushAndRotate
    <2>2. /\ unflushed' \in Seq(Message) /\ disk' \in [Names -> [log : Seq(Message), backups : Seq(Text)]]
          /\ \A name \in Names : (AreTheEnd(disk[name].backups, TheLog(name), written[name]))'
        BY <1>3, <2>1, FilesStand
    <2>3. EachOnce' /\ number' \in Nat /\ buffers' \in [Writer -> Seq(Message)]
                    /\ written' \in [Names -> Seq(Message)]
        BY <1>3, NothingLogged
    <2> QED BY <1>1, <1>2, <1>3, <2>1, <2>2, <2>3 DEF LogInv
<1>5. CASE logFile /\ ~FileTooLarge(flushed)
    <2>1. disk' = [disk EXCEPT ![here].log = log \o unflushed] /\ unflushed' = <<>>
        BY <1>5 DEF FlushAndRotate, Flushed
    <2> QED BY <1>1, <1>3, <2>1, FlushKeeps
<1>6. CASE logFile /\ FileTooLarge(flushed)
    <2> DEFINE kept == <<all>> \o Kept(backups)
    <2>1. disk' = Rotated(flushed, here) /\ unflushed' = none
        BY <1>6 DEF FlushAndRotate
    <2>2. all \in Seq(Message) /\ none \in Seq(Message) /\ none \o none = none
        BY <1>1, Joined, ConcatEmptySeq
    <2>3. flushed = [disk EXCEPT ![here] = [log |-> all, backups |-> backups]]
        BY <1>1, <1>2, NewLog DEF Flushed
    <2>4. disk' = [disk EXCEPT ![here] = [log |-> none, backups |-> kept]]
        <3>1. flushed \in [Names -> [log : Seq(Message), backups : Seq(Text)]]
              /\ flushed[here].log = all /\ flushed[here].backups = backups
            BY <1>1, <1>2, <2>2, <2>3
        <3>2. disk' = [flushed EXCEPT ![here] =
                        [log |-> <<>>, backups |-> <<flushed[here].log>> \o Kept(flushed[here].backups)]]
            BY <2>1 DEF Rotated
        <3> HIDE DEF flushed
        <3> QED BY <1>1, <1>2, <2>3, <3>1, <3>2
    <2> HIDE DEF all, flushed, log, backups
    <2>5. PICK k \in 0..Len(backups) : Kept(backups) = SubSeq(backups, 1, k)
        BY <1>1, NewestAreKept
    <2>6. kept \in Seq(Text) /\ AreTheEnd(kept, none, text)
        <3>1. /\ <<all>> \o SubSeq(backups, 1, k) \in Seq(Text)
              /\ AreTheEnd(<<all>> \o SubSeq(backups, 1, k), <<>>, text)
            BY <1>1, <2>2, LogIsRotated
        <3> QED BY <2>5, <3>1
    <2>7. written' = [written EXCEPT ![here] = text]
        BY <1>1, <1>2, <1>3
    <2>8. AreTheEnd(kept, none \o none, text)
        BY <2>2, <2>6
    <2>9. settings.fileName # settings.fileName => none = <<>>
        OBVIOUS
    <2> HIDE DEF kept, none, text
    <2>10. /\ disk' \in [Names -> [log : Seq(Message), backups : Seq(Text)]]
           /\ \A name \in Names : (AreTheEnd(disk[name].backups, TheLog(name), written[name]))'
        BY <1>1, <1>3, <2>1, <2>2, <2>4, <2>6, <2>7, <2>8, <2>9, FileChanges
    <2>11. EachOnce' /\ number' \in Nat /\ buffers' \in [Writer -> Seq(Message)]
                     /\ written' \in [Names -> Seq(Message)]
        BY <1>3, NothingLogged
    <2> QED BY <1>1, <1>3, <2>1, <2>2, <2>10, <2>11 DEF LogInv, none
<1> QED BY <1>4, <1>5, <1>6

LEMMA CrashKeeps ==
    ASSUME LogInv, NEW kept \in 0..Len(unflushed), NEW s \in Settings, NEW ok, Crash(kept, s, ok)
    PROVE  LogInv'
<1> DEFINE here == settings.fileName
           old == written[here]
           log == disk[here].log
           backups == disk[here].backups
           all == log \o unflushed
           log2 == log \o SubSeq(unflushed, 1, kept)
           left == Len(old) - Len(unflushed) + kept
           text == SubSeq(old, 1, left)
           none == <<>>
<1>1. /\ here \in Names /\ old \in Seq(Message) /\ log \in Seq(Message) /\ backups \in Seq(Text)
      /\ unflushed \in Seq(Message) /\ AreTheEnd(backups, all, old) /\ number \in Nat
    BY LogFacts
<1>2. /\ disk \in [Names -> [log : Seq(Message), backups : Seq(Text)]]
      /\ written \in [Names -> Seq(Message)] /\ EachOnce
    BY DEF LogInv
<1>3. /\ settings' = s /\ buffers' = [t \in Writer |-> none] /\ number' = number /\ unflushed' = none
      /\ disk' = [disk EXCEPT ![here].log = log2]
      /\ written' = [written EXCEPT ![here] = text]
    BY DEF Crash
<1>4. all \in Seq(Message) /\ Len(all) = Len(log) + Len(unflushed)
    BY <1>1, Joined
<1>5. Len(log) \in Nat /\ Len(unflushed) \in Nat /\ Len(old) \in Nat
    BY <1>1, Places
<1>6. Len(log) + kept \in 0..Len(all) /\ SubSeq(all, 1, Len(log) + kept) = log2
    BY <1>1, FirstOfTwo
<1> HIDE DEF all, log2, text, old, log, backups
<1>7. Len(old) - Len(all) + (Len(log) + kept) = left
    BY <1>4, <1>5
<1> HIDE DEF left
<1>8. left \in 0..Len(old) /\ AreTheEnd(backups, log2, text)
    <2> DEFINE k == Len(log) + kept
    <2>1. k \in 0..Len(all) /\ SubSeq(all, 1, k) = log2 /\ Len(old) - Len(all) + k = left
        BY <1>6, <1>7
    <2> HIDE DEF k
    <2>2. /\ Len(old) - Len(all) + k \in 0..Len(old)
          /\ AreTheEnd(backups, SubSeq(all, 1, k), SubSeq(old, 1, Len(old) - Len(all) + k))
        BY <1>1, <1>4, <2>1, EndIsLost
    <2> QED BY <2>1, <2>2 DEF text
<1>9. log2 \in Seq(Message)
    <2>1. SubSeq(unflushed, 1, kept) \in Seq(Message)
        BY <1>1, Beginning
    <2> QED BY <1>1, <2>1, Joined DEF log2
<1>10. none \in Seq(Message) /\ log2 \o none = log2
    BY <1>9, ConcatEmptySeq
<1>11. NoTwice(old) /\ UpTo(old, number)
    BY <1>1, <1>2 DEF EachOnce, old
<1>12. text \in Seq(Message) /\ NoTwice(text) /\ UpTo(text, number)
    BY <1>1, <1>8, <1>11, FirstMessages DEF text
<1>13. /\ disk' \in [Names -> [log : Seq(Message), backups : Seq(Text)]]
       /\ \A name \in Names : (AreTheEnd(disk[name].backups, TheLog(name), written[name]))'
    <2>1. disk' = [disk EXCEPT ![here] = [log |-> log2, backups |-> backups]]
        BY <1>1, <1>2, <1>3, NewLog DEF backups
    <2>2. AreTheEnd(backups, log2 \o none, text)
        BY <1>8, <1>10
    <2>3. s.fileName # settings.fileName => none = <<>>
        OBVIOUS
    <2> HIDE DEF none
    <2> QED BY <1>1, <1>3, <1>9, <1>10, <1>12, <2>1, <2>2, <2>3, FileChanges
<1>14. EachOnce'
    <2>1. /\ NoTwice(none) /\ UpTo(none, number)
          /\ \A other : Apart(none, other) /\ Apart(other, none)
        BY EmptyText
    <2> HIDE DEF none
    <2>2. ASSUME NEW name \in Names PROVE UpTo(written'[name], number) /\ NoTwice(written'[name])
        <3>1. CASE name = here
            BY <1>2, <1>3, <1>12, <3>1
        <3>2. CASE name # here
            BY <1>2, <1>3, <3>2 DEF EachOnce
        <3> QED BY <3>1, <3>2
    <2>3. \A t \in Writer : buffers'[t] = none
        BY <1>3
    <2> QED BY <1>3, <2>1, <2>2, <2>3 DEF EachOnce
<1>15. /\ buffers' \in [Writer -> Seq(Message)] /\ written' \in [Names -> Seq(Message)]
       /\ number' \in Nat /\ unflushed' \in Seq(Message)
    <2> HIDE DEF none
    <2> QED BY <1>1, <1>2, <1>3, <1>10, <1>12
<1> QED BY <1>3, <1>13, <1>14, <1>15 DEF LogInv

\* Nothing has been logged.
NewLogs ==
    /\ settings \in Settings /\ number = 0 /\ unflushed = <<>>
    /\ buffers = [t \in Writer |-> <<>>]
    /\ disk = [n \in Names |-> [log |-> <<>>, backups |-> <<>>]]
    /\ written = [n \in Names |-> <<>>]

LEMMA FromNothing ==
    NewLogs => LogInv
<1>0. HAVE NewLogs
<1> DEFINE none == <<>>
           bare == [log |-> none, backups |-> none]
<1>1. none \in Seq(Message) /\ none \in Seq(Text) /\ AreTheEnd(none, none, none)
    BY NothingYet
<1>2. none \o none = none
    BY <1>1, ConcatEmptySeq
<1>3. bare \in [log : Seq(Message), backups : Seq(Text)] /\ bare.log = none /\ bare.backups = none
    BY <1>1
<1>4. /\ NoTwice(none) /\ UpTo(none, 0) /\ \A other : Apart(none, other)
    BY EmptyText
<1>5. /\ unflushed = none /\ \A t \in Writer : buffers[t] = none
      /\ buffers = [t \in Writer |-> none] /\ disk = [n \in Names |-> bare]
      /\ written = [n \in Names |-> none] /\ number = 0 /\ settings \in Settings
    BY <1>0 DEF NewLogs
<1> HIDE DEF none, bare
<1>6. /\ buffers \in [Writer -> Seq(Message)] /\ unflushed \in Seq(Message)
      /\ disk \in [Names -> [log : Seq(Message), backups : Seq(Text)]]
      /\ written \in [Names -> Seq(Message)]
    BY <1>1, <1>3, <1>5
<1>7. EachOnce
    BY <1>4, <1>5 DEF EachOnce
<1>8. ASSUME NEW name \in Names PROVE AreTheEnd(disk[name].backups, TheLog(name), written[name])
    <2>1. disk[name] = bare /\ written[name] = none
        BY <1>5
    <2>2. TheLog(name) = none \o none
        BY <1>3, <1>5, <2>1 DEF TheLog, none
    <2> QED BY <1>1, <1>2, <1>3, <2>1, <2>2
<1>9. settings \in Settings /\ number \in Nat /\ unflushed = <<>>
    BY <1>0 DEF NewLogs
<1> QED BY <1>6, <1>7, <1>8, <1>9 DEF LogInv

LEMMA ArchiveKeeps ==
    ASSUME LogInv, Archive
    PROVE  LogInv'
<1>1. NewLogs'
    BY DEF Archive, LogInv, NewLogs
<1> QED BY <1>1, FromNothing, PTL

-----------------------------------------------------------------------------
(* FileLogger: the theorems.                                               *)

\* The invariant: every message is in one place, and what is left of a log is the
\* end of what was written to it.
THEOREM LogInductive == LogSpec => []LogInv
<1>1. LogInit => LogInv
    <2>1. LogInit => NewLogs
        BY DEF LogInit, NewLogs
    <2> QED BY <2>1, FromNothing
<1>2. LogInv /\ [LogNext]_logVars => LogInv'
    <2> SUFFICES ASSUME LogInv, [LogNext]_logVars PROVE LogInv'
        OBVIOUS
    <2>1. ASSUME NEW t \in Writer, NEW type \in MessageTypes, NEW direct \in BOOLEAN,
                 Log(t, type, direct)
          PROVE  LogInv'
        BY <2>1, LogKeeps
    <2>2. ASSUME NEW t \in Writer, NEW type \in MessageTypes, NEW direct \in BOOLEAN,
                 NEW reached \in 0..MaxMessages, LogFails(t, type, direct, reached)
          PROVE  LogInv'
        <3>1. reached \in Nat
            BY LoggerAssumption
        <3> QED BY <2>2, <3>1, LogFailsKeeps
    <2>3. ASSUME NEW t \in Writer, ClearBuffer(t) PROVE LogInv'
        BY <2>3, ClearKeeps
    <2>4. ASSUME NEW s \in Settings, NEW ok \in CanOpen, RefreshSettings(s, ok) PROVE LogInv'
        BY <2>4, RefreshKeeps
    <2>5. CASE TimerEvent
        BY <2>5, TimerKeeps
    <2>6. ASSUME NEW ok \in CanOpen, FlushAndRotate(ok) PROVE LogInv'
        BY <2>6, RotationKeeps
    <2>7. ASSUME NEW kept \in 0..Len(unflushed), NEW s \in Settings, NEW ok \in CanOpen,
                 Crash(kept, s, ok)
          PROVE  LogInv'
        BY <2>7, CrashKeeps
    <2>8. CASE Archive
        BY <2>8, ArchiveKeeps
    <2>9. CASE UNCHANGED logVars
        BY <2>9 DEF LogInv, EachOnce, TheLog, logVars
    <2> QED BY <2>1, <2>2, <2>3, <2>4, <2>5, <2>6, <2>7, <2>8, <2>9 DEF LogNext
<1> QED BY <1>1, <1>2, PTL DEF LogSpec

\* A log has no holes and nothing twice, whatever was rotated away, lost in a crash or
\* with a write that failed, or moved by new settings.
THEOREM NoHoles == LogSpec => []LogHasNoHoles
<1>1. LogInv => LogHasNoHoles
    BY DEF LogInv, LogHasNoHoles, EachOnce, NoTwice, IsInjective
<1> QED BY <1>1, LogInductive, PTL

-----------------------------------------------------------------------------
(* FileLogger: the number of backups.                                      *)

\* No log has more than limit backups.
AtMostBackups(limit) == \A name \in Names : Len(disk[name].backups) <= limit

\* Writing to a file leaves the backups alone.
LEMMA SameBackups ==
    ASSUME LogInv, NEW here, NEW log, disk' = [disk EXCEPT ![here].log = log]
    PROVE  \A name \in Names : disk'[name].backups = disk[name].backups
<1>1. disk \in [Names -> [log : Seq(Message), backups : Seq(Text)]]
    BY DEF LogInv
<1> SUFFICES ASSUME NEW name \in Names
             PROVE  disk'[name].backups = disk[name].backups
    OBVIOUS
<1>2. disk[name] \in [log : Seq(Message), backups : Seq(Text)]
    BY <1>1
<1>3. CASE name = here
    <2>1. disk'[name] = [disk[name] EXCEPT !.log = log]
        BY <1>1, <1>3
    <2> QED BY <1>2, <2>1
<1>4. CASE name # here
    BY <1>1, <1>4
<1> QED BY <1>3, <1>4

\* rotate() makes room for the backup it adds.
LEMMA RoomForOne ==
    ASSUME NEW backups \in Seq(Text), settings \in Settings, NEW log \in Text,
           NEW limit \in Nat, settings.maxBackups \in 1..limit, Len(backups) <= limit
    PROVE  Len(<<log>> \o Kept(backups)) <= limit
<1>1. PICK k \in 0..Len(backups) : Kept(backups) = SubSeq(backups, 1, k)
    BY NewestAreKept
<1>2. Len(backups) \in Nat /\ \A i \in 1..Len(backups) : backups[i] \in Text
    BY LenProperties, ElementOfSeq
<1>3. \A i \in 1..k : backups[i] \in Text
    BY <1>1, <1>2
<1>4. Kept(backups) \in Seq(Text) /\ Len(Kept(backups)) = k
    BY <1>1, <1>3, SubSeqProperties
<1>5. Len(Kept(backups)) <= limit - 1
    <2>1. CASE Len(backups) >= settings.maxBackups
        <3>1. Kept(backups) = SubSeq(backups, 1, settings.maxBackups - 1)
            BY <2>1 DEF Kept
        <3>2. settings.maxBackups - 1 \in 0..Len(backups)
            BY <1>2, <2>1
        <3>3. \A i \in 1..(settings.maxBackups - 1) : backups[i] \in Text
            BY <1>2, <3>2
        <3>4. Len(Kept(backups)) = settings.maxBackups - 1
            BY <3>1, <3>2, <3>3, SubSeqProperties
        <3> QED BY <3>4
    <2>2. CASE Len(backups) < settings.maxBackups
        <3>1. Kept(backups) = backups
            BY <1>2, <2>2 DEF Kept
        <3> QED BY <1>2, <2>2, <3>1
    <2> QED BY <1>2, <2>1, <2>2
<1>6. <<log>> \in Seq(Text) /\ Len(<<log>>) = 1
    OBVIOUS
<1>7. Len(<<log>> \o Kept(backups)) = 1 + Len(Kept(backups))
    BY <1>4, <1>6, ConcatProperties
<1> QED BY <1>4, <1>5, <1>7

\* A rotation keeps the number of backups.
LEMMA RotatedBackups ==
    ASSUME LogInv, NEW limit \in Nat, settings.maxBackups \in 1..limit, AtMostBackups(limit),
           disk' = Rotated(Flushed(disk, settings.fileName), settings.fileName)
    PROVE  AtMostBackups(limit)'
<1> DEFINE here == settings.fileName
           all == disk[here].log \o unflushed
           backups == disk[here].backups
           flushed == Flushed(disk, here)
<1>1. /\ here \in Names /\ disk[here].log \in Seq(Message) /\ backups \in Seq(Text)
      /\ unflushed \in Seq(Message) /\ settings \in Settings
    BY LogFacts
<1>2. disk \in [Names -> [log : Seq(Message), backups : Seq(Text)]]
    BY DEF LogInv
<1>3. all \in Seq(Message)
    BY <1>1, Joined
<1>4. flushed = [disk EXCEPT ![here] = [log |-> all, backups |-> backups]]
    BY <1>1, <1>2, NewLog DEF Flushed
<1> HIDE DEF all
<1>5. /\ flushed[here].log = all /\ flushed[here].backups = backups
      /\ \A name \in Names : name # here => flushed[name] = disk[name]
      /\ DOMAIN flushed = Names
    BY <1>1, <1>2, <1>4
<1>6. disk' = [flushed EXCEPT ![here] =
                [log |-> <<>>, backups |-> <<flushed[here].log>> \o Kept(flushed[here].backups)]]
    BY DEF Rotated
<1> HIDE DEF flushed
<1> DEFINE kept == <<flushed[here].log>> \o Kept(flushed[here].backups)
<1>7. /\ disk'[here].backups = kept
      /\ \A name \in Names : name # here => disk'[name] = flushed[name]
    BY <1>1, <1>5, <1>6
<1>8. Len(kept) <= limit
    <2>1. Len(backups) <= limit
        BY <1>1 DEF AtMostBackups
    <2>2. Len(<<all>> \o Kept(backups)) <= limit
        BY <1>1, <1>3, <2>1, RoomForOne DEF Text
    <2> QED BY <1>5, <2>2
<1> HIDE DEF kept
<1> SUFFICES ASSUME NEW name \in Names
             PROVE  Len(disk'[name].backups) <= limit
    BY DEF AtMostBackups
<1>9. CASE name = here
    BY <1>7, <1>8, <1>9
<1>10. CASE name # here
    BY <1>5, <1>7, <1>10 DEF AtMostBackups
<1> QED BY <1>9, <1>10

\* No step leaves more backups than the settings allow.
LEMMA StepBackups ==
    ASSUME NEW limit \in Nat, \A s \in Settings : s.maxBackups \in 1..limit,
           LogInv, AtMostBackups(limit), [LogNext]_logVars
    PROVE  AtMostBackups(limit)'
<1>1. settings \in Settings /\ settings.maxBackups \in 1..limit
    BY DEF LogInv
<1>2. ASSUME \A name \in Names : disk'[name].backups = disk[name].backups
      PROVE  AtMostBackups(limit)'
    BY <1>2 DEF AtMostBackups
<1>3. ASSUME disk' = disk
      PROVE  AtMostBackups(limit)'
    BY <1>2, <1>3
<1>4. ASSUME NEW here, NEW log, disk' = [disk EXCEPT ![here].log = log]
      PROVE  AtMostBackups(limit)'
    <2>1. \A name \in Names : disk'[name].backups = disk[name].backups
        BY <1>4, SameBackups
    <2> QED BY <1>2, <2>1
<1>5. ASSUME NEW t, NEW type, NEW direct, Log(t, type, direct)
      PROVE  AtMostBackups(limit)'
    <2> DEFINE out == Out(t, [n |-> number + 1, type |-> type])
    <2>1. UNCHANGED disk \/ WriteAll(out)
        BY <1>5 DEF Log
    <2>2. ASSUME WriteAll(out)
          PROVE  AtMostBackups(limit)'
        <3>1. \/ disk' = disk
              \/ disk' = [disk EXCEPT ![settings.fileName].log =
                            @ \o unflushed \o SubSeq(out, 1, LastCritical(out))]
            BY <2>2 DEF WriteAll
        <3> HIDE DEF out
        <3> QED BY <1>3, <1>4, <3>1
    <2> QED BY <1>3, <2>1, <2>2
<1>6. ASSUME NEW t, NEW type, NEW direct, NEW reached, LogFails(t, type, direct, reached)
      PROVE  AtMostBackups(limit)'
    <2> DEFINE lost == unflushed \o Out(t, [n |-> number + 1, type |-> type])
    <2>1. disk' = [disk EXCEPT ![settings.fileName].log = @ \o SubSeq(lost, 1, reached)]
        BY <1>6 DEF LogFails
    <2> HIDE DEF lost
    <2> QED BY <1>4, <2>1
<1>7. ASSUME NEW s, NEW ok, RefreshSettings(s, ok)
      PROVE  AtMostBackups(limit)'
    <2>1. disk' = disk \/ disk' = [disk EXCEPT ![settings.fileName].log = @ \o unflushed]
        BY <1>7 DEF RefreshSettings, Flushed
    <2> QED BY <1>3, <1>4, <2>1
<1>8. ASSUME NEW ok, FlushAndRotate(ok)
      PROVE  AtMostBackups(limit)'
    <2>1. \/ disk' = disk
          \/ disk' = Flushed(disk, settings.fileName)
          \/ disk' = Rotated(Flushed(disk, settings.fileName), settings.fileName)
        BY <1>8 DEF FlushAndRotate
    <2>2. ASSUME disk' = Flushed(disk, settings.fileName)
          PROVE  AtMostBackups(limit)'
        BY <1>4, <2>2 DEF Flushed
    <2>3. ASSUME disk' = Rotated(Flushed(disk, settings.fileName), settings.fileName)
          PROVE  AtMostBackups(limit)'
        BY <1>1, <2>3, RotatedBackups
    <2> QED BY <1>3, <2>1, <2>2, <2>3
<1>9. ASSUME NEW kept, NEW s, NEW ok, Crash(kept, s, ok)
      PROVE  AtMostBackups(limit)'
    <2>1. disk' = [disk EXCEPT ![settings.fileName].log = @ \o SubSeq(unflushed, 1, kept)]
        BY <1>9 DEF Crash
    <2> QED BY <1>4, <2>1
<1>10. CASE Archive
    <2>1. disk' = [n \in Names |-> [log |-> <<>>, backups |-> <<>>]]
        BY <1>10 DEF Archive
    <2>2. \A name \in Names : Len(disk'[name].backups) = 0
        BY <2>1
    <2> QED BY <2>2 DEF AtMostBackups
<1>11. ASSUME NEW t, ClearBuffer(t)
       PROVE  AtMostBackups(limit)'
    BY <1>3, <1>11 DEF ClearBuffer
<1>12. CASE TimerEvent
    BY <1>3, <1>12 DEF TimerEvent
<1>13. CASE UNCHANGED logVars
    BY <1>3, <1>13 DEF logVars
<1> QED BY <1>5, <1>6, <1>7, <1>8, <1>9, <1>10, <1>11, <1>12, <1>13, Zenon DEF LogNext

\* When every setting allows some backups, and at most limit of them, there are never
\* more: not by new settings, rotations or restarts, in whatever order they come.
THEOREM BackupsBounded ==
    ASSUME NEW limit \in Nat, \A s \in Settings : s.maxBackups \in 1..limit
    PROVE  LogSpec => []AtMostBackups(limit)
<1>1. LogInit => AtMostBackups(limit)
    <2> SUFFICES ASSUME LogInit, NEW name \in Names
                 PROVE  Len(disk[name].backups) <= limit
        BY DEF AtMostBackups
    <2>1. disk[name].backups = <<>>
        BY DEF LogInit
    <2> QED BY <2>1
<1>2. LogInv /\ AtMostBackups(limit) /\ [LogNext]_logVars => AtMostBackups(limit)'
    BY StepBackups
<1> QED BY <1>1, <1>2, LogInductive, PTL DEF LogSpec

\* The types of the log, when every setting allows as many backups (with a setting that
\* allows fewer than the one before it, the backups go only with the next rotation).
THEOREM LogTyped ==
    ASSUME NEW limit \in Nat, \A s \in Settings : s.maxBackups = limit
    PROVE  LogSpec => []LogTypeOK
<1>1. CASE limit = 0
    <2>1. LogInv => LogTypeOK
        BY <1>1 DEF LogInv, LogTypeOK
    <2> QED BY <2>1, LogInductive, PTL
<1>2. CASE limit # 0
    <2>1. \A s \in Settings : s.maxBackups \in 1..limit
        BY <1>2
    <2>2. LogSpec => []AtMostBackups(limit)
        BY <2>1, BackupsBounded
    <2>3. LogInv /\ AtMostBackups(limit) => LogTypeOK
        BY DEF LogInv, LogTypeOK, AtMostBackups
    <2> QED BY <2>2, <2>3, LogInductive, PTL
<1> QED BY <1>1, <1>2
=============================================================================

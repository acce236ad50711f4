---------------------------- MODULE OfflineCache ----------------------------
(***************************************************************************)
(* The offline playback cache (daemon/core/src/offline_cache.rs): songs kept *)
(* whole from the playing song's stream or fetched ahead, an index in memory *)
(* over a table and a directory, and the eviction of the least recently     *)
(* played past a cap.                                                       *)
(*                                                                         *)
(* A task of this model is whatever runs on its own: a stream's sink, the    *)
(* prefetch, an eviction, a forgetting, a download taking a copy over.  A     *)
(* newer prefetch aborts the older one, which dies at an await; a file it    *)
(* was writing is written all the same.                                     *)
(*                                                                         *)
(* A song has one file (the extension that follows its content type is left *)
(* out).  last_played is the place in an order.  The table's own stamps are    *)
(* written behind the index, in no order, and read at start only: there the *)
(* order may be any.                                                        *)
(***************************************************************************)
EXTENDS Naturals, FiniteSets, FiniteSetsExt, Functions

CONSTANTS
    Songs,
    Size,          \* Size[song]
    SourceOf,      \* SourceOf[song]
    Caps,          \* values of the offline_cache_max_bytes setting
    Tasks,         \* bound: how many run at a time
    MaxMishaps,    \* bound: failed writes, vanished files, restarts
    Nothing

ASSUME CacheBounds == Caps \subseteq Nat /\ Size \in [Songs -> Nat] /\ MaxMishaps \in Nat
ASSUME NothingIsNoTask == Nothing \notin Tasks

VARIABLES
    enabled, cap,   \* Limits
    kept, older,    \* the index, and who in it was played before whom
    rows,           \* the offline_cache table
    files,          \* the directory
    writer,         \* who holds the writer lock
    task,
    slot,           \* the prefetch asked for last, while it runs
    doomed,         \* prefetches that were aborted and have not died yet
    writing,        \* files still being written for one that has
    torn,           \* songs whose task died between its row and the index
    short,          \* an eviction was cut off; the next store starts another
    mishaps

cacheVars == <<enabled, cap, kept, older, rows, files, writer, task, slot, doomed, writing,
          torn, short, mishaps>>
entries == <<kept, older>>
disk == <<rows, files>>
ghosts == <<torn, short>>
settings == <<enabled, cap>>
running == <<slot, doomed, writing>>

NoTask == [at |-> "idle", kind |-> Nothing, song |-> Nothing, songs |-> {}]
\* A song is being filled from the first byte until its task is over.
Fills(kind) == {task[t].song : t \in {x \in Tasks : task[x] # NoTask /\ task[x].kind = kind}}
Filling == Fills("stream") \cup Fills("prefetch")

Mishap == mishaps < MaxMishaps /\ mishaps' = mishaps + 1

CacheInit ==
    /\ enabled = TRUE /\ cap \in Caps
    /\ kept = {} /\ older = {} /\ rows = {} /\ files = {}
    /\ writer = Nothing /\ task = [t \in Tasks |-> NoTask]
    /\ slot = Nothing /\ doomed = {} /\ writing = {}
    /\ torn = {} /\ short = FALSE
    /\ mishaps = 0

Go(t, to) == task' = [task EXCEPT ![t] = to] /\ UNCHANGED running
\* A task is over: its song is no longer being filled.
End(t) ==
    /\ task' = [task EXCEPT ![t] = NoTask]
    /\ slot' = (IF slot = t THEN Nothing ELSE slot)
    /\ doomed' = doomed \ {t}
    /\ UNCHANGED writing
At(t, at) == task[t].at = at
Fill(at, kind, song) == [at |-> at, kind |-> kind, song |-> song, songs |-> {}]
Housework(at, songs) == [at |-> at, kind |-> "housework", song |-> Nothing, songs |-> songs]

\* The song was played just now: it is the newest of the index.
Newest(k) ==
    /\ kept' = kept \cup {k}
    /\ older' = {p \in older : k \notin {p[1], p[2]}} \cup ((kept \ {k}) \X {k})
Drop(songs) ==
    /\ kept' = kept \ songs
    /\ older' = older \cap (kept' \X kept')
-----------------------------------------------------------------------------
\* capture: the playing song's stream is to be kept.
Capture(t, k) ==
    /\ task[t] = NoTask /\ enabled /\ k \notin kept /\ k \notin Filling
    /\ Go(t, Fill("stream", "stream", k))
    /\ UNCHANGED <<settings, entries, disk, writer, ghosts, mishaps>>

\* prefetch: one at a time; a request for another song aborts it, even where
\* the new one comes to nothing because somebody fills that song already.
Prefetch(t, k) ==
    /\ task[t] = NoTask /\ enabled /\ k \notin kept
    /\ slot # Nothing => task[slot].song # k
    /\ doomed' = doomed \cup ({slot} \ {Nothing})
    /\ IF k \in Filling
       THEN UNCHANGED <<task, slot>>
       ELSE /\ task' = [task EXCEPT ![t] = Fill("wait", "prefetch", k)]
            /\ slot' = t
    /\ UNCHANGED <<settings, entries, disk, writer, writing, ghosts, mishaps>>

\* The playing song's stream is in, or was given up.
StreamsOver(t) ==
    /\ At(t, "wait") /\ Fills("stream") = {}
    /\ Go(t, [task[t] EXCEPT !.at = "fetch"])
    /\ UNCHANGED <<settings, entries, disk, writer, ghosts, mishaps>>

\* The whole song is there, or the stream or the fetch failed.  store_at looks
\* at the settings before it writes.
Arrives(t) ==
    /\ At(t, "stream") \/ At(t, "fetch")
    /\ \/ enabled /\ Go(t, [task[t] EXCEPT !.at = "publish"])
       \/ End(t)
    /\ UNCHANGED <<settings, entries, disk, writer, ghosts, mishaps>>

\* publish: written aside and renamed; a failed write leaves nothing.
Publish(t) ==
    /\ At(t, "publish")
    /\ \/ /\ files' = files \cup {task[t].song}
          /\ Go(t, [task[t] EXCEPT !.at = "put"]) /\ UNCHANGED mishaps
       \/ Mishap /\ End(t) /\ UNCHANGED files
    /\ UNCHANGED <<settings, entries, rows, writer, ghosts>>

\* Mutant: nobody waits for the writer lock.
UnlockedAlways == TRUE
\* The writer lock is held over a row write and the index update that follows.
Unlocked == writer = Nothing

Put(t) ==
    /\ At(t, "put") /\ Unlocked
    /\ \/ /\ rows' = rows \cup {task[t].song} /\ writer' = t
          /\ Go(t, [task[t] EXCEPT !.at = "insert"]) /\ UNCHANGED mishaps
       \/ Mishap /\ End(t) /\ UNCHANGED <<rows, writer>>
    /\ UNCHANGED <<settings, entries, files, ghosts>>

Insert(t) ==
    /\ At(t, "insert")
    /\ Newest(task[t].song)
    /\ writer' = Nothing
    /\ Go(t, [task[t] EXCEPT !.at = "evict"])
    /\ UNCHANGED <<settings, disk, ghosts, mishaps>>
-----------------------------------------------------------------------------
Bytes(songs) == MapThenSumSet(LAMBDA k : Size[k], songs)
\* The sets of songs that were all played before the others.
Oldest(songs, order) == {S \in SUBSET songs : S \X (songs \ S) \subseteq order}
\* Mutant: a store evicts one song and no more.
VictimsOne(songs, order) ==
    IF Bytes(songs) <= cap THEN {} ELSE CHOOSE S \in Oldest(songs, order) : Cardinality(S) = 1
\* The least recently played, until what is left fits.
Victims(songs, order) ==
    LET Enough == {S \in Oldest(songs, order) : Bytes(songs \ S) <= cap}
    IN  CHOOSE S \in Enough : \A T \in Enough : S \subseteq T

\* evict chooses without the writer lock; forget does the rest.
Evict(t) ==
    /\ At(t, "evict")
    /\ short' = FALSE
    /\ LET victims == Victims(kept, older)
       IN  IF victims = {} THEN End(t)
           ELSE Go(t, [task[t] EXCEPT !.at = "remove", !.songs = victims])
    /\ UNCHANGED <<settings, entries, disk, writer, torn, mishaps>>

\* forget and take: the rows go, then the index, then the files.
Unlist(t) ==
    /\ At(t, "remove") /\ Unlocked
    /\ \/ /\ rows' = rows \ task[t].songs /\ writer' = t
          /\ Go(t, [task[t] EXCEPT !.at = "unmap"]) /\ UNCHANGED <<short, mishaps>>
       \/ Mishap /\ short' = TRUE /\ End(t) /\ UNCHANGED <<rows, writer>>
    /\ UNCHANGED <<settings, entries, files, torn>>

\* Only what the index still held is deleted, but a download takes its copy.
Unmap(t) ==
    /\ At(t, "unmap")
    /\ Drop(task[t].songs)
    /\ writer' = Nothing
    /\ Go(t, [task[t] EXCEPT !.at = "unlink",
                             !.songs = IF task[t].kind = "take" THEN @ ELSE @ \cap kept])
    /\ UNCHANGED <<settings, disk, ghosts, mishaps>>

Unlink(t) ==
    /\ At(t, "unlink")
    /\ \/ files' = files \ task[t].songs /\ UNCHANGED mishaps
       \/ Mishap /\ UNCHANGED files
    /\ End(t)
    /\ UNCHANGED <<settings, entries, rows, writer, ghosts>>

Forget(t, songs) ==
    /\ task[t] = NoTask /\ songs # {}
    /\ Go(t, Housework("remove", songs))
    /\ UNCHANGED <<settings, entries, disk, writer, ghosts, mishaps>>
Clear(t) == Forget(t, kept)
ForgetSource(t) == \E s \in Range(SourceOf) : Forget(t, {k \in kept : SourceOf[k] = s})
\* path: a copy that is gone is forgotten.
Missed(t) == \E k \in kept \ files : Forget(t, {k})
\* take: the same, or the copy is the caller's.
Take(t, k) ==
    /\ task[t] = NoTask /\ k \in kept
    /\ Go(t, [Housework("remove", {k}) EXCEPT !.kind = IF k \in files THEN "take" ELSE @])
    /\ UNCHANGED <<settings, entries, disk, writer, ghosts, mishaps>>

\* played: the song is the newest now.
Played(k) ==
    /\ k \in kept \cap files
    /\ Newest(k)
    /\ UNCHANGED <<settings, disk, writer, task, running, ghosts, mishaps>>

\* set_limits: a lower cap evicts in a task of its own.
SetLimits(t) ==
    /\ task[t] = NoTask
    /\ enabled' \in BOOLEAN /\ cap' \in Caps
    /\ IF cap' < cap THEN Go(t, Housework("evict", {})) ELSE UNCHANGED <<task, running>>
    /\ UNCHANGED <<entries, disk, writer, ghosts, mishaps>>
-----------------------------------------------------------------------------
\* An aborted prefetch dies at an await: before the file is there (which is
\* then written by nobody's task), waiting for the lock, or during a write to
\* the table, which by then has gone through or never will.
Dies(t) ==
    /\ t \in doomed /\ task[t].at \in {"wait", "fetch", "publish", "put", "insert", "remove", "unmap"}
    /\ task' = [task EXCEPT ![t] = NoTask]
    /\ slot' = (IF slot = t THEN Nothing ELSE slot)
    /\ doomed' = doomed \ {t}
    /\ writing' = IF At(t, "publish") THEN writing \cup {task[t].song} ELSE writing
    /\ writer' = IF writer = t THEN Nothing ELSE writer
    /\ torn' = torn \cup CASE At(t, "insert") -> {task[t].song}
                           [] At(t, "unmap")  -> task[t].songs
                           [] OTHER           -> {}
    /\ short' = (short \/ task[t].at \in {"remove", "unmap"})
    /\ UNCHANGED <<settings, entries, disk, mishaps>>

\* The blocking write of one that died.
Written ==
    \E k \in writing :
        /\ files' = files \cup {k}
        /\ writing' = writing \ {k}
        /\ UNCHANGED <<settings, entries, rows, writer, task, slot, doomed, ghosts, mishaps>>

\* Somebody deletes a file of the cache.
Vanishes(k) ==
    /\ Mishap /\ k \in files /\ files' = files \ {k}
    /\ UNCHANGED <<settings, entries, rows, writer, task, running, ghosts>>

Orders(songs) ==
    {o \in SUBSET (songs \X songs) :
        /\ \A x, y \in songs : <<x, y>> \in o <=> x # y /\ <<y, x>> \notin o
        /\ \A x, y, z \in songs : <<x, y>> \in o /\ <<y, z>> \in o => <<x, z>> \in o}

\* The daemon ends anywhere; load drops the rows without a file, sweeps the
\* files without a row, and evicts, if the table lets it, before anybody else runs.
Reload ==
    /\ Mishap
    /\ LET left == rows \cap files
       IN  \E order \in Orders(left) : \E gone \in {{}, Victims(left, order)} :
              /\ kept' = left \ gone
              /\ older' = order \cap (kept' \X kept')
              /\ short' = (gone # Victims(left, order))
    /\ rows' = kept' /\ files' = kept'
    /\ writer' = Nothing /\ task' = [t \in Tasks |-> NoTask]
    /\ slot' = Nothing /\ doomed' = {} /\ writing' = {}
    /\ torn' = {}
    /\ UNCHANGED settings

Storing(t) == StreamsOver(t) \/ Arrives(t) \/ Publish(t) \/ Put(t) \/ Insert(t)
Dropping(t) == Evict(t) \/ Unlist(t) \/ Unmap(t) \/ Unlink(t)

CacheNext ==
    \/ \E t \in Tasks : Storing(t) \/ Dropping(t) \/ Dies(t)
    \/ \E t \in Tasks, k \in Songs : Capture(t, k) \/ Prefetch(t, k) \/ Take(t, k)
    \/ \E t \in Tasks : Clear(t) \/ ForgetSource(t) \/ Missed(t) \/ SetLimits(t)
    \/ \E k \in Songs : Played(k) \/ Vanishes(k)
    \/ Written
    \/ Reload

CacheSpec == CacheInit /\ [][CacheNext]_cacheVars
-----------------------------------------------------------------------------
\* Whenever nobody holds the writer lock, the table and the index name the same
\* songs, whatever stores, evictions, downloads and forgettings overlapped; an
\* abort between the two may tear a song's row from its entry.
IndexAgrees == writer = Nothing => \A k \in Songs \ torn : k \in rows <=> k \in kept

\* What is kept fits the cap, or a task is about to make it fit: evictions that
\* choose their victims from the same list, or before another song comes in or
\* goes, leave enough together.
Leaving(t) == IF task[t].at \in {"remove", "unmap"} THEN task[t].songs ELSE {}
CapHolds ==
    \/ Bytes(kept) <= cap \/ short
    \/ \E t \in Tasks : At(t, "evict") \/ Bytes(kept \ Leaving(t)) <= cap
=============================================================================

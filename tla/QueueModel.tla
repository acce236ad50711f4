----------------------------- MODULE QueueModel -----------------------------
(***************************************************************************)
(* The play queue of daemon/core/src/queue_model.rs as pure operators on a *)
(* queue record.  Positions and indices count from 0, as in the source;    *)
(* only the sequences that hold them count from 1.                         *)
(*                                                                         *)
(* An operation whose result depends on the random generator returns the   *)
(* set of queues it can produce, one for every permutation.                *)
(***************************************************************************)
EXTENDS Integers, FiniteSets, Sequences, SequencesExt, FiniteSetsExt

LoopModes == {"none", "track", "queue"}

EmptyQueue == [items |-> <<>>, history |-> <<>>, shuffle |-> FALSE,
               order |-> <<>>, current |-> 0, loop |-> "none"]

-----------------------------------------------------------------------------
(* Sequences *)

(* The elements of s that are in K, in their order: what SelectSeq returns,  *)
(* without its recursion, so that it can be reasoned about.  An element's    *)
(* place in the result is its rank among the places kept.                    *)
Rank(places, i) == Cardinality({j \in places : j <= i})
AtPlaces(s, places) ==
    [k \in 1 .. Cardinality(places) |-> s[CHOOSE i \in places : Rank(places, i) = k]]
Kept(s, K) == AtPlaces(s, {i \in DOMAIN s : s[i] \in K})

(* s with t spliced in before position pos. *)
Splice(s, pos, t) == SubSeq(s, 1, pos) \o t \o SubSeq(s, pos + 1, Len(s))

-----------------------------------------------------------------------------
(* Positions *)

(* The number of play-order positions. *)
QueueLen(q) == IF q.shuffle THEN Len(q.order) ELSE Len(q.items)

(* physical_index_of and track_at: the position resolves to a track. *)
HasTrack(q, pos) ==
    /\ q.shuffle => pos < Len(q.order)
    /\ (IF q.shuffle THEN q.order[pos + 1] ELSE pos) < Len(q.items)

PhysicalIndexOf(q, pos) == IF q.shuffle THEN q.order[pos + 1] ELSE pos

TrackAt(q, pos) == q.items[PhysicalIndexOf(q, pos) + 1]

IndexSet(q) == 0 .. (Len(q.items) - 1)

ShiftAtOrAfter(positions, at, by) ==
    [i \in DOMAIN positions |-> IF positions[i] >= at THEN positions[i] + by
                                                     ELSE positions[i]]

(* Where a position goes when one entry moves from one place to another. *)
RemapQueueIndex(pos, from, to) ==
    CASE pos = from                                     -> to
      [] pos # from /\ from < to /\ pos \in from .. to  -> pos - 1
      [] pos # from /\ to < from /\ pos \in to .. from  -> pos + 1
      [] OTHER                                          -> pos

-----------------------------------------------------------------------------
(* The shuffle permutation *)

(* The entries repaired_order keeps: valid ones, each once, in their order. *)
KeptEntries(order, n) ==
    FoldLeft(LAMBDA kept, i: IF i < n /\ ~Contains(kept, i) THEN Append(kept, i) ELSE kept,
             <<>>, order)

RepairedOrders(order, n) ==
    LET kept == KeptEntries(order, n)
    IN  {kept \o missing : missing \in SetToSeqs((0 .. (n - 1)) \ ToSet(kept))}

Covers(order, n) ==
    /\ Len(order) = n
    /\ ToSet(order) = 0 .. (n - 1)

(* repair_shuffle_order: a permutation that covers the queue stays as it is. *)
Repaired(q) ==
    IF Covers(q.order, Len(q.items)) THEN {q}
    ELSE {[q EXCEPT !.order = o] : o \in RepairedOrders(q.order, Len(q.items))}

(* What an operation sees that repairs only while shuffling. *)
Ready(q) == IF q.shuffle THEN Repaired(q) ELSE {q}

(* The track whose physical index is in `current` first, the rest at random. *)
Rebuilt(q) ==
    IF q.items = <<>>
    THEN {[q EXCEPT !.order = <<>>, !.current = 0]}
    ELSE {[q EXCEPT !.order = <<q.current>> \o rest, !.current = 0] :
              rest \in SetToSeqs(IndexSet(q) \ {q.current})}

ToggleShuffle(q) ==
    IF q.shuffle
    THEN {[q EXCEPT !.shuffle = FALSE,
                    !.current = IF @ < Len(q.order) THEN q.order[@ + 1] ELSE @]}
    ELSE Rebuilt([q EXCEPT !.shuffle = TRUE])

SetShuffle(q, on) == IF q.shuffle # on THEN ToggleShuffle(q) ELSE {q}

-----------------------------------------------------------------------------
(* Next and Previous *)

PushHistory(q) ==
    IF q.history # <<>> /\ Last(q.history) = q.current
    THEN q
    ELSE [q EXCEPT !.history = Append(@, q.current)]

(* Mutant: off by one at the end of the queue. *)
HasFollowingTrackOffByOne(pos, len, loop) ==
    len > 0 /\ (loop = "none" => pos < len)

HasFollowingTrack(pos, len, loop) ==
    len > 0 /\ (loop = "none" => pos + 1 < len)

HasNextTrack(q) == HasFollowingTrack(q.current, Len(q.items), q.loop)

Nowhere == -1

(* peek_next_where on a ready queue: the position Next plays, or Nowhere at *)
(* the end of the queue and in an empty one.                                *)
PeekNext(q, playable) ==
    LET n       == QueueLen(q)
        first   == IF q.current + 1 < n THEN q.current + 1 ELSE 0
        \* the position after k steps
        at(k)   == (first + k - 1) % n
        reached == {k \in 1 .. n : /\ HasFollowingTrack(q.current, n, q.loop)
                                   /\ q.loop = "none" => first + k - 1 < n}
        good    == {k \in reached : HasTrack(q, at(k)) /\ TrackAt(q, at(k)) \in playable}
    IN  CASE n = 0                                        -> Nowhere
          [] n > 0 /\ q.loop = "track"                    -> q.current
          [] n > 0 /\ q.loop # "track" /\ good # {}       -> at(Min(good))
          [] OTHER                                        -> Nowhere

(* Mutant: the position left is not recorded. *)
AdvanceNextForgetting(q, playable) ==
    {LET pos == PeekNext(r, playable)
     IN  IF pos = Nowhere THEN r ELSE [r EXCEPT !.current = pos] : r \in Ready(q)}

(* advance_next_where *)
AdvanceNext(q, playable) ==
    {LET pos == PeekNext(r, playable)
     IN  IF pos = Nowhere THEN r ELSE [PushHistory(r) EXCEPT !.current = pos] : r \in Ready(q)}

(* previous_position on a ready queue: the position to go back to. *)
PreviousTarget(q) ==
    CASE QueueLen(q) = 0                                             -> Nowhere
      [] QueueLen(q) > 0 /\ q.history # <<>>                         -> Last(q.history)
      [] QueueLen(q) > 0 /\ q.history = <<>> /\ q.current > 0        -> q.current - 1
      [] QueueLen(q) > 0 /\ q.history = <<>> /\ q.current = 0
                         /\ q.loop = "queue"                         -> QueueLen(q) - 1
      [] OTHER                                                       -> Nowhere

(* The queues previous_position moves to; none when it answers None. *)
PreviousPosition(q) ==
    {[r EXCEPT !.current = PreviousTarget(r),
               !.history = IF @ = <<>> THEN @ ELSE Front(@)] :
        r \in {s \in Ready(q) : PreviousTarget(s) # Nowhere}}

JumpTo(q, physical) ==
    LET moved == [PushHistory(q) EXCEPT !.current = physical]
    IN  IF q.shuffle THEN Rebuilt(moved) ELSE {moved}

(* The queues jump_to_position moves to; none when the position is outside. *)
JumpToPosition(q, pos) ==
    {[PushHistory(r) EXCEPT !.current = pos] : r \in {s \in Ready(q) : pos < QueueLen(s)}}

-----------------------------------------------------------------------------
(* Edits *)

(* keep_where: the tracks kept, and where the start position goes. *)
KeptTracks(tracks, keep) == Kept(tracks, keep)

KeptStart(tracks, start, keep) ==
    LET before == Cardinality({i \in 1 .. Len(tracks) : i <= start /\ tracks[i] \in keep})
        last   == Len(KeptTracks(tracks, keep)) - 1
    IN  IF last < 0 THEN 0 ELSE IF before <= last THEN before ELSE last

Clear(q) == [q EXCEPT !.items = <<>>, !.history = <<>>, !.order = <<>>, !.current = 0]

(* History and permutation stay; callers follow with JumpTo. *)
Replace(q, tracks) == IF tracks = <<>> THEN Clear(q) ELSE [q EXCEPT !.items = tracks]

(* Mutant: the permutation does not learn of the new tracks. *)
AddUnordered(q, tracks) == [q EXCEPT !.items = @ \o tracks]

Add(q, tracks) ==
    LET n == Len(q.items)
    IN  [q EXCEPT !.items = @ \o tracks,
                  !.order = IF q.shuffle
                            THEN @ \o [i \in 1 .. Len(tracks) |-> n + i - 1]
                            ELSE @]

(* Mutant: history keeps its old positions. *)
InsertNextStaleHistory(q, tracks) ==
    LET at == IF q.current + 1 < QueueLen(q) THEN q.current + 1 ELSE QueueLen(q)
    IN  [q EXCEPT
            !.items = IF q.shuffle THEN @ \o tracks ELSE Splice(@, at, tracks),
            !.order = IF q.shuffle
                      THEN Splice(@, at, [i \in 1 .. Len(tracks) |-> Len(q.items) + i - 1])
                      ELSE @]

InsertNext(q, tracks) ==
    LET n     == Len(q.items)
        count == Len(tracks)
        \* (current + 1).min(len), and 0 in an empty queue
        at    == IF q.current + 1 < QueueLen(q) THEN q.current + 1 ELSE QueueLen(q)
    IN  IF count = 0 THEN q
        ELSE [q EXCEPT
                 !.items   = IF q.shuffle THEN @ \o tracks ELSE Splice(@, at, tracks),
                 !.order   = IF q.shuffle
                             THEN Splice(@, at, [i \in 1 .. count |-> n + i - 1])
                             ELSE @,
                 !.history = ShiftAtOrAfter(@, at, count)]

(* Mutant: an insertion at the pointer itself leaves the pointer behind. *)
InsertAtReadyPointerLeft(q, position, tracks) ==
    LET count    == Len(tracks)
        at       == IF position < QueueLen(q) THEN position ELSE QueueLen(q)
        physical == IF q.shuffle /\ at < Len(q.order) THEN q.order[at + 1]
                    ELSE IF q.shuffle THEN Len(q.items) ELSE at
        inserted == [i \in 1 .. count |-> physical + i - 1]
    IN  [q EXCEPT
            !.items   = Splice(@, physical, tracks),
            !.order   = IF q.shuffle
                        THEN Splice(ShiftAtOrAfter(@, physical, count), at, inserted)
                        ELSE @,
            !.current = IF at < @ /\ q.items # <<>> THEN @ + count ELSE @,
            !.history = ShiftAtOrAfter(@, at, count)]

(* Mutant: the permutation keeps the physical indices it had. *)
InsertAtReadyOrderStale(q, position, tracks) ==
    LET count    == Len(tracks)
        at       == IF position < QueueLen(q) THEN position ELSE QueueLen(q)
        physical == IF q.shuffle /\ at < Len(q.order) THEN q.order[at + 1]
                    ELSE IF q.shuffle THEN Len(q.items) ELSE at
        inserted == [i \in 1 .. count |-> Len(q.items) + i - 1]
    IN  [q EXCEPT
            !.items   = Splice(@, physical, tracks),
            !.order   = IF q.shuffle THEN Splice(@, at, inserted) ELSE @,
            !.current = IF at <= @ /\ q.items # <<>> THEN @ + count ELSE @,
            !.history = ShiftAtOrAfter(@, at, count)]

InsertAtReady(q, position, tracks) ==
    LET count    == Len(tracks)
        at       == IF position < QueueLen(q) THEN position ELSE QueueLen(q)
        physical == IF q.shuffle /\ at < Len(q.order) THEN q.order[at + 1]
                    ELSE IF q.shuffle THEN Len(q.items) ELSE at
        inserted == [i \in 1 .. count |-> physical + i - 1]
    IN  [q EXCEPT
            !.items   = Splice(@, physical, tracks),
            !.order   = IF q.shuffle
                        THEN Splice(ShiftAtOrAfter(@, physical, count), at, inserted)
                        ELSE @,
            !.current = IF at <= @ /\ q.items # <<>> THEN @ + count ELSE @,
            !.history = ShiftAtOrAfter(@, at, count)]

InsertAtPosition(q, position, tracks) ==
    IF tracks = <<>> THEN {q}
    ELSE {InsertAtReady(r, position, tracks) : r \in Ready(q)}

DropFromReady(q, from) ==
    LET cut     == IF from < QueueLen(q) THEN from ELSE QueueLen(q)
        dropped == IF q.shuffle THEN ToSet(SubSeq(q.order, cut + 1, Len(q.order)))
                   ELSE {i \in IndexSet(q) : i >= from}
        places  == {i \in DOMAIN q.items : i - 1 \notin dropped}
    IN  [q EXCEPT
            !.items   = AtPlaces(@, places),
            !.order   = IF q.shuffle
                        THEN [k \in 1 .. cut |-> Rank(places, @[k] + 1) - 1]
                        ELSE Kept(@, 0 .. Cardinality(places) - 1),
            !.history = Kept(@, 0 .. from - 1)]

(* drop_from, which is all clear_from does to the queue. *)
DropFrom(q, from) == {DropFromReady(r, from) : r \in Ready(q)}

ReplaceFrom(q, from, tracks) == {Add(r, tracks) : r \in DropFrom(q, from)}

(* The tail rearranged by a random permutation: slot i now holds source[i]. *)
ShuffledTail(q, from, source) ==
    LET rearranged(s) == [i \in 1 .. Len(s) |-> IF i <= from THEN s[i]
                                                ELSE s[source[i - from] + 1]]
        newPosition(pos) == from - 1 + (CHOOSE i \in DOMAIN source : source[i] = pos)
    IN  [q EXCEPT
            !.items   = IF q.shuffle THEN @ ELSE rearranged(@),
            !.order   = IF q.shuffle THEN rearranged(@) ELSE @,
            !.history = [i \in DOMAIN @ |-> IF @[i] \in Range(source)
                                            THEN newPosition(@[i]) ELSE @[i]]]

(* Mutant: the shuffle takes in the track before the tail. *)
ShuffleFromOffByOne(q, from) ==
    UNION {IF from + 1 >= QueueLen(r) THEN {r}
           ELSE {ShuffledTail(r, from - 1, s) : s \in SetToSeqs((from - 1) .. (QueueLen(r) - 1))} :
           r \in Ready(q)}

ShuffleFrom(q, from) ==
    UNION {IF from + 1 >= QueueLen(r) THEN {r}
           ELSE {ShuffledTail(r, from, s) : s \in SetToSeqs(from .. (QueueLen(r) - 1))} :
           r \in Ready(q)}

Moved(s, from, to) == Splice(RemoveAt(s, from + 1), to, <<s[from + 1]>>)

MoveItem(q, from, to) ==
    IF from >= QueueLen(q) \/ to >= QueueLen(q) \/ from = to THEN q
    ELSE [q EXCEPT
             !.items   = IF q.shuffle THEN @ ELSE Moved(@, from, to),
             !.order   = IF q.shuffle THEN Moved(@, from, to) ELSE @,
             !.current = RemapQueueIndex(@, from, to),
             !.history = [i \in DOMAIN @ |-> RemapQueueIndex(@[i], from, to)]]

RemoveEntry(q, pos) ==
    IF ~HasTrack(q, pos) THEN q
    ELSE LET physical == PhysicalIndexOf(q, pos)
             left     == Len(q.items) - 1
             closeGap(s, gap) == [i \in DOMAIN s |-> IF s[i] > gap THEN s[i] - 1 ELSE s[i]]
             rest     == IF q.shuffle THEN RemoveAt(q.order, pos + 1)
                         ELSE Kept(q.order, Nat \ {physical})
             moved    == IF pos < q.current THEN q.current - 1 ELSE q.current
         IN  [q EXCEPT
                 !.items   = RemoveAt(@, physical + 1),
                 !.order   = closeGap(rest, physical),
                 !.history = closeGap(Kept(@, Nat \ {pos}), pos),
                 !.current = IF left = 0 THEN 0 ELSE IF moved >= left THEN left - 1 ELSE moved]

(* restore: a queue that was persisted; the position is clamped. *)
Restore(q, items, position, order, shuffle) ==
    LET bare    == [q EXCEPT !.items = items, !.history = <<>>,
                             !.shuffle = shuffle, !.order = order]
        clamped == IF position < Len(items) THEN position ELSE Len(items) - 1
    IN  IF items = <<>> THEN {[bare EXCEPT !.current = 0]}
        ELSE {[r EXCEPT !.current = IF HasTrack(r, clamped) THEN clamped ELSE 0] :
                  r \in Ready(bare)}

-----------------------------------------------------------------------------
(* What the queue says, for the properties *)

Gone == "gone"

TrackOrGone(q, pos) == IF HasTrack(q, pos) THEN TrackAt(q, pos) ELSE Gone

CurrentTrack(q) == TrackOrGone(q, q.current)

(* The tracks the history entries stand for. *)
HistoryTracks(q) == [i \in DOMAIN q.history |-> TrackOrGone(q, q.history[i])]
=============================================================================

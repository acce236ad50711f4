------------------------------ MODULE PlayQueue ------------------------------
(***************************************************************************)
(* The queue as the session actor drives it: every queue operation of the  *)
(* API with the checks its handler makes before it touches the queue, as   *)
(* one action (daemon/core/src/session/mod.rs).  Loading is out of this    *)
(* module: a position that resolves to a track is one that starts.         *)
(*                                                                         *)
(* The operators never look inside a track except through a filter, so the *)
(* tracks handed in are pairwise distinct and not in the queue yet; that   *)
(* makes a track the identity of its queue entry.                          *)
(***************************************************************************)
EXTENDS QueueModel

CONSTANTS
    Track,       \* the tracks that can be queued
    Explicit,    \* those the skip_explicit setting refuses
    MaxLen,      \* bound: the longest queue
    MaxHistory,  \* bound: the longest history
    MaxPosition  \* bound: the largest position in history; a stale one can grow

ASSUME PlayQueueAssumption ==
    /\ IsFiniteSet(Track)
    /\ Explicit \subseteq Track
    /\ MaxLen \in Nat \ {0}
    /\ MaxHistory \in Nat \ {0}
    /\ MaxPosition \in Nat

VARIABLES
    queue,   \* the queue record
    op       \* the operation of the last step, for the step properties

vars == <<queue, op>>

Init ==
    /\ queue = EmptyQueue
    /\ op = "init"

(* One operation: one of the queues it can produce, within the bounds. *)
Becomes(name, results) ==
    \E q \in results :
        /\ Len(q.items) <= MaxLen
        /\ Len(q.history) <= MaxHistory
        /\ \A i \in DOMAIN q.history : q.history[i] <= MaxPosition
        /\ queue' = q
        /\ op' = name

DistinctSeqs(S, lengths) == UNION {SetToSeqs(T) : T \in {U \in SUBSET S : Cardinality(U) \in lengths}}

(* What the filters let through: everything, or what is not explicit. *)
Filters == {Track, Track \ Explicit}

(* Tracks not queued yet, one or two at a time. *)
NewTracks == DistinctSeqs(Track \ ToSet(queue.items), 1 .. 2)

(* Mutant: the upcoming edits own the current track. *)
UpcomingFromCurrent == queue.current

(* First position the upcoming edits own (no transition is pending here). *)
UpcomingFrom == IF queue.items = <<>> THEN 0 ELSE queue.current + 1

-----------------------------------------------------------------------------
(* SetQueue with mode replace: the tracks allowed, an optional shuffle mode, *)
(* and the start position chosen or, without one, the first or a random one. *)
SetQueueReplace(tracks, start, keep, shuffle) ==
    LET kept  == KeptTracks(tracks, keep)
        modes == SetShuffle(Replace(queue, kept), shuffle)
        starts(q) == CASE start \in Nat                        -> {KeptStart(tracks, start, keep)}
                       [] start = Nowhere /\ q.shuffle         -> IndexSet(q)
                       [] start = Nowhere /\ ~q.shuffle        -> {0}
    IN  /\ kept # <<>> \/ tracks = <<>>
        /\ Becomes("replace",
                   IF kept = <<>> THEN modes
                   ELSE UNION {UNION {JumpTo(q, i) : i \in starts(q)} : q \in modes})

SetQueueAppend(tracks) == Becomes("append", {Add(queue, tracks)})

SetQueuePlayNext(tracks) == Becomes("play next", {InsertNext(queue, tracks)})

EditInsert(index, tracks) ==
    /\ index <= Len(queue.items)
    /\ Becomes("insert", InsertAtPosition(queue, index, tracks))

EditClearUpcoming == Becomes("clear upcoming", DropFrom(queue, UpcomingFrom))

EditReplaceUpcoming(tracks) ==
    Becomes("replace upcoming", ReplaceFrom(queue, UpcomingFrom, tracks))

EditShuffleUpcoming ==
    /\ Len(queue.items) > UpcomingFrom + 1
    /\ Becomes("shuffle upcoming", ShuffleFrom(queue, UpcomingFrom))

EditMove(from, to) ==
    /\ from < Len(queue.items) /\ to < Len(queue.items)
    /\ Becomes("move", {MoveItem(queue, from, to)})

EditRemove(index) ==
    /\ index < Len(queue.items)
    /\ index # queue.current
    /\ Becomes("remove", {RemoveEntry(queue, index)})

EditJump(index) == Becomes("jump", JumpToPosition(queue, index))

EditJumpPhysical(index) ==
    /\ index < Len(queue.items)
    /\ Becomes("jump physical", JumpTo(queue, index))

(* play_next and the end-of-track advance. *)
PlayNext(playable) == Becomes("next", AdvanceNext(queue, playable))

(* play_previous: a position without a track does not start, and the queue   *)
(* from before the command comes back.                                       *)
Previous ==
    Becomes("previous", {q \in PreviousPosition(queue) : HasTrack(q, q.current)})

SetModeShuffle(on) == Becomes("shuffle", SetShuffle(queue, on))

SetModeLoop(mode) == Becomes("loop", {[queue EXCEPT !.loop = mode]})

(* The queue of another run or of the source switched to.  A snapshot holds  *)
(* what snapshot() wrote: the order of a queue that shuffles, and what is    *)
(* left of an earlier one when shuffle is off; a remote queue comes without. *)
(* The position can be anything.                                             *)
RestoreQueue(items, position, order, shuffle) ==
    /\ shuffle => Covers(order, Len(items))
    /\ Becomes("restore", Restore(queue, items, position, order, shuffle))

-----------------------------------------------------------------------------
Positions == 0 .. MaxLen

Next ==
    \/ \E tracks \in DistinctSeqs(Track, 0 .. MaxLen), start \in {Nowhere} \cup Positions,
          keep \in Filters, on \in BOOLEAN :
            /\ start < Len(tracks)
            /\ SetQueueReplace(tracks, start, keep, on)
    \/ \E tracks \in NewTracks : SetQueueAppend(tracks)
    \/ \E tracks \in NewTracks : SetQueuePlayNext(tracks)
    \/ \E index \in Positions, tracks \in NewTracks : EditInsert(index, tracks)
    \/ EditClearUpcoming
    \/ \E tracks \in NewTracks : EditReplaceUpcoming(tracks)
    \/ EditShuffleUpcoming
    \/ \E from, to \in Positions : EditMove(from, to)
    \/ \E index \in Positions : EditRemove(index)
    \/ \E index \in Positions : EditJump(index)
    \/ \E index \in Positions : EditJumpPhysical(index)
    \/ \E playable \in Filters : PlayNext(playable)
    \/ Previous
    \/ \E on \in BOOLEAN : SetModeShuffle(on)
    \/ \E mode \in LoopModes : SetModeLoop(mode)
    \/ \E tracks \in DistinctSeqs(Track, 0 .. MaxLen), position \in Positions, on \in BOOLEAN :
          \E order \in DistinctSeqs(0 .. (Len(tracks) - 1), 0 .. Len(tracks)) :
              RestoreQueue(tracks, position, order, on)

Spec == Init /\ [][Next]_vars
-----------------------------------------------------------------------------
CurrentOnQueue ==
    IF queue.items = <<>> THEN queue.current = 0 ELSE HasTrack(queue, queue.current)

(* Types, and the pointer: it is on a track whatever was edited, restored or *)
(* reshuffled, since every command of the session starts from there.        *)
TypeOK ==
    /\ queue.items \in BoundedSeq(Track, MaxLen)
    /\ queue.history \in Seq(Nat) /\ Len(queue.history) <= MaxHistory
    /\ queue.order \in Seq(Nat)
    /\ queue.shuffle \in BOOLEAN
    /\ queue.loop \in LoopModes
    /\ CurrentOnQueue

(* While shuffling the permutation covers the queue after every operation, *)
(* those that splice it by hand included (insert_next, insert_at, remove,  *)
(* drop_from, add); repair_shuffle_order never has to reshuffle.           *)
ShuffleCoversQueue ==
    queue.shuffle => Covers(queue.order, Len(queue.items))

(* Every track of the queue in the order it plays. *)
PlayOrder(q) == [i \in 1 .. Len(q.items) |-> TrackOrGone(q, i - 1)]

(* Next plays the nearest track after the current one that may be played,  *)
(* coming round to the current one when the queue loops; and the arming of *)
(* a crossfade (has_next_track) never promises a track Next does not have. *)
NextIsNearestPlayable ==
    \A playable \in Filters :
        LET order == PlayOrder(queue)
            ahead == SubSeq(order, queue.current + 2, Len(order))
                     \o IF queue.loop = "queue" THEN SubSeq(order, 1, queue.current + 1)
                                                ELSE <<>>
            good  == Kept(ahead, playable)
            next  == PeekNext(queue, playable)
        IN  queue.items # <<>> =>
                /\ ~HasNextTrack(queue) => next = Nowhere
                /\ HasNextTrack(queue) /\ playable = Track => next # Nowhere
                /\ queue.loop = "track" => next = queue.current
                /\ queue.loop # "track" /\ good = <<>> => next = Nowhere
                /\ queue.loop # "track" /\ good # <<>> =>
                       next # Nowhere /\ TrackAt(queue, next) = good[1]

(* Previous after Next is back on the track Next left, whatever was skipped *)
(* on the way and whatever the history held.                                *)
PreviousUndoesNext ==
    \A playable \in Filters :
        \A after \in AdvanceNext(queue, playable) :
            PeekNext(queue, playable) # Nowhere =>
                \A back \in PreviousPosition(after) : back.current = queue.current

Edits == {"append", "play next", "insert", "clear upcoming", "replace upcoming",
          "shuffle upcoming", "move", "remove"}

(* No edit and no mode change moves the pointer to another track. *)
EditsKeepPlaying ==
    [][op' \in Edits \cup {"shuffle", "loop"} /\ queue.items # <<>>
          => CurrentTrack(queue') = CurrentTrack(queue)]_vars

(* Every edit takes the history along: its entries stand for the same tracks *)
(* as before, without those that left the queue.                             *)
EditsKeepHistory ==
    [][op' \in Edits /\ Gone \notin Range(HistoryTracks(queue))
          => HistoryTracks(queue') =
                 Kept(HistoryTracks(queue), ToSet(queue'.items))]_vars

(* Additions leave the running order of the other tracks alone and stay in  *)
(* one piece: after the current track for play next, at the end for append. *)
AdditionsKeepOrder ==
    [][op' \in {"append", "play next", "insert"} =>
          LET old   == PlayOrder(queue)
              new   == PlayOrder(queue')
              added == {i \in 1 .. Len(new) : new[i] \notin ToSet(old)}
          IN  /\ Kept(new, ToSet(old)) = old
              /\ added = Min(added) .. Max(added)
              /\ op' = "append" => Max(added) = Len(new)
              /\ op' = "play next" /\ old # <<>> => Min(added) = queue'.current + 2]_vars

(* The upcoming edits touch nothing up to and including the current track. *)
UpcomingEditsSparePast ==
    [][op' \in {"clear upcoming", "replace upcoming", "shuffle upcoming"} /\ queue.items # <<>> =>
          IsPrefix(SubSeq(PlayOrder(queue), 1, queue.current + 1), PlayOrder(queue'))]_vars
=============================================================================
